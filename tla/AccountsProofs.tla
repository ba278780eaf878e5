--------------------------- MODULE AccountsProofs ---------------------------
(***************************************************************************)
(* Users and sessions, Agent Connect, and profiles: for any number of      *)
(* each, access is controlled, an account of a user has one profile, and   *)
(* permissions and statuses are earned.                                    *)
(***************************************************************************)
EXTENDS MCAccounts, FiniteSetTheorems, TLAPS

(***************************************************************************)
(* Users and sessions.                                                     *)
(***************************************************************************)
UserRow == [role : S!Roles, active : BOOLEAN]
SessionRow == [of : Users \cup {"none"}, ended : BOOLEAN, made : 0 .. MaxEra]
SessionsType ==
    /\ user \in [Users -> UserRow]
    /\ session \in [Tokens -> SessionRow]
    /\ era \in [Users -> 0 .. MaxEra]
    /\ crossed \in BOOLEAN

(* An update goes on with the row it loaded.                               *)
Proper(r) ==
    /\ r.target \in Users \cup {"none"}
    /\ r.kind # "none" => r.target \in Users
    /\ r.kind = "update" => /\ r.role \in {"keep"} \cup S!Roles
                            /\ r.active \in {"keep", "yes", "no"}
                            /\ r.copy \in UserRow
ThreadShape == thread = [i \in Threads |-> thread[i]] /\ \A i \in Threads : Proper(thread[i])

(* A session that has not ended was made in the present era of its user,   *)
(* active or not: so it is of no use when the user is enabled again.       *)
Current == \A t \in Tokens :
    session[t].of # "none" /\ ~session[t].ended => session[t].made = era[session[t].of]

(* Until updates cross, the one that is under way wrote down a row that    *)
(* did not change, and its checks still hold.                              *)
StillAllowed(r) ==
    /\ r.copy = user[r.target]
    /\ (r.role = "USER" \/ r.active = "no") /\ r.target \in S!ActiveAdmins =>
           \E u \in S!ActiveAdmins : u # r.target
Guarded == ~crossed =>
    /\ S!ActiveAdmins # {}
    /\ \A i, j \in S!Updating : i = j
    /\ \A i \in S!Updating : StillAllowed(thread[i])

SessionsInv == SessionsType /\ ThreadShape /\ Current /\ Guarded

LEMMA SameCardinality == \A T : S!Cardinality(T) = Cardinality(T)
  BY DEF S!Cardinality, Cardinality

(* Who counts two active administrators is not the only one.               *)
LEMMA AnotherAdmin ==
    ASSUME SessionsType, NEW u \in S!ActiveAdmins, ~(Cardinality(S!ActiveAdmins) <= 1)
    PROVE  \E v \in S!ActiveAdmins : v # u
<1> SUFFICES ASSUME \A v \in S!ActiveAdmins : v = u
             PROVE  FALSE
  OBVIOUS
<1>1. S!ActiveAdmins = {u}
  OBVIOUS
<1>2. Cardinality({u}) = 1
  BY FS_Singleton
<1> QED BY <1>1, <1>2

LEMMA SessionsInitially == S!Init => SessionsInv
<1> SUFFICES ASSUME S!Init
             PROVE  SessionsInv
  OBVIOUS
<1> USE DEF S!Init, S!Roles
<1>1. user \in [Users -> UserRow]
  BY DEF UserRow
<1>2. session \in [Tokens -> SessionRow]
  BY UsersAssumption DEF SessionRow, S!NoSession
<1>3. thread = [i \in Threads |-> thread[i]]
  OBVIOUS
<1>4. ThreadShape
  BY <1>3 DEF ThreadShape, Proper, S!Ready
<1>5. era \in [Users -> 0 .. MaxEra]
  BY UsersAssumption
<1>9. crossed \in BOOLEAN
  BY Zenon
<1>6. Current
  BY DEF Current, S!NoSession
<1>7. S!ActiveAdmins # {} /\ S!Updating = {}
  BY UsersAssumption DEF S!ActiveAdmins, S!Updating, S!Ready
<1>8. Guarded
  BY <1>7 DEF Guarded
<1> QED BY <1>1, <1>2, <1>4, <1>5, <1>9, <1>6, <1>8 DEF SessionsInv, SessionsType

(* The checks still hold where no row of a user is written.                *)
LEMMA GuardStill ==
    ASSUME Guarded, user' = user, ~crossed' => ~crossed,
           \A j \in S!Updating' : j \in S!Updating /\ thread'[j] = thread[j]
    PROVE  Guarded'
<1>1. S!ActiveAdmins' = S!ActiveAdmins
  BY DEF S!ActiveAdmins
<1> SUFFICES ASSUME ~crossed'
             PROVE  /\ S!ActiveAdmins' # {}
                    /\ \A i, j \in S!Updating' : i = j
                    /\ \A i \in S!Updating' : StillAllowed(thread[i])'
  BY DEF Guarded
<1>2. \A i \in S!Updating' : StillAllowed(thread[i])'
  BY <1>1 DEF Guarded, StillAllowed
<1> QED BY <1>1, <1>2 DEF Guarded

(* A session is opened for the present era, or ends.                       *)
LEMMA AuthenticateKeeps ==
    ASSUME SessionsInv, NEW i \in Threads, NEW u \in Users, S!Authenticate(i, u)
    PROVE  SessionsInv'
<1> USE DEF S!Authenticate
<1>1. SessionsType' /\ Current'
  BY DEF SessionsInv, SessionsType, Current
<1>2. ThreadShape'
  BY DEF SessionsInv, ThreadShape, Proper, S!Ready
<1>3. \A j \in S!Updating' : j \in S!Updating /\ thread'[j] = thread[j]
  BY DEF SessionsInv, ThreadShape, S!Updating, S!Ready
<1>5. crossed' = crossed
  BY Zenon
<1>4. Guarded'
  BY <1>3, <1>5, GuardStill DEF SessionsInv
<1> QED BY <1>1, <1>2, <1>4 DEF SessionsInv

LEMMA CreateSessionKeeps ==
    ASSUME SessionsInv, NEW i \in Threads, NEW t \in Tokens, S!CreateSession(i, t)
    PROVE  SessionsInv'
<1> USE DEF S!CreateSession
<1>1. thread[i].target \in Users
  BY DEF SessionsInv, ThreadShape, Proper
<1>2. SessionsType'
  BY <1>1 DEF SessionsInv, SessionsType, SessionRow, S!NoSession
<1>3. Current'
  BY <1>1 DEF SessionsInv, SessionsType, Current, SessionRow, S!NoSession
<1>4. ThreadShape'
  BY DEF SessionsInv, ThreadShape, Proper, S!Ready
<1>5. \A j \in S!Updating' : j \in S!Updating /\ thread'[j] = thread[j]
  BY DEF SessionsInv, ThreadShape, S!Updating, S!Ready
<1>7. crossed' = crossed
  BY Zenon
<1>6. Guarded'
  BY <1>5, <1>7, GuardStill DEF SessionsInv
<1> QED BY <1>2, <1>3, <1>4, <1>6 DEF SessionsInv

LEMMA EndingKeeps ==
    ASSUME SessionsInv, NEW t \in Tokens, S!Logout(t) \/ S!ExpireSession(t)
    PROVE  SessionsInv'
<1> USE DEF S!Logout, S!ExpireSession
<1>1. SessionsType' /\ Current'
  BY DEF SessionsInv, SessionsType, Current, SessionRow
<1>2. user' = user /\ thread' = thread /\ S!Updating' = S!Updating
  BY DEF S!Updating
<1>4. crossed' = crossed
  BY Zenon
<1>5. ThreadShape'
  BY <1>2 DEF SessionsInv, ThreadShape, Proper
<1>3. Guarded'
  BY <1>2, <1>4, GuardStill DEF SessionsInv
<1> QED BY <1>1, <1>5, <1>3 DEF SessionsInv

LEMMA CheckUpdateKeeps ==
    ASSUME SessionsInv, NEW i \in Threads, NEW a \in Users, NEW u \in Users,
           NEW role \in {"keep"} \cup S!Roles, NEW active \in {"keep", "yes", "no"},
           S!CheckUpdate(i, a, u, role, active)
    PROVE  SessionsInv'
<1>r. PICK rec : rec = [kind |-> "update", target |-> u, role |-> role,
                        active |-> active, copy |-> user[u]]
  OBVIOUS
<1>t. thread' = [thread EXCEPT ![i] = rec]
  BY <1>r DEF S!CheckUpdate
<1>f. /\ rec.kind = "update" /\ rec.target = u /\ rec.copy = user[u]
      /\ rec.role = role /\ rec.active = active
  BY <1>r
<1>s. user' = user /\ session' = session /\ era' = era
  BY DEF S!CheckUpdate
<1>c. crossed' = (crossed \/ S!Updating # {})
  BY Zenon DEF S!CheckUpdate
<1>1. SessionsType' /\ Current'
  <2>1. crossed' \in BOOLEAN
    BY <1>c
  <2> QED BY <1>s, <2>1 DEF SessionsInv, SessionsType, Current
<1>2. Proper(rec)
  BY <1>f DEF SessionsInv, SessionsType, Proper
<1>3. ThreadShape'
  BY <1>2, <1>t DEF SessionsInv, ThreadShape, Proper
<1>4. ASSUME ~crossed'
      PROVE  /\ S!ActiveAdmins' # {}
             /\ \A j, k \in S!Updating' : j = k
             /\ \A j \in S!Updating' : StillAllowed(thread[j])'
  <2>1. ~crossed /\ S!Updating = {}
    BY Zenon, <1>4, <1>c
  <2>2. S!ActiveAdmins' = S!ActiveAdmins
    BY <1>s DEF S!ActiveAdmins
  <2>3. \A j \in S!Updating' : j = i /\ thread'[j] = rec
    BY <2>1, <1>t DEF SessionsInv, ThreadShape, S!Updating
  <2>4. (role = "USER" \/ active = "no") /\ u \in S!ActiveAdmins =>
            ~(Cardinality(S!ActiveAdmins) <= 1)
    <3>1. S!Allowed(a, u, role, active)
      BY Zenon DEF S!CheckUpdate
    <3>2. u \in S!ActiveAdmins => user[u].role = "ADMIN" /\ user[u].active
      BY DEF S!ActiveAdmins
    <3> QED BY Zenon, <3>1, <3>2, SameCardinality DEF S!Allowed
  <2>5. (role = "USER" \/ active = "no") /\ u \in S!ActiveAdmins =>
            \E v \in S!ActiveAdmins : v # u
    BY <2>4, AnotherAdmin DEF SessionsInv
  <2>6. \A j \in S!Updating' : StillAllowed(thread[j])'
    BY <2>2, <2>3, <2>5, <1>f, <1>s DEF StillAllowed
  <2>7. S!ActiveAdmins # {}
    BY <2>1 DEF SessionsInv, Guarded
  <2> QED BY <2>2, <2>3, <2>6, <2>7
<1>5. Guarded'
  BY <1>4 DEF Guarded
<1> QED BY <1>1, <1>3, <1>5 DEF SessionsInv

(* What Revoked leaves is in no era of the user.                           *)
LEMMA RevokedKeeps ==
    ASSUME SessionsInv, NEW u \in Users, era[u] < MaxEra,
           session' = S!Revoked(u), era' = [era EXCEPT ![u] = @ + 1]
    PROVE  /\ session' \in [Tokens -> SessionRow]
           /\ era' \in [Users -> 0 .. MaxEra]
           /\ Current'
<1>1. \A t \in Tokens : session[t] \in SessionRow
  BY DEF SessionsInv, SessionsType
<1>2. \A t \in Tokens : [session[t] EXCEPT !.ended = TRUE] \in SessionRow
  BY <1>1 DEF SessionRow
<1>3. session' \in [Tokens -> SessionRow]
  BY <1>1, <1>2 DEF S!Revoked
<1>4. era' \in [Users -> 0 .. MaxEra]
  BY UsersAssumption DEF SessionsInv, SessionsType
<1>5. ASSUME NEW t \in Tokens, session'[t].of # "none", ~session'[t].ended
      PROVE  session'[t].made = era'[session'[t].of]
  <2>1. session[t].of # u
    <3> SUFFICES ASSUME session[t].of = u
                 PROVE  FALSE
      OBVIOUS
    <3>1. session'[t] = [session[t] EXCEPT !.ended = TRUE]
      BY DEF S!Revoked
    <3>2. session'[t].ended
      BY <3>1, <1>1 DEF SessionRow
    <3> QED BY <3>2, <1>5
  <2>2. session'[t] = session[t]
    BY <2>1 DEF S!Revoked
  <2>3. session[t].of \in Users /\ session[t].made = era[session[t].of]
    BY <1>1, <1>5, <2>2 DEF SessionsInv, Current, SessionRow
  <2> QED BY <2>1, <2>2, <2>3 DEF SessionsInv, SessionsType
<1> QED BY <1>3, <1>4, <1>5 DEF Current

LEMMA ResetPasswordKeeps ==
    ASSUME SessionsInv, NEW a \in Users, NEW u \in Users, S!ResetPassword(a, u)
    PROVE  SessionsInv'
<1>s. user' = user /\ thread' = thread
  BY DEF S!ResetPassword
<1>c. crossed' = crossed
  BY Zenon DEF S!ResetPassword
<1>1. /\ session' \in [Tokens -> SessionRow] /\ era' \in [Users -> 0 .. MaxEra]
      /\ Current'
  BY RevokedKeeps DEF S!ResetPassword
<1>2. SessionsType' /\ ThreadShape'
  BY <1>1, <1>s, <1>c DEF SessionsInv, SessionsType, ThreadShape, Proper
<1>3. Guarded'
  BY <1>s, <1>c, GuardStill DEF SessionsInv, S!Updating
<1> QED BY <1>1, <1>2, <1>3 DEF SessionsInv

(* A row with both columns written.                                        *)
With(r, x, y) == [r EXCEPT !.role = x, !.active = y]
LEMMA UpdatedRow ==
    ASSUME NEW r \in UserRow, NEW x \in S!Roles, NEW y \in BOOLEAN
    PROVE  With(r, x, y) \in UserRow /\ With(r, x, y).role = x /\ With(r, x, y).active = y
  BY DEF UserRow, With

(* What an update writes, where the row is still the one it loaded.        *)
LEMMA WrittenRow ==
    ASSUME SessionsInv, NEW i \in Threads, S!WriteUpdate(i),
           NEW u \in Users, u = thread[i].target
    PROVE  /\ user' \in [Users -> UserRow]
           /\ \A v \in Users : v # u => user'[v] = user[v]
           /\ thread[i].copy = user[u] =>
                  /\ thread[i].role # "USER" /\ user[u].role = "ADMIN"
                         => user'[u].role = "ADMIN"
                  /\ thread[i].active # "no" /\ user[u].active => user'[u].active
<1> DEFINE role == IF thread[i].role = "keep" THEN thread[i].copy.role ELSE thread[i].role
           active == IF thread[i].active = "keep" THEN thread[i].copy.active
                     ELSE thread[i].active = "yes"
           newRole == S!Changed(user[u].role, thread[i].copy.role, role)
           newActive == S!Changed(user[u].active, thread[i].copy.active, active)
<1>r. /\ thread[i].role \in {"keep"} \cup S!Roles /\ thread[i].copy \in UserRow
      /\ thread[i].active \in {"keep", "yes", "no"}
  BY DEF SessionsInv, ThreadShape, Proper, S!WriteUpdate
<1>u. user \in [Users -> UserRow] /\ user[u] \in UserRow
  BY DEF SessionsInv, SessionsType
<1>1. user' = [user EXCEPT ![u].role = newRole, ![u].active = newActive]
  BY DEF S!WriteUpdate
<1>2. newRole \in S!Roles
  BY <1>r, <1>u DEF S!Changed, UserRow, S!Roles
<1>3. newActive \in BOOLEAN
  BY <1>r, <1>u DEF S!Changed, UserRow
<1> HIDE DEF newRole, newActive
<1> DEFINE row == With(user[u], newRole, newActive)
<1>4. user' = [user EXCEPT ![u] = row]
  BY <1>1, <1>u DEF With
<1>9. row \in UserRow /\ row.role = newRole /\ row.active = newActive
  BY Zenon, <1>2, <1>3, <1>u, UpdatedRow
<1> HIDE DEF row
<1>5. user' \in [Users -> UserRow] /\ \A v \in Users : v # u => user'[v] = user[v]
  BY <1>4, <1>9, <1>u
<1>6. user'[u] = row
  BY <1>4, <1>u
<1>7. ASSUME thread[i].copy = user[u], thread[i].role # "USER", user[u].role = "ADMIN"
      PROVE  newRole = "ADMIN"
  BY <1>7, <1>r DEF newRole, S!Changed, S!Roles
<1>8. ASSUME thread[i].copy = user[u], thread[i].active # "no", user[u].active
      PROVE  newActive
  BY <1>8, <1>r DEF newActive, S!Changed
<1> QED BY <1>5, <1>6, <1>7, <1>8, <1>9

LEMMA WriteUpdateKeeps ==
    ASSUME SessionsInv, NEW i \in Threads, S!WriteUpdate(i)
    PROVE  SessionsInv'
<1>u. PICK u \in Users : u = thread[i].target
  BY DEF SessionsInv, ThreadShape, Proper, S!WriteUpdate
<1>t. thread' = [thread EXCEPT ![i] = S!Ready]
  BY DEF S!WriteUpdate
<1>c. crossed' = crossed
  BY Zenon DEF S!WriteUpdate
<1>1. /\ user' \in [Users -> UserRow]
      /\ \A v \in Users : v # u => user'[v] = user[v]
      /\ thread[i].copy = user[u] =>
             /\ thread[i].role # "USER" /\ user[u].role = "ADMIN" => user'[u].role = "ADMIN"
             /\ thread[i].active # "no" /\ user[u].active => user'[u].active
  BY <1>u, WrittenRow
<1>2. /\ session' \in [Tokens -> SessionRow] /\ era' \in [Users -> 0 .. MaxEra]
      /\ Current'
  <2>1. CASE thread[i].active = "no"
    BY <2>1, <1>u, RevokedKeeps DEF S!WriteUpdate
  <2>2. CASE thread[i].active # "no"
    BY <2>2, <1>u DEF S!WriteUpdate, SessionsInv, SessionsType, Current
  <2> QED BY <2>1, <2>2
<1>3. SessionsType' /\ ThreadShape'
  <2>1. crossed' \in BOOLEAN
    BY Zenon, <1>c DEF SessionsInv, SessionsType
  <2>2. ThreadShape'
    BY <1>t DEF SessionsInv, ThreadShape, Proper, S!Ready
  <2> QED BY <1>1, <1>2, <2>1, <2>2 DEF SessionsType
<1>4. ASSUME ~crossed'
      PROVE  /\ S!ActiveAdmins' # {}
             /\ S!Updating' = {}
  <2>1. ~crossed
    BY Zenon, <1>4, <1>c
  <2>2. i \in S!Updating
    BY DEF S!Updating, S!WriteUpdate
  <2>3. S!Updating' = {}
    BY <2>1, <2>2, <1>t DEF SessionsInv, Guarded, ThreadShape, S!Updating, S!Ready
  <2>4. /\ thread[i].copy = user[u]
        /\ (thread[i].role = "USER" \/ thread[i].active = "no") /\ u \in S!ActiveAdmins =>
               \E v \in S!ActiveAdmins : v # u
    BY <2>1, <2>2, <1>u DEF SessionsInv, Guarded, StillAllowed
  <2>5. PICK a \in S!ActiveAdmins : a = u => thread[i].role # "USER" /\ thread[i].active # "no"
    BY <2>1, <2>4 DEF SessionsInv, Guarded
  <2>6. a \in Users /\ user[a].role = "ADMIN" /\ user[a].active
    BY DEF S!ActiveAdmins
  <2>7. CASE a # u
    <3>1. user'[a] = user[a]
      BY <2>6, <2>7, <1>1
    <3>2. user'[a].role = "ADMIN" /\ user'[a].active
      BY <2>6, <3>1
    <3> QED BY <2>3, <2>6, <3>2 DEF S!ActiveAdmins
  <2>8. CASE a = u
    <3>1. user'[a].role = "ADMIN" /\ user'[a].active
      BY <2>4, <2>5, <2>6, <2>8, <1>1
    <3> QED BY <2>3, <2>6, <3>1 DEF S!ActiveAdmins
  <2> QED BY <2>7, <2>8
<1>5. Guarded'
  BY <1>4 DEF Guarded
<1> QED BY <1>2, <1>3, <1>5 DEF SessionsInv

LEMMA SessionsStep == SessionsInv /\ S!Next => SessionsInv'
<1> SUFFICES ASSUME SessionsInv, S!Next
             PROVE  SessionsInv'
  OBVIOUS
<1>1. ASSUME NEW i \in Threads, NEW u \in Users, S!Authenticate(i, u) PROVE SessionsInv'
  BY <1>1, AuthenticateKeeps
<1>2. ASSUME NEW i \in Threads, NEW t \in Tokens, S!CreateSession(i, t) PROVE SessionsInv'
  BY <1>2, CreateSessionKeeps
<1>3. ASSUME NEW i \in Threads, NEW a \in Users, NEW u \in Users,
             NEW role \in {"keep"} \cup S!Roles, NEW active \in {"keep", "yes", "no"},
             S!CheckUpdate(i, a, u, role, active)
      PROVE  SessionsInv'
  BY <1>3, CheckUpdateKeeps
<1>4. ASSUME NEW i \in Threads, S!WriteUpdate(i) PROVE SessionsInv'
  BY <1>4, WriteUpdateKeeps
<1>5. ASSUME NEW t \in Tokens, S!Logout(t) \/ S!ExpireSession(t) PROVE SessionsInv'
  BY <1>5, EndingKeeps
<1>6. ASSUME NEW a \in Users, NEW u \in Users, S!ResetPassword(a, u) PROVE SessionsInv'
  BY <1>6, ResetPasswordKeeps
<1> QED BY <1>1, <1>2, <1>3, <1>4, <1>5, <1>6 DEF S!Next

LEMMA SessionsStutter == SessionsInv /\ UNCHANGED sVars => SessionsInv'
<1> SUFFICES ASSUME SessionsInv, UNCHANGED sVars
             PROVE  SessionsInv'
  OBVIOUS
<1>1. user' = user /\ session' = session /\ thread' = thread /\ era' = era
  BY DEF sVars
<1>2. crossed' = crossed
  BY Zenon DEF sVars
<1>3. SessionsType' /\ ThreadShape' /\ Current'
  BY <1>1, <1>2 DEF SessionsInv, SessionsType, ThreadShape, Proper, Current
<1>4. Guarded'
  BY <1>1, <1>2, GuardStill DEF SessionsInv, S!Updating
<1> QED BY <1>3, <1>4 DEF SessionsInv

LEMMA SessionsGive == SessionsInv => AccessIsControlled
<1> SUFFICES ASSUME SessionsInv
             PROVE  AccessIsControlled
  OBVIOUS
<1>1. S!TypeOK
  BY DEF S!TypeOK, SessionsInv, SessionsType, ThreadShape, Proper, UserRow, SessionRow
<1>2. S!SessionsEnd
  BY DEF S!SessionsEnd, S!Usable, SessionsInv, Current
<1>3. S!AnAdminRemains
  BY DEF S!AnAdminRemains, SessionsInv, Guarded
<1> QED BY <1>1, <1>2, <1>3 DEF AccessIsControlled

(***************************************************************************)
(* Agent Connect.                                                          *)
(***************************************************************************)

(* A request past its first await has a session, and one that reads a      *)
(* wallet has a sub-account that exists.                                   *)
CallShape(r, existing) == /\ r.pc # "free" => r.id \in AuthIds
                          /\ r.pc = "wallet" => r.sub \in existing
AuthShape(r) == r \in O!Auths /\ (r.status = "AUTHORIZED" => r.token)

Authorizations == /\ auth \in [AuthIds -> O!Auths]
                  /\ O!AuthorizedHasToken
CallsInv == /\ call \in [Callers -> O!Calls]
            /\ \A c \in Callers : CallShape(call[c], subs)
Links == /\ codes \subseteq AuthIds
         /\ subs \subseteq Subs
         /\ linked \in Seq(O!Profiles)
         /\ \A i \in DOMAIN linked : linked[i].sub \in subs
         /\ O!OneProfilePerSub
OAuthInv == Authorizations /\ CallsInv /\ Links

(* The columns that a request sets together.                               *)
Stored(r, status, token, verifier) ==
    [r EXCEPT !.status = status, !.token = token, !.verifier = verifier]

LEMMA StoredRow ==
    ASSUME NEW r \in O!Auths, NEW x \in {"NONE", "WAITING", "AUTHORIZED", "FAILED"},
           NEW y \in BOOLEAN, NEW z \in BOOLEAN, x = "AUTHORIZED" => y
    PROVE  AuthShape(Stored(r, x, y, z))
<1>1. Stored(r, x, y, z) \in O!Auths
  BY DEF O!Auths, Stored
<1>2. Stored(r, x, y, z).status = x
  BY DEF O!Auths, Stored
<1>3. Stored(r, x, y, z).token = y
  BY DEF O!Auths, Stored
<1> QED BY <1>1, <1>2, <1>3 DEF AuthShape

(* What is written of one session.                                         *)
LEMMA AuthWritten ==
    ASSUME Authorizations, NEW s \in AuthIds, NEW r, AuthShape(r),
           auth' = [auth EXCEPT ![s] = r]
    PROVE  Authorizations'
  BY DEF Authorizations, AuthShape, O!AuthorizedHasToken

LEMMA AuthSet ==
    ASSUME Authorizations, NEW s \in AuthIds,
           NEW x \in {"NONE", "WAITING", "AUTHORIZED", "FAILED"},
           NEW y \in BOOLEAN, NEW z \in BOOLEAN, x = "AUTHORIZED" => y,
           O!Set(s, x, y, z)
    PROVE  Authorizations'
<1>1. auth[s] \in O!Auths
  BY DEF Authorizations
<1>2. auth' = [auth EXCEPT ![s] = Stored(auth[s], x, y, z)]
  BY DEF Authorizations, O!Set, Stored
<1> HIDE DEF Stored
<1> QED BY <1>1, <1>2, StoredRow, AuthWritten

LEMMA AuthorizeKeeps ==
    ASSUME Authorizations, NEW s \in AuthIds, O!Authorize(s)
    PROVE  Authorizations'
  BY AuthSet DEF O!Authorize

(* A status that reports less needs no token.                              *)
LEMMA RejectKeeps ==
    ASSUME Authorizations, NEW s \in AuthIds, O!Reject(s)
    PROVE  Authorizations'
<1>1. auth[s] \in O!Auths
  BY DEF Authorizations
<1>2. AuthShape([auth[s] EXCEPT !.status = "FAILED"])
  BY <1>1 DEF AuthShape, O!Auths
<1>3. auth' = [auth EXCEPT ![s] = [auth[s] EXCEPT !.status = "FAILED"]]
  BY DEF Authorizations, O!Reject
<1> QED BY <1>2, <1>3, AuthWritten

LEMMA UnlistKeeps ==
    ASSUME Authorizations, NEW s \in AuthIds,
           auth' = [auth EXCEPT ![s].listed = FALSE]
    PROVE  Authorizations'
<1>1. AuthShape(auth[s])
  BY DEF Authorizations, AuthShape, O!AuthorizedHasToken
<1>2. AuthShape([auth[s] EXCEPT !.listed = FALSE])
  BY <1>1 DEF AuthShape, O!Auths
<1>3. auth' = [auth EXCEPT ![s] = [auth[s] EXCEPT !.listed = FALSE]]
  BY DEF Authorizations
<1> QED BY <1>2, <1>3, AuthWritten

(* What a request goes on with, and what it leaves when it ends.           *)
LEMMA CallWritten ==
    ASSUME CallsInv, NEW c \in Callers, NEW r \in O!Calls, CallShape(r, subs'),
           subs \subseteq subs', call' = [call EXCEPT ![c] = r]
    PROVE  CallsInv'
  BY DEF CallsInv, CallShape

LEMMA EndKeeps ==
    ASSUME CallsInv, NEW c \in Callers, O!End(c), subs' = subs
    PROVE  CallsInv'
<1>1. O!Free \in O!Calls /\ CallShape(O!Free, subs')
  BY DEF O!Free, O!Calls, CallShape
<1> QED BY <1>1, CallWritten DEF O!End

LEMMA GoKeeps ==
    ASSUME CallsInv, NEW c \in Callers, call[c].pc # "free",
           NEW pc \in {"exchange", "accounts", "wallet"}, O!Go(c, pc),
           pc = "wallet" => call[c].sub \in subs, subs' = subs
    PROVE  CallsInv'
<1>1. call[c] \in O!Calls /\ CallShape(call[c], subs)
  BY DEF CallsInv
<1> DEFINE r == [call[c] EXCEPT !.pc = pc]
<1>2. r \in O!Calls /\ CallShape(r, subs)
  BY <1>1 DEF O!Calls, CallShape
<1>3. call' = [call EXCEPT ![c] = r]
  BY DEF CallsInv, O!Go
<1> QED BY <1>2, <1>3, CallWritten

LEMMA EnterKeeps ==
    ASSUME CallsInv, NEW c \in Callers, NEW pc \in {"bearer", "callback", "choose"},
           NEW s \in AuthIds, NEW sub \in Subs \cup {"none", "new"},
           O!Enter(c, pc, s, sub), subs' = subs
    PROVE  CallsInv'
<1> DEFINE r == [pc |-> pc, id |-> s, sub |-> sub]
<1>1. r \in O!Calls /\ CallShape(r, subs)
  BY DEF O!Calls, CallShape
<1>2. call' = [call EXCEPT ![c] = r]
  BY DEF O!Enter
<1> QED BY <1>1, <1>2, CallWritten

LEMMA LinksStill ==
    ASSUME Links, codes' \subseteq codes, UNCHANGED <<subs, linked>>
    PROVE  Links'
  BY DEF Links, O!OneProfilePerSub

LEMMA LinksGrow ==
    ASSUME Links, subs \subseteq subs', subs' \subseteq Subs, UNCHANGED <<codes, linked>>
    PROVE  Links'
  BY DEF Links, O!OneProfilePerSub

(* The profile that is saved is the only one of its owner with its label   *)
(* and with its sub-account.                                               *)
LEMMA LinksAppend ==
    ASSUME Links, NEW p \in O!Profiles, p.sub \in subs, ~O!Linked(p),
           linked' = Append(linked, p), UNCHANGED <<codes, subs>>
    PROVE  Links'
<1>1. linked \in Seq(O!Profiles) /\ Len(linked) \in Nat
  BY DEF Links
<1>2. linked' \in Seq(O!Profiles) /\ DOMAIN linked' = 1 .. Len(linked) + 1
  BY <1>1
<1>3. /\ \A i \in 1 .. Len(linked) : linked'[i] = linked[i]
      /\ linked'[Len(linked) + 1] = p
  BY <1>1
<1>4. DOMAIN linked = 1 .. Len(linked)
  BY <1>1
<1>5. \A i \in 1 .. Len(linked) + 1 : i \in 1 .. Len(linked) \/ i = Len(linked) + 1
  BY <1>1
<1>6. \A i \in DOMAIN linked : linked[i].owner = p.owner =>
          linked[i].label # p.label /\ linked[i].sub # p.sub
  BY DEF O!Linked, O!Saved
<1>7. (\A i \in DOMAIN linked : linked[i].sub \in subs)'
  BY <1>2, <1>3, <1>4, <1>5 DEF Links
<1>8. O!OneProfilePerSub'
  <2> SUFFICES ASSUME NEW i \in DOMAIN linked', NEW j \in DOMAIN linked', i # j,
                      linked'[i].owner = linked'[j].owner
               PROVE  linked'[i].label # linked'[j].label /\ linked'[i].sub # linked'[j].sub
    BY DEF O!OneProfilePerSub
  <2>1. CASE i \in DOMAIN linked /\ j \in DOMAIN linked
    BY <1>3, <1>4, <2>1 DEF Links, O!OneProfilePerSub
  <2>2. CASE i \in DOMAIN linked /\ j = Len(linked) + 1
    BY <1>3, <1>4, <1>6, <2>2
  <2>3. CASE i = Len(linked) + 1 /\ j \in DOMAIN linked
    BY <1>3, <1>4, <1>6, <2>3
  <2> QED BY <1>2, <1>4, <1>5, <2>1, <2>2, <2>3
<1> QED BY <1>2, <1>7, <1>8 DEF Links

(* A value that is given up gives up its token with the status.            *)
LEMMA GiveUpKeeps ==
    ASSUME Authorizations, CallsInv, NEW c \in Callers, call[c].pc # "free",
           O!GiveUpManual(c), subs' = subs
    PROVE  Authorizations' /\ CallsInv'
<1>1. call[c].id \in AuthIds
  BY DEF CallsInv, CallShape
<1>2. auth[call[c].id].verifier \in BOOLEAN
  BY <1>1 DEF Authorizations, O!Auths
<1>3. Authorizations'
  BY <1>1, <1>2, AuthSet DEF O!GiveUpManual
<1>4. CallsInv'
  BY EndKeeps DEF O!GiveUpManual
<1> QED BY <1>3, <1>4

LEMMA SessionBegins ==
    ASSUME OAuthInv, NEW s \in AuthIds, NEW u \in Users, O!StartAuth(s, u)
    PROVE  OAuthInv'
<1>1. call' = call /\ codes' = codes /\ UNCHANGED <<subs, linked>>
  BY DEF O!StartAuth, O!AtBybit
<1> DEFINE r == [user |-> u, status |-> "WAITING", token |-> FALSE, verifier |-> TRUE,
                 listed |-> TRUE]
<1>2. AuthShape(r)
  BY DEF AuthShape, O!Auths
<1>3. auth' = [auth EXCEPT ![s] = r]
  BY DEF O!StartAuth
<1>4. Authorizations'
  BY <1>2, <1>3, AuthWritten DEF OAuthInv
<1> QED BY <1>1, <1>4, LinksStill DEF OAuthInv, CallsInv

LEMMA SessionForgotten ==
    ASSUME OAuthInv, NEW s \in AuthIds, O!Forget(s)
    PROVE  OAuthInv'
<1>1. call' = call /\ codes' = codes /\ UNCHANGED <<subs, linked>>
  BY DEF O!Forget, O!AtBybit
<1>2. Authorizations'
  BY UnlistKeeps DEF O!Forget, OAuthInv
<1> QED BY <1>1, <1>2, LinksStill DEF OAuthInv, CallsInv

LEMMA SessionEntered ==
    ASSUME OAuthInv, NEW c \in Callers, NEW s \in AuthIds,
           \/ O!StartManual(c, s) \/ O!StartCallback(c, s)
           \/ \E sub \in Subs \cup {"new"} : O!StartSelect(c, s, sub)
    PROVE  OAuthInv'
<1>1. codes' = codes /\ UNCHANGED <<subs, linked>>
  BY DEF O!StartManual, O!StartCallback, O!StartSelect, O!AtBybit
<1>2. Links'
  BY <1>1, LinksStill DEF OAuthInv
<1>3. ASSUME NEW pc \in {"bearer", "callback", "choose"},
             NEW sub \in Subs \cup {"none", "new"},
             O!Enter(c, pc, s, sub), auth' = auth
      PROVE  Authorizations' /\ CallsInv'
  BY <1>1, <1>3, EnterKeeps DEF OAuthInv, Authorizations, O!AuthorizedHasToken
<1>4. CASE O!StartManual(c, s)
  BY <1>2, <1>3, <1>4 DEF O!StartManual, OAuthInv
<1>5. CASE O!StartCallback(c, s)
  <2>1. CASE O!Reject(s) /\ UNCHANGED call
    BY <1>1, <1>2, <2>1, RejectKeeps DEF OAuthInv, CallsInv
  <2>2. CASE O!Enter(c, "callback", s, "none") /\ UNCHANGED auth
    BY <1>2, <1>3, <2>2 DEF OAuthInv
  <2> QED BY <1>5, <2>1, <2>2 DEF O!StartCallback
<1>6. ASSUME NEW sub \in Subs \cup {"new"}, O!StartSelect(c, s, sub)
      PROVE  OAuthInv'
  BY <1>2, <1>3, <1>6 DEF O!StartSelect, OAuthInv
<1> QED BY <1>4, <1>5, <1>6

LEMMA Authorizing ==
    ASSUME OAuthInv, NEW c \in Callers,
           O!Bearer(c) \/ O!Exchange(c) \/ O!Accounts(c) \/ O!Callback(c)
    PROVE  OAuthInv'
<1>1. call[c].pc # "free" /\ call[c].id \in AuthIds
  BY DEF O!Bearer, O!Exchange, O!Accounts, O!Callback, OAuthInv, CallsInv, CallShape
<1>2. codes' \subseteq codes /\ subs' = subs /\ linked' = linked
  BY DEF O!Bearer, O!Exchange, O!Accounts, O!Callback, O!AtBybit
<1>3. Links'
  BY <1>2, LinksStill DEF OAuthInv
<1>4. \/ O!Authorize(call[c].id) \/ O!Reject(call[c].id) \/ O!GiveUpManual(c)
      \/ auth' = auth
  BY DEF O!Bearer, O!Exchange, O!Accounts, O!Callback
<1>5. Authorizations'
  <2>1. ASSUME auth' = auth PROVE Authorizations'
    BY <2>1 DEF OAuthInv, Authorizations, O!AuthorizedHasToken
  <2> QED BY <1>1, <1>2, <1>4, <2>1, AuthorizeKeeps, RejectKeeps, GiveUpKeeps DEF OAuthInv
<1>6. \/ O!End(c) \/ O!Go(c, "exchange") \/ O!Go(c, "accounts")
  BY DEF O!Bearer, O!Exchange, O!Accounts, O!Callback, O!GiveUpManual
<1>7. CallsInv'
  BY <1>1, <1>2, <1>6, EndKeeps, GoKeeps DEF OAuthInv
<1> QED BY <1>3, <1>5, <1>7 DEF OAuthInv

(* A new sub-account is the one the request goes on with.                  *)
LEMMA ChooseKeeps ==
    ASSUME OAuthInv, NEW c \in Callers, O!Choose(c)
    PROVE  OAuthInv'
<1>1. call[c].pc # "free" /\ call[c] \in O!Calls /\ call[c].id \in AuthIds
  BY DEF O!Choose, OAuthInv, CallsInv, CallShape
<1>2. auth' = auth /\ codes' = codes /\ linked' = linked
  BY DEF O!Choose
<1>3. Authorizations'
  BY <1>2 DEF OAuthInv, Authorizations, O!AuthorizedHasToken
<1>4. subs \subseteq subs' /\ subs' \subseteq Subs
  BY DEF O!Choose, OAuthInv, Links
<1>5. Links'
  BY <1>2, <1>4, LinksGrow DEF OAuthInv
<1>6. CallsInv'
  <2>1. CASE O!End(c) /\ UNCHANGED subs
    BY <2>1, EndKeeps DEF OAuthInv
  <2>2. ASSUME NEW x \in Subs \ subs, subs' = subs \cup {x},
               call' = [call EXCEPT ![c].pc = "wallet", ![c].sub = x]
        PROVE  CallsInv'
    <3> DEFINE r == [call[c] EXCEPT !.pc = "wallet", !.sub = x]
    <3>1. r \in O!Calls /\ CallShape(r, subs')
      BY <1>1, <2>2 DEF O!Calls, CallShape
    <3>2. call' = [call EXCEPT ![c] = r]
      BY <2>2 DEF OAuthInv, CallsInv
    <3> QED BY <1>4, <3>1, <3>2, CallWritten DEF OAuthInv
  <2>3. CASE call[c].sub \in subs /\ O!Go(c, "wallet") /\ UNCHANGED subs
    BY <1>1, <2>3, GoKeeps DEF OAuthInv
  <2> QED BY <2>1, <2>2, <2>3 DEF O!Choose
<1> QED BY <1>3, <1>5, <1>6 DEF OAuthInv

(* Profiles are compared where one is saved, after the awaits.             *)
LEMMA LinkKeeps ==
    ASSUME OAuthInv, NEW c \in Callers, O!Link(c)
    PROVE  OAuthInv'
<1>1. call[c].id \in AuthIds /\ call[c].sub \in subs
  BY DEF O!Link, OAuthInv, CallsInv, CallShape
<1>2. codes' = codes /\ subs' = subs
  BY DEF O!Link
<1>3. CallsInv'
  BY <1>2, EndKeeps DEF O!Link, OAuthInv
<1>4. CASE UNCHANGED <<auth, linked>>
  BY <1>2, <1>3, <1>4, LinksStill DEF OAuthInv, Authorizations, O!AuthorizedHasToken
<1> DEFINE p == O!Profile(call[c].id, call[c].sub)
<1>5. CASE /\ ~O!Linked(p)
           /\ linked' = Append(linked, p)
           /\ auth' = [auth EXCEPT ![call[c].id].listed = FALSE]
  <2>1. Authorizations'
    BY <1>1, <1>5, UnlistKeeps DEF OAuthInv
  <2>2. p \in O!Profiles /\ p.sub \in subs
    <3>1. auth[call[c].id].user \in Users \cup {"none"}
      BY <1>1 DEF OAuthInv, Authorizations, O!Auths
    <3>2. O!Label(call[c].id) \in {"shared"} \cup AuthIds
      BY <1>1 DEF O!Label
    <3> QED BY <1>1, <3>1, <3>2 DEF O!Profile, O!Profiles, OAuthInv, Links
  <2> HIDE DEF p
  <2>3. Links'
    BY <1>2, <1>5, <2>2, LinksAppend DEF OAuthInv
  <2> QED BY <1>3, <2>1, <2>3 DEF OAuthInv
<1> QED BY <1>4, <1>5 DEF O!Link

LEMMA OAuthInitially == O!Init => OAuthInv
<1> SUFFICES ASSUME O!Init
             PROVE  OAuthInv
  OBVIOUS
<1>1. Authorizations
  BY DEF O!Init, Authorizations, O!NoAuth, O!Auths, O!AuthorizedHasToken
<1>2. CallsInv
  BY DEF O!Init, CallsInv, O!Free, O!Calls, CallShape
<1>3. Links
  BY SubsAssumption DEF O!Init, Links, O!OneProfilePerSub
<1> QED BY <1>1, <1>2, <1>3 DEF OAuthInv

LEMMA OAuthStep == OAuthInv /\ O!Next => OAuthInv'
<1> SUFFICES ASSUME OAuthInv, O!Next
             PROVE  OAuthInv'
  OBVIOUS
<1>1. ASSUME NEW s \in AuthIds, NEW u \in Users, O!StartAuth(s, u) PROVE OAuthInv'
  BY <1>1, SessionBegins
<1>5. ASSUME NEW s \in AuthIds, O!Forget(s) PROVE OAuthInv'
  BY <1>5, SessionForgotten
<1>2. ASSUME NEW c \in Callers, NEW s \in AuthIds,
             \/ O!StartManual(c, s) \/ O!StartCallback(c, s)
             \/ \E sub \in Subs \cup {"new"} : O!StartSelect(c, s, sub)
      PROVE  OAuthInv'
  BY <1>2, SessionEntered
<1>3. ASSUME NEW c \in Callers,
             O!Bearer(c) \/ O!Exchange(c) \/ O!Accounts(c) \/ O!Callback(c)
      PROVE  OAuthInv'
  BY <1>3, Authorizing
<1>4. ASSUME NEW c \in Callers, O!Choose(c) \/ O!Link(c) PROVE OAuthInv'
  BY <1>4, ChooseKeeps, LinkKeeps
<1> QED BY <1>1, <1>2, <1>3, <1>4, <1>5 DEF O!Next

LEMMA OAuthStutter == OAuthInv /\ UNCHANGED oVars => OAuthInv'
  BY LinksStill DEF oVars, OAuthInv, Authorizations, O!AuthorizedHasToken, CallsInv

LEMMA OAuthGives == OAuthInv => O!TypeOK /\ O!AuthorizedHasToken /\ O!OneProfilePerSub
<1> SUFFICES ASSUME OAuthInv
             PROVE  O!TypeOK /\ O!AuthorizedHasToken /\ O!OneProfilePerSub
  OBVIOUS
<1>1. O!Saved \subseteq O!Profiles /\ \A p \in O!Saved : p.sub \in subs
  BY DEF OAuthInv, Links, O!Saved
<1> QED BY <1>1 DEF OAuthInv, Authorizations, CallsInv, Links, O!TypeOK

(***************************************************************************)
(* Profiles.                                                               *)
(***************************************************************************)
KeyKinds == {"probe", "detect", "certify", "reconcile"}
CopyKinds == KeyKinds \cup {"save", "disconnect", "toggle", "arm", "disarm"}

(* All but the end of the Live window, which passes by itself.             *)
Matches(copy, row) ==
    /\ copy.owner = row.owner /\ copy.env = row.env /\ copy.key = row.key
    /\ copy.verified = row.verified /\ copy.ref = row.ref
    /\ copy.enabled = row.enabled /\ copy.active = row.active
    /\ copy.status = row.status /\ copy.passed = row.passed
    /\ copy.certified = row.certified /\ copy.live = row.live
    /\ copy.counts = row.counts

(* A request holds what it loaded: the row as it is while it is clean, and *)
(* other rows, which still exist.                                          *)
RequestRow == [kind : P!OnTheLoop \cup P!InThreads \cup {"none"}, slot : Slots \cup {None},
               key : Keys \cup {None}, owner : Owners \cup {None},
               copy : P!Row \cup {None}, side : Sides \cup {None}, clean : BOOLEAN,
               others : SUBSET Slots]
Loaded(r) ==
    /\ r.kind \in P!Provisioning => r.key \in Keys
    /\ r.kind = "connect" => r.owner \in Owners /\ r.slot = None
    /\ r.kind \in CopyKinds => r.copy \in P!Row
    /\ r.kind \in KeyKinds => r.copy.key \in Keys
    /\ r.kind \in {"certify", "reconcile"} => r.copy.env # "LIVE"
    /\ r.kind = "certify" => r.side \in Sides
Remains(r, rows) ==
    /\ r.slot # None => rows[r.slot] # None
    /\ r.kind \in CopyKinds /\ r.slot # None /\ r.clean => Matches(r.copy, rows[r.slot])
    /\ r.slot \notin r.others /\ \A t \in r.others : rows[t] # None
Holds(r, rows) == Loaded(r) /\ Remains(r, rows)

ProfilesType ==
    /\ profile \in [Slots -> P!Row \cup {None}]
    /\ filled \subseteq P!Uids \X Sides
    /\ stale \in [Slots -> BOOLEAN]
    /\ req \in [Handlers -> RequestRow]
Requests == \A h \in Handlers : Holds(req[h], profile)
Locked == /\ \A h \in Handlers : (lock = h) = (req[h].kind \in P!Provisioning)
          /\ blocked => lock # None

(* A row, where no request wrote over a change: its account is the one its *)
(* key opens, its certificate was earned there by orders, for a simulation.*)
Sound(p, orders) ==
    /\ p.verified # None => /\ p.key # None /\ p.verified = Uid[p.key]
                            /\ p.env = Env[p.key]
    /\ p.status = "CONNECTED" => p.key # None /\ Env[p.key] = p.env
    /\ p.certified => p.passed = Sides /\ p.env # "LIVE"
    /\ p.key # None => \A side \in p.passed : <<Uid[p.key], side>> \in orders
RowsSound == \A s \in P!Present : stale[s] \/ Sound(profile[s], filled)

(* No two such rows have one account in one environment.                   *)
Apart == \A s, t \in P!Present :
    s # t /\ profile[s].env = profile[t].env /\ profile[s].verified # None
    /\ profile[s].verified = profile[t].verified => stale[s] \/ stale[t]

ProfilesInv == ProfilesType /\ Requests /\ Locked /\ RowsSound /\ Apart

(* The columns of what a transaction writes.                               *)
LEMMA SavedColumns ==
    ASSUME NEW row \in P!Row, NEW copy \in P!Row, NEW new \in P!Row,
           NEW r, r = P!Saved(row, copy, new)
    PROVE  /\ r.owner = (IF new.owner = copy.owner THEN row.owner ELSE new.owner)
           /\ r.env = (IF new.env = copy.env THEN row.env ELSE new.env)
           /\ r.key = (IF new.key = copy.key THEN row.key ELSE new.key)
           /\ r.verified = (IF new.verified = copy.verified THEN row.verified ELSE new.verified)
           /\ r.ref = (IF new.ref = copy.ref THEN row.ref ELSE new.ref)
           /\ r.enabled = (IF new.enabled = copy.enabled THEN row.enabled ELSE new.enabled)
           /\ r.active = (IF new.active = copy.active THEN row.active ELSE new.active)
           /\ r.status = (IF new.status = copy.status THEN row.status ELSE new.status)
           /\ r.passed = {s \in Sides : IF (s \in new.passed) = (s \in copy.passed)
                                       THEN s \in row.passed ELSE s \in new.passed}
           /\ r.certified = (IF new.certified = copy.certified
                             THEN row.certified ELSE new.certified)
           /\ r.live = (IF new.live = copy.live THEN row.live ELSE new.live)
           /\ r.expiry = (IF new.expiry = copy.expiry THEN row.expiry ELSE new.expiry)
           /\ r.counts = (IF new.counts = copy.counts THEN row.counts ELSE new.counts)
           /\ DOMAIN r = DOMAIN row
<1> DEFINE Columns == {"owner", "env", "key", "verified", "ref", "enabled", "active", "status",
                       "passed", "certified", "live", "expiry", "counts"}
<1>1. DOMAIN row = Columns
  BY DEF P!Row
<1> QED BY <1>1 DEF P!Saved

LEMMA SavedRow ==
    ASSUME NEW row \in P!Row, NEW copy \in P!Row, NEW new \in P!Row
    PROVE  P!Saved(row, copy, new) \in P!Row
<1> PICK r : r = P!Saved(row, copy, new)
  OBVIOUS
<1> QED BY SavedColumns DEF P!Row, P!Saved

(* A clean request writes what it means to, but for the window.            *)
LEMMA SavedCleanly ==
    ASSUME NEW row \in P!Row, NEW copy \in P!Row, NEW new \in P!Row, Matches(copy, row)
    PROVE  Matches(new, P!Saved(row, copy, new))
<1> PICK r : r = P!Saved(row, copy, new)
  OBVIOUS
<1>1. r.passed = new.passed
  <2>1. new.passed \subseteq Sides /\ copy.passed = row.passed
    BY DEF Matches, P!Row
  <2>2. r.passed = {s \in Sides : IF (s \in new.passed) = (s \in copy.passed)
                                 THEN s \in row.passed ELSE s \in new.passed}
    BY SavedColumns
  <2>3. \A s \in Sides : s \in r.passed <=> s \in new.passed
    BY <2>1, <2>2
  <2>4. r.passed \subseteq Sides
    BY <2>2
  <2> QED BY <2>1, <2>3, <2>4
<1>2. /\ new.owner = r.owner /\ new.env = r.env /\ new.key = r.key
      /\ new.verified = r.verified /\ new.ref = r.ref /\ new.status = r.status
  BY SavedColumns DEF Matches
<1>3. new.enabled = r.enabled /\ new.active = r.active
  BY SavedColumns DEF Matches
<1>4. new.certified = r.certified /\ new.live = r.live /\ new.counts = r.counts
  BY SavedColumns DEF Matches
<1> QED BY <1>1, <1>2, <1>3, <1>4 DEF Matches

LEMMA SoundMatches ==
    ASSUME NEW p, NEW q, NEW orders, Matches(p, q), Sound(p, orders)
    PROVE  Sound(q, orders)
  BY DEF Matches, Sound

(* What the requests make of a row.                                        *)
Bare(p) == [p EXCEPT !.key = None, !.verified = None]

LEMMA BareRow ==
    ASSUME NEW p \in P!Row
    PROVE  /\ Bare(p) \in P!Row /\ Bare(p).key = None /\ Bare(p).verified = None
           /\ \A f \in DOMAIN p \ {"key", "verified"} : Bare(p)[f] = p[f]
  BY DEF Bare, P!Row

LEMMA WithKeyRow ==
    ASSUME NEW p \in P!Row, NEW k \in Keys
    PROVE  /\ P!WithKey(p, k) \in P!Row
           /\ P!WithKey(p, k).key = k /\ P!WithKey(p, k).verified = Uid[k]
           /\ P!WithKey(p, k).env = p.env /\ P!WithKey(p, k).status = "NOT_TESTED"
           /\ P!WithKey(p, k).passed = {} /\ ~P!WithKey(p, k).certified
           /\ P!WithKey(p, k).expiry = p.expiry
<1>1. Uid[k] \in P!Uids
  BY DEF P!Uids
<1> QED BY <1>1 DEF P!WithKey, P!Row

LEMMA DetectedRow ==
    ASSUME NEW p \in P!Row, p.key \in Keys
    PROVE  /\ P!Detected(p) \in P!Row
           /\ P!Detected(p).key = p.key /\ P!Detected(p).verified = p.verified
           /\ P!Detected(p).env = Env[p.key] /\ P!Detected(p).status = "CONNECTED"
           /\ p.env = Env[p.key] => /\ P!Detected(p).passed = p.passed
                                    /\ P!Detected(p).certified = p.certified
           /\ p.env # Env[p.key] => /\ P!Detected(p).passed = {}
                                    /\ ~P!Detected(p).certified
           /\ P!Detected(p).expiry = p.expiry
<1>1. Env[p.key] \in P!Envs
  BY DEF Env, P!Envs
<1> DEFINE q == IF p.env = Env[p.key] THEN p ELSE [p EXCEPT !.passed = {}, !.certified = FALSE]
<1>2. /\ q \in P!Row /\ q.owner = p.owner /\ q.active = p.active /\ q.key = p.key
      /\ q.verified = p.verified /\ q.expiry = p.expiry
      /\ p.env = Env[p.key] => q.passed = p.passed /\ q.certified = p.certified
      /\ p.env # Env[p.key] => q.passed = {} /\ ~q.certified
  BY ZenonT(60) DEF P!Row
<1>3. P!Detected(p) = [q EXCEPT !.env = Env[p.key], !.status = "CONNECTED", !.live = FALSE]
  BY DEF P!Detected
<1> HIDE DEF q
<1> QED BY <1>1, <1>2, <1>3, ZenonT(60) DEF P!Row

LEMMA PassedRow ==
    ASSUME NEW p \in P!Row, NEW side \in Sides
    PROVE  /\ P!Passed(p, side) \in P!Row
           /\ P!Passed(p, side).passed = p.passed \cup {side}
           /\ P!Passed(p, side).certified = (P!Passed(p, side).passed = Sides)
           /\ P!Passed(p, side).key = p.key /\ P!Passed(p, side).verified = p.verified
           /\ P!Passed(p, side).env = p.env /\ P!Passed(p, side).status = p.status
           /\ P!Passed(p, side).expiry = p.expiry
<1> DEFINE q == [p EXCEPT !.passed = @ \cup {side}]
<1>2. /\ q \in P!Row /\ q.owner = p.owner /\ q.active = p.active /\ q.key = p.key
      /\ q.verified = p.verified /\ q.expiry = p.expiry /\ q.env = p.env
      /\ q.status = p.status /\ q.passed = p.passed \cup {side}
  BY DEF P!Row
<1>3. P!Passed(p, side) = [q EXCEPT !.certified = (q.passed = Sides)]
  BY DEF P!Passed
<1> HIDE DEF q
<1> QED BY <1>2, <1>3, ZenonT(60) DEF P!Row

Reconciled(p, e) == [p EXCEPT !.passed = e, !.certified = e = Sides]

LEMMA ReconciledRow ==
    ASSUME NEW p \in P!Row, NEW e \in SUBSET Sides
    PROVE  /\ Reconciled(p, e) \in P!Row
           /\ Reconciled(p, e).passed = e /\ Reconciled(p, e).certified = (e = Sides)
           /\ Reconciled(p, e).key = p.key /\ Reconciled(p, e).verified = p.verified
           /\ Reconciled(p, e).env = p.env /\ Reconciled(p, e).status = p.status
  BY DEF P!Row, Reconciled

Refused(p) == [p EXCEPT !.status = "FAILED"]
Probed(p, c) == [p EXCEPT !.status = "CONNECTED", !.counts = c]

LEMMA ProbedRow ==
    ASSUME NEW p \in P!Row, NEW c \in BOOLEAN, NEW q, q = Refused(p) \/ q = Probed(p, c)
    PROVE  /\ q \in P!Row /\ q.passed = p.passed
           /\ q.certified = p.certified /\ q.key = p.key /\ q.verified = p.verified
           /\ q.env = p.env /\ (q = Refused(p) => q.status = "FAILED")
<1>1. CASE q = Refused(p)
  BY <1>1 DEF P!Row, Refused
<1>2. CASE q = Probed(p, c) /\ q # Refused(p)
  BY <1>2 DEF P!Row, Probed
<1> QED BY <1>1, <1>2

(* A request sees that its row changed or went.                            *)
LEMMA SeenHolds ==
    ASSUME ProfilesType, Requests, NEW g \in Handlers,
           profile' \in [Slots -> P!Row \cup {None}]
    PROVE  /\ P!Seen(g) \in RequestRow /\ P!Seen(g).kind = req[g].kind
           /\ Holds(P!Seen(g), profile')
<1> PICK r \in RequestRow : r = req[g] /\ Holds(r, profile)
  BY DEF ProfilesType, Requests
<1> PICK gone \in SUBSET Slots : gone = {t \in P!Present : profile'[t] = None}
  BY DEF P!Present
<1> PICK q : q = P!Seen(g)
  OBVIOUS
<1>1. \A t \in Slots : profile[t] # None /\ t \notin gone => profile'[t] # None
  BY DEF P!Present
<1>2. None \notin Slots /\ None \notin P!Row /\ r.others \subseteq Slots
      /\ (r.slot # None => r.slot \in Slots)
  BY ProfilesAssumption DEF RequestRow
<1>3. ASSUME q \in RequestRow, q.kind = r.kind, q.key = r.key, q.owner = r.owner,
             q.copy = r.copy, q.side = r.side, q.slot \in {r.slot, None}
      PROVE  Loaded(q)
  BY <1>3 DEF Holds, Loaded
<1>4. CASE \/ r.kind # "activate" /\ r.others \cap gone # {}
           \/ r.kind # "delete" /\ r.slot \in gone
  <2>1. q = [r EXCEPT !.slot = None, !.others = {}]
    BY <1>4 DEF P!Seen
  <2>2. /\ q \in RequestRow /\ q.slot = None /\ q.kind = r.kind /\ q.key = r.key
        /\ q.owner = r.owner /\ q.copy = r.copy /\ q.side = r.side /\ q.others = {}
    BY <2>1 DEF RequestRow
  <2> QED BY <1>3, <2>2 DEF Holds, Remains
<1>5. CASE /\ r.kind = "activate" \/ r.others \cap gone = {}
           /\ r.kind = "delete" /\ r.slot \in gone
  <2>1. q = [r EXCEPT !.slot = None]
    BY <1>5 DEF P!Seen
  <2>2. /\ q \in RequestRow /\ q.slot = None /\ q.kind = r.kind /\ q.key = r.key
        /\ q.owner = r.owner /\ q.copy = r.copy /\ q.side = r.side /\ q.others = r.others
    BY <2>1 DEF RequestRow
  <2>3. \A t \in q.others : profile'[t] # None
    BY <1>1, <1>2, <1>5, <2>2 DEF Holds, Remains
  <2> QED BY <1>2, <1>3, <2>2, <2>3 DEF Holds, Remains
<1>6. CASE /\ r.kind = "activate" \/ r.others \cap gone = {}
           /\ r.slot \notin gone
  <2> DEFINE kept == (r.slot \in Slots /\ r.copy # None) => profile'[r.slot] = profile[r.slot]
  <2>1. q = [r EXCEPT !.others = @ \ gone, !.clean = @ /\ kept]
    BY <1>6 DEF P!Seen
  <2>2. kept \in BOOLEAN
    OBVIOUS
  <2> PICK c \in BOOLEAN : c = (r.clean /\ kept)
    BY Zenon, <2>2 DEF RequestRow
  <2>3. c => r.clean /\ kept
    BY Zenon
  <2> PICK left \in SUBSET Slots : left = r.others \ gone
    BY <1>2
  <2>4. q = [r EXCEPT !.others = left, !.clean = c]
    BY Zenon, <2>1
  <2> HIDE DEF kept
  <2>5. /\ q \in RequestRow /\ q.slot = r.slot /\ q.kind = r.kind /\ q.key = r.key
        /\ q.owner = r.owner /\ q.copy = r.copy /\ q.side = r.side
        /\ q.others = left /\ q.clean = c
    <3> PICK p : p = [r EXCEPT !.others = left]
      OBVIOUS
    <3>1. /\ p \in RequestRow /\ p.slot = r.slot /\ p.kind = r.kind /\ p.key = r.key
          /\ p.owner = r.owner /\ p.copy = r.copy /\ p.side = r.side /\ p.others = left
      BY DEF RequestRow
    <3>2. q = [p EXCEPT !.clean = c]
      BY <2>4 DEF RequestRow
    <3>3. /\ q \in RequestRow /\ q.slot = p.slot /\ q.kind = p.kind /\ q.key = p.key
          /\ q.owner = p.owner /\ q.copy = p.copy /\ q.side = p.side /\ q.others = p.others
      BY <3>1, <3>2 DEF RequestRow
    <3>4. q.clean = c
      BY Zenon, <3>1, <3>2 DEF RequestRow
    <3> QED BY <3>1, <3>3, <3>4
  <2>7. q.clean => r.clean /\ kept
    BY Zenon, <2>3, <2>5
  <2>8. q.slot # None => profile'[q.slot] # None
    BY <1>1, <1>2, <1>6, <2>5 DEF Holds, Remains
  <2>9. \A t \in q.others : profile'[t] # None
    BY <1>1, <1>2, <2>5 DEF Holds, Remains
  <2>10. q.kind \in CopyKinds /\ q.slot # None /\ q.clean
            => Matches(q.copy, profile'[q.slot])
    BY <1>2, <2>5, <2>7 DEF Holds, Loaded, Remains, kept
  <2> QED BY <1>3, <2>5, <2>8, <2>9, <2>10 DEF Holds, Remains
<1> QED BY <1>4, <1>5, <1>6

LEMMA IdleHolds ==
    /\ P!Idle \in RequestRow /\ P!Idle.kind = "none" /\ P!Idle.others = {}
    /\ \A rows : Holds(P!Idle, rows)
  BY DEF P!Idle, RequestRow, P!OnTheLoop, P!InThreads, P!Provisioning, Holds, Loaded, Remains,
         KeyKinds, CopyKinds

(* What a transaction does to the requests and to the lock. While the      *)
(* event loop waits for the lock only requests in threads end.             *)
RequestsType == req \in [Handlers -> RequestRow] /\ Requests /\ Locked
MayEnd(h) == blocked => req[h].kind \notin P!Provisioning

LEMMA CommitRequests ==
    ASSUME ProfilesType, Requests, Locked, NEW h \in Handlers, MayEnd(h), NEW new,
           new \in [Slots -> P!Row \cup {None}], P!Commit(h, new)
    PROVE  RequestsType'
<1>1. /\ profile' = new /\ lock' = P!Unlocked(h) /\ blocked' = blocked
      /\ req' = [g \in Handlers |-> IF g = h THEN P!Idle ELSE P!Seen(g)]
  BY Zenon DEF P!Commit
<1>2. \A g \in Handlers : /\ P!Seen(g) \in RequestRow /\ P!Seen(g).kind = req[g].kind
                          /\ Holds(P!Seen(g), profile')
  BY <1>1, SeenHolds
<1>3. \A g \in Handlers : /\ g = h => req'[g] = P!Idle
                          /\ g # h => req'[g] = P!Seen(g)
  BY <1>1
<1>4. \A g \in Handlers : req'[g] \in RequestRow /\ Holds(req'[g], profile')
  BY Zenon, <1>2, <1>3, IdleHolds
<1>5. req' \in [Handlers -> RequestRow]
  BY <1>1, <1>4
<1>6. \A g \in Handlers : (lock' = g) = (req'[g].kind \in P!Provisioning)
  BY <1>1, <1>2, <1>3, IdleHolds, ProfilesAssumption DEF P!Unlocked, Locked, P!Provisioning
<1>7. blocked' => lock' # None
  <2>1. blocked' => lock # None /\ lock # h
    BY Zenon, <1>1 DEF Locked, MayEnd
  <2>2. lock # h => lock' = lock
    BY <1>1 DEF P!Unlocked
  <2> QED BY Zenon, <2>1, <2>2
<1> QED BY <1>4, <1>5, <1>6, <1>7 DEF RequestsType, Requests, Locked

LEMMA NowRequests ==
    ASSUME ProfilesType, Requests, Locked, NEW new,
           new \in [Slots -> P!Row \cup {None}], P!Now(new)
    PROVE  RequestsType'
<1>1. /\ profile' = new /\ lock' = lock /\ req' = [g \in Handlers |-> P!Seen(g)]
  BY Zenon DEF P!Now
<1>2. \A g \in Handlers : /\ P!Seen(g) \in RequestRow /\ P!Seen(g).kind = req[g].kind
                          /\ Holds(P!Seen(g), profile')
  BY <1>1, SeenHolds
<1>3. \A g \in Handlers : req'[g] = P!Seen(g)
  BY <1>1
<1>4. \A g \in Handlers : req'[g] \in RequestRow /\ Holds(req'[g], profile')
  BY Zenon, <1>2, <1>3
<1>5. req' \in [Handlers -> RequestRow]
  BY <1>1, <1>4
<1>6. \A g \in Handlers : (lock' = g) = (req'[g].kind \in P!Provisioning)
  BY <1>1, <1>2, <1>3 DEF Locked
<1>7. ~blocked'
  BY Zenon DEF P!Now
<1> QED BY <1>4, <1>5, <1>6, <1>7 DEF RequestsType, Requests, Locked

RowsInv == RowsSound /\ Apart

LEMMA RowsStill ==
    ASSUME RowsInv, profile' = profile, stale' = stale, filled \subseteq filled'
    PROVE  RowsInv'
<1>1. P!Present' = P!Present
  BY DEF P!Present
<1>2. RowsSound'
  BY <1>1 DEF RowsInv, RowsSound, Sound
<1>3. Apart'
  BY <1>1 DEF RowsInv, Apart
<1> QED BY <1>2, <1>3 DEF RowsInv

LEMMA ProfilesParts ==
    ProfilesInv <=> /\ ProfilesType /\ Requests /\ Locked /\ RowsInv
  BY DEF ProfilesInv, RowsInv

LEMMA StartKeeps ==
    ASSUME ProfilesInv, NEW h \in Handlers, NEW r \in RequestRow, Holds(r, profile),
           P!Start(h, r) \/ P!Begin(h, r),
           \/ r.kind \notin P!Provisioning /\ lock' = lock
           \/ r.kind \in P!Provisioning /\ lock = None /\ lock' = h
    PROVE  ProfilesInv'
<1>1. /\ profile' = profile /\ stale' = stale /\ filled' = filled
      /\ req[h] = P!Idle /\ req' = [req EXCEPT ![h] = r]
  BY DEF P!Start, P!Begin
<1>2. blocked' = blocked /\ ~blocked
  BY Zenon DEF P!Start, P!Begin
<1>3. ProfilesType'
  BY <1>1 DEF ProfilesInv, ProfilesType
<1>4. \A g \in Handlers : g # h => req'[g] = req[g]
  BY <1>1 DEF ProfilesInv, ProfilesType
<1>5. req'[h] = r
  BY <1>1 DEF ProfilesInv, ProfilesType
<1>6. Requests'
  BY <1>1, <1>4, <1>5 DEF ProfilesInv, Requests
<1>7. Locked'
  BY <1>1, <1>2, <1>4, <1>5, ProfilesAssumption DEF ProfilesInv, Locked, P!Idle, P!Provisioning
<1>8. RowsInv'
  BY <1>1, <1>2, RowsStill, ProfilesParts
<1> QED BY <1>3, <1>6, <1>7, <1>8 DEF ProfilesInv, RowsInv

LEMMA ProvisionKeeps ==
    ASSUME ProfilesInv, NEW h \in Handlers, NEW r \in RequestRow, Holds(r, profile),
           r.kind \in P!Provisioning, P!Provision(h, r)
    PROVE  ProfilesInv'
<1>1. CASE lock = None /\ P!Start(h, r) /\ lock' = h
  BY <1>1, StartKeeps
<1>2. CASE lock # None /\ blocked' = TRUE
           /\ UNCHANGED <<profile, req, lock, filled, waits, menu, stale>>
  <2>1. ProfilesType' /\ Requests' /\ Locked'
    BY <1>2 DEF ProfilesInv, ProfilesType, Requests, Locked
  <2>3. RowsInv'
    BY <1>2, RowsStill, ProfilesParts
  <2> QED BY <2>1, <2>3 DEF ProfilesInv, RowsInv
<1> QED BY <1>1, <1>2 DEF P!Provision

LEMMA PresentRow ==
    ASSUME ProfilesInv, NEW s \in P!Present
    PROVE  s \in Slots /\ profile[s] \in P!Row /\ profile[s] # None /\ s # None
  BY ProfilesAssumption DEF P!Present, ProfilesInv, ProfilesType

LEMMA OthersAre ==
    ASSUME NEW s
    PROVE  /\ P!Others(s) \subseteq Slots /\ s \notin P!Others(s)
           /\ \A t \in P!Others(s) : profile[t] # None
           /\ P!Substitute(s) \subseteq P!Others(s)
<1>1. P!Others(s) \subseteq Slots /\ s \notin P!Others(s)
      /\ \A t \in P!Others(s) : profile[t] # None
  BY DEF P!Others, P!Of, P!Present
<1>2. P!Substitute(s) \subseteq P!Replacement(s) /\ P!Replacement(s) \subseteq P!Others(s)
  BY DEF P!Substitute, P!Replacement
<1> QED BY <1>1, <1>2

(* What a request that starts has loaded.                                  *)
LEMMA LoadHolds ==
    ASSUME ProfilesInv, NEW s \in P!Present,
           NEW kind \in CopyKinds, NEW k \in Keys \cup {None}, NEW side \in Sides \cup {None},
           NEW others \in SUBSET P!Others(s),
           kind = "save" => k \in Keys, kind \in KeyKinds => profile[s].key # None,
           kind \in {"certify", "reconcile"} => profile[s].env # "LIVE",
           kind = "certify" => side \in Sides,
           NEW r, r = [kind |-> kind, slot |-> s, key |-> k, owner |-> None,
                       copy |-> profile[s], side |-> side, clean |-> TRUE, others |-> others]
    PROVE  r \in RequestRow /\ Holds(r, profile) /\ r.kind = kind
<1>1. s \in Slots /\ profile[s] \in P!Row /\ s # None /\ profile[s] # None
  BY PresentRow
<1>2. profile[s].key \in Keys \cup {None}
  BY <1>1 DEF P!Row
<1>3. Matches(profile[s], profile[s])
  BY DEF Matches
<1>4. others \subseteq Slots /\ s \notin others /\ \A t \in others : profile[t] # None
  BY OthersAre
<1>5. kind \in P!OnTheLoop \cup P!InThreads \cup {"none"} /\ kind # "connect"
  BY DEF KeyKinds, CopyKinds, P!OnTheLoop, P!InThreads, P!Provisioning
<1>6. /\ r.kind = kind /\ r.slot = s /\ r.key = k /\ r.copy = profile[s] /\ r.side = side
      /\ r.others = others /\ r \in RequestRow
  BY <1>1, <1>4, <1>5 DEF RequestRow
<1>7. Loaded(r)
  BY <1>1, <1>2, <1>5, <1>6 DEF Loaded, KeyKinds, CopyKinds, P!Provisioning
<1>8. Remains(r, profile)
  BY <1>1, <1>3, <1>4, <1>6 DEF Remains
<1> QED BY <1>6, <1>7, <1>8 DEF Holds

LEMMA StartConnectKeeps ==
    ASSUME ProfilesInv, NEW h \in Handlers, NEW k \in Keys, NEW o \in Owners,
           P!StartConnect(h, k, o)
    PROVE  ProfilesInv'
<1>1. PICK r : r = [P!Idle EXCEPT !.kind = "connect", !.key = k, !.owner = o]
  OBVIOUS
<1>2. /\ r.kind = "connect" /\ r.key = k /\ r.owner = o /\ r.slot = None /\ r.others = {}
      /\ r \in RequestRow
  BY <1>1 DEF P!Idle, RequestRow, P!OnTheLoop, P!Provisioning
<1>3. Holds(r, profile)
  BY <1>2 DEF Holds, Loaded, Remains, P!Provisioning, KeyKinds, CopyKinds
<1>4. P!Provision(h, r) /\ r.kind \in P!Provisioning
  BY Zenon, <1>1, <1>2 DEF P!StartConnect, P!Provisioning
<1> QED BY <1>2, <1>3, <1>4, ProvisionKeeps

LEMMA StartSaveKeeps ==
    ASSUME ProfilesInv, NEW h \in Handlers, NEW s \in P!Present, NEW k \in Keys,
           P!StartSave(h, s, k)
    PROVE  ProfilesInv'
<1>1. PICK r : r = [P!Load("save", s) EXCEPT !.key = k]
  OBVIOUS
<1>2. r = [kind |-> "save", slot |-> s, key |-> k, owner |-> None,
           copy |-> profile[s], side |-> None, clean |-> TRUE, others |-> {}]
  BY <1>1 DEF P!Load, P!Idle
<1>3. r \in RequestRow /\ Holds(r, profile) /\ r.kind = "save"
  BY <1>2, LoadHolds DEF KeyKinds, CopyKinds
<1>4. P!Provision(h, r) /\ r.kind \in P!Provisioning
  BY Zenon, <1>1, <1>3 DEF P!StartSave, P!Provisioning
<1> QED BY <1>3, <1>4, ProvisionKeeps

LEMMA StartCertifyKeeps ==
    ASSUME ProfilesInv, NEW h \in Handlers, NEW s \in P!Present, NEW side \in Sides,
           P!StartCertify(h, s, side)
    PROVE  ProfilesInv'
<1>1. PICK r : r = [P!Load("certify", s) EXCEPT !.side = side]
  OBVIOUS
<1>2. r = [kind |-> "certify", slot |-> s, key |-> None, owner |-> None,
           copy |-> profile[s], side |-> side, clean |-> TRUE, others |-> {}]
  BY <1>1 DEF P!Load, P!Idle
<1>3. r \in RequestRow /\ Holds(r, profile) /\ r.kind = "certify"
  BY <1>2, LoadHolds DEF KeyKinds, CopyKinds, P!StartCertify, P!Simulated
<1>4. P!Start(h, r) /\ lock' = lock
  BY Zenon, <1>1 DEF P!StartCertify
<1>5. r.kind \notin P!Provisioning /\ lock' = lock
  BY <1>3, <1>4 DEF P!Provisioning
<1> QED BY <1>3, <1>4, <1>5, StartKeeps

LEMMA StartReadKeeps ==
    ASSUME ProfilesInv, NEW h \in Handlers, NEW s \in P!Present,
           P!StartProbe(h, s) \/ P!StartDetect(h, s) \/ P!StartReconcile(h, s)
    PROVE  ProfilesInv'
<1>1. PICK kind \in {"probe", "detect", "reconcile"} :
        /\ P!Start(h, P!Load(kind, s)) /\ lock' = lock
        /\ profile[s].key # None /\ (kind = "reconcile" => profile[s].env # "LIVE")
  BY DEF P!StartProbe, P!StartDetect, P!StartReconcile, P!Simulated
<1>2. PICK r : r = P!Load(kind, s)
  OBVIOUS
<1>3. r = [kind |-> kind, slot |-> s, key |-> None, owner |-> None,
           copy |-> profile[s], side |-> None, clean |-> TRUE, others |-> {}]
  BY <1>2 DEF P!Load, P!Idle
<1>4. r \in RequestRow /\ Holds(r, profile) /\ r.kind = kind
  BY <1>1, <1>3, LoadHolds DEF KeyKinds, CopyKinds
<1>5. P!Start(h, r)
  BY <1>1, <1>2
<1>6. r.kind \notin P!Provisioning /\ lock' = lock
  BY <1>1, <1>4 DEF P!Provisioning
<1> QED BY <1>4, <1>5, <1>6, StartKeeps

(* Requests in threads that keep the row they loaded.                      *)
LEMMA BeginKeeps ==
    ASSUME ProfilesInv, NEW h \in Handlers, NEW s \in P!Present,
           NEW kind \in {"disconnect", "toggle", "arm", "disarm"},
           NEW others \in SUBSET P!Others(s),
           NEW r, r = [kind |-> kind, slot |-> s, key |-> None, owner |-> None,
                       copy |-> profile[s], side |-> None, clean |-> TRUE, others |-> others],
           P!Begin(h, r)
    PROVE  ProfilesInv'
<1>1. r \in RequestRow /\ Holds(r, profile) /\ r.kind = kind
  BY LoadHolds DEF KeyKinds, CopyKinds
<1>2. lock' = lock
  BY DEF P!Begin
<1>3. r.kind \notin P!Provisioning
  BY <1>1 DEF P!Provisioning
<1> QED BY <1>1, <1>2, <1>3, StartKeeps

LEMMA StartChangeKeeps ==
    ASSUME ProfilesInv, NEW h \in Handlers, NEW s \in P!Present,
           \/ P!StartDisconnect(h, s) \/ P!StartToggle(h, s)
           \/ P!StartArm(h, s) \/ P!StartDisarm(h, s)
    PROVE  ProfilesInv'
<1>1. CASE P!StartDisconnect(h, s)
  <2> PICK r : r = [P!Load("disconnect", s) EXCEPT !.others = P!Substitute(s)]
    OBVIOUS
  <2>1. r = [kind |-> "disconnect", slot |-> s, key |-> None, owner |-> None,
             copy |-> profile[s], side |-> None, clean |-> TRUE, others |-> P!Substitute(s)]
    BY DEF P!Load, P!Idle
  <2>2. P!Begin(h, r)
    BY <1>1 DEF P!StartDisconnect
  <2> QED BY <2>1, <2>2, OthersAre, BeginKeeps
<1>2. CASE P!StartToggle(h, s)
  <2> PICK others : others = IF profile[s].enabled THEN P!Substitute(s) ELSE {}
    OBVIOUS
  <2>1. others \in SUBSET P!Others(s)
    BY OthersAre
  <2> PICK r : r = [P!Load("toggle", s) EXCEPT !.others = others]
    OBVIOUS
  <2>2. r = [kind |-> "toggle", slot |-> s, key |-> None, owner |-> None,
             copy |-> profile[s], side |-> None, clean |-> TRUE, others |-> others]
    BY DEF P!Load, P!Idle
  <2>3. P!Begin(h, r)
    BY <1>2 DEF P!StartToggle
  <2> QED BY <2>1, <2>2, <2>3, BeginKeeps
<1>3. CASE P!StartArm(h, s)
  <2> PICK r : r = P!Load("arm", s)
    OBVIOUS
  <2>1. r = [kind |-> "arm", slot |-> s, key |-> None, owner |-> None,
             copy |-> profile[s], side |-> None, clean |-> TRUE, others |-> {}]
    BY DEF P!Load, P!Idle
  <2>2. P!Begin(h, r)
    BY <1>3 DEF P!StartArm
  <2> QED BY <2>1, <2>2, BeginKeeps
<1>4. CASE P!StartDisarm(h, s)
  <2> PICK r : r = P!Load("disarm", s)
    OBVIOUS
  <2>1. r = [kind |-> "disarm", slot |-> s, key |-> None, owner |-> None,
             copy |-> profile[s], side |-> None, clean |-> TRUE, others |-> {}]
    BY DEF P!Load, P!Idle
  <2>2. P!Begin(h, r)
    BY <1>4 DEF P!StartDisarm
  <2> QED BY <2>1, <2>2, BeginKeeps
<1> QED BY <1>1, <1>2, <1>3, <1>4

(* Requests in threads that read their row and no more of it.              *)
LEMMA StartOtherKeeps ==
    ASSUME ProfilesInv, NEW h \in Handlers, NEW s \in P!Present,
           P!StartActivate(h, s) \/ P!StartDelete(h, s)
    PROVE  ProfilesInv'
<1>1. PICK kind \in {"activate", "delete"}, others \in SUBSET P!Others(s) :
        P!Begin(h, [P!Idle EXCEPT !.kind = kind, !.slot = s, !.others = others])
  <2>1. CASE P!StartActivate(h, s)
    BY <2>1 DEF P!StartActivate
  <2>2. CASE P!StartDelete(h, s)
    <3>1. (IF profile[s].active THEN P!Substitute(s) ELSE {}) \subseteq P!Others(s)
      BY OthersAre
    <3> QED BY <2>2, <3>1 DEF P!StartDelete
  <2> QED BY <2>1, <2>2
<1>2. PICK r : r = [P!Idle EXCEPT !.kind = kind, !.slot = s, !.others = others]
  OBVIOUS
<1>3. s \in Slots /\ profile[s] # None
  BY PresentRow
<1>4. others \subseteq Slots /\ s \notin others /\ \A t \in others : profile[t] # None
  BY OthersAre
<1>5. /\ r.kind = kind /\ r.slot = s /\ r.others = others /\ r \in RequestRow
  BY <1>2, <1>3, <1>4 DEF P!Idle, RequestRow, P!InThreads
<1>6. Holds(r, profile)
  BY <1>3, <1>4, <1>5 DEF Holds, Loaded, Remains, P!Provisioning, KeyKinds, CopyKinds
<1>7. P!Begin(h, r) /\ lock' = lock
  BY <1>1, <1>2 DEF P!Begin
<1>8. r.kind \notin P!Provisioning
  BY <1>5 DEF P!Provisioning
<1> QED BY <1>5, <1>6, <1>7, <1>8, StartKeeps

(* What the account and the certificate of a row depend on.                *)
Same(p, q) ==
    /\ q.env = p.env /\ q.key = p.key /\ q.verified = p.verified
    /\ q.status = p.status /\ q.passed = p.passed /\ q.certified = p.certified

LEMMA SoundSame ==
    ASSUME NEW p, NEW q, NEW o1, NEW o2, Same(p, q), Sound(p, o1), o1 \subseteq o2
    PROVE  Sound(q, o2)
  BY DEF Same, Sound

(* A transaction that writes the account of one row, s, and leaves those   *)
(* of the others.                                                          *)
Fresh(p, s) == p.verified # None => P!UidIsFree(p.verified, p.env, s)
SameUid(p, q) == q.env = p.env /\ q.verified = p.verified

LEMMA RowsChange ==
    ASSUME RowsSound, Apart, NEW s, filled \subseteq filled',
           \A t \in Slots \ {s} : profile'[t] # None /\ ~stale'[t] =>
               profile[t] # None /\ ~stale[t] /\ Same(profile[t], profile'[t]),
           s \in Slots /\ profile'[s] # None /\ ~stale'[s] =>
               /\ Sound(profile'[s], filled')
               /\ \/ Fresh(profile'[s], s)
                  \/ profile[s] # None /\ ~stale[s] /\ SameUid(profile[s], profile'[s])
    PROVE  RowsSound' /\ Apart'
<1>1. RowsSound'
  <2> SUFFICES ASSUME NEW t \in Slots, profile'[t] # None, ~stale'[t]
               PROVE  Sound(profile'[t], filled')
    BY DEF RowsSound, P!Present
  <2>1. CASE t = s
    BY <2>1
  <2>2. CASE t # s
    <3>1. profile[t] # None /\ ~stale[t] /\ Same(profile[t], profile'[t])
      BY <2>2
    <3>2. Sound(profile[t], filled)
      BY <3>1 DEF RowsSound, P!Present
    <3> QED BY <3>1, <3>2, SoundSame
  <2> QED BY <2>1, <2>2
<1>2. Apart'
  <2> DEFINE Clear(t) == t \in Slots /\ profile'[t] # None /\ ~stale'[t]
  <2>1. ASSUME NEW t, NEW u, Clear(t), Clear(u), t # u,
               profile'[t].env = profile'[u].env, profile'[t].verified # None,
               profile'[t].verified = profile'[u].verified
        PROVE  FALSE
    <3>1. ASSUME NEW v, Clear(v), v # s
          PROVE  v \in P!Present /\ ~stale[v] /\ SameUid(profile[v], profile'[v])
      BY <3>1 DEF P!Present, Same, SameUid
    <3>2. CASE t # s /\ u # s
      BY <2>1, <3>1, <3>2 DEF Apart, SameUid
    <3>3. ASSUME NEW v, Clear(v), v # s, Clear(s), profile'[v].env = profile'[s].env,
                 profile'[s].verified # None, profile'[v].verified = profile'[s].verified
          PROVE  FALSE
      <4>1. v \in P!Present /\ ~stale[v] /\ SameUid(profile[v], profile'[v])
        BY <3>1, <3>3
      <4>2. CASE Fresh(profile'[s], s)
        BY <3>3, <4>1, <4>2 DEF Fresh, P!UidIsFree, SameUid
      <4>3. CASE profile[s] # None /\ ~stale[s] /\ SameUid(profile[s], profile'[s])
        BY <3>3, <4>1, <4>3 DEF Apart, P!Present, SameUid
      <4> QED BY <3>3, <4>2, <4>3
    <3> QED BY <2>1, <3>2, <3>3
  <2> QED BY <2>1 DEF Apart, P!Present
<1> QED BY <1>1, <1>2

(* A row that is not stale was not, and was not written over.              *)
LEMMA CommitStale ==
    ASSUME ProfilesType, NEW h \in Handlers, NEW new, P!Commit(h, new), NEW t \in Slots,
           new[t] # None, ~stale'[t]
    PROVE  ~stale[t] /\ (req[h].slot = t /\ ~req[h].clean => new[t] = profile[t])
<1>1. stale'[t] = (/\ new[t] # None
                   /\ stale[t] \/ (req[h].slot = t /\ ~req[h].clean /\ new[t] # profile[t]))
  BY DEF P!Commit
<1> QED BY Zenon, <1>1

LEMMA CommitKeeps ==
    ASSUME ProfilesInv, NEW h \in Handlers, MayEnd(h), NEW new,
           new \in [Slots -> P!Row \cup {None}], P!Commit(h, new),
           filled' \subseteq P!Uids \X Sides, RowsInv'
    PROVE  ProfilesInv'
<1>1. RequestsType'
  BY CommitRequests DEF ProfilesInv
<1>2. profile' = new
  BY DEF P!Commit
<1>3. stale' \in [Slots -> BOOLEAN]
  BY DEF P!Commit
<1> QED BY <1>1, <1>2, <1>3 DEF ProfilesInv, ProfilesType, RequestsType, RowsInv

(* A transaction that leaves the accounts and the certificates.            *)
Alike(rows, new) == \A t \in Slots : new[t] # None => rows[t] # None /\ Same(rows[t], new[t])

LEMMA AlikeKeeps ==
    ASSUME ProfilesInv, NEW h \in Handlers, MayEnd(h), NEW new,
           new \in [Slots -> P!Row \cup {None}], P!Commit(h, new), Alike(profile, new),
           filled \subseteq filled', filled' \subseteq P!Uids \X Sides
    PROVE  ProfilesInv'
<1>1. profile' = new
  BY DEF P!Commit
<1>2. \A t \in Slots : profile'[t] # None /\ ~stale'[t] =>
          profile[t] # None /\ ~stale[t] /\ Same(profile[t], profile'[t])
  <2> SUFFICES ASSUME NEW t \in Slots, new[t] # None, ~stale'[t]
               PROVE  profile[t] # None /\ ~stale[t] /\ Same(profile[t], new[t])
    BY <1>1
  <2>1. ~stale[t]
    BY CommitStale DEF ProfilesInv
  <2> QED BY <2>1 DEF Alike
<1>3. None \notin Slots
  BY ProfilesAssumption
<1>4. RowsSound' /\ Apart'
  BY <1>2, <1>3, RowsChange DEF ProfilesInv
<1> QED BY <1>4, CommitKeeps DEF RowsInv

LEMMA FailsKeeps ==
    ASSUME ProfilesInv, NEW h \in Handlers, MayEnd(h), P!Fails(h), filled \subseteq filled',
           filled' \subseteq P!Uids \X Sides
    PROVE  ProfilesInv'
<1>1. profile \in [Slots -> P!Row \cup {None}]
  BY DEF ProfilesInv, ProfilesType
<1>2. Alike(profile, profile)
  BY DEF Alike, Same
<1> QED BY <1>1, <1>2, AlikeKeeps DEF P!Fails

(* The active mark is of no account and of no certificate.                 *)
LEMMA ActiveRow ==
    ASSUME NEW p \in P!Row, NEW x \in BOOLEAN, NEW q, q = [p EXCEPT !.active = x]
    PROVE  q \in P!Row /\ Same(p, q)
  BY DEF P!Row, Same

LEMMA PromotedRows ==
    ASSUME NEW rows \in [Slots -> P!Row \cup {None}], NEW set,
           \A t \in set : t \in Slots /\ rows[t] # None,
           NEW new, new = P!Promoted(rows, set)
    PROVE  /\ new \in [Slots -> P!Row \cup {None}] /\ Alike(rows, new)
           /\ \A t \in Slots \ set : new[t] = rows[t]
           /\ \A t \in Slots : rows[t] = None <=> new[t] = None
<1> DEFINE On(t) == [rows[t] EXCEPT !.active = TRUE]
<1>1. \A t \in Slots : new[t] = IF t \in set THEN On(t) ELSE rows[t]
  BY DEF P!Promoted
<1>2. \A t \in set : On(t) \in P!Row /\ Same(rows[t], On(t))
  BY ActiveRow
<1> HIDE DEF On
<1>3. ASSUME NEW t \in Slots
      PROVE  /\ new[t] \in P!Row \cup {None} /\ (rows[t] = None <=> new[t] = None)
             /\ new[t] # None => Same(rows[t], new[t])
             /\ t \notin set => new[t] = rows[t]
  <2>1. CASE t \in set
    BY <1>1, <1>2, <2>1, ProfilesAssumption
  <2>2. CASE t \notin set
    BY <1>1, <2>2 DEF Same
  <2> QED BY <2>1, <2>2
<1>4. new \in [Slots -> P!Row \cup {None}]
  BY <1>3 DEF P!Promoted
<1> QED BY <1>3, <1>4 DEF Alike

LEMMA ActivatedRows ==
    ASSUME NEW rows \in [Slots -> P!Row \cup {None}], NEW s \in Slots, rows[s] # None,
           NEW found, \A t \in found : t \in Slots /\ rows[t] # None,
           NEW new, new = P!Activated(rows, s, found)
    PROVE  new \in [Slots -> P!Row \cup {None}] /\ Alike(rows, new)
<1> DEFINE On(t) == [rows[t] EXCEPT !.active = TRUE]
           Off(t) == [rows[t] EXCEPT !.active = FALSE]
<1>1. \A t \in Slots : new[t] = IF t = s THEN On(t) ELSE IF t \in found THEN Off(t)
                                ELSE rows[t]
  BY DEF P!Activated
<1>2. \A t \in Slots : rows[t] # None =>
          /\ On(t) \in P!Row /\ Same(rows[t], On(t))
          /\ Off(t) \in P!Row /\ Same(rows[t], Off(t))
  BY ActiveRow
<1> HIDE DEF On, Off
<1>3. ASSUME NEW t \in Slots
      PROVE  /\ new[t] \in P!Row \cup {None}
             /\ new[t] # None => rows[t] # None /\ Same(rows[t], new[t])
  <2>1. CASE t = s
    BY <1>1, <1>2, <2>1
  <2>2. CASE t # s /\ t \in found
    BY <1>1, <1>2, <2>2
  <2>3. CASE t # s /\ t \notin found
    BY <1>1, <2>3 DEF Same
  <2> QED BY <2>1, <2>2, <2>3
<1>4. new \in [Slots -> P!Row \cup {None}]
  BY <1>3 DEF P!Activated
<1> QED BY <1>3, <1>4 DEF Alike

(* The rows that a request found, and will write as well.                  *)
LEMMA FoundRows ==
    ASSUME ProfilesInv, NEW h \in Handlers
    PROVE  /\ req[h].slot # None => req[h].slot \in P!Present /\ req[h].slot \in Slots
           /\ \A t \in req[h].others : t \in Slots /\ profile[t] # None /\ t # req[h].slot
<1>1. Holds(req[h], profile) /\ req[h] \in RequestRow
  BY DEF ProfilesInv, ProfilesType, Requests
<1> QED BY <1>1 DEF Holds, Remains, RequestRow, P!Present

(* What a clean request makes of a row that is not stale.                  *)
Rightly(h, copy, new, orders) ==
    \A s \in P!Present : req[h].slot = s /\ req[h].clean /\ ~stale[s] =>
        LET r == P!Saved(profile[s], copy, new)
        IN  Sound(r, orders) /\ (Fresh(r, s) \/ SameUid(profile[s], r))

(* A request writes its row: what it means to, where nothing changed, or   *)
(* into a row that becomes stale, or nothing.                              *)
LEMMA WriteKeeps ==
    ASSUME ProfilesInv, NEW h \in Handlers, MayEnd(h), NEW copy \in P!Row, NEW new \in P!Row,
           P!Write(h, copy, new), filled \subseteq filled',
           filled' \subseteq P!Uids \X Sides, Rightly(h, copy, new, filled')
    PROVE  ProfilesInv'
<1>1. CASE req[h].slot = None
  BY <1>1, FailsKeeps DEF P!Write, P!Fails
<1>2. CASE req[h].slot # None
  <2> PICK s \in P!Present : s = req[h].slot
    BY <1>2, FoundRows
  <2>s. s \in Slots /\ profile[s] \in P!Row
    BY PresentRow
  <2> PICK r : r = P!Saved(profile[s], copy, new)
    OBVIOUS
  <2>1. r \in P!Row /\ r # None
    BY <2>s, SavedRow, ProfilesAssumption
  <2> PICK own : own = [profile EXCEPT ![s] = r]
    OBVIOUS
  <2> PICK set : set = req[h].others
    OBVIOUS
  <2> PICK rows : rows = P!Promoted(own, set)
    OBVIOUS
  <2>p. rows = P!Promoted(own, set)
    OBVIOUS
  <2>2. P!Commit(h, rows)
    BY <1>2 DEF P!Write
  <2>3. own \in [Slots -> P!Row \cup {None}] /\ own[s] = r
        /\ \A t \in Slots : t # s => own[t] = profile[t]
    BY <2>1, <2>s DEF ProfilesInv, ProfilesType
  <2>4. s \notin set /\ \A t \in set : t \in Slots /\ own[t] # None
    BY <2>3, FoundRows
  <2>5. /\ rows \in [Slots -> P!Row \cup {None}] /\ Alike(own, rows)
        /\ \A t \in Slots \ set : rows[t] = own[t]
    BY ONLY <2>3, <2>4, <2>p, PromotedRows
  <2>6. rows[s] = r
    BY <2>3, <2>4, <2>5, <2>s
  <2>7. profile' = rows
    BY <2>2 DEF P!Commit
  <2>8. \A t \in Slots : profile'[t] # None /\ ~stale'[t] =>
            ~stale[t] /\ (t = s /\ ~req[h].clean => rows[s] = profile[s])
    <3> SUFFICES ASSUME NEW t \in Slots, rows[t] # None, ~stale'[t]
                 PROVE  ~stale[t] /\ (t = s /\ ~req[h].clean => rows[s] = profile[s])
      BY <2>7
    <3>1. ~stale[t] /\ (req[h].slot = t /\ ~req[h].clean => rows[t] = profile[t])
      BY <2>2, CommitStale DEF ProfilesInv
    <3> QED BY Zenon, <3>1
  <2>9. \A t \in Slots \ {s} : profile'[t] # None /\ ~stale'[t] =>
            profile[t] # None /\ ~stale[t] /\ Same(profile[t], profile'[t])
    BY <2>3, <2>5, <2>7, <2>8 DEF Alike
  <2>10. ASSUME ~stale'[s]
         PROVE  /\ Sound(profile'[s], filled')
                /\ \/ Fresh(profile'[s], s)
                   \/ profile[s] # None /\ ~stale[s] /\ SameUid(profile[s], profile'[s])
    <3>1. ~stale[s] /\ profile'[s] = r /\ profile[s] # None
      BY <2>1, <2>6, <2>7, <2>8, <2>10, <2>s DEF P!Present
    <3>2. CASE req[h].clean
      <4>1. Sound(r, filled') /\ (Fresh(r, s) \/ SameUid(profile[s], r))
        BY <3>1, <3>2 DEF Rightly
      <4> QED BY <3>1, <4>1
    <3>3. CASE ~req[h].clean
      <4>1. r = profile[s]
        BY <2>1, <2>6, <2>7, <2>8, <2>10, <2>s, <3>3
      <4>2. Sound(profile[s], filled) /\ Same(profile[s], r)
        BY <3>1, <4>1 DEF ProfilesInv, RowsSound, Same
      <4> QED BY <3>1, <4>1, <4>2, SoundSame DEF SameUid
    <3> QED BY <3>2, <3>3
  <2>11. RowsSound' /\ Apart'
    BY <2>9, <2>10, RowsChange DEF ProfilesInv
  <2> QED BY <2>2, <2>5, <2>11, CommitKeeps DEF RowsInv
<1> QED BY <1>1, <1>2

(* Credentials are encrypted anew, so both columns are written.            *)
LEMMA SavedWithKey ==
    ASSUME NEW row \in P!Row, NEW p \in P!Row, NEW k \in Keys, Matches(p, row),
           NEW r, r = P!Saved(row, Bare(p), P!WithKey(p, k))
    PROVE  /\ r.key = k /\ r.verified = Uid[k] /\ r.env = p.env
           /\ r.status = "NOT_TESTED" /\ r.passed = {} /\ ~r.certified
<1>1. k # None /\ Uid[k] # None
  BY ProfilesAssumption DEF Uid
<1>2. /\ Bare(p) \in P!Row /\ Bare(p).key = None /\ Bare(p).verified = None
      /\ Bare(p).env = p.env /\ Bare(p).status = p.status /\ Bare(p).passed = p.passed
  BY DEF Bare, P!Row
<1>3. Bare(p).certified = p.certified
  BY DEF Bare, P!Row
<1>4. /\ P!WithKey(p, k) \in P!Row
      /\ P!WithKey(p, k).key = k /\ P!WithKey(p, k).verified = Uid[k]
      /\ P!WithKey(p, k).env = p.env /\ P!WithKey(p, k).status = "NOT_TESTED"
      /\ P!WithKey(p, k).passed = {} /\ ~P!WithKey(p, k).certified
  BY WithKeyRow
<1>5. /\ r.env = (IF P!WithKey(p, k).env = Bare(p).env THEN row.env ELSE P!WithKey(p, k).env)
      /\ r.key = (IF P!WithKey(p, k).key = Bare(p).key THEN row.key ELSE P!WithKey(p, k).key)
      /\ r.verified = (IF P!WithKey(p, k).verified = Bare(p).verified THEN row.verified
                       ELSE P!WithKey(p, k).verified)
      /\ r.status = (IF P!WithKey(p, k).status = Bare(p).status THEN row.status
                     ELSE P!WithKey(p, k).status)
      /\ r.passed = {s \in Sides :
                       IF (s \in P!WithKey(p, k).passed) = (s \in Bare(p).passed)
                       THEN s \in row.passed ELSE s \in P!WithKey(p, k).passed}
      /\ r.certified = (IF P!WithKey(p, k).certified = Bare(p).certified
                        THEN row.certified ELSE P!WithKey(p, k).certified)
  BY <1>2, <1>4, SavedColumns
<1>6. p.env = row.env /\ p.status = row.status /\ p.passed = row.passed
  BY DEF Matches
<1>7. p.certified = row.certified
  BY DEF Matches
<1>8. r.passed = {}
  <2> SUFFICES ASSUME NEW s \in r.passed
               PROVE  FALSE
    OBVIOUS
  <2>1. s \in Sides /\ (IF (s \in P!WithKey(p, k).passed) = (s \in Bare(p).passed)
                        THEN s \in row.passed ELSE s \in P!WithKey(p, k).passed)
    BY <1>5
  <2> QED BY <2>1, <1>2, <1>4, <1>6
<1>9. ~r.certified
  BY Zenon, <1>3, <1>4, <1>5, <1>7
<1> QED BY <1>1, <1>2, <1>4, <1>5, <1>6, <1>8, <1>9

LEMMA FinishSaveKeeps ==
    ASSUME ProfilesInv, NEW h \in Handlers, P!FinishSave(h)
    PROVE  ProfilesInv'
<1> PICK p \in P!Row : p = req[h].copy
  BY DEF P!FinishSave, ProfilesInv, Requests, Holds, Loaded, CopyKinds
<1> PICK k \in Keys : k = req[h].key
  BY DEF P!FinishSave, ProfilesInv, Requests, Holds, Loaded, P!Provisioning
<1>k. req[h].kind = "save" /\ filled' = filled
  BY DEF P!FinishSave
<1>b. MayEnd(h)
  BY Zenon DEF P!FinishSave, MayEnd
<1>3. filled \subseteq filled' /\ filled' \subseteq P!Uids \X Sides
  BY <1>k DEF ProfilesInv, ProfilesType
<1>4. CASE P!Fails(h)
  BY <1>b, <1>3, <1>4, FailsKeeps
<1>5. CASE /\ Env[k] = p.env
           /\ P!UidIsFree(Uid[k], p.env, req[h].slot)
           /\ P!Write(h, Bare(p), P!WithKey(p, k))
  <2>1. ASSUME NEW s \in P!Present, req[h].slot = s, req[h].clean, ~stale[s],
               NEW r, r = P!Saved(profile[s], Bare(p), P!WithKey(p, k))
        PROVE  Sound(r, filled') /\ (Fresh(r, s) \/ SameUid(profile[s], r))
    <3>1. profile[s] \in P!Row /\ s \in Slots /\ s # None
      BY ProfilesAssumption DEF P!Present, ProfilesInv, ProfilesType
    <3>2. Matches(p, profile[s])
      BY <1>k, <2>1, <3>1 DEF ProfilesInv, Requests, Holds, Remains, CopyKinds
    <3>3. /\ r.key = k /\ r.verified = Uid[k] /\ r.env = p.env
          /\ r.status = "NOT_TESTED" /\ r.passed = {} /\ ~r.certified
      <4>1. r = P!Saved(profile[s], Bare(p), P!WithKey(p, k))
        BY <2>1
      <4> QED BY <3>1, <3>2, <4>1, SavedWithKey
    <3>4. Sound(r, filled')
      BY <1>5, <3>3, ProfilesAssumption DEF Sound
    <3>5. Fresh(r, s)
      BY <1>5, <2>1, <3>3 DEF Fresh
    <3> QED BY <3>4, <3>5
  <2>2. Bare(p) \in P!Row /\ P!WithKey(p, k) \in P!Row
    BY BareRow, WithKeyRow
  <2>3. P!Write(h, Bare(p), P!WithKey(p, k))
    BY <1>5
  <2>4. Rightly(h, Bare(p), P!WithKey(p, k), filled')
    BY <2>1 DEF Rightly
  <2> QED BY <1>b, <1>3, <2>2, <2>3, <2>4, WriteKeeps
<1> QED BY <1>4, <1>5 DEF P!FinishSave, Bare

(* A request that writes its row compares it with what it loaded, but for  *)
(* the window.                                                             *)
LEMMA OwnWriteKeeps ==
    ASSUME ProfilesInv, NEW h \in Handlers, MayEnd(h), req[h].kind \in CopyKinds,
           NEW p \in P!Row, p = req[h].copy, NEW c \in P!Row, Matches(p, c),
           NEW q \in P!Row, P!Write(h, c, q), filled \subseteq filled',
           filled' \subseteq P!Uids \X Sides,
           Sound(p, filled) => Sound(q, filled') /\ (SameUid(p, q) \/ q.verified = None)
    PROVE  ProfilesInv'
<1>1. ASSUME NEW s \in P!Present, req[h].slot = s, req[h].clean, ~stale[s],
             NEW r, r = P!Saved(profile[s], c, q)
      PROVE  Sound(r, filled') /\ (Fresh(r, s) \/ SameUid(profile[s], r))
  <2>1. profile[s] \in P!Row /\ s \in Slots /\ s # None
    BY PresentRow
  <2>2. Matches(p, profile[s])
    BY <1>1, <2>1 DEF ProfilesInv, Requests, Holds, Remains
  <2>c. Matches(c, profile[s])
    BY <2>2 DEF Matches
  <2>3. Matches(q, r)
    BY <1>1, <2>1, <2>c, SavedCleanly
  <2>4. Sound(profile[s], filled)
    BY <1>1 DEF ProfilesInv, RowsSound
  <2>5. Sound(p, filled)
    BY <2>2, <2>4 DEF Matches, Sound
  <2>6. Sound(q, filled') /\ (SameUid(p, q) \/ q.verified = None)
    BY <2>5
  <2>7. Sound(r, filled')
    BY <2>3, <2>6, SoundMatches
  <2>8. SameUid(p, q) => SameUid(profile[s], r)
    BY <2>2, <2>3 DEF Matches, SameUid
  <2>9. q.verified = None => Fresh(r, s)
    BY <2>3 DEF Matches, Fresh
  <2> QED BY <2>6, <2>7, <2>8, <2>9
<1>2. Rightly(h, c, q, filled')
  BY <1>1 DEF Rightly
<1> QED BY <1>2, WriteKeeps

LEMMA MatchesItself == \A p : Matches(p, p)
  BY DEF Matches

(* What a request that read its row has at hand when it ends.              *)
LEMMA RequestHas ==
    ASSUME ProfilesInv, NEW h \in Handlers, req[h].kind \in CopyKinds
    PROVE  /\ req[h].copy \in P!Row
           /\ req[h].kind \in KeyKinds => req[h].copy.key \in Keys /\ req[h].copy.key # None
           /\ req[h].kind \in {"certify", "reconcile"} => req[h].copy.env # "LIVE"
           /\ req[h].kind = "certify" => req[h].side \in Sides
<1>1. Holds(req[h], profile)
  BY DEF ProfilesInv, Requests
<1> QED BY <1>1, ProfilesAssumption DEF Holds, Loaded

LEMMA FilledGrows ==
    ASSUME ProfilesInv, NEW k \in Keys, NEW side \in Sides,
           \/ filled' = filled
           \/ filled' = filled \cup {<<Uid[k], side>>}
    PROVE  filled \subseteq filled' /\ filled' \subseteq P!Uids \X Sides
<1>1. filled \subseteq P!Uids \X Sides
  BY DEF ProfilesInv, ProfilesType
<1>2. Uid[k] \in P!Uids
  BY DEF P!Uids
<1> QED BY <1>1, <1>2

LEMMA FinishProbeKeeps ==
    ASSUME ProfilesInv, NEW h \in Handlers, P!FinishProbe(h)
    PROVE  ProfilesInv'
<1>k. req[h].kind = "probe" /\ filled' = filled
  BY DEF P!FinishProbe
<1>b. MayEnd(h)
  BY Zenon DEF P!FinishProbe, MayEnd
<1>f. filled \subseteq filled' /\ filled' \subseteq P!Uids \X Sides
  BY <1>k DEF ProfilesInv, ProfilesType
<1> PICK p \in P!Row : p = req[h].copy
  BY <1>k, RequestHas DEF KeyKinds, CopyKinds
<1>p. p.key \in Keys /\ p.key # None
  BY <1>k, RequestHas DEF KeyKinds, CopyKinds
<1>w. PICK c \in BOOLEAN : \E q :
        P!Write(h, p, q) /\ (q = Refused(p) \/ (q = Probed(p, c) /\ Env[p.key] = p.env))
  BY Zenon DEF P!FinishProbe, Refused, Probed
<1>1. PICK q : P!Write(h, p, q) /\ (q = Refused(p) \/ (q = Probed(p, c) /\ Env[p.key] = p.env))
  BY <1>w
<1>2. /\ q \in P!Row /\ q.passed = p.passed
      /\ q.certified = p.certified /\ q.key = p.key /\ q.verified = p.verified
      /\ q.env = p.env /\ (q = Refused(p) => q.status = "FAILED")
  BY <1>1, ProbedRow
<1>3. Sound(p, filled) => Sound(q, filled') /\ (SameUid(p, q) \/ q.verified = None)
  BY <1>1, <1>2, <1>p, <1>k DEF Sound, SameUid
<1>4. P!Write(h, p, q)
  BY <1>1
<1> QED BY <1>2, <1>3, <1>4, <1>k, <1>b, <1>f, MatchesItself,
         OwnWriteKeeps DEF KeyKinds, CopyKinds

LEMMA FinishDetectKeeps ==
    ASSUME ProfilesInv, NEW h \in Handlers, P!FinishDetect(h)
    PROVE  ProfilesInv'
<1>k. req[h].kind = "detect" /\ filled' = filled
  BY DEF P!FinishDetect
<1>b. MayEnd(h)
  BY Zenon DEF P!FinishDetect, MayEnd
<1>f. filled \subseteq filled' /\ filled' \subseteq P!Uids \X Sides
  BY <1>k DEF ProfilesInv, ProfilesType
<1> PICK p \in P!Row : p = req[h].copy
  BY <1>k, RequestHas DEF KeyKinds, CopyKinds
<1>p. p.key \in Keys /\ p.key # None
  BY <1>k, RequestHas DEF KeyKinds, CopyKinds
<1>1. CASE P!Fails(h)
  BY <1>1, <1>b, <1>f, FailsKeeps
<1>2. CASE P!Write(h, p, P!Detected(p))
  <2> PICK q : q = P!Detected(p)
    OBVIOUS
  <2>1. /\ q \in P!Row /\ q.key = p.key /\ q.verified = p.verified
        /\ q.env = Env[p.key] /\ q.status = "CONNECTED"
        /\ p.env = Env[p.key] => q.passed = p.passed /\ q.certified = p.certified
        /\ p.env # Env[p.key] => q.passed = {} /\ ~q.certified
    BY <1>p, DetectedRow
  <2>2. Sound(p, filled) => Sound(q, filled') /\ (SameUid(p, q) \/ q.verified = None)
    BY <2>1, <1>p, <1>k DEF Sound, SameUid
  <2>3. P!Write(h, p, q)
    BY <1>2
  <2> QED BY <2>1, <2>2, <2>3, <1>k, <1>b, <1>f, MatchesItself,
         OwnWriteKeeps DEF KeyKinds, CopyKinds
<1> QED BY Zenon, <1>1, <1>2 DEF P!FinishDetect

(* The orders of a certification fill before it is written.                *)
LEMMA FinishCertifyKeeps ==
    ASSUME ProfilesInv, NEW h \in Handlers, P!FinishCertify(h)
    PROVE  ProfilesInv'
<1>k. req[h].kind = "certify"
  BY DEF P!FinishCertify
<1>b. MayEnd(h)
  BY Zenon DEF P!FinishCertify, MayEnd
<1> PICK p \in P!Row : p = req[h].copy
  BY <1>k, RequestHas DEF KeyKinds, CopyKinds
<1> PICK side \in Sides : side = req[h].side
  BY <1>k, RequestHas DEF KeyKinds, CopyKinds
<1>p. p.key \in Keys /\ p.key # None /\ p.env # "LIVE"
  BY <1>k, RequestHas DEF KeyKinds, CopyKinds
<1>e. \/ filled' = filled
      \/ filled' = filled \cup {<<Uid[p.key], side>>}
  BY DEF P!FinishCertify
<1>f. filled \subseteq filled' /\ filled' \subseteq P!Uids \X Sides
  BY <1>e, <1>p, FilledGrows
<1>1. CASE P!Fails(h)
  BY <1>1, <1>b, <1>f, FailsKeeps
<1>2. CASE /\ filled' = filled \cup {<<Uid[p.key], side>>}
           /\ P!Write(h, p, P!Passed(p, side))
  <2> PICK q : q = P!Passed(p, side)
    OBVIOUS
  <2>1. /\ q \in P!Row /\ q.key = p.key /\ q.verified = p.verified
        /\ q.env = p.env /\ q.status = p.status /\ q.passed = p.passed \cup {side}
        /\ q.certified = (q.passed = Sides)
    BY PassedRow
  <2>2. Sound(p, filled) => Sound(q, filled') /\ (SameUid(p, q) \/ q.verified = None)
    BY <2>1, <1>p, <1>2 DEF Sound, SameUid
  <2>3. P!Write(h, p, q)
    BY <1>2
  <2> QED BY <2>1, <2>2, <2>3, <1>k, <1>b, <1>f, MatchesItself,
         OwnWriteKeeps DEF KeyKinds, CopyKinds
<1> QED BY Zenon, <1>1, <1>2 DEF P!FinishCertify

LEMMA FinishReconcileKeeps ==
    ASSUME ProfilesInv, NEW h \in Handlers, P!FinishReconcile(h)
    PROVE  ProfilesInv'
<1>k. req[h].kind = "reconcile" /\ filled' = filled
  BY DEF P!FinishReconcile
<1>b. MayEnd(h)
  BY Zenon DEF P!FinishReconcile, MayEnd
<1>f. filled \subseteq filled' /\ filled' \subseteq P!Uids \X Sides
  BY <1>k DEF ProfilesInv, ProfilesType
<1> PICK p \in P!Row : p = req[h].copy
  BY <1>k, RequestHas DEF KeyKinds, CopyKinds
<1>p. p.key \in Keys /\ p.key # None /\ p.env # "LIVE"
  BY <1>k, RequestHas DEF KeyKinds, CopyKinds
<1>1. CASE P!Fails(h)
  BY <1>1, <1>b, <1>f, FailsKeeps
<1>2. ASSUME NEW e \in SUBSET P!Evidence(p) \ {{}},
             P!Write(h, p, Reconciled(p, e))
      PROVE  ProfilesInv'
  <2> PICK q : q = Reconciled(p, e)
    OBVIOUS
  <2>0. e \in SUBSET Sides /\ \A side \in e : <<Uid[p.key], side>> \in filled
    BY DEF P!Evidence
  <2>1. /\ q \in P!Row /\ q.key = p.key /\ q.verified = p.verified
        /\ q.env = p.env /\ q.status = p.status /\ q.passed = e
        /\ q.certified = (e = Sides)
    BY <2>0, ReconciledRow
  <2>2. Sound(p, filled) => Sound(q, filled') /\ (SameUid(p, q) \/ q.verified = None)
    BY <2>0, <2>1, <1>p, <1>k DEF Sound, SameUid
  <2>3. P!Write(h, p, q)
    BY <1>2
  <2> QED BY <2>1, <2>2, <2>3, <1>k, <1>b, <1>f, MatchesItself,
         OwnWriteKeeps DEF KeyKinds, CopyKinds
<1> QED BY Zenon, <1>1, <1>2 DEF P!FinishReconcile, Reconciled

(* What the requests in threads make of a row.                             *)
LEMMA DisarmedRow ==
    ASSUME NEW p \in P!Row
    PROVE  P!Disarmed(p) \in P!Row /\ Same(p, P!Disarmed(p))
  BY DEF P!Disarmed, P!Row, Same

LEMMA DisconnectedRow ==
    ASSUME NEW p \in P!Row, NEW q, q = P!Disconnected(p)
    PROVE  /\ q \in P!Row /\ q.key = None /\ q.verified = None /\ q.status = "DISCONNECTED"
           /\ q.certified = p.certified /\ q.passed = p.passed /\ q.env = p.env
<1> PICK d \in P!Row : d = P!Disarmed(p) /\ Same(p, d)
  BY DisarmedRow
<1>1. q = [d EXCEPT !.enabled = FALSE, !.active = FALSE, !.key = None, !.verified = None,
                    !.status = "DISCONNECTED", !.counts = FALSE]
  BY DEF P!Disconnected
<1>2. /\ q \in P!Row /\ q.key = None /\ q.verified = None /\ q.status = "DISCONNECTED"
      /\ q.certified = d.certified /\ q.passed = d.passed /\ q.env = d.env
  BY <1>1 DEF P!Row
<1> QED BY <1>2 DEF Same

LEMMA ToggledRow ==
    ASSUME NEW p \in P!Row
    PROVE  P!Toggled(p) \in P!Row /\ Same(p, P!Toggled(p))
<1>1. CASE p.enabled
  <2> PICK d \in P!Row : d = P!Disarmed(p) /\ Same(p, d)
    BY DisarmedRow
  <2> PICK q : q = [d EXCEPT !.enabled = FALSE, !.active = FALSE]
    OBVIOUS
  <2>1. q \in P!Row /\ Same(d, q)
    BY DEF P!Row, Same
  <2>2. P!Toggled(p) = q
    BY <1>1 DEF P!Toggled
  <2> QED BY <2>1, <2>2 DEF Same
<1>2. CASE ~p.enabled
  <2> PICK q : q = [p EXCEPT !.enabled = TRUE]
    OBVIOUS
  <2>1. q \in P!Row /\ Same(p, q)
    BY DEF P!Row, Same
  <2>2. P!Toggled(p) = q
    BY <1>2 DEF P!Toggled
  <2> QED BY <2>1, <2>2
<1> QED BY <1>1, <1>2

LEMMA ArmedRow ==
    ASSUME NEW p \in P!Row, NEW c, c = [p EXCEPT !.expiry = "none"],
           NEW q, q = [p EXCEPT !.live = TRUE, !.expiry = "ahead"]
    PROVE  c \in P!Row /\ Matches(p, c) /\ q \in P!Row /\ Same(p, q)
<1>1. c \in P!Row /\ Matches(p, c)
  BY DEF P!Row, Matches
<1>2. q \in P!Row /\ Same(p, q)
  BY DEF P!Row, Same
<1> QED BY <1>1, <1>2

LEMMA SameIsRight ==
    ASSUME NEW p, NEW q, Same(p, q), NEW orders
    PROVE  Sound(p, orders) => Sound(q, orders) /\ (SameUid(p, q) \/ q.verified = None)
  BY SoundSame DEF Same, SameUid

LEMMA FinishChangeKeeps ==
    ASSUME ProfilesInv, NEW h \in Handlers,
           P!FinishDisconnect(h) \/ P!FinishToggle(h) \/ P!FinishArm(h) \/ P!FinishDisarm(h)
    PROVE  ProfilesInv'
<1>k. req[h].kind \in {"disconnect", "toggle", "arm", "disarm"} /\ filled' = filled
  BY DEF P!FinishDisconnect, P!FinishToggle, P!FinishArm, P!FinishDisarm
<1>b. MayEnd(h) /\ req[h].kind \in CopyKinds
  BY <1>k DEF MayEnd, P!Provisioning, CopyKinds
<1>f. filled \subseteq filled' /\ filled' \subseteq P!Uids \X Sides
  BY <1>k DEF ProfilesInv, ProfilesType
<1> PICK p \in P!Row : p = req[h].copy
  BY <1>b, RequestHas
<1>1. CASE P!Fails(h)
  BY <1>1, <1>b, <1>f, FailsKeeps
<1>2. ASSUME NEW c \in P!Row, Matches(p, c), NEW q \in P!Row, P!Write(h, c, q),
             Sound(p, filled) => Sound(q, filled) /\ (SameUid(p, q) \/ q.verified = None)
      PROVE  ProfilesInv'
  <2>1. Sound(p, filled) => Sound(q, filled') /\ (SameUid(p, q) \/ q.verified = None)
    BY <1>k, <1>2
  <2> QED BY <1>2, <1>b, <1>f, <2>1, OwnWriteKeeps
<1>3. CASE P!Write(h, p, P!Disconnected(p))
  <2> PICK q : q = P!Disconnected(p)
    OBVIOUS
  <2>1. /\ q \in P!Row /\ q.key = None /\ q.verified = None /\ q.status = "DISCONNECTED"
        /\ q.certified = p.certified /\ q.passed = p.passed /\ q.env = p.env
    BY DisconnectedRow
  <2>2. Sound(p, filled) => Sound(q, filled)
    BY <2>1 DEF Sound
  <2> QED BY <1>2, <1>3, <2>1, <2>2, MatchesItself
<1>4. ASSUME NEW q \in P!Row, Same(p, q), P!Write(h, p, q)
      PROVE  ProfilesInv'
  BY <1>2, <1>4, MatchesItself, SameIsRight
<1>5. ASSUME NEW c, c = [p EXCEPT !.expiry = "none"],
             NEW q, q = [p EXCEPT !.live = TRUE, !.expiry = "ahead"], P!Write(h, c, q)
      PROVE  ProfilesInv'
  BY <1>2, <1>5, ArmedRow, SameIsRight
<1>6. \/ P!Fails(h) \/ P!Write(h, p, P!Disconnected(p)) \/ P!Write(h, p, P!Toggled(p))
      \/ P!Write(h, p, P!Disarmed(p))
      \/ P!Write(h, [p EXCEPT !.expiry = "none"], [p EXCEPT !.live = TRUE, !.expiry = "ahead"])
  BY Zenon DEF P!FinishDisconnect, P!FinishToggle, P!FinishArm, P!FinishDisarm
<1>7. CASE P!Write(h, p, P!Toggled(p))
  BY <1>4, <1>7, ToggledRow
<1>8. CASE P!Write(h, p, P!Disarmed(p))
  BY <1>4, <1>8, DisarmedRow
<1> QED BY <1>1, <1>3, <1>5, <1>6, <1>7, <1>8

LEMMA FinishActivateKeeps ==
    ASSUME ProfilesInv, NEW h \in Handlers, P!FinishActivate(h)
    PROVE  ProfilesInv'
<1>k. req[h].kind = "activate" /\ filled' = filled
  BY DEF P!FinishActivate
<1>b. MayEnd(h)
  BY <1>k DEF MayEnd, P!Provisioning
<1>f. filled \subseteq filled' /\ filled' \subseteq P!Uids \X Sides
  BY <1>k DEF ProfilesInv, ProfilesType
<1>1. CASE P!Fails(h)
  BY <1>1, <1>b, <1>f, FailsKeeps
<1>2. ASSUME req[h].slot # None, NEW found \in SUBSET P!Others(req[h].slot),
             P!Commit(h, P!Activated(profile, req[h].slot, found))
      PROVE  ProfilesInv'
  <2> PICK s \in P!Present : s = req[h].slot
    BY <1>2, FoundRows
  <2>1. s \in Slots /\ profile[s] # None /\ profile \in [Slots -> P!Row \cup {None}]
    BY PresentRow DEF ProfilesInv, ProfilesType
  <2>2. \A t \in found : t \in Slots /\ profile[t] # None
    BY OthersAre
  <2> PICK new : new = P!Activated(profile, s, found)
    OBVIOUS
  <2>3. new \in [Slots -> P!Row \cup {None}] /\ Alike(profile, new)
    BY <2>1, <2>2, ActivatedRows
  <2> QED BY <1>2, <1>b, <1>f, <2>3, AlikeKeeps
<1> QED BY <1>1, <1>2 DEF P!FinishActivate

LEMMA FinishDeleteKeeps ==
    ASSUME ProfilesInv, NEW h \in Handlers, P!FinishDelete(h)
    PROVE  ProfilesInv'
<1>k. req[h].kind = "delete" /\ filled' = filled
  BY DEF P!FinishDelete
<1>b. MayEnd(h)
  BY <1>k DEF MayEnd, P!Provisioning
<1>f. filled \subseteq filled' /\ filled' \subseteq P!Uids \X Sides
  BY <1>k DEF ProfilesInv, ProfilesType
<1>1. CASE P!Fails(h)
  BY <1>1, <1>b, <1>f, FailsKeeps
<1> PICK set : set = req[h].others
  OBVIOUS
<1> PICK rows : rows = [t \in Slots |-> IF t = req[h].slot THEN None ELSE profile[t]]
  OBVIOUS
<1>2. CASE P!Commit(h, P!Promoted(rows, set))
  <2>1. profile \in [Slots -> P!Row \cup {None}]
    BY DEF ProfilesInv, ProfilesType
  <2>2. rows \in [Slots -> P!Row \cup {None}]
    BY <2>1
  <2>3. \A t \in set : t \in Slots /\ rows[t] # None
    BY FoundRows
  <2> PICK new : new = P!Promoted(rows, set)
    OBVIOUS
  <2>4. new \in [Slots -> P!Row \cup {None}] /\ Alike(rows, new)
    BY <2>2, <2>3, PromotedRows
  <2>5. Alike(profile, new)
    BY <2>4 DEF Alike
  <2> QED BY <1>2, <1>b, <1>f, <2>4, <2>5, AlikeKeeps
<1> QED BY <1>1, <1>2 DEF P!FinishDelete

(***************************************************************************)
(* New profiles.                                                           *)
(***************************************************************************)
LEMMA NowKeeps ==
    ASSUME ProfilesInv, NEW new, new \in [Slots -> P!Row \cup {None}], P!Now(new), RowsInv'
    PROVE  ProfilesInv'
<1>1. RequestsType'
  BY NowRequests DEF ProfilesInv
<1>2. profile' = new /\ filled' = filled
  BY DEF P!Now
<1>3. stale' \in [Slots -> BOOLEAN]
  BY DEF P!Now
<1> QED BY <1>1, <1>2, <1>3 DEF ProfilesInv, ProfilesType, RequestsType, RowsInv

LEMMA NowStale ==
    ASSUME NEW new, P!Now(new), NEW t \in Slots, new[t] # None, ~stale'[t]
    PROVE  ~stale[t]
<1>1. stale'[t] = (new[t] # None /\ stale[t])
  BY DEF P!Now
<1> QED BY Zenon, <1>1

(* A row without an account.                                               *)
LEMMA NowOne ==
    ASSUME ProfilesInv, NEW s \in Slots, NEW q \in P!Row, P!Now([profile EXCEPT ![s] = q]),
           q.verified = None, Sound(q, filled)
    PROVE  ProfilesInv'
<1> PICK rows : rows = [profile EXCEPT ![s] = q]
  OBVIOUS
<1>n. P!Now(rows)
  OBVIOUS
<1>1. rows \in [Slots -> P!Row \cup {None}] /\ rows[s] = q
      /\ \A t \in Slots : t # s => rows[t] = profile[t]
  BY DEF ProfilesInv, ProfilesType
<1>2. profile' = rows /\ filled' = filled
  BY <1>n DEF P!Now
<1>3. \A t \in Slots : profile'[t] # None /\ ~stale'[t] => ~stale[t]
  BY <1>n, <1>2, NowStale
<1>4. \A t \in Slots \ {s} : profile'[t] # None /\ ~stale'[t] =>
          profile[t] # None /\ ~stale[t] /\ Same(profile[t], profile'[t])
  BY <1>1, <1>2, <1>3 DEF Same
<1>5. Sound(profile'[s], filled') /\ Fresh(profile'[s], s)
  BY <1>1, <1>2 DEF Fresh
<1>6. RowsSound' /\ Apart'
  BY <1>2, <1>4, <1>5, RowsChange DEF ProfilesInv
<1> QED BY <1>1, <1>n, <1>6, NowKeeps DEF RowsInv

LEMMA NewRowIs ==
    ASSUME NEW o \in Owners, NEW e \in P!Envs, NEW ref \in P!Uids \cup {None}
    PROVE  LET q == P!NewRow(o, e, ref)
           IN  /\ q \in P!Row /\ q.key = None /\ q.verified = None /\ q.status = "NOT_TESTED"
               /\ q.passed = {} /\ ~q.certified /\ ~q.active /\ q.env = e /\ q.owner = o
  BY DEF P!NewRow, P!Row

LEMMA CreateKeeps ==
    ASSUME ProfilesInv, NEW o \in Owners, NEW e \in P!Envs, P!Create(o, e)
    PROVE  ProfilesInv'
<1> PICK s \in Slots : P!Now([profile EXCEPT ![s] = P!NewRow(o, e, None)])
  BY DEF P!Create
<1> PICK q : q = P!NewRow(o, e, None)
  OBVIOUS
<1>1. /\ q \in P!Row /\ q.verified = None /\ q.status = "NOT_TESTED"
      /\ q.passed = {} /\ ~q.certified /\ ~q.active
  BY NewRowIs
<1>2. Sound(q, filled)
  BY <1>1 DEF Sound
<1>3. P!Now([profile EXCEPT ![s] = q])
  OBVIOUS
<1> QED BY <1>1, <1>2, <1>3, NowOne

Connected(o, k) == [P!NewRow(o, Env[k], Uid[k]) EXCEPT !.key = k, !.verified = Uid[k],
                                                       !.status = "CONNECTED"]
ConnectedRows(s, o, k) == [profile EXCEPT ![s] = Connected(o, k)]

Connects(h, s, new, k, o) ==
    /\ P!Commit(h, new)
    /\ \/ new = ConnectedRows(s, o, k)
       \/ new = P!Activated(ConnectedRows(s, o, k), s, P!Of(o))

LEMMA ConnectedIs ==
    ASSUME NEW o \in Owners, NEW k \in Keys
    PROVE  LET row == Connected(o, k)
           IN  /\ row \in P!Row /\ row.key = k /\ row.verified = Uid[k]
               /\ row.status = "CONNECTED" /\ row.passed = {} /\ ~row.certified
               /\ ~row.active /\ row.env = Env[k]
<1>1. PICK e \in P!Envs : e = Env[k]
  BY DEF Env, P!Envs
<1>2. PICK u \in P!Uids : u = Uid[k]
  BY DEF P!Uids
<1>3. PICK r : r = P!NewRow(o, e, u)
  OBVIOUS
<1>4. /\ r \in P!Row /\ r.passed = {} /\ ~r.certified /\ ~r.active /\ r.env = e
  BY <1>3, NewRowIs
<1>5. PICK row : row = [r EXCEPT !.key = k, !.verified = u, !.status = "CONNECTED"]
  OBVIOUS
<1>6. /\ row \in P!Row /\ row.key = k /\ row.verified = u /\ row.status = "CONNECTED"
      /\ row.passed = r.passed /\ row.certified = r.certified
      /\ row.active = r.active /\ row.env = r.env
  BY <1>4, <1>5 DEF P!Row
<1>7. row = Connected(o, k)
  BY <1>1, <1>2, <1>3, <1>5 DEF Connected
<1> QED BY <1>1, <1>2, <1>4, <1>6, <1>7

(* The checks are repeated where the row is written, under the lock.       *)
LEMMA FinishConnectKeeps ==
    ASSUME ProfilesInv, NEW h \in Handlers, P!FinishConnect(h)
    PROVE  ProfilesInv'
<1>k. /\ req[h].kind = "connect" /\ filled' = filled
      /\ req[h].key \in Keys /\ req[h].owner \in Owners /\ req[h].slot = None
  BY DEF P!FinishConnect, ProfilesInv, Requests, Holds, Loaded, P!Provisioning
<1>b. MayEnd(h)
  BY Zenon DEF P!FinishConnect, MayEnd
<1>f. filled \subseteq filled' /\ filled' \subseteq P!Uids \X Sides
  BY <1>k DEF ProfilesInv, ProfilesType
<1> PICK k \in Keys : k = req[h].key
  BY <1>k
<1> PICK o \in Owners : o = req[h].owner
  BY <1>k
<1> DEFINE row == Connected(o, k)
<1>1. CASE P!Fails(h)
  BY <1>1, <1>b, <1>f, FailsKeeps
<1>2. ASSUME P!UidIsFree(Uid[k], Env[k], None), NEW s \in Slots \ P!Present,
             NEW rows, rows = ConnectedRows(s, o, k), NEW new, P!Commit(h, new),
             new = rows \/ new = P!Activated(rows, s, P!Of(o))
      PROVE  ProfilesInv'
  <2>1. /\ row \in P!Row /\ row.key = k /\ row.verified = Uid[k] /\ row.status = "CONNECTED"
        /\ row.passed = {} /\ ~row.certified /\ row.env = Env[k]
    BY ConnectedIs
  <2>r. rows = [profile EXCEPT ![s] = row]
    BY <1>2 DEF ConnectedRows
  <2> HIDE DEF row
  <2>2. /\ rows \in [Slots -> P!Row \cup {None}] /\ rows[s] = row /\ rows[s] # None
        /\ \A t \in Slots : t # s => rows[t] = profile[t]
    BY <2>r, <2>1, ProfilesAssumption DEF ProfilesInv, ProfilesType
  <2>3. new \in [Slots -> P!Row \cup {None}] /\ Alike(rows, new)
    <3>1. CASE new = rows
      BY <2>2, <3>1 DEF Alike, Same
    <3>2. CASE new = P!Activated(rows, s, P!Of(o))
      <4>1. \A t \in P!Of(o) : t \in Slots /\ rows[t] # None
        BY <2>2 DEF P!Of, P!Present
      <4> QED BY <2>2, <3>2, <4>1, ActivatedRows
    <3> QED BY <1>2, <3>1, <3>2
  <2>4. profile' = new
    BY <1>2 DEF P!Commit
  <2>5. \A t \in Slots \ {s} : profile'[t] # None /\ ~stale'[t] =>
            profile[t] # None /\ ~stale[t] /\ Same(profile[t], profile'[t])
    <3> SUFFICES ASSUME NEW t \in Slots \ {s}, new[t] # None, ~stale'[t]
                 PROVE  profile[t] # None /\ ~stale[t] /\ Same(profile[t], new[t])
      BY <2>4
    <3>1. ~stale[t]
      BY <1>2, CommitStale DEF ProfilesInv
    <3> QED BY <2>2, <2>3, <3>1 DEF Alike
  <2>6. ASSUME new[s] # None
        PROVE  Sound(profile'[s], filled') /\ Fresh(profile'[s], s)
    <3>1. Same(row, new[s])
      BY <2>2, <2>3, <2>6 DEF Alike
    <3>2. Sound(row, filled)
      BY <2>1, ProfilesAssumption DEF Sound
    <3>3. Sound(profile'[s], filled')
      BY <2>4, <3>1, <3>2, <1>f, SoundSame
    <3>4. profile'[s].verified = Uid[k] /\ profile'[s].env = Env[k]
      BY <2>1, <2>4, <3>1 DEF Same
    <3>5. Fresh(profile'[s], s)
      BY <1>2, <3>4, ProfilesAssumption DEF Fresh, P!UidIsFree, P!Present
    <3> QED BY <3>3, <3>5
  <2>7. RowsSound' /\ Apart'
    BY <2>4, <2>5, <2>6, <1>f, RowsChange DEF ProfilesInv
  <2> QED BY <1>2, <1>b, <1>f, <2>3, <2>7, CommitKeeps DEF RowsInv
<1>3. ASSUME NEW s, NEW activate \in BOOLEAN,
             P!Commit(h, IF activate THEN P!Activated(ConnectedRows(s, o, k), s, P!Of(o))
                                     ELSE ConnectedRows(s, o, k))
      PROVE  \E new : Connects(h, s, new, k, o)
  <2>1. CASE activate
    BY Zenon, <1>3, <2>1 DEF Connects
  <2>2. CASE ~activate
    BY Zenon, <1>3, <2>2 DEF Connects
  <2> QED BY Zenon, <2>1, <2>2
<1>4. ASSUME NEW s \in {t \in Slots \ P!Present : \A u \in P!Present : u < t},
             NEW new, Connects(h, s, new, k, o), P!UidIsFree(Uid[k], Env[k], None)
      PROVE  ProfilesInv'
  <2> PICK rows : rows = ConnectedRows(s, o, k)
    OBVIOUS
  <2>1. P!Commit(h, new) /\ (new = rows \/ new = P!Activated(rows, s, P!Of(o)))
    BY Zenon, <1>4 DEF Connects
  <2>2. s \in Slots \ P!Present
    OBVIOUS
  <2> QED BY Zenon, <1>2, <1>4, <2>1, <2>2
<1>5. ASSUME P!UidIsFree(Uid[k], Env[k], None),
             NEW s \in {t \in Slots \ P!Present : \A u \in P!Present : u < t},
             NEW activate \in BOOLEAN,
             P!Commit(h, IF activate THEN P!Activated(ConnectedRows(s, o, k), s, P!Of(o))
                                     ELSE ConnectedRows(s, o, k))
      PROVE  ProfilesInv'
  BY Zenon, <1>3, <1>4, <1>5
<1> QED BY Zenon, <1>1, <1>5 DEF P!FinishConnect, ConnectedRows, Connected

(***************************************************************************)
(* The end of a Live window, and a restart.                                *)
(***************************************************************************)
LEMMA ExpireKeeps ==
    ASSUME ProfilesInv, NEW s \in P!Present, P!Expire(s)
    PROVE  ProfilesInv'
<1>1. s \in Slots /\ profile[s] \in P!Row /\ profile[s] # None
  BY PresentRow
<1>2. profile \in [Slots -> P!Row \cup {None}]
  BY DEF ProfilesInv, ProfilesType
<1> PICK q : q = [profile[s] EXCEPT !.expiry = "past"]
  OBVIOUS
<1>3. /\ q \in P!Row /\ Same(profile[s], q)
      /\ \A copy : Matches(copy, profile[s]) => Matches(copy, q)
  BY <1>1 DEF P!Row, Same, Matches
<1>4. profile' = [profile EXCEPT ![s] = q] /\ filled' = filled /\ stale' = stale /\ req' = req
      /\ lock' = lock
  BY <1>1, <1>2 DEF P!Expire
<1>5. blocked' = blocked
  BY Zenon DEF P!Expire
<1>6. profile'[s] = q /\ \A t \in Slots \ {s} : profile'[t] = profile[t]
  BY <1>1, <1>2, <1>4
<1>7. ProfilesType'
  BY <1>1, <1>3, <1>4 DEF ProfilesInv, ProfilesType
<1>8. Requests'
  <2> SUFFICES ASSUME NEW h \in Handlers
               PROVE  Holds(req[h], profile')
    BY <1>4 DEF Requests
  <2>1. Holds(req[h], profile) /\ req[h] \in RequestRow
    BY DEF ProfilesInv, ProfilesType, Requests
  <2>2. \A t \in Slots : profile[t] # None =>
            /\ profile'[t] # None
            /\ \A copy : Matches(copy, profile[t]) => Matches(copy, profile'[t])
    BY <1>1, <1>3, <1>6, ProfilesAssumption
  <2>3. Remains(req[h], profile')
    BY <2>1, <2>2 DEF Holds, Remains, RequestRow
  <2> QED BY <2>1, <2>3 DEF Holds
<1>9. Locked'
  BY <1>4, <1>5 DEF ProfilesInv, Locked
<1>10. RowsSound' /\ Apart'
  <2>1. \A t \in Slots \ {s} : profile'[t] # None /\ ~stale'[t] =>
            profile[t] # None /\ ~stale[t] /\ Same(profile[t], profile'[t])
    BY <1>4, <1>6 DEF Same
  <2>2. ASSUME ~stale'[s]
        PROVE  /\ Sound(profile'[s], filled') /\ profile[s] # None /\ ~stale[s]
               /\ SameUid(profile[s], profile'[s])
    <3>1. ~stale[s] /\ Sound(profile[s], filled)
      BY <1>1, <1>4, <2>2 DEF ProfilesInv, RowsSound
    <3>2. Sound(q, filled')
      BY <1>3, <1>4, <3>1, SoundSame
    <3>3. SameUid(profile[s], q)
      BY <1>3 DEF Same, SameUid
    <3> QED BY <1>1, <1>6, <3>1, <3>2, <3>3
  <2>3. filled \subseteq filled'
    BY <1>4
  <2>4. s \in Slots /\ profile'[s] # None /\ ~stale'[s] =>
          /\ Sound(profile'[s], filled')
          /\ \/ Fresh(profile'[s], s)
             \/ profile[s] # None /\ ~stale[s] /\ SameUid(profile[s], profile'[s])
    BY <2>2
  <2>5. RowsSound /\ Apart
    BY DEF ProfilesInv
  <2> QED BY <2>1, <2>3, <2>4, <2>5, RowsChange
<1> QED BY <1>7, <1>8, <1>9, <1>10 DEF ProfilesInv

LEMMA ProfilesRestart ==
    ASSUME ProfilesInv, P!Restart
    PROVE  ProfilesInv'
<1>1. /\ profile' = profile /\ filled' = filled /\ stale' = stale /\ lock' = None
      /\ req' = [h \in Handlers |-> P!Idle]
  BY DEF P!Restart
<1>2. ~blocked'
  BY Zenon DEF P!Restart
<1>3. \A h \in Handlers : req'[h] = P!Idle
  BY <1>1
<1>4. ProfilesType'
  BY <1>1, IdleHolds DEF ProfilesInv, ProfilesType
<1>5. Requests'
  BY <1>3, IdleHolds DEF Requests
<1>6. Locked'
  BY <1>1, <1>2, <1>3, IdleHolds, ProfilesAssumption DEF Locked, P!Provisioning
<1>7. RowsInv'
  BY <1>1, <1>2, RowsStill, ProfilesParts
<1> QED BY <1>4, <1>5, <1>6, <1>7 DEF ProfilesInv, RowsInv

LEMMA ProfilesInitially == P!Init => ProfilesInv
<1> SUFFICES ASSUME P!Init
             PROVE  ProfilesInv
  OBVIOUS
<1>1. PICK r \in P!Legacy \cup {None} : profile = [s \in Slots |-> IF s = 1 THEN r ELSE None]
  BY DEF P!Init
<1>2. r = None \/ (r \in P!Row /\ Sound(r, filled) /\ r.verified = None)
  <2>a. r \in P!Legacy => \E o \in Owners, k \in Keys : r = P!LegacyRow(o, k)
    BY DEF P!Legacy
  <2>b. CASE r = None
    BY <2>b
  <2>c. ASSUME NEW o \in Owners, NEW k \in Keys, r = P!LegacyRow(o, k)
        PROVE  r \in P!Row /\ Sound(r, filled) /\ r.verified = None
    <3>1. PICK n \in P!Row : /\ n = P!NewRow(o, "DEMO", None) /\ n.passed = {} /\ ~n.certified
                             /\ n.verified = None
      <4>1. "DEMO" \in P!Envs
        BY DEF P!Envs
      <4> QED BY <4>1, NewRowIs
    <3>2. r = [n EXCEPT !.key = k, !.status = "FAILED"]
      BY <3>1, <2>c DEF P!LegacyRow
    <3>3. /\ r \in P!Row /\ r.passed = {} /\ ~r.certified /\ r.verified = None
          /\ r.status = "FAILED"
      BY <3>1, <3>2 DEF P!Row
    <3> QED BY <3>3 DEF Sound
  <2> QED BY <2>a, <2>b, <2>c
<1>3. \A s \in Slots : profile[s] = None \/ (s = 1 /\ profile[s] = r /\ r # None)
  BY <1>1
<1>4. ProfilesType
  BY <1>1, <1>2, IdleHolds DEF P!Init, ProfilesType
<1>5. Requests
  BY IdleHolds DEF P!Init, Requests
<1>6. ~blocked /\ lock = None /\ \A h \in Handlers : req[h] = P!Idle
  BY DEF P!Init
<1>7. Locked
  BY <1>6, IdleHolds, ProfilesAssumption DEF Locked, P!Provisioning
<1>8. RowsSound
  BY <1>2, <1>3 DEF RowsSound, P!Present
<1>9. Apart
  BY <1>3 DEF Apart, P!Present
<1> QED BY <1>4, <1>5, <1>7, <1>8, <1>9 DEF ProfilesInv

LEMMA ProfilesStep == ProfilesInv /\ P!Next => ProfilesInv'
<1> SUFFICES ASSUME ProfilesInv, P!Next
             PROVE  ProfilesInv'
  OBVIOUS
<1>1. ASSUME NEW h \in Handlers, P!Finish(h)
      PROVE  ProfilesInv'
  BY <1>1, FinishConnectKeeps, FinishSaveKeeps, FinishProbeKeeps, FinishDetectKeeps,
     FinishCertifyKeeps, FinishReconcileKeeps, FinishActivateKeeps, FinishChangeKeeps,
     FinishDeleteKeeps DEF P!Finish
<1>2. ASSUME NEW h \in Handlers, NEW s \in P!Present,
             \/ \E k \in Keys : P!StartSave(h, s, k)
             \/ \E side \in Sides : P!StartCertify(h, s, side)
             \/ P!StartProbe(h, s) \/ P!StartDetect(h, s) \/ P!StartReconcile(h, s)
             \/ P!StartActivate(h, s) \/ P!StartDisconnect(h, s) \/ P!StartToggle(h, s)
             \/ P!StartDelete(h, s) \/ P!StartArm(h, s) \/ P!StartDisarm(h, s)
      PROVE  ProfilesInv'
  BY <1>2, StartSaveKeeps, StartCertifyKeeps, StartReadKeeps, StartChangeKeeps, StartOtherKeeps
<1>3. CASE P!Requests
  BY <1>1, <1>2, <1>3, StartConnectKeeps DEF P!Requests
<1>4. CASE \E o \in Owners, e \in P!Envs : P!Create(o, e)
  BY <1>4, CreateKeeps
<1>5. CASE \E s \in P!Present : P!Expire(s)
  BY <1>5, ExpireKeeps
<1>6. CASE P!Restart
  BY <1>6, ProfilesRestart
<1> QED BY <1>3, <1>4, <1>5, <1>6 DEF P!Next

LEMMA ProfilesStutter == ProfilesInv /\ UNCHANGED pVars => ProfilesInv'
<1> SUFFICES ASSUME ProfilesInv, UNCHANGED pVars
             PROVE  ProfilesInv'
  OBVIOUS
<1>1. /\ profile' = profile /\ req' = req /\ lock' = lock /\ filled' = filled /\ stale' = stale
  BY DEF pVars
<1>2. blocked' = blocked
  BY Zenon DEF pVars
<1>3. ProfilesType' /\ Requests' /\ Locked'
  BY <1>1, <1>2 DEF ProfilesInv, ProfilesType, Requests, Locked
<1>4. RowsInv'
  BY <1>1, <1>2, RowsStill, ProfilesParts
<1> QED BY <1>3, <1>4 DEF ProfilesInv, RowsInv

LEMMA ProfilesGive ==
    ASSUME ProfilesInv
    PROVE  /\ P!TypeOK /\ P!OneVerifiedProfile
           /\ P!CertificateIsEarned /\ P!LiveStaysUnarmed /\ P!ConnectedKeyWorks
<1>1. P!TypeOK
  <2>1. \A s \in Slots : profile[s] = None \/ profile[s] \in P!Row
    BY DEF ProfilesInv, ProfilesType
  <2>2. ASSUME NEW h \in Handlers
        PROVE  /\ req[h].kind \in P!OnTheLoop \cup P!InThreads \cup {"none"}
               /\ req[h].copy = None \/ req[h].copy \in P!Row
    BY DEF ProfilesInv, ProfilesType, RequestRow
  <2>3. ASSUME NEW h \in Handlers PROVE req[h].others \subseteq P!Present
    BY FoundRows DEF P!Present
  <2> QED BY <2>1, <2>2, <2>3 DEF P!TypeOK, ProfilesInv, ProfilesType, Locked
<1>2. P!OneVerifiedProfile
  BY DEF ProfilesInv, Apart, P!OneVerifiedProfile
<1>4. P!CertificateIsEarned
  BY DEF ProfilesInv, RowsSound, Sound, P!CertificateIsEarned
<1>5. P!LiveStaysUnarmed
  BY DEF ProfilesInv, RowsSound, Sound, P!LiveStaysUnarmed, P!Armed, P!MayArm
<1>6. P!ConnectedKeyWorks
  BY DEF ProfilesInv, RowsSound, Sound, P!ConnectedKeyWorks
<1> QED BY <1>1, <1>2, <1>4, <1>5, <1>6

(***************************************************************************)
(* The three, of which a behaviour exercises one.                          *)
(***************************************************************************)
AccountsInv == ProfilesInv /\ OAuthInv /\ SessionsInv

LEMMA AccountsInitially == Init => AccountsInv
  BY ProfilesInitially, OAuthInitially, SessionsInitially DEF Init, AccountsInv

LEMMA AccountsStep == AccountsInv /\ [Next]_vars => AccountsInv'
<1> SUFFICES ASSUME AccountsInv, [Next]_vars
             PROVE  AccountsInv'
  OBVIOUS
<1>1. CASE P!Next /\ UNCHANGED oVars /\ UNCHANGED sVars
  BY <1>1, ProfilesStep, OAuthStutter, SessionsStutter DEF AccountsInv
<1>2. CASE O!Next /\ UNCHANGED pVars /\ UNCHANGED sVars
  BY <1>2, ProfilesStutter, OAuthStep, SessionsStutter DEF AccountsInv
<1>3. CASE S!Next /\ UNCHANGED pVars /\ UNCHANGED oVars
  BY <1>3, ProfilesStutter, OAuthStutter, SessionsStep DEF AccountsInv
<1>4. CASE UNCHANGED vars
  BY <1>4, ProfilesStutter, OAuthStutter, SessionsStutter DEF AccountsInv, vars
<1> QED BY <1>1, <1>2, <1>3, <1>4 DEF Next

(* The invariant of the proofs holds always.                               *)
LEMMA AccountsAlways == Spec => []AccountsInv
  BY AccountsInitially, AccountsStep, PTL DEF Spec

(* Two profiles of one environment never hold verified keys of one Bybit   *)
(* account, unless a request ended on an old copy of one of them, and of   *)
(* one owner a sub-account and a label have one profile: for every number  *)
(* of requests, in the event loop and in threads, whatever they wait for.  *)
THEOREM AccountsAreUnique == Spec => []OneProfilePerAccount
<1>1. AccountsInv => OneProfilePerAccount
  BY ProfilesGive, OAuthGives DEF AccountsInv, OneProfilePerAccount
<1> QED BY <1>1, AccountsAlways, PTL

(* A certificate was earned by filled orders of the account that the key   *)
(* opens, and no sequence of requests arms a Live profile.                 *)
THEOREM PermissionsAreEarned == Spec => []PermissionIsEarned
<1>1. AccountsInv => PermissionIsEarned
  BY ProfilesGive DEF AccountsInv, PermissionIsEarned
<1> QED BY <1>1, AccountsAlways, PTL

(* CONNECTED profiles have a key that works, AUTHORIZED sessions a token.  *)
THEOREM StatusesAreTrue == Spec => []StatusIsTrue
<1>1. AccountsInv => StatusIsTrue
  BY ProfilesGive, OAuthGives DEF AccountsInv, StatusIsTrue
<1> QED BY <1>1, AccountsAlways, PTL

(* A session ends for good when its user is disabled or gets another       *)
(* password, and an active administrator remains through updates that do   *)
(* not overlap.                                                            *)
THEOREM AccessHolds == Spec => []AccessIsControlled
<1>1. AccountsInv => AccessIsControlled
  BY SessionsGive DEF AccountsInv
<1> QED BY <1>1, AccountsAlways, PTL
=============================================================================
