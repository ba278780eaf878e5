--------------------------- MODULE MCAccounts ---------------------------
(***************************************************************************)
(* Three components that requests of operators and owners change: profiles,*)
(* Agent Connect, and users with their sessions. They share no row, so a   *)
(* behaviour exercises one of them, chosen at the start.                   *)
(***************************************************************************)
EXTENDS Integers, Sequences, FiniteSets, TLC

CONSTANTS Parts,
          Slots, Owners, Keys, Sides, Handlers, Menus, MaxWaits, None,
          demo, spare, live,
          AuthIds, Subs, Callers, Shared,
          Users, Admins, Tokens, Threads, MaxEra

\* An installation begins with an administrator, made by create_admin.py.
ASSUME UsersAssumption ==
    /\ IsFiniteSet(Users) /\ Admins \cap Users # {}
    /\ MaxEra \in Nat

\* There may be an account to choose.
ASSUME SubsAssumption == Subs # {} /\ Parts \subseteq {"profiles", "oauth", "sessions"}

VARIABLES part,
          profile, req, lock, blocked, filled, waits, menu, stale,
          auth, call, codes, subs, linked,
          user, session, thread, era, crossed

\* Every key opens an account of its own, one of them a Live account, except
\* that spare is a second key of the account of demo.
Uid == [k \in Keys |-> IF k = spare THEN demo ELSE k]
Env == [k \in Keys |-> IF k = live THEN "LIVE" ELSE "DEMO"]

P == INSTANCE Profiles WITH KeyUid <- Uid, KeyEnv <- Env
O == INSTANCE BybitOAuth
S == INSTANCE Sessions

ASSUME ProfilesAssumption ==
    /\ Slots \subseteq Nat
    /\ None \notin Slots \cup Handlers \cup Keys \cup P!Row
    /\ demo \in Keys

pVars == <<profile, req, lock, blocked, filled, waits, menu, stale>>
oVars == <<auth, call, codes, subs, linked>>
sVars == <<user, session, thread, era, crossed>>
vars == <<part, pVars, oVars, sVars>>

\* What stays at rest starts in one state.
Init == /\ part \in Parts
        /\ P!Init /\ O!Init /\ S!Init
        /\ part # "profiles" => /\ menu = CHOOSE m \in Menus : TRUE
                                /\ profile = [s \in Slots |-> None]
        /\ part # "oauth" => subs = {}

Next == \/ part = "profiles" /\ P!Next /\ UNCHANGED <<part, oVars, sVars>>
        \/ part = "oauth" /\ O!Next /\ UNCHANGED <<part, pVars, sVars>>
        \/ part = "sessions" /\ S!Next /\ UNCHANGED <<part, pVars, oVars>>

Spec == Init /\ [][Next]_vars

\* Names that no definition tells apart.  The components may share them, for a
\* behaviour exercises one: owners, sessions and tokens have one set of names,
\* requests, calls and threads another.
Symmetry == Permutations(Owners) \cup Permutations(Handlers) \cup Permutations(Subs)

\* One account, one profile.  Two profiles of one environment never hold the
\* verified keys of one Bybit account: the lock covers the check, the wait for
\* Bybit and the row.  Of one owner a sub-account has one profile and a label
\* one, although two choices may both have passed their checks.
OneProfilePerAccount ==
    P!TypeOK /\ P!OneVerifiedProfile /\ O!OneProfilePerSub

\* What a profile is allowed was earned.  A certificate on a profile with
\* credentials comes from orders of the account they open, unless a request
\* wrote over a row that had changed; no sequence of requests arms a Live
\* profile: certification is for simulations and does not survive a change of
\* the environment.
PermissionIsEarned == P!CertificateIsEarned /\ P!LiveStaysUnarmed

\* What is reported was seen.  CONNECTED says that the saved key opens the
\* account in the environment of the profile, unless a probe or a detection
\* ended late; a session of Agent Connect that reports AUTHORIZED has a token.
StatusIsTrue == P!ConnectedKeyWorks /\ O!TypeOK /\ O!AuthorizedHasToken

\* A session ends for good when its user is disabled or gets a new password, and
\* an active administrator remains through updates that do not overlap.
AccessIsControlled == S!TypeOK /\ S!SessionsEnd /\ S!AnAdminRemains
=============================================================================
