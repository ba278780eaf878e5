---------------------------- MODULE Profiles ----------------------------
(***************************************************************************)
(* The Bybit profiles of app/api/routes_accounts.py, routes_account_       *)
(* lifecycle.py, routes_bybit_environment.py and routes_bybit_             *)
(* certification_state.py: connecting, credentials, probing, detection of  *)
(* the environment, certification, activation and Live permission.         *)
(*                                                                         *)
(* A request is two steps: Start loads the rows it reads, Finish writes    *)
(* and commits. Between them a request that asks Bybit something waits in  *)
(* the event loop; the others run in threads, and go on when it stops. A   *)
(* session writes the columns it changed, compared with what it had LOADED,*)
(* and nothing else (Saved); an UPDATE of a row that is gone fails.        *)
(* Provisioning requests hold an advisory lock from Start to Finish; a     *)
(* second one waits for it in the event loop, which stops (blocked) until  *)
(* the watchdog restarts it.                                               *)
(*                                                                         *)
(* stale is history: a request wrote a row that changed since it loaded it.*)
(***************************************************************************)
EXTENDS Integers, FiniteSets

CONSTANTS Slots,      \* profiles 1..n in the order of created_at
          Owners,     \* users
          Keys,       \* API keys
          KeyUid,     \* the Bybit account of each key
          KeyEnv,     \* the only environment where the key authenticates
          Sides,      \* the sides a certification has to pass
          Handlers,   \* requests under way at once
          Menus,      \* bound: the sets of requests that a behaviour may mix
          MaxWaits,   \* bound: requests that wait for Bybit
          None        \* no value

VARIABLES profile, req, lock, blocked, filled, waits, menu, stale

vars == <<profile, req, lock, blocked, filled, waits, menu, stale>>

Envs == {"DEMO", "LIVE"}
Uids == {KeyUid[k] : k \in Keys}

\* broker_profiles. counts: open positions or orders at the last sync;
\* verified: the account the credential blob names; expiry: expires_at.
Row == [owner : Owners, env : Envs, key : Keys \cup {None}, verified : Uids \cup {None},
        ref : Uids \cup {None}, enabled : BOOLEAN, active : BOOLEAN,
        status : {"NOT_TESTED", "CONNECTED", "FAILED", "DISCONNECTED"},
        passed : SUBSET Sides, certified : BOOLEAN,
        live : BOOLEAN, expiry : {"none", "ahead", "past"}, counts : BOOLEAN]

NewRow(o, e, ref) ==
  [owner |-> o, env |-> e, key |-> None, verified |-> None, ref |-> ref,
   enabled |-> TRUE, active |-> FALSE, status |-> "NOT_TESTED", passed |-> {},
   certified |-> FALSE, live |-> FALSE, expiry |-> "none", counts |-> FALSE]

\* copy: the row as it was loaded, if its columns are compared with it; clean:
\* nobody else changed it since; others: the rows of other profiles that the
\* request will write, or, to activate one, those its UPDATE will find.
Idle == [kind |-> "none", slot |-> None, key |-> None, owner |-> None,
         copy |-> None, side |-> None, clean |-> TRUE, others |-> {}]
Provisioning == {"connect", "save"}
OnTheLoop == Provisioning \cup {"probe", "detect", "certify", "reconcile"}
InThreads == {"activate", "disconnect", "toggle", "delete", "arm", "disarm"}

Present == {s \in Slots : profile[s] # None}
Of(o) == {t \in Present : profile[t].owner = o}
Others(s) == Of(profile[s].owner) \ {s}

\* profiles saved before accounts were verified: no blob, and an environment
\* that nobody compared with the key's.
LegacyRow(o, k) == [NewRow(o, "DEMO", None) EXCEPT !.key = k, !.status = "FAILED"]
Legacy == {LegacyRow(o, k) : o \in Owners, k \in Keys}

Init == /\ profile \in {[s \in Slots |-> IF s = 1 THEN r ELSE None] :
                          r \in Legacy \cup {None}}
        /\ req = [h \in Handlers |-> Idle]
        /\ lock = None
        /\ blocked = FALSE
        /\ filled = {}
        /\ waits = 0
        /\ menu \in Menus
        /\ stale = [s \in Slots |-> FALSE]

(***************************************************************************)
(* Transactions.                                                           *)
(***************************************************************************)

\* the columns that differ from the loaded ones; a side is a column.
Saved(row, copy, new) ==
  [f \in DOMAIN row |->
     IF f = "passed"
     THEN {s \in Sides : IF (s \in new[f]) = (s \in copy[f])
                         THEN s \in row[f] ELSE s \in new[f]}
     ELSE IF new[f] = copy[f] THEN row[f] ELSE new[f]]

\* A request that loaded a row which changes now goes on with an old copy. If a
\* row that it will write is deleted its UPDATE fails, which only an UPDATE of
\* all rows and a second DELETE do not mind.
Seen(g) ==
  LET r == req[g]
      gone == {s \in Present : profile'[s] = None}
  IN  IF \/ r.kind # "activate" /\ r.others \cap gone # {}
         \/ r.kind # "delete" /\ r.slot \in gone
      THEN [r EXCEPT !.slot = None, !.others = {}]
      ELSE IF r.slot \in gone THEN [r EXCEPT !.slot = None]
      ELSE [r EXCEPT !.others = @ \ gone,
                     !.clean = @ /\ ((r.slot \in Slots /\ r.copy # None)
                                      => profile'[r.slot] = profile[r.slot])]

Unlocked(h) == IF lock = h THEN None ELSE lock

\* h ends with the rows new.
Commit(h, new) ==
  /\ profile' = new
  /\ req' = [g \in Handlers |-> IF g = h THEN Idle ELSE Seen(g)]
  /\ lock' = Unlocked(h)
  /\ stale' = [s \in Slots |-> /\ new[s] # None
                               /\ stale[s] \/ (req[h].slot = s /\ ~req[h].clean
                                               /\ new[s] # profile[s])]
  /\ UNCHANGED <<blocked, waits, menu>>

\* the rows with those of a set active.
Promoted(rows, set) ==
  [t \in Slots |-> IF t \in set THEN [rows[t] EXCEPT !.active = TRUE] ELSE rows[t]]

\* h writes its row, and the replacement that it loaded.
Write(h, copy, new) ==
  LET s == req[h].slot
  IN  IF s = None THEN Commit(h, profile)
      ELSE Commit(h, Promoted([profile EXCEPT ![s] = Saved(@, copy, new)], req[h].others))

Fails(h) == Commit(h, profile)

\* a request that is one transaction.
Now(new) ==
  /\ ~blocked
  /\ profile' = new
  /\ req' = [g \in Handlers |-> Seen(g)]
  /\ stale' = [s \in Slots |-> new[s] # None /\ stale[s]]
  /\ UNCHANGED <<lock, blocked, filled, waits, menu>>

\* the rows with s active, and those inactive that the UPDATE found.
Activated(rows, s, found) ==
  [t \in Slots |-> IF t = s THEN [rows[t] EXCEPT !.active = TRUE]
                   ELSE IF t \in found THEN [rows[t] EXCEPT !.active = FALSE]
                   ELSE rows[t]]

(***************************************************************************)
(* Requests that wait for Bybit.                                           *)
(***************************************************************************)
Start(h, r) ==
  /\ ~blocked
  /\ req[h] = Idle
  /\ waits < MaxWaits
  /\ waits' = waits + 1
  /\ req' = [req EXCEPT ![h] = r]
  /\ UNCHANGED <<profile, blocked, filled, menu, stale>>

\* identity_lock: the first statement of a provisioning request that waits.
Provision(h, r) ==
  \/ /\ lock = None
     /\ Start(h, r)
     /\ lock' = h
  \/ /\ lock # None
     /\ ~blocked
     /\ req[h] = Idle
     /\ blocked' = TRUE
     /\ UNCHANGED <<profile, req, lock, filled, waits, menu, stale>>

\* assert_bybit_key_assignment.
KeyIsFree(k, env, s) ==
  \A t \in Present \ {s} : profile[t].env = env => profile[t].key # k

\* Mutant: only active profiles are compared.
UidIsFreeOfActive(u, env, s) ==
  \A t \in Present \ {s} :
    profile[t].env = env /\ profile[t].active => profile[t].verified # u

\* assert_bybit_uid: rows without a blob are not compared.
UidIsFree(u, env, s) ==
  \A t \in Present \ {s} :
    profile[t].env = env => profile[t].verified # u

StartConnect(h, k, o) ==
  /\ KeyIsFree(k, KeyEnv[k], None)
  /\ Provision(h, [Idle EXCEPT !.kind = "connect", !.key = k, !.owner = o])

\* _duplicate, by the reference of the account.
Duplicate(o, u, env) ==
  \E t \in Present : /\ profile[t].owner = o
                     /\ profile[t].env = env
                     /\ profile[t].ref = u

FinishConnect(h) ==
  LET k == req[h].key
      e == KeyEnv[k]
      o == req[h].owner
      next == {s \in Slots \ Present : \A t \in Present : t < s}
      row == [NewRow(o, e, KeyUid[k]) EXCEPT !.key = k, !.verified = KeyUid[k],
                                             !.status = "CONNECTED"]
  IN  /\ req[h].kind = "connect"
      /\ ~blocked
      /\ UNCHANGED filled
      /\ \/ Fails(h)
         \/ /\ UidIsFree(KeyUid[k], e, None)
            /\ ~Duplicate(o, KeyUid[k], e)
            /\ \E s \in next :
                 /\ \A t \in next : s <= t
                 /\ \E activate \in BOOLEAN :
                      LET rows == [profile EXCEPT ![s] = row]
                      IN  Commit(h, IF activate THEN Activated(rows, s, Of(o)) ELSE rows)

Load(kind, s) ==
  [Idle EXCEPT !.kind = kind, !.slot = s, !.copy = profile[s]]

StartSave(h, s, k) ==
  /\ KeyIsFree(k, profile[s].env, s)
  /\ Provision(h, [Load("save", s) EXCEPT !.key = k])

\* The account a profile had: its blob, or what Bybit says of the old key.
OldUid(p) == IF p.verified # None THEN p.verified
             ELSE IF KeyEnv[p.key] = p.env THEN KeyUid[p.key] ELSE None

WithKey(p, k) == [p EXCEPT !.key = k, !.verified = KeyUid[k], !.ref = KeyUid[k],
                           !.status = "NOT_TESTED", !.passed = {}, !.certified = FALSE]

FinishSave(h) ==
  LET p == req[h].copy
      k == req[h].key
  IN  /\ req[h].kind = "save"
      /\ ~blocked
      /\ UNCHANGED filled
      /\ \/ Fails(h)
         \/ /\ KeyEnv[k] = p.env
            /\ UidIsFree(KeyUid[k], p.env, req[h].slot)
            /\ p.key # None => OldUid(p) = KeyUid[k]
            \* encrypted anew, so always written
            /\ Write(h, [p EXCEPT !.key = None, !.verified = None], WithKey(p, k))

\* test and sync: a key that works, or any failure.
StartProbe(h, s) == /\ profile[s].key # None
                    /\ Start(h, Load("probe", s)) /\ UNCHANGED lock

FinishProbe(h) ==
  LET p == req[h].copy
  IN  /\ req[h].kind = "probe"
      /\ ~blocked
      /\ UNCHANGED filled
      /\ \/ Write(h, p, [p EXCEPT !.status = "FAILED"])
         \/ /\ KeyEnv[p.key] = p.env
            /\ \E c \in BOOLEAN :
                 Write(h, p, [p EXCEPT !.status = "CONNECTED", !.counts = c])

StartDetect(h, s) == /\ profile[s].key # None
                     /\ Start(h, Load("detect", s)) /\ UNCHANGED lock

\* Mutant: the environment is not saved.
DetectedStatus(p) == [p EXCEPT !.passed = {}, !.certified = FALSE, !.status = "CONNECTED"]

\* expires_at is left as it is.
Detected(p) ==
  LET e == KeyEnv[p.key]
      q == IF p.env = e THEN p ELSE [p EXCEPT !.passed = {}, !.certified = FALSE]
  IN  [q EXCEPT !.env = e, !.status = "CONNECTED", !.live = FALSE]

FinishDetect(h) ==
  /\ req[h].kind = "detect"
  /\ ~blocked
  /\ UNCHANGED filled
  /\ Fails(h) \/ Write(h, req[h].copy, Detected(req[h].copy))

\* Mutant: Live profiles are certified as well.
SimulatedOrLive(s) == profile[s].key # None

Simulated(s) == profile[s].env # "LIVE" /\ profile[s].key # None

StartCertify(h, s, side) ==
  /\ Simulated(s)
  /\ Start(h, [Load("certify", s) EXCEPT !.side = side])
  /\ UNCHANGED lock

Passed(p, side) == LET q == [p EXCEPT !.passed = @ \cup {side}]
                   IN  [q EXCEPT !.certified = q.passed = Sides]

\* The order may fill and the certification still not see it.
FinishCertify(h) ==
  LET p == req[h].copy
  IN  /\ req[h].kind = "certify"
      /\ ~blocked
      /\ \/ Fails(h) /\ UNCHANGED filled
         \/ /\ KeyEnv[p.key] = p.env
            /\ filled' = filled \cup {<<KeyUid[p.key], req[h].side>>}
            /\ Fails(h) \/ Write(h, p, Passed(p, req[h].side))

StartReconcile(h, s) == /\ Simulated(s)
                        /\ Start(h, Load("reconcile", s)) /\ UNCHANGED lock

\* What is left of the certification orders in the last hundred.
Evidence(p) == {side \in Sides : <<KeyUid[p.key], side>> \in filled}

FinishReconcile(h) ==
  LET p == req[h].copy
  IN  /\ req[h].kind = "reconcile"
      /\ ~blocked
      /\ UNCHANGED filled
      /\ \/ Fails(h)
         \/ /\ KeyEnv[p.key] = p.env
            /\ \E e \in SUBSET Evidence(p) \ {{}} :
                 Write(h, p, [p EXCEPT !.passed = e, !.certified = e = Sides])

(***************************************************************************)
(* Requests that run in threads.                                           *)
(***************************************************************************)
Begin(h, r) ==
  /\ ~blocked
  /\ req[h] = Idle
  /\ req' = [req EXCEPT ![h] = r]
  /\ UNCHANGED <<profile, lock, blocked, filled, waits, menu, stale>>

\* create_account: a profile without credentials; nothing it reads matters.
Create(o, e) ==
  \E s \in Slots \ Present :
    /\ \A t \in Slots \ {s} : (profile[t] # None) <=> t < s
    /\ Now([profile EXCEPT ![s] = NewRow(o, e, None)])

StartActivate(h, s) ==
  /\ profile[s].enabled
  /\ profile[s].status = "CONNECTED"
  /\ Begin(h, [Idle EXCEPT !.kind = "activate", !.slot = s, !.others = Others(s)])

\* The UPDATE does not find what is committed after it begins.
FinishActivate(h) ==
  LET s == req[h].slot
  IN  /\ req[h].kind = "activate"
      /\ UNCHANGED filled
      /\ \/ Fails(h)
         \/ /\ s # None
            /\ \E found \in SUBSET Others(s) :
                 /\ req[h].others \subseteq found
                 /\ Commit(h, Activated(profile, s, found))

\* _replacement: the newest other profile that could be active.
Replacement(s) ==
  LET ready == {t \in Others(s) : profile[t].enabled /\ profile[t].status = "CONNECTED"}
  IN  {t \in ready : \A u \in ready : u <= t}

\* It is written if it was not active when it was loaded.
Substitute(s) == {t \in Replacement(s) : ~profile[t].active}

\* disarm_live_execution, as a disabled or disconnected profile needs it.
Disarmed(p) == [p EXCEPT !.live = FALSE, !.expiry = "none"]

Disconnected(p) ==
  [Disarmed(p) EXCEPT !.enabled = FALSE, !.active = FALSE, !.key = None, !.verified = None,
                      !.status = "DISCONNECTED", !.counts = FALSE]

StartDisconnect(h, s) == Begin(h, [Load("disconnect", s) EXCEPT !.others = Substitute(s)])

FinishDisconnect(h) ==
  LET p == req[h].copy
  IN  /\ req[h].kind = "disconnect"
      /\ UNCHANGED filled
      /\ Fails(h) \/ Write(h, p, Disconnected(p))

\* toggle_account; an administrator enables again.
StartToggle(h, s) ==
  Begin(h, [Load("toggle", s) EXCEPT !.others = IF profile[s].enabled THEN Substitute(s) ELSE {}])

Toggled(p) == IF p.enabled THEN [Disarmed(p) EXCEPT !.enabled = FALSE, !.active = FALSE]
              ELSE [p EXCEPT !.enabled = TRUE]

FinishToggle(h) ==
  LET p == req[h].copy
  IN  /\ req[h].kind = "toggle"
      /\ UNCHANGED filled
      /\ Fails(h) \/ Write(h, p, Toggled(p))

StartDelete(h, s) ==
  /\ ~profile[s].counts
  /\ Begin(h, [Idle EXCEPT !.kind = "delete", !.slot = s,
                           !.others = IF profile[s].active THEN Substitute(s) ELSE {}])

FinishDelete(h) ==
  /\ req[h].kind = "delete"
  /\ UNCHANGED filled
  /\ \/ Fails(h)
     \/ Commit(h, Promoted([t \in Slots |-> IF t = req[h].slot THEN None ELSE profile[t]],
                           req[h].others))

\* live_execution_blockers is empty.
MayArm(p) ==
  /\ p.env = "LIVE"
  /\ p.enabled /\ p.active
  /\ p.key # None
  /\ p.status = "CONNECTED"
  /\ p.certified /\ p.passed = Sides
  /\ p.expiry # "past"

Armed(p) == p.live /\ p.expiry # "none" /\ MayArm(p)

StartArm(h, s) == MayArm(profile[s]) /\ Begin(h, Load("arm", s))

FinishArm(h) ==
  LET p == req[h].copy
  IN  /\ req[h].kind = "arm"
      /\ UNCHANGED filled
      \* a new window, so always written
      /\ \/ Fails(h)
         \/ Write(h, [p EXCEPT !.expiry = "none"], [p EXCEPT !.live = TRUE, !.expiry = "ahead"])

\* Explicitly, or by the status of an armed profile whose window is over.
StartDisarm(h, s) == profile[s].live /\ Begin(h, Load("disarm", s))

FinishDisarm(h) ==
  LET p == req[h].copy
  IN  /\ req[h].kind = "disarm"
      /\ UNCHANGED filled
      /\ Fails(h) \/ Write(h, p, Disarmed(p))

Expire(s) == /\ profile[s].expiry = "ahead"
             /\ profile' = [profile EXCEPT ![s].expiry = "past"]
             /\ UNCHANGED <<req, lock, blocked, filled, waits, menu, stale>>

\* The watchdog restarts a process that no longer answers.
Restart == /\ blocked
           /\ blocked' = FALSE
           /\ req' = [h \in Handlers |-> Idle]
           /\ lock' = None
           /\ UNCHANGED <<profile, filled, waits, menu, stale>>

(***************************************************************************)
Finish(h) == \/ FinishConnect(h) \/ FinishSave(h) \/ FinishProbe(h)
             \/ FinishDetect(h) \/ FinishCertify(h) \/ FinishReconcile(h)
             \/ FinishActivate(h) \/ FinishDisconnect(h) \/ FinishToggle(h)
             \/ FinishDelete(h) \/ FinishArm(h) \/ FinishDisarm(h)

Requests == \E h \in Handlers :
  \/ "connect" \in menu /\ \E k \in Keys, o \in Owners : StartConnect(h, k, o)
  \/ \E s \in Present :
       \/ "save" \in menu /\ \E k \in Keys : StartSave(h, s, k)
       \/ "certify" \in menu /\ \E side \in Sides : StartCertify(h, s, side)
       \/ "probe" \in menu /\ StartProbe(h, s)
       \/ "detect" \in menu /\ StartDetect(h, s)
       \/ "reconcile" \in menu /\ StartReconcile(h, s)
       \/ "activate" \in menu /\ StartActivate(h, s)
       \/ "disconnect" \in menu /\ StartDisconnect(h, s)
       \/ "toggle" \in menu /\ StartToggle(h, s)
       \/ "delete" \in menu /\ StartDelete(h, s)
       \/ "arm" \in menu /\ StartArm(h, s)
       \/ StartDisarm(h, s)
  \/ Finish(h)

Next == \/ Requests
        \/ "create" \in menu /\ \E o \in Owners, e \in Envs : Create(o, e)
        \/ \E s \in Present : Expire(s)
        \/ Restart

Spec == Init /\ [][Next]_vars

(***************************************************************************)
(* Properties.                                                             *)
(***************************************************************************)

\* Rows, requests and the lock are what the code can write; a request that
\* provisions holds the lock until it ends.
TypeOK ==
  /\ \A s \in Slots : profile[s] = None \/ profile[s] \in Row
  /\ \A h \in Handlers :
       /\ req[h].kind \in OnTheLoop \cup InThreads \cup {"none"}
       /\ req[h].others \subseteq Present
       /\ req[h].copy = None \/ req[h].copy \in Row
       /\ (lock = h) = (req[h].kind \in Provisioning)
  /\ filled \subseteq Uids \X Sides
  /\ blocked => lock # None

\* Two profiles of one environment never hold the verified keys of one Bybit
\* account: the lock covers the check, the wait for Bybit, and the row. A
\* detection that ends on an old copy may still move one beside the other.
OneVerifiedProfile ==
  \A s, t \in Present :
    (s # t /\ profile[s].env = profile[t].env /\ profile[s].verified # None
     /\ profile[s].verified = profile[t].verified) => stale[s] \/ stale[t]

\* A certificate on a profile with credentials was earned by orders of the
\* account they open, whatever was replaced, disconnected or reconciled
\* before, as long as no request wrote over a row that had changed.
CertificateIsEarned ==
  \A s \in Present : LET p == profile[s] IN
    p.certified /\ p.key # None =>
      stale[s] \/ \A side \in Sides : <<KeyUid[p.key], side>> \in filled

\* CONNECTED says that the saved key opens the account in the environment of
\* the profile; only a probe or detection that ends late, after a disconnect
\* or a replacement, can say so of a row without that key.
ConnectedKeyWorks ==
  \A s \in Present : LET p == profile[s] IN
    p.status = "CONNECTED" => stale[s] \/ (p.key # None /\ KeyEnv[p.key] = p.env)

\* No sequence of requests arms a Live profile: certification is for
\* simulations and does not survive a change of the environment. The window
\* is a detection that overlaps a replacement and its certification.
LiveStaysUnarmed == \A s \in Present : Armed(profile[s]) => stale[s]
=============================================================================
