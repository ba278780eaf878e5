--------------------------- MODULE IbkrOnboarding ---------------------------
(***************************************************************************)
(* The queue by which an owner gets a Paper Gateway of his own             *)
(* (routes_ibkr_onboarding.py): a request is approved, the owner submits   *)
(* the broker login, a worker on the host (ops/ibkr-user/provisioner.py)   *)
(* claims the job, deploys a node and acknowledges it, and the connection  *)
(* is verified and becomes a profile.                                      *)
(*                                                                         *)
(* The handlers lock the job's row, and those that compare accounts take   *)
(* an advisory lock: each is one step, except verify, which waits for the  *)
(* bridge in between.  The worker is another process; its requests may be  *)
(* lost or late, and a lease may end while it works.                       *)
(*                                                                         *)
(* Jobs are numbered as they are requested, the leases of a job by its     *)
(* claims.                                                                 *)
(***************************************************************************)
EXTENDS Integers, FiniteSets

CONSTANTS
    MaxJobs,      \* owners, each with at most one request
    Accounts,     \* Paper account ids
    Verifiers,    \* concurrent verify requests
    MaxInstances, \* ATLAS_PROVISION_MAX_INSTANCES
    MaxLogins,    \* bound on the submissions of a job (bounds the history)
    None

ASSUME JobsAssumption == MaxJobs \in Nat /\ MaxInstances \in Nat /\ MaxLogins \in Nat
ASSUME NoneAssumption == None \notin Accounts \cup Nat

Jobs == 1 .. MaxJobs

VARIABLES
    job,        \* the rows of ibkr_onboarding
    profiles,   \* accounts of IBKR Paper profiles: << owner, account >>
    active,     \* owners (by job) whose user is active
    verifying,  \* verify requests that wait for a bridge
    worker,     \* the provisioner's program state
    acks,       \* acknowledgements sent and not yet handled or lost
    node,       \* the host: an instance's identity.json, and what runs
    submitted, claimed \* history: logins submitted and jobs claimed

vars == << job, profiles, active, verifying, worker, acks, node, submitted, claimed >>
host == << worker, acks, node >>

-----------------------------------------------------------------------------
Status == {"NONE", "REQUESTED", "APPROVED", "QUEUED", "PROVISIONING",
           "LOGIN_REQUIRED", "CONNECTED", "FAILED", "REJECTED"}
Job == [status : Status, account : Accounts \cup {None}, approved : BOOLEAN,
        login : BOOLEAN, lease : Nat \cup {None}, expired : BOOLEAN,
        attempts : 0 .. 3]
NoJob == [status |-> "NONE", account |-> None, approved |-> FALSE, login |-> FALSE,
          lease |-> None, expired |-> FALSE, attempts |-> 0]

(* Statuses that an approval of another request compares with, and those   *)
(* that a manual assignment does.                                          *)
Pending == {"APPROVED", "QUEUED", "PROVISIONING", "LOGIN_REQUIRED"}
Competing == Pending \cup {"CONNECTED"}

Worker == [pc : {"idle", "provision", "ack"}, job : Jobs \cup {None},
           lease : Nat \cup {None}, account : Accounts \cup {None}, started : BOOLEAN]
Idle == [pc |-> "idle", job |-> None, lease |-> None, account |-> None, started |-> FALSE]

(* identity: the account of identity.json.  runs: the lease it runs for.   *)
Node == [identity : Accounts \cup {None}, runs : Nat \cup {None}]
NoNode == [identity |-> None, runs |-> None]

Ack == [job : Jobs, lease : Nat, started : BOOLEAN]
Manual == 0     \* the owner of profiles that an administrator assigned

TypeOK ==
    /\ job \in [Jobs -> Job]
    /\ profiles \subseteq (Jobs \cup {Manual}) \X Accounts
    /\ active \subseteq Jobs
    /\ verifying \in [Verifiers -> Jobs \cup {None}]
    /\ worker \in Worker
    /\ acks \subseteq Ack
    /\ node \in [Jobs -> Node]
    /\ submitted \in [Jobs -> Nat] /\ claimed \in [Jobs -> Nat]
    /\ \A j \in Jobs : (job[j].lease # None) = (job[j].status = "PROVISIONING")

Init ==
    /\ job = [j \in Jobs |-> NoJob]
    /\ profiles = {}
    /\ active = Jobs
    /\ verifying = [v \in Verifiers |-> None]
    /\ worker = Idle
    /\ acks = {}
    /\ node = [j \in Jobs |-> NoNode]
    /\ submitted = [j \in Jobs |-> 0] /\ claimed = [j \in Jobs |-> 0]

Registered(a) == \E p \in profiles : p[2] = a

OnlyJob == UNCHANGED << profiles, active, verifying, host, submitted, claimed >>

-----------------------------------------------------------------------------
(* Owners and administrators.                                              *)

Request(j, a) ==
    /\ job[j].status = "NONE" /\ \A k \in Jobs : k < j => job[k].status # "NONE"
    /\ j \in active /\ ~Registered(a)
    /\ job' = [job EXCEPT ![j] = [NoJob EXCEPT !.status = "REQUESTED", !.account = a]]
    /\ OnlyJob

Amend(j, a) ==
    /\ job[j].status \in {"REQUESTED", "REJECTED"} /\ job[j].attempts = 0
    /\ ~Registered(a)
    /\ job' = [job EXCEPT ![j].account = a, ![j].status = "REQUESTED", ![j].approved = FALSE]
    /\ OnlyJob

Approve(j) ==
    /\ job[j].status \in {"REQUESTED", "FAILED", "REJECTED"}
    /\ j \in active /\ ~Registered(job[j].account)
    /\ ~ \E k \in Jobs \ {j} : job[k].account = job[j].account /\ job[k].status \in Competing
    /\ job' = [job EXCEPT ![j] = [@ EXCEPT !.status = "APPROVED", !.approved = TRUE,
                                           !.login = FALSE, !.lease = None,
                                           !.expired = FALSE, !.attempts = 0]]
    /\ OnlyJob

Reject(j) ==
    /\ job[j].status \in {"REQUESTED", "APPROVED", "FAILED"}
    /\ job' = [job EXCEPT ![j].status = "REJECTED", ![j].login = FALSE]
    /\ OnlyJob

(* Mutant: one attempt too many.                                           *)
MayAttemptAgain(row) == row.attempts <= 3

MayAttempt(row) == row.attempts < 3

Credentials(j) ==
    /\ job[j].status \in {"APPROVED", "FAILED", "LOGIN_REQUIRED"} /\ job[j].approved
    /\ MayAttempt(job[j]) /\ j \in active
    /\ submitted[j] < MaxLogins
    /\ submitted' = [submitted EXCEPT ![j] = @ + 1]
    /\ job' = [job EXCEPT ![j] = [@ EXCEPT !.status = "QUEUED", !.login = TRUE,
                                           !.lease = None, !.expired = FALSE]]
    /\ UNCHANGED << profiles, active, verifying, host, claimed >>

(* An owner is suspended or reinstated.                                    *)
ChangeOwner(j) ==
    /\ active' = (active \ {j}) \cup ({j} \ active)
    /\ UNCHANGED << job, profiles, verifying, host, submitted, claimed >>

(* assert_ibkr_assignment, for a profile an administrator creates.         *)
AssignManually(a) ==
    /\ ~ \E j \in Jobs : job[j].account = a /\ job[j].status \in Pending
    /\ ~Registered(a)
    /\ profiles' = profiles \cup {<< Manual, a >>}
    /\ UNCHANGED << job, active, verifying, host, submitted, claimed >>

-----------------------------------------------------------------------------
(* Verification, around the wait for the bridge.                           *)

StartVerify(v, j) ==
    /\ verifying[v] = None
    /\ job[j].status = "LOGIN_REQUIRED" /\ j \in active
    /\ verifying' = [verifying EXCEPT ![v] = j]
    /\ UNCHANGED << job, profiles, active, host, submitted, claimed >>

(* Mutant: what was examined before the wait still holds.                  *)
AssignableAsBefore(j) == job[j].status # "CONNECTED"

(* The job and the assignment are examined again, under their locks.       *)
Assignable(j) ==
    /\ job[j].status = "LOGIN_REQUIRED" /\ j \in active
    /\ ~ \E k \in Jobs \ {j} : job[k].account = job[j].account /\ job[k].status \in Pending
    /\ ~Registered(job[j].account)

FinishVerify(v) ==
    LET j == verifying[v] IN
    /\ j # None
    /\ verifying' = [verifying EXCEPT ![v] = None]
    /\ \/ /\ node[j].runs # None /\ node[j].identity = job[j].account /\ Assignable(j)
          /\ profiles' = profiles \cup {<< j, job[j].account >>}
          /\ job' = [job EXCEPT ![j].status = "CONNECTED"]
       \/ UNCHANGED << job, profiles >>       \* pending, mismatch or refused
    /\ UNCHANGED << active, host, submitted, claimed >>

-----------------------------------------------------------------------------
(* The worker and its requests.                                            *)

(* Mutant: the lease of a failed job is kept.                              *)
FailedKeepingLease(row) == [row EXCEPT !.status = "FAILED", !.login = FALSE]

Failed(row) == [row EXCEPT !.status = "FAILED", !.login = FALSE, !.lease = None]

(* Mutant: a lost lease is queued again.                                   *)
Requeued(rows) ==
    [j \in Jobs |-> IF rows[j].status = "PROVISIONING" /\ rows[j].expired
                    THEN [rows[j] EXCEPT !.status = "QUEUED", !.lease = None] ELSE rows[j]]

(* Mutant: only the claimed job's lease matters.                           *)
StaleKept(rows) == rows

(* Leases that ended are reconciled first: they fail.                      *)
Reconciled(rows) ==
    [j \in Jobs |-> IF rows[j].status = "PROVISIONING" /\ rows[j].expired
                    THEN Failed(rows[j]) ELSE rows[j]]

(* Mutant: jobs of suspended owners are left in the queue.                 *)
QueuedOfActive(rows) == {j \in active : rows[j].status = "QUEUED"}

Queued(rows) == {j \in Jobs : rows[j].status = "QUEUED"}

(* The oldest queued job is leased, or fails; the answer may be lost.  A   *)
(* row that another request has locked is skipped: any job may be next.    *)
Claim ==
    LET rows == Reconciled(job) IN
    /\ worker.pc = "idle"
    /\ \/ /\ Queued(rows) = {}
          /\ job' = rows
          /\ UNCHANGED << worker, claimed >>
       \/ \E j \in Queued(rows) :
             /\ Registered(rows[j].account) \/ j \notin active
             /\ job' = [rows EXCEPT ![j] = Failed(@)]
             /\ UNCHANGED << worker, claimed >>
       \/ \E j \in Queued(rows) :
             /\ ~Registered(rows[j].account) /\ j \in active
             /\ claimed' = [claimed EXCEPT ![j] = @ + 1]
             /\ job' = [rows EXCEPT ![j].status = "PROVISIONING", ![j].lease = claimed[j] + 1,
                                    ![j].expired = FALSE, ![j].attempts = @ + 1]
             /\ \/ worker' = [Idle EXCEPT !.pc = "provision", !.job = j,
                                          !.lease = claimed[j] + 1, !.account = rows[j].account]
                \/ UNCHANGED worker
    /\ UNCHANGED << profiles, active, verifying, acks, node, submitted >>

(* Ten minutes pass; the worker's commands may take longer.                *)
Expire(j) ==
    /\ job[j].status = "PROVISIONING" /\ ~job[j].expired
    /\ job' = [job EXCEPT ![j].expired = TRUE]
    /\ OnlyJob

(* A new instance needs room, an old one the same identity; then Docker    *)
(* starts the node, or fails with or without it.                           *)
Provision ==
    LET j == worker.job
        room == Cardinality({k \in Jobs : node[k].identity # None}) < MaxInstances
        fits == IF node[j].identity = None THEN room ELSE node[j].identity = worker.account
        Done(started) == worker' = [worker EXCEPT !.pc = "ack", !.started = started]
    IN
    /\ worker.pc = "provision"
    /\ \/ /\ fits
          /\ node' = [node EXCEPT ![j] = [identity |-> worker.account, runs |-> worker.lease]]
          /\ \E started \in BOOLEAN : Done(started)
       \/ /\ fits
          /\ node' = [node EXCEPT ![j].identity = worker.account]
          /\ Done(FALSE)
       \/ ~fits /\ Done(FALSE) /\ UNCHANGED node
    /\ UNCHANGED << job, profiles, active, verifying, acks, submitted, claimed >>

(* Up to three times; a request that seems lost may still arrive.          *)
SendAck ==
    /\ worker.pc = "ack"
    /\ acks' = acks \cup {[job |-> worker.job, lease |-> worker.lease,
                           started |-> worker.started]}
    /\ UNCHANGED << job, profiles, active, verifying, worker, node, submitted, claimed >>

(* Answered, or given up after the last attempt.                           *)
EndAck ==
    /\ worker.pc = "ack"
    /\ worker' = Idle
    /\ UNCHANGED << job, profiles, active, verifying, acks, node, submitted, claimed >>

(* Mutant: any lease of the job will do.                                   *)
AnyLease(a) == job[a.job].status = "PROVISIONING" /\ ~job[a.job].expired

CurrentLease(a) ==
    /\ job[a.job].status = "PROVISIONING" /\ ~job[a.job].expired
    /\ job[a.job].lease = a.lease

(* Mutant: the login is kept for a later attempt.                          *)
AckedKeepingLogin(row, started) ==
    [row EXCEPT !.status = IF started THEN "LOGIN_REQUIRED" ELSE "FAILED", !.lease = None]

Acked(row, started) ==
    [row EXCEPT !.status = IF started THEN "LOGIN_REQUIRED" ELSE "FAILED",
                !.lease = None, !.login = FALSE]

Acknowledge(a) ==
    /\ a \in acks
    /\ \/ CurrentLease(a) /\ job' = [job EXCEPT ![a.job] = Acked(@, a.started)]
       \/ ~CurrentLease(a) /\ UNCHANGED job
    /\ acks' = acks \ {a}
    /\ UNCHANGED << profiles, active, verifying, worker, node, submitted, claimed >>

LoseAck(a) ==
    /\ a \in acks
    /\ acks' = acks \ {a}
    /\ UNCHANGED << job, profiles, active, verifying, worker, node, submitted, claimed >>

WorkerRestart ==
    /\ worker.pc # "idle"
    /\ worker' = Idle
    /\ UNCHANGED << job, profiles, active, verifying, acks, node, submitted, claimed >>

-----------------------------------------------------------------------------
People ==
    \/ \E j \in Jobs, a \in Accounts : Request(j, a) \/ Amend(j, a)
    \/ \E j \in Jobs : Approve(j) \/ Reject(j) \/ Credentials(j) \/ ChangeOwner(j)
    \/ \E a \in Accounts : AssignManually(a)

Verify == \E v \in Verifiers : FinishVerify(v) \/ \E j \in Jobs : StartVerify(v, j)

Network == \E a \in acks : Acknowledge(a) \/ LoseAck(a)

Next ==
    \/ People \/ Verify \/ Network
    \/ Claim \/ Provision \/ SendAck \/ EndAck \/ WorkerRestart
    \/ \E j \in Jobs : Expire(j)

Spec == Init /\ [][Next]_vars

(* The worker polls, its commands and requests end, and time passes.       *)
FairSpec ==
    /\ Spec
    /\ WF_vars(Claim) /\ WF_vars(Provision) /\ WF_vars(EndAck)
    /\ \A j \in Jobs : WF_vars(Expire(j))

-----------------------------------------------------------------------------
(* Safety.                                                                 *)

(* A submitted login is handed to the worker at most once, whatever is     *)
(* lost: another deployment needs the owner.                               *)
NoReplay == \A j \in Jobs : claimed[j] <= submitted[j]

(* Outside the queue and a lease no login is kept.                         *)
LoginIsErased ==
    \A j \in Jobs : job[j].login => job[j].status \in {"QUEUED", "PROVISIONING"}

(* Nobody is asked to log in to a node that the job's last claim did not   *)
(* start, however late an earlier claim is acknowledged.                   *)
LoginMeansStarted ==
    \A j \in Jobs : job[j].status = "LOGIN_REQUIRED" => node[j].runs = claimed[j]

(* The job, the login it holds and the node agree.                         *)
LoginFollowsJob == TypeOK /\ LoginIsErased /\ LoginMeansStarted

(* An account has one profile, whoever verifies or assigns it at once.     *)
OneProfilePerAccount == \A p, q \in profiles : p[2] = q[2] => p = q

(* A node is deployed at most three times between two approvals.           *)
ThreeAttempts ==
    [][\A j \in Jobs : claimed'[j] > claimed[j] => job[j].attempts < 3 /\ job[j].approved]_vars

-----------------------------------------------------------------------------
(* Liveness.                                                               *)

(* A queued job is eventually claimed or failed.                           *)
QueueDrains ==
    \A j \in Jobs : (job[j].status = "QUEUED") ~> (job[j].status # "QUEUED")

(* No setup stays with a lost worker.                                      *)
LeasesEnd ==
    \A j \in Jobs : (job[j].status = "PROVISIONING") ~> (job[j].status # "PROVISIONING")

=============================================================================
