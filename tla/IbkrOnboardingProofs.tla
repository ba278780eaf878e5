----------------------- MODULE IbkrOnboardingProofs -----------------------
(***************************************************************************)
(* Guided onboarding, for any owners, accounts, verifications and bounds:  *)
(* a login is handed out once, erased, and never believed on the word of   *)
(* an old lease; an account has one profile; a node has three attempts.    *)
(*                                                                         *)
(* The crux is that leases are numbers that only grow, so that an          *)
(* acknowledgement of an earlier claim carries a smaller one, and that the *)
(* one worker claims nothing while it is at work on a claim.               *)
(***************************************************************************)
EXTENDS IbkrOnboarding, TLAPS

(* Every request names an account.                                         *)
Named == \A j \in Jobs : job[j].status # "NONE" => job[j].account \in Accounts

(* What is queued may be deployed: it was approved, has an attempt left and *)
(* a login that was not handed out.                                        *)
Queueing == \A j \in Jobs : job[j].status = "QUEUED" =>
    job[j].attempts < 3 /\ job[j].approved /\ claimed[j] < submitted[j]

(* A lease is the number of its claim.                                     *)
Leases == \A j \in Jobs : job[j].status = "PROVISIONING" => job[j].lease = claimed[j]

(* The worker's claim is the last one of its job.                          *)
WorkerClaim == worker.pc # "idle" =>
    /\ worker.job \in Jobs /\ worker.account \in Accounts
    /\ worker.lease = claimed[worker.job]

(* Before the node is started the job waits for it, and no acknowledgement *)
(* of this claim exists.                                                   *)
Deploying == worker.pc = "provision" =>
    /\ job[worker.job].status = "PROVISIONING"
    /\ \A a \in acks : a.job = worker.job => a.lease < worker.lease

(* What the worker, or an acknowledgement of the last claim, reports as    *)
(* started runs for that claim.                                            *)
Reporting == (worker.pc = "ack" /\ worker.started) => node[worker.job].runs = worker.lease
Reported == \A a \in acks :
    /\ a.lease <= claimed[a.job]
    /\ (a.started /\ a.lease = claimed[a.job]) => node[a.job].runs = a.lease

IInv == /\ TypeOK /\ Named /\ Queueing /\ NoReplay /\ LoginIsErased
        /\ Leases /\ WorkerClaim /\ Deploying /\ Reporting /\ Reported
        /\ LoginMeansStarted /\ OneProfilePerAccount

USE DEF Jobs, Job, NoJob, Status, Worker, Idle, Node, NoNode, Ack, Manual,
        Pending, Competing, host

(* The initial states: nobody has asked for anything.                      *)
LEMMA Initially == Init => IInv
BY JobsAssumption, NoneAssumption DEF Init, IInv, TypeOK, Named, Queueing, NoReplay,
   LoginIsErased, Leases, WorkerClaim, Deploying, Reporting, Reported,
   LoginMeansStarted, OneProfilePerAccount

(* What reconciliation does to the rows: ended leases fail, and all else,  *)
(* the queue in particular, stays.                                         *)
LEMMA Reconciling ==
    ASSUME TypeOK
    PROVE  /\ Reconciled(job) \in [Jobs -> Job]
           /\ \A j \in Jobs :
                \/ Reconciled(job)[j] = job[j]
                \/ /\ job[j].status = "PROVISIONING"
                   /\ Reconciled(job)[j] = Failed(job[j])
           /\ Queued(Reconciled(job)) = Queued(job)
           /\ \A j \in Queued(job) : Reconciled(job)[j] = job[j]
<1>1. \A j \in Jobs : Failed(job[j]) \in Job /\ Failed(job[j]).status = "FAILED"
  <2> SUFFICES ASSUME NEW r \in Job
               PROVE  Failed(r) \in Job /\ Failed(r).status = "FAILED"
    BY DEF TypeOK
  <2> QED BY DEF Failed
<1>2. Reconciled(job) \in [Jobs -> Job]
  BY <1>1 DEF TypeOK, Reconciled
<1>3. \A j \in Jobs :
        \/ Reconciled(job)[j] = job[j]
        \/ job[j].status = "PROVISIONING" /\ Reconciled(job)[j] = Failed(job[j])
  BY DEF Reconciled
<1>4. \A j \in Jobs : (Reconciled(job)[j].status = "QUEUED") = (job[j].status = "QUEUED")
  <2> SUFFICES ASSUME NEW j \in Jobs
               PROVE  (Reconciled(job)[j].status = "QUEUED") = (job[j].status = "QUEUED")
    OBVIOUS
  <2>1. CASE Reconciled(job)[j] = job[j]
    BY <2>1
  <2>2. CASE job[j].status = "PROVISIONING" /\ Reconciled(job)[j] = Failed(job[j])
    BY <2>2, <1>1
  <2> QED BY <1>3, <2>1, <2>2
<1>5. Queued(Reconciled(job)) = Queued(job)
  BY <1>4 DEF Queued
<1>6. \A j \in Queued(job) : Reconciled(job)[j] = job[j]
  BY <1>3 DEF Queued
<1> QED BY <1>2, <1>3, <1>5, <1>6

(* What people, and time, do to row j: they neither hand out a lease nor    *)
(* say that a node runs, and they queue only what may be deployed.         *)
RowChange(j, row) ==
    /\ row \in Job /\ job' = [job EXCEPT ![j] = row]
    /\ row.status \notin {"NONE", "LOGIN_REQUIRED"} /\ row.account \in Accounts
    /\ (row.lease # None) = (row.status = "PROVISIONING")
    /\ (row.status = "PROVISIONING") = (job[j].status = "PROVISIONING")
    /\ row.status = "PROVISIONING" => row.lease = job[j].lease
    /\ row.login => row.status \in {"QUEUED", "PROVISIONING"}
    /\ row.status = "QUEUED" => row.attempts < 3 /\ row.approved /\ claimed[j] < submitted'[j]

(* The rows that people write, as functions of the row they find.          *)
Requested(a) == [NoJob EXCEPT !.status = "REQUESTED", !.account = a]
Amended(r, a) == [r EXCEPT !.account = a, !.status = "REQUESTED", !.approved = FALSE]
Approved(r, zero) == [r EXCEPT !.status = "APPROVED", !.approved = TRUE, !.login = FALSE,
                         !.lease = None, !.expired = FALSE, !.attempts = zero]
Rejected(r) == [r EXCEPT !.status = "REJECTED", !.login = FALSE]
Submitted(r) == [r EXCEPT !.status = "QUEUED", !.login = TRUE, !.lease = None, !.expired = FALSE]
Late(r) == [r EXCEPT !.expired = TRUE]

(* These are rows, and what the proof needs of their fields.              *)
LEMMA Rows ==
    ASSUME NEW r \in Job, NEW a \in Accounts
    PROVE  /\ Requested(a) \in Job /\ Requested(a).status = "REQUESTED"
           /\ Requested(a).account = a /\ Requested(a).lease = None /\ ~Requested(a).login
           /\ Amended(r, a) \in Job /\ Amended(r, a).status = "REQUESTED"
           /\ Amended(r, a).account = a /\ Amended(r, a).lease = r.lease
           /\ Amended(r, a).login = r.login
<1>1. Requested(a) \in Job
  <2>1. NoJob \in Job
    OBVIOUS
  <2>2. \A q \in Job : [q EXCEPT !.status = "REQUESTED", !.account = a] \in Job
    OBVIOUS
  <2> QED
    <3> HIDE DEF Job, NoJob
    <3> QED BY <2>1, <2>2 DEF Requested
<1>2. /\ Requested(a).status = "REQUESTED"
      /\ Requested(a).account = a /\ Requested(a).lease = None /\ ~Requested(a).login
  BY DEF Requested
<1>3. Amended(r, a) \in Job
  BY DEF Amended
<1>4. /\ Amended(r, a).status = "REQUESTED"
      /\ Amended(r, a).account = a /\ Amended(r, a).lease = r.lease
  BY DEF Amended
<1>5. Amended(r, a).login = r.login
  BY DEF Amended
<1> QED BY <1>1, <1>2, <1>3, <1>4, <1>5

LEMMA ApprovedRow ==
    ASSUME NEW r \in Job, NEW z \in 0 .. 3
    PROVE  /\ Approved(r, z) \in Job
           /\ Approved(r, z).status = "APPROVED" /\ ~Approved(r, z).login
           /\ Approved(r, z).account = r.account /\ Approved(r, z).lease = None
<1>1. Approved(r, z) \in Job
  BY DEF Approved
<1> QED BY <1>1 DEF Approved

LEMMA RejectedRow ==
    ASSUME NEW r \in Job
    PROVE  /\ Rejected(r) \in Job /\ Rejected(r).status = "REJECTED" /\ ~Rejected(r).login
           /\ Rejected(r).account = r.account /\ Rejected(r).lease = r.lease
<1>1. Rejected(r) \in Job
  BY DEF Rejected
<1> QED BY <1>1 DEF Rejected

LEMMA SubmittedRow ==
    ASSUME NEW r \in Job
    PROVE  /\ Submitted(r) \in Job /\ Submitted(r).status = "QUEUED"
           /\ Submitted(r).account = r.account /\ Submitted(r).lease = None
           /\ Submitted(r).attempts = r.attempts /\ Submitted(r).approved = r.approved
<1>1. Submitted(r) \in Job
  BY DEF Submitted
<1>2. Submitted(r).approved = r.approved
  BY DEF Submitted
<1> QED BY <1>1, <1>2 DEF Submitted

LEMMA LateRow ==
    ASSUME NEW r \in Job
    PROVE  /\ Late(r) \in Job /\ Late(r).status = r.status /\ Late(r).login = r.login
           /\ Late(r).account = r.account /\ Late(r).lease = r.lease
           /\ Late(r).attempts = r.attempts /\ Late(r).approved = r.approved
<1>1. Late(r) \in Job
  BY DEF Late
<1>2. Late(r).approved = r.approved
  BY DEF Late
<1>3. Late(r).login = r.login
  BY DEF Late
<1> QED BY <1>1, <1>2, <1>3 DEF Late

(* A request changes its row in this way.                                  *)
LEMMA PeopleStep ==
    ASSUME IInv, NEW j \in Jobs,
           \/ \E a \in Accounts : Request(j, a) \/ Amend(j, a)
           \/ Approve(j) \/ Reject(j) \/ Credentials(j) \/ Expire(j)
    PROVE  /\ \E row : RowChange(j, row)
           /\ \A k \in Jobs : submitted'[k] \in Nat /\ submitted'[k] >= submitted[k]
           /\ submitted' \in [Jobs -> Nat]
           /\ UNCHANGED << profiles, active, verifying, host, claimed >>
<1>t. /\ job \in [Jobs -> Job] /\ job[j] \in Job
      /\ claimed \in [Jobs -> Nat] /\ submitted \in [Jobs -> Nat] /\ claimed[j] <= submitted[j]
  BY DEF IInv, TypeOK, NoReplay
<1>a. job[j].status # "NONE" => job[j].account \in Accounts
  BY DEF IInv, Named
<1>l. /\ (job[j].lease # None) = (job[j].status = "PROVISIONING")
      /\ job[j].login => job[j].status \in {"QUEUED", "PROVISIONING"}
  BY DEF IInv, TypeOK, LoginIsErased
<1>1. ASSUME NEW a \in Accounts, Request(j, a) PROVE RowChange(j, Requested(a)) /\ OnlyJob
  <2>1. job' = [job EXCEPT ![j] = Requested(a)] /\ OnlyJob /\ job[j].status = "NONE"
    BY <1>1 DEF Request, Requested
  <2> QED BY <2>1, <1>t, Rows DEF RowChange
<1>2. ASSUME NEW a \in Accounts, Amend(j, a) PROVE RowChange(j, Amended(job[j], a)) /\ OnlyJob
  <2>1. job' = [job EXCEPT ![j] = Amended(job[j], a)] /\ OnlyJob
    BY <1>2, <1>t DEF Amend, Amended
  <2>2. job[j].status \in {"REQUESTED", "REJECTED"}
    BY <1>2 DEF Amend
  <2> QED BY <2>1, <2>2, <1>t, <1>l, Rows DEF RowChange
<1>3. ASSUME Approve(j) PROVE RowChange(j, Approved(job[j], 0)) /\ OnlyJob
  <2>1. job' = [job EXCEPT ![j] = Approved(job[j], 0)] /\ OnlyJob
    BY <1>3, <1>t DEF Approve, Approved
  <2>2. job[j].status \in {"REQUESTED", "FAILED", "REJECTED"}
    BY <1>3 DEF Approve
  <2> QED BY <2>1, <2>2, <1>t, <1>a, ApprovedRow DEF RowChange
<1>4. ASSUME Reject(j) PROVE RowChange(j, Rejected(job[j])) /\ OnlyJob
  <2>1. job' = [job EXCEPT ![j] = Rejected(job[j])] /\ OnlyJob
    BY <1>4, <1>t DEF Reject, Rejected
  <2>2. job[j].status \in {"REQUESTED", "APPROVED", "FAILED"}
    BY <1>4 DEF Reject
  <2> QED BY <2>1, <2>2, <1>t, <1>a, <1>l, RejectedRow DEF RowChange
<1>5. ASSUME Credentials(j)
      PROVE  /\ RowChange(j, Submitted(job[j]))
             /\ submitted' = [submitted EXCEPT ![j] = @ + 1]
             /\ UNCHANGED << profiles, active, verifying, host, claimed >>
  <2>1. /\ job' = [job EXCEPT ![j] = Submitted(job[j])]
        /\ submitted' = [submitted EXCEPT ![j] = @ + 1]
        /\ UNCHANGED << profiles, active, verifying, host, claimed >>
    BY <1>5, <1>t DEF Credentials, Submitted
  <2>2. /\ job[j].status \in {"APPROVED", "FAILED", "LOGIN_REQUIRED"} /\ job[j].approved
        /\ job[j].attempts < 3
    BY <1>5 DEF Credentials, MayAttempt
  <2>3. claimed[j] < submitted'[j]
    BY <2>1, <1>t
  <2> QED BY <2>1, <2>2, <2>3, <1>t, <1>a, SubmittedRow DEF RowChange
<1>6. ASSUME Expire(j) PROVE RowChange(j, Late(job[j])) /\ OnlyJob
  <2>1. job' = [job EXCEPT ![j] = Late(job[j])] /\ OnlyJob
    BY <1>6, <1>t DEF Expire, Late
  <2>2. job[j].status = "PROVISIONING"
    BY <1>6 DEF Expire
  <2> QED BY <2>1, <2>2, <1>t, <1>a, <1>l, LateRow DEF RowChange
<1>7. CASE OnlyJob /\ \E row : RowChange(j, row)
  BY <1>7, <1>t DEF OnlyJob
<1>8. CASE Credentials(j)
  BY <1>5, <1>8, <1>t
<1> QED BY <1>1, <1>2, <1>3, <1>4, <1>6, <1>7, <1>8

(* What follows for the rows, whoever changes one of them.                 *)
LEMMA Except ==
    ASSUME NEW rows \in [Jobs -> Job], NEW j \in Jobs, NEW row \in Job
    PROVE  /\ [rows EXCEPT ![j] = row] \in [Jobs -> Job]
           /\ [rows EXCEPT ![j] = row][j] = row
           /\ \A k \in Jobs \ {j} : [rows EXCEPT ![j] = row][k] = rows[k]
<1> HIDE DEF Job, Jobs
<1> QED OBVIOUS

(* What people and time do keeps the invariant.                            *)
LEMMA PeopleKeep ==
    ASSUME IInv, NEW j \in Jobs,
           \/ \E a \in Accounts : Request(j, a) \/ Amend(j, a)
           \/ Approve(j) \/ Reject(j) \/ Credentials(j) \/ Expire(j)
    PROVE  IInv'
<1>0. /\ \A k \in Jobs : submitted'[k] \in Nat /\ submitted'[k] >= submitted[k]
      /\ submitted' \in [Jobs -> Nat]
      /\ UNCHANGED << profiles, active, verifying, host, claimed >>
  BY PeopleStep
<1>r. PICK row : RowChange(j, row)
  BY PeopleStep
<1> HIDE DEF Job, Jobs, NoJob, Worker, Node, Ack
<1>t. job \in [Jobs -> Job]
  BY DEF IInv, TypeOK
<1>j. job' \in [Jobs -> Job] /\ job'[j] = row /\ \A k \in Jobs \ {j} : job'[k] = job[k]
  BY <1>r, <1>t, Except DEF RowChange
<1>1. TypeOK'
  <2>1. \A k \in Jobs : (job'[k].lease # None) = (job'[k].status = "PROVISIONING")
    BY <1>r, <1>j DEF RowChange, IInv, TypeOK
  <2> QED BY <1>0, <1>j, <2>1 DEF IInv, TypeOK
<1>2. Named'
  BY <1>r, <1>j DEF RowChange, IInv, Named
<1>3. Queueing'
  <2>1. \A k \in Jobs : claimed[k] \in Nat /\ submitted[k] \in Nat
    BY DEF IInv, TypeOK
  <2> SUFFICES ASSUME NEW k \in Jobs, job'[k].status = "QUEUED"
               PROVE  job'[k].attempts < 3 /\ job'[k].approved /\ claimed'[k] < submitted'[k]
    BY DEF Queueing
  <2>2. CASE k = j
    BY <1>0, <1>r, <1>j, <2>2 DEF RowChange
  <2>3. CASE k # j
    <3>1. job[k].attempts < 3 /\ job[k].approved /\ claimed[k] < submitted[k]
      BY <1>j, <2>3 DEF IInv, Queueing
    <3>2. claimed'[k] < submitted'[k]
      BY <1>0, <2>1, <3>1
    <3> QED BY <1>j, <2>3, <3>1, <3>2
  <2> QED BY <2>2, <2>3
<1>4. NoReplay'
  <2>1. \A k \in Jobs : claimed[k] \in Nat /\ submitted[k] \in Nat
    BY DEF IInv, TypeOK
  <2> QED BY <1>0, <2>1 DEF IInv, NoReplay
<1>5. LoginIsErased'
  BY <1>r, <1>j DEF RowChange, IInv, LoginIsErased
<1>6. Leases'
  BY <1>0, <1>r, <1>j DEF RowChange, IInv, Leases
<1>7. WorkerClaim' /\ Reporting' /\ Reported' /\ OneProfilePerAccount'
  BY <1>0 DEF IInv, WorkerClaim, Reporting, Reported, OneProfilePerAccount
<1>8. Deploying'
  <2>1. worker.pc = "provision" => job'[worker.job].status = "PROVISIONING"
    BY <1>r, <1>j DEF RowChange, IInv, Deploying, WorkerClaim
  <2> QED BY <1>0, <2>1 DEF IInv, Deploying
<1>9. LoginMeansStarted'
  BY <1>0, <1>r, <1>j DEF RowChange, IInv, LoginMeansStarted
<1> QED BY <1>1, <1>2, <1>3, <1>4, <1>5, <1>6, <1>7, <1>8, <1>9 DEF IInv

(* A step that leaves the jobs, the worker and the host alone, and gives   *)
(* an account that has none a profile at most.                             *)
LEMMA Profiling ==
    ASSUME IInv, UNCHANGED << job, host, submitted, claimed >>,
           active' \subseteq Jobs, verifying' \in [Verifiers -> Jobs \cup {None}],
           \/ profiles' = profiles
           \/ \E o \in Jobs \cup {Manual}, a \in Accounts :
                 ~Registered(a) /\ profiles' = profiles \cup {<< o, a >>}
    PROVE  IInv'
<1> HIDE DEF Job, Jobs, NoJob, Worker, Node, Ack
<1>1. TypeOK'
  <2>1. profiles' \subseteq (Jobs \cup {Manual}) \X Accounts
    BY DEF IInv, TypeOK
  <2> QED BY <2>1 DEF IInv, TypeOK
<1>2. OneProfilePerAccount'
  BY DEF IInv, OneProfilePerAccount, Registered
<1>3. /\ Named' /\ Queueing' /\ NoReplay' /\ LoginIsErased' /\ Leases'
      /\ WorkerClaim' /\ Deploying' /\ Reporting' /\ Reported' /\ LoginMeansStarted'
  BY DEF IInv, Named, Queueing, NoReplay, LoginIsErased, Leases,
         WorkerClaim, Deploying, Reporting, Reported, LoginMeansStarted
<1> QED BY <1>1, <1>2, <1>3 DEF IInv

(* Verification: the account is examined with the row that becomes CONNECTED, *)
(* after the wait.                                                         *)
LEMMA VerifyKeeps ==
    ASSUME IInv, NEW v \in Verifiers,
           FinishVerify(v) \/ \E j \in Jobs : StartVerify(v, j)
    PROVE  IInv'
<1>1. CASE \E j \in Jobs : StartVerify(v, j)
  <2>1. /\ UNCHANGED << job, host, submitted, claimed, profiles, active >>
        /\ verifying' \in [Verifiers -> Jobs \cup {None}]
    BY <1>1 DEF StartVerify, IInv, TypeOK
  <2>2. active' \subseteq Jobs
    BY <2>1 DEF IInv, TypeOK
  <2> QED BY <2>1, <2>2, Profiling
<1>2. CASE FinishVerify(v)
  <2> DEFINE j == verifying[v]
             Connected(r) == [r EXCEPT !.status = "CONNECTED"]
  <2>0. /\ j \in Jobs /\ active' = active /\ active \subseteq Jobs
        /\ verifying' \in [Verifiers -> Jobs \cup {None}]
        /\ UNCHANGED << host, submitted, claimed >>
        /\ job \in [Jobs -> Job]
    BY <1>2 DEF FinishVerify, IInv, TypeOK
  <2>1. CASE UNCHANGED << job, profiles >>
    BY <2>0, <2>1, Profiling
  <2>2. CASE /\ Assignable(j)
             /\ profiles' = profiles \cup {<< j, job[j].account >>}
             /\ job' = [job EXCEPT ![j] = Connected(job[j])]
    <3>1. \A r \in Job : /\ Connected(r) \in Job /\ Connected(r).status = "CONNECTED"
                         /\ Connected(r).account = r.account /\ Connected(r).lease = r.lease
      OBVIOUS
    <3>2. \A r \in Job : Connected(r).login = r.login
      OBVIOUS
    <3> HIDE DEF Job, Jobs, NoJob, Worker, Node, Ack, Connected, j
    <3>3. /\ job' \in [Jobs -> Job] /\ job'[j] = Connected(job[j])
          /\ \A k \in Jobs \ {j} : job'[k] = job[k]
      BY <2>0, <2>2, <3>1, Except
    <3>4. /\ job[j].status = "LOGIN_REQUIRED" /\ ~Registered(job[j].account)
          /\ job[j] \in Job /\ job[j].account \in Accounts
          /\ job[j].lease = None /\ ~job[j].login
      BY <2>0, <2>2 DEF Assignable, IInv, TypeOK, Named, LoginIsErased
    <3>5. TypeOK'
      <4>1. \A k \in Jobs : (job'[k].lease # None) = (job'[k].status = "PROVISIONING")
        BY <3>1, <3>3, <3>4 DEF IInv, TypeOK
      <4> QED BY <2>0, <2>2, <3>3, <3>4, <4>1 DEF IInv, TypeOK
    <3>6. Named' /\ LoginIsErased'
      BY <3>1, <3>2, <3>3, <3>4 DEF IInv, Named, LoginIsErased
    <3>7. Queueing' /\ Leases' /\ LoginMeansStarted'
      BY <2>0, <3>1, <3>3, <3>4 DEF IInv, Queueing, Leases, LoginMeansStarted
    <3>8. NoReplay' /\ WorkerClaim' /\ Reporting' /\ Reported'
      BY <2>0 DEF IInv, NoReplay, WorkerClaim, Reporting, Reported
    <3>9. Deploying'
      <4>1. worker.pc = "provision" => worker.job # j /\ worker.job \in Jobs
        BY <3>4 DEF IInv, Deploying, WorkerClaim
      <4> QED BY <2>0, <3>3, <4>1 DEF IInv, Deploying
    <3>10. OneProfilePerAccount'
      BY <2>2, <3>4 DEF IInv, OneProfilePerAccount, Registered
    <3> QED BY <3>5, <3>6, <3>7, <3>8, <3>9, <3>10 DEF IInv
  <2>3. \/ UNCHANGED << job, profiles >>
        \/ /\ Assignable(j)
           /\ profiles' = profiles \cup {<< j, job[j].account >>}
           /\ job' = [job EXCEPT ![j] = Connected(job[j])]
    BY <1>2, <2>0 DEF FinishVerify
  <2> QED BY <2>1, <2>2, <2>3
<1> QED BY <1>1, <1>2

(* Rows that fail lose their lease and their login; nobody works on them.  *)
LEMMA FailedRow ==
    ASSUME NEW r \in Job
    PROVE  /\ Failed(r) \in Job /\ Failed(r).status = "FAILED" /\ ~Failed(r).login
           /\ Failed(r).account = r.account /\ Failed(r).lease = None
BY DEF Failed

(* Failed rows keep the invariant while nobody works on a claim.           *)
LEMMA Failing ==
    ASSUME IInv, worker.pc = "idle", UNCHANGED << profiles, active, verifying, host, submitted, claimed >>,
           job' \in [Jobs -> Job],
           \A k \in Jobs : \/ job'[k] = job[k]
                           \/ job[k].status # "NONE" /\ job'[k] = Failed(job[k])
    PROVE  IInv'
<1> HIDE DEF Job, Jobs, NoJob, Worker, Node, Ack
<1>t. job \in [Jobs -> Job]
  BY DEF IInv, TypeOK
<1>1. TypeOK'
  <2>1. \A k \in Jobs : (job'[k].lease # None) = (job'[k].status = "PROVISIONING")
    BY <1>t, FailedRow DEF IInv, TypeOK
  <2> QED BY <2>1 DEF IInv, TypeOK
<1>2. Named' /\ LoginIsErased'
  BY <1>t, FailedRow DEF IInv, Named, LoginIsErased
<1>3. Queueing' /\ Leases' /\ LoginMeansStarted'
  BY <1>t, FailedRow DEF IInv, Queueing, Leases, LoginMeansStarted
<1>4. /\ NoReplay' /\ WorkerClaim' /\ Reporting' /\ Reported'
      /\ Deploying' /\ OneProfilePerAccount'
  BY DEF IInv, NoReplay, WorkerClaim, Reporting, Reported, Deploying, OneProfilePerAccount
<1> QED BY <1>1, <1>2, <1>3, <1>4 DEF IInv

(* A claim takes a login that was not handed out: its lease is a new one.  *)
Leased(r, n) == [r EXCEPT !.status = "PROVISIONING", !.lease = n, !.expired = FALSE,
                          !.attempts = @ + 1]

(* The attempt that a lease takes is one of the three.                    *)
LEMMA LeasedRow ==
    ASSUME NEW r \in Job, NEW n \in Nat, r.attempts < 3
    PROVE  /\ Leased(r, n) \in Job /\ Leased(r, n).status = "PROVISIONING"
           /\ Leased(r, n).account = r.account /\ Leased(r, n).lease = n
<1>1. r.attempts + 1 \in 0 .. 3
  OBVIOUS
<1>2. \A m \in 0 .. 3 :
        [r EXCEPT !.status = "PROVISIONING", !.lease = n, !.expired = FALSE, !.attempts = m] \in Job
  OBVIOUS
<1>3. Leased(r, n) \in Job
  BY <1>1, <1>2 DEF Leased
<1> QED BY <1>3 DEF Leased

(* So does a new lease: every acknowledgement of the job has a smaller one. *)
LEMMA Leasing ==
    ASSUME IInv, worker.pc = "idle", NEW j \in Jobs, job[j].status = "QUEUED",
           UNCHANGED << profiles, active, verifying, acks, node, submitted >>,
           claimed' = [claimed EXCEPT ![j] = @ + 1],
           job' \in [Jobs -> Job], job'[j] = Leased(job[j], claimed[j] + 1),
           \A k \in Jobs \ {j} : \/ job'[k] = job[k]
                                 \/ job[k].status # "NONE" /\ job'[k] = Failed(job[k]),
           \/ worker' = [Idle EXCEPT !.pc = "provision", !.job = j,
                                     !.lease = claimed[j] + 1, !.account = job[j].account]
           \/ UNCHANGED worker
    PROVE  IInv'
<1>t. /\ job \in [Jobs -> Job] /\ claimed \in [Jobs -> Nat] /\ submitted \in [Jobs -> Nat]
      /\ acks \subseteq Ack
  BY DEF IInv, TypeOK
<1>q. job[j].attempts < 3 /\ claimed[j] < submitted[j] /\ job[j].account \in Accounts
  BY DEF IInv, Queueing, Named
<1>c. /\ claimed' \in [Jobs -> Nat] /\ claimed'[j] = claimed[j] + 1
      /\ \A k \in Jobs \ {j} : claimed'[k] = claimed[k]
  BY <1>t
<1>w. /\ worker' \in Worker
      /\ \/ worker'.pc = "idle"
         \/ /\ worker'.pc = "provision" /\ worker'.job = j
            /\ worker'.account = job[j].account /\ worker'.lease = claimed[j] + 1
  <2>1. CASE UNCHANGED worker
    BY <2>1 DEF IInv, TypeOK
  <2>2. CASE worker' = [Idle EXCEPT !.pc = "provision", !.job = j,
                                    !.lease = claimed[j] + 1, !.account = job[j].account]
    <3>1. claimed[j] + 1 \in Nat
      BY <1>t
    <3> HIDE DEF Jobs
    <3> QED BY <2>2, <3>1, <1>q
  <2> QED BY <2>1, <2>2
<1>r. /\ job'[j].status = "PROVISIONING" /\ job'[j].account \in Accounts
      /\ job'[j].lease = claimed[j] + 1 /\ claimed[j] + 1 \in Nat
  BY <1>t, <1>q, LeasedRow
<1> HIDE DEF Job, Jobs, NoJob, Worker, Node, Ack, Idle
<1>1. TypeOK'
  <2>1. \A k \in Jobs : (job'[k].lease # None) = (job'[k].status = "PROVISIONING")
    BY <1>t, <1>r, FailedRow, NoneAssumption DEF IInv, TypeOK
  <2> QED BY <1>c, <1>w, <2>1 DEF IInv, TypeOK
<1>2. Named' /\ LoginIsErased'
  BY <1>t, <1>r, FailedRow DEF IInv, Named, LoginIsErased
<1>3. Queueing'
  BY <1>t, <1>r, <1>c, FailedRow DEF IInv, Queueing
<1>4. NoReplay'
  BY <1>t, <1>q, <1>c DEF IInv, NoReplay
<1>5. Leases' /\ LoginMeansStarted'
  BY <1>t, <1>r, <1>c, FailedRow DEF IInv, Leases, LoginMeansStarted
<1>6. WorkerClaim' /\ Reporting'
  BY <1>w, <1>q, <1>c DEF WorkerClaim, Reporting
<1>7. Reported'
  <2> SUFFICES ASSUME NEW a \in acks
               PROVE  /\ a.lease <= claimed'[a.job]
                      /\ (a.started /\ a.lease = claimed'[a.job]) => node[a.job].runs = a.lease
    BY DEF Reported
  <2>1. /\ a.job \in Jobs /\ a.lease \in Nat /\ a.lease <= claimed[a.job]
        /\ (a.started /\ a.lease = claimed[a.job]) => node[a.job].runs = a.lease
    BY <1>t DEF IInv, Reported, Ack
  <2>2. CASE a.job = j
    BY <1>c, <1>t, <2>1, <2>2
  <2>3. CASE a.job # j
    BY <1>c, <2>1, <2>3
  <2> QED BY <2>2, <2>3
<1>8. Deploying'
  <2> SUFFICES ASSUME worker'.pc = "provision", NEW a \in acks, a.job = j
               PROVE  a.lease < claimed[j] + 1
    BY <1>w, <1>r DEF Deploying
  <2>1. a.lease \in Nat /\ a.lease <= claimed[j] /\ claimed[j] \in Nat
    BY <1>t DEF IInv, Reported, Ack
  <2> QED BY <2>1
<1>9. OneProfilePerAccount'
  BY DEF IInv, OneProfilePerAccount
<1> QED BY <1>1, <1>2, <1>3, <1>4, <1>5, <1>6, <1>7, <1>8, <1>9 DEF IInv

(* A claim fails rows, and leases one that was queued, at most.            *)
LEMMA ClaimEffect ==
    ASSUME IInv, Claim
    PROVE  /\ worker.pc = "idle" /\ job' \in [Jobs -> Job]
           /\ UNCHANGED << profiles, active, verifying, acks, node, submitted >>
           /\ \/ /\ UNCHANGED << worker, claimed >>
                 /\ \A k \in Jobs : \/ job'[k] = job[k]
                                    \/ job[k].status # "NONE" /\ job'[k] = Failed(job[k])
              \/ \E j \in Queued(job) :
                    /\ claimed' = [claimed EXCEPT ![j] = @ + 1]
                    /\ job'[j] = Leased(job[j], claimed[j] + 1)
                    /\ \A k \in Jobs \ {j} :
                          \/ job'[k] = job[k]
                          \/ job[k].status # "NONE" /\ job'[k] = Failed(job[k])
                    /\ \/ worker' = [Idle EXCEPT !.pc = "provision", !.job = j,
                                         !.lease = claimed[j] + 1, !.account = job[j].account]
                       \/ UNCHANGED worker
<1> DEFINE rows == Reconciled(job)
<1>t. TypeOK /\ claimed \in [Jobs -> Nat]
  BY DEF IInv, TypeOK
<1>r. /\ rows \in [Jobs -> Job] /\ Queued(rows) = Queued(job)
      /\ \A k \in Jobs : \/ rows[k] = job[k]
                         \/ job[k].status # "NONE" /\ rows[k] = Failed(job[k])
      /\ \A k \in Queued(job) : rows[k] = job[k] /\ k \in Jobs /\ job[k].status = "QUEUED"
  BY <1>t, Reconciling DEF Queued
<1>u. worker.pc = "idle" /\ UNCHANGED << profiles, active, verifying, acks, node, submitted >>
  BY DEF Claim
<1>1. CASE job' = rows /\ UNCHANGED << worker, claimed >>
  BY <1>1, <1>r, <1>u
<1>2. ASSUME NEW j \in Queued(rows), job' = [rows EXCEPT ![j] = Failed(rows[j])],
             UNCHANGED << worker, claimed >>
      PROVE  /\ job' \in [Jobs -> Job]
             /\ \A k \in Jobs : \/ job'[k] = job[k]
                                \/ job[k].status # "NONE" /\ job'[k] = Failed(job[k])
  <2>1. j \in Jobs /\ rows[j] = job[j] /\ job[j].status # "NONE" /\ Failed(rows[j]) \in Job
    BY <1>r, FailedRow
  <2> HIDE DEF rows, Job, Jobs
  <2>2. /\ job' \in [Jobs -> Job] /\ job'[j] = Failed(job[j])
        /\ \A k \in Jobs \ {j} : job'[k] = rows[k]
    BY <1>2, <1>r, <2>1, Except
  <2> QED BY <1>r, <2>1, <2>2
<1>3. ASSUME NEW j \in Queued(rows), job' = [rows EXCEPT ![j] = Leased(rows[j], claimed[j] + 1)]
      PROVE  /\ j \in Queued(job) /\ rows[j] = job[j] /\ job' \in [Jobs -> Job]
             /\ job'[j] = Leased(job[j], claimed[j] + 1)
             /\ \A k \in Jobs \ {j} :
                   \/ job'[k] = job[k]
                   \/ job[k].status # "NONE" /\ job'[k] = Failed(job[k])
  <2>1. j \in Jobs /\ rows[j] = job[j] /\ job[j].attempts < 3 /\ claimed[j] + 1 \in Nat
    BY <1>r, <1>t DEF IInv, Queueing
  <2>2. job[j] \in Job
    BY <1>t, <2>1 DEF TypeOK
  <2> HIDE DEF rows, Job, Jobs
  <2>3. Leased(rows[j], claimed[j] + 1) \in Job
    BY <2>1, <2>2, LeasedRow
  <2>4. /\ job' \in [Jobs -> Job] /\ job'[j] = Leased(job[j], claimed[j] + 1)
        /\ \A k \in Jobs \ {j} : job'[k] = rows[k]
    BY <1>3, <1>r, <2>1, <2>3, Except
  <2> QED BY <1>r, <2>1, <2>4
<1>4. \/ job' = rows /\ UNCHANGED << worker, claimed >>
      \/ \E j \in Queued(rows) :
            job' = [rows EXCEPT ![j] = Failed(rows[j])] /\ UNCHANGED << worker, claimed >>
      \/ \E j \in Queued(rows) :
            /\ claimed' = [claimed EXCEPT ![j] = @ + 1]
            /\ job' = [rows EXCEPT ![j] = Leased(rows[j], claimed[j] + 1)]
            /\ \/ worker' = [Idle EXCEPT !.pc = "provision", !.job = j,
                                 !.lease = claimed[j] + 1, !.account = rows[j].account]
               \/ UNCHANGED worker
  <2>1. \A j \in Queued(rows) : j \in Jobs /\ rows[j] \in Job
    BY <1>r
  <2> HIDE DEF rows, Job, Jobs, Idle
  <2> QED BY <1>r, <2>1 DEF Claim, rows, Leased
<1>5. CASE \E j \in Queued(rows) :
            job' = [rows EXCEPT ![j] = Failed(rows[j])] /\ UNCHANGED << worker, claimed >>
  <2> HIDE DEF rows, Job, Jobs, Idle
  <2> QED BY <1>2, <1>5, <1>u
<1>6. CASE \E j \in Queued(rows) :
            /\ claimed' = [claimed EXCEPT ![j] = @ + 1]
            /\ job' = [rows EXCEPT ![j] = Leased(rows[j], claimed[j] + 1)]
            /\ \/ worker' = [Idle EXCEPT !.pc = "provision", !.job = j,
                                 !.lease = claimed[j] + 1, !.account = rows[j].account]
               \/ UNCHANGED worker
  <2> HIDE DEF rows, Job, Jobs, Idle
  <2> QED BY <1>3, <1>6, <1>u
<1> HIDE DEF rows, Job, Jobs, Idle
<1> QED BY <1>1, <1>4, <1>5, <1>6

(* A claim keeps the invariant.                                            *)
LEMMA ClaimKeeps == ASSUME IInv, Claim PROVE IInv'
<1>1. Queued(job) \subseteq Jobs /\ \A j \in Queued(job) : job[j].status = "QUEUED"
  BY DEF Queued
<1> HIDE DEF Job, Jobs, Idle, NoJob, Worker, Node, Ack
<1>2. CASE /\ UNCHANGED << worker, claimed >>
           /\ \A k \in Jobs : \/ job'[k] = job[k]
                              \/ job[k].status # "NONE" /\ job'[k] = Failed(job[k])
  BY <1>2, ClaimEffect, Failing
<1>3. ASSUME NEW j \in Queued(job),
             claimed' = [claimed EXCEPT ![j] = @ + 1],
             job'[j] = Leased(job[j], claimed[j] + 1),
             \A k \in Jobs \ {j} : \/ job'[k] = job[k]
                                   \/ job[k].status # "NONE" /\ job'[k] = Failed(job[k]),
             \/ worker' = [Idle EXCEPT !.pc = "provision", !.job = j,
                               !.lease = claimed[j] + 1, !.account = job[j].account]
             \/ UNCHANGED worker
      PROVE  IInv'
  BY <1>1, <1>3, ClaimEffect, Leasing
<1> QED BY <1>2, <1>3, ClaimEffect

(* The host runs a node for the claim the worker is at, whose job still    *)
(* waits: no other node changes, and no acknowledgement speaks of it yet.  *)
LEMMA ProvisionKeeps == ASSUME IInv, Provision PROVE IInv'
<1> DEFINE j == worker.job
           Ends(started) == worker' = [worker EXCEPT !.pc = "ack", !.started = started]
<1>0. /\ worker \in Worker /\ worker.pc = "provision" /\ worker.job \in Jobs
      /\ worker.account \in Accounts /\ worker.lease \in Nat
      /\ worker.lease = claimed[j] /\ job[j].status = "PROVISIONING"
      /\ \A a \in acks : a.job = j => a.lease < worker.lease
      /\ UNCHANGED << job, profiles, active, verifying, acks, submitted, claimed >>
      /\ node \in [Jobs -> Node]
  BY DEF Provision, IInv, TypeOK, WorkerClaim, Deploying
<1>1. \/ /\ node' = [node EXCEPT ![j] = [identity |-> worker.account, runs |-> worker.lease]]
         /\ \E started \in BOOLEAN : Ends(started)
      \/ node' = [node EXCEPT ![j].identity = worker.account] /\ Ends(FALSE)
      \/ Ends(FALSE) /\ UNCHANGED node
  BY DEF Provision
<1>2. ASSUME NEW started \in BOOLEAN, Ends(started)
      PROVE  /\ worker' \in Worker /\ worker'.pc = "ack" /\ worker'.job = worker.job
             /\ worker'.account = worker.account /\ worker'.lease = worker.lease
             /\ worker'.started = started
  <2>1. worker' \in Worker
    BY <1>0, <1>2
  <2>2. worker'.started = started
    BY <1>0, <1>2
  <2> QED BY <1>0, <1>2, <2>1, <2>2
<1>3. /\ worker' \in Worker /\ worker'.pc = "ack" /\ worker'.job = worker.job
      /\ worker'.account = worker.account /\ worker'.lease = worker.lease
      /\ node' \in [Jobs -> Node]
      /\ \A k \in Jobs \ {j} : node'[k] = node[k]
      /\ worker'.started => node'[j].runs = worker.lease
  <2>1. CASE /\ node' = [node EXCEPT ![j] = [identity |-> worker.account, runs |-> worker.lease]]
             /\ \E started \in BOOLEAN : Ends(started)
    <3>1. [identity |-> worker.account, runs |-> worker.lease] \in Node
      BY <1>0
    <3>2. /\ node' \in [Jobs -> Node] /\ \A k \in Jobs \ {j} : node'[k] = node[k]
          /\ node'[j].runs = worker.lease
      <4> HIDE DEF Node, Jobs
      <4>1. /\ node' \in [Jobs -> Node] /\ \A k \in Jobs \ {j} : node'[k] = node[k]
            /\ node'[j] = [identity |-> worker.account, runs |-> worker.lease]
        BY <1>0, <2>1, <3>1
      <4> QED BY <4>1
    <3> HIDE DEF Ends, Worker, Node, Jobs
    <3> QED BY <1>2, <2>1, <3>2
  <2>2. CASE node' = [node EXCEPT ![j].identity = worker.account] /\ Ends(FALSE)
    <3>1. \A n \in Node : [n EXCEPT !.identity = worker.account] \in Node
      BY <1>0
    <3>2. /\ node' \in [Jobs -> Node] /\ \A k \in Jobs \ {j} : node'[k] = node[k]
      <4> HIDE DEF Node, Jobs
      <4> QED BY <1>0, <2>2, <3>1
    <3> HIDE DEF Ends, Worker, Node, Jobs
    <3> QED BY <1>2, <2>2, <3>2
  <2>3. CASE Ends(FALSE) /\ UNCHANGED node
    <3> HIDE DEF Ends, Worker, Node, Jobs
    <3> QED BY <1>0, <1>2, <2>3
  <2> QED BY <1>1, <2>1, <2>2, <2>3
<1> HIDE DEF Job, Jobs, NoJob, Worker, Node, Ack, Ends
<1>4. TypeOK'
  BY <1>0, <1>3 DEF IInv, TypeOK
<1>5. /\ Named' /\ Queueing' /\ NoReplay' /\ LoginIsErased' /\ Leases'
      /\ OneProfilePerAccount'
  BY <1>0 DEF IInv, Named, Queueing, NoReplay, LoginIsErased, Leases, OneProfilePerAccount
<1>6. WorkerClaim' /\ Deploying' /\ Reporting'
  BY <1>0, <1>3 DEF IInv, WorkerClaim, Deploying, Reporting
<1>7. Reported'
  <2> SUFFICES ASSUME NEW a \in acks
               PROVE  /\ a.lease <= claimed[a.job]
                      /\ (a.started /\ a.lease = claimed[a.job]) => node'[a.job].runs = a.lease
    BY <1>0 DEF Reported
  <2>1. /\ a.job \in Jobs /\ a.lease \in Nat /\ a.lease <= claimed[a.job]
        /\ (a.started /\ a.lease = claimed[a.job]) => node[a.job].runs = a.lease
    BY DEF IInv, TypeOK, Reported, Ack
  <2>2. CASE a.job = j
    BY <1>0, <2>1, <2>2
  <2>3. CASE a.job # j
    BY <1>3, <2>1, <2>3
  <2> QED BY <2>2, <2>3
<1>8. LoginMeansStarted'
  BY <1>0, <1>3 DEF IInv, LoginMeansStarted
<1> QED BY <1>4, <1>5, <1>6, <1>7, <1>8 DEF IInv

(* An acknowledgement says what the worker knows of its own claim.         *)
LEMMA SendKeeps == ASSUME IInv, SendAck PROVE IInv'
<1> DEFINE new == [job |-> worker.job, lease |-> worker.lease, started |-> worker.started]
<1>0. /\ worker \in Worker /\ worker.pc = "ack" /\ worker.job \in Jobs
      /\ worker.lease = claimed[worker.job] /\ worker.lease \in Nat
      /\ worker.started => node[worker.job].runs = worker.lease
      /\ acks' = acks \cup {new}
      /\ UNCHANGED << job, profiles, active, verifying, worker, node, submitted, claimed >>
  BY DEF SendAck, IInv, TypeOK, WorkerClaim, Reporting
<1>1. new \in Ack /\ new.job = worker.job /\ new.lease = worker.lease /\ new.started = worker.started
  <2>1. worker.started \in BOOLEAN
    BY <1>0
  <2> QED BY <1>0, <2>1
<1> HIDE DEF Job, Jobs, NoJob, Worker, Node, Ack, new
<1>2. TypeOK'
  BY <1>0, <1>1 DEF IInv, TypeOK
<1>3. /\ Named' /\ Queueing' /\ NoReplay' /\ LoginIsErased' /\ Leases' /\ WorkerClaim'
      /\ Deploying' /\ Reporting' /\ LoginMeansStarted' /\ OneProfilePerAccount'
  BY <1>0 DEF IInv, Named, Queueing, NoReplay, LoginIsErased, Leases, WorkerClaim,
              Deploying, Reporting, LoginMeansStarted, OneProfilePerAccount
<1>4. Reported'
  <2> SUFFICES ASSUME NEW a \in acks'
               PROVE  /\ a.lease <= claimed[a.job]
                      /\ (a.started /\ a.lease = claimed[a.job]) => node[a.job].runs = a.lease
    BY <1>0 DEF Reported
  <2>1. CASE a \in acks
    BY <2>1 DEF IInv, Reported
  <2>2. CASE a = new
    BY <1>0, <1>1, <2>2
  <2> QED BY <1>0, <2>1, <2>2
<1> QED BY <1>2, <1>3, <1>4 DEF IInv

(* An idle worker owes nothing.                                            *)
LEMMA EndKeeps == ASSUME IInv, EndAck \/ WorkerRestart PROVE IInv'
<1>0. /\ worker' = Idle
      /\ UNCHANGED << job, profiles, active, verifying, acks, node, submitted, claimed >>
  BY DEF EndAck, WorkerRestart
<1>1. worker'.pc = "idle" /\ worker' \in Worker
  BY <1>0
<1> HIDE DEF Job, Jobs, NoJob, Worker, Node, Ack, Idle
<1>2. TypeOK'
  BY <1>0, <1>1 DEF IInv, TypeOK
<1>3. /\ Named' /\ Queueing' /\ NoReplay' /\ LoginIsErased' /\ Leases' /\ WorkerClaim'
      /\ Deploying' /\ Reporting' /\ Reported' /\ LoginMeansStarted' /\ OneProfilePerAccount'
  BY <1>0, <1>1 DEF IInv, Named, Queueing, NoReplay, LoginIsErased, Leases, WorkerClaim,
              Deploying, Reporting, Reported, LoginMeansStarted, OneProfilePerAccount
<1> QED BY <1>2, <1>3 DEF IInv

(* An acknowledgement counts for the lease it names only, and that is the  *)
(* last one: the worker has not claimed the job again.                     *)
LEMMA AckedRow ==
    ASSUME NEW r \in Job, NEW started \in BOOLEAN
    PROVE  /\ Acked(r, started) \in Job
           /\ Acked(r, started).status = IF started THEN "LOGIN_REQUIRED" ELSE "FAILED"
           /\ ~Acked(r, started).login
           /\ Acked(r, started).account = r.account /\ Acked(r, started).lease = None
<1>1. CASE started
  BY <1>1 DEF Acked
<1>2. CASE ~started
  BY <1>2 DEF Acked
<1> QED BY <1>1, <1>2

(* Handled or lost, an acknowledgement keeps the invariant.                *)
LEMMA NetworkKeeps ==
    ASSUME IInv, NEW a \in acks, Acknowledge(a) \/ LoseAck(a)
    PROVE  IInv'
<1>0. /\ acks' \subseteq acks
      /\ UNCHANGED << profiles, active, verifying, worker, node, submitted, claimed >>
  BY DEF Acknowledge, LoseAck
<1>t. /\ a \in Ack /\ a.job \in Jobs /\ a.lease \in Nat /\ a.started \in BOOLEAN
      /\ job \in [Jobs -> Job] /\ acks \subseteq Ack
  BY DEF IInv, TypeOK
<1> HIDE DEF Job, Jobs, NoJob, Worker, Node, Ack
<1>1. CASE UNCHANGED job
  <2>1. TypeOK'
    BY <1>0, <1>1 DEF IInv, TypeOK
  <2>2. /\ Named' /\ Queueing' /\ NoReplay' /\ LoginIsErased' /\ Leases' /\ WorkerClaim'
        /\ Deploying' /\ Reporting' /\ Reported' /\ LoginMeansStarted' /\ OneProfilePerAccount'
    BY <1>0, <1>1 DEF IInv, Named, Queueing, NoReplay, LoginIsErased, Leases, WorkerClaim,
                Deploying, Reporting, Reported, LoginMeansStarted, OneProfilePerAccount
  <2> QED BY <2>1, <2>2 DEF IInv
<1>2. CASE CurrentLease(a) /\ job' = [job EXCEPT ![a.job] = Acked(job[a.job], a.started)]
  <2> DEFINE j == a.job
  <2>1. /\ job[j].status = "PROVISIONING" /\ a.lease = claimed[j]
        /\ job[j] \in Job /\ job[j].account \in Accounts
        /\ a.started => node[j].runs = claimed[j]
    BY <1>2, <1>t DEF CurrentLease, IInv, Leases, Named, Reported
  <2>2. /\ job' \in [Jobs -> Job] /\ job'[j] = Acked(job[j], a.started)
        /\ \A k \in Jobs \ {j} : job'[k] = job[k]
    BY <1>2, <1>t, <2>1, AckedRow, Except
  <2>3. /\ job'[j].status \in {"LOGIN_REQUIRED", "FAILED"} /\ ~job'[j].login
        /\ job'[j].account \in Accounts /\ job'[j].lease = None
        /\ job'[j].status = "LOGIN_REQUIRED" => node[j].runs = claimed[j]
    BY <1>t, <2>1, <2>2, AckedRow
  <2> HIDE DEF j
  <2>4. TypeOK'
    <3>1. \A k \in Jobs : (job'[k].lease # None) = (job'[k].status = "PROVISIONING")
      BY <2>2, <2>3 DEF IInv, TypeOK
    <3> QED BY <1>0, <1>t, <2>2, <3>1 DEF IInv, TypeOK
  <2>5. Named' /\ LoginIsErased'
    BY <2>2, <2>3 DEF IInv, Named, LoginIsErased
  <2>6. Queueing' /\ Leases' /\ LoginMeansStarted'
    BY <1>0, <2>2, <2>3 DEF IInv, Queueing, Leases, LoginMeansStarted
  <2>7. NoReplay' /\ WorkerClaim' /\ Reporting' /\ Reported' /\ OneProfilePerAccount'
    BY <1>0 DEF IInv, NoReplay, WorkerClaim, Reporting, Reported, OneProfilePerAccount
  <2>8. Deploying'
    <3> SUFFICES ASSUME worker.pc = "provision"
                 PROVE  /\ job'[worker.job].status = "PROVISIONING"
                        /\ \A b \in acks : b.job = worker.job => b.lease < worker.lease
      BY <1>0 DEF Deploying
    <3>1. /\ worker.job \in Jobs /\ worker.lease = claimed[worker.job]
          /\ job[worker.job].status = "PROVISIONING"
          /\ \A b \in acks : b.job = worker.job => b.lease < worker.lease
      BY DEF IInv, Deploying, WorkerClaim
    <3>2. worker.job # j
      BY <1>t, <2>1, <3>1 DEF j
    <3> QED BY <2>2, <3>1, <3>2
  <2> QED BY <2>4, <2>5, <2>6, <2>7, <2>8 DEF IInv
<1> QED BY <1>1, <1>2 DEF Acknowledge, LoseAck

-----------------------------------------------------------------------------
(* Every step keeps the invariant.                                         *)
LEMMA Invariance == IInv /\ [Next]_vars => IInv'
<1> SUFFICES ASSUME IInv, [Next]_vars PROVE IInv'
  OBVIOUS
<1> HIDE DEF Jobs, Job, NoJob, Worker, Idle, Node, Ack
<1>1. CASE People
  <2>1. CASE \/ \E j \in Jobs, a \in Accounts : Request(j, a) \/ Amend(j, a)
             \/ \E j \in Jobs : Approve(j) \/ Reject(j) \/ Credentials(j)
    BY <2>1, PeopleKeep
  <2>2. ASSUME NEW j \in Jobs, ChangeOwner(j) PROVE IInv'
    <3>1. /\ UNCHANGED << job, host, submitted, claimed, profiles, verifying >>
          /\ active' \subseteq Jobs
      BY <2>2 DEF ChangeOwner, IInv, TypeOK
    <3>2. verifying' \in [Verifiers -> Jobs \cup {None}]
      BY <3>1 DEF IInv, TypeOK
    <3> QED BY <3>1, <3>2, Profiling
  <2>3. ASSUME NEW a \in Accounts, AssignManually(a) PROVE IInv'
    <3>1. /\ UNCHANGED << job, host, submitted, claimed, active, verifying >>
          /\ ~Registered(a) /\ profiles' = profiles \cup {<< Manual, a >>}
      BY <2>3 DEF AssignManually
    <3>2. active' \subseteq Jobs /\ verifying' \in [Verifiers -> Jobs \cup {None}]
      BY <3>1 DEF IInv, TypeOK
    <3> QED BY <3>1, <3>2, Profiling
  <2> QED BY <1>1, <2>1, <2>2, <2>3 DEF People
<1>2. CASE Verify
  BY <1>2, VerifyKeeps DEF Verify
<1>3. CASE Network
  BY <1>3, NetworkKeeps DEF Network
<1>4. CASE Claim
  BY <1>4, ClaimKeeps
<1>5. CASE Provision
  BY <1>5, ProvisionKeeps
<1>6. CASE SendAck
  BY <1>6, SendKeeps
<1>7. CASE EndAck \/ WorkerRestart
  BY <1>7, EndKeeps
<1>8. CASE \E j \in Jobs : Expire(j)
  BY <1>8, PeopleKeep
<1>9. CASE UNCHANGED vars
  <2>1. UNCHANGED << job, profiles, active, verifying, worker, acks, node, submitted, claimed >>
    BY <1>9 DEF vars
  <2>2. active' \subseteq Jobs /\ verifying' \in [Verifiers -> Jobs \cup {None}]
    BY <2>1 DEF IInv, TypeOK
  <2> QED BY <2>1, <2>2, Profiling
<1> QED BY <1>1, <1>2, <1>3, <1>4, <1>5, <1>6, <1>7, <1>8, <1>9 DEF Next

(* The inductive invariant, from which the properties follow.              *)
THEOREM Invariant == Spec => []IInv
BY Initially, Invariance, PTL DEF Spec

(* A login that an owner submitted is handed to the worker at most once    *)
(* (claim takes what is queued, and only its owner queues a job again).     *)
THEOREM LoginsAreUsedOnce == Spec => []NoReplay
<1>1. IInv => NoReplay
  BY DEF IInv
<1> QED BY Invariant, <1>1, PTL

(* A job keeps a login only while it is queued or leased, and asks its     *)
(* owner to log in only to the node its last claim started.                *)
THEOREM LoginsFollowJobs == Spec => []LoginFollowsJob
<1>1. IInv => LoginFollowsJob
  BY DEF IInv, LoginFollowsJob
<1> QED BY Invariant, <1>1, PTL

(* However verifications and manual assignments overlap, an account gets   *)
(* one profile.                                                            *)
THEOREM AccountsHaveOneProfile == Spec => []OneProfilePerAccount
<1>1. IInv => OneProfilePerAccount
  BY DEF IInv
<1> QED BY Invariant, <1>1, PTL

(* A job is claimed only while it is approved and has an attempt left.     *)
THEOREM AttemptsAreBounded == Spec => ThreeAttempts
<1> DEFINE Bounded == \A j \in Jobs : claimed'[j] > claimed[j] => job[j].attempts < 3 /\ job[j].approved
<1>1. ASSUME IInv, [Next]_vars PROVE [Bounded]_vars
  <2> HIDE DEF Jobs, Job, NoJob, Worker, Idle, Node, Ack
  <2>0. claimed \in [Jobs -> Nat]
    BY <1>1 DEF IInv, TypeOK
  <2>1. CASE Claim
    <3>1. \/ UNCHANGED claimed
          \/ \E j \in Queued(job) : claimed' = [claimed EXCEPT ![j] = @ + 1]
      BY <1>1, <2>1, ClaimEffect
    <3>2. \A j \in Queued(job) : j \in Jobs /\ job[j].attempts < 3 /\ job[j].approved
      BY <1>1 DEF Queued, IInv, Queueing
    <3>3. CASE UNCHANGED claimed
      BY <2>0, <3>3
    <3>4. CASE \E j \in Queued(job) : claimed' = [claimed EXCEPT ![j] = @ + 1]
      BY <2>0, <3>2, <3>4
    <3> QED BY <3>1, <3>3, <3>4
  <2>2. CASE Next /\ ~Claim
    <3>1. UNCHANGED claimed
      BY <2>2 DEF Next, People, Verify, Network, Request, Amend, Approve, Reject, Credentials,
         ChangeOwner, AssignManually, StartVerify, FinishVerify, Provision, SendAck, EndAck,
         Acknowledge, LoseAck, WorkerRestart, Expire, OnlyJob
    <3> QED BY <2>0, <3>1
  <2>3. CASE UNCHANGED vars
    BY <2>3
  <2> QED BY <1>1, <2>1, <2>2, <2>3
<1> QED BY <1>1, Invariant, PTL DEF Spec, ThreeAttempts

=============================================================================
