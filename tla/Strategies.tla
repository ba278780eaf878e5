--------------------------- MODULE Strategies ---------------------------
(***************************************************************************)
(* What a user trades where (app/api/routes_symbol_strategies.py,          *)
(* app/services/universe_seed.py): a row for a symbol on an account, with  *)
(* its history of revisions, edited by requests of which each reads, then  *)
(* commits; and the scan that finds the row of a symbol again in each of   *)
(* its phases (autotrade_preflight.py, safe_automation.py).                *)
(*                                                                         *)
(* The accounts are of one provider, the symbols of its markets.  WATCH    *)
(* stands for every mode that does not trade, and for a disabled row; risk *)
(* for the numbers of a row.                                               *)
(***************************************************************************)
EXTENDS Integers, FiniteSets

CONSTANTS Profiles,      \* 1, 2, ..., in the order of their labels
          Certified,     \* those of CERTIFIED_AUTOMATION_ROUTES: not Live
          Symbols,
          Jobs,
          Ceiling,       \* of the risk, at first
          MaxCalls,      \* bound: requests, and changes of an account, of a behaviour
          MaxEras,       \* bound: rows for a symbol on an account, one after the other
          None

VARIABLES
    state,        \* a profile: ready (_route_ready), offline, disabled
    ceiling,      \* RiskProfile.risk_per_trade_pct
    rows,         \* SymbolStrategy of each account and symbol
    era,          \* which row of the account and symbol this is: its id
    revisions,    \* SymbolStrategyRevision
    job,          \* a request in its thread
    scan,         \* one item of a scan
    wanted,       \* history: where its symbol was in AUTO_TRADE since its preflight
    calls

vars == <<state, ceiling, rows, era, revisions, job, scan, wanted, calls>>
table == <<rows, era, revisions>>
scanning == <<scan, wanted>>

Slots == Profiles \X Symbols
Modes == {"WATCH", "AUTO_TRADE"}
Risks == 1..Ceiling

\* known: the last revision tells the row; bulk: the promotion of all rows set
\* the mode; limit: the ceiling when the risk was written.
Row(m, k, lim) == [mode |-> m, risk |-> k, known |-> FALSE, bulk |-> FALSE, limit |-> lim]

\* A request: the row as loaded and as it is to be, and its revision; what
\* bulk requests insert and set (eras: the rows they loaded); stale: another request wrote the row since.
Idle == [kind |-> "none", slot |-> None, era |-> 0, old |-> None, new |-> None,
         number |-> 0, inserts |-> {}, autos |-> {}, eras |-> None,
         stale |-> FALSE]
NoScan == [pc |-> "idle", slot |-> None, on |-> None]

Init == /\ state = [p \in Profiles |-> "ready"] /\ ceiling = Ceiling
        /\ rows = [s \in Slots |-> None] /\ era = [s \in Slots |-> 0]
        /\ revisions = {}
        /\ job = [j \in Jobs |-> Idle]
        /\ scan = NoScan /\ wanted = {} /\ calls = 0

(***************************************************************************)
(* Reads of a request.                                                     *)
(***************************************************************************)

Begin(j, record) == /\ job[j] = Idle /\ calls < MaxCalls
                    /\ calls' = calls + 1
                    /\ job' = [job EXCEPT ![j] = record]
                    /\ UNCHANGED <<state, ceiling, table, scanning>>

Usable(p) == state[p] # "disabled"
Create(j) == \E s \in Slots, m \in Modes, k \in 1..ceiling :
    /\ Usable(s[1]) /\ rows[s] = None
    /\ Begin(j, [Idle EXCEPT !.kind = "create", !.slot = s, !.era = era[s] + 1,
                             !.new = Row(m, k, ceiling)])

Loaded(kind, s, new) == [Idle EXCEPT !.kind = kind, !.slot = s, !.era = era[s],
                                     !.old = rows[s], !.new = new]

Edits(row) == {[row EXCEPT !.mode = m] : m \in Modes}
              \cup {[row EXCEPT !.risk = k, !.limit = ceiling] : k \in 1..ceiling}

Update(j) == \E s \in Slots :
    /\ rows[s] # None /\ Usable(s[1])
    /\ \E new \in Edits(rows[s]) : Begin(j, Loaded("update", s, new))

\* Mutant: what a revision holds was checked when it was made.
NoCeiling(r) == TRUE
WithinCeiling(r) == r.risk <= ceiling

Rollback(j) == \E s \in Slots, r \in revisions :
    /\ rows[s] # None /\ r.slot = s /\ r.era = era[s] /\ Usable(s[1])
    /\ WithinCeiling(r)
    /\ Begin(j, Loaded("rollback", s, [rows[s] EXCEPT !.mode = r.mode, !.risk = r.risk,
                                                      !.limit = ceiling]))

Delete(j) == \E s \in Slots : rows[s] # None /\ Begin(j, Loaded("delete", s, rows[s]))

\* _record_revision: the next number, read after the row.
RecordRevision(j) == /\ job[j].kind \in {"update", "rollback", "delete"} /\ job[j].number = 0
                     /\ LET mine == {r \in revisions : r.slot = job[j].slot /\ r.era = job[j].era}
                            of == {r.number : r \in mine}
                            last == CHOOSE n \in {0} \cup of : \A x \in of : x <= n IN
                        job' = [job EXCEPT ![j].number = last + 1]
                     /\ UNCHANGED <<state, ceiling, table, scanning, calls>>

(***************************************************************************)
(* The two seeds and the promotion: they read the accounts and the rows,   *)
(* then commit once; the validated seed asks the brokers in between.       *)
(***************************************************************************)

\* select_execution_route: the first that is ready, or 0.
Route == LET able == {p \in Profiles : state[p] = "ready"} IN
         IF able = {} THEN 0 ELSE CHOOSE p \in able : \A q \in able : p <= q

Missing == {x \in Symbols : \A p \in Profiles : rows[<<p, x>>] = None}

\* Those the broker does not know are skipped.
Seed(j) == \E found \in SUBSET Missing :
    /\ Route # 0
    /\ Begin(j, [Idle EXCEPT !.kind = "seed", !.inserts = {<<Route, x>> : x \in found}])

\* Mutant: the account that is checked is the one the route of the market selects.
PromotableByRoute(s) == Route \in Certified
Promotable(s) == s[1] \in Certified /\ state[s[1]] = "ready"

\* Of several rows of a symbol the one read last stands for the symbol.
Promote(j) == \E chosen \in SUBSET {s \in Slots : rows[s] # None} :
    /\ \A x \in Symbols \ Missing : Cardinality({s \in chosen : s[2] = x}) = 1
    /\ LET fresh == IF Route \in Certified THEN {<<Route, x>> : x \in Missing} ELSE {} IN
       Begin(j, [Idle EXCEPT !.kind = "promote", !.inserts = fresh,
                             !.autos = {s \in chosen : Promotable(s) /\ rows[s].mode = "WATCH"},
                             !.eras = era])

(***************************************************************************)
(* Commit: every write of the request, or none.                            *)
(***************************************************************************)

There(j) == rows[job[j].slot] # None /\ era[job[j].slot] = job[j].era

\* The fields that the request changed are written, the others are as they are.
Dirty(old, new) == old.mode # new.mode \/ old.risk # new.risk
Merged(row, old, new) ==
    [row EXCEPT !.mode = IF old.mode # new.mode THEN new.mode ELSE @,
                !.bulk = IF old.mode # new.mode THEN FALSE ELSE @,
                !.risk = IF old.risk # new.risk THEN new.risk ELSE @,
                !.limit = IF old.risk # new.risk THEN new.limit ELSE @]

\* Mutant: no unique constraint on the number of a revision.
NeverTaken(j) == FALSE
Taken(j) == \E r \in revisions : /\ r.slot = job[j].slot /\ r.era = job[j].era
                                 /\ r.number = job[j].number

\* uq_symbol_strategy_scope, uq_symbol_strategy_revision_number, and an UPDATE
\* that matches no row.
Fails(j) == CASE job[j].kind = "create" -> rows[job[j].slot] # None
              [] job[j].kind \in {"update", "rollback"} ->
                     Taken(j) \/ (Dirty(job[j].old, job[j].new) /\ ~There(j))
              [] job[j].kind = "delete" -> Taken(j)
              [] OTHER -> \/ \E s \in job[j].inserts : rows[s] # None
                          \/ \E s \in job[j].autos : rows[s] = None \/ era[s] # job[j].eras[s]

Ready(j) == /\ job[j].kind # "none"
            /\ job[j].kind \in {"update", "rollback", "delete"} => job[j].number # 0

\* Mutant: the revision holds the row as it was loaded.
SnapshotOfOld(j) == IF job[j].old = None THEN job[j].new ELSE job[j].old
Snapshot(j) == job[j].new

Revision(j, n) == [slot |-> job[j].slot, era |-> job[j].era, number |-> n,
                   mode |-> Snapshot(j).mode, risk |-> Snapshot(j).risk]

Written(j) == CASE job[j].kind \in {"create", "update", "rollback", "delete"} -> {job[j].slot}
                [] OTHER -> job[j].inserts \cup job[j].autos

\* The other requests that loaded a row which is now another.
Marked(j) == [i \in Jobs |->
    IF i = j THEN Idle
    ELSE IF job[i].slot \in Written(j) THEN [job[i] EXCEPT !.stale = TRUE] ELSE job[i]]

CommitCreate(j) == /\ job[j].kind = "create"
                   /\ rows' = [rows EXCEPT ![job[j].slot] = [job[j].new EXCEPT !.known = TRUE]]
                   /\ era' = [era EXCEPT ![job[j].slot] = @ + 1]
                   /\ revisions' = revisions \cup {[Revision(j, 1) EXCEPT !.era = era'[job[j].slot]]}

CommitEdit(j) ==
    /\ job[j].kind \in {"update", "rollback"}
    /\ rows' = [rows EXCEPT ![job[j].slot] =
                   IF There(j) THEN [Merged(@, job[j].old, job[j].new) EXCEPT !.known = ~job[j].stale]
                   ELSE @]
    /\ revisions' = revisions \cup {Revision(j, job[j].number)}
    /\ UNCHANGED era

\* Deleting a row that is gone is no error.
CommitDelete(j) == /\ job[j].kind = "delete"
                   /\ rows' = [rows EXCEPT ![job[j].slot] = IF There(j) THEN None ELSE @]
                   /\ revisions' = revisions \cup {Revision(j, job[j].number)}
                   /\ UNCHANGED era

\* No revision is recorded.
CommitBulk(j) ==
    /\ job[j].kind \in {"seed", "promote"}
    /\ LET bulk == job[j].kind = "promote"
           row == Row(IF bulk THEN "AUTO_TRADE" ELSE "WATCH", 1, ceiling) IN
       rows' = [s \in Slots |->
                   IF s \in job[j].inserts THEN [row EXCEPT !.bulk = bulk]
                   ELSE IF s \in job[j].autos
                   THEN [rows[s] EXCEPT !.mode = "AUTO_TRADE", !.bulk = TRUE, !.known = FALSE]
                   ELSE rows[s]]
    /\ era' = [s \in Slots |-> IF s \in job[j].inserts THEN era[s] + 1 ELSE era[s]]
    /\ UNCHANGED revisions

Trading(found, x) ==
    {p \in Profiles : found[<<p, x>>] # None /\ found[<<p, x>>].mode = "AUTO_TRADE"}

Commit(j) == /\ Ready(j)
             /\ IF Fails(j) THEN job' = [job EXCEPT ![j] = Idle] /\ UNCHANGED <<table, wanted>>
                ELSE /\ CommitCreate(j) \/ CommitEdit(j) \/ CommitDelete(j) \/ CommitBulk(j)
                     /\ job' = Marked(j)
                     /\ wanted' = IF scan.pc \in {"idle", "approved"} THEN {}
                                  ELSE wanted \cup Trading(rows', scan.slot[2])
             /\ \A s \in Slots : era'[s] <= MaxEras
             /\ UNCHANGED <<state, ceiling, scan, calls>>

(***************************************************************************)
(* The accounts, and the limit of the administrator.                       *)
(***************************************************************************)

Account(p) == /\ calls < MaxCalls /\ calls' = calls + 1
              /\ \E x \in {"ready", "offline", "disabled"} \ {state[p]} :
                     state' = [state EXCEPT ![p] = x]
              /\ UNCHANGED <<ceiling, table, job, scanning>>

SetCeiling(c) == /\ ceiling # c /\ ceiling' = c
                 /\ UNCHANGED <<state, table, job, scanning, calls>>

(***************************************************************************)
(* A scan: readiness goes through the rows, preflight and execution look   *)
(* for the symbol.                                                         *)
(***************************************************************************)

Approve(s) == /\ scan.pc = "idle" /\ rows[s] # None /\ rows[s].mode = "AUTO_TRADE"
              /\ Promotable(s)
              /\ scan' = [pc |-> "approved", slot |-> s, on |-> None]
              /\ UNCHANGED <<state, ceiling, table, job, wanted, calls>>

EndScan == /\ scan.pc # "idle" /\ scan' = NoScan /\ wanted' = {}
           /\ UNCHANGED <<state, ceiling, table, job, calls>>

\* Any row of the symbol, traded or not, says which account is asked.
Check(s) == /\ scan.pc = "approved" /\ s[2] = scan.slot[2] /\ rows[s] # None
            /\ state[s[1]] = "ready"
            /\ scan' = [scan EXCEPT !.pc = "checked"]
            /\ wanted' = Trading(rows, s[2])
            /\ UNCHANGED <<state, ceiling, table, job, calls>>

\* Mutant: the lookup of _profile_for_item, which does not ask for the mode.
AnyRow(s) == rows[s] # None
TradedRow(s) == rows[s] # None /\ rows[s].mode = "AUTO_TRADE"

Execute(s) == /\ scan.pc = "checked" /\ s[2] = scan.slot[2] /\ TradedRow(s)
              /\ s[1] \in Certified /\ state[s[1]] = "ready"
              /\ scan' = [scan EXCEPT !.pc = "ordered", !.on = s[1]]
              /\ UNCHANGED <<state, ceiling, table, job, wanted, calls>>

Next == \/ \E j \in Jobs : \/ Create(j) \/ Update(j) \/ Rollback(j) \/ Delete(j)
                           \/ RecordRevision(j) \/ Seed(j) \/ Promote(j) \/ Commit(j)
        \/ \E p \in Profiles : Account(p)
        \/ \E c \in Risks : SetCeiling(c)
        \/ \E s \in Slots : Approve(s) \/ Check(s) \/ Execute(s)
        \/ EndScan

(***************************************************************************)
(* Properties.                                                             *)
(***************************************************************************)

TypeOK == /\ state \in [Profiles -> {"ready", "offline", "disabled"}]
          /\ ceiling \in 1..Ceiling /\ era \in [Slots -> 0..MaxEras]
          /\ \A s \in Slots : rows[s] # None => rows[s].mode \in Modes /\ rows[s].risk \in Risks
          /\ scan.pc \in {"idle", "approved", "checked", "ordered"}

\* The last revision of a row tells its configuration, unless the row came from
\* a bulk request or was last written by two requests at the same time.
HistoryTellsRow == \A s \in Slots : rows[s] # None /\ rows[s].known =>
    \E r \in revisions : /\ r.slot = s /\ r.era = era[s]
                         /\ r.mode = rows[s].mode /\ r.risk = rows[s].risk
                         /\ \A x \in revisions : x.slot = s /\ x.era = era[s] => x.number <= r.number

\* Two revisions of a row have two numbers: a rollback restores the one asked for.
NumbersAreUnique == \A r1, r2 \in revisions :
    r1.slot = r2.slot /\ r1.era = r2.era /\ r1.number = r2.number => r1 = r2

\* The bulk promotion never leaves an account that is not certified in AUTO_TRADE.
BulkNeverLive == \A s \in Slots : rows[s] # None /\ rows[s].bulk /\ rows[s].mode = "AUTO_TRADE"
                                  => s[1] \in Certified

\* No request writes a risk above the limit it read, a rollback to an older
\* revision neither.
RiskWasAllowed == \A s \in Slots : rows[s] # None => rows[s].risk <= rows[s].limit

\* An order goes to an account that is certified and on which the symbol was in
\* AUTO_TRADE at some time since the preflight, whatever rows changed.
OrderIsWanted == scan.pc = "ordered" => scan.on \in wanted /\ scan.on \in Certified
=============================================================================
