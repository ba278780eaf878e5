--------------------------- MODULE IbkrLifecycle ---------------------------
(***************************************************************************)
(* The audited IBKR Paper trading cycle with broker-held protection        *)
(* switched off: automation scans that open positions                      *)
(* (safe_automation.py), the position manager that reconciles and closes   *)
(* them (ibkr_position_manager.py), the client that submits orders         *)
(* (ibkr_bridge.py, execution_guard.py), the automation_actions table, the *)
(* operator's controls, and, as the environment, the bridge and broker.    *)
(*                                                                         *)
(* All workers are tasks of one asyncio process.  An action is the code    *)
(* between two awaits: nothing else in the process runs inside it, and     *)
(* anything may run between two of them.                                   *)
(*                                                                         *)
(* Abstracted: quantities are small integers and every entry asks for Qty  *)
(* units; a BLOCK that precedes the intent leaves no row (nothing reads    *)
(* such rows); one user, one IBKR profile and one account.                 *)
(***************************************************************************)
EXTENDS Integers, FiniteSets

CONSTANTS
    Symbols,      \* canonical symbols in AUTO_TRADE mode
    Scans,        \* concurrent calls of run_safe_scan: the loop and scan-now
    Manager,      \* the position manager, as the holder of a reservation
    RowIds,       \* automation_actions ids (bounds the intents and exits)
    OrderIds,     \* broker order ids (bounds the orders)
    Sides,        \* entry directions: 1 is BUY, -1 is SELL
    Qty,          \* units an entry asks for
    MaxClock,     \* bound on distinct transaction start times
    MaxChanges,   \* bound on operator control changes
    MaxFaults,    \* bound on failed reads, lost posts and process restarts
    MaxManual,    \* bound on the operator's own trades on the account
    None          \* NULL

ASSUME SidesAssumption == Sides \subseteq {1, -1}
ASSUME QtyAssumption == Qty \in Nat \ {0}
ASSUME BoundsAssumption ==
    /\ MaxClock \in Nat \ {0}
    /\ MaxChanges \in Nat /\ MaxFaults \in Nat /\ MaxManual \in Nat
ASSUME NamesAssumption ==
    /\ Manager \notin Scans
    /\ None \notin Symbols \cup Scans \cup {Manager} \cup RowIds \cup OrderIds

VARIABLES
    gate,       \* automation_state: enabled, killed, auto (auto_execute_paper)
    ready,      \* owner, profile and strategy still allow automatic trading
    rows,       \* committed automation_actions
    orders,     \* orders as the broker holds them, posts under way included
    position,   \* broker position of each symbol, signed
    guard,      \* reserve_execution: holder of each symbol's slot
    scan,       \* program state of each scan
    pm,         \* program state of the position manager
    clock,      \* latest transaction start time in use
    opener,     \* history: the row whose order last moved a flat position
    moved,      \* history: symbols traded behind ATLAS's back, see PostClose
    changes, faults, manual   \* what the bounds count

vars == << gate, ready, rows, orders, position, guard, scan, pm, clock,
           opener, moved, changes, faults, manual >>
bounds == << changes, faults, manual >>
broker == << orders, position, opener, moved >>

-----------------------------------------------------------------------------
(* Tables and program states.                                              *)

RowStatus == {"UNUSED", "SUBMITTED", "EXECUTED", "CANCELLED", "BLOCK",
              "EXIT_SUBMITTED", "EXIT_EXECUTED"}
Row == [status : RowStatus, sym : Symbols \cup {None}, side : {1, -1},
        oid : OrderIds \cup {None}, stamp : Nat]
NoRow == [status |-> "UNUSED", sym |-> None, side |-> 1, oid |-> None,
          stamp |-> 0]

(* inflight: posted, not yet at the broker.  known: the Gateway still      *)
(* reports the order and its executions.  row: the entry it was sent for,  *)
(* None for a close (the broker does not store it).                        *)
OrderState == {"unused", "inflight", "working", "filled", "cancelled",
               "refused", "lost"}
Order == [st : OrderState, sym : Symbols \cup {None}, side : {1, -1},
          qty : Nat, filled : Nat, row : RowIds \cup {None}, known : BOOLEAN]
NoOrder == [st |-> "unused", sym |-> None, side |-> 1, qty |-> 0,
            filled |-> 0, row |-> None, known |-> TRUE]

(* Where a scan waits.  stamp is its open transaction's start, 0 if none.  *)
ScanPC == {"idle", "items", "positions", "orders", "check",
           "positions2", "orders2", "account", "post", "verify"}
Scan == [pc : ScanPC, todo : SUBSET Symbols, sym : Symbols \cup {None},
         row : RowIds \cup {None}, oid : OrderIds \cup {None}, stamp : Nat]
NoScan == [pc |-> "idle", todo |-> {}, sym |-> None, row |-> None,
           oid |-> None, stamp |-> 0]

(* dirty: rows this pass has marked reconciled and not committed.          *)
(* snap: the positions it read.                                            *)
PmPC == {"idle", "executions", "positions", "loop", "status", "signal",
         "positions2", "orders2", "check", "post", "verify"}
Pass == [pc : PmPC, dirty : SUBSET RowIds, snap : [Symbols -> Int],
         todo : SUBSET Symbols, sym : Symbols \cup {None},
         entry : RowIds \cup {None}, oid : OrderIds \cup {None}, stamp : Nat]
NoPass == [pc |-> "idle", dirty |-> {}, snap |-> [s \in Symbols |-> 0],
           todo |-> {}, sym |-> None, entry |-> None, oid |-> None,
           stamp |-> 0]

TypeOK ==
    /\ gate \in [enabled : BOOLEAN, killed : BOOLEAN, auto : BOOLEAN]
    /\ ready \in BOOLEAN
    /\ rows \in [RowIds -> Row]
    /\ orders \in [OrderIds -> Order]
    /\ position \in [Symbols -> Int]
    /\ guard \in [Symbols -> Scans \cup {Manager, None}]
    /\ scan \in [Scans -> Scan]
    /\ pm \in Pass
    /\ clock \in Nat
    /\ opener \in [Symbols -> RowIds \cup {None}]
    /\ moved \subseteq Symbols
    /\ changes \in Nat /\ faults \in Nat /\ manual \in Nat

Init ==
    /\ gate = [enabled |-> TRUE, killed |-> FALSE, auto |-> TRUE]
    /\ ready = TRUE
    /\ rows = [r \in RowIds |-> NoRow]
    /\ orders = [o \in OrderIds |-> NoOrder]
    /\ position = [s \in Symbols |-> 0]
    /\ guard = [s \in Symbols |-> None]
    /\ scan = [s \in Scans |-> NoScan]
    /\ pm = NoPass
    /\ clock = 1
    /\ opener = [s \in Symbols |-> None]
    /\ moved = {}
    /\ changes = 0 /\ faults = 0 /\ manual = 0

-----------------------------------------------------------------------------
(* What the code reads.                                                    *)

GateOpen == gate.enabled /\ ~gate.killed /\ gate.auto
Authorized == GateOpen /\ ready

(* Mutant: an unresolved entry does not count as a pending submission.     *)
PendingExitOnly(sym) ==
    \E r \in RowIds : rows[r].sym = sym /\ rows[r].status = "EXIT_SUBMITTED"

(* Mutant: only submissions whose order id is known count.                 *)
PendingWithId(sym) ==
    \E r \in RowIds : /\ rows[r].sym = sym /\ rows[r].oid # None
                      /\ rows[r].status \in {"SUBMITTED", "EXIT_SUBMITTED"}

Pending(sym) ==
    \E r \in RowIds : /\ rows[r].sym = sym
                      /\ rows[r].status \in {"SUBMITTED", "EXIT_SUBMITTED"}

(* Mutant: an order nothing of which is filled does not count as open.     *)
OpenOrderIfFilling(sym) ==
    \E o \in OrderIds : /\ orders[o].sym = sym /\ orders[o].st = "working"
                        /\ orders[o].filled > 0

OpenOrder(sym) ==
    \E o \in OrderIds : orders[o].sym = sym /\ orders[o].st = "working"

(* created_at is now(), which PostgreSQL fixes when the transaction        *)
(* starts.  A start time nobody carries can be taken again; at the bound   *)
(* start times coincide.                                                   *)
StampInUse ==
    \/ \E r \in RowIds : rows[r].stamp = clock
    \/ \E s \in Scans : scan[s].stamp = clock
    \/ pm.stamp = clock
Tick == IF StampInUse /\ clock < MaxClock THEN clock + 1 ELSE clock

(* The transaction a worker inserts in: the one it has open or a new one.  *)
StampOf(open) == IF open # 0 THEN open ELSE Tick

(* A row as the manager's session sees it: its own flushed changes too.    *)
Seen(r) == IF r \in pm.dirty THEN "EXECUTED" ELSE rows[r].status

(* Rows _latest_entry orders by created_at, and the latest of them (one,   *)
(* unless start times coincide).                                           *)
Finished(sym) ==
    {r \in RowIds : /\ rows[r].sym = sym
                    /\ Seen(r) \in {"EXECUTED", "EXIT_EXECUTED"}}
Latest(sym) ==
    {r \in Finished(sym) : \A q \in Finished(sym) : rows[q].stamp <= rows[r].stamp}

SubmittedEntries ==
    {r \in RowIds : Seen(r) = "SUBMITTED" /\ rows[r].oid # None}

Complete(o) == orders[o].st = "filled" /\ orders[o].known

-----------------------------------------------------------------------------
(* Automation scans: run_safe_scan and the audited IBKR entry.             *)

GoTo(s, pc) == scan' = [scan EXCEPT ![s].pc = pc]

(* Leave the item: the reservation is released, the commit ends the        *)
(* transaction and the scan turns to its next item.                        *)
LeaveItem(s, sym) ==
    /\ scan' = [scan EXCEPT ![s] =
                   [NoScan EXCEPT !.pc = "items", !.todo = scan[s].todo \ {sym}]]
    /\ guard' = [guard EXCEPT ![sym] = IF @ = s THEN None ELSE @]

(* Mutant: the action's own id is saved as the broker's order id.          *)
RecordActionId(s, status, oid) ==
    /\ rows' = [rows EXCEPT ![scan[s].row].status = status,
                            ![scan[s].row].oid = scan[s].row]
    /\ LeaveItem(s, scan[s].sym)

(* The result is written over the intent's row.                            *)
Record(s, status, oid) ==
    /\ rows' = [rows EXCEPT ![scan[s].row].status = status,
                            ![scan[s].row].oid = oid]
    /\ LeaveItem(s, scan[s].sym)

(* Mutant: any exception releases the intent as a BLOCK.                   *)
UnresolvedBlocks(s) == Record(s, "BLOCK", None)

(* Any exception out of _execute_ibkr keeps the intent, with no order id.  *)
Unresolved(s) == Record(s, "SUBMITTED", None)

CountFault == faults < MaxFaults /\ faults' = faults + 1

StartScan(s) ==
    /\ scan[s].pc = "idle"
    /\ GateOpen
    /\ clock' = Tick
    /\ scan' = [scan EXCEPT ![s] = [NoScan EXCEPT !.pc = "items",
                                        !.todo = Symbols, !.stamp = Tick]]
    /\ UNCHANGED << gate, ready, rows, broker, guard, pm, bounds >>

(* The items left did not pass the preflight, which only reads.            *)
FinishScan(s) ==
    /\ scan[s].pc = "items"
    /\ scan' = [scan EXCEPT ![s] = NoScan]
    /\ UNCHANGED << gate, ready, rows, broker, guard, pm, clock, bounds >>

(* Under the profile's row lock, with no await: look for a pending         *)
(* submission, read the controls again, commit the intent.                 *)
BeginEntry(s, sym) ==
    /\ scan[s].pc = "items" /\ sym \in scan[s].todo
    /\ \/ /\ Pending(sym) \/ ~Authorized
          /\ LeaveItem(s, sym)
          /\ UNCHANGED << rows, clock >>
       \/ /\ ~Pending(sym) /\ Authorized
          /\ \E r \in RowIds, d \in Sides :
                LET stamp == StampOf(scan[s].stamp) IN
                /\ rows[r].status = "UNUSED"
                /\ rows' = [rows EXCEPT ![r] =
                               [status |-> "SUBMITTED", sym |-> sym, side |-> d,
                                oid |-> None, stamp |-> stamp]]
                /\ clock' = IF stamp > clock THEN stamp ELSE clock
                /\ scan' = [scan EXCEPT ![s].pc = "positions", ![s].sym = sym,
                                        ![s].row = r, ![s].stamp = 0]
          /\ UNCHANGED guard
    /\ UNCHANGED << gate, ready, broker, pm, bounds >>

(* _execute_ibkr blocks on a position, an open order, or on what the model *)
(* leaves out: the bridge's health, the proposal, market data, What-If.    *)
RefuseEntry(s) ==
    /\ scan[s].pc \in {"positions", "orders", "check"}
    /\ Record(s, "BLOCK", None)
    /\ UNCHANGED << gate, ready, broker, pm, clock, bounds >>

ReadPositions(s) ==
    /\ scan[s].pc = "positions"
    /\ position[scan[s].sym] = 0
    /\ GoTo(s, "orders")
    /\ UNCHANGED << gate, ready, rows, broker, guard, pm, clock, bounds >>

ReadOrders(s) ==
    /\ scan[s].pc = "orders"
    /\ ~OpenOrder(scan[s].sym)
    /\ GoTo(s, "check")
    /\ UNCHANGED << gate, ready, rows, broker, guard, pm, clock, bounds >>

(* The controls once more, then place_order takes the symbol's slot; a     *)
(* slot that is taken raises.                                              *)
ReserveEntry(s) ==
    LET sym == scan[s].sym IN
    /\ scan[s].pc = "check"
    /\ \/ /\ ~Authorized
          /\ Record(s, "BLOCK", None)
       \/ /\ Authorized /\ guard[sym] # None
          /\ Unresolved(s)
       \/ /\ Authorized /\ guard[sym] = None
          /\ guard' = [guard EXCEPT ![sym] = s]
          /\ GoTo(s, "positions2")
          /\ UNCHANGED rows
    /\ UNCHANGED << gate, ready, broker, pm, clock, bounds >>

(* The client's own reads: a position or an open order raises.             *)
RereadPositions(s) ==
    /\ scan[s].pc = "positions2"
    /\ \/ /\ position[scan[s].sym] # 0
          /\ Unresolved(s)
       \/ /\ position[scan[s].sym] = 0
          /\ GoTo(s, "orders2")
          /\ UNCHANGED << rows, guard >>
    /\ UNCHANGED << gate, ready, broker, pm, clock, bounds >>

(* With the orders' answer and no await between: before_submit.            *)
RereadOrders(s) ==
    /\ scan[s].pc = "orders2"
    /\ \/ /\ OpenOrder(scan[s].sym)
          /\ Unresolved(s)
       \/ /\ ~OpenOrder(scan[s].sym) /\ ~Authorized
          /\ Record(s, "BLOCK", None)
       \/ /\ ~OpenOrder(scan[s].sym) /\ Authorized
          /\ GoTo(s, "account")
          /\ UNCHANGED << rows, guard >>
    /\ UNCHANGED << gate, ready, broker, pm, clock, bounds >>

(* A post leaves for the bridge.                                           *)
Post(o, sym, side, qty, row) ==
    /\ orders[o].st = "unused"
    /\ orders' = [orders EXCEPT ![o] =
                     [st |-> "inflight", sym |-> sym, side |-> side, qty |-> qty,
                      filled |-> 0, row |-> row, known |-> TRUE]]

(* _post reads /account before it posts.                                   *)
PostEntry(s) ==
    /\ scan[s].pc = "account"
    /\ \E o \in OrderIds :
          /\ Post(o, scan[s].sym, rows[scan[s].row].side, Qty, scan[s].row)
          /\ scan' = [scan EXCEPT ![s].pc = "post", ![s].oid = o]
    /\ UNCHANGED << gate, ready, rows, position, opener, moved, guard, pm, clock,
                    bounds >>

Answered(o) == orders[o].st \in {"working", "filled", "cancelled"}

(* Mutant: the order id is saved as soon as the post is answered.          *)
PostAnsweredSavesId(s) ==
    LET sym == scan[s].sym
        o == scan[s].oid
    IN
    /\ scan[s].pc = "post"
    /\ \/ /\ Answered(o)
          /\ guard' = [guard EXCEPT ![sym] = None]
          /\ GoTo(s, "verify")
          /\ rows' = [rows EXCEPT ![scan[s].row].oid = o]
       \/ /\ orders[o].st = "refused"
          /\ Record(s, "BLOCK", None)
       \/ /\ orders[o].st \in {"refused", "lost"}
          /\ Unresolved(s)
    /\ UNCHANGED << gate, ready, broker, pm, clock, bounds >>

(* An answer that says accepted: false releases the intent; an HTTP error, *)
(* or none at all, does not.                                               *)
PostAnswered(s) ==
    LET sym == scan[s].sym
        o == scan[s].oid
    IN
    /\ scan[s].pc = "post"
    /\ \/ /\ Answered(o)
          /\ guard' = [guard EXCEPT ![sym] = None]
          /\ GoTo(s, "verify")
          /\ UNCHANGED rows
       \/ /\ orders[o].st = "refused"
          /\ Record(s, "BLOCK", None)
       \/ /\ orders[o].st \in {"refused", "lost"}
          /\ Unresolved(s)
    /\ UNCHANGED << gate, ready, broker, pm, clock, bounds >>

(* Up to six status reads.  A read that fails, a partial fill and a fill   *)
(* that comes late all leave the intent unresolved, with its order id.     *)
VerifyFill(s) ==
    LET o == scan[s].oid IN
    /\ scan[s].pc = "verify"
    /\ \/ Complete(o) /\ Record(s, "EXECUTED", o)
       \/ /\ orders[o].st = "cancelled" /\ orders[o].known
          /\ orders[o].filled = 0
          /\ Record(s, "CANCELLED", o)
       \/ Record(s, "SUBMITTED", o)
    /\ UNCHANGED << gate, ready, broker, pm, clock, bounds >>

(* Mutant: a post that times out is recorded as a BLOCK.                   *)
EntryFaultBlocks(s) ==
    /\ scan[s].pc = "post"
    /\ CountFault
    /\ Record(s, "BLOCK", None)
    /\ UNCHANGED << gate, ready, broker, pm, clock, changes, manual >>

(* A read or a post that raises: timeouts included, whatever became of it. *)
EntryFault(s) ==
    /\ scan[s].pc \in {"positions", "orders", "check", "positions2", "orders2",
                       "account", "post"}
    /\ CountFault
    /\ Unresolved(s)
    /\ UNCHANGED << gate, ready, broker, pm, clock, changes, manual >>

-----------------------------------------------------------------------------
(* The position manager: run_ibkr_position_manager, native protection off. *)

PmUnchanged == UNCHANGED << gate, ready, scan, bounds >>

(* What commit() writes of this pass.                                      *)
Committed == [r \in RowIds |-> IF r \in pm.dirty
                               THEN [rows[r] EXCEPT !.status = "EXECUTED"]
                               ELSE rows[r]]

(* Mutant: the reservation outlives the pass that failed.                  *)
FailPassKeepsGuard ==
    /\ pm' = NoPass
    /\ UNCHANGED << rows, clock, guard >>

(* An exception out of the pass: rollback() forgets what it reconciled and *)
(* the reservation is released.                                            *)
FailPass ==
    /\ pm' = NoPass
    /\ guard' = [s \in Symbols |-> IF guard[s] = Manager THEN None ELSE guard[s]]
    /\ UNCHANGED << rows, clock >>

(* The loop waits 30 s between passes: by then the bridge has handled, or  *)
(* will never handle, a close that an earlier pass posted.                 *)
StartPass ==
    /\ pm.pc = "idle"
    /\ GateOpen /\ ready
    /\ \A o \in OrderIds : orders[o].row = None => orders[o].st # "inflight"
    /\ clock' = Tick
    /\ pm' = [NoPass EXCEPT !.pc = "executions", !.stamp = Tick]
    /\ PmUnchanged /\ UNCHANGED << rows, broker, guard >>

(* Execution history that adds up to the quantity proves the fill.         *)
ReconcileExecutions ==
    /\ pm.pc = "executions"
    /\ pm' = [pm EXCEPT !.pc = "positions",
                        !.dirty = {r \in SubmittedEntries : Complete(rows[r].oid)}]
    /\ PmUnchanged /\ UNCHANGED << rows, broker, guard, clock >>

(* Mutant: the direction of the position alone proves the fill.            *)
FallbackByDirection(r) ==
    /\ \A q \in SubmittedEntries : rows[q].sym = rows[r].sym => q = r
    /\ position[rows[r].sym] * rows[r].side > 0

(* Mutant: the fallback asks the execution history again.                  *)
FallbackByExecutions(r) == Complete(rows[r].oid)

(* Failing that, the only unresolved entry of a symbol whose position has  *)
(* its direction and quantity.                                             *)
FallbackProven(r) ==
    /\ \A q \in SubmittedEntries : rows[q].sym = rows[r].sym => q = r
    /\ position[rows[r].sym] = rows[r].side * Qty

ReconcilePositions ==
    /\ pm.pc = "positions"
    /\ pm' = [pm EXCEPT !.pc = "loop", !.snap = position,
                        !.todo = {s \in Symbols : position[s] # 0},
                        !.dirty = @ \cup {r \in SubmittedEntries : FallbackProven(r)}]
    /\ PmUnchanged /\ UNCHANGED << rows, broker, guard, clock >>

SameDirection(r, qty) == rows[r].side * qty > 0

Skip(sym) == pm' = [pm EXCEPT !.pc = "loop", !.todo = @ \ {sym}, !.sym = None,
                              !.entry = None]

(* EXIT_BLOCKED unless the latest finished row is an entry of the          *)
(* position's direction; AUTO_TRADE may have been taken away.              *)
CheckOwnership(sym) ==
    /\ pm.pc = "loop" /\ sym \in pm.todo
    /\ \/ /\ Latest(sym) = {} \/ ~ready
          /\ Skip(sym)
       \/ \E r \in Latest(sym) :
             IF /\ ready /\ Seen(r) = "EXECUTED" /\ rows[r].oid # None
                /\ SameDirection(r, pm.snap[sym])
             THEN pm' = [pm EXCEPT !.pc = "status", !.sym = sym, !.entry = r]
             ELSE Skip(sym)
    /\ PmUnchanged /\ UNCHANGED << rows, broker, guard, clock >>

(* The broker says filled, or says nothing and the row and the position    *)
(* agree on direction and quantity.                                        *)
FillVerified(r, qty) ==
    LET o == rows[r].oid IN
    IF orders[o].known THEN orders[o].st = "filled"
                       ELSE qty = rows[r].side * Qty

CheckEntryFill ==
    /\ pm.pc = "status"
    /\ IF FillVerified(pm.entry, pm.snap[pm.sym])
       THEN pm' = [pm EXCEPT !.pc = "signal"]
       ELSE Skip(pm.sym)
    /\ PmUnchanged /\ UNCHANGED << rows, broker, guard, clock >>

Hold ==
    /\ pm.pc = "signal"
    /\ Skip(pm.sym)
    /\ PmUnchanged /\ UNCHANGED << rows, broker, guard, clock >>

(* A strong opposite signal: close_position takes the symbol's slot.       *)
ReserveClose ==
    /\ pm.pc = "signal"
    /\ \/ guard[pm.sym] # None /\ FailPass
       \/ /\ guard[pm.sym] = None
          /\ guard' = [guard EXCEPT ![pm.sym] = Manager]
          /\ pm' = [pm EXCEPT !.pc = "positions2"]
          /\ UNCHANGED << rows, clock >>
    /\ PmUnchanged /\ UNCHANGED broker

CloseRereadPositions ==
    /\ pm.pc = "positions2"
    /\ \/ position[pm.sym] # pm.snap[pm.sym] /\ FailPass
       \/ /\ position[pm.sym] = pm.snap[pm.sym]
          /\ pm' = [pm EXCEPT !.pc = "orders2"]
          /\ UNCHANGED << rows, guard, clock >>
    /\ PmUnchanged /\ UNCHANGED broker

CloseRereadOrders ==
    /\ pm.pc = "orders2"
    /\ \/ OpenOrder(pm.sym) /\ FailPass
       \/ /\ ~OpenOrder(pm.sym)
          /\ pm' = [pm EXCEPT !.pc = "check"]
          /\ UNCHANGED << rows, guard, clock >>
    /\ PmUnchanged /\ UNCHANGED broker

(* What-If passed and /account answered: the close is posted, with nothing *)
(* written down beforehand.  moved remembers a close of a position that is *)
(* no longer what the close was sized on.                                  *)
PostClose ==
    LET qty == pm.snap[pm.sym] IN
    /\ pm.pc = "check"
    /\ \E o \in OrderIds :
          /\ Post(o, pm.sym, IF qty > 0 THEN -1 ELSE 1,
                  IF qty > 0 THEN qty ELSE -qty, None)
          /\ pm' = [pm EXCEPT !.pc = "post", !.oid = o]
    /\ moved' = IF position[pm.sym] = qty THEN moved ELSE moved \cup {pm.sym}
    /\ PmUnchanged /\ UNCHANGED << rows, position, opener, guard, clock >>

CloseAnswered ==
    /\ pm.pc = "post"
    /\ \/ /\ Answered(pm.oid)
          /\ guard' = [guard EXCEPT ![pm.sym] = None]
          /\ pm' = [pm EXCEPT !.pc = "verify"]
          /\ UNCHANGED << rows, clock >>
       \/ orders[pm.oid].st \in {"refused", "lost"} /\ FailPass
    /\ PmUnchanged /\ UNCHANGED broker

(* The exit's row is inserted after the fact and committed with whatever   *)
(* the pass reconciled.                                                    *)
VerifyClose ==
    LET stamp == StampOf(pm.stamp) IN
    /\ pm.pc = "verify"
    /\ \E r \in RowIds, status \in {"EXIT_SUBMITTED", "EXIT_EXECUTED"} :
          /\ rows[r].status = "UNUSED"
          /\ status = "EXIT_EXECUTED" => Complete(pm.oid)
          /\ rows' = [Committed EXCEPT ![r] =
                         [status |-> status, sym |-> pm.sym,
                          side |-> orders[pm.oid].side, oid |-> pm.oid,
                          stamp |-> stamp]]
    /\ clock' = IF stamp > clock THEN stamp ELSE clock
    /\ pm' = [pm EXCEPT !.pc = "loop", !.dirty = {}, !.todo = @ \ {pm.sym},
                        !.sym = None, !.entry = None, !.oid = None, !.stamp = 0]
    /\ PmUnchanged /\ UNCHANGED << broker, guard >>

EndPass ==
    /\ pm.pc = "loop" /\ pm.todo = {}
    /\ rows' = Committed
    /\ pm' = NoPass
    /\ PmUnchanged /\ UNCHANGED << broker, guard, clock >>

(* A read or a post that raises; after the post, verification swallows it. *)
PassFault ==
    /\ pm.pc \notin {"idle", "verify"}
    /\ CountFault
    /\ FailPass
    /\ UNCHANGED << gate, ready, broker, scan, changes, manual >>

-----------------------------------------------------------------------------
(* The operator, and the process as a whole.                               *)

CountChange == changes < MaxChanges /\ changes' = changes + 1
OnlyControls == UNCHANGED << rows, broker, guard, scan, pm, clock, faults, manual >>

Kill ==
    /\ CountChange
    /\ gate' = [gate EXCEPT !.killed = TRUE, !.enabled = FALSE]
    /\ OnlyControls /\ UNCHANGED ready

Restart ==
    /\ CountChange
    /\ gate' = [gate EXCEPT !.killed = FALSE, !.enabled = TRUE]
    /\ OnlyControls /\ UNCHANGED ready

UpdateState ==
    /\ CountChange
    /\ \E e, a \in BOOLEAN : gate' = [gate EXCEPT !.enabled = e, !.auto = a]
    /\ OnlyControls /\ UNCHANGED ready

(* An account, profile or strategy is disabled, disconnected or restored.  *)
ChangeReadiness ==
    /\ CountChange
    /\ ready' = ~ready
    /\ OnlyControls /\ UNCHANGED gate

(* The process is cancelled or dies and is started again: every session is *)
(* rolled back and the in-memory reservations are gone.                    *)
ProcessRestart ==
    /\ CountFault
    /\ scan' = [s \in Scans |-> NoScan]
    /\ pm' = NoPass
    /\ guard' = [s \in Symbols |-> None]
    /\ UNCHANGED << gate, ready, rows, broker, clock, changes, manual >>

-----------------------------------------------------------------------------
(* The bridge and the broker.                                              *)

BrokerUnchanged == UNCHANGED << gate, ready, rows, guard, scan, pm, clock,
                                changes, faults, manual >>

Accept(o) ==
    /\ orders[o].st = "inflight"
    /\ orders' = [orders EXCEPT ![o].st = "working"]
    /\ BrokerUnchanged /\ UNCHANGED << position, opener, moved >>

Refuse(o) ==
    /\ orders[o].st = "inflight"
    /\ orders' = [orders EXCEPT ![o].st = "refused"]
    /\ BrokerUnchanged /\ UNCHANGED << position, opener, moved >>

Lose(o) ==
    /\ orders[o].st = "inflight"
    /\ CountFault
    /\ orders' = [orders EXCEPT ![o].st = "lost"]
    /\ UNCHANGED << gate, ready, rows, position, opener, moved, guard, scan, pm,
                    clock, changes, manual >>

(* One unit is executed and the position moves with it.                    *)
Fill(o) ==
    LET sym == orders[o].sym IN
    /\ orders[o].st = "working"
    /\ orders' = [orders EXCEPT ![o].filled = @ + 1,
                     ![o].st = IF orders[o].filled + 1 = orders[o].qty
                               THEN "filled" ELSE @]
    /\ position' = [position EXCEPT ![sym] = @ + orders[o].side]
    /\ opener' = IF position[sym] = 0
                 THEN [opener EXCEPT ![sym] = orders[o].row] ELSE opener
    /\ BrokerUnchanged /\ UNCHANGED moved

(* The operator or the broker cancels what is left.                        *)
CancelOrder(o) ==
    /\ orders[o].st = "working"
    /\ orders' = [orders EXCEPT ![o].st = "cancelled"]
    /\ BrokerUnchanged /\ UNCHANGED << position, opener, moved >>

(* After a restart the Gateway no longer reports finished orders.          *)
GatewayRestart ==
    LET done == {o \in OrderIds : orders[o].st \in {"filled", "cancelled"}
                                  /\ orders[o].known}
    IN
    /\ done # {}
    /\ orders' = [o \in OrderIds |-> IF o \in done
                                     THEN [orders[o] EXCEPT !.known = FALSE]
                                     ELSE orders[o]]
    /\ BrokerUnchanged /\ UNCHANGED << position, opener, moved >>

(* The operator trades one unit in TWS.                                    *)
ManualTrade(sym) ==
    /\ manual < MaxManual
    /\ manual' = manual + 1
    /\ \E d \in {1, -1} : position' = [position EXCEPT ![sym] = @ + d]
    /\ opener' = IF position[sym] = 0 THEN [opener EXCEPT ![sym] = None] ELSE opener
    /\ moved' = moved \cup {sym}
    /\ UNCHANGED << gate, ready, rows, orders, guard, scan, pm, clock, changes,
                    faults >>

-----------------------------------------------------------------------------
ScanStep(s) ==
    \/ StartScan(s) \/ FinishScan(s)
    \/ \E sym \in Symbols : BeginEntry(s, sym)
    \/ RefuseEntry(s) \/ ReadPositions(s) \/ ReadOrders(s)
    \/ ReserveEntry(s) \/ RereadPositions(s) \/ RereadOrders(s)
    \/ PostEntry(s) \/ PostAnswered(s) \/ VerifyFill(s)

PmStep ==
    \/ StartPass \/ ReconcileExecutions \/ ReconcilePositions
    \/ \E sym \in Symbols : CheckOwnership(sym)
    \/ CheckEntryFill \/ Hold \/ ReserveClose \/ CloseRereadPositions
    \/ CloseRereadOrders \/ PostClose \/ CloseAnswered \/ VerifyClose \/ EndPass

Operator ==
    \/ Kill \/ Restart \/ UpdateState \/ ChangeReadiness
    \/ \E sym \in Symbols : ManualTrade(sym)

Deliver(o) == Accept(o) \/ Refuse(o)

Environment ==
    \/ \E o \in OrderIds : Deliver(o) \/ Lose(o) \/ Fill(o) \/ CancelOrder(o)
    \/ GatewayRestart

Failure == ProcessRestart \/ PassFault \/ \E s \in Scans : EntryFault(s)

Next == \/ \E s \in Scans : ScanStep(s)
        \/ PmStep \/ Operator \/ Environment \/ Failure

Spec == Init /\ [][Next]_vars

-----------------------------------------------------------------------------
(* Safety.                                                                 *)

Live(o) == orders[o].st \in {"inflight", "working"}

(* No symbol has two unresolved entry intents: the check for a pending     *)
(* submission and the insert of the intent cannot be separated.            *)
OneUnresolvedEntry ==
    \A r, q \in RowIds :
        /\ rows[r].status = "SUBMITTED" /\ rows[q].status = "SUBMITTED"
        /\ rows[r].sym = rows[q].sym
        => r = q

(* Two entry orders of one symbol are never under way or open at the       *)
(* broker together, whatever scans, restarts and lost answers came before. *)
NoConcurrentEntryOrders ==
    \A o, p \in OrderIds :
        /\ Live(o) /\ Live(p) /\ orders[o].row # None /\ orders[p].row # None
        /\ orders[o].sym = orders[p].sym
        => o = p

(* An intent is released, as BLOCK or CANCELLED, only if no order sent for *)
(* it bought or sold anything or still can.                                *)
ReleasedMeansDead ==
    \A o \in OrderIds :
        /\ orders[o].row # None
        /\ rows[orders[o].row].status \in {"BLOCK", "CANCELLED"}
        => ~Live(o) /\ orders[o].filled = 0

(* A row recorded as EXECUTED has an order the broker filled completely,   *)
(* however its fill was proved, unless its symbol was traded by another    *)
(* hand: the position a fill is proved by is then anybody's.  A close that *)
(* reverses a position is such a hand (moved, at PostClose).               *)
ExecutedMeansFilled ==
    \A r \in RowIds :
        rows[r].status = "EXECUTED" /\ rows[r].sym \notin moved =>
            \E o \in OrderIds : orders[o].row = r /\ orders[o].st = "filled"

(* ATLAS never holds more of a symbol than one entry, in either direction, *)
(* through entries, closes, lost answers and restarts, until a close is    *)
(* posted for a position that has moved or the operator trades the symbol. *)
ExposureBounded ==
    \A s \in Symbols \ moved : position[s] \in -Qty .. Qty

(* The outcome of a row is final once it is not an unresolved submission:  *)
(* the scan's late overwrite never undoes what the manager reconciled.     *)
OutcomeIsFinal ==
    [][\A r \in RowIds : rows[r].status \notin {"UNUSED", "SUBMITTED"}
          => rows'[r] = rows[r]]_rows

(* The position that an EXECUTED entry opened is the one _latest_entry     *)
(* takes it for, so the manager can manage it.                             *)
OpenPositionIsOwned ==
    \A s \in Symbols :
        /\ position[s] # 0 /\ opener[s] # None
        /\ rows[opener[s]].status = "EXECUTED"
        => opener[s] \in Latest(s)

Posted(o) == orders[o].st = "unused" /\ orders'[o].st = "inflight"

(* No order leaves for the broker while the kill switch is set.            *)
NoOrderWhileKilled == [][(\E o \in OrderIds : Posted(o)) => ~gate.killed]_vars

-----------------------------------------------------------------------------
(* The entries of each symbol implement its slot.                          *)

Claimed == {sym \in Symbols : \E r \in RowIds : /\ rows[r].status = "SUBMITTED"
                                                /\ rows[r].sym = sym}
EntryIn(sym, st) ==
    \E o \in OrderIds : /\ orders[o].row # None /\ orders[o].sym = sym
                        /\ orders[o].st = st
SlotOrder == [sym \in Symbols |-> IF EntryIn(sym, "inflight") THEN "sent"
                                  ELSE IF EntryIn(sym, "working") THEN "open"
                                  ELSE "none"]

Slot == INSTANCE EntrySlot WITH claimed <- Claimed, order <- SlotOrder

(* An entry is sent only under its symbol's claim, with no other on its    *)
(* way or open, and the claim outlives the order's delivery.               *)
ImplementsSlot == Slot!Spec

-----------------------------------------------------------------------------
(* Liveness.  The loops run as long as the process does, the bridge        *)
(* answers or the post is lost, and a market order that stays open fills.  *)

Fairness ==
    /\ \A s \in Scans : WF_vars(ScanStep(s))
    /\ WF_vars(PmStep)
    /\ \A o \in OrderIds : WF_vars(Accept(o)) /\ WF_vars(Fill(o))

FairSpec == Spec /\ Fairness

(* The bounds leave no id for the order or the row that comes next.        *)
Exhausted ==
    \/ /\ pm.pc = "verify"
       /\ \A r \in RowIds : rows[r].status # "UNUSED"
    \/ /\ pm.pc = "check" \/ \E s \in Scans : scan[s].pc = "account"
       /\ \A o \in OrderIds : orders[o].st # "unused"

(* A filled entry whose order id was saved is eventually recorded as       *)
(* EXECUTED, for as long as its position is what is held and the engine is *)
(* on: no Gateway restart, failed pass or process restart loses it.        *)
FillsAreRecorded ==
    \A r \in RowIds, sym \in Symbols :
        (/\ rows[r].status = "SUBMITTED" /\ rows[r].oid # None /\ rows[r].sym = sym
         /\ \E o \in OrderIds : orders[o].row = r /\ orders[o].st = "filled")
        ~> \/ rows[r].status = "EXECUTED"
           \/ position[sym] # rows[r].side * Qty
           \/ ~Authorized
           \/ Exhausted

(* A reservation is always given back, by whoever holds it and however its *)
(* submission ends.                                                        *)
ReservationsAreReleased ==
    \A s \in Symbols : guard[s] # None ~> guard[s] = None \/ Exhausted

=============================================================================
