------------------------ MODULE IbkrLifecycleProofs ------------------------
(***************************************************************************)
(* What IbkrLifecycle guarantees for any symbols, scans, quantities and    *)
(* bounds: its types, and that the durable intent serialises the entries   *)
(* of a symbol, whatever restarts, lost answers and manual trades occur.   *)
(*                                                                         *)
(* The argument: an order that has not reached the broker belongs to a row *)
(* that is SUBMITTED without an order id, which nothing but its own scan   *)
(* resolves; a symbol has one SUBMITTED row; so whatever else is open when *)
(* a scan reads the orders a second time, it sees.  Every step has one of  *)
(* nine effects on rows, orders and scans, and each preserves IInv.        *)
(* Then, that an EXECUTED row was filled, and that the exposure of a       *)
(* symbol stays within one entry.                                          *)
(***************************************************************************)
EXTENDS IbkrLifecycle, TLAPS

(* The workers' program counters determine which of their fields are set.  *)
BeforePost == {"positions", "orders", "check", "positions2", "orders2", "account"}
Active(s) == scan[s].pc \in BeforePost \cup {"post", "verify"}

ScanTargets ==
    \A s \in Scans :
        /\ Active(s) => scan[s].sym \in Symbols /\ scan[s].row \in RowIds
        /\ scan[s].pc \in {"post", "verify"} => scan[s].oid \in OrderIds

PmTargets ==
    /\ pm.pc \notin {"idle", "executions", "positions", "loop"} => pm.sym \in Symbols
    /\ pm.pc \in {"post", "verify"} => pm.oid \in OrderIds

Typed == TypeOK /\ ScanTargets /\ PmTargets

LEMMA InitTyped == Init => Typed
  BY SidesAssumption, QtyAssumption, NamesAssumption
  DEF Init, Typed, TypeOK, ScanTargets, PmTargets, Active, BeforePost, Row, NoRow,
      RowStatus, Order, NoOrder, OrderState, Scan, NoScan, ScanPC, Pass, NoPass, PmPC

-----------------------------------------------------------------------------
(* A new transaction's start is a natural number.                          *)
LEMMA TickType == TypeOK => Tick \in Nat /\ (\A open \in Nat : StampOf(open) \in Nat)
  BY DEF TypeOK, Tick, StampOf

(* A record of a table or of a worker, changed in some of its fields.      *)
LEMMA RowUpdate ==
  ASSUME NEW row \in Row, NEW status \in RowStatus, NEW oid \in OrderIds \cup {None}
  PROVE  /\ [row EXCEPT !.status = status] \in Row
         /\ [[row EXCEPT !.status = status] EXCEPT !.oid = oid] \in Row
  BY DEF Row

LEMMA ScanUpdate ==
  ASSUME NEW r \in Scan, NEW pc \in ScanPC
  PROVE  [r EXCEPT !.pc = pc] \in Scan
  BY DEF Scan

LEMMA GoToType ==
  ASSUME TypeOK, NEW s \in Scans, NEW pc \in ScanPC, GoTo(s, pc)
  PROVE  scan' \in [Scans -> Scan]
  BY ScanUpdate DEF TypeOK, GoTo

LEMMA LeaveItemType ==
  ASSUME TypeOK, NEW s \in Scans, NEW sym \in Symbols, LeaveItem(s, sym)
  PROVE  /\ scan' \in [Scans -> Scan]
         /\ guard' \in [Symbols -> Scans \cup {Manager, None}]
<1>1. [NoScan EXCEPT !.pc = "items", !.todo = scan[s].todo \ {sym}] \in Scan
  BY DEF TypeOK, Scan, NoScan, ScanPC
<1>2. scan' \in [Scans -> Scan]
  BY <1>1 DEF LeaveItem, TypeOK
<1> QED BY <1>2 DEF LeaveItem, TypeOK

LEMMA RecordType ==
  ASSUME TypeOK, NEW s \in Scans, scan[s].sym \in Symbols, scan[s].row \in RowIds,
         NEW status \in RowStatus, NEW oid \in OrderIds \cup {None},
         Record(s, status, oid)
  PROVE  /\ rows' \in [RowIds -> Row]
         /\ scan' \in [Scans -> Scan]
         /\ guard' \in [Symbols -> Scans \cup {Manager, None}]
<1>1. rows[scan[s].row] \in Row
  BY DEF TypeOK
<1>2. rows' \in [RowIds -> Row]
  BY <1>1, RowUpdate DEF Record, TypeOK
<1> QED BY <1>2, LeaveItemType DEF Record

LEMMA UnresolvedType ==
  ASSUME TypeOK, NEW s \in Scans, scan[s].sym \in Symbols, scan[s].row \in RowIds,
         Unresolved(s)
  PROVE  /\ rows' \in [RowIds -> Row]
         /\ scan' \in [Scans -> Scan]
         /\ guard' \in [Symbols -> Scans \cup {Manager, None}]
  BY RecordType DEF Unresolved, RowStatus

LEMMA PostType ==
  ASSUME TypeOK, NEW o \in OrderIds, NEW sym \in Symbols, NEW side \in {1, -1},
         NEW qty \in Nat, NEW row \in RowIds \cup {None}, Post(o, sym, side, qty, row)
  PROVE  orders' \in [OrderIds -> Order]
  BY DEF Post, TypeOK, Order, OrderState

LEMMA ScanStepTypeOK ==
  ASSUME Typed, NEW s \in Scans, ScanStep(s)
  PROVE  TypeOK'
<1> USE DEF Typed
<1>a. TypeOK /\ NoScan \in Scan
  BY NamesAssumption DEF NoScan, Scan, ScanPC
<1>b. /\ scan[s] \in Scan
      /\ Active(s) => scan[s].sym \in Symbols /\ scan[s].row \in RowIds
      /\ scan[s].pc \in {"post", "verify"} => scan[s].oid \in OrderIds
  BY DEF TypeOK, ScanTargets
<1>1. CASE StartScan(s)
  <2>1. [NoScan EXCEPT !.pc = "items", !.todo = Symbols, !.stamp = Tick] \in Scan
    BY <1>a, TickType DEF Scan, ScanPC, NoScan
  <2> QED BY <1>1, <1>a, <2>1, TickType DEF StartScan, TypeOK, broker, bounds
<1>2. CASE FinishScan(s)
  BY <1>2, <1>a DEF FinishScan, TypeOK, broker, bounds
<1>3. ASSUME NEW sym \in Symbols, BeginEntry(s, sym)
      PROVE  TypeOK'
  <2>1. CASE LeaveItem(s, sym) /\ UNCHANGED << rows, clock >>
    BY <1>3, <1>a, <2>1, LeaveItemType DEF BeginEntry, TypeOK, broker, bounds
  <2>2. ASSUME NEW r \in RowIds, NEW d \in Sides,
               rows' = [rows EXCEPT ![r] =
                           [status |-> "SUBMITTED", sym |-> sym, side |-> d,
                            oid |-> None, stamp |-> StampOf(scan[s].stamp)]],
               clock' = IF StampOf(scan[s].stamp) > clock
                        THEN StampOf(scan[s].stamp) ELSE clock,
               scan' = [scan EXCEPT ![s].pc = "positions", ![s].sym = sym,
                                    ![s].row = r, ![s].stamp = 0],
               UNCHANGED guard
        PROVE  TypeOK'
    <3>1. StampOf(scan[s].stamp) \in Nat
      BY <1>b, TickType DEF TypeOK, Scan
    <3>2. rows' \in [RowIds -> Row]
      BY <2>2, <3>1, SidesAssumption DEF TypeOK, Row, RowStatus
    <3>3. scan' \in [Scans -> Scan]
      BY <2>2, <1>b DEF TypeOK, Scan, ScanPC
    <3> QED BY <1>3, <2>2, <3>1, <3>2, <3>3 DEF BeginEntry, TypeOK, broker, bounds
  <2> QED BY <1>3, <2>1, <2>2 DEF BeginEntry
<1>4. CASE RefuseEntry(s)
  BY <1>4, <1>b, RecordType
  DEF RefuseEntry, TypeOK, RowStatus, Active, BeforePost, broker, bounds
<1>5. CASE ReadPositions(s)
  BY <1>5, GoToType DEF ReadPositions, TypeOK, ScanPC, broker, bounds
<1>6. CASE ReadOrders(s)
  BY <1>6, GoToType DEF ReadOrders, TypeOK, ScanPC, broker, bounds
<1>7. CASE ReserveEntry(s)
  BY <1>7, <1>b, RecordType, UnresolvedType, GoToType
  DEF ReserveEntry, TypeOK, ScanPC, RowStatus, Active, BeforePost, broker, bounds
<1>8. CASE RereadPositions(s)
  BY <1>8, <1>b, UnresolvedType, GoToType
  DEF RereadPositions, TypeOK, ScanPC, Active, BeforePost, broker, bounds
<1>9. CASE RereadOrders(s)
  BY <1>9, <1>b, RecordType, UnresolvedType, GoToType
  DEF RereadOrders, TypeOK, ScanPC, RowStatus, Active, BeforePost, broker, bounds
<1>10. CASE PostEntry(s)
  <2>1. scan[s].sym \in Symbols /\ scan[s].row \in RowIds
    BY <1>10, <1>b DEF PostEntry, Active, BeforePost
  <2>2. rows[scan[s].row].side \in {1, -1}
    BY <2>1 DEF TypeOK, Row
  <2>3. PICK o \in OrderIds :
              /\ Post(o, scan[s].sym, rows[scan[s].row].side, Qty, scan[s].row)
              /\ scan' = [scan EXCEPT ![s].pc = "post", ![s].oid = o]
    BY <1>10 DEF PostEntry
  <2>4. orders' \in [OrderIds -> Order]
    BY <2>1, <2>2, <2>3, PostType, QtyAssumption
  <2>5. scan' \in [Scans -> Scan]
    BY <2>3, <1>b DEF TypeOK, Scan, ScanPC
  <2> QED BY <1>10, <2>4, <2>5 DEF PostEntry, TypeOK, bounds
<1>11. CASE PostAnswered(s)
  BY <1>11, <1>b, RecordType, UnresolvedType, GoToType
  DEF PostAnswered, TypeOK, ScanPC, RowStatus, Active, BeforePost, broker, bounds
<1>12. CASE VerifyFill(s)
  BY <1>12, <1>b, RecordType
  DEF VerifyFill, TypeOK, RowStatus, Active, BeforePost, broker, bounds
<1> QED
  BY <1>1, <1>2, <1>3, <1>4, <1>5, <1>6, <1>7, <1>8, <1>9, <1>10, <1>11, <1>12
  DEF ScanStep

(* What the ways a scan's state changes leave in it.                       *)
LEMMA AfterGoTo ==
  ASSUME TypeOK, NEW s \in Scans, NEW pc, GoTo(s, pc)
  PROVE  /\ scan'[s].pc = pc /\ scan'[s].sym = scan[s].sym
         /\ scan'[s].row = scan[s].row /\ scan'[s].oid = scan[s].oid
<1>1. scan[s] \in Scan /\ scan'[s] = [scan[s] EXCEPT !.pc = pc]
  BY DEF TypeOK, GoTo
<1> QED BY <1>1 DEF Scan

LEMMA AfterLeaveItem ==
  ASSUME TypeOK, NEW s \in Scans, NEW sym, LeaveItem(s, sym)
  PROVE  scan'[s].pc = "items"
<1>1. scan'[s] = [NoScan EXCEPT !.pc = "items", !.todo = scan[s].todo \ {sym}]
  BY DEF TypeOK, LeaveItem
<1> QED BY <1>1 DEF NoScan

Begun(s, sym, r) ==
    scan' = [scan EXCEPT ![s].pc = "positions", ![s].sym = sym,
                         ![s].row = r, ![s].stamp = 0]
Sent(s, o) == scan' = [scan EXCEPT ![s].pc = "post", ![s].oid = o]

LEMMA AfterBegin ==
  ASSUME TypeOK, NEW s \in Scans, NEW sym, NEW r, Begun(s, sym, r)
  PROVE  scan'[s].pc = "positions" /\ scan'[s].sym = sym /\ scan'[s].row = r
<1>1. /\ scan[s] \in Scan
      /\ scan'[s] = [scan[s] EXCEPT !.pc = "positions", !.sym = sym, !.row = r,
                                    !.stamp = 0]
  BY DEF TypeOK, Begun
<1> QED BY <1>1 DEF Scan

LEMMA AfterPost ==
  ASSUME TypeOK, NEW s \in Scans, NEW o, Sent(s, o)
  PROVE  /\ scan'[s].pc = "post" /\ scan'[s].oid = o
         /\ scan'[s].sym = scan[s].sym /\ scan'[s].row = scan[s].row
<1>1. scan[s] \in Scan /\ scan'[s] = [scan[s] EXCEPT !.pc = "post", !.oid = o]
  BY DEF TypeOK, Sent
<1> QED BY <1>1 DEF Scan

(* A scan's step keeps both workers' fields set.                           *)
LEMMA ScanStepTargets ==
  ASSUME Typed, NEW s \in Scans, ScanStep(s)
  PROVE  ScanTargets' /\ PmTargets'
<1> USE DEF Typed
<1>1. PmTargets'
  BY DEF ScanStep, StartScan, FinishScan, BeginEntry, RefuseEntry, ReadPositions,
         ReadOrders, ReserveEntry, RereadPositions, RereadOrders, PostEntry, PostAnswered,
         VerifyFill, PmTargets
<1>2. \A t \in Scans \ {s} : scan'[t] = scan[t]
  BY DEF TypeOK, ScanStep, StartScan, FinishScan, BeginEntry, RefuseEntry, ReadPositions,
         ReadOrders, ReserveEntry, RereadPositions, RereadOrders, PostEntry, PostAnswered,
         VerifyFill, Unresolved, Record, LeaveItem, GoTo
<1>3. /\ Active(s)' => scan'[s].sym \in Symbols /\ scan'[s].row \in RowIds
      /\ scan'[s].pc \in {"post", "verify"} => scan'[s].oid \in OrderIds
  <2> USE DEF TypeOK, ScanTargets, Active, BeforePost
  <2>1. CASE StartScan(s) \/ FinishScan(s)
    <3>1. scan'[s] = NoScan
          \/ scan'[s] = [NoScan EXCEPT !.pc = "items", !.todo = Symbols, !.stamp = Tick]
      BY <2>1 DEF StartScan, FinishScan
    <3>2. NoScan.pc = "idle"
          /\ [NoScan EXCEPT !.pc = "items", !.todo = Symbols, !.stamp = Tick].pc = "items"
      BY DEF NoScan
    <3> QED BY <3>1, <3>2
  <2>2. ASSUME NEW sym \in Symbols, BeginEntry(s, sym)
        PROVE  \/ scan'[s].pc = "items"
               \/ /\ scan'[s].pc = "positions"
                  /\ scan'[s].sym \in Symbols /\ scan'[s].row \in RowIds
    <3>1. CASE LeaveItem(s, sym)
      BY <3>1, AfterLeaveItem
    <3>2. ASSUME NEW r \in RowIds, Begun(s, sym, r)
          PROVE  /\ scan'[s].pc = "positions"
                 /\ scan'[s].sym \in Symbols /\ scan'[s].row \in RowIds
      BY <3>2, AfterBegin
    <3> QED BY <2>2, <3>1, <3>2 DEF BeginEntry, Begun
  <2>3. CASE RefuseEntry(s) \/ ReadPositions(s) \/ ReadOrders(s) \/ ReserveEntry(s)
    BY <2>3, AfterLeaveItem, AfterGoTo
    DEF RefuseEntry, ReadPositions, ReadOrders, ReserveEntry, Unresolved, Record
  <2>4. CASE RereadPositions(s) \/ RereadOrders(s)
    BY <2>4, AfterLeaveItem, AfterGoTo DEF RereadPositions, RereadOrders, Unresolved, Record
  <2>5. CASE PostEntry(s)
    <3>1. PICK o \in OrderIds : Sent(s, o)
      BY <2>5 DEF PostEntry, Sent
    <3>2. scan[s].sym \in Symbols /\ scan[s].row \in RowIds
      BY <2>5 DEF PostEntry
    <3> QED BY <3>1, <3>2, AfterPost
  <2>6. CASE PostAnswered(s) \/ VerifyFill(s)
    BY <2>6, AfterLeaveItem, AfterGoTo DEF PostAnswered, VerifyFill, Unresolved, Record
  <2> QED BY <2>1, <2>2, <2>3, <2>4, <2>5, <2>6 DEF ScanStep
<1> QED BY <1>1, <1>2, <1>3 DEF ScanTargets, Active

-----------------------------------------------------------------------------
LEMMA CommittedType == TypeOK => Committed \in [RowIds -> Row]
  BY RowUpdate DEF TypeOK, Committed, RowStatus

LEMMA NoPassType == NoPass \in Pass
  BY NamesAssumption DEF NoPass, Pass, PmPC

LEMMA SkipType ==
  ASSUME Typed, NEW sym \in Symbols, Skip(sym)
  PROVE  pm' \in Pass /\ PmTargets'
  BY DEF Typed, TypeOK, Skip, Pass, PmPC, PmTargets

LEMMA FailPassType ==
  ASSUME Typed, FailPass
  PROVE  pm' \in Pass /\ guard' \in [Symbols -> Scans \cup {Manager, None}] /\ PmTargets'
  BY NoPassType DEF Typed, TypeOK, FailPass, PmTargets, NoPass

(* A step of the manager keeps the types and the workers' fields.          *)
LEMMA PmStepTyped ==
  ASSUME Typed, PmStep
  PROVE  Typed'
<1> USE DEF Typed
<1>a. TypeOK /\ ScanTargets /\ PmTargets /\ pm \in Pass
  BY DEF TypeOK
<1>b. ScanTargets'
  BY DEF PmStep, StartPass, ReconcileExecutions, ReconcilePositions, CheckOwnership,
         CheckEntryFill, Hold, ReserveClose, CloseRereadPositions, CloseRereadOrders,
         PostClose, CloseAnswered, VerifyClose, EndPass, PmUnchanged, ScanTargets, Active
<1>1. CASE StartPass
  <2>1. [NoPass EXCEPT !.pc = "executions", !.stamp = Tick] \in Pass
    BY <1>a, NoPassType, TickType DEF Pass, PmPC
  <2> QED BY <1>1, <1>b, <2>1, TickType
          DEF StartPass, PmUnchanged, TypeOK, PmTargets, NoPass, broker, bounds
<1>2. CASE ReconcileExecutions
  <2>1. pm' \in Pass
    BY <1>2, <1>a DEF ReconcileExecutions, SubmittedEntries, Pass, PmPC
  <2> QED BY <1>2, <1>b, <2>1
          DEF ReconcileExecutions, PmUnchanged, TypeOK, PmTargets, Pass, broker, bounds
<1>3. CASE ReconcilePositions
  <2>1. pm' \in Pass
    BY <1>3, <1>a DEF ReconcilePositions, SubmittedEntries, TypeOK, Pass, PmPC
  <2> QED BY <1>3, <1>b, <2>1
          DEF ReconcilePositions, PmUnchanged, TypeOK, PmTargets, Pass, broker, bounds
<1>4. ASSUME NEW sym \in Symbols, CheckOwnership(sym)
      PROVE  Typed'
  <2>1. pm' \in Pass /\ PmTargets'
    <3>1. CASE Skip(sym)
      BY <3>1, SkipType
    <3>2. ASSUME NEW r \in Latest(sym),
                 pm' = [pm EXCEPT !.pc = "status", !.sym = sym, !.entry = r]
          PROVE  pm' \in Pass /\ PmTargets'
      BY <3>2, <1>a DEF Latest, Finished, Pass, PmPC, PmTargets
    <3> QED BY <1>4, <3>1, <3>2 DEF CheckOwnership
  <2> QED BY <1>4, <1>b, <2>1 DEF CheckOwnership, PmUnchanged, TypeOK, broker, bounds
<1>5. CASE CheckEntryFill
  <2>1. pm' \in Pass /\ PmTargets'
    BY <1>5, <1>a, SkipType DEF CheckEntryFill, Pass, PmPC, PmTargets
  <2> QED BY <1>5, <1>b, <2>1 DEF CheckEntryFill, PmUnchanged, TypeOK, broker, bounds
<1>6. CASE Hold
  BY <1>6, <1>b, SkipType DEF Hold, PmTargets, PmUnchanged, TypeOK, broker, bounds
<1>7. CASE ReserveClose
  <2>1. pm' \in Pass /\ PmTargets' /\ guard' \in [Symbols -> Scans \cup {Manager, None}]
    BY <1>7, <1>a, FailPassType DEF ReserveClose, TypeOK, Pass, PmPC, PmTargets
  <2> QED BY <1>7, <1>b, <2>1 DEF ReserveClose, FailPass, PmUnchanged, TypeOK, broker, bounds
<1>8. CASE CloseRereadPositions
  <2>1. pm' \in Pass /\ PmTargets' /\ guard' \in [Symbols -> Scans \cup {Manager, None}]
    BY <1>8, <1>a, FailPassType DEF CloseRereadPositions, TypeOK, Pass, PmPC, PmTargets
  <2> QED BY <1>8, <1>b, <2>1
          DEF CloseRereadPositions, FailPass, PmUnchanged, TypeOK, broker, bounds
<1>9. CASE CloseRereadOrders
  <2>1. pm' \in Pass /\ PmTargets' /\ guard' \in [Symbols -> Scans \cup {Manager, None}]
    BY <1>9, <1>a, FailPassType DEF CloseRereadOrders, TypeOK, Pass, PmPC, PmTargets
  <2> QED BY <1>9, <1>b, <2>1
          DEF CloseRereadOrders, FailPass, PmUnchanged, TypeOK, broker, bounds
<1>10. CASE PostClose
  <2>1. pm.sym \in Symbols
    BY <1>10 DEF PostClose, PmTargets
  <2>2. PICK o \in OrderIds :
              /\ Post(o, pm.sym, IF pm.snap[pm.sym] > 0 THEN -1 ELSE 1,
                      IF pm.snap[pm.sym] > 0 THEN pm.snap[pm.sym] ELSE -pm.snap[pm.sym],
                      None)
              /\ pm' = [pm EXCEPT !.pc = "post", !.oid = o]
    BY <1>10 DEF PostClose
  <2>3. pm.snap[pm.sym] \in Int
    BY <2>1, <1>a DEF Pass
  <2>4. orders' \in [OrderIds -> Order]
    BY <2>1, <2>2, <2>3, PostType
  <2>5. pm' \in Pass /\ PmTargets'
    BY <2>1, <2>2, <1>a DEF Pass, PmPC, PmTargets
  <2>6. moved' \subseteq Symbols
    BY <1>10, <2>1, <1>a DEF PostClose, TypeOK
  <2> QED BY <1>10, <1>b, <2>4, <2>5, <2>6 DEF PostClose, PmUnchanged, TypeOK, bounds
<1>11. CASE CloseAnswered
  <2>1. pm' \in Pass /\ PmTargets' /\ guard' \in [Symbols -> Scans \cup {Manager, None}]
    BY <1>11, <1>a, FailPassType DEF CloseAnswered, TypeOK, Pass, PmPC, PmTargets
  <2> QED BY <1>11, <1>b, <2>1 DEF CloseAnswered, FailPass, PmUnchanged, TypeOK, broker, bounds
<1>12. CASE VerifyClose
  <2>1. /\ pm.sym \in Symbols /\ pm.oid \in OrderIds
        /\ orders[pm.oid].side \in {1, -1}
        /\ StampOf(pm.stamp) \in Nat
    BY <1>12, <1>a, TickType DEF VerifyClose, PmTargets, TypeOK, Pass, Order
  <2>2. rows' \in [RowIds -> Row]
    <3>1. PICK r \in RowIds, status \in {"EXIT_SUBMITTED", "EXIT_EXECUTED"} :
                 rows' = [Committed EXCEPT ![r] =
                             [status |-> status, sym |-> pm.sym,
                              side |-> orders[pm.oid].side, oid |-> pm.oid,
                              stamp |-> StampOf(pm.stamp)]]
      BY <1>12 DEF VerifyClose
    <3> QED BY <2>1, <3>1, <1>a, CommittedType DEF Row, RowStatus
  <2>3. pm' \in Pass /\ PmTargets'
    BY <1>12, <1>a DEF VerifyClose, Pass, PmPC, PmTargets
  <2> QED BY <1>12, <1>b, <2>1, <2>2, <2>3
          DEF VerifyClose, PmUnchanged, TypeOK, broker, bounds
<1>13. CASE EndPass
  BY <1>13, <1>b, NoPassType, CommittedType
  DEF EndPass, PmUnchanged, TypeOK, PmTargets, NoPass, broker, bounds
<1> QED
  BY <1>1, <1>2, <1>3, <1>4, <1>5, <1>6, <1>7, <1>8, <1>9, <1>10, <1>11, <1>12, <1>13
  DEF PmStep

-----------------------------------------------------------------------------
(* An entry that fails, an operator's change and a step of the bridge, the *)
(* broker or the process keep them too.                                    *)
LEMMA OtherStepTyped ==
  ASSUME Typed, Operator \/ Environment \/ Failure
  PROVE  Typed'
<1> USE DEF Typed
<1>a. TypeOK /\ ScanTargets /\ PmTargets
  OBVIOUS
<1>1. CASE Operator
  <2>1. CASE Kill \/ Restart \/ UpdateState \/ ChangeReadiness
    <3>1. gate' \in [enabled : BOOLEAN, killed : BOOLEAN, auto : BOOLEAN]
      BY <2>1 DEF Kill, Restart, UpdateState, ChangeReadiness, TypeOK
    <3>2. ready' \in BOOLEAN
      BY <2>1 DEF Kill, Restart, UpdateState, ChangeReadiness, TypeOK
    <3>3. CountChange /\ OnlyControls
      BY <2>1 DEF Kill, Restart, UpdateState, ChangeReadiness
    <3>4. changes' \in Nat
      BY <3>3 DEF CountChange, TypeOK
    <3> QED BY <3>1, <3>2, <3>3, <3>4
            DEF OnlyControls, TypeOK, ScanTargets, PmTargets, Active, broker
  <2>2. ASSUME NEW sym \in Symbols, ManualTrade(sym)
        PROVE  Typed'
    BY <2>2 DEF ManualTrade, TypeOK, ScanTargets, PmTargets, Active
  <2> QED BY <1>1, <2>1, <2>2 DEF Operator
<1>2. ASSUME NEW o \in OrderIds, Deliver(o) \/ Lose(o) \/ Fill(o) \/ CancelOrder(o)
      PROVE  Typed'
  <2>1. orders[o] \in Order
    BY DEF TypeOK
  <2>2. orders' \in [OrderIds -> Order]
    BY <1>2, <2>1 DEF Deliver, Accept, Refuse, Lose, Fill, CancelOrder, TypeOK, Order,
                      OrderState
  <2>3. position' \in [Symbols -> Int] /\ opener' \in [Symbols -> RowIds \cup {None}]
    BY <1>2, <2>1 DEF Deliver, Accept, Refuse, Lose, Fill, CancelOrder, TypeOK, Order
  <2> QED
    BY <1>2, <2>2, <2>3
    DEF Deliver, Accept, Refuse, Lose, Fill, CancelOrder, BrokerUnchanged, CountFault,
        TypeOK, ScanTargets, PmTargets, Active
<1>3. CASE GatewayRestart
  <2>1. orders' \in [OrderIds -> Order]
    BY <1>3, ZenonT(60) DEF GatewayRestart, TypeOK, Order
  <2> QED BY <1>3, <2>1 DEF GatewayRestart, BrokerUnchanged, TypeOK, ScanTargets,
                            PmTargets, Active
<1>4. CASE ProcessRestart
  BY <1>4, NamesAssumption, NoPassType
  DEF ProcessRestart, CountFault, TypeOK, ScanTargets, PmTargets, Active, BeforePost,
      NoScan, Scan, ScanPC, NoPass, broker
<1>5. CASE PassFault
  BY <1>5, FailPassType
  DEF PassFault, CountFault, FailPass, TypeOK, ScanTargets, Active, broker
<1>6. ASSUME NEW s \in Scans, EntryFault(s)
      PROVE  Typed'
  <2>1. scan[s].sym \in Symbols /\ scan[s].row \in RowIds
    BY <1>6 DEF EntryFault, ScanTargets, Active, BeforePost
  <2>2. TypeOK'
    BY <1>6, <2>1, UnresolvedType DEF EntryFault, CountFault, TypeOK, broker
  <2>3. \A t \in Scans \ {s} : scan'[t] = scan[t]
    BY <1>6 DEF EntryFault, Unresolved, Record, LeaveItem, TypeOK
  <2>4. scan'[s].pc = "items"
    BY <1>6, AfterLeaveItem DEF EntryFault, Unresolved, Record
  <2> QED BY <1>6, <2>2, <2>3, <2>4
          DEF EntryFault, ScanTargets, PmTargets, Active, BeforePost
<1> QED BY <1>1, <1>2, <1>3, <1>4, <1>5, <1>6 DEF Environment, Failure

(* The types of all the variables hold in every reachable state: a scan or *)
(* a pass never acts on a symbol, a row or an order it has not taken.      *)
THEOREM TypeCorrectness == Spec => []TypeOK
<1>1. Init => Typed
  BY InitTyped
<1>2. Typed /\ [Next]_vars => Typed'
  <2> SUFFICES ASSUME Typed, [Next]_vars PROVE Typed'
    OBVIOUS
  <2>1. CASE UNCHANGED vars
    BY <2>1 DEF vars, Typed, TypeOK, ScanTargets, PmTargets, Active
  <2> QED BY <2>1, ScanStepTypeOK, ScanStepTargets, PmStepTyped, OtherStepTyped
          DEF Next, Typed
<1> QED BY <1>1, <1>2, PTL DEF Spec, Typed


-----------------------------------------------------------------------------
(* The invariant.                                                          *)

(* A scan past its intent holds a SUBMITTED row of its symbol, its own.    *)
ScanOwnsRow ==
    \A s \in Scans : Active(s) =>
        /\ rows[scan[s].row].status = "SUBMITTED"
        /\ rows[scan[s].row].sym = scan[s].sym
        /\ rows[scan[s].row].oid = None
RowOwnedOnce ==
    \A s, t \in Scans : Active(s) /\ Active(t) /\ scan[s].row = scan[t].row => s = t

(* A row has at most one order, sent by its scan and for its symbol.       *)
NoOrderYet ==
    \A s \in Scans, o \in OrderIds :
        scan[s].pc \in BeforePost => orders[o].row # scan[s].row
OrderOfScan ==
    \A s \in Scans :
        /\ scan[s].pc \in {"post", "verify"} => orders[scan[s].oid].row = scan[s].row
        /\ scan[s].pc = "verify" => Answered(scan[s].oid)
OneOrderPerRow ==
    \A o, p \in OrderIds :
        orders[o].row # None /\ orders[o].row = orders[p].row => o = p
OrderHasRow ==
    \A o \in OrderIds : orders[o].row # None =>
        /\ orders[o].st # "unused"
        /\ rows[orders[o].row].status # "UNUSED"
        /\ rows[orders[o].row].sym = orders[o].sym

(* An order still on its way keeps its row unresolved and without an id.   *)
InflightUnresolved ==
    \A o \in OrderIds :
        orders[o].row # None /\ orders[o].st = "inflight" =>
            /\ rows[orders[o].row].status = "SUBMITTED"
            /\ rows[orders[o].row].oid = None
UnacceptedUnfilled ==
    \A o \in OrderIds :
        orders[o].st \in {"unused", "inflight", "refused", "lost"}
            => orders[o].filled = 0

(* What the manager has marked is still unresolved in the table.           *)
DirtyUnresolved ==
    \A r \in pm.dirty : rows[r].status = "SUBMITTED" /\ rows[r].oid # None

(* Past the last read, no entry order of the symbol is under way or open.  *)
ReadyToPost ==
    \A s \in Scans, o \in OrderIds :
        /\ scan[s].pc = "account" /\ Live(o)
        /\ orders[o].row # None /\ orders[o].sym = scan[s].sym
        => FALSE

Ownership == ScanOwnsRow /\ RowOwnedOnce /\ DirtyUnresolved
Sending == NoOrderYet /\ OrderOfScan /\ OneOrderPerRow /\ OrderHasRow
           /\ InflightUnresolved /\ UnacceptedUnfilled
Serial == OneUnresolvedEntry /\ ReadyToPost /\ NoConcurrentEntryOrders
IInv == Typed /\ Ownership /\ Sending /\ Serial /\ ReleasedMeansDead

-----------------------------------------------------------------------------
(* The effects of a step on rows, orders, scans and what the pass marked.  *)

Same(s) == /\ scan'[s].sym = scan[s].sym /\ scan'[s].row = scan[s].row
           /\ scan'[s].oid = scan[s].oid
Others(s) == \A t \in Scans \ {s} : scan'[t] = scan[t]

Quiet ==
    /\ rows' = rows /\ orders' = orders
    /\ \A s \in Scans :
          \/ ~Active(s)'
          \/ scan'[s] = scan[s]
          \/ Same(s) /\ scan[s].pc \in BeforePost
             /\ scan'[s].pc \in BeforePost \ {"account"}
    /\ pm'.dirty \subseteq pm.dirty \cup SubmittedEntries

Beginning(s, sym, r) ==
    /\ scan[s].pc = "items" /\ scan'[s].pc = "positions"
    /\ scan'[s].sym = sym /\ scan'[s].row = r /\ Others(s)
    /\ ~Pending(sym) /\ rows[r].status = "UNUSED"
    /\ rows'[r].status = "SUBMITTED" /\ rows'[r].sym = sym /\ rows'[r].oid = None
    /\ \A q \in RowIds \ {r} : rows'[q] = rows[q]
    /\ orders' = orders /\ pm' = pm

Readying(s) ==
    /\ scan[s].pc = "orders2" /\ scan'[s].pc = "account" /\ Same(s) /\ Others(s)
    /\ ~OpenOrder(scan[s].sym)
    /\ rows' = rows /\ orders' = orders /\ pm' = pm

Posting(s, o) ==
    /\ scan[s].pc = "account" /\ scan'[s].pc = "post" /\ Others(s)
    /\ scan'[s].sym = scan[s].sym /\ scan'[s].row = scan[s].row /\ scan'[s].oid = o
    /\ orders[o].st = "unused" /\ orders'[o].st = "inflight"
    /\ orders'[o].sym = scan[s].sym /\ orders'[o].row = scan[s].row
    /\ orders'[o].filled = 0
    /\ \A p \in OrderIds \ {o} : orders'[p] = orders[p]
    /\ rows' = rows /\ pm' = pm

Closing(o) ==
    /\ orders[o].st = "unused" /\ orders'[o].st = "inflight"
    /\ orders'[o].row = None /\ orders'[o].filled = 0
    /\ \A p \in OrderIds \ {o} : orders'[p] = orders[p]
    /\ rows' = rows /\ scan' = scan /\ pm'.dirty = pm.dirty

Answering(s) ==
    /\ scan[s].pc = "post" /\ scan'[s].pc = "verify" /\ Same(s) /\ Others(s)
    /\ Answered(scan[s].oid)
    /\ rows' = rows /\ orders' = orders /\ pm' = pm

Recording(s, status, oid) ==
    /\ Active(s) /\ ~Active(s)' /\ Others(s)
    /\ rows'[scan[s].row].status = status /\ rows'[scan[s].row].oid = oid
    /\ rows'[scan[s].row].sym = rows[scan[s].row].sym
    /\ \A r \in RowIds \ {scan[s].row} : rows'[r] = rows[r]
    /\ orders' = orders /\ pm' = pm
    /\ status \in {"SUBMITTED", "EXECUTED", "BLOCK", "CANCELLED"}
    /\ \A o \in OrderIds : orders[o].row = scan[s].row =>
          /\ status # "SUBMITTED" \/ oid # None => orders[o].st # "inflight"
          /\ status \in {"BLOCK", "CANCELLED"} => ~Live(o) /\ orders[o].filled = 0

Committing ==
    /\ \A r \in RowIds :
          IF r \in pm.dirty
          THEN /\ rows'[r].status = "EXECUTED"
               /\ rows'[r].sym = rows[r].sym /\ rows'[r].oid = rows[r].oid
          ELSE \/ rows'[r] = rows[r]
               \/ /\ rows[r].status = "UNUSED"
                  /\ rows'[r].status \in {"EXIT_SUBMITTED", "EXIT_EXECUTED"}
    /\ orders' = orders /\ scan' = scan /\ pm'.dirty = {}

Brokering ==
    /\ \A o \in OrderIds :
          /\ orders'[o].row = orders[o].row /\ orders'[o].sym = orders[o].sym
          /\ \/ orders'[o].st = orders[o].st /\ orders'[o].filled = orders[o].filled
             \/ /\ orders[o].st = "inflight"
                /\ orders'[o].st \in {"working", "refused", "lost"}
                /\ orders'[o].filled = orders[o].filled
             \/ /\ orders[o].st = "working"
                /\ orders'[o].st \in {"working", "filled", "cancelled"}
    /\ rows' = rows /\ scan' = scan /\ pm' = pm

Effect ==
    \/ Quiet \/ Committing \/ Brokering
    \/ \E s \in Scans :
          \/ \E sym \in Symbols, r \in RowIds : Beginning(s, sym, r)
          \/ Readying(s) \/ Answering(s)
          \/ \E o \in OrderIds : Posting(s, o)
          \/ \E status \in RowStatus, oid \in OrderIds \cup {None} :
                Recording(s, status, oid)
    \/ \E o \in OrderIds : Closing(o)

-----------------------------------------------------------------------------
(* Each effect preserves the invariant.                                    *)

LEMMA QuietPreserves ==
  ASSUME IInv, Typed', Quiet
  PROVE  IInv'
<1> USE DEF IInv
<1>1. Ownership'
  BY DEF Quiet, Typed, TypeOK, Ownership, ScanOwnsRow, RowOwnedOnce, DirtyUnresolved,
         SubmittedEntries, Seen, Active, BeforePost, Same
<1>2. Sending'
  BY DEF Quiet, Sending, NoOrderYet, OrderOfScan, OneOrderPerRow, OrderHasRow,
         InflightUnresolved, UnacceptedUnfilled, Answered, Active, BeforePost, Same
<1>3. Serial'
  BY DEF Quiet, Serial, OneUnresolvedEntry, ReadyToPost, NoConcurrentEntryOrders, Live,
         Active, BeforePost, Same
<1>4. ReleasedMeansDead'
  BY DEF Quiet, ReleasedMeansDead, Live
<1> QED BY <1>1, <1>2, <1>3, <1>4

LEMMA BeginningPreserves ==
  ASSUME IInv, Typed', NEW s \in Scans, NEW sym \in Symbols, NEW r \in RowIds,
         Beginning(s, sym, r)
  PROVE  IInv'
<1> USE DEF IInv, Beginning
<1>a. \A t \in Scans : Active(t) => scan[t].row \in RowIds /\ scan[t].row # r
  BY DEF Typed, ScanTargets, Ownership, ScanOwnsRow
<1>b. \A o \in OrderIds : orders[o].row # r /\ orders[o].row \in RowIds \cup {None}
  BY NamesAssumption DEF Typed, TypeOK, Order, Sending, OrderHasRow
<1>1. Ownership'
  BY <1>a DEF Ownership, ScanOwnsRow, RowOwnedOnce, DirtyUnresolved, Typed, TypeOK, Pass,
              Others, Active, BeforePost
<1>2. Sending'
  BY <1>a, <1>b
  DEF Sending, NoOrderYet, OrderOfScan, OneOrderPerRow, OrderHasRow, InflightUnresolved,
      UnacceptedUnfilled, Answered, Others, BeforePost
<1>3. Serial'
  BY DEF Serial, OneUnresolvedEntry, ReadyToPost, NoConcurrentEntryOrders, Live, Pending,
         Others
<1>4. ReleasedMeansDead'
  BY <1>b DEF ReleasedMeansDead, Live
<1> QED BY <1>1, <1>2, <1>3, <1>4

(* The second look at the orders sees everything but the unsent order of   *)
(* an unresolved row, and the symbol's unresolved row is the scan's own.   *)
LEMMA ReadyingPreserves ==
  ASSUME IInv, Typed', NEW s \in Scans, Readying(s)
  PROVE  IInv'
<1> USE DEF IInv, Readying
<1>a. Active(s) /\ scan[s].row \in RowIds /\ \A o \in OrderIds : orders[o].row # scan[s].row
  BY DEF Active, BeforePost, Typed, ScanTargets, Sending, NoOrderYet
<1>b. \A o \in OrderIds :
        orders[o].row # None /\ orders[o].sym = scan[s].sym => ~Live(o)
  <2> SUFFICES ASSUME NEW o \in OrderIds, orders[o].row # None,
                      orders[o].sym = scan[s].sym, orders[o].st = "inflight"
               PROVE  FALSE
    BY DEF OpenOrder, Live
  <2>1. orders[o].row \in RowIds /\ rows[orders[o].row].status = "SUBMITTED"
        /\ rows[orders[o].row].sym = scan[s].sym
    BY DEF Typed, TypeOK, Order, Sending, OrderHasRow, InflightUnresolved
  <2> QED BY <1>a, <2>1 DEF Ownership, ScanOwnsRow, Serial, OneUnresolvedEntry
<1>1. Ownership'
  BY DEF Ownership, ScanOwnsRow, RowOwnedOnce, DirtyUnresolved, Others, Same, Active,
         BeforePost
<1>2. Sending'
  BY DEF Sending, NoOrderYet, OrderOfScan, OneOrderPerRow, OrderHasRow, InflightUnresolved,
         UnacceptedUnfilled, Answered, Others, Same, BeforePost
<1>3. Serial'
  BY <1>b DEF Serial, OneUnresolvedEntry, ReadyToPost, NoConcurrentEntryOrders, Live,
              Others, Same
<1>4. ReleasedMeansDead'
  BY DEF ReleasedMeansDead, Live
<1> QED BY <1>1, <1>2, <1>3, <1>4

LEMMA PostingPreserves ==
  ASSUME IInv, Typed', NEW s \in Scans, NEW o \in OrderIds, Posting(s, o)
  PROVE  IInv'
<1> USE DEF IInv, Posting
<1>a. /\ Active(s) /\ scan[s].row \in RowIds /\ scan[s].row # None
      /\ rows[scan[s].row].status = "SUBMITTED" /\ rows[scan[s].row].oid = None
      /\ rows[scan[s].row].sym = scan[s].sym
      /\ \A p \in OrderIds : orders[p].row # scan[s].row
  BY NamesAssumption DEF Active, BeforePost, Typed, ScanTargets, Sending, NoOrderYet,
                         Ownership, ScanOwnsRow
<1>b. \A t \in Scans : Active(t) /\ t # s =>
         scan[t].row # scan[s].row /\ scan[t].sym # scan[s].sym /\ scan[t].row \in RowIds
  BY <1>a DEF Ownership, ScanOwnsRow, RowOwnedOnce, Serial, OneUnresolvedEntry, Typed,
              ScanTargets
<1>c. orders[o].row = None
  BY DEF Sending, OrderHasRow
<1>d. \A t \in Scans : scan[t].pc \in {"post", "verify"} =>
         scan[t].oid # o /\ scan[t].oid \in OrderIds
  BY <1>c, NamesAssumption DEF Typed, ScanTargets, Active, Sending, OrderOfScan
<1>1. Ownership'
  BY DEF Ownership, ScanOwnsRow, RowOwnedOnce, DirtyUnresolved, Others, Active, BeforePost
<1>2. Sending'
  BY <1>a, <1>b, <1>c, <1>d
  DEF Sending, NoOrderYet, OrderOfScan, OneOrderPerRow, OrderHasRow, InflightUnresolved,
      UnacceptedUnfilled, Answered, Others, Active, BeforePost
<1>3. Serial'
  BY <1>a, <1>b DEF Serial, OneUnresolvedEntry, ReadyToPost, NoConcurrentEntryOrders, Live,
                    Others, Active, BeforePost
<1>4. ReleasedMeansDead'
  BY <1>a DEF ReleasedMeansDead, Live
<1> QED BY <1>1, <1>2, <1>3, <1>4

LEMMA ClosingPreserves ==
  ASSUME IInv, Typed', NEW o \in OrderIds, Closing(o)
  PROVE  IInv'
<1> USE DEF IInv, Closing
<1>c. orders[o].row = None
  BY DEF Sending, OrderHasRow
<1>a. \A s \in Scans : scan[s].pc \in {"post", "verify"} =>
         scan[s].oid # o /\ scan[s].oid \in OrderIds
  BY <1>c, NamesAssumption DEF Typed, ScanTargets, Active, Sending, OrderOfScan
<1>b. \A s \in Scans : Active(s) => scan[s].row # None
  BY NamesAssumption DEF Typed, ScanTargets
<1>1. Ownership'
  BY DEF Ownership, ScanOwnsRow, RowOwnedOnce, DirtyUnresolved, Active
<1>2. Sending'
  BY <1>a, <1>b, <1>c
  DEF Sending, NoOrderYet, OrderOfScan, OneOrderPerRow, OrderHasRow, InflightUnresolved,
      UnacceptedUnfilled, Answered, Active, BeforePost
<1>3. Serial'
  BY DEF Serial, OneUnresolvedEntry, ReadyToPost, NoConcurrentEntryOrders, Live
<1>4. ReleasedMeansDead'
  BY DEF ReleasedMeansDead, Live
<1> QED BY <1>1, <1>2, <1>3, <1>4

LEMMA AnsweringPreserves ==
  ASSUME IInv, Typed', NEW s \in Scans, Answering(s)
  PROVE  IInv'
<1> USE DEF IInv, Answering
<1>1. Ownership'
  BY DEF Ownership, ScanOwnsRow, RowOwnedOnce, DirtyUnresolved, Others, Same, Active,
         BeforePost
<1>2. Sending'
  BY DEF Sending, NoOrderYet, OrderOfScan, OneOrderPerRow, OrderHasRow, InflightUnresolved,
         UnacceptedUnfilled, Answered, Others, Same, BeforePost
<1>3. Serial'
  BY DEF Serial, OneUnresolvedEntry, ReadyToPost, NoConcurrentEntryOrders, Live, Others
<1>4. ReleasedMeansDead'
  BY DEF ReleasedMeansDead, Live
<1> QED BY <1>1, <1>2, <1>3, <1>4

LEMMA RecordingPreserves ==
  ASSUME IInv, Typed', NEW s \in Scans, NEW status \in RowStatus,
         NEW oid \in OrderIds \cup {None}, Recording(s, status, oid)
  PROVE  IInv'
<1> USE DEF IInv, Recording
<1>a. /\ scan[s].row \in RowIds
      /\ rows[scan[s].row].status = "SUBMITTED" /\ rows[scan[s].row].oid = None
  BY DEF Typed, ScanTargets, Ownership, ScanOwnsRow
<1>b. \A t \in Scans : Active(t) /\ t # s =>
         scan[t].row # scan[s].row /\ scan[t].row \in RowIds
  BY DEF Ownership, RowOwnedOnce, Typed, ScanTargets
<1>c. \A o \in OrderIds : orders[o].row \in RowIds \cup {None}
  BY DEF Typed, TypeOK, Order
<1>d. pm.dirty \subseteq RowIds
  BY DEF Typed, TypeOK, Pass
<1>1. Ownership'
  BY <1>a, <1>b, <1>d
  DEF Ownership, ScanOwnsRow, RowOwnedOnce, DirtyUnresolved, Others, Active
<1>2. Sending'
  BY <1>a, <1>b, <1>c
  DEF Sending, NoOrderYet, OrderOfScan, OneOrderPerRow, OrderHasRow, InflightUnresolved,
      UnacceptedUnfilled, Answered, Others, Active, BeforePost
<1>3. Serial'
  BY <1>a DEF Serial, OneUnresolvedEntry, ReadyToPost, NoConcurrentEntryOrders, Live,
              Others, Active, BeforePost
<1>4. ReleasedMeansDead'
  BY <1>a, <1>c DEF ReleasedMeansDead, Live
<1> QED BY <1>1, <1>2, <1>3, <1>4

(* The manager resolves only rows whose order id was saved, so never the   *)
(* row of a scan under way nor of an order on its way.                     *)
LEMMA CommittingPreserves ==
  ASSUME IInv, Typed', Committing
  PROVE  IInv'
<1> USE DEF IInv, Committing
<1>a. \A r \in RowIds : r \in pm.dirty => rows[r].status = "SUBMITTED" /\ rows[r].oid # None
  BY DEF Ownership, DirtyUnresolved
<1>b. \A s \in Scans : Active(s) =>
         /\ scan[s].row \in RowIds /\ scan[s].row \notin pm.dirty
         /\ rows'[scan[s].row] = rows[scan[s].row]
  BY <1>a DEF Typed, ScanTargets, Ownership, ScanOwnsRow
<1>c. \A o \in OrderIds : orders[o].row # None =>
         /\ orders[o].row \in RowIds
         /\ rows'[orders[o].row].sym = rows[orders[o].row].sym
         /\ \/ rows'[orders[o].row] = rows[orders[o].row]
            \/ /\ rows'[orders[o].row].status = "EXECUTED"
               /\ rows[orders[o].row].oid # None
  BY <1>a DEF Typed, TypeOK, Order, Sending, OrderHasRow
<1>d. \A r \in RowIds : rows'[r].status = "SUBMITTED" => rows'[r] = rows[r]
  OBVIOUS
<1>1. Ownership'
  BY <1>b DEF Ownership, ScanOwnsRow, RowOwnedOnce, DirtyUnresolved, Active
<1>2. Sending'
  BY <1>c DEF Sending, NoOrderYet, OrderOfScan, OneOrderPerRow, OrderHasRow,
              InflightUnresolved, UnacceptedUnfilled, Answered
<1>3. Serial'
  BY <1>d DEF Serial, OneUnresolvedEntry, ReadyToPost, NoConcurrentEntryOrders, Live
<1>4. ReleasedMeansDead'
  BY <1>c DEF ReleasedMeansDead, Live
<1> QED BY <1>1, <1>2, <1>3, <1>4

LEMMA BrokeringPreserves ==
  ASSUME IInv, Typed', Brokering
  PROVE  IInv'
<1> USE DEF IInv, Brokering
<1>1. Ownership'
  BY DEF Ownership, ScanOwnsRow, RowOwnedOnce, DirtyUnresolved, Active
<1>2. Sending'
  BY DEF Sending, NoOrderYet, OrderOfScan, OneOrderPerRow, OrderHasRow, InflightUnresolved,
         UnacceptedUnfilled, Answered, Typed, ScanTargets
<1>3. Serial'
  BY DEF Serial, OneUnresolvedEntry, ReadyToPost, NoConcurrentEntryOrders, Live
<1>4. ReleasedMeansDead'
  BY DEF ReleasedMeansDead, Live
<1> QED BY <1>1, <1>2, <1>3, <1>4

LEMMA EffectPreserves == IInv /\ Typed' /\ Effect => IInv'
  BY QuietPreserves, BeginningPreserves, ReadyingPreserves, PostingPreserves,
     ClosingPreserves, AnsweringPreserves, RecordingPreserves, CommittingPreserves,
     BrokeringPreserves
  DEF Effect

-----------------------------------------------------------------------------
(* Every step has one of the effects.                                      *)

LEMMA OthersUnchanged ==
  ASSUME TypeOK, NEW s \in Scans, ScanStep(s) \/ EntryFault(s)
  PROVE  Others(s)
  BY DEF Others, TypeOK, ScanStep, StartScan, FinishScan, BeginEntry, RefuseEntry,
         ReadPositions, ReadOrders, ReserveEntry, RereadPositions, RereadOrders, PostEntry,
         PostAnswered, VerifyFill, EntryFault, Unresolved, Record, LeaveItem, GoTo

(* Record writes the result over the scan's own row and leaves the item.   *)
LEMMA RecordEffect ==
  ASSUME IInv, NEW s \in Scans, Active(s), NEW status \in RowStatus,
         NEW oid \in OrderIds \cup {None}, Record(s, status, oid), Others(s),
         orders' = orders, pm' = pm,
         status \in {"SUBMITTED", "EXECUTED", "BLOCK", "CANCELLED"},
         \A o \in OrderIds : orders[o].row = scan[s].row =>
            /\ status # "SUBMITTED" \/ oid # None => orders[o].st # "inflight"
            /\ status \in {"BLOCK", "CANCELLED"} => ~Live(o) /\ orders[o].filled = 0
  PROVE  Effect
<1>1. scan[s].row \in RowIds /\ rows[scan[s].row] \in Row
  BY DEF IInv, Typed, TypeOK, ScanTargets
<1>2. scan'[s].pc = "items"
  BY AfterLeaveItem DEF IInv, Typed, Record
<1>3. rows'[scan[s].row]
        = [[rows[scan[s].row] EXCEPT !.status = status] EXCEPT !.oid = oid]
  BY <1>1 DEF Record, IInv, Typed, TypeOK
<1>4. /\ rows'[scan[s].row].status = status /\ rows'[scan[s].row].oid = oid
      /\ rows'[scan[s].row].sym = rows[scan[s].row].sym
  BY <1>1, <1>3 DEF Row
<1>5. \A r \in RowIds \ {scan[s].row} : rows'[r] = rows[r]
  BY DEF Record, IInv, Typed, TypeOK
<1>6. Recording(s, status, oid)
  BY <1>2, <1>4, <1>5 DEF Recording, Active, BeforePost
<1> QED BY <1>6 DEF Effect

LEMMA UnresolvedEffect ==
  ASSUME IInv, NEW s \in Scans, Active(s), Unresolved(s), Others(s), orders' = orders,
         pm' = pm
  PROVE  Effect
  BY RecordEffect DEF Unresolved, RowStatus

(* A result reached before the post concerns no order.                     *)
LEMMA BlockEffect ==
  ASSUME IInv, NEW s \in Scans, scan[s].pc \in BeforePost, Record(s, "BLOCK", None),
         Others(s), orders' = orders, pm' = pm
  PROVE  Effect
  BY RecordEffect DEF RowStatus, IInv, Sending, NoOrderYet, Active

LEMMA GoToEffect ==
  ASSUME IInv, NEW s \in Scans, scan[s].pc \in BeforePost,
         NEW pc \in BeforePost \ {"account"}, GoTo(s, pc), Others(s),
         rows' = rows, orders' = orders, pm' = pm
  PROVE  Effect
  BY AfterGoTo DEF IInv, Typed, Effect, Quiet, Same, Others

LEMMA ScanStepEffect ==
  ASSUME IInv, NEW s \in Scans, ScanStep(s)
  PROVE  Effect
<1> USE DEF BeforePost, Active
<1>a. TypeOK /\ Others(s)
  BY OthersUnchanged DEF IInv, Typed
<1>1. CASE StartScan(s) \/ FinishScan(s)
  <2>1. /\ NoScan.pc = "idle"
        /\ [NoScan EXCEPT !.pc = "items", !.todo = Symbols, !.stamp = Tick].pc = "items"
    BY DEF NoScan
  <2>2. scan'[s].pc \in {"idle", "items"}
    BY <1>1, <1>a, <2>1 DEF StartScan, FinishScan, TypeOK
  <2> QED BY <1>1, <1>a, <2>2 DEF StartScan, FinishScan, Effect, Quiet, Others, broker
<1>2. ASSUME NEW sym \in Symbols, BeginEntry(s, sym)
      PROVE  Effect
  <2>1. CASE LeaveItem(s, sym) /\ UNCHANGED << rows, clock >>
    BY <1>2, <1>a, <2>1, AfterLeaveItem DEF BeginEntry, Effect, Quiet, Others, broker
  <2>2. ASSUME ~Pending(sym), NEW r \in RowIds, NEW d \in Sides,
               rows[r].status = "UNUSED",
               rows' = [rows EXCEPT ![r] =
                           [status |-> "SUBMITTED", sym |-> sym, side |-> d,
                            oid |-> None, stamp |-> StampOf(scan[s].stamp)]],
               Begun(s, sym, r)
        PROVE  Effect
    <3>1. scan'[s].pc = "positions" /\ scan'[s].sym = sym /\ scan'[s].row = r
      BY <1>a, <2>2, AfterBegin
    <3>2. /\ rows'[r].status = "SUBMITTED" /\ rows'[r].sym = sym /\ rows'[r].oid = None
          /\ \A q \in RowIds \ {r} : rows'[q] = rows[q]
      BY <1>a, <2>2 DEF TypeOK
    <3>3. scan[s].pc = "items" /\ orders' = orders /\ pm' = pm
      BY <1>2 DEF BeginEntry, broker
    <3>4. Beginning(s, sym, r)
      BY <1>a, <2>2, <3>1, <3>2, <3>3 DEF Beginning
    <3> QED BY <3>4 DEF Effect
  <2> QED BY <1>2, <2>1, <2>2 DEF BeginEntry, Begun
<1>3. CASE RefuseEntry(s)
  BY <1>3, <1>a, BlockEffect DEF RefuseEntry, broker
<1>4. CASE ReadPositions(s)
  BY <1>4, <1>a, GoToEffect DEF ReadPositions, broker
<1>5. CASE ReadOrders(s)
  BY <1>5, <1>a, GoToEffect DEF ReadOrders, broker
<1>6. CASE ReserveEntry(s)
  BY <1>6, <1>a, BlockEffect, UnresolvedEffect, GoToEffect DEF ReserveEntry, broker
<1>7. CASE RereadPositions(s)
  BY <1>7, <1>a, UnresolvedEffect, GoToEffect DEF RereadPositions, broker
<1>8. CASE RereadOrders(s)
  <2>1. CASE OpenOrder(scan[s].sym)
    BY <1>8, <1>a, <2>1, UnresolvedEffect DEF RereadOrders, broker
  <2>2. CASE ~OpenOrder(scan[s].sym) /\ ~Authorized
    BY <1>8, <1>a, <2>2, BlockEffect DEF RereadOrders, broker
  <2>3. CASE ~OpenOrder(scan[s].sym) /\ Authorized
    <3>1. GoTo(s, "account") /\ rows' = rows /\ orders' = orders /\ pm' = pm
          /\ scan[s].pc = "orders2"
      BY <1>8, <2>3 DEF RereadOrders, broker
    <3>2. Readying(s)
      BY <1>a, <2>3, <3>1, AfterGoTo DEF Readying, Same
    <3> QED BY <3>2 DEF Effect
  <2> QED BY <2>1, <2>2, <2>3
<1>9. CASE PostEntry(s)
  <2>1. PICK o \in OrderIds :
              /\ Post(o, scan[s].sym, rows[scan[s].row].side, Qty, scan[s].row)
              /\ Sent(s, o)
    BY <1>9 DEF PostEntry, Sent
  <2>2. scan[s].pc = "account" /\ rows' = rows /\ pm' = pm
    BY <1>9 DEF PostEntry
  <2>3. Posting(s, o)
    BY <1>a, <2>1, <2>2, AfterPost DEF Posting, Post, TypeOK
  <2> QED BY <2>3 DEF Effect
<1>10. CASE PostAnswered(s)
  <2>a. /\ scan[s].pc = "post" /\ orders[scan[s].oid].row = scan[s].row
        /\ scan[s].oid \in OrderIds /\ scan[s].row # None
        /\ \A o \in OrderIds : orders[o].row = scan[s].row => o = scan[s].oid
    BY <1>10, NamesAssumption DEF PostAnswered, IInv, Typed, ScanTargets, Sending,
                                  OrderOfScan, OneOrderPerRow
  <2>1. CASE Answered(scan[s].oid)
    <3>1. GoTo(s, "verify") /\ rows' = rows /\ orders' = orders /\ pm' = pm
      BY <1>10, <2>1 DEF PostAnswered, Answered, broker
    <3>2. Answering(s)
      BY <1>a, <2>a, <2>1, <3>1, AfterGoTo DEF Answering, Same
    <3> QED BY <3>2 DEF Effect
  <2>2. CASE orders[scan[s].oid].st = "refused" /\ Record(s, "BLOCK", None)
    <3>1. orders[scan[s].oid].filled = 0 /\ ~Live(scan[s].oid)
      BY <2>a, <2>2 DEF IInv, Sending, UnacceptedUnfilled, Live
    <3> QED BY <1>10, <1>a, <2>a, <2>2, <3>1, RecordEffect
            DEF PostAnswered, RowStatus, broker
  <2>3. CASE Unresolved(s)
    BY <1>10, <1>a, <2>3, UnresolvedEffect DEF PostAnswered, broker
  <2> QED BY <1>10, <2>1, <2>2, <2>3 DEF PostAnswered
<1>11. CASE VerifyFill(s)
  <2>a. /\ scan[s].pc = "verify" /\ Answered(scan[s].oid)
        /\ scan[s].oid \in OrderIds
        /\ \A o \in OrderIds : orders[o].row = scan[s].row => o = scan[s].oid
    BY <1>11, NamesAssumption DEF VerifyFill, IInv, Typed, ScanTargets, Sending,
                                  OrderOfScan, OneOrderPerRow
  <2>1. PICK status \in {"SUBMITTED", "EXECUTED", "CANCELLED"} :
              /\ Record(s, status, scan[s].oid)
              /\ status = "CANCELLED" => /\ orders[scan[s].oid].st = "cancelled"
                                         /\ orders[scan[s].oid].filled = 0
    BY <1>11 DEF VerifyFill
  <2> QED BY <1>11, <1>a, <2>a, <2>1, RecordEffect
          DEF VerifyFill, RowStatus, Answered, Live, broker
<1> QED
  BY <1>1, <1>2, <1>3, <1>4, <1>5, <1>6, <1>7, <1>8, <1>9, <1>10, <1>11 DEF ScanStep

(* A step that leaves rows, orders and scans alone and marks nothing but   *)
(* unresolved entries whose id was saved.                                  *)
LEMMA PmQuiet ==
  ASSUME rows' = rows, orders' = orders, scan' = scan,
         pm'.dirty \subseteq pm.dirty \cup SubmittedEntries
  PROVE  Effect
  BY DEF Effect, Quiet

LEMMA SkipDirty ==
  ASSUME IInv, NEW sym, Skip(sym)
  PROVE  pm'.dirty = pm.dirty
<1>1. pm \in Pass
  BY DEF IInv, Typed, TypeOK
<1> QED BY <1>1 DEF Skip, Pass

LEMMA FailPassDirty == FailPass => pm'.dirty = {} /\ rows' = rows
  BY DEF FailPass, NoPass

LEMMA PmStepEffect ==
  ASSUME IInv, PmStep
  PROVE  Effect
<1>a. pm \in Pass /\ TypeOK /\ Typed
  BY DEF IInv, Typed, TypeOK
<1>1. CASE StartPass
  <2>1. pm'.dirty = {}
    BY <1>1 DEF StartPass, NoPass
  <2> QED BY <1>1, <2>1, PmQuiet DEF StartPass, PmUnchanged, broker
<1>2. CASE ReconcileExecutions
  <2>1. pm'.dirty \subseteq SubmittedEntries
    BY <1>2, <1>a DEF ReconcileExecutions, Pass
  <2> QED BY <1>2, <2>1, PmQuiet DEF ReconcileExecutions, PmUnchanged, broker
<1>3. CASE ReconcilePositions
  <2>1. pm'.dirty \subseteq pm.dirty \cup SubmittedEntries
    BY <1>3, <1>a DEF ReconcilePositions, Pass
  <2> QED BY <1>3, <2>1, PmQuiet DEF ReconcilePositions, PmUnchanged, broker
<1>4. ASSUME NEW sym \in Symbols, CheckOwnership(sym)
      PROVE  Effect
  <2>1. pm'.dirty = pm.dirty
    BY <1>4, <1>a, SkipDirty DEF CheckOwnership, Pass
  <2> QED BY <1>4, <2>1, PmQuiet DEF CheckOwnership, PmUnchanged, broker
<1>5. CASE CheckEntryFill
  <2>1. pm'.dirty = pm.dirty
    BY <1>5, <1>a, SkipDirty DEF CheckEntryFill, Pass
  <2> QED BY <1>5, <2>1, PmQuiet DEF CheckEntryFill, PmUnchanged, broker
<1>6. CASE Hold
  BY <1>6, SkipDirty, PmQuiet DEF Hold, PmUnchanged, broker
<1>7. CASE ReserveClose
  <2>1. pm'.dirty \subseteq pm.dirty /\ rows' = rows
    BY <1>7, <1>a, FailPassDirty DEF ReserveClose, Pass
  <2> QED BY <1>7, <2>1, PmQuiet DEF ReserveClose, PmUnchanged, broker
<1>8. CASE CloseRereadPositions
  <2>1. pm'.dirty \subseteq pm.dirty /\ rows' = rows
    BY <1>8, <1>a, FailPassDirty DEF CloseRereadPositions, Pass
  <2> QED BY <1>8, <2>1, PmQuiet DEF CloseRereadPositions, PmUnchanged, broker
<1>9. CASE CloseRereadOrders
  <2>1. pm'.dirty \subseteq pm.dirty /\ rows' = rows
    BY <1>9, <1>a, FailPassDirty DEF CloseRereadOrders, Pass
  <2> QED BY <1>9, <2>1, PmQuiet DEF CloseRereadOrders, PmUnchanged, broker
<1>10. CASE PostClose
  <2>1. PICK o \in OrderIds :
              /\ Post(o, pm.sym, IF pm.snap[pm.sym] > 0 THEN -1 ELSE 1,
                      IF pm.snap[pm.sym] > 0 THEN pm.snap[pm.sym] ELSE -pm.snap[pm.sym],
                      None)
              /\ pm' = [pm EXCEPT !.pc = "post", !.oid = o]
    BY <1>10 DEF PostClose
  <2>2. pm'.dirty = pm.dirty
    BY <2>1, <1>a DEF Pass
  <2>3. rows' = rows /\ scan' = scan
    BY <1>10 DEF PostClose, PmUnchanged
  <2>4. Closing(o)
    BY <1>a, <2>1, <2>2, <2>3 DEF Closing, Post, TypeOK
  <2> QED BY <2>4 DEF Effect
<1>11. CASE CloseAnswered
  <2>1. pm'.dirty \subseteq pm.dirty /\ rows' = rows
    BY <1>11, <1>a, FailPassDirty DEF CloseAnswered, Pass
  <2> QED BY <1>11, <2>1, PmQuiet DEF CloseAnswered, PmUnchanged, broker
<1>b. \A r \in RowIds :
        /\ r \notin pm.dirty => Committed[r] = rows[r]
        /\ r \in pm.dirty => /\ Committed[r].status = "EXECUTED"
                             /\ Committed[r].sym = rows[r].sym
                             /\ Committed[r].oid = rows[r].oid
                             /\ rows[r].status = "SUBMITTED"
  BY <1>a DEF Committed, TypeOK, Row, IInv, Ownership, DirtyUnresolved
<1>12. CASE VerifyClose
  <2>1. PICK r \in RowIds, status \in {"EXIT_SUBMITTED", "EXIT_EXECUTED"} :
              /\ rows[r].status = "UNUSED"
              /\ rows' = [Committed EXCEPT ![r] =
                             [status |-> status, sym |-> pm.sym,
                              side |-> orders[pm.oid].side, oid |-> pm.oid,
                              stamp |-> StampOf(pm.stamp)]]
    BY <1>12 DEF VerifyClose
  <2>2. rows'[r].status = status /\ \A q \in RowIds \ {r} : rows'[q] = Committed[q]
    BY <2>1 DEF Committed
  <2>3. pm'.dirty = {} /\ orders' = orders /\ scan' = scan
    BY <1>12, <1>a DEF VerifyClose, PmUnchanged, Pass, broker
  <2>4. Committing
    BY <1>b, <2>1, <2>2, <2>3 DEF Committing
  <2> QED BY <2>4 DEF Effect
<1>13. CASE EndPass
  <2>1. pm'.dirty = {} /\ orders' = orders /\ scan' = scan
    BY <1>13 DEF EndPass, PmUnchanged, NoPass, broker
  <2>2. Committing
    BY <1>13, <1>b, <2>1 DEF EndPass, Committing
  <2> QED BY <2>2 DEF Effect
<1> QED
  BY <1>1, <1>2, <1>3, <1>4, <1>5, <1>6, <1>7, <1>8, <1>9, <1>10, <1>11, <1>12, <1>13
  DEF PmStep

LEMMA OtherStepEffect ==
  ASSUME IInv, Operator \/ Environment \/ Failure
  PROVE  Effect
<1>a. TypeOK /\ Typed
  BY DEF IInv, Typed
<1>1. CASE Operator
  BY <1>1, PmQuiet DEF Operator, Kill, Restart, UpdateState, ChangeReadiness, ManualTrade,
                       OnlyControls, broker
<1>2. ASSUME NEW o \in OrderIds, Deliver(o) \/ Lose(o) \/ Fill(o) \/ CancelOrder(o)
      PROVE  Effect
  <2>1. orders[o] \in Order /\ \A p \in OrderIds \ {o} : orders'[p] = orders[p]
    BY <1>2, <1>a DEF Deliver, Accept, Refuse, Lose, Fill, CancelOrder, TypeOK
  <2>2. rows' = rows /\ scan' = scan /\ pm' = pm
    BY <1>2 DEF Deliver, Accept, Refuse, Lose, Fill, CancelOrder, BrokerUnchanged
  <2>3. /\ orders'[o].row = orders[o].row /\ orders'[o].sym = orders[o].sym
        /\ \/ /\ orders[o].st = "inflight"
              /\ orders'[o].st \in {"working", "refused", "lost"}
              /\ orders'[o].filled = orders[o].filled
           \/ /\ orders[o].st = "working"
              /\ orders'[o].st \in {"working", "filled", "cancelled"}
    BY <1>2, <1>a, <2>1
    DEF Deliver, Accept, Refuse, Lose, Fill, CancelOrder, TypeOK, Order
  <2>4. Brokering
    BY <2>1, <2>2, <2>3 DEF Brokering
  <2> QED BY <2>4 DEF Effect
<1>3. CASE GatewayRestart
  <2>1. rows' = rows /\ scan' = scan /\ pm' = pm
    BY <1>3 DEF GatewayRestart, BrokerUnchanged
  <2>2. \A o \in OrderIds : /\ orders'[o].row = orders[o].row
                            /\ orders'[o].sym = orders[o].sym
                            /\ orders'[o].st = orders[o].st
                            /\ orders'[o].filled = orders[o].filled
    BY <1>3, <1>a DEF GatewayRestart, TypeOK, Order
  <2>3. Brokering
    BY <2>1, <2>2 DEF Brokering
  <2> QED BY <2>3 DEF Effect
<1>4. CASE ProcessRestart
  BY <1>4 DEF ProcessRestart, NoScan, NoPass, Active, BeforePost, Effect, Quiet, broker
<1>5. CASE PassFault
  BY <1>5, FailPassDirty, PmQuiet DEF PassFault, broker
<1>6. ASSUME NEW s \in Scans, EntryFault(s)
      PROVE  Effect
  BY <1>6, <1>a, OthersUnchanged, UnresolvedEffect
  DEF EntryFault, Active, BeforePost, broker
<1> QED BY <1>1, <1>2, <1>3, <1>4, <1>5, <1>6 DEF Environment, Failure

-----------------------------------------------------------------------------
LEMMA InitIInv == Init => IInv
<1> SUFFICES ASSUME Init PROVE IInv
  OBVIOUS
<1>1. \A s \in Scans : ~Active(s) /\ scan[s].pc = "idle"
  BY DEF Init, NoScan, Active, BeforePost
<1>2. \A o \in OrderIds : orders[o].row = None /\ orders[o].st = "unused"
                          /\ orders[o].filled = 0
  BY DEF Init, NoOrder
<1>3. \A r \in RowIds : rows[r].status = "UNUSED"
  BY DEF Init, NoRow
<1>4. pm.dirty = {}
  BY DEF Init, NoPass
<1>5. Ownership /\ Sending
  BY <1>1, <1>2, <1>4
  DEF Ownership, ScanOwnsRow, RowOwnedOnce, DirtyUnresolved, Sending, NoOrderYet,
      OrderOfScan, OneOrderPerRow, OrderHasRow, InflightUnresolved, UnacceptedUnfilled,
      BeforePost
<1>6. Serial /\ ReleasedMeansDead
  BY <1>1, <1>2, <1>3
  DEF Serial, OneUnresolvedEntry, ReadyToPost, NoConcurrentEntryOrders, ReleasedMeansDead
<1> QED BY <1>5, <1>6, InitTyped DEF IInv

LEMMA TypedStep == Typed /\ [Next]_vars => Typed'
<1> SUFFICES ASSUME Typed, [Next]_vars PROVE Typed'
  OBVIOUS
<1>1. CASE UNCHANGED vars
  BY <1>1 DEF vars, Typed, TypeOK, ScanTargets, PmTargets, Active
<1> QED BY <1>1, ScanStepTypeOK, ScanStepTargets, PmStepTyped, OtherStepTyped
        DEF Next, Typed

LEMMA StepEffect == IInv /\ [Next]_vars => Effect
<1> SUFFICES ASSUME IInv, [Next]_vars PROVE Effect
  OBVIOUS
<1>1. CASE UNCHANGED vars
  BY <1>1, PmQuiet DEF vars
<1> QED BY <1>1, ScanStepEffect, PmStepEffect, OtherStepEffect DEF Next

LEMMA Inductive == IInv /\ [Next]_vars => IInv'
  BY TypedStep, StepEffect, EffectPreserves DEF IInv

THEOREM Invariant == Spec => []IInv
  BY InitIInv, Inductive, PTL DEF Spec

(* No symbol ever has two unresolved entry intents.                        *)
THEOREM OneIntent == Spec => []OneUnresolvedEntry
  BY Invariant, PTL DEF IInv, Serial

(* Two entry orders of a symbol are never under way or open together.      *)
THEOREM EntriesSerialised == Spec => []NoConcurrentEntryOrders
  BY Invariant, PTL DEF IInv, Serial

(* An intent is released only if its order is dead and bought nothing.     *)
THEOREM ReleaseIsSafe == Spec => []ReleasedMeansDead
  BY Invariant, PTL DEF IInv

(* Nothing overwrites a row once its outcome is known.                     *)
THEOREM OutcomesAreFinal == Spec => OutcomeIsFinal
<1>1. IInv /\ [Next]_vars
      => [\A r \in RowIds : rows[r].status \notin {"UNUSED", "SUBMITTED"}
                             => rows'[r] = rows[r]]_rows
  <2> SUFFICES ASSUME IInv, [Next]_vars, NEW r \in RowIds,
                      rows[r].status \notin {"UNUSED", "SUBMITTED"}
               PROVE  rows'[r] = rows[r]
    OBVIOUS
  <2>1. r \notin pm.dirty
    BY DEF IInv, Ownership, DirtyUnresolved
  <2>2. \A s \in Scans : Active(s) => scan[s].row # r
    BY DEF IInv, Ownership, ScanOwnsRow
  <2> QED BY <2>1, <2>2, StepEffect
          DEF Effect, Quiet, Committing, Brokering, Beginning, Readying, Answering,
              Posting, Recording, Closing
<1> QED BY <1>1, Invariant, PTL DEF Spec, OutcomeIsFinal

-----------------------------------------------------------------------------
(* IbkrLifecycle implements EntrySlot.                                     *)

LEMMA SlotTypes == Slot!TypeOK
  BY DEF Slot!TypeOK, Claimed, SlotOrder

LEMMA SlotUnchanged ==
  ASSUME rows' = rows, orders' = orders
  PROVE  UNCHANGED << Claimed, SlotOrder >>
  BY DEF Claimed, SlotOrder, EntryIn

(* Rows are resolved, orders stay: some claims are settled.                *)
LEMMA Settles ==
  ASSUME IInv, orders' = orders,
         \A r \in RowIds : rows'[r].status = "SUBMITTED" =>
             rows[r].status = "SUBMITTED" /\ rows'[r].sym = rows[r].sym,
         \A o \in OrderIds : orders[o].row # None /\ orders[o].st = "inflight" =>
             /\ rows'[orders[o].row].status = "SUBMITTED"
             /\ rows'[orders[o].row].sym = rows[orders[o].row].sym
  PROVE  Slot!Settle
<1>1. SlotOrder' = SlotOrder
  BY DEF SlotOrder, EntryIn
<1>2. Claimed' \subseteq Claimed
  BY DEF Claimed
<1>3. ASSUME NEW sym \in Symbols, EntryIn(sym, "inflight")
      PROVE  sym \in Claimed'
  BY <1>3 DEF EntryIn, Claimed, IInv, Typed, TypeOK, Order, Sending, OrderHasRow
<1> QED BY <1>1, <1>2, <1>3 DEF Slot!Settle, SlotOrder, Claimed

LEMMA SlotStep == IInv /\ IInv' /\ Effect => [Slot!Next]_(Slot!vars)
<1> SUFFICES ASSUME IInv, IInv', Effect PROVE [Slot!Next]_(Slot!vars)
  OBVIOUS
<1> USE DEF Slot!Next, Slot!vars
<1>1. CASE Quiet
  BY <1>1, SlotUnchanged DEF Quiet
<1>2. CASE Committing
  <2>1. Slot!Settle
    BY <1>2, Settles
    DEF Committing, IInv, Typed, TypeOK, Order, Ownership, DirtyUnresolved, Sending,
        InflightUnresolved
  <2> QED BY <2>1
<1>3. CASE Brokering
  <2>1. Claimed' = Claimed
    BY <1>3 DEF Brokering, Claimed
  <2>2. ASSUME NEW sym \in Symbols
        PROVE  \/ SlotOrder'[sym] = SlotOrder[sym]
               \/ SlotOrder[sym] = "sent"
               \/ SlotOrder[sym] = "open" /\ SlotOrder'[sym] = "none"
    BY <1>3 DEF Brokering, SlotOrder, EntryIn
  <2>3. SlotOrder' \in [Symbols -> {"none", "sent", "open"}]
    BY DEF SlotOrder
  <2> QED BY <2>1, <2>2, <2>3 DEF Slot!Progress
<1>4. ASSUME NEW s \in Scans, NEW sym \in Symbols, NEW r \in RowIds,
             Beginning(s, sym, r)
      PROVE  Slot!Claim(sym)
  <2>1. SlotOrder' = SlotOrder
    BY <1>4 DEF Beginning, SlotOrder, EntryIn
  <2>2. sym \notin Claimed /\ ~EntryIn(sym, "inflight")
    BY <1>4 DEF Beginning, Pending, Claimed, EntryIn, IInv, Typed, TypeOK, Order, Sending,
                OrderHasRow, InflightUnresolved
  <2>3. Claimed' = Claimed \cup {sym}
    BY <1>4 DEF Beginning, Claimed
  <2> QED BY <2>1, <2>2, <2>3 DEF Slot!Claim, SlotOrder
<1>5. ASSUME NEW s \in Scans, Readying(s) \/ Answering(s)
      PROVE  UNCHANGED Slot!vars
  BY <1>5, SlotUnchanged DEF Readying, Answering
<1>6. ASSUME NEW s \in Scans, NEW o \in OrderIds, Posting(s, o)
      PROVE  scan[s].sym \in Symbols /\ Slot!Send(scan[s].sym)
  <2>1. /\ scan[s].sym \in Symbols /\ scan[s].row \in RowIds /\ scan[s].row # None
        /\ rows[scan[s].row].status = "SUBMITTED" /\ rows[scan[s].row].sym = scan[s].sym
    BY <1>6, NamesAssumption DEF Posting, IInv, Typed, ScanTargets, Active, BeforePost,
                                 Ownership, ScanOwnsRow
  <2>2. Claimed' = Claimed /\ scan[s].sym \in Claimed
    BY <1>6, <2>1 DEF Posting, Claimed
  <2>3. ~EntryIn(scan[s].sym, "inflight") /\ ~EntryIn(scan[s].sym, "working")
    BY <1>6 DEF Posting, EntryIn, IInv, Serial, ReadyToPost, Live
  <2>4. SlotOrder' = [SlotOrder EXCEPT ![scan[s].sym] = "sent"]
    <3>1. orders'[o].row # None /\ orders'[o].sym = scan[s].sym
          /\ orders'[o].st = "inflight"
      BY <1>6, <2>1 DEF Posting
    <3>2. \A sym \in Symbols \ {scan[s].sym} :
            /\ EntryIn(sym, "inflight")' <=> EntryIn(sym, "inflight")
            /\ EntryIn(sym, "working")' <=> EntryIn(sym, "working")
      BY <1>6 DEF Posting, EntryIn
    <3>3. SlotOrder'[scan[s].sym] = "sent"
      BY <2>1, <3>1 DEF SlotOrder, EntryIn
    <3>4. \A sym \in Symbols \ {scan[s].sym} : SlotOrder'[sym] = SlotOrder[sym]
      BY <3>2 DEF SlotOrder
    <3>5. SlotOrder = [sym \in Symbols |-> SlotOrder[sym]]
          /\ SlotOrder' = [sym \in Symbols |-> SlotOrder'[sym]]
      BY DEF SlotOrder
    <3> QED BY <3>3, <3>4, <3>5
  <2> QED BY <2>1, <2>2, <2>3, <2>4 DEF Slot!Send, SlotOrder
<1>7. ASSUME NEW s \in Scans, NEW status \in RowStatus, NEW oid \in OrderIds \cup {None},
             Recording(s, status, oid)
      PROVE  Slot!Settle
  <2>1. scan[s].row \in RowIds /\ rows[scan[s].row].status = "SUBMITTED"
    BY <1>7 DEF Recording, IInv, Typed, ScanTargets, Ownership, ScanOwnsRow
  <2>2. \A o \in OrderIds : orders[o].row # None => orders[o].row \in RowIds
    BY DEF IInv, Typed, TypeOK, Order
  <2> QED BY <1>7, <2>1, <2>2, Settles
          DEF Recording, IInv, Sending, InflightUnresolved
<1>8. ASSUME NEW o \in OrderIds, Closing(o)
      PROVE  UNCHANGED Slot!vars
  <2>1. orders[o].row = None
    BY <1>8 DEF Closing, IInv, Sending, OrderHasRow
  <2> QED BY <1>8, <2>1 DEF Closing, Claimed, SlotOrder, EntryIn
<1> QED BY <1>1, <1>2, <1>3, <1>4, <1>5, <1>6, <1>7, <1>8 DEF Effect

(* Every behaviour of the scans, the manager, the operator and the broker  *)
(* is one of the abstract slots.                                           *)
THEOREM Implementation == Spec => ImplementsSlot
<1>1. Init => Slot!Init
  <2> SUFFICES ASSUME Init PROVE Slot!Init
    OBVIOUS
  <2>1. \A o \in OrderIds : orders[o].row = None
    BY DEF Init, NoOrder
  <2>2. \A r \in RowIds : rows[r].status = "UNUSED"
    BY DEF Init, NoRow
  <2> QED BY <2>1, <2>2 DEF Slot!Init, Claimed, SlotOrder, EntryIn
<1>2. IInv /\ [Next]_vars => [Slot!Next]_(Slot!vars)
  BY StepEffect, Inductive, SlotStep
<1> QED BY <1>1, <1>2, Invariant, PTL DEF Spec, ImplementsSlot, Slot!Spec

(***************************************************************************)
(* What IbkrLifecycle holds of a symbol and what its rows say of it:       *)
(* exposure is within one entry and an EXECUTED entry was filled, until    *)
(* the symbol is traded by another hand.                                   *)
(*                                                                         *)
(* The argument: an entry is posted while its symbol is flat, and then no  *)
(* close of it is on its way, for a close always has a position to close.  *)
(* So the position is what the unresolved entry filled less what was       *)
(* closed of it, and a close, which is the only one, has no more left to   *)
(* fill than the position.                                                 *)
(***************************************************************************)
Remaining(o) == orders[o].qty - orders[o].filled

(* An entry order asks for Qty units in its row's direction; an order is   *)
(* filled exactly when nothing of it remains.                              *)
OrderShape ==
    \A o \in OrderIds :
        /\ orders[o].row # None => /\ orders[o].qty = Qty
                                   /\ orders[o].side = rows[orders[o].row].side
        /\ Live(o) => Remaining(o) > 0
        /\ orders[o].row # None /\ orders[o].st = "cancelled" => Remaining(o) > 0
        /\ Remaining(o) >= 0
        /\ orders[o].st # "unused" => orders[o].sym \in Symbols
SavedIds ==
    \A r \in RowIds :
        rows[r].status = "SUBMITTED" /\ rows[r].oid # None =>
            orders[rows[r].oid].row = r /\ Answered(rows[r].oid)
Shape == OrderShape /\ SavedIds

(* The pass closes what it found open, and no close of an earlier pass is  *)
(* on its way: it sees every other close of the symbol before it posts.    *)
LiveClose(o) == Live(o) /\ orders[o].row = None
Snapped ==
    pm.pc \notin {"idle", "executions", "positions"} =>
        /\ \A s \in pm.todo : pm.snap[s] # 0
        /\ pm.pc # "loop" => pm.sym \in pm.todo
OwnClose ==
    \A o \in OrderIds :
        /\ orders[o].row = None /\ orders[o].st = "inflight" /\ pm.pc # "idle"
        => pm.pc = "post" /\ pm.oid = o
CloseSeen ==
    \A o \in OrderIds :
        pm.pc = "check" /\ orders[o].sym = pm.sym => ~LiveClose(o)
OneClose ==
    \A o, p \in OrderIds :
        LiveClose(o) /\ LiveClose(p) /\ orders[o].sym = orders[p].sym => o = p
Passing == Snapped /\ OwnClose /\ CloseSeen

(* Until a symbol is moved: an open entry is unresolved; the position is   *)
(* what the unresolved entry filled, less what was closed; a close has no  *)
(* more left to fill than the position; the symbol is flat at the post.    *)
LiveIsSubmitted ==
    \A o \in OrderIds :
        /\ Live(o) /\ orders[o].row # None /\ orders[o].sym \notin moved
        => rows[orders[o].row].status = "SUBMITTED"
EntryRoom ==
    \A o \in OrderIds :
        /\ orders[o].row # None /\ orders[o].sym \notin moved
        /\ rows[orders[o].row].status = "SUBMITTED"
        => /\ 0 <= orders[o].side * position[orders[o].sym]
           /\ orders[o].side * position[orders[o].sym] <= orders[o].filled
CloseRoom ==
    \A o \in OrderIds :
        LiveClose(o) /\ orders[o].sym \notin moved
        => orders[o].side * position[orders[o].sym] + Remaining(o) <= 0
FlatAtPost ==
    \A s \in Scans :
        /\ scan[s].pc \in {"orders2", "account"} /\ scan[s].sym \notin moved
        => position[scan[s].sym] = 0
Room == LiveIsSubmitted /\ EntryRoom /\ CloseRoom /\ OneClose

(* What the pass has marked was filled.                                    *)
FilledOrder(r) == \E o \in OrderIds : orders[o].row = r /\ orders[o].st = "filled"
DirtyFilled ==
    \A r \in pm.dirty : rows[r].sym \notin moved => FilledOrder(r)

Truth == ExecutedMeansFilled /\ ExposureBounded
EInv == IInv /\ Shape /\ Passing /\ Room /\ FlatAtPost /\ DirtyFilled /\ Truth

-----------------------------------------------------------------------------
(* What a step may do to a row while the broker is left alone.             *)
RowStep(r) ==
    \/ rows'[r] = rows[r]
    \/ /\ rows[r].status = "UNUSED"
       /\ rows'[r].status \in {"SUBMITTED", "EXIT_SUBMITTED", "EXIT_EXECUTED"}
       /\ rows'[r].status = "SUBMITTED" => rows'[r].oid = None
    \/ /\ rows[r].status = "SUBMITTED"
       /\ rows'[r].sym = rows[r].sym /\ rows'[r].side = rows[r].side
       /\ \/ /\ rows'[r].status = "SUBMITTED"
             /\ rows'[r].oid # None =>
                   /\ rows'[r].oid \in OrderIds
                   /\ orders[rows'[r].oid].row = r /\ Answered(rows'[r].oid)
          \/ /\ rows'[r].status = "EXECUTED"
             /\ rows[r].sym \notin moved => FilledOrder(r)
          \/ rows'[r].status \in {"BLOCK", "CANCELLED"}

SameBroker == orders' = orders /\ position' = position /\ moved' = moved

(* The types the arithmetic needs.                                         *)
LEMMA OrderType ==
  ASSUME Typed, NEW o \in OrderIds
  PROVE  /\ orders[o].side \in {1, -1} /\ orders[o].qty \in Nat
         /\ orders[o].filled \in Nat /\ Remaining(o) \in Int
         /\ orders[o].row \in RowIds \cup {None} /\ orders[o].st \in OrderState
         /\ orders[o].sym \in Symbols \cup {None}
         /\ orders[o].sym \in Symbols => position[orders[o].sym] \in Int
  BY DEF Typed, TypeOK, Order, Remaining

(* An EXECUTED row's order is full, so no longer live.                     *)
LEMMA FilledIsDead ==
  ASSUME IInv, NEW o \in OrderIds, orders[o].row # None, FilledOrder(orders[o].row)
  PROVE  orders[o].st = "filled"
  BY DEF IInv, Sending, OneOrderPerRow, FilledOrder

(* Rows take such steps: orders keep their shape, the symbols their room.  *)
LEMMA RowsMove ==
  ASSUME EInv, IInv', SameBroker, \A r \in RowIds : RowStep(r)
  PROVE  Shape' /\ Room' /\ Truth'
<1> USE DEF EInv, SameBroker
<1>a. \A o \in OrderIds : orders[o].row # None =>
         orders[o].row \in RowIds /\ rows[orders[o].row].status # "UNUSED"
  BY OrderType DEF IInv, Sending, OrderHasRow
<1>b. \A r \in RowIds : rows[r].oid \in OrderIds \cup {None}
  BY DEF IInv, Typed, TypeOK, Row
<1>c. \A r \in RowIds : FilledOrder(r)' <=> FilledOrder(r)
  BY DEF FilledOrder
<1>1. OrderShape'
  BY <1>a DEF Shape, OrderShape, RowStep, Live, Remaining
<1>2. SavedIds'
  BY <1>b DEF Shape, SavedIds, RowStep, Answered
<1>3. LiveIsSubmitted'
  <2> SUFFICES ASSUME NEW o \in OrderIds, Live(o), orders[o].row # None,
                      orders[o].sym \notin moved
               PROVE  rows'[orders[o].row].status = "SUBMITTED"
    BY DEF LiveIsSubmitted, Live
  <2>1. /\ orders[o].row \in RowIds /\ rows[orders[o].row].status = "SUBMITTED"
        /\ rows[orders[o].row].sym = orders[o].sym
    BY <1>a DEF Room, LiveIsSubmitted, IInv, Sending, OrderHasRow
  <2>2. rows'[orders[o].row].status \notin {"BLOCK", "CANCELLED"}
    BY DEF IInv, ReleasedMeansDead, Live
  <2>3. ~FilledOrder(orders[o].row)
    BY FilledIsDead DEF Live
  <2> QED BY <2>1, <2>2, <2>3 DEF RowStep
<1>4. EntryRoom'
  BY <1>a DEF Room, EntryRoom, RowStep
<1>5. CloseRoom' /\ OneClose'
  BY DEF Room, CloseRoom, OneClose, LiveClose, Live, Remaining
<1>6. ExecutedMeansFilled'
  <2> SUFFICES ASSUME NEW r \in RowIds, rows'[r].status = "EXECUTED",
                      rows'[r].sym \notin moved
               PROVE  FilledOrder(r)
    BY DEF ExecutedMeansFilled, FilledOrder
  <2>1. RowStep(r)
    OBVIOUS
  <2>2. rows'[r] = rows[r] \/ (rows'[r].sym = rows[r].sym /\ (rows[r].sym \notin moved
                                => FilledOrder(r)))
    BY <2>1 DEF RowStep
  <2> QED BY <2>2 DEF Truth, ExecutedMeansFilled, FilledOrder
<1>7. ExposureBounded'
  BY DEF Truth, ExposureBounded
<1> QED BY <1>1, <1>2, <1>3, <1>4, <1>5, <1>6, <1>7 DEF Shape, Room, Truth

(* A scan's step that leaves the broker alone, and is at orders2 or beyond *)
(* only with its symbol flat.                                              *)
StaysFlat(s) ==
    scan'[s].pc \in {"orders2", "account"} =>
        /\ scan'[s].sym = scan[s].sym
        /\ \/ scan[s].pc \in {"orders2", "account"}
           \/ position[scan[s].sym] = 0

LEMMA ScanMove ==
  ASSUME EInv, IInv', SameBroker, \A r \in RowIds : RowStep(r), pm' = pm,
         \A s \in Scans : StaysFlat(s)
  PROVE  EInv'
<1>1. Shape' /\ Room' /\ Truth'
  BY RowsMove
<1>2. Passing'
  BY DEF EInv, SameBroker, Passing, Snapped, OwnClose, CloseSeen, LiveClose, Live
<1>3. FlatAtPost'
  BY DEF EInv, SameBroker, FlatAtPost, StaysFlat
<1>4. DirtyFilled'
  <2>1. \A r \in pm.dirty : r \in RowIds /\ rows[r].status = "SUBMITTED"
    BY DEF EInv, IInv, Ownership, DirtyUnresolved, Typed, TypeOK, Pass
  <2>2. \A r \in pm.dirty : rows'[r].sym = rows[r].sym
    BY <2>1 DEF RowStep
  <2> QED BY <2>2 DEF EInv, SameBroker, DirtyFilled, FilledOrder
<1> QED BY <1>1, <1>2, <1>3, <1>4 DEF EInv

(* A step of the manager that leaves the broker alone.                     *)
LEMMA PassMove ==
  ASSUME EInv, IInv', SameBroker, \A r \in RowIds : RowStep(r), scan' = scan,
         Passing', DirtyFilled'
  PROVE  EInv'
<1>1. Shape' /\ Room' /\ Truth'
  BY RowsMove
<1>2. FlatAtPost'
  BY DEF EInv, SameBroker, FlatAtPost
<1> QED BY <1>1, <1>2 DEF EInv

(* Neither rows nor the broker change, and the pass marks nothing more.    *)
LEMMA QuietPass ==
  ASSUME EInv, IInv', SameBroker, rows' = rows, scan' = scan, Passing',
         pm'.dirty \subseteq pm.dirty
  PROVE  EInv'
<1>1. \A r \in RowIds : RowStep(r)
  BY DEF RowStep
<1>2. DirtyFilled'
  BY DEF EInv, SameBroker, DirtyFilled, FilledOrder
<1> QED BY <1>1, <1>2, PassMove

-----------------------------------------------------------------------------
(* Scans.                                                                  *)

(* Where a scan is once it has left its item, or gone on within it.        *)
LEMMA LeftIsFlat ==
  ASSUME TypeOK, NEW s \in Scans, NEW sym, LeaveItem(s, sym)
  PROVE  StaysFlat(s)
  BY AfterLeaveItem DEF StaysFlat

LEMMA WentIsFlat ==
  ASSUME TypeOK, NEW s \in Scans, NEW pc, GoTo(s, pc),
         pc = "orders2" => position[scan[s].sym] = 0,
         pc = "account" => scan[s].pc = "orders2"
  PROVE  StaysFlat(s)
  BY AfterGoTo DEF StaysFlat

(* A scan that stays where it was.                                         *)
LEMMA OthersFlat ==
  ASSUME NEW s \in Scans, Others(s), StaysFlat(s)
  PROVE  \A t \in Scans : StaysFlat(t)
  BY DEF Others, StaysFlat

(* A result that is true of the scan's order is written over its row.      *)
TrueResult(s, status, oid) ==
    \/ /\ status = "SUBMITTED"
       /\ oid # None => oid \in OrderIds /\ orders[oid].row = scan[s].row /\ Answered(oid)
    \/ status = "EXECUTED" /\ FilledOrder(scan[s].row)
    \/ status \in {"BLOCK", "CANCELLED"}

LEMMA RecordMove ==
  ASSUME EInv, IInv', SameBroker, pm' = pm, NEW s \in Scans, Active(s), Others(s),
         NEW status \in RowStatus, NEW oid \in OrderIds \cup {None},
         Record(s, status, oid), TrueResult(s, status, oid)
  PROVE  EInv'
<1>1. /\ scan[s].row \in RowIds /\ rows[scan[s].row] \in Row
      /\ rows[scan[s].row].status = "SUBMITTED" /\ TypeOK
  BY DEF EInv, IInv, Typed, TypeOK, ScanTargets, Ownership, ScanOwnsRow
<1>2. rows'[scan[s].row]
        = [[rows[scan[s].row] EXCEPT !.status = status] EXCEPT !.oid = oid]
  BY <1>1 DEF Record, TypeOK
<1>3. /\ rows'[scan[s].row].status = status /\ rows'[scan[s].row].oid = oid
      /\ rows'[scan[s].row].sym = rows[scan[s].row].sym
      /\ rows'[scan[s].row].side = rows[scan[s].row].side
  BY <1>1, <1>2 DEF Row
<1>4. \A r \in RowIds \ {scan[s].row} : rows'[r] = rows[r]
  BY <1>1 DEF Record, TypeOK
<1>5. \A r \in RowIds : RowStep(r)
  BY <1>1, <1>3, <1>4 DEF RowStep, TrueResult
<1>6. \A t \in Scans : StaysFlat(t)
  BY <1>1, LeftIsFlat, OthersFlat DEF Record
<1> QED BY <1>5, <1>6, ScanMove

LEMMA BlockMove ==
  ASSUME EInv, IInv', SameBroker, pm' = pm, NEW s \in Scans, Active(s), Others(s),
         Unresolved(s) \/ Record(s, "BLOCK", None)
  PROVE  EInv'
  BY RecordMove DEF Unresolved, TrueResult, RowStatus

LEMMA GoMove ==
  ASSUME EInv, IInv', SameBroker, pm' = pm, NEW s \in Scans, Others(s), rows' = rows,
         NEW pc, GoTo(s, pc),
         pc = "orders2" => position[scan[s].sym] = 0,
         pc = "account" => scan[s].pc = "orders2"
  PROVE  EInv'
<1>1. \A t \in Scans : StaysFlat(t)
  BY WentIsFlat, OthersFlat DEF EInv, IInv, Typed
<1>2. \A r \in RowIds : RowStep(r)
  BY DEF RowStep
<1> QED BY <1>1, <1>2, ScanMove

LEMMA BeginMove ==
  ASSUME EInv, IInv', NEW s \in Scans, NEW sym \in Symbols, BeginEntry(s, sym)
  PROVE  EInv'
<1>a. TypeOK /\ Others(s) /\ SameBroker /\ pm' = pm
  BY OthersUnchanged DEF EInv, IInv, Typed, ScanStep, BeginEntry, broker, SameBroker
<1>1. CASE LeaveItem(s, sym) /\ rows' = rows
  <2>1. \A t \in Scans : StaysFlat(t)
    BY <1>a, <1>1, LeftIsFlat, OthersFlat
  <2> QED BY <1>1, <1>a, <2>1, ScanMove DEF RowStep
<1>2. ASSUME NEW r \in RowIds, NEW d \in Sides, rows[r].status = "UNUSED",
             rows' = [rows EXCEPT ![r] =
                         [status |-> "SUBMITTED", sym |-> sym, side |-> d,
                          oid |-> None, stamp |-> StampOf(scan[s].stamp)]],
             Begun(s, sym, r)
      PROVE  EInv'
  <2>1. \A q \in RowIds : RowStep(q)
    BY <1>a, <1>2 DEF RowStep, TypeOK
  <2>2. \A t \in Scans : StaysFlat(t)
    BY <1>a, <1>2, AfterBegin, OthersFlat DEF StaysFlat
  <2> QED BY <1>a, <2>1, <2>2, ScanMove
<1> QED BY <1>1, <1>2 DEF BeginEntry, Begun

(* The post of an entry: the symbol is flat, its row unresolved.           *)
LEMMA PostEntryMove ==
  ASSUME EInv, IInv', NEW s \in Scans, PostEntry(s)
  PROVE  EInv'
<1>a. /\ TypeOK /\ Typed /\ scan[s].pc = "account" /\ scan[s].row \in RowIds
      /\ scan[s].sym \in Symbols /\ scan[s].row # None
      /\ rows[scan[s].row].status = "SUBMITTED" /\ rows[scan[s].row].sym = scan[s].sym
      /\ scan[s].sym \notin moved => position[scan[s].sym] = 0
  BY NamesAssumption
  DEF PostEntry, EInv, IInv, Typed, ScanTargets, Active, BeforePost, Ownership,
      ScanOwnsRow, FlatAtPost
<1>b. rows' = rows /\ position' = position /\ moved' = moved /\ pm' = pm
  BY DEF PostEntry
<1>1. PICK o \in OrderIds :
            /\ Post(o, scan[s].sym, rows[scan[s].row].side, Qty, scan[s].row)
            /\ Sent(s, o)
  BY DEF PostEntry, Sent
<1>2. /\ orders[o].st = "unused" /\ orders'[o].st = "inflight"
      /\ orders'[o].sym = scan[s].sym /\ orders'[o].row = scan[s].row
      /\ orders'[o].side = rows[scan[s].row].side
      /\ orders'[o].qty = Qty /\ orders'[o].filled = 0
      /\ \A p \in OrderIds \ {o} : orders'[p] = orders[p]
  BY <1>1, <1>a DEF Post, TypeOK
<1>c. orders[o].row = None
  BY <1>2 DEF EInv, IInv, Sending, OrderHasRow
<1>d. rows[scan[s].row].side \in {1, -1} /\ Qty \in Nat /\ Qty > 0
  BY <1>a, QtyAssumption DEF TypeOK, Row
<1>3. OrderShape'
  BY <1>a, <1>b, <1>2, <1>d DEF EInv, Shape, OrderShape, Live, Remaining
<1>4. SavedIds'
  <2>1. \A r \in RowIds : rows[r].oid \in OrderIds \cup {None}
    BY <1>a DEF TypeOK, Row
  <2> QED BY <1>b, <1>2, <2>1 DEF EInv, Shape, SavedIds, Answered
<1>5. Passing'
  BY <1>a, <1>b, <1>2 DEF EInv, Passing, Snapped, OwnClose, CloseSeen, LiveClose, Live
<1>6. LiveIsSubmitted' /\ OneClose'
  BY <1>a, <1>b, <1>2
  DEF EInv, Room, LiveIsSubmitted, CloseRoom, OneClose, LiveClose, Live, Remaining
<1>7. EntryRoom'
  BY <1>a, <1>b, <1>2, <1>d DEF EInv, Room, EntryRoom
<1>8. CloseRoom'
  BY <1>a, <1>b, <1>2 DEF EInv, Room, CloseRoom, LiveClose, Live, Remaining
<1>9. FlatAtPost'
  BY <1>a, <1>b, <1>1, AfterPost, OthersUnchanged
  DEF EInv, FlatAtPost, ScanStep, Others
<1>10. DirtyFilled' /\ Truth'
  BY <1>b, <1>2
  DEF EInv, DirtyFilled, FilledOrder, Truth, ExecutedMeansFilled, ExposureBounded
<1> QED BY <1>3, <1>4, <1>5, <1>6, <1>7, <1>8, <1>9, <1>10 DEF EInv, Shape, Room

LEMMA ScanStepMove ==
  ASSUME EInv, IInv', NEW s \in Scans, ScanStep(s)
  PROVE  EInv'
<1>a. TypeOK /\ Typed /\ Others(s)
  BY OthersUnchanged DEF EInv, IInv, Typed
<1>b. \/ PostEntry(s) \/ \E sym \in Symbols : BeginEntry(s, sym)
      \/ SameBroker /\ pm' = pm
  BY DEF ScanStep, StartScan, FinishScan, RefuseEntry, ReadPositions, ReadOrders,
         ReserveEntry, RereadPositions, RereadOrders, PostAnswered, VerifyFill, broker,
         SameBroker
<1>1. CASE PostEntry(s) \/ \E sym \in Symbols : BeginEntry(s, sym)
  BY <1>1, PostEntryMove, BeginMove
<1>2. CASE (StartScan(s) \/ FinishScan(s)) /\ SameBroker /\ pm' = pm
  <2>1. /\ NoScan.pc = "idle"
        /\ [NoScan EXCEPT !.pc = "items", !.todo = Symbols, !.stamp = Tick].pc = "items"
    BY DEF NoScan
  <2>2. StaysFlat(s)
    BY <1>2, <1>a, <2>1 DEF StartScan, FinishScan, TypeOK, StaysFlat
  <2>3. \A t \in Scans : StaysFlat(t)
    BY <1>a, <2>2, OthersFlat
  <2>4. \A r \in RowIds : RowStep(r)
    BY <1>2 DEF StartScan, FinishScan, RowStep
  <2> QED BY <1>2, <2>3, <2>4, ScanMove
<1>3. CASE RefuseEntry(s) /\ SameBroker /\ pm' = pm
  BY <1>3, <1>a, BlockMove DEF RefuseEntry, Active, BeforePost
<1>4. CASE (ReadPositions(s) \/ ReadOrders(s)) /\ SameBroker /\ pm' = pm
  BY <1>4, <1>a, GoMove DEF ReadPositions, ReadOrders
<1>5. CASE ReserveEntry(s) /\ SameBroker /\ pm' = pm
  BY <1>5, <1>a, BlockMove, GoMove DEF ReserveEntry, Active, BeforePost
<1>6. CASE RereadPositions(s) /\ SameBroker /\ pm' = pm
  BY <1>6, <1>a, BlockMove, GoMove DEF RereadPositions, Active, BeforePost
<1>7. CASE RereadOrders(s) /\ SameBroker /\ pm' = pm
  BY <1>7, <1>a, BlockMove, GoMove DEF RereadOrders, Active, BeforePost
<1>8. CASE PostAnswered(s) /\ SameBroker /\ pm' = pm
  BY <1>8, <1>a, BlockMove, GoMove DEF PostAnswered, Active, BeforePost
<1>9. CASE VerifyFill(s) /\ SameBroker /\ pm' = pm
  <2>a. /\ Active(s) /\ Answered(scan[s].oid) /\ scan[s].oid \in OrderIds
        /\ orders[scan[s].oid].row = scan[s].row
    BY <1>9 DEF VerifyFill, EInv, IInv, Typed, ScanTargets, Sending, OrderOfScan, Active
  <2>1. PICK status \in {"SUBMITTED", "EXECUTED", "CANCELLED"} :
              /\ Record(s, status, scan[s].oid)
              /\ status = "EXECUTED" => orders[scan[s].oid].st = "filled"
    BY <1>9 DEF VerifyFill, Complete
  <2>2. TrueResult(s, status, scan[s].oid)
    BY <2>a, <2>1 DEF TrueResult, FilledOrder
  <2> QED BY <1>9, <1>a, <2>a, <2>1, <2>2, RecordMove DEF RowStatus
<1> QED BY <1>b, <1>1, <1>2, <1>3, <1>4, <1>5, <1>6, <1>7, <1>8, <1>9 DEF ScanStep

-----------------------------------------------------------------------------
(* The manager.                                                            *)

(* The pass goes on, with what it found open and has not handled.          *)
LEMMA PassingOn ==
  ASSUME EInv, orders' = orders, pm.pc # "idle", pm'.snap = pm.snap,
         pm'.todo \subseteq pm.todo, pm.pc # "post" \/ orders[pm.oid].st # "inflight",
         pm'.pc # "check", pm'.pc # "loop" => pm'.sym \in pm'.todo,
         pm.pc \notin {"executions", "positions"}
  PROVE  Passing'
  BY DEF EInv, Passing, Snapped, OwnClose, CloseSeen

LEMMA EndedPassing == pm'.pc = "idle" => Passing'
  BY DEF Passing, Snapped, OwnClose, CloseSeen

LEMMA FailMove ==
  ASSUME EInv, IInv', SameBroker, scan' = scan, FailPass
  PROVE  EInv'
<1>1. pm'.pc = "idle" /\ pm'.dirty = {} /\ rows' = rows
  BY DEF FailPass, NoPass
<1> QED BY <1>1, EndedPassing, QuietPass

LEMMA SkipMove ==
  ASSUME EInv, IInv', SameBroker, scan' = scan, rows' = rows,
         pm.pc \in {"loop", "status", "signal"}, NEW sym, Skip(sym)
  PROVE  EInv'
<1>1. pm \in Pass
  BY DEF EInv, IInv, Typed, TypeOK
<1>2. /\ pm'.pc = "loop" /\ pm'.todo = pm.todo \ {sym} /\ pm'.snap = pm.snap
      /\ pm'.dirty = pm.dirty
  BY <1>1 DEF Skip, Pass
<1>3. Passing'
  BY <1>2, PassingOn DEF SameBroker
<1> QED BY <1>2, <1>3, QuietPass

(* The pass goes on to pc.                                                 *)
LEMMA AdvanceMove ==
  ASSUME EInv, IInv', SameBroker, scan' = scan, rows' = rows,
         NEW pc \in PmPC, pm' = [pm EXCEPT !.pc = pc], pc # "check",
         pm.pc \notin {"idle", "executions", "positions", "loop"},
         pm.pc # "post" \/ orders[pm.oid].st # "inflight"
  PROVE  EInv'
<1>1. pm \in Pass /\ pm.sym \in pm.todo
  BY DEF EInv, IInv, Typed, TypeOK, Passing, Snapped
<1>2. /\ pm'.pc = pc /\ pm'.todo = pm.todo /\ pm'.snap = pm.snap /\ pm'.sym = pm.sym
      /\ pm'.dirty = pm.dirty
  BY <1>1 DEF Pass
<1>3. Passing'
  BY <1>1, <1>2, PassingOn DEF SameBroker
<1> QED BY <1>2, <1>3, QuietPass

LEMMA StartPassMove ==
  ASSUME EInv, IInv', StartPass
  PROVE  EInv'
<1>1. pm'.pc = "executions" /\ pm'.dirty = {}
  BY DEF StartPass, NoPass
<1>2. SameBroker /\ scan' = scan /\ rows' = rows
  BY DEF StartPass, PmUnchanged, SameBroker, broker
<1>3. Passing'
  BY <1>1, <1>2 DEF StartPass, Passing, Snapped, OwnClose, CloseSeen, SameBroker
<1> QED BY <1>1, <1>2, <1>3, QuietPass

(* An order whose executions add up was filled; so was one whose row asks  *)
(* for the whole position, which is at most what the order filled.         *)
LEMMA FallbackIsFilled ==
  ASSUME EInv, NEW r \in SubmittedEntries, r \notin pm.dirty, FallbackProven(r),
         rows[r].sym \notin moved
  PROVE  FilledOrder(r)
<1>1. /\ r \in RowIds /\ rows[r].status = "SUBMITTED" /\ rows[r].oid # None
      /\ rows[r].oid \in OrderIds /\ rows[r].side \in {1, -1} /\ r # None
  BY NamesAssumption DEF SubmittedEntries, Seen, EInv, IInv, Typed, TypeOK, Row
<1> DEFINE o == rows[r].oid
<1>2. /\ orders[o].row = r /\ Answered(o) /\ orders[o].qty = Qty
      /\ orders[o].side = rows[r].side /\ orders[o].sym = rows[r].sym
  BY <1>1 DEF EInv, Shape, SavedIds, OrderShape, IInv, Sending, OrderHasRow
<1>3. orders[o].side * position[orders[o].sym] <= orders[o].filled
  BY <1>1, <1>2 DEF EInv, Room, EntryRoom
<1>4. position[orders[o].sym] = orders[o].side * Qty
  BY <1>2 DEF FallbackProven
<1>5. orders[o].side * position[orders[o].sym] = Qty
  BY <1>1, <1>2, <1>4, QtyAssumption
<1>6. Remaining(o) <= 0
  BY <1>1, <1>2, <1>3, <1>5, OrderType, QtyAssumption DEF Remaining, EInv, IInv
<1>7. orders[o].st \notin {"working", "cancelled"}
  <2>1. Remaining(o) \in Int
    BY <1>1, OrderType DEF EInv, IInv
  <2> QED BY <1>1, <1>2, <1>6, <2>1 DEF EInv, Shape, OrderShape, Live
<1> QED BY <1>1, <1>2, <1>7 DEF Answered, FilledOrder

LEMMA ReconcileMove ==
  ASSUME EInv, IInv', ReconcileExecutions \/ ReconcilePositions
  PROVE  EInv'
<1>a. pm \in Pass /\ SameBroker /\ scan' = scan /\ rows' = rows
  BY DEF EInv, IInv, Typed, TypeOK, ReconcileExecutions, ReconcilePositions, PmUnchanged,
         SameBroker, broker
<1>1. Passing'
  <2>1. CASE ReconcileExecutions
    <3>1. pm.pc = "executions" /\ pm'.pc = "positions"
      BY <1>a, <2>1 DEF ReconcileExecutions, Pass
    <3> QED BY <1>a, <3>1 DEF EInv, Passing, Snapped, OwnClose, CloseSeen, SameBroker
  <2>2. CASE ReconcilePositions
    <3>1. /\ pm.pc = "positions" /\ pm'.pc = "loop" /\ pm'.snap = position
          /\ pm'.todo = {s \in Symbols : position[s] # 0}
      BY <1>a, <2>2 DEF ReconcilePositions, Pass
    <3> QED BY <1>a, <3>1 DEF EInv, Passing, Snapped, OwnClose, CloseSeen, SameBroker
  <2> QED BY <2>1, <2>2
<1>2. DirtyFilled'
  <2>1. CASE ReconcileExecutions
    <3>1. pm'.dirty = {r \in SubmittedEntries : Complete(rows[r].oid)}
      BY <1>a, <2>1 DEF ReconcileExecutions, Pass
    <3>2. \A r \in SubmittedEntries : /\ r \in RowIds /\ rows[r].oid \in OrderIds
                                      /\ rows[r].oid # None
                                      /\ r \in pm.dirty \/ rows[r].status = "SUBMITTED"
      BY NamesAssumption DEF SubmittedEntries, Seen, EInv, IInv, Typed, TypeOK, Row
    <3>3. \A r \in SubmittedEntries : rows[r].status = "SUBMITTED"
      BY <3>2 DEF EInv, IInv, Ownership, DirtyUnresolved
    <3>4. \A r \in SubmittedEntries : orders[rows[r].oid].row = r
      BY <3>2, <3>3 DEF EInv, Shape, SavedIds
    <3>5. \A r \in pm'.dirty : FilledOrder(r)
      BY <3>1, <3>2, <3>4 DEF Complete, FilledOrder
    <3> QED BY <1>a, <3>5 DEF DirtyFilled, FilledOrder, SameBroker
  <2>2. CASE ReconcilePositions
    <3>1. pm'.dirty = pm.dirty \cup {r \in SubmittedEntries : FallbackProven(r)}
      BY <1>a, <2>2 DEF ReconcilePositions, Pass
    <3>2. \A r \in pm'.dirty : rows[r].sym \notin moved => FilledOrder(r)
      BY <3>1, FallbackIsFilled DEF EInv, DirtyFilled
    <3> QED BY <1>a, <3>2 DEF DirtyFilled, FilledOrder, SameBroker
  <2> QED BY <2>1, <2>2
<1> QED BY <1>a, <1>1, <1>2, PassMove DEF RowStep

(* Past its read of the orders the pass knows of every open close, and of  *)
(* every one under way: there is none.                                     *)
LEMMA SeenMove ==
  ASSUME EInv, IInv', CloseRereadOrders
  PROVE  EInv'
<1>a. pm \in Pass /\ SameBroker /\ scan' = scan /\ pm.pc = "orders2"
  BY DEF EInv, IInv, Typed, TypeOK, CloseRereadOrders, PmUnchanged, SameBroker, broker
<1>1. CASE FailPass
  BY <1>1, <1>a, FailMove
<1>2. CASE ~OpenOrder(pm.sym) /\ pm' = [pm EXCEPT !.pc = "check"] /\ rows' = rows
  <2>1. /\ pm'.pc = "check" /\ pm'.todo = pm.todo /\ pm'.snap = pm.snap
        /\ pm'.sym = pm.sym /\ pm'.dirty = pm.dirty
    BY <1>a, <1>2 DEF Pass
  <2>2. \A o \in OrderIds : orders[o].sym = pm.sym => ~LiveClose(o)
    BY <1>a, <1>2 DEF EInv, Passing, OwnClose, OpenOrder, LiveClose, Live
  <2>3. Passing'
    BY <1>a, <2>1, <2>2
    DEF EInv, Passing, Snapped, OwnClose, CloseSeen, LiveClose, Live, SameBroker
  <2> QED BY <1>a, <1>2, <2>1, <2>3, QuietPass
<1> QED BY <1>1, <1>2 DEF CloseRereadOrders

(* What commit() writes is true.                                           *)
LEMMA CommitStep ==
  ASSUME EInv, NEW r \in RowIds, rows'[r] = Committed[r]
  PROVE  RowStep(r)
<1>1. CASE r \notin pm.dirty
  BY <1>1 DEF Committed, RowStep
<1>2. CASE r \in pm.dirty
  <2>1. rows[r].status = "SUBMITTED" /\ rows[r] \in Row
    BY <1>2 DEF EInv, IInv, Typed, TypeOK, Ownership, DirtyUnresolved
  <2>2. /\ Committed[r].status = "EXECUTED" /\ Committed[r].sym = rows[r].sym
        /\ Committed[r].side = rows[r].side
    BY <1>2, <2>1 DEF Committed, Row
  <2> QED BY <1>2, <2>1, <2>2 DEF RowStep, EInv, DirtyFilled
<1> QED BY <1>1, <1>2

LEMMA CommitMove ==
  ASSUME EInv, IInv', VerifyClose \/ EndPass
  PROVE  EInv'
<1>a. pm \in Pass /\ SameBroker /\ scan' = scan
  BY DEF EInv, IInv, Typed, TypeOK, VerifyClose, EndPass, PmUnchanged, SameBroker, broker
<1>1. CASE EndPass
  <2>1. pm'.pc = "idle" /\ pm'.dirty = {} /\ rows' = Committed
    BY <1>1 DEF EndPass, NoPass
  <2>2. Passing' /\ DirtyFilled'
    BY <2>1, EndedPassing DEF DirtyFilled
  <2> QED BY <1>a, <2>1, <2>2, CommitStep, PassMove
<1>2. CASE VerifyClose
  <2>1. PICK r \in RowIds, status \in {"EXIT_SUBMITTED", "EXIT_EXECUTED"} :
              /\ rows[r].status = "UNUSED"
              /\ rows' = [Committed EXCEPT ![r] =
                             [status |-> status, sym |-> pm.sym,
                              side |-> orders[pm.oid].side, oid |-> pm.oid,
                              stamp |-> StampOf(pm.stamp)]]
    BY <1>2 DEF VerifyClose
  <2>2. rows'[r].status = status /\ \A q \in RowIds \ {r} : rows'[q] = Committed[q]
    BY <2>1 DEF Committed
  <2>3. \A q \in RowIds : RowStep(q)
    BY <2>1, <2>2, CommitStep DEF RowStep
  <2>4. /\ pm.pc = "verify" /\ pm'.pc = "loop" /\ pm'.dirty = {} /\ pm'.snap = pm.snap
        /\ pm'.todo = pm.todo \ {pm.sym}
    BY <1>a, <1>2 DEF VerifyClose, Pass
  <2>5. Passing' /\ DirtyFilled'
    BY <1>a, <2>4, PassingOn DEF DirtyFilled, SameBroker
  <2> QED BY <1>a, <2>3, <2>5, PassMove
<1> QED BY <1>1, <1>2

(* A close is posted for the position it was sized on, or its symbol is    *)
(* moved.                                                                  *)
LEMMA PostCloseMove ==
  ASSUME EInv, IInv', PostClose
  PROVE  EInv'
<1> DEFINE qty == pm.snap[pm.sym]
<1>a. /\ pm \in Pass /\ TypeOK /\ Typed /\ pm.pc = "check" /\ pm.sym \in Symbols
      /\ qty \in Int /\ qty # 0 /\ None \notin Symbols
  BY NamesAssumption
  DEF PostClose, EInv, IInv, Typed, TypeOK, PmTargets, Pass, Passing, Snapped
<1>b. rows' = rows /\ position' = position /\ scan' = scan
  BY DEF PostClose, PmUnchanged
<1>1. PICK o \in OrderIds :
            /\ Post(o, pm.sym, IF qty > 0 THEN -1 ELSE 1,
                    IF qty > 0 THEN qty ELSE -qty, None)
            /\ pm' = [pm EXCEPT !.pc = "post", !.oid = o]
  BY DEF PostClose
<1>2. /\ orders[o].st = "unused" /\ orders'[o].st = "inflight"
      /\ orders'[o].sym = pm.sym /\ orders'[o].row = None
      /\ orders'[o].side = (IF qty > 0 THEN -1 ELSE 1)
      /\ orders'[o].qty = (IF qty > 0 THEN qty ELSE -qty) /\ orders'[o].filled = 0
      /\ \A p \in OrderIds \ {o} : orders'[p] = orders[p]
  BY <1>1, <1>a DEF Post, TypeOK
<1>3. /\ pm'.pc = "post" /\ pm'.oid = o /\ pm'.todo = pm.todo /\ pm'.snap = pm.snap
      /\ pm'.sym = pm.sym /\ pm'.dirty = pm.dirty
  BY <1>1, <1>a DEF Pass
<1>4. moved \subseteq moved' /\ (pm.sym \notin moved' => position[pm.sym] = qty)
  BY DEF PostClose
<1>c. orders[o].row = None
  BY <1>2 DEF EInv, IInv, Sending, OrderHasRow
<1>5. OrderShape'
  BY <1>a, <1>b, <1>2 DEF EInv, Shape, OrderShape, Live, Remaining
<1>6. SavedIds'
  <2>1. \A r \in RowIds : rows[r].oid \in OrderIds \cup {None} /\ r # None
    BY <1>a, NamesAssumption DEF TypeOK, Row
  <2> QED BY <1>b, <1>2, <1>c, <2>1 DEF EInv, Shape, SavedIds, Answered
<1>7. Passing'
  BY <1>a, <1>2, <1>3 DEF EInv, Passing, Snapped, OwnClose, CloseSeen
<1>8. LiveIsSubmitted' /\ EntryRoom'
  BY <1>b, <1>2, <1>4 DEF EInv, Room, LiveIsSubmitted, EntryRoom, Live
<1>9. OneClose'
  BY <1>a, <1>2 DEF EInv, Room, OneClose, Passing, CloseSeen, LiveClose, Live
<1>10. CloseRoom'
  <2> SUFFICES ASSUME NEW p \in OrderIds, LiveClose(p)', orders'[p].sym \notin moved'
               PROVE  (orders[p].side * position[orders[p].sym] + Remaining(p) <= 0)'
    BY DEF CloseRoom
  <2>1. CASE p = o
    <3>1. position[pm.sym] = qty
      BY <1>2, <1>4, <2>1
    <3>2. CASE qty > 0
      BY <1>a, <1>b, <1>2, <2>1, <3>1, <3>2 DEF Remaining
    <3>3. CASE ~(qty > 0)
      BY <1>a, <1>b, <1>2, <2>1, <3>1, <3>3 DEF Remaining
    <3> QED BY <3>2, <3>3
  <2>2. CASE p # o
    BY <1>b, <1>2, <1>4, <2>2
    DEF EInv, Room, CloseRoom, LiveClose, Live, Remaining
  <2> QED BY <2>1, <2>2
<1>11. FlatAtPost'
  BY <1>b, <1>4 DEF EInv, FlatAtPost
<1>12. DirtyFilled' /\ Truth'
  <2>1. \A r \in RowIds \cup pm.dirty : FilledOrder(r) => FilledOrder(r)'
    BY <1>2 DEF FilledOrder
  <2>2. ExecutedMeansFilled'
    BY <1>b, <1>4, <2>1 DEF EInv, Truth, ExecutedMeansFilled, FilledOrder
  <2>3. DirtyFilled' /\ ExposureBounded'
    BY <1>b, <1>3, <1>4, <2>1 DEF EInv, DirtyFilled, Truth, ExposureBounded
  <2> QED BY <2>2, <2>3 DEF Truth
<1> QED BY <1>5, <1>6, <1>7, <1>8, <1>9, <1>10, <1>11, <1>12 DEF EInv, Shape, Room

LEMMA PmStepMove ==
  ASSUME EInv, IInv', PmStep
  PROVE  EInv'
<1>a. pm \in Pass
  BY DEF EInv, IInv, Typed, TypeOK
<1>b. PostClose \/ (SameBroker /\ scan' = scan)
  BY DEF PmStep, StartPass, ReconcileExecutions, ReconcilePositions, CheckOwnership,
         CheckEntryFill, Hold, ReserveClose, CloseRereadPositions, CloseRereadOrders,
         CloseAnswered, VerifyClose, EndPass, PmUnchanged, SameBroker, broker
<1>1. CASE StartPass
  BY <1>1, StartPassMove
<1>2. CASE ReconcileExecutions \/ ReconcilePositions
  BY <1>2, ReconcileMove
<1>3. ASSUME NEW sym \in Symbols, CheckOwnership(sym)
      PROVE  EInv'
  <2>a. pm.pc = "loop" /\ sym \in pm.todo /\ rows' = rows /\ SameBroker /\ scan' = scan
    BY <1>3 DEF CheckOwnership, PmUnchanged, SameBroker, broker
  <2>1. CASE Skip(sym)
    BY <2>a, <2>1, SkipMove
  <2>2. ASSUME NEW r, pm' = [pm EXCEPT !.pc = "status", !.sym = sym, !.entry = r]
        PROVE  EInv'
    <3>1. /\ pm'.pc = "status" /\ pm'.sym = sym /\ pm'.todo = pm.todo
          /\ pm'.snap = pm.snap /\ pm'.dirty = pm.dirty
      BY <1>a, <2>2 DEF Pass
    <3>2. Passing'
      BY <2>a, <3>1, PassingOn DEF SameBroker
    <3> QED BY <2>a, <3>1, <3>2, QuietPass
  <2> QED BY <1>3, <2>1, <2>2 DEF CheckOwnership
<1>4. CASE CheckEntryFill /\ SameBroker /\ scan' = scan
  BY <1>4, SkipMove, AdvanceMove DEF CheckEntryFill, PmPC
<1>5. CASE Hold /\ SameBroker /\ scan' = scan
  BY <1>5, SkipMove DEF Hold
<1>6. CASE ReserveClose /\ SameBroker /\ scan' = scan
  BY <1>6, FailMove, AdvanceMove DEF ReserveClose, PmPC
<1>7. CASE CloseRereadPositions /\ SameBroker /\ scan' = scan
  BY <1>7, FailMove, AdvanceMove DEF CloseRereadPositions, PmPC
<1>8. CASE CloseRereadOrders
  BY <1>8, SeenMove
<1>9. CASE PostClose
  BY <1>9, PostCloseMove
<1>10. CASE CloseAnswered /\ SameBroker /\ scan' = scan
  BY <1>10, FailMove, AdvanceMove DEF CloseAnswered, Answered, PmPC
<1>11. CASE VerifyClose \/ EndPass
  BY <1>11, CommitMove
<1> QED
  BY <1>b, <1>1, <1>2, <1>3, <1>4, <1>5, <1>6, <1>7, <1>8, <1>9, <1>10, <1>11 DEF PmStep

-----------------------------------------------------------------------------
(* The broker.                                                             *)

OnlyOrders == /\ rows' = rows /\ scan' = scan /\ pm' = pm /\ moved' = moved

(* An order of the broker's changes in nothing but its state; it does not  *)
(* fill, and gets no more alive.                                           *)
LEMMA StateMove ==
  ASSUME EInv, IInv', OnlyOrders, position' = position,
         \A o \in OrderIds :
            /\ orders'[o].row = orders[o].row /\ orders'[o].sym = orders[o].sym
            /\ orders'[o].side = orders[o].side /\ orders'[o].qty = orders[o].qty
            /\ orders'[o].filled = orders[o].filled
            /\ \/ orders'[o].st = orders[o].st
               \/ /\ orders[o].st = "inflight"
                  /\ orders'[o].st \in {"working", "refused", "lost"}
               \/ orders[o].st = "working" /\ orders'[o].st = "cancelled"
  PROVE  EInv'
<1> USE DEF OnlyOrders
<1>1. OrderShape'
  BY DEF EInv, Shape, OrderShape, Live, Remaining
<1>2. SavedIds'
  <2>1. \A r \in RowIds : rows[r].oid \in OrderIds \cup {None}
    BY DEF EInv, IInv, Typed, TypeOK, Row
  <2> QED BY <2>1 DEF EInv, Shape, SavedIds, Answered
<1>3. Passing'
  BY DEF EInv, Passing, Snapped, OwnClose, CloseSeen, LiveClose, Live
<1>4. Room'
  BY DEF EInv, Room, LiveIsSubmitted, EntryRoom, CloseRoom, OneClose, LiveClose, Live,
         Remaining
<1>5. FlatAtPost'
  BY DEF EInv, FlatAtPost
<1>6. \A r \in RowIds \cup pm.dirty : FilledOrder(r) => FilledOrder(r)'
  BY DEF FilledOrder
<1>7. DirtyFilled' /\ ExecutedMeansFilled' /\ ExposureBounded'
  BY <1>6
  DEF EInv, DirtyFilled, Truth, ExecutedMeansFilled, FilledOrder, ExposureBounded
<1> QED BY <1>1, <1>2, <1>3, <1>4, <1>5, <1>7 DEF EInv, Shape, Truth

(* One unit of an order fills: what remains of it and of the position.     *)
Filled(o) ==
    /\ orders[o].st = "working"
    /\ orders'[o].row = orders[o].row /\ orders'[o].sym = orders[o].sym
    /\ orders'[o].side = orders[o].side /\ orders'[o].qty = orders[o].qty
    /\ orders'[o].filled = orders[o].filled + 1
    /\ orders'[o].st = IF orders[o].filled + 1 = orders[o].qty THEN "filled"
                       ELSE "working"
    /\ \A p \in OrderIds \ {o} : orders'[p] = orders[p]
    /\ position'[orders[o].sym] = position[orders[o].sym] + orders[o].side
    /\ \A s \in Symbols \ {orders[o].sym} : position'[s] = position[s]
    /\ OnlyOrders

(* What fills when the symbol is not moved: an unresolved entry of at most *)
(* Qty units, or a close of a position that is there.                      *)
LEMMA FillingEntry ==
  ASSUME EInv, NEW o \in OrderIds, Filled(o), orders[o].row # None,
         orders[o].sym \notin moved
  PROVE  /\ rows[orders[o].row].status = "SUBMITTED"
         /\ 0 <= orders[o].side * position[orders[o].sym]
         /\ orders[o].side * position[orders[o].sym] <= orders[o].filled
         /\ orders[o].filled + 1 <= Qty
<1>1. rows[orders[o].row].status = "SUBMITTED"
  BY DEF EInv, Room, LiveIsSubmitted, Filled, Live
<1>2. Remaining(o) > 0 /\ orders[o].qty = Qty
  BY DEF EInv, Shape, OrderShape, Filled, Live
<1>3. orders[o].filled + 1 <= Qty
  BY <1>2, OrderType, QtyAssumption DEF Remaining, EInv, IInv
<1> QED BY <1>1, <1>3 DEF EInv, Room, EntryRoom

LEMMA FillingClose ==
  ASSUME EInv, NEW o \in OrderIds, Filled(o), orders[o].row = None,
         orders[o].sym \notin moved
  PROVE  /\ orders[o].side * position[orders[o].sym] + Remaining(o) <= 0
         /\ Remaining(o) > 0
  BY DEF EInv, Room, CloseRoom, LiveClose, Live, Filled, Shape, OrderShape

(* The unresolved entry of a symbol is the only one that can fill.         *)
LEMMA FillingOwn ==
  ASSUME EInv, NEW o \in OrderIds, Filled(o), orders[o].row # None,
         orders[o].sym \notin moved,
         NEW r \in RowIds, rows[r].status = "SUBMITTED", rows[r].sym = orders[o].sym
  PROVE  orders[o].row = r
<1>1. orders[o].row \in RowIds /\ rows[orders[o].row].status = "SUBMITTED"
      /\ rows[orders[o].row].sym = orders[o].sym
  BY FillingEntry, OrderType DEF EInv, IInv, Sending, OrderHasRow
<1> QED BY <1>1 DEF EInv, IInv, Serial, OneUnresolvedEntry

LEMMA FillShape ==
  ASSUME EInv, NEW o \in OrderIds, Filled(o)
  PROVE  Shape' /\ Passing' /\ DirtyFilled' /\ ExecutedMeansFilled'
<1> USE DEF Filled, OnlyOrders
<1>1. OrderShape'
  <2>1. Remaining(o) > 0 /\ Remaining(o) = orders[o].qty - orders[o].filled
        /\ orders[o].qty \in Nat /\ orders[o].filled \in Nat
    BY OrderType DEF EInv, IInv, Shape, OrderShape, Live, Remaining
  <2>2. Remaining(o)' = Remaining(o) - 1
    BY <2>1 DEF Remaining
  <2>3. orders'[o].st = "working" => Remaining(o)' > 0
    BY <2>1, <2>2
  <2>4. \A p \in OrderIds \ {o} : Remaining(p)' = Remaining(p)
    BY DEF Remaining
  <2> QED BY <2>1, <2>2, <2>3, <2>4 DEF EInv, Shape, OrderShape, Live
<1>2. SavedIds'
  <2>1. \A r \in RowIds : rows[r].oid \in OrderIds \cup {None}
    BY DEF EInv, IInv, Typed, TypeOK, Row
  <2> QED BY <2>1 DEF EInv, Shape, SavedIds, Answered
<1>3. Passing'
  BY DEF EInv, Passing, Snapped, OwnClose, CloseSeen, LiveClose, Live
<1>4. \A r \in RowIds \cup pm.dirty : FilledOrder(r) => FilledOrder(r)'
  BY DEF FilledOrder
<1>5. DirtyFilled' /\ ExecutedMeansFilled'
  BY <1>4 DEF EInv, DirtyFilled, Truth, ExecutedMeansFilled, FilledOrder
<1> QED BY <1>1, <1>2, <1>3, <1>5 DEF Shape

(* A close on the other side of an entry: the two share a position.        *)
LEMMA SignedUnits ==
  ASSUME NEW d \in {1, -1}, NEW e \in {1, -1}, NEW q \in Int, NEW n \in Int,
         NEW m \in Int
  PROVE  /\ d * (q + d) = d * q + 1
         /\ d * q + n <= 0 /\ n > 0 /\ 0 <= e * q => e * (q + d) = e * q - 1 /\ e * q > 0
         /\ 0 <= d * q /\ e * q + m <= 0 /\ m > 0 => e * (q + d) = e * q - 1
         /\ d * q + n <= 0 /\ n > 0 /\ q \in -m .. m => q + d \in -m .. m
         /\ 0 <= d * q /\ d * q + 1 <= m => q + d \in -m .. m
<1>1. (d = 1 \/ d = -1) /\ (e = 1 \/ e = -1)
  OBVIOUS
<1>2. /\ 1 * q = q /\ (-1) * q = -q /\ 1 * (q + 1) = q + 1 /\ 1 * (q + -1) = q - 1
      /\ (-1) * (q + 1) = -q - 1 /\ (-1) * (q + -1) = 1 - q
  OBVIOUS
<1> QED BY <1>1, <1>2

LEMMA FillRoom ==
  ASSUME EInv, IInv', NEW o \in OrderIds, Filled(o)
  PROVE  Room' /\ ExposureBounded' /\ FlatAtPost'
<1> USE DEF OnlyOrders
<1> DEFINE sym == orders[o].sym
           d == orders[o].side
           q == position[sym]
<1>a. /\ Typed /\ sym \in Symbols /\ d \in {1, -1} /\ q \in Int
      /\ orders[o].filled \in Nat /\ Remaining(o) \in Int /\ position'[sym] = q + d
      /\ Remaining(o)' = Remaining(o) - 1 /\ Qty \in Int
  BY OrderType, QtyAssumption
  DEF EInv, IInv, Shape, OrderShape, Filled, Remaining
<1>b. orders[o].row # None /\ sym \notin moved =>
         0 <= d * q /\ d * q <= orders[o].filled /\ orders[o].filled + 1 <= Qty
         /\ d * q \in Int
  BY <1>a, FillingEntry
<1>c. orders[o].row = None /\ sym \notin moved =>
         d * q + Remaining(o) <= 0 /\ Remaining(o) > 0
  BY FillingClose
<1>d. \A p \in OrderIds : p # o => Remaining(p)' = Remaining(p) /\ (Live(p)' <=> Live(p))
  BY DEF Filled, Remaining, Live
<1>e. Live(o) /\ \A p \in OrderIds : Live(p)' => Live(p)
  BY <1>d DEF Filled, Live
<1>1. LiveIsSubmitted' /\ OneClose'
  BY <1>d, <1>e
  DEF EInv, Room, LiveIsSubmitted, OneClose, LiveClose, Live, Filled
<1>2. EntryRoom'
  <2> SUFFICES ASSUME NEW p \in OrderIds, orders[p].row # None, orders[p].sym \notin moved,
                      rows[orders[p].row].status = "SUBMITTED"
               PROVE  /\ 0 <= orders[p].side * position'[orders[p].sym]
                      /\ orders[p].side * position'[orders[p].sym] <= orders'[p].filled
    BY DEF EntryRoom, Filled
  <2>a. /\ orders[p].sym \in Symbols /\ orders[p].side \in {1, -1}
        /\ orders[p].filled \in Nat /\ orders[p].row \in RowIds
        /\ rows[orders[p].row].sym = orders[p].sym
        /\ 0 <= orders[p].side * position[orders[p].sym]
        /\ orders[p].side * position[orders[p].sym] <= orders[p].filled
    BY <1>a, OrderType
    DEF EInv, Shape, OrderShape, IInv, Sending, OrderHasRow, Room, EntryRoom
  <2>1. CASE orders[p].sym # sym
    BY <2>a, <2>1, <1>d DEF Filled
  <2>2. CASE orders[p].sym = sym /\ orders[o].row # None
    <3>1. orders[o].row = orders[p].row
      BY <2>a, <2>2, FillingOwn
    <3>2. p = o
      BY <2>2, <3>1 DEF EInv, IInv, Sending, OneOrderPerRow
    <3>3. d * (q + d) = d * q + 1 /\ d * q \in Int
      BY <1>a, SignedUnits
    <3> QED BY <1>a, <2>a, <3>2, <3>3 DEF Filled
  <2>3. CASE orders[p].sym = sym /\ orders[o].row = None
    <3>1. p # o
      BY <2>3
    <3>2. orders[p].side * (q + d) = orders[p].side * q - 1 /\ orders[p].side * q > 0
          /\ orders[p].side * q \in Int
      BY <1>a, <1>c, <2>a, <2>3, SignedUnits
    <3> QED BY <1>a, <2>a, <2>3, <3>1, <3>2 DEF Filled
  <2> QED BY <2>1, <2>2, <2>3
<1>3. CloseRoom'
  <2> SUFFICES ASSUME NEW p \in OrderIds, LiveClose(p), orders[p].sym \notin moved
               PROVE  orders[p].side * position'[orders[p].sym] + Remaining(p)' <= 0
    BY <1>e DEF CloseRoom, Filled, LiveClose
  <2>a. /\ orders[p].sym \in Symbols /\ orders[p].side \in {1, -1}
        /\ Remaining(p) \in Int /\ Remaining(p) > 0
        /\ orders[p].side * position[orders[p].sym] + Remaining(p) <= 0
    BY <1>a, OrderType DEF EInv, Shape, OrderShape, Room, CloseRoom, LiveClose, Live
  <2>1. CASE orders[p].sym # sym
    BY <2>a, <2>1, <1>d DEF Filled
  <2>2. CASE orders[p].sym = sym /\ orders[o].row = None
    <3>1. p = o
      BY <1>e, <2>2 DEF EInv, Room, OneClose, LiveClose
    <3>2. d * (q + d) = d * q + 1 /\ d * q \in Int
      BY <1>a, SignedUnits
    <3> QED BY <1>a, <2>a, <3>1, <3>2
  <2>3. CASE orders[p].sym = sym /\ orders[o].row # None
    <3>1. p # o
      BY <2>3 DEF LiveClose
    <3>2. orders[p].side * (q + d) = orders[p].side * q - 1 /\ orders[p].side * q \in Int
      BY <1>a, <1>b, <2>a, <2>3, SignedUnits
    <3> QED BY <1>a, <1>d, <2>a, <2>3, <3>1, <3>2
  <2> QED BY <2>1, <2>2, <2>3
<1>4. ExposureBounded'
  <2> SUFFICES ASSUME sym \notin moved
               PROVE  position'[sym] \in -Qty .. Qty
    BY <1>a DEF EInv, Truth, ExposureBounded, Filled
  <2>1. CASE orders[o].row = None
    BY <1>a, <1>c, <2>1, SignedUnits DEF EInv, Truth, ExposureBounded
  <2>2. CASE orders[o].row # None
    <3>1. 0 <= d * q /\ d * q + 1 <= Qty
      BY <1>a, <1>b, <2>2
    <3> QED BY <1>a, <3>1, SignedUnits
  <2> QED BY <2>1, <2>2
<1>5. FlatAtPost'
  <2> SUFFICES ASSUME NEW s \in Scans, scan[s].pc \in {"orders2", "account"},
                      scan[s].sym \notin moved
               PROVE  position'[scan[s].sym] = 0
    BY DEF FlatAtPost, Filled
  <2>a. /\ Active(s) /\ scan[s].row \in RowIds /\ scan[s].sym \in Symbols
        /\ position[scan[s].sym] = 0
        /\ rows[scan[s].row].status = "SUBMITTED" /\ rows[scan[s].row].sym = scan[s].sym
        /\ orders[o].row # scan[s].row
    BY DEF EInv, FlatAtPost, Active, BeforePost, IInv, Typed, ScanTargets, Ownership,
           ScanOwnsRow, Sending, NoOrderYet
  <2>1. CASE scan[s].sym # sym
    BY <2>a, <2>1 DEF Filled
  <2>2. CASE scan[s].sym = sym
    <3>1. orders[o].row = None
      BY <2>a, <2>2, FillingOwn
    <3>2. d * q = 0
      BY <1>a, <2>a, <2>2
    <3> QED BY <1>a, <1>c, <2>2, <3>1, <3>2
  <2> QED BY <2>1, <2>2
<1> QED BY <1>1, <1>2, <1>3, <1>4, <1>5 DEF Room

LEMMA OrderMove ==
  ASSUME EInv, IInv', NEW o \in OrderIds,
         Deliver(o) \/ Lose(o) \/ Fill(o) \/ CancelOrder(o)
  PROVE  EInv'
<1>a. TypeOK /\ orders[o] \in Order
  BY DEF EInv, IInv, Typed, TypeOK
<1>b. OnlyOrders /\ \A p \in OrderIds \ {o} : orders'[p] = orders[p]
  BY <1>a DEF Deliver, Accept, Refuse, Lose, Fill, CancelOrder, BrokerUnchanged,
              OnlyOrders, TypeOK
<1>1. CASE Deliver(o) \/ Lose(o) \/ CancelOrder(o)
  <2>1. position' = position
    BY <1>1 DEF Deliver, Accept, Refuse, Lose, CancelOrder
  <2>2. /\ orders'[o].row = orders[o].row /\ orders'[o].sym = orders[o].sym
        /\ orders'[o].side = orders[o].side /\ orders'[o].qty = orders[o].qty
        /\ orders'[o].filled = orders[o].filled
        /\ \/ /\ orders[o].st = "inflight"
              /\ orders'[o].st \in {"working", "refused", "lost"}
           \/ orders[o].st = "working" /\ orders'[o].st = "cancelled"
    BY <1>1, <1>a DEF Deliver, Accept, Refuse, Lose, CancelOrder, TypeOK, Order
  <2> QED BY <1>b, <2>1, <2>2, StateMove
<1>2. CASE Fill(o)
  <2>1. orders[o].sym \in Symbols /\ orders[o].st = "working"
    BY <1>2 DEF Fill, EInv, Shape, OrderShape
  <2>2. orders'[o] = [[orders[o] EXCEPT !.filled = orders[o].filled + 1]
                         EXCEPT !.st = IF orders[o].filled + 1 = orders[o].qty
                                       THEN "filled" ELSE orders[o].st]
    BY <1>2, <1>a DEF Fill, TypeOK
  <2>3. /\ orders'[o].row = orders[o].row /\ orders'[o].sym = orders[o].sym
        /\ orders'[o].side = orders[o].side /\ orders'[o].qty = orders[o].qty
        /\ orders'[o].filled = orders[o].filled + 1
        /\ orders'[o].st = IF orders[o].filled + 1 = orders[o].qty
                           THEN "filled" ELSE "working"
    BY <1>a, <2>1, <2>2 DEF Order
  <2>4. /\ position'[orders[o].sym] = position[orders[o].sym] + orders[o].side
        /\ \A s \in Symbols \ {orders[o].sym} : position'[s] = position[s]
    BY <1>2, <1>a, <2>1 DEF Fill, TypeOK
  <2>5. Filled(o)
    BY <1>b, <2>1, <2>3, <2>4 DEF Filled
  <2> QED BY <2>5, FillShape, FillRoom DEF EInv, Truth
<1> QED BY <1>1, <1>2

(* The operator's trade moves its symbol, and touches no other.            *)
LEMMA ManualMove ==
  ASSUME EInv, IInv', NEW sym \in Symbols, ManualTrade(sym)
  PROVE  EInv'
<1>a. /\ rows' = rows /\ orders' = orders /\ scan' = scan /\ pm' = pm
      /\ moved' = moved \cup {sym}
      /\ \A s \in Symbols \ {sym} : position'[s] = position[s]
  BY DEF ManualTrade, EInv, IInv, Typed, TypeOK
<1>b. \A o \in OrderIds :
        /\ orders[o].row # None => orders[o].sym \in Symbols
        /\ Live(o) => orders[o].sym \in Symbols
  BY DEF EInv, Shape, OrderShape, IInv, Sending, OrderHasRow, Live
<1>c. \A s \in Scans : scan[s].pc \in {"orders2", "account"} => scan[s].sym \in Symbols
  BY DEF EInv, IInv, Typed, ScanTargets, Active, BeforePost
<1>1. Shape' /\ Passing'
  BY <1>a DEF EInv, Shape, OrderShape, SavedIds, Passing, Snapped, OwnClose, CloseSeen,
              LiveClose, Live, Remaining, Answered
<1>2. LiveIsSubmitted' /\ OneClose'
  BY <1>a DEF EInv, Room, LiveIsSubmitted, OneClose, LiveClose, Live
<1>3. EntryRoom' /\ CloseRoom'
  BY <1>a, <1>b DEF EInv, Room, EntryRoom, CloseRoom, LiveClose, Live, Remaining
<1>4. FlatAtPost'
  BY <1>a, <1>c DEF EInv, FlatAtPost
<1>5. DirtyFilled' /\ ExecutedMeansFilled' /\ ExposureBounded'
  BY <1>a DEF EInv, DirtyFilled, Truth, ExecutedMeansFilled, FilledOrder, ExposureBounded
<1> QED BY <1>1, <1>2, <1>3, <1>4, <1>5 DEF EInv, Room, Truth

LEMMA OtherStepMove ==
  ASSUME EInv, IInv', Operator \/ Environment \/ Failure
  PROVE  EInv'
<1>a. TypeOK
  BY DEF EInv, IInv, Typed
<1>1. CASE Operator
  <2>1. ASSUME NEW sym \in Symbols, ManualTrade(sym)
        PROVE  EInv'
    BY <2>1, ManualMove
  <2>2. CASE Kill \/ Restart \/ UpdateState \/ ChangeReadiness
    <3>1. rows' = rows /\ scan' = scan /\ pm' = pm /\ SameBroker
      BY <2>2 DEF Kill, Restart, UpdateState, ChangeReadiness, OnlyControls, broker,
                  SameBroker
    <3>2. \A s \in Scans : StaysFlat(s)
      BY <3>1 DEF StaysFlat
    <3> QED BY <3>1, <3>2, ScanMove DEF RowStep
  <2> QED BY <1>1, <2>1, <2>2 DEF Operator
<1>2. ASSUME NEW o \in OrderIds, Deliver(o) \/ Lose(o) \/ Fill(o) \/ CancelOrder(o)
      PROVE  EInv'
  BY <1>2, OrderMove
<1>3. CASE GatewayRestart
  <2>1. OnlyOrders /\ position' = position
    BY <1>3 DEF GatewayRestart, BrokerUnchanged, OnlyOrders
  <2>2. \A o \in OrderIds :
          /\ orders'[o].row = orders[o].row /\ orders'[o].sym = orders[o].sym
          /\ orders'[o].side = orders[o].side /\ orders'[o].qty = orders[o].qty
          /\ orders'[o].filled = orders[o].filled /\ orders'[o].st = orders[o].st
    BY <1>3, <1>a DEF GatewayRestart, TypeOK, Order
  <2> QED BY <2>1, <2>2, StateMove
<1>4. CASE ProcessRestart
  <2>1. rows' = rows /\ SameBroker /\ pm'.pc = "idle" /\ pm'.dirty = {}
        /\ \A s \in Scans : scan'[s].pc = "idle"
    BY <1>4 DEF ProcessRestart, broker, SameBroker, NoPass, NoScan
  <2>2. Shape' /\ Room' /\ Truth'
    BY <2>1, RowsMove DEF RowStep
  <2>3. Passing' /\ FlatAtPost' /\ DirtyFilled'
    BY <2>1, EndedPassing DEF FlatAtPost, DirtyFilled
  <2> QED BY <2>2, <2>3 DEF EInv
<1>5. CASE PassFault
  BY <1>5, FailMove DEF PassFault, broker, SameBroker
<1>6. ASSUME NEW s \in Scans, EntryFault(s)
      PROVE  EInv'
  BY <1>6, <1>a, OthersUnchanged, BlockMove
  DEF EntryFault, Active, BeforePost, broker, SameBroker
<1> QED BY <1>1, <1>2, <1>3, <1>4, <1>5, <1>6 DEF Environment, Failure

-----------------------------------------------------------------------------
LEMMA InitEInv == Init => EInv
<1> SUFFICES ASSUME Init PROVE EInv
  OBVIOUS
<1>1. \A s \in Scans : scan[s].pc = "idle"
  BY DEF Init, NoScan
<1>2. \A o \in OrderIds : /\ orders[o].row = None /\ orders[o].st = "unused"
                          /\ orders[o].filled = 0 /\ orders[o].qty = 0
  BY DEF Init, NoOrder
<1>3. \A r \in RowIds : rows[r].status = "UNUSED"
  BY DEF Init, NoRow
<1>4. pm.dirty = {} /\ pm.pc = "idle"
  BY DEF Init, NoPass
<1>5. \A s \in Symbols : position[s] = 0
  BY DEF Init
<1>6. Shape /\ Passing
  BY <1>2, <1>3, <1>4
  DEF Shape, OrderShape, SavedIds, Passing, Snapped, OwnClose, CloseSeen, Live, Remaining
<1>7. Room /\ FlatAtPost /\ DirtyFilled
  BY <1>1, <1>2, <1>4
  DEF Room, LiveIsSubmitted, EntryRoom, CloseRoom, OneClose, LiveClose, Live, FlatAtPost,
      DirtyFilled
<1>8. Truth
  BY <1>3, <1>5, QtyAssumption DEF Truth, ExecutedMeansFilled, ExposureBounded
<1> QED BY <1>6, <1>7, <1>8, InitIInv DEF EInv

LEMMA ExposureStep == EInv /\ [Next]_vars => EInv'
<1> SUFFICES ASSUME EInv, [Next]_vars PROVE EInv'
  OBVIOUS
<1>1. IInv'
  BY Inductive DEF EInv
<1>2. CASE UNCHANGED vars
  <2>1. rows' = rows /\ SameBroker /\ pm' = pm /\ \A s \in Scans : StaysFlat(s)
    BY <1>2 DEF vars, SameBroker, StaysFlat
  <2> QED BY <1>1, <2>1, ScanMove DEF RowStep
<1> QED BY <1>1, <1>2, ScanStepMove, PmStepMove, OtherStepMove DEF Next

(* The rows and the exposure of every symbol are as EInv says.             *)
THEOREM ExposureInvariant == Spec => []EInv
  BY InitEInv, ExposureStep, PTL DEF Spec

(* An entry recorded as EXECUTED was filled completely, whether its        *)
(* executions or a position proved it, until another hand trades the       *)
(* symbol: reconcile_submitted_entries and the scan's own verification.    *)
THEOREM ExecutionsAreReal == Spec => []ExecutedMeansFilled
  BY ExposureInvariant, PTL DEF EInv, Truth

(* ATLAS holds no more of a symbol than one entry, in either direction,    *)
(* through any entries, closes, lost answers and restarts, until a close   *)
(* is posted for a position that has moved or the operator trades.         *)
THEOREM ExposureIsBounded == Spec => []ExposureBounded
  BY ExposureInvariant, PTL DEF EInv, Truth

=============================================================================
