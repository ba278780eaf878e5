-------------------------- MODULE BybitSpotProofs --------------------------
(***************************************************************************)
(* The rows of managed Spot orders agree with the broker, for any number   *)
(* of scans that overlap as they like, and any quantities and bounds; and  *)
(* the managed quantity is what they say while scans follow one another.   *)
(*                                                                         *)
(* The crux is the reservation: until its order is answered, the scan that *)
(* reads the open orders is the only one that may send one, so an order it *)
(* does not see would have to be its own.  A lost answer ends this, and    *)
(* the property with it; that rows tell the truth it does not touch.       *)
(***************************************************************************)
EXTENDS MCOrders, FiniteSetTheorems, TLAPS

Reserving == {"orders", "lot", "posted"}
Live(o) == order[o].state \in {"flight", "open"}

(* An order that may still fill is not full, and a full one did fill.      *)
SaneOrders == \A o \in Orders :
    /\ order[o].state = "none" => order[o].filled = 0
    /\ Live(o) => order[o].filled < order[o].qty
    /\ order[o].state = "filled" => order[o].filled > 0

(* What a scan knows: a SELL asks for no more than its copy of the managed *)
(* quantity; its order is the one it posted; what it has marked CANCELLED  *)
(* was cancelled without a fill.                                           *)
Known(rec) ==
    /\ rec.pc = "reconcile" => rec.qty > 0
    /\ rec.pc = "slots" => rec.side = "BUY"
    /\ rec.pc = "wallet" => rec.side = "SELL"
    /\ rec.pc \in {"wallet"} \cup Reserving \cup {"verify"} /\ rec.side = "SELL" =>
           rec.copy \in Nat /\ rec.qty <= rec.copy
    /\ rec.pc \in {"posted", "verify"} =>
           /\ rec.order \in Orders /\ order[rec.order].state # "none"
           /\ order[rec.order].side = rec.side /\ order[rec.order].qty = rec.qty
    /\ \A o \in rec.resolved : ZeroFillCancelled(o)
SaneScans == \A s \in Scans : Known(scan[s])

(* The symbol is reserved from the read of the open orders to the answer.  *)
Reserved == \A s \in Scans : (guard = s) = (scan[s].pc \in Reserving)

(* While no answer was lost: an order on its way has its scan waiting, and *)
(* when a scan is about to post, no order is on its way or open.           *)
Awaited == lost = 0 => \A o \in Orders : order[o].state = "flight" =>
    \E s \in Scans : scan[s].pc = "posted" /\ scan[s].order = o
Clear == lost = 0 => \A s \in Scans, o \in Orders : scan[s].pc = "lot" => ~Live(o)
Alone == lost = 0 => \A o, p \in Orders : Live(o) /\ Live(p) => o = p

IInv == /\ TypeOK /\ SaneOrders /\ SaneScans /\ Reserved /\ OutcomeIsTrue
        /\ Awaited /\ Clear /\ Alone

USE DEF Reserving

(* Nothing was ordered yet.                                                *)
LEMMA Initially == Init => IInv
<1> SUFFICES ASSUME Init PROVE IInv
  OBVIOUS
<1>1. NoOrder \in Order /\ NoScan \in Scan
  BY DEF NoOrder, Order, OrderState, NoScan, Scan, ScanPC
<1>2. \A s \in Scans : scan[s].pc = "idle" /\ scan[s].resolved = {} /\ guard # s
  BY ScanAssumption DEF Init, NoScan
<1>3. \A o \in Orders : order[o].state = "none" /\ order[o].filled = 0 /\ order[o].qty = 0
  BY DEF Init, NoOrder
<1>4. TypeOK
  <2>1. /\ rows \in [Orders -> RowStatus] /\ order \in [Orders -> Order]
        /\ scan \in [Scans -> Scan] /\ wallet \in Nat
    BY <1>1, QuantityAssumption DEF Init, RowStatus
  <2>2. \A o \in Orders : order[o].filled <= order[o].qty
    BY <1>3
  <2>3. \A s \in Scans : guard # s
    BY <1>2
  <2> QED BY <2>1, <2>2, <2>3 DEF Init, TypeOK
<1>5. SaneScans /\ Reserved
  BY <1>2 DEF SaneScans, Known, Reserved
<1>6. SaneOrders /\ OutcomeIsTrue /\ Awaited /\ Clear /\ Alone
  BY <1>3 DEF SaneOrders, Live, OutcomeIsTrue, Awaited, Clear, Alone, Init
<1> QED BY <1>4, <1>5, <1>6 DEF IInv

-----------------------------------------------------------------------------
(* Effects.  A scan's item ends: its rows are committed, its reservation   *)
(* ends.  Were its order still on its way, the answer would be lost.       *)
EndRecord(rec, status) ==
    /\ rec.copy \in Nat \cup {None} /\ rec.off \in Nat
    /\ \A o \in rec.resolved : ZeroFillCancelled(o)
    /\ status \in RowStatus
    /\ rec.order \in Orders => /\ status = "CANCELLED" => ZeroFillCancelled(rec.order)
                               /\ status = "EXECUTED" => order[rec.order].filled > 0

(* The end of an item preserves the invariant.                             *)
LEMMA Ending ==
    ASSUME IInv, NEW s \in Scans, NEW rec, NEW status, EndRecord(rec, status),
           End(s, rec, status), UNCHANGED broker, overlapped' \in BOOLEAN,
           \/ /\ lost' = lost
              /\ scan[s].pc = "posted" => order[scan[s].order].state # "flight"
           \/ lost' = lost + 1
    PROVE  IInv'
<1>t. TypeOK /\ order' = order /\ wallet' = wallet /\ moved' = moved
  BY DEF IInv, broker
<1>n. NoScan \in Scan /\ NoScan.pc = "idle" /\ NoScan.resolved = {}
  BY DEF NoScan, Scan, ScanPC
<1>s. /\ scan' \in [Scans -> Scan] /\ scan'[s] = NoScan
      /\ \A t \in Scans \ {s} : scan'[t] = scan[t]
  BY <1>t, <1>n DEF End, TypeOK
<1>g. guard' = (IF guard = s THEN None ELSE guard) /\ None \notin Scans
  BY ScanAssumption DEF End
<1>l. lost' \in Nat /\ (lost' = 0 => lost = 0 /\ lost' = lost)
  BY <1>t DEF TypeOK
<1> HIDE DEF Orders, Order, Scan, NoScan
<1>1. TypeOK'
  <2>1. rows' \in [Orders -> RowStatus]
    BY <1>t DEF End, EndRecord, TypeOK, RowStatus
  <2>2. stock' \in Nat \cup {None} /\ writtenOff' \in Nat /\ blocked' \in BOOLEAN
    BY <1>t DEF End, EndRecord, TypeOK
  <2>3. guard' \in Scans \cup {None}
    BY <1>t, <1>g DEF TypeOK
  <2>4. \A t \in Scans : guard' = t => scan'[t].pc \in {"orders", "lot", "posted"}
    BY <1>t, <1>g, <1>s DEF TypeOK
  <2> QED BY <1>t, <1>s, <1>l, <2>1, <2>2, <2>3, <2>4 DEF TypeOK
<1>2. SaneOrders'
  BY <1>t DEF IInv, SaneOrders, Live
<1>3. SaneScans'
  <2> SUFFICES ASSUME NEW t \in Scans PROVE Known(scan[t])'
    BY DEF SaneScans
  <2>1. CASE t = s
    BY <1>n, <1>s, <2>1 DEF Known
  <2>2. CASE t # s
    BY <1>t, <1>s, <2>2 DEF IInv, SaneScans, Known, ZeroFillCancelled
  <2> QED BY <2>1, <2>2
<1>4. Reserved'
  BY <1>n, <1>s, <1>g DEF IInv, Reserved
<1>5. OutcomeIsTrue'
  <2> SUFFICES ASSUME NEW o \in Orders
               PROVE  /\ rows'[o] = "CANCELLED" => ZeroFillCancelled(o)
                      /\ rows'[o] = "EXECUTED" => order[o].filled > 0
    BY <1>t DEF OutcomeIsTrue, ZeroFillCancelled
  <2>1. /\ rows[o] = "CANCELLED" => ZeroFillCancelled(o)
        /\ rows[o] = "EXECUTED" => order[o].filled > 0
    BY DEF IInv, OutcomeIsTrue, ZeroFillCancelled
  <2>2. rows'[o] = IF o \in rec.resolved THEN "CANCELLED"
                   ELSE IF o = rec.order THEN status ELSE rows[o]
    BY DEF End
  <2> QED BY <2>1, <2>2 DEF EndRecord
<1>6. Awaited'
  BY <1>t, <1>s, <1>l DEF IInv, Awaited
<1>7. Clear' /\ Alone'
  BY <1>t, <1>n, <1>s, <1>l DEF IInv, Clear, Alone, Live
<1> QED BY <1>1, <1>2, <1>3, <1>4, <1>5, <1>6, <1>7 DEF IInv

(* It goes on.                                                             *)
LEMMA Moving ==
    ASSUME IInv, NEW s \in Scans, NEW rec \in Scan, Known(rec),
           scan' = [scan EXCEPT ![s] = rec],
           UNCHANGED << rows, stock, writtenOff, blocked, broker, lost >>,
           overlapped' \in BOOLEAN,
           \/ guard' = guard /\ (rec.pc \in Reserving) = (scan[s].pc \in Reserving)
           \/ guard = None /\ guard' = s /\ rec.pc = "orders"
           \/ guard = s /\ guard' = None /\ rec.pc \notin Reserving,
           rec.pc = "lot" /\ lost = 0 => \A o \in Orders : ~Live(o),
           scan[s].pc = "posted" => order[scan[s].order].state # "flight"
    PROVE  IInv'
<1>t. TypeOK /\ order' = order /\ wallet' = wallet /\ moved' = moved /\ lost' = lost
  BY DEF IInv, broker
<1> HIDE DEF Orders, Order, Scan
<1>s. /\ scan' \in [Scans -> Scan] /\ scan'[s] = rec
      /\ \A t \in Scans \ {s} : scan'[t] = scan[t]
  BY <1>t DEF TypeOK
<1>r. Reserved' /\ guard' \in Scans \cup {None}
  BY <1>t, <1>s, ScanAssumption DEF IInv, Reserved, TypeOK
<1>1. TypeOK'
  BY <1>t, <1>s, <1>r DEF TypeOK, Reserved
<1>2. SaneOrders' /\ OutcomeIsTrue'
  BY <1>t DEF IInv, SaneOrders, Live, OutcomeIsTrue
<1>3. SaneScans'
  <2> SUFFICES ASSUME NEW t \in Scans PROVE Known(scan[t])'
    BY DEF SaneScans
  <2>1. CASE t = s
    BY <1>t, <1>s, <2>1 DEF Known, ZeroFillCancelled
  <2>2. CASE t # s
    BY <1>t, <1>s, <2>2 DEF IInv, SaneScans, Known, ZeroFillCancelled
  <2> QED BY <2>1, <2>2
<1>4. Awaited'
  BY <1>t, <1>s DEF IInv, Awaited
<1>5. Clear' /\ Alone'
  BY <1>t, <1>s DEF IInv, Clear, Alone, Live
<1> QED BY <1>r, <1>1, <1>2, <1>3, <1>4, <1>5 DEF IInv

(* It stops the process, or nothing of it changes but a history.           *)
LEMMA Stopping ==
    ASSUME IInv, UNCHANGED << rows, stock, writtenOff, scan, guard, broker, lost, overlapped >>,
           blocked' \in BOOLEAN
    PROVE  IInv'
<1>t. order' = order /\ wallet' = wallet /\ moved' = moved
  BY DEF broker
<1> HIDE DEF Orders, Order, Scan
<1>1. TypeOK'
  BY <1>t DEF IInv, TypeOK
<1>2. SaneOrders' /\ OutcomeIsTrue' /\ Reserved' /\ Awaited' /\ Clear' /\ Alone'
  BY <1>t DEF IInv, SaneOrders, Live, OutcomeIsTrue, Reserved, Awaited, Clear, Alone
<1>3. SaneScans'
  BY <1>t DEF IInv, SaneScans, Known, ZeroFillCancelled
<1> QED BY <1>1, <1>2, <1>3 DEF IInv

-----------------------------------------------------------------------------
(* What a scan remembers, one field at a time.                             *)
LEMMA PcFields ==
    ASSUME NEW r \in Scan, NEW pc \in ScanPC
    PROVE  LET q == [r EXCEPT !.pc = pc] IN
           /\ q \in Scan /\ q.pc = pc /\ q.side = r.side /\ q.qty = r.qty
           /\ q.resolved = r.resolved /\ q.copy = r.copy /\ q.order = r.order
BY DEF Scan, ScanPC

(* Only the managed quantity changes.                                      *)
LEMMA CopyFields ==
    ASSUME NEW r \in Scan, NEW copy \in Nat \cup {None}
    PROVE  LET q == [r EXCEPT !.copy = copy] IN
           /\ q \in Scan /\ q.pc = r.pc /\ q.side = r.side /\ q.qty = r.qty
           /\ q.resolved = r.resolved /\ q.copy = copy /\ q.off = r.off
BY DEF Scan, ScanPC

(* The order is forgotten.                                                 *)
LEMMA ClosedFields ==
    ASSUME NEW r \in Scan
    PROVE  LET q == [r EXCEPT !.order = None] IN
           /\ q.copy \in Nat \cup {None} /\ q.off \in Nat
           /\ q.resolved = r.resolved /\ q.order = None
BY DEF Scan

(* Only the submissions still to be reconciled change.                     *)
LEMMA TodoFields ==
    ASSUME NEW r \in Scan, NEW todo \in SUBSET Orders
    PROVE  LET q == [r EXCEPT !.todo = todo] IN
           /\ q \in Scan /\ q.pc = r.pc /\ q.side = r.side /\ q.qty = r.qty
           /\ q.resolved = r.resolved /\ q.copy = r.copy /\ q.order = r.order
BY DEF Scan, ScanPC

Resolving(r, todo, resolved) == [r EXCEPT !.todo = todo, !.resolved = resolved]

(* A submission is reconciled.                                             *)
LEMMA ResolvedFields ==
    ASSUME NEW r \in Scan, NEW todo \in SUBSET Orders, NEW resolved \in SUBSET Orders
    PROVE  LET q == Resolving(r, todo, resolved) IN
           /\ q \in Scan /\ q.pc = r.pc /\ q.qty = r.qty /\ q.resolved = resolved
BY DEF Scan, ScanPC, Resolving

-----------------------------------------------------------------------------
(* The steps that several operations of a scan end in.                     *)
Steady == /\ UNCHANGED << broker, lost >>
          /\ overlapped' \in BOOLEAN

(* An item ends without a row: an error, a block or a lost answer.         *)
LEMMA Abandoning ==
    ASSUME IInv, NEW s \in Scans, NEW rec \in Scan,
           \A o \in rec.resolved : ZeroFillCancelled(o),
           Abandon(s, rec), UNCHANGED broker, overlapped' \in BOOLEAN,
           \/ /\ lost' = lost
              /\ scan[s].pc = "posted" => order[scan[s].order].state # "flight"
           \/ lost' = lost + 1
    PROVE  IInv'
<1>1. EndRecord([rec EXCEPT !.order = None], "none")
  <2>1. None \notin Orders
    BY ScanAssumption, BoundAssumption DEF Orders
  <2> HIDE DEF Orders
  <2> QED BY <2>1, ClosedFields DEF EndRecord, RowStatus
<1> QED BY <1>1, Ending DEF Abandon

(* An order is asked for: the reservation is taken, or the item ends.      *)
LEMMA Requesting ==
    ASSUME IInv, NEW s \in Scans, NEW rec \in Scan, scan[s].pc \notin Reserving,
           \A o \in rec.resolved : ZeroFillCancelled(o),
           rec.side = "SELL" => rec.copy \in Nat /\ rec.qty <= rec.copy,
           Reserve(s, rec), Steady
    PROVE  IInv'
<1>1. CASE guard # None /\ Abandon(s, rec)
  BY <1>1, Abandoning DEF Steady
<1>2. CASE /\ guard = None /\ guard' = s
           /\ scan' = [scan EXCEPT ![s] = [rec EXCEPT !.pc = "orders"]]
           /\ UNCHANGED << rows, stock, writtenOff, blocked >>
  <2> DEFINE q == [rec EXCEPT !.pc = "orders"]
  <2>1. /\ q \in Scan /\ q.pc = "orders" /\ q.side = rec.side /\ q.qty = rec.qty
        /\ q.resolved = rec.resolved /\ q.copy = rec.copy
    BY PcFields DEF ScanPC
  <2> HIDE DEF q
  <2>2. Known(q)
    BY <2>1 DEF Known
  <2>3. scan' = [scan EXCEPT ![s] = q]
    BY <1>2 DEF q
  <2> QED BY <1>2, <2>1, <2>2, <2>3, Moving DEF Steady
<1> QED BY <1>1, <1>2 DEF Reserve

(* The scan goes on with the same reservation.                             *)
LEMMA Continuing ==
    ASSUME IInv, NEW s \in Scans, NEW rec \in Scan, Known(rec), Continue(s, rec), Steady,
           (rec.pc \in Reserving) = (scan[s].pc \in Reserving),
           rec.pc = "lot" /\ lost = 0 => \A o \in Orders : ~Live(o),
           scan[s].pc # "posted"
    PROVE  IInv'
BY Moving DEF Continue, Steady

(* A SELL goes on only within the managed quantity that was loaded.        *)
LEMMA Examining ==
    ASSUME IInv, NEW s \in Scans, NEW rec \in Scan, rec.qty > 0,
           scan[s].pc \in {"idle", "reconcile"},
           \A o \in rec.resolved : ZeroFillCancelled(o),
           Examine(s, rec), Steady
    PROVE  IInv'
<1> DEFINE loaded == [rec EXCEPT !.copy = stock]
<1>t. stock \in Nat \cup {None} /\ None \notin Nat
  BY ScanAssumption DEF IInv, TypeOK
<1>0. /\ loaded \in Scan /\ loaded.pc = rec.pc /\ loaded.side = rec.side /\ loaded.qty = rec.qty
      /\ loaded.resolved = rec.resolved /\ loaded.copy = stock
  BY <1>t, CopyFields
<1> HIDE DEF loaded
<1>1. CASE rec.side = "BUY" /\ Reserve(s, loaded)
  BY <1>0, <1>1, Requesting
<1>2. CASE Abandon(s, loaded)
  BY <1>0, <1>2, Abandoning DEF Steady
<1>3. ASSUME NEW pc \in {"slots", "wallet"}, Continue(s, [loaded EXCEPT !.pc = pc]),
             pc = "slots" => rec.side = "BUY",
             pc = "wallet" => rec.side = "SELL" /\ rec.qty <= Held(stock)
      PROVE  IInv'
  <2> DEFINE q == [loaded EXCEPT !.pc = pc]
  <2>0. pc \in ScanPC
    BY DEF ScanPC
  <2>1. /\ q \in Scan /\ q.pc = pc /\ q.side = rec.side /\ q.qty = rec.qty
        /\ q.resolved = rec.resolved /\ q.copy = stock
    BY <1>0, <2>0, PcFields
  <2> HIDE DEF q
  <2>2. pc = "wallet" => stock \in Nat /\ rec.qty <= stock
    <3>1. rec.qty \in Nat
      BY DEF Scan
    <3> QED BY <1>t, <1>3, <3>1 DEF Held
  <2>3. Known(q)
    BY <1>3, <2>1, <2>2 DEF Known
  <2>4. Continue(s, q)
    BY <1>3 DEF q
  <2> QED BY <2>1, <2>3, <2>4, Continuing
<1>4. \/ rec.side = "BUY" /\ Reserve(s, loaded)
      \/ rec.side = "BUY" /\ Continue(s, [loaded EXCEPT !.pc = "slots"])
      \/ /\ rec.side = "SELL" /\ rec.qty <= Held(stock)
         /\ Continue(s, [loaded EXCEPT !.pc = "wallet"])
      \/ Abandon(s, loaded)
  BY DEF Examine, loaded
<1> QED BY <1>1, <1>2, <1>3, <1>4

-----------------------------------------------------------------------------
(* The operations of a scan.                                               *)
Signalled(r, side, qty) == [r EXCEPT !.side = side, !.qty = qty]

(* The item of a signal.                                                   *)
LEMMA SignalFields ==
    ASSUME NEW r \in Scan, NEW side \in {"BUY", "SELL"}, NEW qty \in Nat
    PROVE  /\ Signalled(r, side, qty) \in Scan /\ Signalled(r, side, qty).qty = qty
           /\ Signalled(r, side, qty).resolved = r.resolved
BY DEF Scan, ScanPC, Signalled

(* The item of a scan that reconciles first.                               *)
LEMMA QueueFields ==
    ASSUME NEW r \in Scan, NEW todo \in SUBSET Orders
    PROVE  LET q == [r EXCEPT !.pc = "reconcile", !.todo = todo] IN
           /\ q \in Scan /\ q.pc = "reconcile" /\ q.qty = r.qty /\ q.resolved = r.resolved
BY DEF Scan, ScanPC

(* A signal comes with a positive quantity.                                *)
LEMMA BeginKeeps ==
    ASSUME IInv, NEW s \in Scans, NEW side \in {"BUY", "SELL"},
           NEW qty \in 1 .. Qty + MinQty - 1, Begin(s, side, qty)
    PROVE  IInv'
<1> DEFINE rec == Signalled(NoScan, side, qty)
<1>0. NoScan \in Scan /\ NoScan.resolved = {} /\ qty \in Nat /\ qty > 0
  BY QuantityAssumption DEF NoScan, Scan, ScanPC
<1>1. rec \in Scan /\ rec.qty = qty /\ rec.resolved = {}
  BY <1>0, SignalFields, ZenonT(60)
<1>2. scan[s].pc = "idle" /\ Steady
  BY DEF Begin, Steady, IInv, TypeOK
<1>3. \/ Examine(s, rec)
      \/ Continue(s, [rec EXCEPT !.pc = "reconcile", !.todo = Pending(s, {})])
  BY DEF Begin, Signalled
<1> HIDE DEF rec
<1>4. CASE Examine(s, rec)
  BY <1>0, <1>1, <1>2, <1>4, Examining
<1>5. CASE Continue(s, [rec EXCEPT !.pc = "reconcile", !.todo = Pending(s, {})])
  <2> DEFINE q == [rec EXCEPT !.pc = "reconcile", !.todo = Pending(s, {})]
  <2>1. Pending(s, {}) \in SUBSET Orders
    BY DEF Pending
  <2>2. q \in Scan /\ q.pc = "reconcile" /\ q.qty = qty /\ q.resolved = {}
    BY <1>1, <2>1, QueueFields
  <2>3. Continue(s, q)
    BY <1>5
  <2> HIDE DEF q
  <2>4. Known(q)
    BY <1>0, <2>2 DEF Known
  <2> QED BY <1>2, <2>2, <2>3, <2>4, Continuing
<1> QED BY <1>3, <1>4, <1>5

(* A row is marked only when its order was cancelled without a fill.       *)
LEMMA ReconcileKeeps ==
    ASSUME IInv, NEW s \in Scans, NEW o \in Orders, Reconcile(s, o)
    PROVE  IInv'
<1> DEFINE todo == scan[s].todo \ {o}
           Goes(rec) == Continue(s, rec) \/ Abandon(s, rec) \/ Examine(s, rec)
<1>0. /\ scan[s] \in Scan /\ scan[s].pc = "reconcile" /\ scan[s].qty > 0
      /\ todo \in SUBSET Orders /\ scan[s].resolved \in SUBSET Orders
      /\ \A p \in scan[s].resolved : ZeroFillCancelled(p)
      /\ Steady
  <2>1. scan[s] \in Scan /\ Known(scan[s]) /\ scan[s].pc = "reconcile" /\ Steady
    BY DEF Reconcile, IInv, SaneScans, TypeOK, Steady
  <2>2. scan[s].todo \in SUBSET Orders /\ scan[s].resolved \in SUBSET Orders
    BY <2>1 DEF Scan
  <2> QED BY <2>1, <2>2 DEF Known
<1>1. \/ Goes([scan[s] EXCEPT !.todo = todo])
      \/ Stop
      \/ /\ ZeroFillCancelled(o)
         /\ Goes(Resolving(scan[s], todo, scan[s].resolved \cup {o}))
  BY <1>0 DEF Reconcile, Resolving
<1>2. ASSUME NEW q \in Scan, q.pc = "reconcile", q.qty > 0,
             \A p \in q.resolved : ZeroFillCancelled(p), Goes(q)
      PROVE  IInv'
  <2>1. Known(q)
    BY <1>2 DEF Known
  <2>2. CASE Continue(s, q)
    BY <1>0, <1>2, <2>1, <2>2, Continuing
  <2>3. CASE Abandon(s, q)
    BY <1>0, <1>2, <2>3, Abandoning DEF Steady
  <2>4. CASE Examine(s, q)
    BY <1>0, <1>2, <2>4, Examining
  <2> QED BY <1>2, <2>2, <2>3, <2>4
<1> HIDE DEF todo, Goes
<1>3. CASE Goes([scan[s] EXCEPT !.todo = todo])
  <2> DEFINE q == [scan[s] EXCEPT !.todo = todo]
  <2>1. q \in Scan /\ q.pc = "reconcile" /\ q.qty > 0 /\ q.resolved = scan[s].resolved
    BY <1>0, TodoFields
  <2>2. Goes(q)
    BY <1>3
  <2> HIDE DEF q
  <2> QED BY <1>0, <1>2, <2>1, <2>2
<1>4. CASE Stop
  BY <1>0, <1>4, Stopping DEF Stop, Steady, Reconcile
<1>5. CASE /\ ZeroFillCancelled(o)
           /\ Goes(Resolving(scan[s], todo, scan[s].resolved \cup {o}))
  <2> DEFINE q == Resolving(scan[s], todo, scan[s].resolved \cup {o})
  <2>0. scan[s].resolved \cup {o} \in SUBSET Orders
    BY <1>0
  <2>1. /\ q \in Scan /\ q.pc = "reconcile" /\ q.qty > 0
        /\ q.resolved = scan[s].resolved \cup {o}
    BY <1>0, <2>0, ResolvedFields
  <2>2. Goes(q)
    BY <1>5
  <2> HIDE DEF q
  <2> QED BY <1>0, <1>2, <1>5, <2>1, <2>2
<1> QED BY <1>1, <1>3, <1>4, <1>5

(* Between its other awaits a scan is typed, and knows what it knows.      *)
LEMMA ScanAt ==
    ASSUME IInv, NEW s \in Scans
    PROVE  /\ scan[s] \in Scan /\ Known(scan[s]) /\ overlapped \in BOOLEAN
           /\ \A o \in scan[s].resolved : ZeroFillCancelled(o)
BY DEF IInv, TypeOK, SaneScans, Known

(* The slots were read for a BUY.                                          *)
LEMMA CheckKeeps == ASSUME IInv, NEW s \in Scans, CheckSlots(s) PROVE IInv'
<1>0. /\ scan[s] \in Scan /\ Known(scan[s]) /\ Steady
      /\ \A o \in scan[s].resolved : ZeroFillCancelled(o)
      /\ scan[s].pc = "slots" /\ scan[s].side = "BUY"
  BY ScanAt DEF CheckSlots, Known, Steady
<1>1. Reserve(s, scan[s]) \/ Abandon(s, scan[s])
  BY DEF CheckSlots
<1> QED BY <1>0, <1>1, Requesting, Abandoning DEF Steady

Less(r, copy, off, qty) == [r EXCEPT !.copy = copy, !.dirty = TRUE, !.off = off, !.qty = qty]

(* A SELL cut to the wallet asks for no more than the copy cut with it.    *)
LEMMA LessKeeps ==
    ASSUME IInv, NEW s \in Scans, scan[s].pc = "wallet", Steady,
           NEW off \in Nat, NEW qty \in Nat, qty <= wallet,
           \/ Reserve(s, Less(scan[s], wallet, off, qty))
           \/ Abandon(s, Less(scan[s], wallet, off, qty))
    PROVE  IInv'
<1> DEFINE less == Less(scan[s], wallet, off, qty)
<1>0. wallet \in Nat /\ scan[s] \in Scan /\ \A o \in scan[s].resolved : ZeroFillCancelled(o)
  BY ScanAt DEF IInv, TypeOK
<1>1. less \in Scan /\ less.copy = wallet /\ less.qty = qty /\ less.resolved = scan[s].resolved
  <2> DEFINE r == scan[s]
  <2>1. r \in Scan /\ wallet \in Nat
    BY <1>0
  <2> HIDE DEF r
  <2>2. /\ Less(r, wallet, off, qty) \in Scan
        /\ Less(r, wallet, off, qty).copy = wallet /\ Less(r, wallet, off, qty).qty = qty
        /\ Less(r, wallet, off, qty).resolved = r.resolved
    BY <2>1 DEF Less, Scan, ScanPC
  <2> QED BY <2>2 DEF r
<1> HIDE DEF less
<1>2. Reserve(s, less) \/ Abandon(s, less)
  BY DEF less
<1> QED BY <1>0, <1>1, <1>2, Requesting, Abandoning DEF Steady

(* Whatever the wallet holds, a SELL stays within its copy.                *)
LEMMA WalletKeeps == ASSUME IInv, NEW s \in Scans, ReadWallet(s) PROVE IInv'
<1> DEFINE rec == scan[s]
           qty == IF wallet < rec.qty THEN wallet ELSE rec.qty
           off == rec.copy - wallet
           less == Less(rec, wallet, off, qty)
<1>0. /\ rec \in Scan /\ Known(rec) /\ Steady
      /\ \A o \in rec.resolved : ZeroFillCancelled(o)
      /\ rec.pc = "wallet" /\ rec.side = "SELL" /\ rec.copy \in Nat /\ rec.qty <= rec.copy
      /\ wallet \in Nat /\ rec.qty \in Nat
  <2>1. rec \in Scan /\ Known(rec) /\ Steady /\ rec.pc = "wallet" /\ wallet \in Nat
    BY ScanAt DEF ReadWallet, Steady, IInv, TypeOK
  <2>2. rec.qty \in Nat
    BY <2>1 DEF Scan
  <2> QED BY <2>1, <2>2 DEF Known
<1>1. \/ wallet >= rec.copy /\ Reserve(s, rec)
      \/ Stop
      \/ wallet < rec.copy /\ (Reserve(s, less) \/ Abandon(s, less))
  BY DEF ReadWallet, Less
<1>2. CASE Reserve(s, rec)
  <2> HIDE DEF rec
  <2> QED BY <1>0, <1>2, Requesting DEF rec
<1>3. CASE Stop
  BY <1>0, <1>3, Stopping DEF Stop, Steady, ReadWallet
<1>4. CASE wallet < rec.copy /\ (Reserve(s, less) \/ Abandon(s, less))
  <2>1. qty \in Nat /\ qty <= wallet /\ off \in Nat
    BY <1>0, <1>4
  <2>2. Reserve(s, less) \/ Abandon(s, less)
    BY <1>4
  <2> HIDE DEF qty, off
  <2> QED BY <1>0, <2>1, <2>2, LessKeeps
<1> QED BY <1>1, <1>2, <1>3, <1>4

(* The crux: the reads of open orders show what the reservation leaves.    *)
LEMMA OrdersKeep == ASSUME IInv, NEW s \in Scans, ReadOrders(s) PROVE IInv'
<1> DEFINE rec == scan[s]
           q == [rec EXCEPT !.pc = "lot"]
<1>0. /\ rec \in Scan /\ Known(rec) /\ Steady /\ rec.pc = "orders"
      /\ \A o \in rec.resolved : ZeroFillCancelled(o)
  BY ScanAt DEF ReadOrders, Steady
<1>1. CASE OpenOrder
  BY <1>0, <1>1, Abandoning DEF ReadOrders, Steady
<1>2. CASE ~OpenOrder
  <2>1. /\ q \in Scan /\ q.pc = "lot" /\ q.side = rec.side /\ q.qty = rec.qty
        /\ q.resolved = rec.resolved /\ q.copy = rec.copy
    BY <1>0, PcFields DEF ScanPC
  <2>2. Continue(s, q)
    BY <1>2 DEF ReadOrders
  <2> HIDE DEF q
  <2>3. Known(q)
    BY <1>0, <2>1 DEF Known
  <2>4. lost = 0 => \A o \in Orders : ~Live(o)
    <3> SUFFICES ASSUME lost = 0, NEW o \in Orders, order[o].state = "flight" PROVE FALSE
      BY <1>2 DEF OpenOrder, Live
    <3>1. PICK t \in Scans : scan[t].pc = "posted"
      BY DEF IInv, Awaited
    <3>2. guard = t /\ guard = s
      BY <1>0, <3>1 DEF IInv, Reserved
    <3> QED BY <1>0, <3>1, <3>2
  <2> QED BY <1>0, <2>1, <2>2, <2>3, <2>4, Continuing
<1> QED BY <1>1, <1>2

(* A failed read, and the loss of an answer, which is counted.             *)
LEMMA FaultKeeps == ASSUME IInv, NEW s \in Scans, ReadFault(s) \/ LoseAnswer(s) PROVE IInv'
<1>1. CASE ReadFault(s)
  BY <1>1, ScanAt, Abandoning DEF ReadFault
<1>2. CASE LoseAnswer(s)
  BY <1>2, ScanAt, Abandoning DEF LoseAnswer
<1> QED BY <1>1, <1>2

(* The reservation ends when the order is no longer on its way.            *)
LEMMA AnsweredKeeps == ASSUME IInv, NEW s \in Scans, Answered(s) PROVE IInv'
<1> DEFINE rec == scan[s]
           q == [rec EXCEPT !.pc = "verify"]
<1>0. /\ rec \in Scan /\ Known(rec) /\ Steady /\ rec.pc = "posted"
      /\ \A o \in rec.resolved : ZeroFillCancelled(o)
      /\ order[rec.order].state # "flight" /\ scan \in [Scans -> Scan]
  BY ScanAt DEF Answered, Steady, IInv, TypeOK
<1>1. CASE Abandon(s, rec)
  BY <1>0, <1>1, Abandoning DEF Steady
<1>2. CASE /\ scan' = [scan EXCEPT ![s].pc = "verify"] /\ guard' = None
           /\ UNCHANGED << rows, stock, writtenOff, blocked >>
  <2>1. /\ q \in Scan /\ q.pc = "verify" /\ q.side = rec.side /\ q.qty = rec.qty
        /\ q.resolved = rec.resolved /\ q.copy = rec.copy /\ q.order = rec.order
    BY <1>0, PcFields DEF ScanPC
  <2>2. scan' = [scan EXCEPT ![s] = q] /\ guard = s
    BY <1>0, <1>2 DEF IInv, Reserved
  <2> HIDE DEF q
  <2>3. Known(q)
    BY <1>0, <2>1 DEF Known
  <2> QED BY <1>0, <1>2, <2>1, <2>2, <2>3, Moving DEF Steady
<1> QED BY <1>1, <1>2 DEF Answered

(* A scan posts one order, and no other is on its way or open.             *)
LEMMA PostKeeps == ASSUME IInv, NEW s \in Scans, Post(s) PROVE IInv'
<1> DEFINE rec == scan[s]
<1>0. /\ rec \in Scan /\ Known(rec) /\ rec.pc = "lot" /\ rec.qty \in Nat
      /\ rec.side \in {"BUY", "SELL"}
      /\ \A o \in rec.resolved : ZeroFillCancelled(o)
      /\ lost' = lost /\ overlapped' \in BOOLEAN
  <2>1. /\ rec \in Scan /\ Known(rec) /\ rec.pc = "lot" /\ lost' = lost /\ overlapped' \in BOOLEAN
    BY ScanAt DEF Post
  <2>2. rec.qty \in Nat /\ rec.side \in {"BUY", "SELL"}
    BY <2>1 DEF Scan
  <2> QED BY <2>1, <2>2 DEF Known
<1>1. CASE Abandon(s, rec) /\ UNCHANGED broker
  BY <1>0, <1>1, Abandoning
<1>2. ASSUME NEW o \in Orders, rec.qty >= MinQty, order[o].state = "none",
             order' = [order EXCEPT ![o] = [state |-> "flight", side |-> rec.side,
                                            qty |-> rec.qty, filled |-> 0]],
             Continue(s, [rec EXCEPT !.pc = "posted", !.order = o]),
             UNCHANGED << wallet, moved >>
      PROVE  IInv'
  <2> DEFINE new == [state |-> "flight", side |-> rec.side, qty |-> rec.qty, filled |-> 0]
             q == [rec EXCEPT !.pc = "posted", !.order = o]
  <2>1. /\ new \in Order /\ new.state = "flight" /\ new.side = rec.side /\ new.qty = rec.qty
        /\ new.filled = 0 /\ rec.qty > 0
    <3>1. new \in Order
      BY <1>0 DEF Order, OrderState
    <3> QED BY <1>0, <1>2, <3>1, QuantityAssumption
  <2>2. /\ q \in Scan /\ q.pc = "posted" /\ q.order = o /\ q.side = rec.side /\ q.qty = rec.qty
        /\ q.copy = rec.copy /\ q.resolved = rec.resolved
    BY <1>0 DEF Scan, ScanPC
  <2>3. /\ scan' = [scan EXCEPT ![s] = q] /\ order' = [order EXCEPT ![o] = new]
        /\ UNCHANGED << rows, stock, writtenOff, guard, blocked, wallet, moved, lost >>
    BY <1>0, <1>2 DEF Continue
  <2> HIDE DEF new, q, Orders, Order, Scan
  <2>4. TypeOK
    BY DEF IInv
  <2>5. /\ order' \in [Orders -> Order] /\ order'[o] = new
        /\ \A p \in Orders \ {o} : order'[p] = order[p]
    BY <2>1, <2>3, <2>4 DEF TypeOK
  <2>6. /\ scan' \in [Scans -> Scan] /\ scan'[s] = q
        /\ \A t \in Scans \ {s} : scan'[t] = scan[t]
    BY <2>2, <2>3, <2>4 DEF TypeOK
  <2>7. TypeOK'
    <3>1. \A p \in Orders : order'[p].filled <= order'[p].qty
      BY <1>0, <2>1, <2>4, <2>5 DEF TypeOK
    <3>2. \A t \in Scans : guard' = t => scan'[t].pc \in {"orders", "lot", "posted"}
      BY <2>2, <2>3, <2>4, <2>6 DEF TypeOK
    <3> QED BY <1>0, <2>3, <2>4, <2>5, <2>6, <3>1, <3>2 DEF TypeOK
  <2>8. SaneOrders'
    BY <2>1, <2>5 DEF IInv, SaneOrders, Live
  <2>9. \A p \in Orders : ZeroFillCancelled(p) => ZeroFillCancelled(p)' /\ p # o
    BY <1>2, <2>5 DEF ZeroFillCancelled
  <2>10. SaneScans'
    <3> SUFFICES ASSUME NEW t \in Scans PROVE Known(scan[t])'
      BY DEF SaneScans
    <3>0. \A p \in scan[t].resolved : p \in Orders
      BY <2>4 DEF TypeOK, Scan
    <3>1. CASE t = s
      <4>1. /\ rec.side = "SELL" => rec.copy \in Nat /\ rec.qty <= rec.copy
            /\ \A p \in rec.resolved : p \in Orders /\ ZeroFillCancelled(p)
        BY <1>0, <3>0, <3>1 DEF Known
      <4> QED BY <2>1, <2>2, <2>5, <2>6, <2>9, <3>1, <4>1 DEF Known
    <3>2. CASE t # s
      <4>1. Known(scan[t]) /\ scan'[t] = scan[t]
        BY <2>6, <3>2 DEF IInv, SaneScans
      <4>2. scan[t].pc \in {"posted", "verify"} => scan[t].order # o
        BY <1>2, <4>1 DEF Known
      <4> QED BY <2>5, <2>9, <3>0, <4>1, <4>2 DEF Known
    <3> QED BY <3>1, <3>2
  <2>11. Reserved'
    BY <1>0, <2>2, <2>3, <2>6 DEF IInv, Reserved
  <2>12. OutcomeIsTrue'
    BY <1>2, <2>3, <2>4, <2>5 DEF IInv, SaneOrders, OutcomeIsTrue, TypeOK
  <2>13. Awaited'
    <3> SUFFICES ASSUME lost = 0, NEW p \in Orders, order'[p].state = "flight"
                 PROVE  \E t \in Scans : scan'[t].pc = "posted" /\ scan'[t].order = p
      BY <2>3 DEF Awaited
    <3>1. CASE p = o
      BY <2>2, <2>6, <3>1
    <3>2. CASE p # o
      <4>1. PICK t \in Scans : scan[t].pc = "posted" /\ scan[t].order = p
        BY <2>5, <3>2 DEF IInv, Awaited
      <4>2. t # s
        BY <1>0, <4>1
      <4> QED BY <2>6, <4>1, <4>2
    <3> QED BY <3>1, <3>2
  <2>14. lost = 0 => \A p \in Orders : order'[p].state \in {"flight", "open"} => p = o
    BY <1>0, <2>5 DEF IInv, Clear, Live
  <2>15. Alone'
    BY <2>3, <2>14 DEF Alone, Live
  <2>16. Clear'
    <3> SUFFICES ASSUME NEW t \in Scans, scan'[t].pc = "lot" PROVE FALSE
      BY DEF Clear
    <3>1. t # s /\ scan[t].pc = "lot"
      BY <2>2, <2>6
    <3>2. guard = t /\ guard = s
      BY <1>0, <3>1 DEF IInv, Reserved
    <3> QED BY <3>1, <3>2
  <2> QED BY <2>7, <2>8, <2>10, <2>11, <2>12, <2>13, <2>15, <2>16 DEF IInv
<1>3. \/ Abandon(s, rec) /\ UNCHANGED broker
      \/ \E o \in Orders :
            /\ rec.qty >= MinQty /\ order[o].state = "none"
            /\ order' = [order EXCEPT ![o] = [state |-> "flight", side |-> rec.side,
                                              qty |-> rec.qty, filled |-> 0]]
            /\ Continue(s, [rec EXCEPT !.pc = "posted", !.order = o])
            /\ UNCHANGED << wallet, moved >>
  BY DEF Post
<1> HIDE DEF rec
<1> QED BY <1>1, <1>2, <1>3

Filling(r, copy) == [r EXCEPT !.copy = copy, !.dirty = TRUE]

(* A fill is applied to the copy.                                          *)
LEMMA FillingFields ==
    ASSUME NEW r \in Scan, NEW copy \in Nat
    PROVE  LET q == Filling(r, copy) IN
           /\ q.copy \in Nat \cup {None} /\ q.off \in Nat
           /\ q.resolved = r.resolved /\ q.order = r.order
BY DEF Filling, Scan, ScanPC

(* A fill leaves no negative quantity: a SELL asked for no more than the   *)
(* copy it is applied to.                                                  *)
LEMMA AppliedIsNat ==
    ASSUME IInv, NEW s \in Scans, scan[s].pc = "verify"
    PROVE  Applied(scan[s].copy, scan[s].order) \in Nat
<1> DEFINE copy == scan[s].copy
           o == scan[s].order
<1>1. /\ scan[s].side = "SELL" => copy \in Nat /\ scan[s].qty <= copy
      /\ o \in Orders /\ order[o].side = scan[s].side /\ order[o].qty = scan[s].qty
  BY ScanAt DEF Known
<1>2. scan[s].qty \in Nat /\ copy \in Nat \cup {None} /\ scan[s].side \in {"BUY", "SELL"}
  BY ScanAt DEF Scan
<1>3. order[o].filled \in Nat /\ order[o].filled <= order[o].qty
  BY <1>1 DEF IInv, TypeOK, Order
<1>4. Held(copy) \in Nat /\ (scan[s].side = "SELL" => Held(copy) = copy)
  BY <1>1, <1>2, ScanAssumption DEF Held
<1> HIDE DEF copy, o
<1>5. Applied(copy, o) \in Nat
  <2>1. CASE scan[s].side = "BUY"
    BY <1>1, <1>3, <1>4, <2>1 DEF Applied
  <2>2. CASE scan[s].side = "SELL"
    BY <1>1, <1>2, <1>3, <1>4, <2>2 DEF Applied
  <2> QED BY <1>2, <2>1, <2>2
<1> QED BY <1>5 DEF copy, o

(* The row that a verification writes says what became of the order.       *)
LEMMA VerifyKeeps == ASSUME IInv, NEW s \in Scans, Verify(s) PROVE IInv'
<1> DEFINE rec == scan[s]
           o == rec.order
           copy == Applied(rec.copy, o)
<1>0. /\ rec \in Scan /\ Steady /\ rec.pc = "verify" /\ o \in Orders
      /\ \A p \in rec.resolved : ZeroFillCancelled(p)
      /\ rec.copy \in Nat \cup {None} /\ rec.off \in Nat
  <2>1. rec \in Scan /\ Known(rec) /\ Steady /\ rec.pc = "verify"
    BY ScanAt DEF Verify, Steady
  <2>2. rec.copy \in Nat \cup {None} /\ rec.off \in Nat
    BY <2>1 DEF Scan
  <2> QED BY <2>1, <2>2 DEF Known
<1>1. ASSUME NEW status \in {"SUBMITTED", "CANCELLED"}, End(s, rec, status),
             status = "CANCELLED" => ZeroFillCancelled(o)
      PROVE  IInv'
  <2>1. EndRecord(rec, status)
    BY <1>0, <1>1 DEF EndRecord, RowStatus
  <2> QED BY <1>0, <1>1, <2>1, Ending DEF Steady
<1>2. CASE Stop
  BY <1>0, <1>2, Stopping DEF Stop, Steady, Verify
<1>3. CASE FillListed(o) /\ End(s, Filling(rec, copy), "EXECUTED")
  <2> DEFINE q == Filling(rec, copy)
  <2>1. copy \in Nat
    BY <1>0, AppliedIsNat
  <2>2. /\ q.copy \in Nat \cup {None} /\ q.off \in Nat
        /\ q.resolved = rec.resolved /\ q.order = o
    BY <1>0, <2>1, FillingFields
  <2>3. order[o].filled > 0
    BY <1>0, <1>3 DEF IInv, SaneOrders, FillListed
  <2>4. End(s, q, "EXECUTED")
    BY <1>3
  <2> HIDE DEF q
  <2>5. EndRecord(q, "EXECUTED")
    BY <1>0, <2>2, <2>3 DEF EndRecord, RowStatus
  <2> QED BY <1>0, <2>4, <2>5, Ending DEF Steady
<1>4. CASE Abandon(s, NoScan)
  <2>1. NoScan \in Scan /\ NoScan.resolved = {}
    BY DEF NoScan, Scan, ScanPC
  <2> QED BY <1>0, <1>4, <2>1, Abandoning DEF Steady
<1>5. \/ End(s, rec, "SUBMITTED")
      \/ ZeroFillCancelled(o) /\ End(s, rec, "CANCELLED")
      \/ Stop
      \/ FillListed(o) /\ End(s, Filling(rec, copy), "EXECUTED")
      \/ Abandon(s, NoScan)
  BY DEF Verify, Filling
<1> HIDE DEF rec, o, copy
<1> QED BY <1>1, <1>2, <1>3, <1>4, <1>5

(* With the process every scan and the reservation are gone; what it had   *)
(* posted counts as a lost answer.                                         *)
LEMMA RestartKeeps == ASSUME IInv, ProcessRestart PROVE IInv'
<1>1. NoScan \in Scan /\ NoScan.pc = "idle" /\ NoScan.resolved = {}
  BY DEF NoScan, Scan, ScanPC
<1>2. /\ TypeOK /\ lost' \in Nat /\ lost' # 0
      /\ order' = order /\ wallet' = wallet /\ moved' = moved
  BY DEF ProcessRestart, broker, IInv, TypeOK
<1> HIDE DEF Orders, Order, Scan, NoScan
<1>3. /\ scan' \in [Scans -> Scan] /\ \A s \in Scans : scan'[s] = NoScan
      /\ \A s \in Scans : guard' # s
  BY <1>1, ScanAssumption DEF ProcessRestart
<1>4. TypeOK'
  BY <1>2, <1>3 DEF ProcessRestart, TypeOK
<1>5. SaneOrders' /\ OutcomeIsTrue'
  BY <1>2 DEF ProcessRestart, IInv, SaneOrders, Live, OutcomeIsTrue
<1>6. SaneScans' /\ Reserved'
  BY <1>1, <1>3 DEF SaneScans, Known, Reserved
<1>7. Awaited' /\ Clear' /\ Alone'
  BY <1>2 DEF Awaited, Clear, Alone
<1> QED BY <1>4, <1>5, <1>6, <1>7 DEF IInv

-----------------------------------------------------------------------------
(* The broker moves an order on: nothing of it is taken back.              *)
LEMMA OrderMoves ==
    ASSUME IInv, NEW o \in Orders, Live(o), NEW new \in Order,
           order' = [order EXCEPT ![o] = new],
           new.side = order[o].side, new.qty = order[o].qty,
           new.state \in {"open", "filled", "cancelled", "rejected"},
           new.filled >= order[o].filled, new.filled <= new.qty,
           new.state = "open" => new.filled < new.qty,
           new.state = "filled" => new.filled > 0,
           BrokerOnly, wallet' \in Nat, moved' = moved
    PROVE  IInv'
<1> HIDE DEF Orders, Order, Scan
<1>1. /\ TypeOK
      /\ UNCHANGED << rows, stock, scan, guard, blocked, writtenOff, lost, overlapped >>
  BY DEF IInv, BrokerOnly
<1>2. /\ order' \in [Orders -> Order] /\ order'[o] = new
      /\ \A p \in Orders \ {o} : order'[p] = order[p]
  BY <1>1 DEF TypeOK
<1>3. \A p \in Orders : order[p].filled \in Nat /\ order'[p].filled \in Nat
  BY <1>1, <1>2 DEF TypeOK, Order
<1>4. \A p \in Orders : ZeroFillCancelled(p) => ZeroFillCancelled(p)'
  BY <1>2 DEF ZeroFillCancelled, Live
<1>5. \A p \in Orders : Live(p)' => Live(p)
  BY <1>2 DEF Live
<1>6. TypeOK'
  BY <1>1, <1>2 DEF TypeOK
<1>7. SaneOrders'
  BY <1>2 DEF IInv, SaneOrders, Live
<1>8. SaneScans'
  <2> SUFFICES ASSUME NEW s \in Scans PROVE Known(scan[s])'
    BY DEF SaneScans
  <2>1. Known(scan[s]) /\ \A p \in scan[s].resolved : p \in Orders
    BY <1>1 DEF IInv, SaneScans, TypeOK, Scan
  <2> QED BY <1>1, <1>2, <1>4, <2>1 DEF Known
<1>9. Reserved'
  BY <1>1 DEF IInv, Reserved
<1>10. OutcomeIsTrue'
  <2> SUFFICES ASSUME NEW p \in Orders
               PROVE  /\ rows[p] = "CANCELLED" => ZeroFillCancelled(p)'
                      /\ rows[p] = "EXECUTED" => order'[p].filled > 0
    BY <1>1 DEF OutcomeIsTrue, ZeroFillCancelled
  <2>1. /\ rows[p] = "CANCELLED" => ZeroFillCancelled(p)
        /\ rows[p] = "EXECUTED" => order[p].filled > 0
    BY DEF IInv, OutcomeIsTrue, ZeroFillCancelled
  <2>2. order'[p].filled >= order[p].filled
    BY <1>2, <1>3
  <2> QED BY <1>3, <1>4, <2>1, <2>2
<1>11. Awaited'
  <2> SUFFICES ASSUME lost = 0, NEW p \in Orders, order'[p].state = "flight"
               PROVE  \E s \in Scans : scan[s].pc = "posted" /\ scan[s].order = p
    BY <1>1 DEF Awaited
  <2>1. order[p].state = "flight"
    BY <1>2
  <2> QED BY <2>1 DEF IInv, Awaited
<1>12. Clear' /\ Alone'
  BY <1>1, <1>5 DEF IInv, Clear, Alone
<1> QED BY <1>6, <1>7, <1>8, <1>9, <1>10, <1>11, <1>12 DEF IInv

Standing(r, state) == [r EXCEPT !.state = state]
Reaching(r, filled, state) == [r EXCEPT !.filled = filled, !.state = state]

(* The broker changes the state of an order.                               *)
LEMMA OrderFields ==
    ASSUME NEW r \in Order, NEW state \in OrderState
    PROVE  /\ Standing(r, state) \in Order /\ Standing(r, state).state = state
           /\ Standing(r, state).side = r.side /\ Standing(r, state).qty = r.qty
           /\ Standing(r, state).filled = r.filled
BY DEF Standing, Order, OrderState

(* The broker fills an order further.                                      *)
LEMMA ReachingFields ==
    ASSUME NEW r \in Order, NEW filled \in Nat, NEW state \in OrderState
    PROVE  LET q == Reaching(r, filled, state) IN
           /\ q \in Order /\ q.state = state /\ q.side = r.side /\ q.qty = r.qty
           /\ q.filled = filled
BY DEF Reaching, Order, OrderState

(* An order arrives or is cancelled: what it filled stays.                 *)
LEMMA StandingKeeps ==
    ASSUME IInv, NEW o \in Orders, Live(o), NEW state \in {"open", "rejected", "cancelled"},
           order' = [order EXCEPT ![o].state = state],
           BrokerOnly, UNCHANGED << wallet, moved >>
    PROVE  IInv'
<1> DEFINE r == order[o]
           new == Standing(r, state)
<1>1. /\ r \in Order /\ r.filled \in Nat /\ r.qty \in Nat /\ r.filled < r.qty
      /\ state \in OrderState /\ wallet' \in Nat
  <2>1. r \in Order /\ r.filled < r.qty /\ wallet' \in Nat
    BY DEF IInv, TypeOK, SaneOrders
  <2> QED BY <2>1 DEF Order, OrderState
<1>2. /\ new \in Order /\ new.state = state /\ new.side = r.side
      /\ new.qty = r.qty /\ new.filled = r.filled
  BY <1>1, OrderFields
<1>3. order' = [order EXCEPT ![o] = new]
  BY DEF Standing
<1>4. /\ new.filled >= r.filled /\ new.filled <= new.qty
      /\ new.state = "open" => new.filled < new.qty
      /\ new.state = "filled" => new.filled > 0
      /\ new.state \in {"open", "filled", "cancelled", "rejected"}
      /\ wallet' \in Nat /\ moved' = moved
  BY <1>1, <1>2
<1> HIDE DEF new
<1> QED BY <1>2, <1>3, <1>4, OrderMoves

(* An order fills by one, and is full when nothing is left of it.          *)
LEMMA FillKeeps == ASSUME IInv, NEW o \in Orders, Fill(o) PROVE IInv'
<1> DEFINE r == order[o]
           state == IF r.filled + 1 = r.qty THEN "filled" ELSE "open"
           new == Reaching(r, r.filled + 1, state)
<1>1. /\ r \in Order /\ r.filled \in Nat /\ r.qty \in Nat /\ r.filled < r.qty
      /\ state \in OrderState /\ wallet' \in Nat /\ Live(o)
  <2>1. r \in Order /\ Live(o) /\ r.filled < r.qty
    BY DEF IInv, TypeOK, SaneOrders, Fill, Live
  <2>2. r.side \in {"BUY", "SELL"} /\ r.filled \in Nat /\ r.qty \in Nat
    BY <2>1 DEF Order
  <2>3. wallet' \in Nat
    BY <2>2 DEF IInv, TypeOK, Fill
  <2> QED BY <2>1, <2>2, <2>3 DEF OrderState
<1>2. /\ new \in Order /\ new.state = state /\ new.side = r.side
      /\ new.qty = r.qty /\ new.filled = r.filled + 1
  <2>1. r.filled + 1 \in Nat
    BY <1>1
  <2> HIDE DEF r, state
  <2> QED BY <1>1, <2>1, ReachingFields, SMTT(30)
<1>3. order' = [order EXCEPT ![o] = new]
  BY DEF Fill, Reaching
<1>4. BrokerOnly /\ moved' = moved
  BY DEF Fill
<1>5. /\ new.filled >= r.filled /\ new.filled <= new.qty
      /\ new.state = "open" => new.filled < new.qty
      /\ new.state = "filled" => new.filled > 0
      /\ new.state \in {"open", "filled", "cancelled", "rejected"}
  BY <1>1, <1>2
<1> HIDE DEF new, state
<1> QED BY <1>1, <1>2, <1>3, <1>4, <1>5, OrderMoves

(* Every step of the broker and of the owner preserves the invariant.      *)
LEMMA BrokerKeeps == ASSUME IInv, Broker PROVE IInv'
<1>1. CASE Transfer
  <2>1. /\ order' = order /\ wallet' \in Nat /\ moved' \in Nat
        /\ UNCHANGED << rows, stock, scan, guard, blocked, writtenOff, lost, overlapped >>
    BY <1>1 DEF Transfer, BrokerOnly, IInv, TypeOK
  <2> HIDE DEF Orders, Order, Scan
  <2>2. TypeOK'
    BY <2>1 DEF IInv, TypeOK
  <2>3. SaneOrders' /\ OutcomeIsTrue' /\ Reserved' /\ Awaited' /\ Clear' /\ Alone'
    BY <2>1 DEF IInv, SaneOrders, Live, OutcomeIsTrue, Reserved, Awaited, Clear, Alone
  <2>4. SaneScans'
    BY <2>1 DEF IInv, SaneScans, Known, ZeroFillCancelled
  <2> QED BY <2>2, <2>3, <2>4 DEF IInv
<1>2. ASSUME NEW o \in Orders, Arrive(o) PROVE IInv'
  BY <1>2, StandingKeeps DEF Arrive, Live
<1>3. ASSUME NEW o \in Orders, Cancel(o) PROVE IInv'
  BY <1>3, StandingKeeps DEF Cancel, Live
<1> QED BY <1>1, <1>2, <1>3, FillKeeps DEF Broker

-----------------------------------------------------------------------------
(* Every step of the system does.                                          *)
LEMMA Invariance == IInv /\ [Next]_vars => IInv'
<1> SUFFICES ASSUME IInv, [Next]_vars PROVE IInv'
  OBVIOUS
<1>1. ASSUME NEW s \in Scans, NEW side \in {"BUY", "SELL"}, NEW qty \in 1 .. Qty + MinQty - 1,
             Begin(s, side, qty)
      PROVE  IInv'
  BY <1>1, BeginKeeps
<1>2. ASSUME NEW s \in Scans, NEW o \in Orders, Reconcile(s, o) PROVE IInv'
  BY <1>2, ReconcileKeeps
<1>3. ASSUME NEW s \in Scans, CheckSlots(s) PROVE IInv'
  BY <1>3, CheckKeeps
<1>4. ASSUME NEW s \in Scans, ReadWallet(s) PROVE IInv'
  BY <1>4, WalletKeeps
<1>5. ASSUME NEW s \in Scans, ReadOrders(s) PROVE IInv'
  BY <1>5, OrdersKeep
<1>6. ASSUME NEW s \in Scans, Post(s) PROVE IInv'
  BY <1>6, PostKeeps
<1>7. ASSUME NEW s \in Scans, ReadFault(s) \/ LoseAnswer(s) PROVE IInv'
  BY <1>7, FaultKeeps
<1>8. ASSUME NEW s \in Scans, Answered(s) PROVE IInv'
  BY <1>8, AnsweredKeeps
<1>9. ASSUME NEW s \in Scans, Verify(s) PROVE IInv'
  BY <1>9, VerifyKeeps
<1>10. CASE UNCHANGED vars
  BY <1>10, Stopping DEF vars, broker, IInv, TypeOK
<1>11. CASE ScanStep
  BY <1>1, <1>2, <1>3, <1>4, <1>5, <1>6, <1>7, <1>8, <1>9, <1>11 DEF ScanStep
<1> QED BY <1>10, <1>11, BrokerKeeps, RestartKeeps DEF Next

(* So it holds throughout.                                                 *)
LEMMA Invariant == Spec => []IInv
BY Initially, Invariance, PTL DEF Spec

(* Counted, no two orders are at most one.                                 *)
LEMMA AtMostOne ==
    ASSUME NEW S, \A x, y \in S : x = y
    PROVE  Cardinality(S) <= 1
<1>1. CASE S = {}
  BY <1>1, FS_EmptySet
<1>2. CASE S # {}
  <2>1. PICK x \in S : TRUE
    BY <1>2
  <2>2. S = {x}
    BY <2>1
  <2> QED BY <2>2, FS_Singleton
<1> QED BY <1>1, <1>2

(* The rows agree with the broker: a row is CANCELLED only if its order    *)
(* was, without a fill, and EXECUTED only if it filled, whatever scans     *)
(* overlap, answers are lost and processes restart; and until an answer is *)
(* lost, at most one order of the symbol is unfinished.                    *)
THEOREM RowsAreTrue == Spec => []RowsAgree
<1>1. IInv => RowsAgree
  <2> SUFFICES ASSUME IInv, lost = 0
               PROVE  Cardinality({o \in Orders : order[o].state \in {"flight", "open"}}) <= 1
    BY DEF IInv, RowsAgree, OneOpenOrder
  <2>1. \A o, p \in {x \in Orders : order[x].state \in {"flight", "open"}} : o = p
    BY DEF IInv, Alone, Live
  <2> QED BY <2>1, AtMostOne
<1> QED BY <1>1, Invariant, PTL

-----------------------------------------------------------------------------
(* While scans follow one another and hear what becomes of their orders,   *)
(* the books are closed: an order that filled, or may, and that no row     *)
(* tells of, is the one of the scan at work or keeps every scan from       *)
(* placing another; and the managed quantity, with what that order filled, *)
(* is what all orders filled, less what was given up.                      *)
Working == {"slots", "wallet"} \cup Reserving \cup {"verify"}
Sent == {"posted", "verify"}

Loose(o) == rows[o] # "EXECUTED" /\ (Live(o) \/ order[o].filled > 0)
Signed(o) == IF order[o].side = "BUY" THEN order[o].filled ELSE 0 - order[o].filled

(* A copy that was cut to the wallet accounts for what it gave up; any     *)
(* other is the committed quantity.  A BUY is for the whole quantity, and  *)
(* is added to dust; no submission is left when a scan goes to work.       *)
Copied(rec) ==
    /\ rec.dirty => /\ rec.pc \in Reserving \cup {"verify"} /\ rec.side = "SELL"
                    /\ rec.copy \in Nat /\ Held(stock) = rec.copy + rec.off
    /\ ~rec.dirty => rec.off = 0
    /\ rec.pc \in Working /\ ~rec.dirty => rec.copy = stock
    /\ rec.pc # "idle" /\ rec.side = "BUY" => rec.qty = Qty
    /\ rec.pc \in Reserving \cup {"verify"} /\ rec.side = "BUY" => Held(rec.copy) < MinQty
    /\ rec.pc \in Working => \A o \in Orders : rows[o] = "SUBMITTED" => o \in rec.resolved
    /\ rec.pc \in Sent => rows[rec.order] # "EXECUTED"
Copies == \A s \in Scans : Copied(scan[s])

OneBusy == \A s, t \in Scans : scan[s].pc # "idle" /\ scan[t].pc # "idle" => s = t
Found == \A o \in Orders : Loose(o) =>
    rows[o] = "SUBMITTED" \/ \E s \in Scans : scan[s].pc \in Sent /\ scan[s].order = o
OneLoose == \A o, p \in Orders : Loose(o) /\ Loose(p) => o = p
Settled == \A o \in Orders :
    /\ rows[o] = "EXECUTED" => order[o].state = "filled"
    /\ order[o].state \in {"flight", "rejected"} => order[o].filled = 0
Books ==
    /\ (\A o \in Orders : ~Loose(o)) => Net - writtenOff = Held(stock)
    /\ \A o \in Orders : Loose(o) => Net - writtenOff = Held(stock) + Signed(o)
Bounds ==
    /\ Held(stock) < Qty + MinQty
    /\ \A o \in Orders : Loose(o) =>
           /\ order[o].side = "BUY" => Held(stock) < MinQty /\ order[o].qty = Qty
           /\ order[o].side = "SELL" => order[o].qty <= Held(stock)

Closed == OneBusy /\ Copies /\ Found /\ OneLoose /\ Settled /\ Books /\ Bounds
InTurn == Undisturbed => Closed

USE DEF Working, Sent

(* The numbers of the books.                                               *)
LEMMA Numbers ==
    ASSUME TypeOK
    PROVE  /\ Held(stock) \in Nat /\ Net \in Int /\ writtenOff \in Nat /\ None \notin Nat
           /\ (stock \in Nat => Held(stock) = stock)
           /\ \A o \in Orders : /\ order[o].filled \in Nat /\ order[o].qty \in Nat
                                /\ order[o].filled <= order[o].qty
                                /\ order[o].side \in {"BUY", "SELL"}
<1>1. None \notin Nat
  BY ScanAssumption
<1>2. Held(stock) \in Nat /\ (stock \in Nat => Held(stock) = stock)
  BY <1>1 DEF TypeOK, Held
<1>3. Net \in Int /\ writtenOff \in Nat
  BY QuantityAssumption DEF TypeOK, Net
<1>4. ASSUME NEW o \in Orders
      PROVE  /\ order[o].filled \in Nat /\ order[o].qty \in Nat
             /\ order[o].filled <= order[o].qty /\ order[o].side \in {"BUY", "SELL"}
  BY DEF TypeOK, Order
<1> QED BY <1>1, <1>2, <1>3, <1>4

(* No order of a scan that works and has posted none is left loose, and of *)
(* one that has posted, its own only.                                      *)
LEMMA OwnOrder ==
    ASSUME IInv, Closed, NEW s \in Scans, scan[s].pc \in Working, NEW o \in Orders, Loose(o)
    PROVE  scan[s].pc \in Sent /\ o = scan[s].order
<1>1. rows[o] # "SUBMITTED"
  <2> SUFFICES ASSUME rows[o] = "SUBMITTED" PROVE FALSE
    OBVIOUS
  <2>1. o \in scan[s].resolved
    BY DEF Closed, Copies, Copied
  <2>2. ZeroFillCancelled(o)
    BY <2>1, ScanAt
  <2> QED BY <2>2 DEF ZeroFillCancelled, Loose, Live
<1>2. PICK t \in Scans : scan[t].pc \in Sent /\ scan[t].order = o
  BY <1>1 DEF Closed, Found
<1>3. t = s
  BY <1>2 DEF Closed, OneBusy
<1> QED BY <1>2, <1>3

(* No scan works at the start, and nothing was ordered.                    *)
LEMMA InTurnInitially == Init => InTurn
<1> SUFFICES ASSUME Init PROVE Closed
  BY DEF InTurn
<1>1. \A s \in Scans : scan[s].pc = "idle" /\ ~scan[s].dirty /\ scan[s].off = 0
  BY DEF Init, NoScan
<1>2. \A o \in Orders : order[o].state = "none" /\ order[o].filled = 0 /\ rows[o] = "none"
  BY DEF Init, NoOrder
<1>3. OneBusy /\ Copies
  BY <1>1 DEF OneBusy, Copies, Copied
<1>4. \A o \in Orders : ~Loose(o)
  BY <1>2 DEF Loose, Live
<1>5. Settled
  BY <1>2 DEF Settled
<1>6. Held(stock) = 0 /\ Net - writtenOff = 0
  BY QuantityAssumption DEF Init, Held, Net
<1>7. 0 < Qty + MinQty
  BY QuantityAssumption
<1> QED BY <1>3, <1>4, <1>5, <1>6, <1>7 DEF Closed, Found, OneLoose, Books, Bounds

(* The scan goes on with the books as they are.                            *)
Alike == UNCHANGED << rows, stock, order, wallet, moved, writtenOff >>
OthersIdle(s) == \A t \in Scans \ {s} : scan[t].pc = "idle"

(* What it then knows it has copied.                                       *)
LEMMA InTurnMoving ==
    ASSUME TypeOK, Closed, NEW s \in Scans, NEW rec \in Scan, OthersIdle(s), Alike,
           scan' = [scan EXCEPT ![s] = rec], Copied(rec),
           scan[s].pc \in Sent => rec.pc \in Sent /\ rec.order = scan[s].order
    PROVE  Closed'
<1> HIDE DEF Orders, Order, Scan
<1>s. scan'[s] = rec /\ \A t \in Scans \ {s} : scan'[t] = scan[t]
  BY DEF TypeOK
<1>1. OneBusy'
  BY <1>s DEF OthersIdle, OneBusy
<1>2. Copies'
  <2> SUFFICES ASSUME NEW t \in Scans PROVE Copied(scan[t])'
    BY DEF Copies
  <2>1. CASE t = s
    BY <1>s, <2>1 DEF Alike, Copied, Held
  <2>2. CASE t # s
    BY <1>s, <2>2 DEF Alike, Closed, Copies, Copied, Held
  <2> QED BY <2>1, <2>2
<1>3. \A o \in Orders : Loose(o)' = Loose(o) /\ Signed(o)' = Signed(o)
  BY DEF Alike, Loose, Live, Signed
<1>4. Found'
  <2> SUFFICES ASSUME NEW o \in Orders, Loose(o), rows[o] # "SUBMITTED"
               PROVE  \E t \in Scans : scan'[t].pc \in Sent /\ scan'[t].order = o
    BY <1>3 DEF Found, Alike
  <2>1. PICK t \in Scans : scan[t].pc \in Sent /\ scan[t].order = o
    BY DEF Closed, Found
  <2>2. t = s
    BY <2>1 DEF OthersIdle
  <2> QED BY <1>s, <2>1, <2>2
<1>5. OneLoose' /\ Settled' /\ Books' /\ Bounds'
  BY <1>3 DEF Alike, Closed, OneLoose, Settled, Books, Bounds, Net, Held
<1> QED BY <1>1, <1>2, <1>4, <1>5 DEF Closed

(* The item ends.  What is loose then has a row that says SUBMITTED.       *)
LEMMA InTurnEnding ==
    ASSUME TypeOK, Closed, NEW s \in Scans, NEW rec, NEW status, OthersIdle(s),
           End(s, rec, status), UNCHANGED broker,
           \A o \in Orders : Loose(o)' => Loose(o) /\ rows'[o] = "SUBMITTED",
           \A o \in Orders : rows'[o] = "EXECUTED" => order[o].state = "filled",
           Books', Bounds'
    PROVE  Closed'
<1>n. NoScan.pc = "idle" /\ ~NoScan.dirty /\ NoScan.off = 0
  BY DEF NoScan
<1> HIDE DEF Orders, Order, Scan, NoScan
<1>s. scan'[s] = NoScan /\ \A t \in Scans \ {s} : scan'[t] = scan[t]
  BY DEF TypeOK, End
<1>i. \A t \in Scans : scan'[t].pc = "idle"
  BY <1>n, <1>s DEF OthersIdle
<1>1. OneBusy'
  BY <1>i DEF OneBusy
<1>2. Copies'
  <2> SUFFICES ASSUME NEW t \in Scans PROVE Copied(scan[t])'
    BY DEF Copies
  <2>1. ~scan'[t].dirty /\ scan'[t].off = 0
    <3>1. CASE t = s
      BY <1>n, <1>s, <3>1
    <3>2. CASE t # s
      <4>1. scan[t].pc = "idle" /\ Copied(scan[t])
        BY <3>2 DEF OthersIdle, Closed, Copies
      <4>2. ~scan[t].dirty
        BY <4>1 DEF Copied
      <4> QED BY <1>s, <3>2, <4>1, <4>2 DEF Copied
    <3> QED BY <3>1, <3>2
  <2> QED BY <1>i, <2>1 DEF Copied
<1>3. Found' /\ OneLoose'
  BY DEF Found, OneLoose, Closed
<1>4. Settled'
  BY DEF Closed, Settled, broker
<1> QED BY <1>1, <1>2, <1>3, <1>4 DEF Closed

-----------------------------------------------------------------------------
(* The steps that several operations end in.                               *)

(* What a scan gives up with its item it has accounted for.                *)
Accounted(rec) ==
    /\ rec.off \in Nat
    /\ rec.dirty => rec.copy \in Nat /\ Held(stock) = rec.copy + rec.off
    /\ ~rec.dirty => rec.off = 0
    /\ \A o \in rec.resolved : ZeroFillCancelled(o)

(* What is held with what is written off stays the same.                   *)
LEMMA Committing ==
    ASSUME TypeOK, NEW s \in Scans, NEW rec, NEW status, Accounted(rec), End(s, rec, status)
    PROVE  /\ Held(stock') \in Nat /\ writtenOff' \in Nat
           /\ Held(stock') <= Held(stock)
           /\ Held(stock') + writtenOff' = Held(stock) + writtenOff
           /\ ~rec.dirty => stock' = stock
           /\ rec.dirty => Held(stock') = rec.copy
<1>1. /\ Held(stock) \in Nat /\ writtenOff \in Nat /\ None \notin Nat
  BY Numbers
<1>2. stock' = (IF rec.dirty THEN rec.copy ELSE stock) /\ writtenOff' = writtenOff + rec.off
  BY DEF End
<1>3. CASE rec.dirty
  <2>1. Held(stock') = rec.copy
    BY <1>1, <1>2, <1>3 DEF Accounted, Held
  <2> QED BY <1>1, <1>2, <1>3, <2>1 DEF Accounted
<1>4. CASE ~rec.dirty
  <2>1. stock' = stock /\ rec.off = 0
    BY <1>2, <1>4 DEF Accounted
  <2>2. Held(stock') = Held(stock)
    BY <2>1
  <2> QED BY <1>1, <1>2, <1>4, <2>1, <2>2
<1> QED BY <1>3, <1>4

(* An item that ends without a row has left no order loose, unless it has  *)
(* only met an earlier one.                                                *)
LEMMA InTurnAbandoning ==
    ASSUME IInv, Closed, NEW s \in Scans, NEW rec \in Scan, OthersIdle(s), Accounted(rec),
           Abandon(s, rec), UNCHANGED broker,
           rec.dirty => \A o \in Orders : ~Loose(o),
           scan[s].pc \in Sent => ~Loose(scan[s].order)
    PROVE  Closed'
<1> DEFINE q == [rec EXCEPT !.order = None]
<1>t. TypeOK /\ order' = order /\ wallet' = wallet /\ moved' = moved
  BY DEF IInv, broker
<1>q. /\ q.resolved = rec.resolved /\ q.order = None /\ q.dirty = rec.dirty
      /\ q.off = rec.off /\ q.copy = rec.copy /\ None \notin Orders
  <2>1. q.resolved = rec.resolved /\ q.order = None /\ q.off = rec.off /\ q.copy = rec.copy
    BY DEF Scan
  <2>2. q.dirty = rec.dirty
    BY Zenon DEF Scan
  <2>3. None \notin Orders
    BY ScanAssumption, BoundAssumption DEF Orders
  <2> QED BY <2>1, <2>2, <2>3
<1>e. End(s, q, "none")
  BY DEF Abandon
<1> HIDE DEF q, Orders, Order, Scan
<1>a. Accounted(q)
  BY <1>q DEF Accounted
<1>c. /\ Held(stock') \in Nat /\ writtenOff' \in Nat /\ Held(stock') <= Held(stock)
      /\ Held(stock') + writtenOff' = Held(stock) + writtenOff
      /\ ~rec.dirty => stock' = stock
  BY <1>t, <1>q, <1>e, <1>a, Committing
<1>r. \A o \in Orders : rows'[o] = IF o \in rec.resolved THEN "CANCELLED" ELSE rows[o]
  BY <1>q, <1>e DEF End
<1>z. \A o \in rec.resolved : order[o].state = "cancelled" /\ order[o].filled = 0
  BY DEF Accounted, ZeroFillCancelled
<1>n. /\ Held(stock) \in Nat /\ Net \in Int /\ writtenOff \in Nat /\ Net' = Net
      /\ \A o \in Orders : order[o].filled \in Nat
  BY <1>t, Numbers DEF Net
<1>1. ASSUME NEW o \in Orders PROVE Loose(o)' = Loose(o)
  <2>1. CASE o \in rec.resolved
    <3>1. order[o].state = "cancelled" /\ order[o].filled = 0
      BY <1>z, <2>1
    <3> QED BY <1>t, <3>1 DEF Loose, Live
  <2>2. CASE o \notin rec.resolved
    BY <1>t, <1>r, <2>2 DEF Loose, Live
  <2> QED BY <2>1, <2>2
<1>2. ASSUME NEW o \in Orders, Loose(o) PROVE rows'[o] = "SUBMITTED"
  <2>1. o \notin rec.resolved
    BY <1>z, <1>2, <1>n DEF Loose, Live
  <2>2. ~ \E t \in Scans : scan[t].pc \in Sent /\ scan[t].order = o
    BY <1>2 DEF OthersIdle
  <2>3. rows[o] = "SUBMITTED"
    BY <1>2, <2>2 DEF Closed, Found
  <2> QED BY <1>r, <2>1, <2>3
<1>3. \A o \in Orders : rows'[o] = "EXECUTED" => order[o].state = "filled"
  BY <1>r DEF Closed, Settled
<1>4. Books'
  <2>1. CASE rec.dirty
    <3>1. \A o \in Orders : ~Loose(o)'
      BY <1>1, <2>1
    <3>2. Net - writtenOff = Held(stock)
      BY <2>1 DEF Closed, Books
    <3>3. Net' - writtenOff' = Held(stock')
      BY <1>c, <1>n, <3>2
    <3> QED BY <3>1, <3>3 DEF Books, Held
  <2>2. CASE ~rec.dirty
    <3>1. stock' = stock /\ writtenOff' = writtenOff
      BY <1>c, <1>n, <2>2
    <3> QED BY <1>t, <1>n, <1>1, <3>1 DEF Closed, Books, Held, Signed
  <2> QED BY <2>1, <2>2
<1>5. Bounds'
  <2>1. Held(stock') < Qty + MinQty
    BY <1>c, <1>n, QuantityAssumption DEF Closed, Bounds
  <2>2. CASE rec.dirty
    <3>1. \A o \in Orders : ~Loose(o)'
      BY <1>1, <2>2
    <3> QED BY <2>1, <3>1 DEF Bounds, Held
  <2>3. CASE ~rec.dirty
    <3>1. stock' = stock
      BY <1>c, <2>3
    <3> QED BY <1>t, <1>1, <3>1 DEF Closed, Bounds, Held
  <2> QED BY <2>2, <2>3
<1>6. \A o \in Orders : Loose(o)' => Loose(o) /\ rows'[o] = "SUBMITTED"
  BY <1>1, <1>2
<1> QED BY <1>t, <1>e, <1>3, <1>4, <1>5, <1>6, InTurnEnding

(* Moving on changes nothing else.                                         *)
LEMMA PcBooks ==
    ASSUME NEW r \in Scan, NEW pc \in ScanPC
    PROVE  LET q == [r EXCEPT !.pc = pc] IN q.off = r.off /\ q.dirty = r.dirty
<1>1. [r EXCEPT !.pc = pc].off = r.off
  BY DEF Scan, ScanPC
<1>2. [r EXCEPT !.pc = pc].dirty = r.dirty
  BY Zenon DEF Scan
<1> QED BY <1>1, <1>2

(* Nor does a copy that is loaded.                                         *)
LEMMA CopyBooks ==
    ASSUME NEW r \in Scan, NEW copy \in Nat \cup {None}
    PROVE  LET q == [r EXCEPT !.copy = copy] IN q.off = r.off /\ q.dirty = r.dirty
<1>1. [r EXCEPT !.copy = copy].off = r.off
  BY DEF Scan, ScanPC
<1>2. [r EXCEPT !.copy = copy].dirty = r.dirty
  BY Zenon DEF Scan
<1> QED BY <1>1, <1>2

(* What a scan has copied it has accounted for.                            *)
LEMMA CopiedAccounts ==
    ASSUME IInv, Closed, NEW s \in Scans
    PROVE  Accounted(scan[s]) /\ Copied(scan[s]) /\ Known(scan[s]) /\ scan[s] \in Scan
<1>1. scan[s] \in Scan /\ Known(scan[s]) /\ Copied(scan[s])
  BY ScanAt DEF Closed, Copies
<1>2. scan[s].off \in Nat
  BY <1>1 DEF Scan
<1>3. \A o \in scan[s].resolved : ZeroFillCancelled(o)
  BY ScanAt
<1> QED BY <1>1, <1>2, <1>3 DEF Accounted, Copied

(* A scan asks for an order when none is loose.                            *)
Asking(rec) ==
    /\ Accounted(rec)
    /\ rec.dirty => rec.side = "SELL"
    /\ ~rec.dirty => rec.copy = stock
    /\ rec.side = "BUY" => rec.qty = Qty /\ Held(rec.copy) < MinQty
    /\ \A o \in Orders : rows[o] = "SUBMITTED" => o \in rec.resolved

(* Whether it gets the reservation or not, the books stay closed.          *)
LEMMA InTurnRequesting ==
    ASSUME IInv, Closed, NEW s \in Scans, NEW rec \in Scan, OthersIdle(s), Asking(rec),
           Reserve(s, rec), UNCHANGED broker, scan[s].pc \notin Sent,
           rec.dirty => \A o \in Orders : ~Loose(o)
    PROVE  Closed'
<1>1. CASE Abandon(s, rec)
  BY <1>1, InTurnAbandoning DEF Asking
<1>2. CASE /\ scan' = [scan EXCEPT ![s] = [rec EXCEPT !.pc = "orders"]]
           /\ UNCHANGED << rows, stock, writtenOff, blocked >>
  <2> DEFINE q == [rec EXCEPT !.pc = "orders"]
  <2>0. "orders" \in ScanPC
    BY DEF ScanPC
  <2>1. /\ q \in Scan /\ q.pc = "orders" /\ q.side = rec.side /\ q.qty = rec.qty
        /\ q.resolved = rec.resolved /\ q.copy = rec.copy
    BY <2>0, PcFields
  <2>2. q.off = rec.off /\ q.dirty = rec.dirty
    BY <2>0, PcBooks
  <2>3. scan' = [scan EXCEPT ![s] = q]
    BY <1>2
  <2> HIDE DEF q
  <2>4. Copied(q)
    BY <2>1, <2>2 DEF Asking, Accounted, Copied
  <2>5. TypeOK /\ Alike
    BY <1>2 DEF IInv, Alike, broker
  <2> QED BY <2>1, <2>3, <2>4, <2>5, InTurnMoving
<1> QED BY <1>1, <1>2 DEF Reserve

(* The scan goes on.                                                       *)
LEMMA InTurnContinuing ==
    ASSUME IInv, Closed, NEW s \in Scans, NEW rec \in Scan, OthersIdle(s), Copied(rec),
           Continue(s, rec), UNCHANGED broker, scan[s].pc \notin Sent
    PROVE  Closed'
<1>1. TypeOK /\ Alike
  BY DEF IInv, Continue, Alike, broker
<1> QED BY <1>1, InTurnMoving DEF Continue

(* The inventory is examined when no submission is left.                   *)
LEMMA InTurnExamining ==
    ASSUME IInv, Closed, NEW s \in Scans, NEW rec \in Scan, OthersIdle(s),
           scan[s].pc \notin Sent, Accounted(rec), ~rec.dirty,
           rec.side = "BUY" => rec.qty = Qty, Pending(s, rec.resolved) = {},
           Examine(s, rec), UNCHANGED broker
    PROVE  Closed'
<1> DEFINE loaded == [rec EXCEPT !.copy = stock]
<1>t. stock \in Nat \cup {None} /\ None \notin Nat /\ 0 < MinQty /\ MinQty \in Nat
  BY ScanAssumption, QuantityAssumption DEF IInv, TypeOK
<1>0. /\ loaded \in Scan /\ loaded.pc = rec.pc /\ loaded.side = rec.side /\ loaded.qty = rec.qty
      /\ loaded.resolved = rec.resolved /\ loaded.copy = stock
  BY <1>t, CopyFields
<1>1. loaded.off = rec.off /\ loaded.dirty = rec.dirty
  BY <1>t, CopyBooks
<1>2. \A o \in Orders : rows[o] = "SUBMITTED" => o \in loaded.resolved
  BY <1>0 DEF Pending
<1>3. \/ rec.side = "BUY" /\ Held(stock) = 0 /\ Reserve(s, loaded)
      \/ rec.side = "BUY" /\ Continue(s, [loaded EXCEPT !.pc = "slots"])
      \/ rec.side = "SELL" /\ Continue(s, [loaded EXCEPT !.pc = "wallet"])
      \/ Abandon(s, loaded)
  BY DEF Examine
<1> HIDE DEF loaded
<1>4. Accounted(loaded) /\ ~loaded.dirty
  BY <1>0, <1>1 DEF Accounted
<1>5. CASE Abandon(s, loaded)
  BY <1>0, <1>4, <1>5, InTurnAbandoning
<1>6. CASE rec.side = "BUY" /\ Held(stock) = 0 /\ Reserve(s, loaded)
  <2>1. Asking(loaded)
    BY <1>t, <1>0, <1>1, <1>2, <1>4, <1>6 DEF Asking
  <2> QED BY <1>0, <1>4, <1>6, <2>1, InTurnRequesting
<1>7. ASSUME NEW pc \in {"slots", "wallet"}, Continue(s, [loaded EXCEPT !.pc = pc])
      PROVE  Closed'
  <2> DEFINE q == [loaded EXCEPT !.pc = pc]
  <2>0. pc \in ScanPC
    BY DEF ScanPC
  <2>1. /\ q \in Scan /\ q.pc = pc /\ q.side = rec.side /\ q.qty = rec.qty
        /\ q.resolved = loaded.resolved /\ q.copy = stock
    BY <1>0, <2>0, PcFields
  <2>2. q.off = loaded.off /\ q.dirty = loaded.dirty
    BY <1>0, <2>0, PcBooks
  <2>3. Continue(s, q)
    BY <1>7
  <2> HIDE DEF q
  <2>4. Copied(q)
    BY <1>2, <1>4, <2>1, <2>2 DEF Accounted, Copied
  <2> QED BY <2>1, <2>3, <2>4, InTurnContinuing
<1> QED BY <1>3, <1>5, <1>6, <1>7

-----------------------------------------------------------------------------
(* The operations of a scan, in turn.                                      *)

(* While scans follow one another, the others are idle.                    *)
LEMMA Others ==
    ASSUME Closed, NEW s \in Scans, scan[s].pc # "idle"
    PROVE  OthersIdle(s)
BY DEF Closed, OneBusy, OthersIdle

(* A new item has taken nothing yet.                                       *)
LEMMA SignalBooks ==
    ASSUME NEW side \in {"BUY", "SELL"}, NEW qty \in Nat
    PROVE  LET q == Signalled(NoScan, side, qty) IN
           q.side = side /\ q.off = 0 /\ ~q.dirty
BY DEF NoScan, Signalled

(* Nor has it when it waits for submissions to be reconciled.              *)
LEMMA QueueBooks ==
    ASSUME NEW r \in Scan, NEW todo \in SUBSET Orders
    PROVE  LET q == [r EXCEPT !.pc = "reconcile", !.todo = todo] IN
           q.side = r.side /\ q.off = r.off /\ q.dirty = r.dirty
<1>1. LET q == [r EXCEPT !.pc = "reconcile", !.todo = todo] IN q.side = r.side /\ q.off = r.off
  BY DEF Scan, ScanPC
<1>2. [r EXCEPT !.pc = "reconcile", !.todo = todo].dirty = r.dirty
  BY Zenon DEF Scan
<1> QED BY <1>1, <1>2

(* Nothing of the books changes.                                           *)
LEMMA InTurnStill ==
    ASSUME Closed, UNCHANGED << rows, stock, writtenOff, scan, broker >>
    PROVE  Closed'
<1>1. order' = order /\ wallet' = wallet /\ moved' = moved
  BY DEF broker
<1>2. OneBusy' /\ Copies' /\ Found' /\ OneLoose' /\ Settled'
  BY <1>1 DEF Closed, OneBusy, Copies, Copied, Found, OneLoose, Settled, Loose, Live, Held
<1>3. Books' /\ Bounds'
  BY <1>1 DEF Closed, Books, Bounds, Loose, Live, Signed, Held, Net
<1> QED BY <1>2, <1>3 DEF Closed

(* A signal is taken up when the others are idle.                          *)
LEMMA InTurnBegin ==
    ASSUME IInv, Closed, NEW s \in Scans, NEW side \in {"BUY", "SELL"},
           NEW qty \in 1 .. Qty + MinQty - 1, Begin(s, side, qty), ~overlapped'
    PROVE  Closed'
<1> DEFINE rec == Signalled(NoScan, side, qty)
           q == [rec EXCEPT !.pc = "reconcile", !.todo = Pending(s, {})]
<1>0. NoScan \in Scan /\ NoScan.resolved = {} /\ qty \in Nat
  BY QuantityAssumption DEF NoScan, Scan, ScanPC
<1>1. /\ rec \in Scan /\ rec.qty = qty /\ rec.resolved = {}
      /\ rec.side = side /\ rec.off = 0 /\ ~rec.dirty
  BY <1>0, SignalFields, SignalBooks, ZenonT(60)
<1>2. /\ OthersIdle(s) /\ scan[s].pc = "idle" /\ UNCHANGED broker
      /\ side = "BUY" => qty = Qty
  BY DEF Begin, OthersIdle
<1>3. \/ Pending(s, {}) = {} /\ Examine(s, rec)
      \/ Continue(s, q)
  BY DEF Begin, Signalled
<1>p. Pending(s, {}) \in SUBSET Orders
  BY DEF Pending
<1>q. /\ q \in Scan /\ q.pc = "reconcile" /\ q.qty = qty
      /\ q.side = side /\ q.off = 0 /\ ~q.dirty
  BY <1>1, <1>p, QueueFields, QueueBooks
<1> HIDE DEF rec, q
<1>4. CASE Pending(s, {}) = {} /\ Examine(s, rec)
  <2>1. Accounted(rec)
    BY <1>1 DEF Accounted
  <2>2. Pending(s, rec.resolved) = {}
    BY <1>1, <1>4
  <2>3. rec.side = "BUY" => rec.qty = Qty
    BY <1>1, <1>2
  <2> QED BY <1>1, <1>2, <1>4, <2>1, <2>2, <2>3, InTurnExamining
<1>5. CASE Continue(s, q)
  <2>1. Copied(q)
    BY <1>2, <1>q DEF Copied
  <2> QED BY <1>2, <1>5, <1>q, <2>1, InTurnContinuing
<1> QED BY <1>3, <1>4, <1>5

(* A submission is reconciled: nothing else changes.                       *)
LEMMA ResolvedBooks ==
    ASSUME NEW r \in Scan, NEW todo \in SUBSET Orders, NEW resolved \in SUBSET Orders
    PROVE  /\ Resolving(r, todo, resolved).side = r.side
           /\ Resolving(r, todo, resolved).off = r.off
           /\ Resolving(r, todo, resolved).dirty = r.dirty
<1>1. /\ Resolving(r, todo, resolved).side = r.side
      /\ Resolving(r, todo, resolved).off = r.off
  BY DEF Scan, ScanPC, Resolving
<1>2. Resolving(r, todo, resolved).dirty = r.dirty
  BY Zenon DEF Scan, Resolving
<1> QED BY <1>1, <1>2

(* Nor when it stays as it is.                                             *)
LEMMA SetResolved ==
    ASSUME NEW r \in Scan, NEW todo \in SUBSET Orders
    PROVE  [r EXCEPT !.todo = todo] = Resolving(r, todo, r.resolved)
BY DEF Scan, Resolving

(* The last submission has gone before the inventory is examined.          *)
LEMMA InTurnReconcile ==
    ASSUME IInv, Closed, NEW s \in Scans, NEW o \in Orders, Reconcile(s, o)
    PROVE  Closed'
<1> DEFINE rec == scan[s]
           todo == rec.todo \ {o}
           Goes(r) == \/ Continue(s, r)
                      \/ Abandon(s, r)
                      \/ Pending(s, r.resolved) = {} /\ Examine(s, r)
<1>0. /\ rec \in Scan /\ Copied(rec) /\ Accounted(rec) /\ rec.pc = "reconcile"
      /\ UNCHANGED broker /\ OthersIdle(s)
  BY CopiedAccounts, Others DEF Reconcile
<1>1. todo \in SUBSET Orders /\ rec.resolved \in SUBSET Orders
  BY <1>0 DEF Scan
<1>2. /\ ~rec.dirty /\ rec.off = 0 /\ (rec.side = "BUY" => rec.qty = Qty)
      /\ \A p \in rec.resolved : ZeroFillCancelled(p)
  BY <1>0 DEF Copied, Accounted
<1>3. \/ Goes([rec EXCEPT !.todo = todo])
      \/ Stop
      \/ ZeroFillCancelled(o) /\ Goes(Resolving(rec, todo, rec.resolved \cup {o}))
  BY <1>0 DEF Reconcile, Resolving
<1>4. [rec EXCEPT !.todo = todo] = Resolving(rec, todo, rec.resolved)
  BY <1>0, <1>1, SetResolved
<1> HIDE DEF rec, todo
<1>5. ASSUME NEW resolved \in SUBSET Orders, \A p \in resolved : ZeroFillCancelled(p),
             Goes(Resolving(rec, todo, resolved))
      PROVE  Closed'
  <2> DEFINE q == Resolving(rec, todo, resolved)
  <2>1. /\ q \in Scan /\ q.pc = "reconcile" /\ q.qty = rec.qty /\ q.resolved = resolved
    BY <1>0, <1>1, ResolvedFields
  <2>2. q.side = rec.side /\ q.off = rec.off /\ q.dirty = rec.dirty
    BY <1>0, <1>1, ResolvedBooks
  <2>3. Goes(q)
    BY <1>5
  <2> HIDE DEF q
  <2>4. Accounted(q) /\ Copied(q)
    BY <1>2, <1>5, <2>1, <2>2 DEF Accounted, Copied
  <2>5. scan[s].pc = "reconcile"
    BY <1>0 DEF rec
  <2>6. CASE Continue(s, q)
    BY <1>0, <2>1, <2>4, <2>5, <2>6, InTurnContinuing
  <2>7. CASE Abandon(s, q)
    <3>1. ~q.dirty
      BY <1>2, <2>2
    <3> QED BY <1>0, <2>1, <2>4, <2>5, <2>7, <3>1, InTurnAbandoning
  <2>8. CASE Pending(s, q.resolved) = {} /\ Examine(s, q)
    <3>1. ~q.dirty /\ (q.side = "BUY" => q.qty = Qty)
      BY <1>2, <2>1, <2>2
    <3> QED BY <1>0, <2>1, <2>4, <2>5, <2>8, <3>1, InTurnExamining
  <2> QED BY <2>3, <2>6, <2>7, <2>8
<1>6. CASE Stop
  BY <1>0, <1>6, InTurnStill DEF Stop
<1>7. CASE ZeroFillCancelled(o) /\ Goes(Resolving(rec, todo, rec.resolved \cup {o}))
  <2>1. /\ rec.resolved \cup {o} \in SUBSET Orders
        /\ \A p \in rec.resolved \cup {o} : ZeroFillCancelled(p)
    BY <1>1, <1>2, <1>7
  <2> HIDE DEF Goes
  <2> QED BY <1>5, <1>7, <2>1
<1>8. CASE Goes([rec EXCEPT !.todo = todo])
  <2> HIDE DEF Goes
  <2> QED BY <1>1, <1>2, <1>4, <1>5, <1>8
<1> QED BY <1>3, <1>6, <1>7, <1>8

(* No order is loose while a scan that has posted none is at work.         *)
LEMMA NoneLoose ==
    ASSUME IInv, Closed, NEW s \in Scans, scan[s].pc \in Working \ Sent
    PROVE  \A o \in Orders : ~Loose(o)
BY OwnOrder

(* A BUY over dust.                                                        *)
LEMMA InTurnCheck ==
    ASSUME IInv, Closed, NEW s \in Scans, CheckSlots(s)
    PROVE  Closed'
<1>0. /\ scan[s] \in Scan /\ Copied(scan[s]) /\ Accounted(scan[s]) /\ Known(scan[s])
      /\ scan[s].pc = "slots" /\ UNCHANGED broker /\ OthersIdle(s)
  BY CopiedAccounts, Others DEF CheckSlots
<1>1. \A o \in Orders : ~Loose(o)
  BY <1>0, NoneLoose
<1>2. CASE Abandon(s, scan[s])
  BY <1>0, <1>1, <1>2, InTurnAbandoning
<1>3. CASE ~BuyBlocked(Held(scan[s].copy)) /\ Reserve(s, scan[s])
  <2>1. ~scan[s].dirty /\ scan[s].copy = stock /\ Held(stock) \in Nat /\ MinQty \in Nat
    BY <1>0, Numbers, QuantityAssumption DEF Copied, IInv
  <2>2. Held(scan[s].copy) < MinQty
    BY <1>3, <2>1 DEF BuyBlocked
  <2>3. Asking(scan[s])
    BY <1>0, <2>1, <2>2 DEF Asking, Copied
  <2> QED BY <1>0, <1>1, <1>3, <2>3, InTurnRequesting
<1> QED BY <1>2, <1>3 DEF CheckSlots

(* The quantity is cut to the wallet.                                      *)
LEMMA LessBooks ==
    ASSUME NEW r \in Scan, NEW copy \in Nat, NEW off \in Nat, NEW qty \in Nat
    PROVE  /\ Less(r, copy, off, qty) \in Scan
           /\ Less(r, copy, off, qty).copy = copy /\ Less(r, copy, off, qty).off = off
<1>1. Less(r, copy, off, qty) \in Scan
  BY DEF Less, Scan, ScanPC
<1>2. Less(r, copy, off, qty).copy = copy /\ Less(r, copy, off, qty).off = off
  BY DEF Less, Scan, ScanPC
<1> QED BY <1>1, <1>2

(* This change is flushed, and the rest stays.                             *)
LEMMA LessDirty ==
    ASSUME NEW r \in Scan, NEW copy, NEW off, NEW qty
    PROVE  Less(r, copy, off, qty).dirty
BY Zenon DEF Less, Scan

(* The side and the rows marked are as they were.                          *)
LEMMA LessSide ==
    ASSUME NEW r \in Scan, NEW copy, NEW off, NEW qty
    PROVE  /\ Less(r, copy, off, qty).side = r.side
           /\ Less(r, copy, off, qty).resolved = r.resolved
BY DEF Less, Scan

(* What the wallet does not hold is written off with the item.             *)
LEMMA InTurnWallet ==
    ASSUME IInv, Closed, NEW s \in Scans, ReadWallet(s)
    PROVE  Closed'
<1> DEFINE rec == scan[s]
           asked == IF wallet < rec.qty THEN wallet ELSE rec.qty
           given == rec.copy - wallet
           less == Less(rec, wallet, given, asked)
<1>0. /\ rec \in Scan /\ Copied(rec) /\ Accounted(rec) /\ Known(rec)
      /\ rec.pc = "wallet" /\ UNCHANGED broker /\ OthersIdle(s)
  BY CopiedAccounts, Others DEF ReadWallet
<1>1. \A o \in Orders : ~Loose(o)
  BY <1>0, NoneLoose
<1>2. /\ rec.side = "SELL" /\ rec.copy \in Nat /\ rec.qty <= rec.copy /\ rec.qty \in Nat
      /\ ~rec.dirty /\ rec.copy = stock /\ wallet \in Nat /\ Held(stock) = rec.copy
      /\ rec.pc \notin Sent
  <2>1. rec.qty \in Nat
    BY <1>0 DEF Scan
  <2>2. rec.side = "SELL" /\ rec.copy \in Nat /\ rec.qty <= rec.copy
    BY <1>0 DEF Known
  <2>3. ~rec.dirty /\ rec.copy = stock
    BY <1>0 DEF Copied
  <2>4. wallet \in Nat /\ Held(stock) = rec.copy
    BY <2>2, <2>3, Numbers DEF IInv, TypeOK
  <2> QED BY <1>0, <2>1, <2>2, <2>3, <2>4
<1>3. \/ Reserve(s, rec)
      \/ Stop
      \/ wallet < rec.copy /\ (Reserve(s, less) \/ Abandon(s, less))
  BY DEF ReadWallet, Less
<1>4. CASE Reserve(s, rec)
  <2>1. Asking(rec)
    BY <1>0, <1>2 DEF Asking, Copied
  <2> QED BY <1>0, <1>1, <1>2, <1>4, <2>1, InTurnRequesting DEF rec
<1>5. CASE Stop
  BY <1>0, <1>5, InTurnStill DEF Stop
<1>6. CASE wallet < rec.copy /\ (Reserve(s, less) \/ Abandon(s, less))
  <2>1. asked \in Nat /\ given \in Nat /\ wallet \in Nat /\ rec.copy = wallet + given
    BY <1>2, <1>6
  <2>2. /\ less \in Scan /\ less.copy = wallet /\ less.off = given /\ less.dirty
        /\ less.side = "SELL" /\ less.resolved = rec.resolved
    <3>1. rec \in Scan /\ rec.side = "SELL"
      BY <1>0, <1>2
    <3> HIDE DEF rec, asked, given, less
    <3>2. less.dirty
      BY <3>1, LessDirty, Zenon DEF less
    <3>3. less \in Scan /\ less.copy = wallet /\ less.off = given
      BY <2>1, <3>1, LessBooks DEF less
    <3>4. less.side = rec.side /\ less.resolved = rec.resolved
      BY <3>1, LessSide DEF less
    <3> QED BY <3>1, <3>2, <3>3, <3>4
  <2>3. Reserve(s, less) \/ Abandon(s, less)
    BY <1>6
  <2> HIDE DEF less, given, asked
  <2>4. Accounted(less)
    BY <1>0, <1>2, <2>1, <2>2 DEF Accounted
  <2>5. Asking(less)
    BY <1>0, <2>2, <2>4 DEF Asking, Copied
  <2>6. CASE Reserve(s, less)
    BY <1>0, <1>1, <1>2, <2>2, <2>5, <2>6, InTurnRequesting DEF rec
  <2>7. CASE Abandon(s, less)
    BY <1>0, <1>1, <1>2, <2>2, <2>4, <2>7, InTurnAbandoning DEF rec
  <2> QED BY <2>3, <2>6, <2>7
<1> QED BY <1>3, <1>4, <1>5, <1>6

(* Open orders end the item, or let it go on.                              *)
LEMMA InTurnOrders ==
    ASSUME IInv, Closed, NEW s \in Scans, ReadOrders(s)
    PROVE  Closed'
<1> DEFINE rec == scan[s]
           q == [rec EXCEPT !.pc = "lot"]
<1>0. /\ rec \in Scan /\ Copied(rec) /\ Accounted(rec)
      /\ rec.pc = "orders" /\ UNCHANGED broker /\ OthersIdle(s)
  BY CopiedAccounts, Others DEF ReadOrders
<1>1. \A o \in Orders : ~Loose(o)
  BY <1>0, NoneLoose
<1>2. CASE Abandon(s, rec)
  BY <1>0, <1>1, <1>2, InTurnAbandoning
<1>3. CASE Continue(s, q)
  <2>0. "lot" \in ScanPC
    BY DEF ScanPC
  <2>1. /\ q \in Scan /\ q.pc = "lot" /\ q.side = rec.side /\ q.qty = rec.qty
        /\ q.resolved = rec.resolved /\ q.copy = rec.copy
    BY <1>0, <2>0, PcFields
  <2>2. q.off = rec.off /\ q.dirty = rec.dirty
    BY <1>0, <2>0, PcBooks
  <2> HIDE DEF q
  <2>3. Copied(q)
    BY <1>0, <2>1, <2>2 DEF Copied
  <2> QED BY <1>0, <1>3, <2>1, <2>3, InTurnContinuing
<1> QED BY <1>2, <1>3 DEF ReadOrders

(* Before the post nothing is loose, so a failed read leaves nothing.      *)
LEMMA InTurnFault ==
    ASSUME IInv, Closed, NEW s \in Scans, ReadFault(s)
    PROVE  Closed'
<1>0. /\ scan[s] \in Scan /\ Accounted(scan[s]) /\ UNCHANGED broker /\ OthersIdle(s)
      /\ scan[s].pc \in {"wallet", "orders", "lot"} /\ Abandon(s, scan[s])
  BY CopiedAccounts, Others DEF ReadFault
<1>1. \A o \in Orders : ~Loose(o)
  BY <1>0, NoneLoose
<1> QED BY <1>0, <1>1, InTurnAbandoning

(* A rejected order filled nothing; an accepted one is verified.           *)
LEMMA InTurnAnswered ==
    ASSUME IInv, Closed, NEW s \in Scans, Answered(s)
    PROVE  Closed'
<1> DEFINE rec == scan[s]
           q == [rec EXCEPT !.pc = "verify"]
<1>0. /\ rec \in Scan /\ Copied(rec) /\ Accounted(rec) /\ Known(rec)
      /\ rec.pc = "posted" /\ UNCHANGED broker /\ OthersIdle(s) /\ rec.order \in Orders
      /\ TypeOK
  BY CopiedAccounts, Others DEF Answered, Known, IInv
<1>1. CASE order[rec.order].state = "rejected" /\ Abandon(s, rec)
  <2>1. ~Loose(rec.order)
    BY <1>0, <1>1 DEF Closed, Settled, Loose, Live
  <2>2. rec.dirty => \A o \in Orders : ~Loose(o)
    BY <1>0, <2>1, OwnOrder
  <2> QED BY <1>0, <1>1, <2>1, <2>2, InTurnAbandoning
<1>2. CASE /\ scan' = [scan EXCEPT ![s].pc = "verify"]
           /\ UNCHANGED << rows, stock, writtenOff, blocked >>
  <2>0. "verify" \in ScanPC
    BY DEF ScanPC
  <2>1. /\ q \in Scan /\ q.pc = "verify" /\ q.side = rec.side /\ q.qty = rec.qty
        /\ q.resolved = rec.resolved /\ q.copy = rec.copy /\ q.order = rec.order
    BY <1>0, <2>0, PcFields
  <2>2. q.off = rec.off /\ q.dirty = rec.dirty
    BY <1>0, <2>0, PcBooks
  <2>3. scan' = [scan EXCEPT ![s] = q]
    BY <1>0, <1>2 DEF TypeOK
  <2>4. Alike
    BY <1>0, <1>2 DEF Alike, broker
  <2> HIDE DEF q
  <2>5. Copied(q)
    BY <1>0, <2>1, <2>2 DEF Copied
  <2> QED BY <1>0, <2>1, <2>3, <2>4, <2>5, InTurnMoving
<1> QED BY <1>1, <1>2 DEF Answered

(* A scan that has posted an order keeps what it has copied.               *)
LEMMA PostedFields ==
    ASSUME NEW r \in Scan, NEW o \in Orders
    PROVE  LET q == [r EXCEPT !.pc = "posted", !.order = o] IN
           /\ q \in Scan /\ q.pc = "posted" /\ q.order = o /\ q.side = r.side /\ q.qty = r.qty
           /\ q.copy = r.copy /\ q.resolved = r.resolved /\ q.off = r.off
BY DEF Scan, ScanPC

(* Flushed or not.                                                         *)
LEMMA PostedDirty ==
    ASSUME NEW r \in Scan, NEW o \in Orders
    PROVE  [r EXCEPT !.pc = "posted", !.order = o].dirty = r.dirty
BY Zenon DEF Scan

(* The posted order is the only one that is loose: a BUY over dust, or a   *)
(* SELL within the managed quantity.                                       *)
LEMMA InTurnPost ==
    ASSUME IInv, IInv', Closed, NEW s \in Scans, Post(s)
    PROVE  Closed'
<1> DEFINE rec == scan[s]
<1>0. /\ rec \in Scan /\ Copied(rec) /\ Accounted(rec) /\ Known(rec)
      /\ rec.pc = "lot" /\ OthersIdle(s) /\ TypeOK
  BY CopiedAccounts, Others DEF Post, IInv
<1>1. \A o \in Orders : ~Loose(o)
  BY <1>0, NoneLoose
<1>2. CASE Abandon(s, rec) /\ UNCHANGED broker
  BY <1>0, <1>1, <1>2, InTurnAbandoning
<1>3. ASSUME NEW o \in Orders, order[o].state = "none",
             order' = [order EXCEPT ![o] = [state |-> "flight", side |-> rec.side,
                                            qty |-> rec.qty, filled |-> 0]],
             Continue(s, [rec EXCEPT !.pc = "posted", !.order = o]),
             UNCHANGED << wallet, moved >>
      PROVE  Closed'
  <2> DEFINE new == [state |-> "flight", side |-> rec.side, qty |-> rec.qty, filled |-> 0]
             q == [rec EXCEPT !.pc = "posted", !.order = o]
  <2>1. /\ new.state = "flight" /\ new.side = rec.side /\ new.qty = rec.qty /\ new.filled = 0
    OBVIOUS
  <2>2. /\ q \in Scan /\ q.pc = "posted" /\ q.order = o /\ q.side = rec.side /\ q.qty = rec.qty
        /\ q.copy = rec.copy /\ q.resolved = rec.resolved /\ q.off = rec.off
    BY <1>0, PostedFields
  <2>3. q.dirty = rec.dirty
    BY <1>0, PostedDirty
  <2>4. /\ scan' = [scan EXCEPT ![s] = q] /\ order' = [order EXCEPT ![o] = new]
        /\ UNCHANGED << rows, stock, writtenOff, wallet, moved >>
    BY <1>3 DEF Continue
  <2> HIDE DEF new, q, Orders, Order, Scan
  <2>5. /\ order'[o] = new /\ \A p \in Orders \ {o} : order'[p] = order[p]
        /\ scan'[s] = q /\ \A t \in Scans \ {s} : scan'[t] = scan[t]
    BY <1>0, <2>4 DEF TypeOK
  <2>6. rows[o] # "EXECUTED"
    BY <1>3 DEF Closed, Settled
  <2>7. Loose(o)' /\ \A p \in Orders \ {o} : ~Loose(p)'
    BY <1>1, <2>1, <2>4, <2>5, <2>6 DEF Loose, Live
  <2>8. OneBusy'
    BY <1>0, <2>5 DEF OthersIdle, OneBusy
  <2>9. Copies'
    <3> SUFFICES ASSUME NEW t \in Scans PROVE Copied(scan[t])'
      BY DEF Copies
    <3>1. CASE t = s
      BY <1>0, <2>2, <2>3, <2>4, <2>5, <2>6, <3>1 DEF Copied, Held
    <3>2. CASE t # s
      BY <2>4, <2>5, <3>2 DEF Closed, Copies, Copied, Held
    <3> QED BY <3>1, <3>2
  <2>10. Found'
    BY <2>2, <2>5, <2>7 DEF Found
  <2>11. OneLoose'
    BY <2>7 DEF OneLoose
  <2>12. Settled'
    <3>1. \A p \in Orders : rows'[p] = "EXECUTED" => p # o
      BY <2>4, <2>6
    <3> QED BY <2>1, <2>4, <2>5, <3>1 DEF Closed, Settled
  <2>n. /\ Held(stock) \in Nat /\ Net \in Int /\ writtenOff \in Nat
        /\ Held(stock') = Held(stock) /\ Net' = Net /\ writtenOff' = writtenOff
        /\ rec.qty \in Nat /\ rec.side \in {"BUY", "SELL"}
    <3>1. rec.qty \in Nat /\ rec.side \in {"BUY", "SELL"}
      BY <1>0 DEF Scan
    <3> QED BY <1>0, <2>4, <3>1, Numbers DEF Net, Held
  <2>13. Books'
    <3>1. Net - writtenOff = Held(stock)
      BY <1>1 DEF Closed, Books
    <3>2. Signed(o)' = 0
      BY <2>1, <2>5 DEF Signed
    <3>3. ASSUME NEW p \in Orders, Loose(p)'
          PROVE  (Net - writtenOff)' = Held(stock') + Signed(p)'
      <4>1. p = o
        BY <2>7, <3>3
      <4> QED BY <2>n, <3>1, <3>2, <4>1
    <3> QED BY <2>7, <3>3 DEF Books, Held
  <2>14. Bounds'
    <3>1. Held(stock') < Qty + MinQty
      BY <2>n DEF Closed, Bounds
    <3>2. rec.side = "BUY" => Held(stock) < MinQty /\ rec.qty = Qty
      <4>1. rec.side = "BUY" => ~rec.dirty /\ rec.copy = stock
        BY <1>0 DEF Copied
      <4> QED BY <1>0, <4>1 DEF Copied
    <3>3. rec.side = "SELL" => rec.qty <= Held(stock)
      <4> SUFFICES ASSUME rec.side = "SELL" PROVE rec.qty <= Held(stock)
        OBVIOUS
      <4>1. rec.copy \in Nat /\ rec.qty <= rec.copy
        BY <1>0 DEF Known
      <4>2. CASE rec.dirty
        BY <1>0, <2>n, <4>1, <4>2 DEF Copied, Accounted
      <4>3. CASE ~rec.dirty
        <5>1. rec.copy = stock
          BY <1>0, <4>3 DEF Copied
        <5>2. Held(stock) = stock
          BY <1>0, <4>1, <5>1, Numbers
        <5> QED BY <4>1, <5>1, <5>2
      <4> QED BY <4>2, <4>3
    <3>4. ASSUME NEW p \in Orders, Loose(p)'
          PROVE  /\ order'[p].side = "BUY" => Held(stock') < MinQty /\ order'[p].qty = Qty
                 /\ order'[p].side = "SELL" => order'[p].qty <= Held(stock')
      <4>1. p = o
        BY <2>7, <3>4
      <4> QED BY <2>1, <2>5, <2>n, <3>2, <3>3, <4>1
    <3> QED BY <3>1, <3>4 DEF Bounds, Held
  <2> QED BY <2>8, <2>9, <2>10, <2>11, <2>12, <2>13, <2>14 DEF Closed
<1>4. \/ Abandon(s, rec) /\ UNCHANGED broker
      \/ \E o \in Orders :
            /\ order[o].state = "none"
            /\ order' = [order EXCEPT ![o] = [state |-> "flight", side |-> rec.side,
                                              qty |-> rec.qty, filled |-> 0]]
            /\ Continue(s, [rec EXCEPT !.pc = "posted", !.order = o])
            /\ UNCHANGED << wallet, moved >>
  BY DEF Post
<1> HIDE DEF rec
<1> QED BY <1>2, <1>3, <1>4

(* A fill that is applied is flushed with the copy.                        *)
LEMMA FillingBooks ==
    ASSUME NEW r \in Scan, NEW copy \in Nat
    PROVE  /\ Filling(r, copy).copy = copy /\ Filling(r, copy).off = r.off
           /\ Filling(r, copy).resolved = r.resolved /\ Filling(r, copy).order = r.order
BY DEF Filling, Scan, ScanPC

(* Flushed.                                                                *)
LEMMA FillingDirty ==
    ASSUME NEW r \in Scan, NEW copy
    PROVE  Filling(r, copy).dirty
BY Zenon DEF Filling, Scan

(* A verified order is no longer loose when its fill is in the managed     *)
(* quantity, or when it filled nothing; else its row says SUBMITTED.       *)
LEMMA InTurnVerify ==
    ASSUME IInv, Closed, NEW s \in Scans, Verify(s)
    PROVE  Closed'
<1> DEFINE rec == scan[s]
<1>0. /\ rec \in Scan /\ Copied(rec) /\ Accounted(rec) /\ Known(rec)
      /\ rec.pc = "verify" /\ OthersIdle(s) /\ TypeOK /\ UNCHANGED broker
  BY CopiedAccounts, Others DEF Verify, IInv
<1>p. PICK o \in Orders : o = rec.order
  BY <1>0 DEF Known
<1>o. /\ o \in Orders /\ order[o].side = rec.side /\ order[o].qty = rec.qty
      /\ rows[o] # "EXECUTED"
  BY <1>0, <1>p DEF Known, Copied
<1> DEFINE result == Applied(rec.copy, o)
<1>b. order' = order /\ wallet' = wallet /\ moved' = moved /\ Net' = Net
  BY <1>0 DEF broker, Net
<1>own. \A p \in Orders : Loose(p) => p = o
  BY <1>0, <1>p, OwnOrder
<1>n. /\ Held(stock) \in Nat /\ Net \in Int /\ writtenOff \in Nat /\ None \notin Nat
      /\ (stock \in Nat => Held(stock) = stock)
      /\ order[o].filled \in Nat /\ order[o].qty \in Nat /\ order[o].filled <= order[o].qty
      /\ order[o].side \in {"BUY", "SELL"} /\ Qty \in Nat /\ MinQty \in Nat
  BY <1>0, <1>o, Numbers, QuantityAssumption
<1>l. Net - writtenOff = Held(stock) + Signed(o)
  <2>1. CASE Loose(o)
    BY <1>o, <2>1 DEF Closed, Books
  <2>2. CASE ~Loose(o)
    <3>1. \A p \in Orders : ~Loose(p)
      BY <1>own, <2>2
    <3>2. Net - writtenOff = Held(stock)
      BY <3>1 DEF Closed, Books
    <3>3. order[o].filled = 0
      BY <1>o, <1>n, <2>2 DEF Loose
    <3>4. Signed(o) = 0
      BY <1>n, <3>3 DEF Signed
    <3> QED BY <1>n, <3>2, <3>4
  <2> QED BY <2>1, <2>2
<1>z. \A p \in rec.resolved : order[p].state = "cancelled" /\ order[p].filled = 0
  BY <1>0 DEF Accounted, ZeroFillCancelled
<1>c. Held(rec.copy) \in Nat /\ Held(stock) = Held(rec.copy) + rec.off /\ rec.off \in Nat
  <2>1. CASE rec.dirty
    <3>1. rec.copy \in Nat /\ Held(stock) = rec.copy + rec.off
      BY <1>0, <2>1 DEF Accounted
    <3>2. Held(rec.copy) = rec.copy
      BY <1>n, <3>1 DEF Held
    <3> QED BY <1>0, <3>1, <3>2 DEF Accounted
  <2>2. CASE ~rec.dirty
    <3>1. rec.copy = stock /\ rec.off = 0
      BY <1>0, <2>2 DEF Copied
    <3> QED BY <1>n, <3>1
  <2> QED BY <2>1, <2>2
<1>buy. rec.side = "BUY" => rec.qty = Qty /\ Held(rec.copy) < MinQty /\ ~rec.dirty
  BY <1>0 DEF Copied
<1>sell. rec.side = "SELL" => rec.qty <= Held(rec.copy)
  BY <1>0, <1>n DEF Known, Held
<1> HIDE DEF rec, result
<1>1. ASSUME NEW status \in {"SUBMITTED", "CANCELLED"}, End(s, rec, status),
             status = "CANCELLED" => ZeroFillCancelled(o)
      PROVE  Closed'
  <2>1. \A p \in Orders : rows'[p] = IF p \in rec.resolved THEN "CANCELLED"
                                     ELSE IF p = o THEN status ELSE rows[p]
    BY <1>1, <1>p DEF End
  <2>2. /\ Held(stock') \in Nat /\ writtenOff' \in Nat /\ Held(stock') <= Held(stock)
        /\ Held(stock') + writtenOff' = Held(stock) + writtenOff
        /\ ~rec.dirty => stock' = stock
        /\ rec.dirty => Held(stock') = rec.copy
    BY <1>0, <1>1, Committing
  <2>3. ASSUME NEW p \in Orders, Loose(p)'
        PROVE  p = o /\ Loose(p) /\ rows'[p] = "SUBMITTED"
    <3>1. p \notin rec.resolved
      BY <1>z, <1>b, <2>3 DEF Loose, Live
    <3>2. p = o
      BY <1>b, <1>own, <2>1, <2>3, <3>1 DEF Loose, Live
    <3>3. Loose(p)
      BY <1>b, <1>o, <2>3, <3>2 DEF Loose, Live
    <3>4. status # "CANCELLED"
      BY <1>1, <1>b, <2>3, <3>2 DEF ZeroFillCancelled, Loose, Live
    <3> QED BY <2>1, <3>1, <3>2, <3>3, <3>4
  <2>4. \A p \in Orders : rows'[p] = "EXECUTED" => order[p].state = "filled"
    BY <2>1 DEF Closed, Settled
  <2>5. Signed(o)' = Signed(o) /\ Signed(o) \in Int
    BY <1>b, <1>n DEF Signed
  <2>6. Net' - writtenOff' = Held(stock') + Signed(o)
    BY <1>l, <1>n, <1>b, <2>2, <2>5
  <2>7. Books'
    <3>1. ASSUME ~Loose(o)' PROVE Net' - writtenOff' = Held(stock')
      <4>1. rows'[o] # "EXECUTED"
        BY <1>o, <2>1
      <4>2. order[o].filled = 0
        BY <1>b, <1>n, <3>1, <4>1 DEF Loose
      <4>3. Signed(o) = 0
        BY <1>n, <4>2 DEF Signed
      <4> QED BY <2>2, <2>6, <4>3
    <3>2. ASSUME NEW p \in Orders, Loose(p)'
          PROVE  Net' - writtenOff' = Held(stock') + Signed(p)'
      <4>1. p = o
        BY <2>3, <3>2
      <4> QED BY <2>5, <2>6, <4>1
    <3> QED BY <1>o, <3>1, <3>2 DEF Books, Held
  <2>8. Bounds'
    <3>1. Held(stock') < Qty + MinQty
      BY <1>n, <2>2 DEF Closed, Bounds
    <3>2. rec.side = "BUY" => Held(stock') < MinQty /\ rec.qty = Qty
      BY <1>n, <1>c, <1>buy, <2>2, <1>0 DEF Copied
    <3>3. rec.side = "SELL" => rec.qty <= Held(stock')
      <4>1. CASE rec.dirty
        <5>1. rec.copy \in Nat
          BY <1>0, <4>1 DEF Accounted
        <5>2. Held(rec.copy) = rec.copy
          BY <1>n, <5>1 DEF Held
        <5> QED BY <1>sell, <2>2, <4>1, <5>2
      <4>2. CASE ~rec.dirty
        <5>1. rec.copy = stock /\ stock' = stock
          BY <1>0, <2>2, <4>2 DEF Copied
        <5> QED BY <1>sell, <5>1
      <4> QED BY <4>1, <4>2
    <3>4. ASSUME NEW p \in Orders, Loose(p)'
          PROVE  /\ order'[p].side = "BUY" => Held(stock') < MinQty /\ order'[p].qty = Qty
                 /\ order'[p].side = "SELL" => order'[p].qty <= Held(stock')
      <4>1. p = o
        BY <2>3, <3>4
      <4> QED BY <1>b, <1>o, <3>2, <3>3, <4>1
    <3> QED BY <3>1, <3>4 DEF Bounds, Held
  <2> QED BY <1>0, <1>1, <2>3, <2>4, <2>7, <2>8, InTurnEnding
<1>2. CASE FillListed(o) /\ End(s, Filling(rec, result), "EXECUTED")
  <2> DEFINE q == Filling(rec, result)
  <2>0. result \in Nat /\ result = Held(rec.copy) + Signed(o) /\ Signed(o) \in Int
    <3>1. result \in Nat
      BY <1>0, <1>p, AppliedIsNat DEF rec, result
    <3>2. Signed(o) \in Int
      BY <1>n DEF Signed
    <3>3. result = Held(rec.copy) + Signed(o)
      BY <1>n, <1>c DEF result, Applied, Signed
    <3> QED BY <3>1, <3>2, <3>3
  <2>1. /\ q.copy = result /\ q.off = rec.off /\ q.resolved = rec.resolved /\ q.order = o
    BY <1>0, <1>p, <2>0, FillingBooks
  <2>2. q.dirty
    BY <1>0, FillingDirty, Zenon
  <2>3. End(s, q, "EXECUTED") /\ order[o].state = "filled"
    BY <1>2 DEF FillListed
  <2> HIDE DEF q
  <2>4. stock' = result /\ writtenOff' = writtenOff + rec.off
    BY <2>1, <2>2, <2>3 DEF End
  <2>5. \A p \in Orders : rows'[p] = IF p \in rec.resolved THEN "CANCELLED"
                                     ELSE IF p = o THEN "EXECUTED" ELSE rows[p]
    BY <2>1, <2>3 DEF End
  <2>6. ASSUME NEW p \in Orders PROVE ~Loose(p)'
    <3>1. CASE p \in rec.resolved
      <4>1. order[p].state = "cancelled" /\ order[p].filled = 0
        BY <1>z, <3>1
      <4> QED BY <1>b, <4>1 DEF Loose, Live
    <3>2. CASE p \notin rec.resolved /\ p = o
      BY <2>5, <3>2 DEF Loose
    <3>3. CASE p \notin rec.resolved /\ p # o
      BY <1>b, <1>own, <2>5, <3>3 DEF Loose, Live
    <3> QED BY <3>1, <3>2, <3>3
  <2>7. \A p \in Orders : rows'[p] = "EXECUTED" => order[p].state = "filled"
    BY <2>3, <2>5 DEF Closed, Settled
  <2>8. Held(stock') = result
    BY <1>n, <2>0, <2>4 DEF Held
  <2>9. Net' - writtenOff' = Held(stock')
    BY <1>l, <1>n, <1>c, <1>b, <2>0, <2>4, <2>8
  <2>10. Held(stock') < Qty + MinQty
    <3>1. CASE rec.side = "BUY"
      BY <1>o, <1>n, <1>c, <1>buy, <2>0, <2>8, <3>1 DEF Signed
    <3>2. CASE rec.side = "SELL"
      <4>1. Held(stock) < Qty + MinQty
        BY DEF Closed, Bounds
      <4>2. Signed(o) = 0 - order[o].filled
        BY <1>o, <3>2 DEF Signed
      <4> QED BY <1>n, <1>c, <2>0, <2>8, <4>1, <4>2
    <3> QED BY <1>o, <1>n, <3>1, <3>2
  <2>11. Books'
    BY <2>6, <2>9 DEF Books, Held
  <2>12. Bounds'
    BY <2>6, <2>10 DEF Bounds, Held
  <2> QED BY <1>0, <2>3, <2>6, <2>7, <2>11, <2>12, InTurnEnding
<1>3. CASE Stop
  BY <1>0, <1>3, InTurnStill DEF Stop
<1>4. ~(rec.copy = None /\ stock # None)
  BY <1>0, <1>n DEF Copied, Accounted
<1>5. \/ End(s, rec, "SUBMITTED")
      \/ ZeroFillCancelled(o) /\ End(s, rec, "CANCELLED")
      \/ Stop
      \/ FillListed(o) /\ End(s, Filling(rec, result), "EXECUTED")
  BY <1>4, <1>p DEF Verify, Filling, rec, result
<1> QED BY <1>1, <1>2, <1>3, <1>5

-----------------------------------------------------------------------------
(* The broker and the owner.                                               *)

(* The one order that is loose moves on: what it fills is bought or sold.  *)
LEMMA InTurnOrder ==
    ASSUME TypeOK, TypeOK', Closed, NEW o \in Orders, Live(o),
           BrokerOnly, UNCHANGED moved,
           \A p \in Orders \ {o} : order'[p] = order[p],
           order'[o].side = order[o].side, order'[o].qty = order[o].qty,
           order'[o].state \in {"flight", "rejected"} => order'[o].filled = 0,
           Net' - Net = Signed(o)' - Signed(o)
    PROVE  Closed'
<1>0. UNCHANGED << rows, stock, scan, writtenOff >> /\ Held(stock') = Held(stock)
  BY DEF BrokerOnly, Held
<1>n. /\ Held(stock) \in Nat /\ Net \in Int /\ writtenOff \in Nat /\ Net' \in Int
      /\ order[o].filled \in Nat /\ order'[o].filled \in Nat
      /\ Signed(o) \in Int /\ Signed(o)' \in Int
  <2>1. /\ Held(stock) \in Nat /\ Net \in Int /\ writtenOff \in Nat
        /\ order[o].filled \in Nat
    BY Numbers
  <2>2. Net' \in Int
    BY QuantityAssumption DEF TypeOK, Net
  <2>3. order'[o].filled \in Nat
    BY DEF TypeOK, Order
  <2> QED BY <2>1, <2>2, <2>3 DEF Signed
<1>1. rows[o] # "EXECUTED" /\ Loose(o)
  BY DEF Closed, Settled, Loose, Live
<1>2. ASSUME NEW p \in Orders PROVE (p # o => ~Loose(p) /\ ~Loose(p)')
  <2> SUFFICES ASSUME p # o PROVE ~Loose(p) /\ ~Loose(p)'
    OBVIOUS
  <2>1. ~Loose(p)
    BY <1>1 DEF Closed, OneLoose
  <2> QED BY <1>0, <2>1 DEF Loose, Live
<1>3. OneBusy' /\ Copies'
  BY <1>0 DEF Closed, OneBusy, Copies, Copied, Held
<1>4. Found'
  <2> SUFFICES ASSUME NEW p \in Orders, Loose(p)', rows[p] # "SUBMITTED"
               PROVE  \E s \in Scans : scan[s].pc \in Sent /\ scan[s].order = p
    BY <1>0 DEF Found
  <2>1. p = o
    BY <1>2
  <2> QED BY <1>1, <2>1 DEF Closed, Found
<1>5. OneLoose'
  BY <1>2 DEF OneLoose
<1>6. Settled'
  BY <1>0, <1>1 DEF Closed, Settled
<1>7. Net' - writtenOff = Held(stock) + Signed(o)'
  <2>1. Net - writtenOff = Held(stock) + Signed(o)
    BY <1>1 DEF Closed, Books
  <2>2. writtenOff \in Int /\ Held(stock) \in Int
    BY <1>n
  <2>3. Net' - Net = Signed(o)' - Signed(o)
    OBVIOUS
  <2>4. Net \in Int /\ Net' \in Int /\ Signed(o) \in Int /\ Signed(o)' \in Int
    BY <1>n
  <2>5. PICK w, h, n, s, m, r \in Int :
            /\ w = writtenOff /\ h = Held(stock) /\ n = Net /\ s = Signed(o)
            /\ m = Net' /\ r = Signed(o)'
    BY ONLY <2>2, <2>4
  <2>6. n - w = h + s /\ m - n = r - s
    BY ONLY <2>1, <2>3, <2>5
  <2>7. m - w = h + r
    BY ONLY <2>6
  <2> QED BY ONLY <2>5, <2>7
<1>8. Books'
  <2>1. ASSUME ~Loose(o)' PROVE Signed(o)' = 0
    <3>1. order'[o].filled = 0
      BY <1>0, <1>1, <1>n, <2>1 DEF Loose
    <3> QED BY <3>1 DEF Signed
  <2>2. ASSUME \A p \in Orders : ~Loose(p)'
        PROVE  Net' - writtenOff' = Held(stock')
    BY <1>0, <1>n, <1>7, <2>1, <2>2
  <2>3. ASSUME NEW p \in Orders, Loose(p)'
        PROVE  Net' - writtenOff' = Held(stock') + Signed(p)'
    <3>1. p = o
      BY <1>2, <2>3
    <3> QED BY <1>0, <1>7, <3>1
  <2> QED BY <2>2, <2>3 DEF Books, Held
<1>9. Bounds'
  <2>1. ASSUME NEW p \in Orders, Loose(p)'
        PROVE  /\ order'[p].side = "BUY" => Held(stock') < MinQty /\ order'[p].qty = Qty
               /\ order'[p].side = "SELL" => order'[p].qty <= Held(stock')
    <3>1. p = o
      BY <1>2, <2>1
    <3> QED BY <1>0, <1>1, <3>1 DEF Closed, Bounds
  <2>2. Held(stock') < Qty + MinQty
    BY <1>0 DEF Closed, Bounds
  <2> QED BY <2>1, <2>2 DEF Bounds, Held
<1> QED BY <1>3, <1>4, <1>5, <1>6, <1>8, <1>9 DEF Closed

(* Every step of the broker and of the owner keeps the books closed.       *)
LEMMA InTurnBroker ==
    ASSUME IInv, IInv', Closed, Broker
    PROVE  Closed'
<1>t. TypeOK /\ TypeOK'
  BY DEF IInv
<1>1. CASE Transfer
  <2>1. UNCHANGED << rows, stock, scan, writtenOff, order >>
    BY <1>1 DEF Transfer, BrokerOnly
  <2>2. Net' = Net
    BY <1>t, <1>1, QuantityAssumption DEF TypeOK, Transfer, Net
  <2>3. OneBusy' /\ Copies' /\ Found' /\ OneLoose' /\ Settled'
    BY <2>1 DEF Closed, OneBusy, Copies, Copied, Found, OneLoose, Settled, Loose, Live, Held
  <2>4. Books' /\ Bounds'
    BY <2>1, <2>2 DEF Closed, Books, Bounds, Loose, Live, Signed, Held
  <2> QED BY <2>3, <2>4 DEF Closed
<1>2. ASSUME NEW o \in Orders, NEW state \in {"open", "rejected", "cancelled"}, Live(o),
             order' = [order EXCEPT ![o].state = state], BrokerOnly,
             UNCHANGED << wallet, moved >>,
             state = "rejected" => order[o].state = "flight"
      PROVE  Closed'
  <2>1. order' = [order EXCEPT ![o] = Standing(order[o], state)]
    BY <1>2 DEF Standing
  <2>2. /\ Standing(order[o], state).state = state
        /\ Standing(order[o], state).side = order[o].side
        /\ Standing(order[o], state).qty = order[o].qty
        /\ Standing(order[o], state).filled = order[o].filled
    <3>1. order[o] \in Order /\ state \in OrderState
      BY <1>t DEF TypeOK, OrderState
    <3> QED BY <3>1, OrderFields
  <2> HIDE DEF Orders, Order
  <2>3. /\ order'[o] = Standing(order[o], state)
        /\ \A p \in Orders \ {o} : order'[p] = order[p]
    BY <1>t, <2>1 DEF TypeOK
  <2>4. order'[o].state \in {"flight", "rejected"} => order'[o].filled = 0
    BY <1>2, <2>2, <2>3 DEF Closed, Settled
  <2>5. Net' - Net = Signed(o)' - Signed(o)
    <3>1. Net' = Net /\ Net \in Int
      BY <1>t, <1>2, QuantityAssumption DEF TypeOK, Net
    <3>2. Signed(o)' = Signed(o)
      BY <2>2, <2>3 DEF Signed
    <3>3. Signed(o) \in Int
      BY <1>t, Numbers DEF Signed
    <3> QED BY <3>1, <3>2, <3>3
  <2>6. order'[o].side = order[o].side /\ order'[o].qty = order[o].qty
    BY <2>2, <2>3
  <2>7. UNCHANGED moved
    BY <1>2
  <2> QED BY <1>t, <1>2, <2>3, <2>4, <2>5, <2>6, <2>7, InTurnOrder
<1>3. ASSUME NEW o \in Orders, Fill(o) PROVE Closed'
  <2> DEFINE state == IF order[o].filled + 1 = order[o].qty THEN "filled" ELSE "open"
             new == Reaching(order[o], order[o].filled + 1, state)
  <2>1. /\ order[o] \in Order /\ order[o].filled \in Nat /\ order[o].side \in {"BUY", "SELL"}
        /\ Live(o) /\ wallet \in Nat /\ moved \in Nat
    BY <1>t, <1>3, Numbers DEF TypeOK, Fill, Live
  <2>2. /\ new.state = state /\ new.side = order[o].side /\ new.qty = order[o].qty
        /\ new.filled = order[o].filled + 1
    <3>1. state \in OrderState /\ order[o].filled + 1 \in Nat
      BY <2>1 DEF OrderState
    <3> HIDE DEF state
    <3> QED BY <2>1, <3>1, ReachingFields, SMTT(30)
  <2>3. order' = [order EXCEPT ![o] = new]
    BY <1>3 DEF Fill, Reaching
  <2>4. /\ wallet' = IF order[o].side = "BUY" THEN wallet + 1 ELSE wallet - 1
        /\ moved' = moved /\ BrokerOnly
    BY <1>3 DEF Fill
  <2>s. state \notin {"flight", "rejected"}
    OBVIOUS
  <2> HIDE DEF new, state, Orders, Order
  <2>5. order'[o] = new /\ \A p \in Orders \ {o} : order'[p] = order[p]
    BY <1>t, <2>3 DEF TypeOK
  <2>6. Net' - Net = Signed(o)' - Signed(o)
    <3>1. CASE order[o].side = "BUY"
      <4>1. Net' = Net + 1 /\ Net \in Int
        BY <2>1, <2>4, <3>1, QuantityAssumption DEF Net
      <4>2. Signed(o)' = order[o].filled + 1 /\ Signed(o) = order[o].filled
        BY <2>2, <2>5, <3>1 DEF Signed
      <4> QED BY <2>1, <4>1, <4>2
    <3>2. CASE order[o].side = "SELL"
      <4>1. Net' = Net - 1 /\ Net \in Int
        BY <2>1, <2>4, <3>2, QuantityAssumption DEF Net
      <4>2. Signed(o)' = 0 - (order[o].filled + 1) /\ Signed(o) = 0 - order[o].filled
        BY <2>2, <2>5, <3>2 DEF Signed
      <4> QED BY <2>1, <4>1, <4>2
    <3> QED BY <2>1, <3>1, <3>2
  <2>7. /\ order'[o].side = order[o].side /\ order'[o].qty = order[o].qty
        /\ order'[o].state \notin {"flight", "rejected"}
    BY <2>2, <2>5, <2>s
  <2> QED BY <1>t, <2>1, <2>4, <2>5, <2>6, <2>7, InTurnOrder
<1>4. ASSUME NEW o \in Orders, Arrive(o) PROVE Closed'
  BY <1>2, <1>4 DEF Arrive, Live
<1>5. ASSUME NEW o \in Orders, Cancel(o) PROVE Closed'
  BY <1>2, <1>5 DEF Cancel, Live
<1> QED BY <1>1, <1>3, <1>4, <1>5 DEF Broker

-----------------------------------------------------------------------------
(* While nothing disturbs them, every step keeps the books closed.         *)
LEMMA InTurnStep == IInv /\ IInv' /\ InTurn /\ [Next]_vars => InTurn'
<1> SUFFICES ASSUME IInv, IInv', InTurn, [Next]_vars, Undisturbed' PROVE Closed'
  BY DEF InTurn
<1>0. lost \in Nat /\ lost' \in Nat
  BY DEF IInv, TypeOK
<1>1. ASSUME Undisturbed PROVE Closed
  BY <1>1 DEF InTurn
<1>2. ASSUME ScanStep PROVE Closed'
  <2>1. ASSUME NEW s \in Scans, NEW side \in {"BUY", "SELL"},
               NEW qty \in 1 .. Qty + MinQty - 1, Begin(s, side, qty)
        PROVE  Closed'
    <3>1. Undisturbed /\ ~overlapped'
      BY <2>1, Zenon DEF Begin, Undisturbed
    <3> QED BY <1>1, <2>1, <3>1, InTurnBegin
  <2>2. ASSUME NEW s \in Scans, LoseAnswer(s) PROVE FALSE
    BY <1>0, <2>2 DEF LoseAnswer, Undisturbed
  <2>3. ASSUME NEW s \in Scans,
               \/ \E o \in Orders : Reconcile(s, o)
               \/ CheckSlots(s) \/ ReadWallet(s) \/ ReadOrders(s) \/ Post(s) \/ ReadFault(s)
               \/ Answered(s) \/ Verify(s)
        PROVE  Closed'
    <3>1. UNCHANGED << lost, overlapped >>
      <4>1. CASE \E o \in Orders : Reconcile(s, o)
        BY <4>1, Zenon DEF Reconcile
      <4>2. CASE CheckSlots(s) \/ ReadWallet(s) \/ ReadOrders(s)
        BY <4>2, Zenon DEF CheckSlots, ReadWallet, ReadOrders
      <4>3. CASE Post(s) \/ ReadFault(s)
        BY <4>3, Zenon DEF Post, ReadFault
      <4>4. CASE Answered(s) \/ Verify(s)
        BY <4>4, Zenon DEF Answered, Verify
      <4> QED BY <2>3, <4>1, <4>2, <4>3, <4>4
    <3>2. Undisturbed
      BY <3>1, Zenon DEF Undisturbed
    <3>3. Closed
      BY <1>1, <3>2
    <3> QED BY <2>3, <3>3, InTurnReconcile, InTurnCheck, InTurnWallet, InTurnOrders,
               InTurnPost, InTurnFault, InTurnAnswered, InTurnVerify
  <2> QED BY <1>2, <2>1, <2>2, <2>3 DEF ScanStep
<1>3. ASSUME Broker PROVE Closed'
  <2>0. BrokerOnly
    BY <1>3 DEF Broker, Transfer, Arrive, Fill, Cancel
  <2>1. Undisturbed
    BY <2>0, Zenon DEF BrokerOnly, Undisturbed
  <2> QED BY <1>1, <1>3, <2>1, InTurnBroker
<1>4. ASSUME ProcessRestart PROVE FALSE
  BY <1>0, <1>4 DEF ProcessRestart, Undisturbed
<1>5. ASSUME UNCHANGED vars PROVE Closed'
  <2>1. Undisturbed /\ UNCHANGED << rows, stock, writtenOff, scan, broker >>
    BY <1>5 DEF vars, broker, Undisturbed
  <2> QED BY <1>1, <2>1, InTurnStill
<1> QED BY <1>2, <1>3, <1>4, <1>5 DEF Next

(* So they stay closed throughout.                                         *)
THEOREM BooksStayClosed == Spec => []InTurn
<1>1. Spec => []IInv
  BY Invariant
<1> QED BY <1>1, InTurnInitially, InTurnStep, PTL DEF Spec

(* While scans follow one another and no answer is lost, no order is       *)
(* placed over one that may still fill, or has, and that no row tells of:  *)
(* such an order keeps every scan from placing another.                    *)
THEOREM NoOrderOverAnother == Spec => []OneUnresolvedOrder
<1>1. IInv /\ InTurn => OneUnresolvedOrder
  <2> SUFFICES ASSUME IInv, Closed
               PROVE  Cardinality({o \in Orders : ~Nothing(o) /\ rows[o] # "EXECUTED"}) <= 1
    BY DEF InTurn, OneUnresolvedOrder
  <2>1. ASSUME NEW o \in Orders, ~Nothing(o), rows[o] # "EXECUTED" PROVE Loose(o)
    <3>1. order[o].filled \in Nat
      BY Numbers DEF IInv
    <3> QED BY <2>1, <3>1 DEF Nothing, Loose, Live
  <2>2. \A o, p \in {x \in Orders : ~Nothing(x) /\ rows[x] # "EXECUTED"} : o = p
    BY <2>1 DEF Closed, OneLoose
  <2> QED BY <2>2, AtMostOne
<1> QED BY <1>1, Invariant, BooksStayClosed, PTL

(* Then the net quantity is what the ledger says with what one order       *)
(* filled: no less than nothing, and less than an entry over dust.         *)
LEMMA NetIsBounded ==
    ASSUME IInv, Closed
    PROVE  Net >= 0 /\ Net - writtenOff < Qty + MinQty
<1>n. /\ Held(stock) \in Nat /\ Net \in Int /\ writtenOff \in Nat
      /\ Qty \in Nat /\ MinQty \in Nat /\ Held(stock) < Qty + MinQty
  BY Numbers, QuantityAssumption DEF IInv, Closed, Bounds
<1>1. CASE \A o \in Orders : ~Loose(o)
  <2>1. Net - writtenOff = Held(stock)
    BY <1>1 DEF Closed, Books
  <2> QED BY <1>n, <2>1
<1>2. ASSUME NEW o \in Orders, Loose(o)
      PROVE  Net >= 0 /\ Net - writtenOff < Qty + MinQty
  <2>1. Net - writtenOff = Held(stock) + Signed(o)
    BY <1>2 DEF Closed, Books
  <2>2. /\ order[o].filled \in Nat /\ order[o].qty \in Nat
        /\ order[o].filled <= order[o].qty /\ order[o].side \in {"BUY", "SELL"}
    BY Numbers DEF IInv
  <2>3. CASE order[o].side = "BUY"
    <3>1. Held(stock) < MinQty /\ order[o].qty = Qty /\ Signed(o) = order[o].filled
      BY <1>2, <2>3 DEF Closed, Bounds, Signed
    <3> QED BY <1>n, <2>1, <2>2, <3>1
  <2>4. CASE order[o].side = "SELL"
    <3>1. order[o].qty <= Held(stock) /\ Signed(o) = 0 - order[o].filled
      BY <1>2, <2>4 DEF Closed, Bounds, Signed
    <3> QED BY <1>n, <2>1, <2>2, <3>1
  <2> QED BY <2>2, <2>3, <2>4
<1> QED BY <1>1, <1>2

(* Then ATLAS never sells the owner's units, whatever is filled in part,   *)
(* cancelled, left as dust or moved out of the wallet.                     *)
THEOREM OnlyManagedIsSold == Spec => []ScansInTurnSellOnlyManaged
<1>1. IInv /\ InTurn => ScansInTurnSellOnlyManaged
  BY NetIsBounded DEF InTurn, ScansInTurnSellOnlyManaged, SellsOnlyManaged
<1> QED BY <1>1, Invariant, BooksStayClosed, PTL

(* Then a BUY is added to dust only.                                       *)
THEOREM BuysAddToDust == Spec => []OneEntry
<1>1. IInv /\ InTurn => OneEntry
  BY NetIsBounded DEF InTurn, OneEntry
<1> QED BY <1>1, Invariant, BooksStayClosed, PTL

(* Then, with every outcome recorded, the managed quantity is what the     *)
(* orders filled, less what the wallet turned out not to hold.             *)
THEOREM ManagedStockIsExact == Spec => []StockIsExact
<1>1. IInv /\ InTurn => StockIsExact
  <2> SUFFICES ASSUME IInv, Closed, \A o \in Orders : Nothing(o) \/ rows[o] = "EXECUTED"
               PROVE  Held(stock) = Net - writtenOff
    BY DEF InTurn, StockIsExact
  <2>n. Held(stock) \in Nat /\ Net \in Int /\ writtenOff \in Nat
    BY Numbers DEF IInv
  <2>1. CASE \A o \in Orders : ~Loose(o)
    BY <2>1 DEF Closed, Books
  <2>2. ASSUME NEW o \in Orders, Loose(o) PROVE Held(stock) = Net - writtenOff
    <3>1. order[o].filled = 0
      BY <2>2 DEF Loose, Nothing
    <3>2. Signed(o) = 0
      BY <3>1 DEF Signed
    <3>3. Net - writtenOff = Held(stock) + Signed(o)
      BY <2>2 DEF Closed, Books
    <3> QED BY <2>n, <3>2, <3>3
  <2> QED BY <2>1, <2>2
<1> QED BY <1>1, Invariant, BooksStayClosed, PTL

-----------------------------------------------------------------------------
(* The other part of MCOrders: its steps are those of IbkrProtection, or   *)
(* leave it at rest, so what IbkrProtectionProofs proves holds of it.      *)
LEMMA ProtectionIsPart == SpecEither => P!Spec
<1>1. InitEither => P!Init
  BY DEF InitEither
<1>2. [NextEither]_<<protecting, vars, pVars>> => [P!Next]_(P!vars)
  BY DEF NextEither, pVars, P!vars
<1> QED BY <1>1, <1>2, PTL DEF SpecEither, P!Spec

(* No entry is ever given a second stop or target, whatever answers are    *)
(* lost and whichever process restarts.                                    *)
THEOREM PairsStayPlacedOnce == SpecEither => []OnePair
<1>1. P!OnePair => OnePair
  BY DEF OnePair
<1> QED BY <1>1, ProtectionIsPart, ProtectionAssumption, P!PairsArePlacedOnce, PTL

(* What is saved of protected entries is true of the broker: a row that    *)
(* allows another attempt has had none, and a recorded exit has filled.    *)
THEOREM RecordsStayTrue == SpecEither => []RecordsAgree
<1>1. P!RecordsAgree => RecordsAgree
  BY DEF RecordsAgree
<1> QED BY <1>1, ProtectionIsPart, ProtectionAssumption, P!RecordsAreTrue, PTL

=============================================================================
