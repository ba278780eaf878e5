----------------------------- MODULE BybitSpot ------------------------------
(***************************************************************************)
(* Managed Spot orders of one Bybit symbol (bybit_spot_execution.py), as   *)
(* scans place them through brokers/bybit_private.py.  There is no intent: *)
(* the audit row of an order and the managed quantity are written when the *)
(* scan has finished with the order.                                       *)
(*                                                                         *)
(* An action of a scan is the code between two awaits.  A row a scan has   *)
(* flushed stays locked in the database until the scan commits, and the    *)
(* database calls are synchronous: a scan that meets such a lock stops the *)
(* process (blocked), with the scan that holds it.                         *)
(*                                                                         *)
(* Abstracted: one account, whole units; prices, fees and certification    *)
(* are left out.  A scan may get a BUY or SELL signal at any time.         *)
(***************************************************************************)
EXTENDS Integers, FiniteSets

CONSTANTS
    Scans,        \* run_safe_scan: the loop's, and one by scan-now
    MaxOrders,    \* orders ever posted (bounds the history)
    Qty,          \* units of a BUY signal
    MinQty,       \* least units of an order; less is dust
    Own,          \* units in the wallet that are not ATLAS's
    MaxTransfers, \* bound on units the owner moves out of the wallet
    MaxLost,      \* bound on lost answers and process restarts
    None

ASSUME QuantityAssumption == Qty \in Nat /\ MinQty \in 1 .. Qty /\ Own \in Nat
ASSUME BoundAssumption == MaxOrders \in Nat /\ MaxTransfers \in Nat /\ MaxLost \in Nat
ASSUME ScanAssumption == None \notin Scans \cup Nat

Orders == 1 .. MaxOrders

VARIABLES
    rows,       \* committed audit rows of the orders
    stock,      \* committed managed_quantity, None without an inventory row
    order,      \* the broker's orders
    wallet,     \* units the broker holds
    scan,
    guard,      \* reserve_execution: the scan that holds the symbol
    blocked,    \* the event loop waits for a row lock
    writtenOff, \* history: managed units given up because the wallet had less
    overlapped, \* history: two scans were busy with the symbol at once
    moved, lost \* counters

vars == << rows, stock, order, wallet, scan, guard, blocked, writtenOff, moved, lost,
           overlapped >>
broker == << order, wallet, moved >>

-----------------------------------------------------------------------------
RowStatus == {"none", "SUBMITTED", "EXECUTED", "CANCELLED"}
OrderState == {"none", "flight", "open", "filled", "cancelled", "rejected"}
Order == [state : OrderState, side : {"BUY", "SELL"}, qty : Nat, filled : Nat]
NoOrder == [state |-> "none", side |-> "BUY", qty |-> 0, filled |-> 0]

(* copy: managed_quantity as the session loaded or changed it.  dirty: it  *)
(* is flushed.  resolved: rows flushed as CANCELLED.  todo: submissions    *)
(* still to be reconciled.                                                 *)
ScanPC == {"idle", "reconcile", "slots", "wallet", "orders", "lot", "posted", "verify"}
Scan == [pc : ScanPC, side : {"BUY", "SELL"}, qty : Nat, todo : SUBSET Orders,
         resolved : SUBSET Orders, copy : Nat \cup {None}, dirty : BOOLEAN,
         off : Nat, order : Orders \cup {None}]
NoScan == [pc |-> "idle", side |-> "BUY", qty |-> 0, todo |-> {}, resolved |-> {},
           copy |-> None, dirty |-> FALSE, off |-> 0, order |-> None]

TypeOK ==
    /\ rows \in [Orders -> RowStatus]
    /\ stock \in Nat \cup {None}
    /\ order \in [Orders -> Order]
    /\ wallet \in Nat
    /\ scan \in [Scans -> Scan]
    /\ guard \in Scans \cup {None}
    /\ blocked \in BOOLEAN /\ overlapped \in BOOLEAN
    /\ writtenOff \in Nat /\ moved \in Nat /\ lost \in Nat
    /\ \A o \in Orders : order[o].filled <= order[o].qty
    /\ \A s \in Scans : guard = s => scan[s].pc \in {"orders", "lot", "posted"}

Init ==
    /\ rows = [o \in Orders |-> "none"]
    /\ stock = None
    /\ order = [o \in Orders |-> NoOrder]
    /\ wallet = Own
    /\ scan = [s \in Scans |-> NoScan]
    /\ guard = None
    /\ blocked = FALSE /\ overlapped = FALSE
    /\ writtenOff = 0 /\ moved = 0 /\ lost = 0

-----------------------------------------------------------------------------
(* What a scan sees, and how it ends.                                      *)

(* Mutant: a submission with an order id does not block.                   *)
PendingWithoutId(s, resolved) == {}

(* SUBMITTED rows, as the scan's transaction sees them.                    *)
Pending(s, resolved) == {o \in Orders : rows[o] = "SUBMITTED"} \ resolved

(* Mutant: the executed quantity of a cancelled order is not examined.     *)
CancelledAnyFill(o) == order[o].state = "cancelled"

ZeroFillCancelled(o) == order[o].state = "cancelled" /\ order[o].filled = 0

(* A row of the history that counts as a fill.  The history is taken to    *)
(* list finished orders; open ones have a list of their own.               *)
FillListed(o) == order[o].state = "filled"

StockLocked(s) == \E t \in Scans \ {s} : scan[t].dirty
RowLocked(s, o) == \E t \in Scans \ {s} : o \in scan[t].resolved

Held(copy) == IF copy = None THEN 0 ELSE copy

(* The item ends: rec's changes are committed, with the row of its order.  *)
End(s, rec, status) ==
    /\ rows' = [o \in Orders |-> IF o \in rec.resolved THEN "CANCELLED"
                                 ELSE IF o = rec.order THEN status ELSE rows[o]]
    /\ stock' = IF rec.dirty THEN rec.copy ELSE stock
    /\ writtenOff' = writtenOff + rec.off
    /\ scan' = [scan EXCEPT ![s] = NoScan]
    /\ guard' = IF guard = s THEN None ELSE guard
    /\ UNCHANGED blocked

(* An error or a block: no row of an order.                                *)
Abandon(s, rec) == End(s, [rec EXCEPT !.order = None], "none")

Stop == blocked' = TRUE /\ UNCHANGED << rows, stock, writtenOff, scan, guard >>

Continue(s, rec) ==
    /\ scan' = [scan EXCEPT ![s] = rec]
    /\ UNCHANGED << rows, stock, writtenOff, guard, blocked >>

(* place_test_spot_market_order takes the reservation or fails.            *)
Reserve(s, rec) ==
    \/ /\ guard = None
       /\ guard' = s
       /\ scan' = [scan EXCEPT ![s] = [rec EXCEPT !.pc = "orders"]]
       /\ UNCHANGED << rows, stock, writtenOff, blocked >>
    \/ guard # None /\ Abandon(s, rec)

-----------------------------------------------------------------------------
(* execute_managed_spot_order                                              *)

(* Mutant: the least quantity counts as dust.                              *)
BuyBlockedAbove(quantity) == quantity > MinQty

(* Only dust may coexist with a new entry.                                 *)
BuyBlocked(quantity) == quantity >= MinQty

(* The inventory is loaded and examined.                                   *)
Examine(s, rec) ==
    LET loaded == [rec EXCEPT !.copy = stock] IN
    \/ /\ rec.side = "BUY" /\ Held(stock) = 0
       /\ Reserve(s, loaded)
    \/ /\ rec.side = "BUY" /\ Held(stock) > 0
       /\ Continue(s, [loaded EXCEPT !.pc = "slots"])
    \/ /\ rec.side = "SELL" /\ rec.qty <= Held(stock)
       /\ Continue(s, [loaded EXCEPT !.pc = "wallet"])
    \/ /\ rec.side = "SELL" /\ rec.qty > Held(stock)
       /\ Abandon(s, loaded)

(* A signal of the preflight: a SELL asks for the managed quantity as the  *)
(* preflight read it, which may be out of date.                            *)
Begin(s, side, qty) ==
    LET rec == [NoScan EXCEPT !.side = side, !.qty = qty] IN
    /\ ~blocked /\ scan[s].pc = "idle"
    /\ side = "BUY" => qty = Qty
    /\ \/ Pending(s, {}) = {} /\ Examine(s, rec)
       \/ /\ Pending(s, {}) # {}
          /\ Continue(s, [rec EXCEPT !.pc = "reconcile", !.todo = Pending(s, {})])
    /\ overlapped' = (overlapped \/ \E t \in Scans \ {s} : scan[t].pc # "idle")
    /\ UNCHANGED << broker, lost >>

(* reconcile_cancelled_submissions: an order's history is read; the row is *)
(* read again and becomes CANCELLED if the order was, without a fill.      *)
(* After the last one the item goes on, unless a submission remains.       *)
Reconcile(s, o) ==
    LET todo == scan[s].todo \ {o}
        Next(rec) ==
            \/ todo # {} /\ Continue(s, rec)
            \/ todo = {} /\ Pending(s, rec.resolved) # {} /\ Abandon(s, rec)
            \/ todo = {} /\ Pending(s, rec.resolved) = {} /\ Examine(s, rec)
    IN
    /\ ~blocked /\ scan[s].pc = "reconcile" /\ o \in scan[s].todo
    /\ \/ Next([scan[s] EXCEPT !.todo = todo])
       \/ /\ ZeroFillCancelled(o) /\ rows[o] = "SUBMITTED"
          /\ IF RowLocked(s, o) THEN Stop
             ELSE Next([scan[s] EXCEPT !.todo = todo, !.resolved = @ \cup {o}])
    /\ UNCHANGED << broker, lost, overlapped >>

(* Lot metadata decide whether the managed quantity is dust.               *)
CheckSlots(s) ==
    LET rec == scan[s] IN
    /\ ~blocked /\ rec.pc = "slots"
    /\ \/ ~BuyBlocked(Held(rec.copy)) /\ Reserve(s, rec)
       \/ Abandon(s, rec)
    /\ UNCHANGED << broker, lost, overlapped >>

(* A SELL is limited to what the wallet holds, and the managed quantity    *)
(* with it; that change is flushed, and committed with the item.           *)
ReadWallet(s) ==
    LET rec == scan[s]
        less == [rec EXCEPT !.copy = wallet, !.dirty = TRUE, !.off = rec.copy - wallet,
                            !.qty = IF wallet < @ THEN wallet ELSE @]
    IN
    /\ ~blocked /\ rec.pc = "wallet"
    /\ \/ wallet >= rec.copy /\ Reserve(s, rec)
       \/ wallet < rec.copy /\ StockLocked(s) /\ Stop
       \/ wallet < rec.copy /\ ~StockLocked(s) /\ wallet > 0 /\ Reserve(s, less)
       \/ wallet < rec.copy /\ ~StockLocked(s) /\ wallet = 0 /\ Abandon(s, less)
    /\ UNCHANGED << broker, lost, overlapped >>

(* Mutant: open orders are not read.                                       *)
NoOpenOrder == FALSE

OpenOrder == \E o \in Orders : order[o].state = "open"

ReadOrders(s) ==
    LET rec == scan[s] IN
    /\ ~blocked /\ rec.pc = "orders"
    /\ IF OpenOrder THEN Abandon(s, rec) ELSE Continue(s, [rec EXCEPT !.pc = "lot"])
    /\ UNCHANGED << broker, lost, overlapped >>

(* With the lot metadata the quantity is checked and the order posted.     *)
Post(s) ==
    LET rec == scan[s] IN
    /\ ~blocked /\ rec.pc = "lot"
    /\ \/ /\ rec.qty < MinQty
          /\ Abandon(s, rec) /\ UNCHANGED broker
       \/ \E o \in Orders :
             /\ rec.qty >= MinQty
             /\ order[o].state = "none" /\ \A p \in Orders : p < o => order[p].state # "none"
             /\ order' = [order EXCEPT ![o] = [state |-> "flight", side |-> rec.side,
                                               qty |-> rec.qty, filled |-> 0]]
             /\ Continue(s, [rec EXCEPT !.pc = "posted", !.order = o])
             /\ UNCHANGED << wallet, moved >>
    /\ UNCHANGED << lost, overlapped >>

(* A read before the post fails.                                           *)
ReadFault(s) ==
    /\ ~blocked /\ scan[s].pc \in {"wallet", "orders", "lot"}
    /\ Abandon(s, scan[s])
    /\ UNCHANGED << broker, lost, overlapped >>

(* Mutant: the reservation is kept while the fill is verified.             *)
AnsweredReserved(s) ==
    LET rec == scan[s] IN
    /\ ~blocked /\ rec.pc = "posted" /\ order[rec.order].state # "flight"
    /\ IF order[rec.order].state = "rejected" THEN Abandon(s, rec)
       ELSE Continue(s, [rec EXCEPT !.pc = "verify"])
    /\ UNCHANGED << broker, lost, overlapped >>

(* The broker has answered: an error, or an accepted order.                *)
Answered(s) ==
    LET rec == scan[s] IN
    /\ ~blocked /\ rec.pc = "posted" /\ order[rec.order].state # "flight"
    /\ \/ order[rec.order].state = "rejected" /\ Abandon(s, rec)
       \/ /\ order[rec.order].state # "rejected"
          /\ scan' = [scan EXCEPT ![s].pc = "verify"]
          /\ guard' = None
          /\ UNCHANGED << rows, stock, writtenOff, blocked >>
    /\ UNCHANGED << broker, lost, overlapped >>

(* The answer is lost: the row says BLOCK, whatever the broker does.       *)
LoseAnswer(s) ==
    /\ ~blocked /\ scan[s].pc = "posted"
    /\ lost < MaxLost /\ lost' = lost + 1
    /\ Abandon(s, scan[s])
    /\ UNCHANGED << broker, overlapped >>

(* Mutant: a fill over dust replaces the managed quantity.                 *)
AppliedAnew(copy, o) ==
    IF order[o].side = "BUY" THEN order[o].filled ELSE Held(copy) - order[o].filled

(* apply_managed_fill                                                      *)
Applied(copy, o) ==
    IF order[o].side = "BUY" THEN Held(copy) + order[o].filled
                             ELSE Held(copy) - order[o].filled

(* The history is read until it shows the outcome; without one, the order  *)
(* stays SUBMITTED.  The fill is applied to the copy.  A first inventory   *)
(* row that another scan has inserted meanwhile is an error that fails the *)
(* scan and leaves no row.                                                 *)
Verify(s) ==
    LET rec == scan[s]
        o == rec.order
    IN
    /\ ~blocked /\ rec.pc = "verify"
    /\ \/ End(s, rec, "SUBMITTED")
       \/ ZeroFillCancelled(o) /\ End(s, rec, "CANCELLED")
       \/ /\ FillListed(o) /\ StockLocked(s) /\ Stop
       \/ /\ FillListed(o) /\ ~StockLocked(s) /\ ~(rec.copy = None /\ stock # None)
          /\ End(s, [rec EXCEPT !.copy = Applied(rec.copy, o), !.dirty = TRUE], "EXECUTED")
       \/ /\ FillListed(o) /\ rec.copy = None /\ stock # None
          /\ Abandon(s, NoScan)
    /\ UNCHANGED << broker, lost, overlapped >>

(* Nothing uncommitted survives; the watchdog restarts a blocked process.  *)
ProcessRestart ==
    /\ lost < MaxLost /\ lost' = lost + 1
    /\ scan' = [s \in Scans |-> NoScan]
    /\ guard' = None
    /\ blocked' = FALSE
    /\ UNCHANGED << rows, stock, writtenOff, broker, overlapped >>

-----------------------------------------------------------------------------
(* The broker and the owner of the account.                                *)

BrokerOnly == UNCHANGED << rows, stock, scan, guard, blocked, writtenOff, lost, overlapped >>

Arrive(o) ==
    /\ order[o].state = "flight"
    /\ \E state \in {"open", "rejected"} : order' = [order EXCEPT ![o].state = state]
    /\ BrokerOnly /\ UNCHANGED << wallet, moved >>

Fill(o) ==
    /\ order[o].state = "open"
    /\ order[o].side = "SELL" => wallet > 0
    /\ order' = [order EXCEPT ![o].filled = @ + 1,
                              ![o].state = IF order[o].filled + 1 = order[o].qty
                                           THEN "filled" ELSE "open"]
    /\ wallet' = IF order[o].side = "BUY" THEN wallet + 1 ELSE wallet - 1
    /\ BrokerOnly /\ UNCHANGED moved

(* What a market order could not fill is cancelled.                        *)
Cancel(o) ==
    /\ order[o].state = "open"
    /\ order' = [order EXCEPT ![o].state = "cancelled"]
    /\ BrokerOnly /\ UNCHANGED << wallet, moved >>

Transfer ==
    /\ wallet > 0
    /\ moved < MaxTransfers /\ moved' = moved + 1
    /\ wallet' = wallet - 1
    /\ BrokerOnly /\ UNCHANGED order

-----------------------------------------------------------------------------
ScanStep ==
    \E s \in Scans :
        \/ \E side \in {"BUY", "SELL"}, qty \in 1 .. Qty + MinQty - 1 : Begin(s, side, qty)
        \/ \E o \in Orders : Reconcile(s, o)
        \/ CheckSlots(s) \/ ReadWallet(s) \/ ReadOrders(s) \/ Post(s) \/ ReadFault(s)
        \/ Answered(s) \/ LoseAnswer(s) \/ Verify(s)

Broker == Transfer \/ \E o \in Orders : Arrive(o) \/ Fill(o) \/ Cancel(o)

Next == ScanStep \/ Broker \/ ProcessRestart

Spec == Init /\ [][Next]_vars

-----------------------------------------------------------------------------
(* Safety.                                                                 *)

(* Units bought less units sold: but for fills, the wallet changes only    *)
(* when the owner moves coins.                                             *)
Net == wallet + moved - Own

Nothing(o) == order[o].filled = 0 /\ order[o].state # "open"   \* nor will it fill

(* A row is CANCELLED only if its order was, without a fill, and EXECUTED  *)
(* only if it filled: a late or foreign history row never decides it.      *)
OutcomeIsTrue ==
    \A o \in Orders :
        /\ rows[o] = "CANCELLED" => order[o].state = "cancelled" /\ order[o].filled = 0
        /\ rows[o] = "EXECUTED" => order[o].filled > 0

(* At most one order is with the broker and unfinished, for as long as no  *)
(* answer is lost: the reservation covers the read of the open orders.     *)
OneOpenOrder ==
    lost = 0 => Cardinality({o \in Orders : order[o].state \in {"flight", "open"}}) <= 1

(* The rows and the broker agree, with any number of scans.                *)
RowsAgree == TypeOK /\ OutcomeIsTrue /\ OneOpenOrder

(* What the rest rests on: scans follow one another on the symbol, and     *)
(* each hears what became of its order.                                    *)
Undisturbed == lost = 0 /\ ~overlapped

(* No order is placed while another may fill, or has, and no row says so.  *)
OneUnresolvedOrder ==
    Undisturbed => Cardinality({o \in Orders : ~Nothing(o) /\ rows[o] # "EXECUTED"}) <= 1

(* ATLAS never sells more than it bought: not the owner's units.           *)
SellsOnlyManaged == Net >= 0

(* It does not while scans follow one another, whatever is filled in part, *)
(* cancelled, left as dust or moved out of the wallet.                     *)
ScansInTurnSellOnlyManaged == Undisturbed => SellsOnlyManaged

(* A BUY is added to dust only.                                            *)
OneEntry == Undisturbed => Net - writtenOff < Qty + MinQty

(* With every outcome recorded, the managed quantity is what the orders    *)
(* filled, less what the wallet turned out not to hold.                    *)
StockIsExact ==
    (Undisturbed /\ \A o \in Orders : Nothing(o) \/ rows[o] = "EXECUTED")
        => Held(stock) = Net - writtenOff

=============================================================================
