-------------------------------- MODULE Mt5 --------------------------------
(***************************************************************************)
(* MT5 Demo entries and exits: scans (safe_automation.py), the position    *)
(* manager (mt5_position_manager.py), the certification script, and the    *)
(* terminal behind one of two bridges: tools/mt5_bridge.py, which reports  *)
(* a failed read as an empty list, or the Windows node, which reports an   *)
(* error.  There is no intent: a row is written after the answer.          *)
(*                                                                         *)
(* An action of a worker is the code between two awaits.  An order is also *)
(* the ticket of the position it opens.                                    *)
(***************************************************************************)
EXTENDS Integers, FiniteSets, FiniteSetsExt

CONSTANTS
    Symbols,
    Scans,       \* run_safe_scan: the loop's, and one by scan-now
    Cert,        \* the certification script: a process of its own
    Manager,     \* the position manager
    ToolsCrews, WindowsCrews,  \* sets of workers that run together, by bridge
    MaxOrders,   \* orders ever posted (bounds the history)
    MaxFaults,   \* bound on lost answers, restarts and masked reads
    MaxControls, \* bound on uses of the kill switch
    None

ASSUME NameAssumption == Cert \notin Scans /\ Manager \notin Scans \cup {Cert}
                        /\ None \notin Scans \cup Symbols \cup {Cert, Manager} \cup Nat
ASSUME CrewAssumption ==
    ToolsCrews \cup WindowsCrews \subseteq SUBSET (Scans \cup {Cert, Manager})
ASSUME BoundAssumption == MaxOrders \in Nat /\ MaxFaults \in Nat /\ MaxControls \in Nat

Orders == 1 .. MaxOrders
Setups == ({"tools"} \X ToolsCrews) \cup ({"windows"} \X WindowsCrews)
Workers == Scans \cup {Cert}

VARIABLES
    node,     \* the bridge in use
    crew,     \* the workers of this behaviour
    killed,
    order, pos, \* the terminal: what became of each order, and its position
    entry,    \* committed audit row of each order
    work,     \* scans and the script
    guard,    \* reserve_execution of the process, per symbol
    pm,       \* the position manager
    close,    \* the last close of the manager and of the script
    excuse,   \* history: why a symbol may have got a second entry
    owed,     \* confirmed closes whose EXIT_EXECUTED row is neither committed nor rolled back
    faults, controls

broker == << order, pos >>
records == << entry, owed >>
vars == << node, crew, killed, order, pos, entry, work, guard, pm, close, excuse,
           owed, faults, controls >>

-----------------------------------------------------------------------------
OrderState == {"none", "flight", "DONE", "PARTIAL", "PLACED", "REJECT"}
PosState == {"none", "opening", "open", "leaving", "closed"}
Order == [state : OrderState, sym : Symbols \cup {None}, by : Workers \cup {None}]
NoOrder == [state |-> "none", sym |-> None, by |-> None]

WorkPC == {"idle", "items", "reads", "check", "positions2", "orders2", "post",
           "posted", "find", "close", "closed", "passed", "failed"}
Work == [pc : WorkPC, todo : SUBSET Symbols, sym : Symbols \cup {None},
         before : SUBSET Orders, order : Orders \cup {None}]
NoWork == [pc |-> "idle", todo |-> {}, sym |-> None, before |-> {}, order |-> None]

PmPC == {"idle", "evaluate", "items", "positions", "closing"}
Pm == [pc : PmPC, todo : SUBSET Orders, ticket : Orders \cup {None}, rows : SUBSET Orders]
NoPass == [pc |-> "idle", todo |-> {}, ticket |-> None, rows |-> {}]

\* Only these are told apart: no excuse, a lost answer, and the other reasons of OneEntry.
Excuses == {"no", "lost", "other"}
CloseState == {"none", "flight", "DONE", "PARTIAL", "PLACED", "REJECT"}
NoClose == [ticket |-> None, state |-> "none"]

TypeOK ==
    /\ << node, crew >> \in Setups
    /\ killed \in BOOLEAN
    /\ order \in [Orders -> Order]
    /\ pos \in [Orders -> PosState]
    /\ entry \in [Orders -> {"none", "EXECUTED", "BLOCK"}]
    /\ owed \subseteq Orders
    /\ work \in [Workers -> Work]
    /\ guard \in [Symbols -> Scans \cup {None}]
    /\ pm \in Pm
    /\ close \in [{Manager, Cert} -> [ticket : Orders \cup {None}, state : CloseState]]
    /\ excuse \in [Symbols -> Excuses]
    /\ faults \in Nat /\ controls \in Nat
    /\ \A s \in Symbols : guard[s] # None =>
           work[guard[s]].pc \in {"positions2", "orders2", "post", "posted"}

Init ==
    /\ \E setup \in Setups : node = setup[1] /\ crew = setup[2]
    /\ killed = FALSE
    /\ order = [o \in Orders |-> NoOrder]
    /\ pos = [o \in Orders |-> "none"]
    /\ entry = [o \in Orders |-> "none"]
    /\ owed = {}
    /\ work = [w \in Workers |-> NoWork]
    /\ guard = [s \in Symbols |-> None]
    /\ pm = NoPass
    /\ close = [c \in {Manager, Cert} |-> NoClose]
    /\ excuse = [s \in Symbols |-> "no"]
    /\ faults = 0 /\ controls = 0

-----------------------------------------------------------------------------
(* What the terminal shows, and what the bridges make of it.               *)
Tickets == {o \in Orders : pos[o] \in {"open", "leaving"}}
Pending == {o \in Orders : order[o].state = "PLACED" /\ pos[o] = "none"}
Of(os, s) == {o \in os : order[o].sym = s}

(* A failed read of the terminal is an empty list on one node and an error *)
(* (ReadFault) on the other.                                               *)
ToolsMask == node = "tools" /\ faults < MaxFaults

\* Results of the terminal that a bridge reports as success.
ToolsSuccess == {"DONE", "PLACED"}
WindowsSuccess == {"DONE", "PARTIAL", "PLACED"}
Success == IF node = "tools" THEN ToolsSuccess ELSE WindowsSuccess

-----------------------------------------------------------------------------
(* Scans, and place_demo_order, which the script calls as well.            *)
To(w, pc) == work' = [work EXCEPT ![w].pc = pc]
Excuse(s) == excuse' = [excuse EXCEPT ![s] = IF @ = "lost" THEN @ ELSE "other"]
Release(w) == guard' = [s \in Symbols |-> IF guard[s] = w THEN None ELSE guard[s]]

\* Mutant of Leave: the reservation is not given back.
LeaveHolding(w) ==
    /\ work' = [work EXCEPT ![w] = IF w = Cert THEN [@ EXCEPT !.pc = "failed"]
                                  ELSE [NoWork EXCEPT !.pc = "items", !.todo = work[w].todo]]
    /\ UNCHANGED guard

\* An item is finished: the scan goes on to the next; the script gives up.
Leave(w) ==
    /\ work' = [work EXCEPT ![w] = IF w = Cert THEN [@ EXCEPT !.pc = "failed"]
                                  ELSE [NoWork EXCEPT !.pc = "items", !.todo = work[w].todo]]
    /\ Release(w)

\* Mutant of BeginScan: the loop does not look at the kill switch.
BeginScanKilled(w) ==
    /\ w \in crew \ {Cert} /\ work[w].pc = "idle"
    /\ work' = [work EXCEPT ![w] = [NoWork EXCEPT !.pc = "items", !.todo = Symbols]]
    /\ UNCHANGED << node, crew, killed, broker, records, guard, pm, close, excuse, faults, controls >>

\* Controls are read when the scan starts.
BeginScan(w) ==
    /\ w \in crew \ {Cert} /\ work[w].pc = "idle" /\ ~killed
    /\ work' = [work EXCEPT ![w] = [NoWork EXCEPT !.pc = "items", !.todo = Symbols]]
    /\ UNCHANGED << node, crew, killed, broker, records, guard, pm, close, excuse, faults, controls >>

NextItem(w) ==
    /\ work[w].pc = "items"
    /\ \/ /\ work[w].todo = {} /\ work' = [work EXCEPT ![w] = NoWork]
       \/ \E s \in work[w].todo : work' = [work EXCEPT
              ![w].todo = @ \ {s}, ![w].sym = s, ![w].pc = "reads", ![w].order = None]
       \/ \E s \in work[w].todo : work' = [work EXCEPT ![w].todo = @ \ {s}]  \* no signal, blocked
    /\ UNCHANGED << node, crew, killed, broker, records, guard, pm, close, excuse, faults, controls >>

BeginCert ==
    /\ Cert \in crew /\ work[Cert].pc = "idle"
    /\ \E s \in Symbols : work' = [work EXCEPT ![Cert].sym = s, ![Cert].pc = "reads"]
    /\ UNCHANGED << node, crew, killed, broker, records, guard, pm, close, excuse, faults, controls >>

(* The reads before the reservation: _execute_mt5 refuses a symbol that is *)
(* in use, the script notes the tickets there are.  One step: the reads    *)
(* under the reservation, a step each, are what decides.                   *)
Preliminary(w) ==
    /\ work[w].pc = "reads"
    /\ IF w = Cert
       THEN work' = [work EXCEPT ![w].pc = "check", ![w].before = Tickets] /\ UNCHANGED guard
       ELSE IF Of(Tickets \cup Pending, work[w].sym) = {}
            THEN To(w, "check") /\ UNCHANGED guard
            ELSE Leave(w)
    /\ UNCHANGED << node, crew, killed, broker, records, pm, close, excuse, faults, controls >>

\* Mutant of ReserveSymbol: a reservation that is held does not stop a scan.
ReserveAlways(w) ==
    /\ work[w].pc = "check" /\ To(w, "positions2")
    /\ guard' = IF w = Cert THEN guard ELSE [guard EXCEPT ![work[w].sym] = w]
    /\ UNCHANGED << node, crew, killed, broker, records, pm, close, excuse, faults, controls >>

\* order_check has passed and place_demo_order takes the reservation, unless it is held.
ReserveSymbol(w) ==
    /\ work[w].pc = "check"
    /\ IF w = Cert THEN To(w, "positions2") /\ UNCHANGED guard
       ELSE IF guard[work[w].sym] = None
            THEN To(w, "positions2") /\ guard' = [guard EXCEPT ![work[w].sym] = w]
            ELSE Leave(w)
    /\ UNCHANGED << node, crew, killed, broker, records, pm, close, excuse, faults, controls >>

\* A worker whose reads of the symbol will decide about a post.
Deciding(w, s) == work[w].sym = s /\ work[w].pc \in {"positions2", "orders2", "post"}

\* A read of positions misses an order whose position does not show yet, or that another
\* process has on its way.
Unseen(s) == \E o \in Orders : order[o].sym = s /\ (pos[o] = "opening" \/ order[o].state = "flight")

RereadPositions(w) ==
    LET s == work[w].sym IN
    /\ work[w].pc = "positions2"
    /\ \/ /\ Of(Tickets, s) = {}
          /\ To(w, "orders2") /\ UNCHANGED << guard, faults >>
          /\ IF Unseen(s) THEN Excuse(s) ELSE UNCHANGED excuse
       \/ Of(Tickets, s) # {} /\ Leave(w) /\ UNCHANGED << excuse, faults >>
       \/ /\ Of(Tickets, s) # {} /\ ToolsMask
          /\ To(w, "orders2") /\ Excuse(s) /\ faults' = faults + 1 /\ UNCHANGED guard
    /\ UNCHANGED << node, crew, killed, broker, records, pm, close, controls >>

RereadOrders(w) ==
    LET s == work[w].sym IN
    /\ work[w].pc = "orders2"
    /\ \/ Of(Pending, s) = {} /\ To(w, "post") /\ UNCHANGED << guard, excuse, faults >>
       \/ Of(Pending, s) # {} /\ Leave(w) /\ UNCHANGED << excuse, faults >>
       \/ /\ Of(Pending, s) # {} /\ ToolsMask
          /\ To(w, "post") /\ Excuse(s) /\ faults' = faults + 1 /\ UNCHANGED guard
    /\ UNCHANGED << node, crew, killed, broker, records, pm, close, controls >>

PostOrder(w) ==
    LET s == work[w].sym IN
    /\ work[w].pc = "post"
    /\ \E o \in Orders :
        /\ order[o] = NoOrder /\ \A p \in 1 .. o - 1 : order[p] # NoOrder
        /\ order' = [order EXCEPT ![o] = [state |-> "flight", sym |-> s, by |-> w]]
        /\ work' = [work EXCEPT ![w].pc = "posted", ![w].order = o]
    /\ IF \E v \in Workers \ {w} : Deciding(v, s) /\ Cert \in {v, w}
       THEN Excuse(s) ELSE UNCHANGED excuse
    /\ UNCHANGED << node, crew, killed, pos, records, guard, pm, close, faults, controls >>

\* Mutants of RecordedAs: an error counts as executed; only a success gets a row.
RecordedExecuted(code) == "EXECUTED"
RecordedIfSuccess(code) == IF code \in Success THEN "EXECUTED" ELSE "none"
\* The answer: EXECUTED for every result the bridge passes on, BLOCK for an error.
RecordedAs(code) == IF code \in Success THEN "EXECUTED" ELSE "BLOCK"
\* The script goes on with a deal only.
CertAccepts(code) == code = "DONE"

Answered(w) ==
    LET o == work[w].order  code == order[o].state IN
    /\ work[w].pc = "posted" /\ code # "flight"
    /\ IF w = Cert
       THEN /\ To(w, IF CertAccepts(code) THEN "find" ELSE "failed")
            /\ UNCHANGED << entry, guard >>
       ELSE Leave(w) /\ entry' = [entry EXCEPT ![o] = RecordedAs(code)]
    /\ UNCHANGED << node, crew, killed, broker, owed, pm, close, excuse, faults, controls >>

\* The answer is lost (a timeout): run_safe_scan records a block.
LoseAnswer(w) ==
    LET o == work[w].order IN
    /\ work[w].pc = "posted" /\ faults < MaxFaults
    /\ Leave(w)
    /\ entry' = [entry EXCEPT ![o] = IF w = Cert THEN @ ELSE "BLOCK"]
    /\ excuse' = [excuse EXCEPT ![order[o].sym] = "lost"]
    /\ faults' = faults + 1
    /\ UNCHANGED << node, crew, killed, broker, owed, pm, close, controls >>

\* A read or a check fails before the post: a BLOCK row without an order.
ReadFault(w) ==
    /\ work[w].pc \in {"reads", "check", "positions2", "orders2", "find", "closed"}
    /\ Leave(w)
    /\ UNCHANGED << node, crew, killed, broker, records, pm, close, excuse, faults, controls >>

(* The script: find the new ticket, close it, wait until it is gone.       *)
NewTickets == Of(Tickets, work[Cert].sym) \ work[Cert].before

CertFind ==
    /\ work[Cert].pc = "find" /\ \E t \in NewTickets :
        /\ close' = [close EXCEPT ![Cert] = [ticket |-> t, state |-> "flight"]]
        /\ To(Cert, "close")
    /\ UNCHANGED << node, crew, killed, broker, records, guard, pm, excuse, faults, controls >>

CertClosed ==
    /\ work[Cert].pc = "close" /\ close[Cert].state # "flight"
    /\ To(Cert, IF close[Cert].state = "DONE" THEN "closed" ELSE "failed")
    /\ UNCHANGED << node, crew, killed, broker, records, guard, pm, close, excuse, faults, controls >>

\* Mutant of CertFlat: the deal of the close is taken as the end of the position.
CertFlatSent(t) == t \in Orders
\* A masked read of this kind reports the position closed.
CertFlat(t) == t \notin Tickets

CertPass ==
    /\ work[Cert].pc = "closed"
    /\ \/ CertFlat(close[Cert].ticket) /\ UNCHANGED << excuse, faults >>
       \/ ToolsMask /\ faults' = faults + 1 /\ Excuse(work[Cert].sym)
    /\ To(Cert, "passed")
    /\ UNCHANGED << node, crew, killed, broker, records, guard, pm, close, controls >>

-----------------------------------------------------------------------------
(* The position manager.  What a pass records is committed at its end.     *)
BeginPass ==
    /\ Manager \in crew /\ pm.pc = "idle" /\ ~killed
    /\ pm' = [NoPass EXCEPT !.pc = "evaluate"]
    /\ UNCHANGED << node, crew, killed, broker, records, work, guard, close, excuse, faults, controls >>

\* ATLAS's own, with broker-held stops: positions of scans.
Eligible == {t \in Tickets : order[t].by # Cert}

\* Errors of a profile leave it without items.
Evaluate ==
    /\ pm.pc = "evaluate"
    /\ \E signals \in SUBSET Eligible : pm' = [pm EXCEPT !.pc = "items", !.todo = signals]
    /\ UNCHANGED << node, crew, killed, broker, records, work, guard, close, excuse, faults, controls >>

\* The next item, once /health has answered; a terminal that does not trade, or a server
\* that is not a demo, makes it an EXIT_BLOCKED row.
NextExit ==
    /\ pm.pc = "items"
    /\ \E t \in pm.todo : \E pc \in {"positions", "items"} :
           pm' = [pm EXCEPT !.pc = pc, !.todo = @ \ {t},
                            !.ticket = IF pc = "items" THEN None ELSE t]
    /\ UNCHANGED << node, crew, killed, broker, records, work, guard, close, excuse, faults, controls >>

Found(t) == t \in Tickets

ExitPositions ==
    /\ pm.pc = "positions"
    /\ \/ /\ Found(pm.ticket)
          /\ pm' = [pm EXCEPT !.pc = "closing"]
          /\ close' = [close EXCEPT ![Manager] = [ticket |-> pm.ticket, state |-> "flight"]]
          /\ UNCHANGED faults
       \/ /\ ~Found(pm.ticket) /\ pm' = [pm EXCEPT !.pc = "items", !.ticket = None]
          /\ UNCHANGED << close, faults >>
       \/ /\ ToolsMask /\ pm' = [pm EXCEPT !.pc = "items", !.ticket = None]
          /\ faults' = faults + 1 /\ UNCHANGED close
    /\ UNCHANGED << node, crew, killed, broker, records, work, guard, excuse, controls >>

\* Mutant of ExitAnswered: only a deal gets its row.
ExitAnsweredDeal ==
    /\ pm.pc = "closing" /\ close[Manager].state \in Success
    /\ pm' = [pm EXCEPT !.pc = "items", !.ticket = None, !.rows = @ \cup
                         (IF close[Manager].state = "DONE" THEN {pm.ticket} ELSE {})]
    /\ close' = [close EXCEPT ![Manager] = NoClose]
    /\ UNCHANGED << node, crew, killed, broker, records, work, guard, excuse, faults, controls >>

ExitAnswered ==
    /\ pm.pc = "closing" /\ close[Manager].state \in Success
    /\ pm' = [pm EXCEPT !.pc = "items", !.rows = @ \cup {pm.ticket}, !.ticket = None]
    /\ close' = [close EXCEPT ![Manager] = NoClose]
    /\ UNCHANGED << node, crew, killed, broker, records, work, guard, excuse, faults, controls >>

EndPass ==
    /\ pm.pc = "items" /\ pm.todo = {}
    /\ owed' = owed \ pm.rows
    /\ pm' = NoPass
    /\ UNCHANGED << node, crew, killed, broker, entry, work, guard, close, excuse, faults,
                    controls >>

\* An exception rolls back the rows of every item of the pass.
Failing == \/ pm.pc = "positions"
           \/ pm.pc = "closing" /\ close[Manager].state \notin Success \cup {"flight"}
           \/ pm.pc = "closing" /\ faults < MaxFaults

FailPass ==
    /\ Failing
    /\ owed' = {} /\ pm' = NoPass
    /\ close' = [close EXCEPT ![Manager] = IF @.state = "flight" THEN @ ELSE NoClose]
    /\ faults' = IF pm.pc = "closing" /\ close[Manager].state \in Success \cup {"flight"}
                 THEN faults + 1 ELSE faults
    /\ UNCHANGED << node, crew, killed, broker, entry, work, guard, excuse, controls >>

-----------------------------------------------------------------------------
(* The operator, the process, and the terminal.                            *)
Kill ==
    /\ controls < MaxControls
    /\ killed' = ~killed /\ controls' = controls + 1
    /\ UNCHANGED << node, crew, broker, records, work, guard, pm, close, excuse, faults >>

ProcessRestart ==
    /\ faults < MaxFaults
    /\ faults' = faults + 1
    /\ work' = [w \in Workers |-> IF w = Cert THEN work[w] ELSE NoWork]
    /\ guard' = [s \in Symbols |-> None]
    /\ owed' = {} /\ pm' = NoPass
    /\ excuse' = [s \in Symbols |->
           IF \E w \in Scans : work[w].pc = "posted" /\ work[w].sym = s
           THEN "lost" ELSE excuse[s]]
    /\ UNCHANGED << node, crew, killed, broker, entry, close, controls >>

\* A bridge refuses (wrong account, trading off, order_check) or sends the order.
OrderArrives(o) ==
    /\ order[o].state = "flight"
    /\ \E code \in {"DONE", "PARTIAL", "PLACED", "REJECT"} :
        /\ order' = [order EXCEPT ![o].state = code]
        /\ pos' = [pos EXCEPT ![o] = IF code \in {"DONE", "PARTIAL"} THEN "opening" ELSE @]
    /\ UNCHANGED << node, crew, killed, records, work, guard, pm, close, excuse, faults, controls >>

\* The terminal shows a position, or drops one, some time after the deal.
Show(o) ==
    /\ \/ pos[o] = "opening" /\ pos' = [pos EXCEPT ![o] = "open"]
       \/ pos[o] = "leaving" /\ pos' = [pos EXCEPT ![o] = "closed"]
    /\ UNCHANGED << node, crew, killed, order, records, work, guard, pm, close, excuse, faults, controls >>

\* A placed order fills, or is cancelled without a position.
Settle(o) ==
    LET s == order[o].sym IN
    /\ o \in Pending
    /\ \/ /\ pos' = [pos EXCEPT ![o] = "open"]
          /\ IF \E w \in Workers : work[w].sym = s /\ work[w].pc = "orders2"
             THEN Excuse(s) ELSE UNCHANGED excuse
       \/ pos' = [pos EXCEPT ![o] = "closed"] /\ UNCHANGED excuse
    /\ UNCHANGED << node, crew, killed, order, records, work, guard, pm, close, faults, controls >>

CloseArrives(c) ==
    LET t == close[c].ticket
        waits == c = Cert \/ pm.pc = "closing"
    IN
    /\ close[c].state = "flight"
    /\ \E code \in IF t \in Tickets THEN {"DONE", "PARTIAL", "PLACED", "REJECT"} ELSE {"REJECT"} :
        /\ close' = [close EXCEPT ![c] = IF waits THEN [@ EXCEPT !.state = code] ELSE NoClose]
        /\ pos' = [pos EXCEPT ![t] = IF code = "DONE" THEN "leaving" ELSE @]
        /\ owed' = IF c = Manager /\ waits /\ code \in Success THEN owed \cup {t} ELSE owed
    /\ UNCHANGED << node, crew, killed, order, entry, work, guard, pm, excuse, faults,
                    controls >>

\* A stop, a target, the owner, or a placed close ends a position.
BrokerCloses(o) ==
    /\ pos[o] = "open" /\ pos' = [pos EXCEPT ![o] = "closed"]
    /\ UNCHANGED << node, crew, killed, order, records, work, guard, pm, close, excuse, faults, controls >>

-----------------------------------------------------------------------------
ScanStep(w) ==
    \/ NextItem(w) \/ Preliminary(w) \/ ReserveSymbol(w) \/ RereadPositions(w)
    \/ RereadOrders(w) \/ PostOrder(w) \/ Answered(w)
CertStep == BeginCert \/ CertFind \/ CertClosed \/ CertPass
PmStep == Evaluate \/ NextExit \/ ExitPositions \/ ExitAnswered \/ EndPass
Terminal ==
    \/ \E o \in Orders : OrderArrives(o) \/ Show(o) \/ Settle(o) \/ BrokerCloses(o)
    \/ \E c \in {Manager, Cert} : CloseArrives(c)

Next ==
    \/ \E w \in Workers : BeginScan(w) \/ ScanStep(w) \/ LoseAnswer(w) \/ ReadFault(w)
    \/ CertStep
    \/ BeginPass \/ PmStep \/ FailPass
    \/ Kill \/ ProcessRestart
    \/ Terminal

Spec == Init /\ [][Next]_vars

(* Loops run while the process does, calls have timeouts, and a request    *)
(* that was sent arrives.  No pass has to start.                           *)
FairSpec ==
    /\ Spec
    /\ \A w \in Scans : WF_vars(ScanStep(w))
    /\ WF_vars(PmStep \/ FailPass)
    /\ WF_vars(\E o \in Orders : OrderArrives(o))
    /\ WF_vars(CloseArrives(Manager))
-----------------------------------------------------------------------------
Live(o) == \/ order[o].state \in {"flight", "PLACED"} /\ pos[o] = "none"
           \/ pos[o] \in {"opening", "open", "leaving"}

(* The same-symbol guard of place_demo_order (brokers/mt5_bridge.py:40-47) *)
(* allows one live entry per symbol, unless an answer was lost, a read was *)
(* masked, a placed order filled between the two reads or showed late, or  *)
(* the script, which has its own reservations, crossed a scan.             *)
OneEntry == \A s \in Symbols :
    excuse[s] = "no" => Cardinality({o \in Orders : order[o].sym = s /\ Live(o)}) <= 1

(* An EXECUTED row is an order the terminal took; a BLOCK row with an order *)
(* behind it is one that was refused, unless its answer was lost, or it was *)
(* filled in part and the tools bridge reported that as an error.           *)
OutcomeIsTrue == \A o \in Orders :
    /\ entry[o] = "EXECUTED" =>
           order[o].state \in {"DONE", "PARTIAL", "PLACED"}
    /\ entry[o] = "BLOCK" /\ excuse[order[o].sym] # "lost" =>
           \/ order[o].state = "REJECT"
           \/ node = "tools" /\ order[o].state = "PARTIAL"

(* A close the bridge confirmed gets its row, unless the pass fails, which *)
(* rolls it back (mt5_position_manager.py:124-136, 149-150).               *)
ExitIsRecorded == owed \subseteq pm.rows \cup (IF pm.pc = "closing" THEN {pm.ticket} ELSE {})

(* The script reports PASS only with its position gone, unless something   *)
(* came between its own reads.                                             *)
CertifiedMeansFlat == work[Cert].pc = "passed" /\ excuse[work[Cert].sym] = "no" =>
    pos[work[Cert].order] = "closed"

(* An order of a scan has its row, or the scan still waits for the answer, *)
(* or the process stopped while it did.                                    *)
EveryOrderHasARow == \A o \in Orders : order[o].by \in Scans =>
    \/ entry[o] # "none"
    \/ work[order[o].by].pc = "posted" /\ work[order[o].by].order = o
    \/ excuse[order[o].sym] = "lost"

(* The rows of entries and exits agree with the terminal.                  *)
RowsAgree == TypeOK /\ OutcomeIsTrue /\ EveryOrderHasARow /\ ExitIsRecorded

(* A kill switch that stays on ends scans and passes for good, although it *)
(* is read at their start only (safe_automation.py:430): each is finite.   *)
Exhausted == \A o \in Orders : order[o] # NoOrder
KillTakesHold == <>[]killed =>
    <>[](pm.pc = "idle" /\ \A w \in Scans : work[w].pc = "idle" \/ Exhausted)

=============================================================================
