--------------------------- MODULE IbkrProtection ---------------------------
(***************************************************************************)
(* Broker-held protection of IBKR Paper positions, switched on: a filled   *)
(* entry gets a stop and a target in one OCA group, placed by the bridge   *)
(* (tools/ibkr_bridge.py) on behalf of the scan that opened the position   *)
(* or of the position manager (ibkr_position_manager.py), which also       *)
(* records the exits the pair makes.                                       *)
(*                                                                         *)
(* The application and the bridge are two processes.  In the application   *)
(* an action is the code between two awaits; in the bridge, the code       *)
(* between two answers of the broker.  Sessions neither flush by           *)
(* themselves nor expire what they loaded (db/session.py), so a worker     *)
(* may write back an old copy of a row.                                    *)
(*                                                                         *)
(* Abstracted: one symbol, entries that buy one unit, no partial fills;    *)
(* the operator only flattens; the entry workflow of IbkrLifecycle is two  *)
(* steps.  Left out: stops staged by an earlier release (transmit=false).  *)
(***************************************************************************)
EXTENDS Integers

CONSTANTS
    MaxEntries,   \* entries, one after the other (bounds the history)
    MaxFaults,    \* bound on lost answers, failed reads, restarts, manual closes
    None          \* NULL

ASSUME EntriesAssumption == MaxEntries \in Nat \ {0}
ASSUME FaultsAssumption == MaxFaults \in Nat
ASSUME NoneAssumption ==
    None \notin Nat \cup {"scan", "pm", "SUBMITTING", "PROTECTION_PENDING", "PROTECTED"}

Entries == 1 .. MaxEntries
Workers == {"scan", "pm"}

VARIABLES
    rows,       \* committed audit rows of the entries
    pair,       \* protective orders of each entry, as the broker holds them
    placed,     \* history: protective orders ever placed for each entry
    entry,      \* broker state of each entry order
    position,   \* units held; negative if a close went too far
    scan,       \* the scan's program state
    pm,         \* the position manager's program state
    guard,      \* reserve_execution: the worker that holds the symbol
    bridge,     \* the bridge's mutation handler
    attempts,   \* ib.protection_attempts, in the bridge's memory
    faults

vars == << rows, pair, placed, entry, position, scan, pm, guard, bridge,
           attempts, faults >>
broker == << pair, placed, entry, position >>

-----------------------------------------------------------------------------
(* prot: native_protection.status.  ids: the saved order identities.       *)
(* proof: saved priced executions, or the priced status of a verified fill.*)
(* oid: the entry's order id is saved.                                     *)
(* newer: for a recorded exit, the entries that sort after it.             *)
Protection == {None, "SUBMITTING", "PRE_SUBMISSION_BLOCKED",
               "PROTECTION_PENDING", "PROTECTED"}
Raw == [prot : Protection, ids : BOOLEAN, proof : BOOLEAN]
NoRaw == [prot |-> None, ids |-> FALSE, proof |-> FALSE]
Row == [status : {"UNUSED", "SUBMITTED", "EXECUTED"}, oid : BOOLEAN, raw : Raw,
        exited : BOOLEAN, newer : SUBSET Entries]
NoRow == [status |-> "UNUSED", oid |-> FALSE, raw |-> NoRaw, exited |-> FALSE,
          newer |-> {}]

LegState == {"none", "sent", "live", "filled", "gone"}
Legs == {"stop", "target"}

(* call: in ensure_protection, before the post; wait: after it.            *)
ScanPC == {"idle", "verify", "call", "wait"}
Scan == [pc : ScanPC, e : Entries \cup {None}]
NoScan == [pc |-> "idle", e |-> None]

(* seen: the entries whose rows are older than the pass's transaction.     *)
(* fills, closes: executions it read.  dirty: entries it reconciled and    *)
(* has not committed.  copy: raw_json as loaded; wrote: changed since.     *)
PmPC == {"idle", "executions", "positions", "status", "call", "wait"}
Pass == [pc : PmPC, seen : SUBSET Entries, fills : SUBSET Entries,
         closes : SUBSET Entries, dirty : SUBSET Entries,
         e : Entries \cup {None}, copy : Raw, wrote : BOOLEAN, allow : BOOLEAN]
NoPass == [pc |-> "idle", seen |-> {}, fills |-> {}, closes |-> {}, dirty |-> {},
           e |-> None, copy |-> NoRaw, wrote |-> FALSE, allow |-> FALSE]

BridgePC == {"idle", "positions", "orders", "positions2", "orders2", "stop",
             "positions3", "target", "verify", "answer"}
Answers == {None, "PROTECTED", "PENDING", "refused", "busy"}
Bridge == [pc : BridgePC, owner : Workers \cup {None}, e : Entries \cup {None},
           allow : BOOLEAN, answer : Answers]
NoRequest == [pc |-> "idle", owner |-> None, e |-> None, allow |-> FALSE,
              answer |-> None]

TypeOK ==
    /\ rows \in [Entries -> Row]
    /\ pair \in [Entries -> [Legs -> LegState]]
    /\ placed \in [Entries -> Nat]
    /\ entry \in [Entries -> {"none", "open", "filled", "forgotten"}]
    /\ position \in Int
    /\ scan \in Scan
    /\ pm \in Pass
    /\ guard \in Workers \cup {None}
    /\ bridge \in Bridge
    /\ attempts \subseteq Entries
    /\ faults \in Nat
    /\ guard = "scan" => scan.pc \in {"call", "wait"}
    /\ guard = "pm" => pm.pc \in {"call", "wait"}

Init ==
    /\ rows = [e \in Entries |-> NoRow]
    /\ pair = [e \in Entries |-> [l \in Legs |-> "none"]]
    /\ placed = [e \in Entries |-> 0]
    /\ entry = [e \in Entries |-> "none"]
    /\ position = 0
    /\ scan = NoScan
    /\ pm = NoPass
    /\ guard = None
    /\ bridge = NoRequest
    /\ attempts = {}
    /\ faults = 0

CountFault == faults < MaxFaults /\ faults' = faults + 1

-----------------------------------------------------------------------------
(* What the workers read.                                                  *)

OpenLeg(e, l) == pair[e][l] \in {"sent", "live"}
OpenLegs(e) == {l \in Legs : OpenLeg(e, l)}
OpenOrders == {e \in Entries : OpenLegs(e) # {} \/ entry[e] = "open"}
ExactPair(e) == \A l \in Legs : pair[e][l] = "live"

Forgets(e) == entry[e] = "forgotten"
EntryFills == {e \in Entries : entry[e] = "filled"}
PairFills == {e \in Entries : ~Forgets(e) /\ \E l \in Legs : pair[e][l] = "filled"}

(* Rows the manager's transaction sees as EXECUTED.                        *)
Filled(dirty) == {e \in Entries : rows[e].status = "EXECUTED"} \cup dirty

Unresolved == {e \in Entries : rows[e].status = "SUBMITTED" /\ rows[e].oid}

(* _latest_entry: the newest finished row is this entry, and no exit is.   *)
Latest(dirty) ==
    {e \in Filled(dirty) : /\ \A f \in Filled(dirty) : f <= e
                           /\ \A f \in Entries : rows[f].exited => e \in rows[f].newer}

-----------------------------------------------------------------------------
(* A worker's call of ensure_protection, and what it does with the result. *)

(* What the pass commits, with the exits it recorded.                      *)
Committed(dirty, exits) ==
    [e \in Entries |->
        [rows[e] EXCEPT !.status = IF e \in dirty THEN "EXECUTED" ELSE @,
                        !.exited = @ \/ e \in exits,
                        !.newer = IF e \in exits THEN Entries \ pm.seen ELSE @]]

(* raw_json as it becomes when an exception leaves the pass's old copy to  *)
(* be committed, if the pass changed it.                                   *)
WriteBack == [Committed(pm.dirty, {}) EXCEPT ![pm.e].raw = IF pm.wrote THEN pm.copy ELSE @]

(* The row is read again and the result merged into it.                    *)
Merged(table, e, prot, ids) ==
    [table EXCEPT ![e].raw.prot = prot, ![e].raw.ids = @ \/ ids]

(* Status and identities that an answer carries.                           *)
Confirmed == [PROTECTED |-> "PROTECTED", PENDING |-> "PROTECTION_PENDING"]

(* Mutant: any failed request may be retried.                              *)
RetryableAny(answer) == answer \in {"busy", "refused", "lost"}

(* Only a 503 that precedes both orders releases the intent.               *)
Retryable(answer) == answer = "busy"

(* Mutant: the reservation outlives a refused request.                     *)
LeaveReserved(w) ==
    /\ guard' = guard
    /\ IF w = "scan" THEN scan' = NoScan /\ UNCHANGED pm
                     ELSE pm' = NoPass /\ UNCHANGED scan

Leave(w) ==
    /\ guard' = IF guard = w THEN None ELSE guard
    /\ IF w = "scan" THEN scan' = NoScan /\ UNCHANGED pm
                     ELSE pm' = NoPass /\ UNCHANGED scan

Conclude(w, answer) ==
    LET e == IF w = "scan" THEN scan.e ELSE pm.e
        allow == w = "scan" \/ pm.allow
        table == IF w = "scan" THEN rows ELSE Committed(pm.dirty, {})
    IN
    /\ \/ /\ answer \in DOMAIN Confirmed
          /\ rows' = Merged(table, e, Confirmed[answer], TRUE)
       \/ /\ allow /\ Retryable(answer)
          /\ rows' = Merged(table, e, "PRE_SUBMISSION_BLOCKED", FALSE)
       \/ /\ answer \notin DOMAIN Confirmed /\ ~(allow /\ Retryable(answer))
          /\ rows' = IF w = "scan" THEN rows ELSE WriteBack
    /\ Leave(w)

PC(w) == IF w = "scan" THEN scan.pc ELSE pm.pc

(* The bridge takes one mutation at a time.                                *)
Send(w) ==
    /\ PC(w) = "call"
    /\ \/ /\ bridge.pc = "idle"
          /\ bridge' = [pc |-> "positions", owner |-> w, answer |-> None,
                        e |-> IF w = "scan" THEN scan.e ELSE pm.e,
                        allow |-> w = "scan" \/ pm.allow]
          /\ IF w = "scan" THEN scan' = [scan EXCEPT !.pc = "wait"] /\ UNCHANGED pm
                           ELSE pm' = [pm EXCEPT !.pc = "wait"] /\ UNCHANGED scan
          /\ UNCHANGED << rows, guard >>
       \/ bridge.pc # "idle" /\ Conclude(w, "busy") /\ UNCHANGED bridge
    /\ UNCHANGED << broker, attempts, faults >>

Receive(w) ==
    /\ PC(w) = "wait" /\ bridge.owner = w /\ bridge.pc = "answer"
    /\ Conclude(w, bridge.answer)
    /\ bridge' = NoRequest
    /\ UNCHANGED << broker, attempts, faults >>

(* A read before the post fails, the answer is lost or does not come in    *)
(* time; the bridge goes on with what it was doing.                        *)
GiveUp(w) ==
    /\ \/ PC(w) \in {"call", "wait"} /\ CountFault
       \/ PC(w) = "wait" /\ bridge.owner # w /\ UNCHANGED faults
    /\ Conclude(w, "lost")
    /\ bridge' = IF bridge.owner = w THEN [bridge EXCEPT !.owner = None] ELSE bridge
    /\ UNCHANGED << broker, attempts >>

-----------------------------------------------------------------------------
(* The scan.                                                               *)

(* An intent is committed and its order sent: no position, no open order,  *)
(* no unresolved intent.                                                   *)
Submit(e) ==
    /\ scan.pc = "idle"
    /\ rows[e].status = "UNUSED"
    /\ \A f \in Entries : f < e => rows[f].status = "EXECUTED"
    /\ position = 0 /\ OpenOrders = {} /\ guard = None
    /\ rows' = [rows EXCEPT ![e].status = "SUBMITTED"]
    /\ entry' = [entry EXCEPT ![e] = "open"]
    /\ scan' = [pc |-> "verify", e |-> e]
    /\ UNCHANGED << pair, placed, position, pm, guard, bridge, attempts, faults >>

(* The fill is verified; protect_saved_entry goes on without an await:     *)
(* SUBMITTING is committed before the bridge is called.                    *)
Attach ==
    LET e == scan.e IN
    /\ scan.pc = "verify" /\ entry[e] = "filled"
    /\ rows' = [rows EXCEPT ![e].status = "EXECUTED", ![e].oid = TRUE,
                            ![e].raw = [@ EXCEPT !.prot = "SUBMITTING", !.proof = TRUE]]
    /\ IF guard = None THEN guard' = "scan" /\ scan' = [scan EXCEPT !.pc = "call"]
                       ELSE scan' = NoScan /\ UNCHANGED guard
    /\ UNCHANGED << broker, pm, bridge, attempts, faults >>

(* The fill could not be verified in time: the row stays SUBMITTED.        *)
LeaveSubmitted ==
    /\ scan.pc = "verify"
    /\ rows' = [rows EXCEPT ![scan.e].oid = TRUE]
    /\ scan' = NoScan
    /\ UNCHANGED << broker, pm, guard, bridge, attempts, faults >>

-----------------------------------------------------------------------------
(* The position manager.                                                   *)

StartPass ==
    /\ pm.pc = "idle"
    /\ pm' = [NoPass EXCEPT !.pc = "executions",
                  !.seen = {e \in Entries : rows[e].status # "UNUSED"}]
    /\ UNCHANGED << rows, broker, scan, guard, bridge, attempts, faults >>

(* Full executions prove a fill and are saved with the row.                *)
ReadExecutions ==
    /\ pm.pc = "executions"
    /\ pm' = [pm EXCEPT !.pc = "positions", !.fills = EntryFills, !.closes = PairFills,
                        !.dirty = Unresolved \cap EntryFills]
    /\ UNCHANGED << rows, broker, scan, guard, bridge, attempts, faults >>

(* Mutant: a flat position alone proves the exit.                          *)
NativeExitsWhenFlat(dirty) ==
    {e \in Latest(dirty) : /\ rows[e].raw.ids /\ ~rows[e].exited
                           /\ position = 0}

(* Mutant: only a confirmed pair can have been executed.                   *)
NativeExitsOfProtected(dirty) ==
    {e \in Latest(dirty) : /\ rows[e].raw.prot = "PROTECTED" /\ ~rows[e].exited
                           /\ position = 0 /\ e \in pm.closes}

(* A flat position and exact executions of the saved order ids.            *)
NativeExits(dirty) ==
    {e \in Latest(dirty) : /\ rows[e].raw.ids /\ ~rows[e].exited
                           /\ position = 0 /\ e \in pm.closes}

(* With the positions: the fallback for entries whose executions are gone, *)
(* the native exits, and the entry that owns the position, if any.         *)
ReadPositions ==
    LET dirty == pm.dirty \cup {e \in Unresolved : position = 1}
        owner == IF position = 1 THEN Latest(dirty) ELSE {}
    IN
    /\ pm.pc = "positions"
    /\ \/ /\ owner = {}
          /\ rows' = Committed(dirty, NativeExits(dirty))
          /\ pm' = NoPass
       \/ \E e \in owner :
             /\ pm' = [pm EXCEPT !.pc = "status", !.dirty = dirty, !.e = e,
                                 !.copy = rows[e].raw]
             /\ UNCHANGED rows
    /\ UNCHANGED << broker, scan, guard, bridge, attempts, faults >>

(* Mutant: an attempt without order ids may be made again.                 *)
MayAgain(raw) == ~raw.ids

(* Mutant: an entry without an attempt is left to the scan.                *)
MayRetry(raw) == raw.prot = "PRE_SUBMISSION_BLOCKED"

MaySubmit(raw) == raw.prot \in {None, "PRE_SUBMISSION_BLOCKED"}

(* The entry's fill is verified; its executions are saved, in memory, with *)
(* the copy loaded before.  A first attempt needs a proven fill price and  *)
(* commits SUBMITTING; a later one commits nothing yet.                    *)
CheckEntry ==
    LET e == pm.e
        copy == IF e \in pm.fills THEN [pm.copy EXCEPT !.proof = TRUE] ELSE pm.copy
        allow == MaySubmit(copy)
        submitting == [Committed(pm.dirty, {}) EXCEPT
                           ![e].raw = [copy EXCEPT !.prot = "SUBMITTING"]]
        old == [Committed(pm.dirty, {}) EXCEPT ![e].raw = copy]
    IN
    /\ pm.pc = "status"
    /\ \/ /\ allow /\ ~copy.proof
          /\ rows' = old /\ pm' = NoPass
          /\ UNCHANGED guard
       \/ /\ ~(allow /\ ~copy.proof) /\ guard # None
          /\ rows' = IF allow THEN submitting ELSE old
          /\ pm' = NoPass
          /\ UNCHANGED guard
       \/ /\ ~(allow /\ ~copy.proof) /\ guard = None
          /\ rows' = IF allow THEN submitting ELSE rows
          /\ guard' = "pm"
          /\ pm' = [pm EXCEPT !.pc = "call", !.allow = allow, !.copy = copy,
                              !.dirty = IF allow THEN {} ELSE @,
                              !.wrote = ~allow /\ e \in pm.fills]
    /\ UNCHANGED << broker, scan, bridge, attempts, faults >>

(* A read that raises: the transaction is rolled back.                     *)
PassFault ==
    /\ pm.pc \in {"executions", "positions", "status"}
    /\ CountFault
    /\ pm' = NoPass
    /\ UNCHANGED << rows, broker, scan, guard, bridge, attempts >>

-----------------------------------------------------------------------------
(* The bridge: POST /protection, one request at a time.                    *)

BridgeOnly == UNCHANGED << rows, entry, position, scan, pm, guard >>

Answer(a) == bridge' = [bridge EXCEPT !.pc = "answer", !.answer = a]
Proceed(pc) == bridge' = [bridge EXCEPT !.pc = pc]
Read(pc, ok, next) ==
    /\ bridge.pc = pc
    /\ IF ok THEN Proceed(next) ELSE Answer("refused")
    /\ BridgeOnly /\ UNCHANGED << pair, placed, attempts, faults >>

BridgePositions == Read("positions", position = 1, "orders")

(* Mutant: the intent is examined before the orders.                       *)
BridgeOrdersLater ==
    LET e == bridge.e IN
    /\ bridge.pc = "orders"
    /\ IF ~bridge.allow \/ e \in attempts THEN Answer("refused")
       ELSE IF ExactPair(e) /\ OpenOrders = {e} THEN Answer("PROTECTED")
       ELSE IF OpenOrders # {} THEN Answer("refused")
       ELSE Proceed("positions2")
    /\ BridgeOnly /\ UNCHANGED << pair, placed, attempts, faults >>

(* The exact pair is there already, or nothing is and this may submit.     *)
BridgeOrders ==
    LET e == bridge.e IN
    /\ bridge.pc = "orders"
    /\ IF ExactPair(e) /\ OpenOrders = {e} THEN Answer("PROTECTED")
       ELSE IF OpenOrders # {} \/ ~bridge.allow \/ e \in attempts THEN Answer("refused")
       ELSE Proceed("positions2")
    /\ BridgeOnly /\ UNCHANGED << pair, placed, attempts, faults >>

(* What-If has passed; positions and orders are read again.                *)
BridgeRereadPositions == Read("positions2", position = 1, "orders2")
BridgeRereadOrders == Read("orders2", OpenOrders = {}, "stop")

Place(leg, state) ==
    /\ pair' = [pair EXCEPT ![bridge.e][leg] = state]
    /\ placed' = [placed EXCEPT ![bridge.e] = @ + 1]

PlaceStop ==
    /\ bridge.pc = "stop"
    /\ attempts' = attempts \cup {bridge.e}
    /\ Place("stop", "sent")
    /\ Proceed("positions3")
    /\ BridgeOnly /\ UNCHANGED faults

(* The target follows only if the position is unchanged.                   *)
BridgeThirdRead ==
    /\ bridge.pc = "positions3"
    /\ IF position = 1 THEN Proceed("target") ELSE Answer("PENDING")
    /\ BridgeOnly /\ UNCHANGED << pair, placed, attempts, faults >>

(* The group takes no further order once a member is executed.             *)
PlaceTarget ==
    /\ bridge.pc = "target"
    /\ Place("target", IF pair[bridge.e]["stop"] = "filled" THEN "gone" ELSE "sent")
    /\ Proceed("verify")
    /\ BridgeOnly /\ UNCHANGED << attempts, faults >>

Verify ==
    /\ bridge.pc = "verify"
    /\ Answer(IF ExactPair(bridge.e) THEN "PROTECTED" ELSE "PENDING")
    /\ BridgeOnly /\ UNCHANGED << pair, placed, attempts, faults >>

(* A read fails: before the stop it is an error, some of which may be      *)
(* retried; after it the outcome is pending.                               *)
BridgeFault ==
    /\ CountFault
    /\ \/ /\ bridge.pc \in {"positions", "orders", "positions2", "orders2"}
          /\ \E a \in {"busy", "refused"} : Answer(a)
       \/ /\ bridge.pc \in {"positions3", "verify"}
          /\ Answer("PENDING")
    /\ BridgeOnly /\ UNCHANGED << pair, placed, attempts >>

(* Nobody waits for the answer any more.                                   *)
Discard ==
    /\ bridge.pc = "answer" /\ bridge.owner = None
    /\ bridge' = NoRequest
    /\ BridgeOnly /\ UNCHANGED << pair, placed, attempts, faults >>

-----------------------------------------------------------------------------
(* The broker, and restarts.                                               *)

BrokerOnly == UNCHANGED << rows, placed, scan, pm, guard, bridge, attempts >>

FillEntry(e) ==
    /\ entry[e] = "open"
    /\ entry' = [entry EXCEPT ![e] = "filled"]
    /\ position' = position + 1
    /\ BrokerOnly /\ UNCHANGED << pair, faults >>

Activate(e, l) ==
    /\ pair[e][l] = "sent"
    /\ pair' = [pair EXCEPT ![e][l] = "live"]
    /\ BrokerOnly /\ UNCHANGED << entry, position, faults >>

(* A leg is rejected or cancelled.                                         *)
Cancel(e, l) ==
    /\ OpenLeg(e, l)
    /\ CountFault
    /\ pair' = [pair EXCEPT ![e][l] = "gone"]
    /\ BrokerOnly /\ UNCHANGED << entry, position >>

(* A leg is executed and its OCA group cancels the other.                  *)
FillLeg(e, l) ==
    /\ pair[e][l] = "live"
    /\ pair' = [pair EXCEPT ![e] = [k \in Legs |-> IF k = l THEN "filled"
                                         ELSE IF OpenLeg(e, k) THEN "gone"
                                         ELSE pair[e][k]]]
    /\ position' = position - 1
    /\ BrokerOnly /\ UNCHANGED << entry, faults >>

(* The operator flattens the position in TWS; the pair stays open.         *)
ManualClose ==
    /\ position = 1
    /\ CountFault
    /\ position' = 0
    /\ BrokerOnly /\ UNCHANGED << pair, entry >>

(* After a restart the Gateway no longer reports executions.               *)
GatewayRestart(e) ==
    /\ entry[e] = "filled"
    /\ CountFault
    /\ entry' = [entry EXCEPT ![e] = "forgotten"]
    /\ BrokerOnly /\ UNCHANGED << pair, position >>

BridgeRestart ==
    /\ CountFault
    /\ bridge' = NoRequest /\ attempts' = {}
    /\ UNCHANGED << rows, broker, scan, pm, guard >>

ProcessRestart ==
    /\ CountFault
    /\ scan' = NoScan /\ pm' = NoPass /\ guard' = None
    /\ bridge' = [bridge EXCEPT !.owner = None]
    /\ UNCHANGED << rows, broker, attempts >>

-----------------------------------------------------------------------------
WorkerStep ==
    \/ \E w \in Workers : Send(w) \/ Receive(w) \/ GiveUp(w)
ScanStep == (\E e \in Entries : Submit(e)) \/ Attach \/ LeaveSubmitted
PmStep == StartPass \/ ReadExecutions \/ ReadPositions \/ CheckEntry
BridgeStep ==
    \/ BridgePositions \/ BridgeOrders \/ BridgeRereadPositions \/ BridgeRereadOrders
    \/ PlaceStop \/ BridgeThirdRead \/ PlaceTarget \/ Verify \/ Discard
Broker ==
    \/ ManualClose
    \/ \E e \in Entries : FillEntry(e) \/ GatewayRestart(e)
    \/ \E e \in Entries, l \in Legs : Activate(e, l) \/ Cancel(e, l) \/ FillLeg(e, l)
Fault == PassFault \/ BridgeFault \/ BridgeRestart \/ ProcessRestart

Next == WorkerStep \/ ScanStep \/ PmStep \/ BridgeStep \/ Broker \/ Fault

Spec == Init /\ [][Next]_vars

-----------------------------------------------------------------------------
(* Safety.                                                                 *)

(* No entry is ever given a second stop or target, whatever answers were   *)
(* lost and whichever process restarted.                                   *)
OnePair == \A e \in Entries : placed[e] <= 2

(* Once an order may have been placed, the committed record says so: it is *)
(* never None or PRE_SUBMISSION_BLOCKED, which would allow another attempt. *)
AttemptIsRecorded ==
    \A e \in Entries : placed[e] > 0 => ~MaySubmit(rows[e].raw)

(* A recorded exit is a protective order that was executed.                *)
ExitMeansClosed ==
    \A e \in Entries : rows[e].exited => \E l \in Legs : pair[e][l] = "filled"

(* What is saved is true of the broker, whoever was asked and did not answer. *)
RecordsAgree == TypeOK /\ AttemptIsRecorded /\ ExitMeansClosed

(* The identities of a pair, once saved, are kept.                         *)
IdentitiesKept ==
    [][\A e \in Entries : rows[e].raw.ids => rows'[e].raw.ids]_rows

-----------------------------------------------------------------------------
(* Liveness.                                                               *)

Fairness ==
    /\ \A w \in Workers : WF_vars(Send(w) \/ Receive(w)
                                    \/ (bridge.owner # w /\ GiveUp(w)))
    /\ WF_vars(Attach \/ LeaveSubmitted)
    /\ WF_vars(PmStep)
    /\ WF_vars(BridgeStep)
    /\ \A e \in Entries : WF_vars(FillEntry(e))
    /\ \A e \in Entries, l \in Legs : WF_vars(Activate(e, l))

FairSpec == Spec /\ Fairness

(* An exact pair is eventually recorded as PROTECTED, however its attempt  *)
(* ended, unless it is executed or cancelled first.                        *)
PairIsRecognised ==
    \A e \in Entries :
        (ExactPair(e) /\ position = 1)
        ~> (rows[e].raw.prot = "PROTECTED" \/ ~ExactPair(e) \/ position # 1)

(* A filled entry is eventually protected, or its position closed; if      *)
(* something failed, its record at least tells of an attempt, unless the   *)
(* order id was not saved or the executions that would prove the fill      *)
(* price are forgotten.                                                    *)
PositionIsProtected ==
    \A e \in Entries :
        (entry[e] = "filled" /\ position = 1 /\ \A f \in Entries : f > e => entry[f] = "none")
        ~> \/ ExactPair(e)
           \/ position # 1
           \/ faults > 0 /\ (rows[e].raw.prot # None \/ ~rows[e].oid \/ Forgets(e))

(* Exact protective executions and a flat position eventually produce the  *)
(* exit's audit row, for as long as the broker reports the executions and  *)
(* the row keeps the identities of the pair.                               *)
ExitIsRecorded ==
    \A e \in Entries :
        (e \in PairFills /\ position = 0 /\ rows[e].raw.ids)
        ~> (rows[e].exited \/ Forgets(e) \/ ~rows[e].raw.ids)

=============================================================================
