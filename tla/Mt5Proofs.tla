----------------------------- MODULE Mt5Proofs -----------------------------
(***************************************************************************)
(* MT5: the rows agree with the terminal, a symbol has one live entry, and *)
(* a certification that passes leaves no position, for any number of       *)
(* scans, symbols and orders, on either bridge.                            *)
(*                                                                         *)
(* One entry rests on two reads under the reservation: after the first,    *)
(* what lives of the symbol are placed orders (Looked), after the second   *)
(* nothing does; and no other scan posts, since it does not hold it.       *)
(***************************************************************************)
EXTENDS Mt5, FiniteSetTheorems, TLAPS

Holding == {"positions2", "orders2", "post", "posted"}
CertPC == {"find", "close", "closed", "passed"}

(* What the terminal did with an order and the position it opened.         *)
OrderShape == \A o \in Orders :
    /\ order[o].state = "none" => order[o] = NoOrder
    /\ order[o].state # "none" => order[o].sym \in Symbols
    /\ order[o].state \in {"none", "flight", "REJECT"} => pos[o] = "none"
    /\ order[o].state \in {"DONE", "PARTIAL"} => pos[o] # "none"

(* A worker past the post knows its order; only the script goes on.        *)
Proper(w, rec) ==
    /\ rec.pc \notin {"idle", "items"} => rec.sym \in Symbols
    /\ rec.pc \in {"posted"} \cup CertPC =>
           /\ rec.order \in Orders /\ order[rec.order].by = w
           /\ order[rec.order].sym = rec.sym /\ order[rec.order].state # "none"
    /\ rec.pc \in CertPC => w = Cert /\ order[rec.order].state = "DONE"
WorkShape == \A w \in Workers : Proper(w, work[w])

(* A scan holds the reservation of its symbol from its reads to the answer. *)
Held == \A w \in Scans, s \in Symbols :
    (guard[s] = w) <=> (work[w].pc \in Holding /\ work[w].sym = s)

(* What the two reads under the reservation leave alive.                   *)
Sees(rec, ex) ==
    rec.pc \in {"orders2", "post"} /\ ex[rec.sym] = "no" =>
        \A o \in Orders : order[o].sym = rec.sym /\ Live(o) =>
            rec.pc = "orders2" /\ order[o].state = "PLACED" /\ pos[o] = "none"
Looked == \A w \in Workers : Sees(work[w], excuse)
Alone == \A s \in Symbols : excuse[s] = "no" =>
    \A o, p \in Orders : order[o].sym = s /\ order[p].sym = s /\ Live(o) /\ Live(p) => o = p

(* The script closes the position of its order, or that one was closed.    *)
Script(rec, cl, ex) ==
    rec.pc \in {"close", "closed", "passed"} /\ ex[rec.sym] = "no" =>
        /\ cl.ticket \in Orders /\ pos[cl.ticket] \in {"open", "leaving", "closed"}
        /\ cl.ticket = rec.order \/ pos[rec.order] = "closed"
        /\ rec.pc = "passed" => pos[rec.order] = "closed"
Scripted == Script(work[Cert], close[Cert], excuse)

(* A close is sent for a position; the pass waits for the close it sent.   *)
Closes ==
    /\ \A c \in {Manager, Cert} : close[c].state = "flight" => close[c].ticket \in Orders
    /\ pm.pc \in {"positions", "closing"} => pm.ticket \in Orders
    /\ pm.pc = "closing" => close[Manager].ticket = pm.ticket
    /\ pm.pc = "idle" => pm.rows = {}

(* A row is written once, after the answer.                                *)
Unwritten ==
    /\ \A o \in Orders :
        /\ order[o].state = "none" => entry[o] = "none"
        /\ order[o].state = "flight" => entry[o] = "none" \/ excuse[order[o].sym] = "lost"
    /\ \A w \in Scans : work[w].pc = "posted" => entry[work[w].order] = "none"

Core == /\ TypeOK /\ OrderShape /\ WorkShape /\ Held /\ Looked /\ Alone /\ Scripted
        /\ Closes /\ ExitIsRecorded
Rows == OutcomeIsTrue /\ EveryOrderHasARow /\ Unwritten
IInv == Core /\ Rows

-----------------------------------------------------------------------------
(* Nothing was ordered yet.                                                *)
LEMMA Initially == Init => IInv
<1> SUFFICES ASSUME Init PROVE IInv
  OBVIOUS
<1>1. NoOrder \in Order /\ NoWork \in Work /\ NoPass \in Pm
  BY DEF NoOrder, Order, OrderState, NoWork, Work, WorkPC, NoPass, Pm, PmPC
<1>2. \A w \in Workers : work[w].pc = "idle"
  BY DEF Init, NoWork
<1>3. \A o \in Orders : order[o] = NoOrder /\ order[o].state = "none" /\ order[o].by = None
                        /\ pos[o] = "none" /\ entry[o] = "none"
  BY DEF Init, NoOrder
<1>4. None \notin Scans /\ \A s \in Symbols : guard[s] = None
  BY NameAssumption DEF Init
<1>5. \A c \in {Manager, Cert} : close[c].state = "none"
  BY DEF Init, NoClose
<1>6. TypeOK
  <2>1. /\ << node, crew >> \in Setups /\ killed \in BOOLEAN
    BY DEF Init, Setups
  <2>2. /\ order \in [Orders -> Order] /\ pos \in [Orders -> PosState]
        /\ entry \in [Orders -> {"none", "EXECUTED", "BLOCK"}] /\ owed \subseteq Orders
        /\ work \in [Workers -> Work] /\ pm \in Pm /\ faults \in Nat /\ controls \in Nat
    BY <1>1 DEF Init, PosState
  <2>3. /\ guard \in [Symbols -> Scans \cup {None}] /\ excuse \in [Symbols -> Excuses]
        /\ close \in [{Manager, Cert} -> [ticket : Orders \cup {None}, state : CloseState]]
    BY DEF Init, Excuses, NoClose, CloseState
  <2> QED BY <1>4, <2>1, <2>2, <2>3 DEF TypeOK
<1>7. OrderShape /\ Alone /\ OutcomeIsTrue /\ EveryOrderHasARow
  BY <1>3, <1>4 DEF OrderShape, Alone, Live, OutcomeIsTrue, EveryOrderHasARow
<1>8. WorkShape /\ Held /\ Looked /\ Scripted
  BY <1>2, <1>4 DEF WorkShape, Proper, CertPC, Held, Holding, Looked, Sees, Scripted, Script,
                    Workers
<1>9. Closes /\ Unwritten /\ ExitIsRecorded
  BY <1>2, <1>3, <1>5 DEF Closes, Unwritten, ExitIsRecorded, Workers, Init, NoPass
<1> QED BY <1>6, <1>7, <1>8, <1>9 DEF IInv, Core, Rows

-----------------------------------------------------------------------------
(* Moves.  An excuse, once there, stays.                                   *)
Remembers ==
    /\ excuse' \in [Symbols -> Excuses]
    /\ \A s \in Symbols : /\ excuse'[s] = "no" => excuse[s] = "no"
                          /\ excuse[s] = "lost" => excuse'[s] = "lost"

\* The reservations when the work of w becomes rec.
Guarded(w, rec) ==
    /\ guard' \in [Symbols -> Scans \cup {None}]
    /\ \A s \in Symbols, v \in Scans \ {w} : (guard'[s] = v) <=> (guard[s] = v)
    /\ w \in Scans => \A s \in Symbols :
           (guard'[s] = w) <=> (rec.pc \in Holding /\ rec.sym = s)

\* The closes: the manager's is left alone, the script changes its own.
ScriptCloses(w, rec) ==
    /\ close' \in [{Manager, Cert} -> [ticket : Orders \cup {None}, state : CloseState]]
    /\ close'[Manager] = close[Manager]
    /\ close'[Cert].state = "flight" => close'[Cert].ticket \in Orders
    /\ IF w = Cert THEN Script(rec, close'[Cert], excuse') ELSE close' = close

(* A worker goes on, and the terminal stays as it is.                      *)
LEMMA Moving ==
    ASSUME Core, NEW w \in Workers, NEW rec \in Work, work' = [work EXCEPT ![w] = rec],
           UNCHANGED << node, crew, killed, order, pos, owed, pm >>,
           faults' \in Nat, controls' \in Nat,
           entry' \in [Orders -> {"none", "EXECUTED", "BLOCK"}],
           Remembers, Guarded(w, rec), ScriptCloses(w, rec),
           Proper(w, rec), Sees(rec, excuse')
    PROVE  Core'
<1>t. TypeOK /\ node' = node /\ crew' = crew /\ killed' = killed /\ order' = order
      /\ pos' = pos /\ owed' = owed /\ pm' = pm
  BY DEF Core
<1>w. /\ work' \in [Workers -> Work] /\ work'[w] = rec
      /\ \A v \in Workers \ {w} : work'[v] = work[v]
  BY <1>t DEF TypeOK
<1>c. Cert \in Workers /\ Scans \subseteq Workers /\ Cert \notin Scans /\ None \notin Scans
  BY NameAssumption DEF Workers
<1>e. \A s \in Symbols : excuse'[s] = "no" => excuse[s] = "no"
  BY DEF Remembers
<1> HIDE DEF Orders, Order, Work, Pm, Setups, PosState, CloseState, Excuses
<1>1. Held'
  <2> SUFFICES ASSUME NEW v \in Scans, NEW s \in Symbols
               PROVE  (guard'[s] = v) <=> (work'[v].pc \in Holding /\ work'[v].sym = s)
    BY DEF Held
  <2>1. CASE v = w
    BY <1>w, <2>1 DEF Guarded
  <2>2. CASE v # w
    BY <1>w, <1>c, <2>2 DEF Guarded, Core, Held
  <2> QED BY <2>1, <2>2
<1>2. TypeOK'
  <2>1. \A s \in Symbols : guard'[s] # None =>
            work'[guard'[s]].pc \in {"positions2", "orders2", "post", "posted"}
    BY <1>1 DEF Held, Holding, Guarded
  <2> QED BY <1>t, <1>w, <2>1 DEF TypeOK, Remembers, Guarded, ScriptCloses
<1>3. OrderShape' /\ ExitIsRecorded'
  BY <1>t DEF Core, OrderShape, ExitIsRecorded
<1>4. WorkShape'
  BY <1>t, <1>w DEF Core, WorkShape, Proper
<1>5. Looked'
  <2> SUFFICES ASSUME NEW v \in Workers PROVE Sees(work[v], excuse)'
    BY DEF Looked
  <2>1. CASE v = w
    BY <1>t, <1>w, <2>1 DEF Sees, Live
  <2>2. CASE v # w
    <3>1. Sees(work[v], excuse) /\ Proper(v, work[v]) /\ work'[v] = work[v]
      BY <1>w, <2>2 DEF Core, Looked, WorkShape
    <3> QED BY <1>t, <1>e, <3>1 DEF Sees, Proper, Live
  <2> QED BY <2>1, <2>2
<1>6. Alone'
  BY <1>t, <1>e DEF Core, Alone, Live
<1>7. Scripted'
  <2>1. CASE w = Cert
    BY <1>t, <1>w, <2>1 DEF ScriptCloses, Scripted, Script
  <2>2. CASE w # Cert
    <3>1. Proper(Cert, work[Cert]) /\ work'[Cert] = work[Cert] /\ close' = close
      BY <1>w, <1>c, <2>2 DEF Core, WorkShape, ScriptCloses
    <3> QED BY <1>t, <1>e, <3>1 DEF Core, Scripted, Script, Proper
  <2> QED BY <2>1, <2>2
<1>8. Closes'
  BY <1>t DEF Core, Closes, ScriptCloses
<1> QED BY <1>1, <1>2, <1>3, <1>4, <1>5, <1>6, <1>7, <1>8 DEF Core

(* Rows stay true while nobody gets or leaves an answer of a scan.         *)
LEMMA RowsKept ==
    ASSUME IInv, NEW w \in Workers, NEW rec \in Work, work' = [work EXCEPT ![w] = rec],
           UNCHANGED << node, order, entry >>, Remembers,
           work[w].pc = "posted" => w = Cert, rec.pc # "posted"
    PROVE  Rows'
<1>t. TypeOK /\ OrderShape /\ node' = node /\ order' = order /\ entry' = entry
  BY DEF IInv, Core
<1>w. work'[w] = rec /\ \A v \in Workers \ {w} : work'[v] = work[v]
  BY <1>t DEF TypeOK
<1>c. Scans \subseteq Workers /\ Cert \notin Scans
  BY NameAssumption DEF Workers
<1>s. \A o \in Orders : order[o].state # "none" => order[o].sym \in Symbols
  BY <1>t DEF OrderShape
<1>n. \A o \in Orders : order[o].state = "none" => entry[o] = "none" /\ order[o].by \notin Scans
  BY <1>t, NameAssumption DEF IInv, Rows, Unwritten, OrderShape, NoOrder
<1> HIDE DEF Orders
<1>1. OutcomeIsTrue'
  BY <1>t, <1>s, <1>n DEF IInv, Rows, OutcomeIsTrue, Remembers
<1>2. EveryOrderHasARow'
  <2> SUFFICES ASSUME NEW o \in Orders, order[o].by \in Scans
               PROVE  \/ entry[o] # "none"
                      \/ work'[order[o].by].pc = "posted" /\ work'[order[o].by].order = o
                      \/ excuse'[order[o].sym] = "lost"
    BY <1>t DEF EveryOrderHasARow
  <2>1. order[o].sym \in Symbols
    BY <1>s, <1>n
  <2>2. \/ entry[o] # "none"
        \/ work[order[o].by].pc = "posted" /\ work[order[o].by].order = o
        \/ excuse[order[o].sym] = "lost"
    BY DEF IInv, Rows, EveryOrderHasARow
  <2>3. work[order[o].by].pc = "posted" => order[o].by # w
    BY <1>c
  <2> QED BY <1>w, <1>c, <2>1, <2>2, <2>3 DEF Remembers
<1>3. Unwritten'
  <2>1. \A o \in Orders :
            /\ order[o].state = "none" => entry[o] = "none"
            /\ order[o].state = "flight" => entry[o] = "none" \/ excuse'[order[o].sym] = "lost"
    BY <1>s DEF IInv, Rows, Unwritten, Remembers
  <2>2. \A v \in Scans : work'[v].pc = "posted" => entry[work'[v].order] = "none"
    BY <1>w, <1>c DEF IInv, Rows, Unwritten
  <2> QED BY <1>t, <2>1, <2>2 DEF Unwritten
<1> QED BY <1>1, <1>2, <1>3 DEF Rows

(* A step of a worker that neither awaits nor uses the answer to an order. *)
LEMMA QuietMove ==
    ASSUME IInv, NEW w \in Workers, NEW rec \in Work, work' = [work EXCEPT ![w] = rec],
           UNCHANGED << node, crew, killed, order, pos, entry, owed, pm, close, controls >>,
           faults' \in Nat, Remembers, Guarded(w, rec),
           rec.pc \notin {"idle", "items"} => rec.sym \in Symbols,
           rec.pc \notin {"posted"} \cup CertPC, Sees(rec, excuse'),
           work[w].pc = "posted" => w = Cert
    PROVE  IInv'
<1>1. Core /\ TypeOK
  BY DEF IInv, Core
<1>2. Proper(w, rec)
  BY DEF Proper
<1>3. ScriptCloses(w, rec)
  <2>1. Script(rec, close'[Cert], excuse')
    BY DEF Script, CertPC
  <2> QED BY <1>1, <2>1 DEF ScriptCloses, TypeOK, Core, Closes
<1>4. entry' \in [Orders -> {"none", "EXECUTED", "BLOCK"}] /\ controls' \in Nat
  BY <1>1 DEF TypeOK
<1>5. Core'
  BY <1>1, <1>2, <1>3, <1>4, Moving
<1>6. Rows'
  BY RowsKept
<1> QED BY <1>5, <1>6 DEF IInv

(* The fields of a worker's record.                                        *)
LEMMA WorkFields ==
    ASSUME NEW r \in Work, NEW pc \in WorkPC
    PROVE  /\ [r EXCEPT !.pc = pc] \in Work
           /\ [r EXCEPT !.pc = pc].pc = pc
           /\ [r EXCEPT !.pc = pc].sym = r.sym
           /\ [r EXCEPT !.pc = pc].order = r.order
  BY DEF Work

Gone(w, pc) == [work[w] EXCEPT !.pc = pc]

(* A step to pc, in the fields of the work.                                *)
LEMMA Going ==
    ASSUME TypeOK, NEW w \in Workers, NEW pc \in WorkPC
    PROVE  /\ Gone(w, pc) \in Work /\ Gone(w, pc).pc = pc
           /\ Gone(w, pc).sym = work[w].sym /\ Gone(w, pc).order = work[w].order
           /\ To(w, pc) => work' = [work EXCEPT ![w] = Gone(w, pc)]
<1>1. work \in [Workers -> Work] /\ work[w] \in Work
  BY DEF TypeOK
<1>2. To(w, pc) => work' = [work EXCEPT ![w] = Gone(w, pc)]
  BY <1>1 DEF To, Gone
<1>3. /\ [work[w] EXCEPT !.pc = pc] \in Work
      /\ [work[w] EXCEPT !.pc = pc].pc = pc
      /\ [work[w] EXCEPT !.pc = pc].sym = work[w].sym
      /\ [work[w] EXCEPT !.pc = pc].order = work[w].order
  BY <1>1, WorkFields
<1> QED BY <1>2, <1>3 DEF Gone

(* A step that leaves the reservations keeps them right.                   *)
LEMMA StillGuarded ==
    ASSUME Core, NEW w \in Workers, NEW rec, guard' = guard, rec.sym = work[w].sym,
           rec.pc \in Holding <=> work[w].pc \in Holding
    PROVE  Guarded(w, rec)
  BY DEF Core, TypeOK, Held, Guarded

\* Between two items, or at the end of the script.
LeftAs(w) == IF w = Cert THEN [work[w] EXCEPT !.pc = "failed"]
             ELSE [NoWork EXCEPT !.pc = "items", !.todo = work[w].todo]

(* A worker leaves its item and nothing of the symbol is reserved by it.   *)
LEMMA Leaving ==
    ASSUME Core, NEW w \in Workers, work[w].pc \notin {"idle", "items"}, Leave(w)
    PROVE  /\ LeftAs(w) \in Work /\ work' = [work EXCEPT ![w] = LeftAs(w)]
           /\ LeftAs(w).pc \in {"failed", "items"}
           /\ LeftAs(w).pc = "failed" => LeftAs(w).sym \in Symbols
           /\ Guarded(w, LeftAs(w))
<1>1. TypeOK /\ work \in [Workers -> Work] /\ work[w] \in Work
      /\ guard \in [Symbols -> Scans \cup {None}]
  BY DEF Core, TypeOK
<1>2. work' = [work EXCEPT ![w] = LeftAs(w)]
  BY <1>1 DEF Leave, LeftAs
<1>3. CASE w = Cert
  <2>1. LeftAs(w) = Gone(w, "failed") /\ "failed" \in WorkPC
    BY <1>3 DEF LeftAs, Gone, WorkPC
  <2>2. LeftAs(w) \in Work /\ LeftAs(w).pc = "failed" /\ LeftAs(w).sym = work[w].sym
    BY <1>1, <2>1, Going
  <2>3. work[w].sym \in Symbols
    BY DEF Core, WorkShape, Proper
  <2>4. Guarded(w, LeftAs(w))
    <3>1. /\ w \notin Scans /\ w # None
          /\ guard' = [s \in Symbols |-> IF guard[s] = w THEN None ELSE guard[s]]
      BY <1>3, NameAssumption DEF Leave, Release
    <3> QED BY <1>1, <3>1, NameAssumption DEF Guarded
  <2> QED BY <1>2, <2>2, <2>3, <2>4
<1>4. CASE w # Cert
  <2>1. LeftAs(w) = [NoWork EXCEPT !.pc = "items", !.todo = work[w].todo]
    BY <1>4 DEF LeftAs
  <2>2. LeftAs(w) \in Work /\ LeftAs(w).pc = "items"
    BY <1>1, <2>1 DEF NoWork, Work, WorkPC
  <2>3. Guarded(w, LeftAs(w))
    <3>1. guard' = [s \in Symbols |-> IF guard[s] = w THEN None ELSE guard[s]] /\ None \notin Scans
      BY NameAssumption DEF Leave, Release
    <3>2. LeftAs(w).pc \notin Holding
      BY <2>2 DEF Holding
    <3> QED BY <1>1, <3>1, <3>2 DEF Guarded
  <2> QED BY <1>2, <2>2, <2>3
<1> QED BY <1>3, <1>4

-----------------------------------------------------------------------------
(* Workers up to the post.                                                 *)
LEMMA BeginScanStep == ASSUME IInv, NEW w \in Workers, BeginScan(w) PROVE IInv'
<1> DEFINE rec == [NoWork EXCEPT !.pc = "items", !.todo = Symbols]
<1>1. rec \in Work /\ rec.pc = "items"
  BY DEF NoWork, Work, WorkPC
<1>2. Core /\ TypeOK /\ work[w].pc = "idle" /\ w # Cert
  BY DEF BeginScan, IInv, Core
<1>3. /\ work' = [work EXCEPT ![w] = rec] /\ guard' = guard /\ faults' = faults /\ excuse' = excuse
      /\ UNCHANGED << node, crew, killed, order, pos, entry, owed, pm, close, controls >>
  BY DEF BeginScan, broker, records
<1> HIDE DEF rec
<1>4. Guarded(w, rec)
  BY <1>1, <1>2, <1>3 DEF Core, TypeOK, Held, Guarded, Holding
<1>5. Remembers /\ faults' \in Nat
  BY <1>2, <1>3 DEF Remembers, TypeOK
<1>6. Sees(rec, excuse') /\ rec.pc \notin {"posted"} \cup CertPC
      /\ (rec.pc \notin {"idle", "items"} => rec.sym \in Symbols)
  BY <1>1 DEF Sees, CertPC
<1>7. work[w].pc = "posted" => w = Cert
  BY <1>2
<1> QED BY <1>1, <1>3, <1>4, <1>5, <1>6, <1>7, QuietMove

LEMMA NextItemStep == ASSUME IInv, NEW w \in Workers, NextItem(w) PROVE IInv'
<1>1. Core /\ TypeOK /\ work[w] \in Work /\ work[w].pc = "items"
  BY DEF NextItem, IInv, Core, TypeOK
<1>2. /\ guard' = guard /\ faults' = faults /\ excuse' = excuse
      /\ UNCHANGED << node, crew, killed, order, pos, entry, owed, pm, close, controls >>
  BY DEF NextItem, broker, records
<1>3. Remembers /\ faults' \in Nat
  BY <1>1, <1>2 DEF Remembers, TypeOK
<1>4. PICK rec : /\ rec \in Work /\ work' = [work EXCEPT ![w] = rec]
                 /\ rec.pc \in {"idle", "items", "reads"}
                 /\ rec.pc = "reads" => rec.sym \in Symbols
  <2>1. CASE work' = [work EXCEPT ![w] = NoWork]
    <3>1. NoWork \in Work /\ NoWork.pc = "idle"
      BY DEF NoWork, Work, WorkPC
    <3> QED BY <2>1, <3>1
  <2>2. CASE \E s \in work[w].todo : work' = [work EXCEPT
              ![w].todo = @ \ {s}, ![w].sym = s, ![w].pc = "reads", ![w].order = None]
    <3>1. PICK s \in work[w].todo : work' = [work EXCEPT
              ![w].todo = @ \ {s}, ![w].sym = s, ![w].pc = "reads", ![w].order = None]
      BY <2>2
    <3> DEFINE r == [work[w] EXCEPT !.todo = @ \ {s}, !.sym = s, !.pc = "reads", !.order = None]
    <3>2. work' = [work EXCEPT ![w] = r] /\ s \in Symbols
      BY <1>1, <3>1 DEF TypeOK, Work
    <3>3. r \in Work /\ r.pc = "reads" /\ r.sym = s
      BY <1>1, <3>2 DEF Work, WorkPC
    <3> QED BY <3>2, <3>3
  <2>3. CASE \E s \in work[w].todo : work' = [work EXCEPT ![w].todo = @ \ {s}]
    <3>1. PICK s \in work[w].todo : work' = [work EXCEPT ![w].todo = @ \ {s}]
      BY <2>3
    <3> DEFINE r == [work[w] EXCEPT !.todo = @ \ {s}]
    <3>2. work' = [work EXCEPT ![w] = r]
      BY <1>1, <3>1 DEF TypeOK
    <3>3. r \in Work /\ r.pc = "items"
      BY <1>1 DEF Work
    <3> QED BY <3>2, <3>3
  <2> QED BY <2>1, <2>2, <2>3 DEF NextItem
<1>5. Guarded(w, rec)
  BY <1>1, <1>2, <1>4 DEF Core, TypeOK, Held, Guarded, Holding
<1>6. Sees(rec, excuse') /\ rec.pc \notin {"posted"} \cup CertPC
      /\ (rec.pc \notin {"idle", "items"} => rec.sym \in Symbols)
  BY <1>4 DEF Sees, CertPC
<1>7. work[w].pc = "posted" => w = Cert
  BY <1>1
<1>8. rec \in Work /\ work' = [work EXCEPT ![w] = rec]
  BY <1>4
<1> QED BY <1>2, <1>3, <1>5, <1>6, <1>7, <1>8, QuietMove

LEMMA BeginCertStep == ASSUME IInv, BeginCert PROVE IInv'
<1>1. Core /\ TypeOK /\ Cert \in Workers /\ work[Cert] \in Work /\ work[Cert].pc = "idle"
  BY DEF BeginCert, IInv, Core, TypeOK, Workers
<1>2. /\ guard' = guard /\ faults' = faults /\ excuse' = excuse
      /\ UNCHANGED << node, crew, killed, order, pos, entry, owed, pm, close, controls >>
  BY DEF BeginCert, broker, records
<1>3. PICK s \in Symbols : work' = [work EXCEPT ![Cert].sym = s, ![Cert].pc = "reads"]
  BY DEF BeginCert
<1> DEFINE rec == [work[Cert] EXCEPT !.sym = s, !.pc = "reads"]
<1>4. work' = [work EXCEPT ![Cert] = rec]
  BY <1>1, <1>3 DEF TypeOK
<1>5. rec \in Work /\ rec.pc = "reads" /\ rec.sym \in Symbols
  BY <1>1 DEF Work, WorkPC
<1> HIDE DEF rec
<1>6. Remembers /\ faults' \in Nat
  BY <1>1, <1>2 DEF Remembers, TypeOK
<1>7. Guarded(Cert, rec)
  BY <1>1, <1>2, NameAssumption DEF Core, TypeOK, Held, Guarded
<1>8. Sees(rec, excuse') /\ rec.pc \notin {"posted"} \cup CertPC
      /\ (rec.pc \notin {"idle", "items"} => rec.sym \in Symbols)
  BY <1>5 DEF Sees, CertPC
<1>9. work[Cert].pc = "posted" => Cert = Cert
  OBVIOUS
<1>10. rec \in Work
  BY <1>5
<1>11. Cert \in Workers
  BY <1>1
<1> QED BY <1>2, <1>4, <1>6, <1>7, <1>8, <1>9, <1>10, <1>11, QuietMove

(* An item that ends before its post.                                      *)
LEMMA LeaveStep ==
    ASSUME IInv, NEW w \in Workers, work[w].pc \notin {"idle", "items"}, Leave(w),
           work[w].pc = "posted" => w = Cert, faults' = faults, excuse' = excuse,
           UNCHANGED << node, crew, killed, order, pos, entry, owed, pm, close, controls >>
    PROVE  IInv'
<1>1. Core /\ TypeOK
  BY DEF IInv, Core
<1>2. /\ LeftAs(w) \in Work /\ work' = [work EXCEPT ![w] = LeftAs(w)]
      /\ LeftAs(w).pc \in {"failed", "items"}
      /\ LeftAs(w).pc = "failed" => LeftAs(w).sym \in Symbols
      /\ Guarded(w, LeftAs(w))
  BY <1>1, Leaving
<1>3. Remembers /\ faults' \in Nat
  BY <1>1 DEF Remembers, TypeOK
<1>4. Sees(LeftAs(w), excuse') /\ LeftAs(w).pc \notin {"posted"} \cup CertPC
      /\ (LeftAs(w).pc \notin {"idle", "items"} => LeftAs(w).sym \in Symbols)
  BY <1>2 DEF Sees, CertPC
<1> QED BY <1>2, <1>3, <1>4, QuietMove

(* An excuse is remembered.                                                *)
LEMMA Excusing ==
    ASSUME TypeOK, NEW s \in Symbols, Excuse(s)
    PROVE  Remembers /\ excuse'[s] # "no"
<1>1. excuse \in [Symbols -> Excuses]
  BY DEF TypeOK
<1>2. excuse' = [excuse EXCEPT ![s] = IF @ = "lost" THEN @ ELSE "other"]
  BY DEF Excuse
<1> QED BY <1>1, <1>2 DEF Remembers, Excuses

(* A step to pc that neither takes nor gives back a reservation.           *)
LEMMA GoStep ==
    ASSUME IInv, NEW w \in Workers, NEW pc \in WorkPC, To(w, pc), guard' = guard,
           pc \in Holding <=> work[w].pc \in Holding,
           work[w].pc \notin {"idle", "items", "posted"}, pc \notin {"posted"} \cup CertPC,
           faults' \in Nat, Remembers, Sees(Gone(w, pc), excuse'),
           UNCHANGED << node, crew, killed, order, pos, entry, owed, pm, close, controls >>
    PROVE  IInv'
<1>1. Core /\ TypeOK
  BY DEF IInv, Core
<1>2. /\ Gone(w, pc) \in Work /\ Gone(w, pc).pc = pc /\ Gone(w, pc).sym = work[w].sym
      /\ work' = [work EXCEPT ![w] = Gone(w, pc)]
  BY <1>1, Going
<1>3. Gone(w, pc).pc \in Holding <=> work[w].pc \in Holding
  BY <1>2
<1>4. Guarded(w, Gone(w, pc))
  BY <1>1, <1>2, <1>3, StillGuarded
<1>5. work[w].sym \in Symbols
  BY <1>1 DEF Core, WorkShape, Proper
<1>6. /\ Gone(w, pc).pc \notin {"idle", "items"} => Gone(w, pc).sym \in Symbols
      /\ Gone(w, pc).pc \notin {"posted"} \cup CertPC
      /\ work[w].pc = "posted" => w = Cert
  BY <1>2, <1>5
<1> QED BY <1>2, <1>4, <1>6, QuietMove

LEMMA PreliminaryStep == ASSUME IInv, NEW w \in Workers, Preliminary(w) PROVE IInv'
<1>1. Core /\ TypeOK /\ work[w] \in Work /\ work[w].pc = "reads" /\ work[w].sym \in Symbols
  BY DEF Preliminary, IInv, Core, TypeOK, WorkShape, Proper
<1>2. /\ faults' = faults /\ excuse' = excuse
      /\ UNCHANGED << node, crew, killed, order, pos, entry, owed, pm, close, controls >>
  BY DEF Preliminary, broker, records
<1>3. Remembers /\ faults' \in Nat
  BY <1>1, <1>2 DEF Remembers, TypeOK
<1>4. CASE w = Cert
  <2> DEFINE rec == [work[w] EXCEPT !.pc = "check", !.before = Tickets]
  <2>1. work' = [work EXCEPT ![w] = rec] /\ guard' = guard
    BY <1>1, <1>4 DEF Preliminary, TypeOK
  <2>2. rec \in Work /\ rec.pc = "check" /\ rec.sym = work[w].sym
    BY <1>1 DEF Work, WorkPC, Tickets
  <2> HIDE DEF rec
  <2>3. rec.pc \in Holding <=> work[w].pc \in Holding
    BY <1>1, <2>2 DEF Holding
  <2>4. Guarded(w, rec)
    BY <1>1, <2>1, <2>2, <2>3, StillGuarded
  <2>5. Sees(rec, excuse') /\ rec.pc \notin {"posted"} \cup CertPC
        /\ (rec.pc \notin {"idle", "items"} => rec.sym \in Symbols)
        /\ (work[w].pc = "posted" => w = Cert)
    BY <1>1, <2>2 DEF Sees, CertPC
  <2>6. rec \in Work
    BY <2>2
  <2> QED BY <1>2, <1>3, <2>1, <2>4, <2>5, <2>6, QuietMove
<1>5. CASE w # Cert /\ To(w, "check") /\ guard' = guard
  <2>1. "check" \in WorkPC /\ "check" \notin {"posted"} \cup CertPC
        /\ ("check" \in Holding <=> work[w].pc \in Holding)
        /\ work[w].pc \notin {"idle", "items", "posted"}
    BY <1>1 DEF WorkPC, CertPC, Holding
  <2>2. Gone(w, "check").pc = "check"
    BY <1>1, <2>1, Going
  <2>3. Sees(Gone(w, "check"), excuse')
    BY <2>2 DEF Sees
  <2> QED BY <1>2, <1>3, <1>5, <2>1, <2>3, GoStep
<1>6. CASE w # Cert /\ Leave(w)
  <2>1. work[w].pc \notin {"idle", "items"} /\ (work[w].pc = "posted" => w = Cert)
    BY <1>1
  <2> QED BY <1>2, <1>6, <2>1, LeaveStep
<1> QED BY <1>4, <1>5, <1>6 DEF Preliminary

LEMMA ReserveSymbolStep == ASSUME IInv, NEW w \in Workers, ReserveSymbol(w) PROVE IInv'
<1>1. Core /\ TypeOK /\ work[w] \in Work /\ work[w].pc = "check" /\ work[w].sym \in Symbols
  BY DEF ReserveSymbol, IInv, Core, TypeOK, WorkShape, Proper
<1>2. /\ faults' = faults /\ excuse' = excuse
      /\ UNCHANGED << node, crew, killed, order, pos, entry, owed, pm, close, controls >>
  BY DEF ReserveSymbol, broker, records
<1>3. Remembers /\ faults' \in Nat
  BY <1>1, <1>2 DEF Remembers, TypeOK
<1>4. CASE Leave(w)
  <2>1. work[w].pc \notin {"idle", "items"} /\ (work[w].pc = "posted" => w = Cert)
    BY <1>1
  <2> QED BY <1>2, <1>4, <2>1, LeaveStep
<1>5. CASE /\ To(w, "positions2")
           /\ \/ w = Cert /\ guard' = guard
              \/ w # Cert /\ guard[work[w].sym] = None /\ guard' = [guard EXCEPT ![work[w].sym] = w]
  <2>1. "positions2" \in WorkPC
    BY DEF WorkPC
  <2> DEFINE rec == Gone(w, "positions2")
  <2>2. /\ rec \in Work /\ rec.pc = "positions2" /\ rec.sym = work[w].sym
        /\ work' = [work EXCEPT ![w] = rec]
    BY <1>1, <1>5, <2>1, Going
  <2> HIDE DEF rec
  <2>3. guard \in [Symbols -> Scans \cup {None}] /\ None \notin Scans
        /\ \A s \in Symbols, v \in Scans :
               guard[s] = v <=> (work[v].pc \in Holding /\ work[v].sym = s)
    BY <1>1, NameAssumption DEF TypeOK, Core, Held
  <2>4. ASSUME w = Cert /\ guard' = guard
        PROVE  Guarded(w, rec)
    BY <2>3, <2>4, NameAssumption DEF Guarded
  <2>5. ASSUME w # Cert /\ guard[work[w].sym] = None /\ guard' = [guard EXCEPT ![work[w].sym] = w]
        PROVE  Guarded(w, rec)
    <3>1. w \in Scans /\ work[w].pc \notin Holding /\ rec.pc \in Holding
      BY <1>1, <2>2, <2>5 DEF Workers, Holding
    <3>2. guard' \in [Symbols -> Scans \cup {None}]
          /\ \A s \in Symbols : guard'[s] = IF s = work[w].sym THEN w ELSE guard[s]
      BY <1>1, <2>3, <2>5, <3>1
    <3> QED BY <1>1, <2>2, <2>3, <2>5, <3>1, <3>2 DEF Guarded
  <2>6. Guarded(w, rec)
    BY <1>5, <2>4, <2>5
  <2>7. Sees(rec, excuse') /\ rec.pc \notin {"posted"} \cup CertPC
        /\ (rec.pc \notin {"idle", "items"} => rec.sym \in Symbols)
        /\ (work[w].pc = "posted" => w = Cert)
    BY <1>1, <2>2 DEF Sees, CertPC
  <2>8. rec \in Work /\ work' = [work EXCEPT ![w] = rec]
    BY <2>2
  <2> QED BY <1>2, <1>3, <2>6, <2>7, <2>8, QuietMove
<1> QED BY <1>4, <1>5 DEF ReserveSymbol

LEMMA RereadPositionsStep == ASSUME IInv, NEW w \in Workers, RereadPositions(w) PROVE IInv'
<1> DEFINE s == work[w].sym
<1>1. Core /\ TypeOK /\ work[w].pc = "positions2" /\ s \in Symbols /\ faults \in Nat
      /\ faults + 1 \in Nat
  BY DEF RereadPositions, IInv, Core, TypeOK, WorkShape, Proper
<1>2. UNCHANGED << node, crew, killed, order, pos, entry, owed, pm, close, controls >>
  BY DEF RereadPositions, broker, records
<1>3. CASE Leave(w) /\ UNCHANGED << excuse, faults >>
  <2>1. work[w].pc \notin {"idle", "items"} /\ (work[w].pc = "posted" => w = Cert)
    BY <1>1
  <2> QED BY <1>2, <1>3, <2>1, LeaveStep
<1>4. CASE /\ To(w, "orders2") /\ guard' = guard
           /\ \/ /\ Of(Tickets, s) = {} /\ faults' = faults
                 /\ IF Unseen(s) THEN Excuse(s) ELSE UNCHANGED excuse
              \/ Excuse(s) /\ faults' = faults + 1
  <2>1. "orders2" \in WorkPC /\ "orders2" \notin {"posted"} \cup CertPC
        /\ ("orders2" \in Holding <=> work[w].pc \in Holding)
        /\ work[w].pc \notin {"idle", "items", "posted"}
    BY <1>1 DEF WorkPC, CertPC, Holding
  <2>2. Gone(w, "orders2").pc = "orders2" /\ Gone(w, "orders2").sym = s
    BY <1>1, <2>1, Going
  <2>3. faults' \in Nat
    BY <1>1, <1>4
  <2>4. Remembers /\ (excuse'[s] = "no" => Of(Tickets, s) = {} /\ ~Unseen(s))
    <3>1. CASE Excuse(s)
      BY <1>1, <3>1, Excusing
    <3>2. CASE excuse' = excuse /\ Of(Tickets, s) = {} /\ ~Unseen(s)
      BY <1>1, <3>2 DEF Remembers, TypeOK
    <3> QED BY <1>4, <3>1, <3>2
  <2>5. Sees(Gone(w, "orders2"), excuse')
    BY <2>2, <2>4 DEF Sees, Of, Tickets, Unseen, Live
  <2>6. Remembers
    BY <2>4
  <2> QED BY <1>2, <1>4, <2>1, <2>3, <2>5, <2>6, GoStep
<1> QED BY <1>3, <1>4 DEF RereadPositions

LEMMA RereadOrdersStep == ASSUME IInv, NEW w \in Workers, RereadOrders(w) PROVE IInv'
<1> DEFINE s == work[w].sym
<1>1. Core /\ TypeOK /\ work[w].pc = "orders2" /\ s \in Symbols /\ faults \in Nat
      /\ faults + 1 \in Nat
  BY DEF RereadOrders, IInv, Core, TypeOK, WorkShape, Proper
<1>2. UNCHANGED << node, crew, killed, order, pos, entry, owed, pm, close, controls >>
  BY DEF RereadOrders, broker, records
<1>3. CASE Leave(w) /\ UNCHANGED << excuse, faults >>
  <2>1. work[w].pc \notin {"idle", "items"} /\ (work[w].pc = "posted" => w = Cert)
    BY <1>1
  <2> QED BY <1>2, <1>3, <2>1, LeaveStep
<1>4. CASE /\ To(w, "post") /\ guard' = guard
           /\ \/ Of(Pending, s) = {} /\ excuse' = excuse /\ faults' = faults
              \/ Excuse(s) /\ faults' = faults + 1
  <2>1. "post" \in WorkPC /\ "post" \notin {"posted"} \cup CertPC
        /\ ("post" \in Holding <=> work[w].pc \in Holding)
        /\ work[w].pc \notin {"idle", "items", "posted"}
    BY <1>1 DEF WorkPC, CertPC, Holding
  <2>2. Gone(w, "post").pc = "post" /\ Gone(w, "post").sym = s
    BY <1>1, <2>1, Going
  <2>3. faults' \in Nat
    BY <1>1, <1>4
  <2>4. Remembers /\ (excuse'[s] = "no" => excuse[s] = "no" /\ Of(Pending, s) = {})
    <3>1. CASE Excuse(s)
      BY <1>1, <3>1, Excusing
    <3>2. CASE excuse' = excuse /\ Of(Pending, s) = {}
      BY <1>1, <3>2 DEF Remembers, TypeOK
    <3> QED BY <1>4, <3>1, <3>2
  <2>5. Sees(work[w], excuse)
    BY <1>1 DEF Core, Looked
  <2>6. Sees(Gone(w, "post"), excuse')
    BY <1>1, <2>2, <2>4, <2>5 DEF Sees, Of, Pending
  <2>7. Remembers
    BY <2>4
  <2> QED BY <1>2, <1>4, <2>1, <2>3, <2>6, <2>7, GoStep
<1> QED BY <1>3, <1>4 DEF RereadOrders

LEMMA ReadFaultStep == ASSUME IInv, NEW w \in Workers, ReadFault(w) PROVE IInv'
<1>1. work[w].pc \notin {"idle", "items"} /\ (work[w].pc = "posted" => w = Cert)
      /\ Leave(w) /\ faults' = faults /\ excuse' = excuse
  BY DEF ReadFault
<1>2. UNCHANGED << node, crew, killed, order, pos, entry, owed, pm, close, controls >>
  BY DEF ReadFault, broker, records
<1> QED BY <1>1, <1>2, LeaveStep

-----------------------------------------------------------------------------
(* The post: no other order of the symbol lives, and none is about to.     *)
LEMMA PostOrderStep == ASSUME IInv, NEW w \in Workers, PostOrder(w) PROVE IInv'
<1> DEFINE s == work[w].sym
<1>1. /\ Core /\ Rows /\ TypeOK /\ OrderShape /\ work[w] \in Work /\ work[w].pc = "post"
      /\ s \in Symbols
  BY DEF PostOrder, IInv, Core, TypeOK, WorkShape, Proper
<1>2. PICK o \in Orders :
        /\ order[o] = NoOrder
        /\ order' = [order EXCEPT ![o] = [state |-> "flight", sym |-> s, by |-> w]]
        /\ work' = [work EXCEPT ![w].pc = "posted", ![w].order = o]
  BY DEF PostOrder
<1>3. /\ pos' = pos /\ entry' = entry /\ guard' = guard /\ close' = close /\ pm' = pm
      /\ owed' = owed /\ UNCHANGED << node, crew, killed, faults, controls >>
  BY DEF PostOrder, records
<1> DEFINE rec == [work[w] EXCEPT !.pc = "posted", !.order = o]
           new == [state |-> "flight", sym |-> s, by |-> w]
<1>4. work' = [work EXCEPT ![w] = rec]
  BY <1>1, <1>2 DEF TypeOK
<1>5. rec \in Work /\ rec.pc = "posted" /\ rec.sym = s /\ rec.order = o
  BY <1>1 DEF Work, WorkPC
<1>6. new \in Order /\ new.state = "flight" /\ new.sym = s /\ new.by = w
  BY <1>1 DEF Order, OrderState
<1>7. order' = [order EXCEPT ![o] = new]
  BY <1>2
<1> HIDE DEF rec, new
<1>w. /\ work' \in [Workers -> Work] /\ work'[w] = rec
      /\ \A v \in Workers \ {w} : work'[v] = work[v]
  BY <1>1, <1>4, <1>5 DEF TypeOK
<1>o. /\ order' \in [Orders -> Order] /\ order'[o] = new
      /\ \A p \in Orders \ {o} : order'[p] = order[p]
  BY <1>1, <1>6, <1>7 DEF TypeOK
<1>n. order[o].state = "none" /\ order[o].by = None /\ pos[o] = "none" /\ entry[o] = "none"
  BY <1>1, <1>2 DEF NoOrder, OrderShape, Rows, Unwritten
<1>c. Cert \in Workers /\ Scans \subseteq Workers /\ Cert \notin Scans /\ None \notin Scans
      /\ Workers = Scans \cup {Cert}
  BY NameAssumption DEF Workers
<1>l. \A p \in Orders \ {o} : Live(p)' <=> Live(p)
  BY <1>3, <1>o DEF Live
<1> HIDE DEF Orders, Order, Work, Pm, Setups, PosState, CloseState, Excuses, Workers
<1>8. /\ Remembers
      /\ \A v \in Workers \ {w} : Deciding(v, s) /\ Cert \in {v, w} => excuse'[s] # "no"
  <2>1. CASE Excuse(s)
    BY <1>1, <2>1, Excusing
  <2>2. CASE /\ excuse' = excuse
             /\ ~ \E v \in Workers \ {w} : Deciding(v, s) /\ Cert \in {v, w}
    BY <1>1, <2>2 DEF Remembers, TypeOK
  <2> QED BY <2>1, <2>2 DEF PostOrder
<1>9. \A t \in Symbols : excuse'[t] = "no" => excuse[t] = "no"
  BY <1>8 DEF Remembers
<1>10. Held'
  <2>1. \A v \in Scans : /\ work'[v].sym = work[v].sym
                         /\ work'[v].pc \in Holding <=> work[v].pc \in Holding
    BY <1>1, <1>5, <1>w, <1>c DEF Holding
  <2> QED BY <1>1, <1>3, <2>1 DEF Core, Held
<1>11. TypeOK'
  <2>1. guard' \in [Symbols -> Scans \cup {None}]
    BY <1>1, <1>3 DEF TypeOK
  <2>2. \A t \in Symbols : guard'[t] # None =>
            work'[guard'[t]].pc \in {"positions2", "orders2", "post", "posted"}
    BY <1>10, <2>1 DEF Held, Holding
  <2> QED BY <1>1, <1>3, <1>8, <1>w, <1>o, <2>1, <2>2 DEF TypeOK, Remembers
<1>12. OrderShape'
  BY <1>1, <1>3, <1>6, <1>o, <1>n DEF OrderShape
<1>13. WorkShape'
  <2> SUFFICES ASSUME NEW v \in Workers PROVE Proper(v, work[v])'
    BY DEF WorkShape
  <2>1. CASE v = w
    BY <1>1, <1>5, <1>6, <1>w, <1>o, <2>1 DEF Proper, CertPC
  <2>2. CASE v # w
    <3>1. Proper(v, work[v]) /\ work'[v] = work[v]
      BY <1>1, <1>w, <2>2 DEF Core, WorkShape
    <3> QED BY <1>n, <1>o, <3>1 DEF Proper
  <2> QED BY <2>1, <2>2
<1>14. Looked'
  <2> SUFFICES ASSUME NEW v \in Workers, work'[v].pc \in {"orders2", "post"},
                      excuse'[work'[v].sym] = "no"
               PROVE  \A p \in Orders : order'[p].sym = work'[v].sym /\ Live(p)' =>
                   work'[v].pc = "orders2" /\ order'[p].state = "PLACED" /\ pos'[p] = "none"
    BY DEF Looked, Sees
  <2>1. v # w /\ work'[v] = work[v] /\ work[v].sym \in Symbols /\ Sees(work[v], excuse)
    BY <1>1, <1>5, <1>w DEF Core, WorkShape, Proper, Looked
  <2>2. work[v].sym # s
    <3> SUFFICES ASSUME work[v].sym = s PROVE FALSE
      OBVIOUS
    <3>1. Deciding(v, s)
      BY <2>1 DEF Deciding
    <3>2. v \in Scans /\ w \in Scans
      BY <1>8, <1>c, <2>1, <3>1
    <3>3. guard[s] = v /\ guard[s] = w
      BY <1>1, <2>1, <3>2 DEF Core, Held, Holding
    <3> QED BY <2>1, <3>3
  <2>3. \A p \in Orders : order'[p].sym = work[v].sym => p # o
    BY <1>6, <1>o, <2>2
  <2> QED BY <1>3, <1>9, <1>l, <1>o, <2>1, <2>3 DEF Sees
<1>15. Alone'
  <2> SUFFICES ASSUME NEW t \in Symbols, excuse'[t] = "no", NEW p \in Orders, NEW q \in Orders,
                      order'[p].sym = t, order'[q].sym = t, Live(p)', Live(q)'
               PROVE  p = q
    BY DEF Alone
  <2>1. CASE t = s
    <3>1. \A r \in Orders : order[r].sym = s => ~Live(r)
      BY <1>1, <1>9, <2>1 DEF Core, Looked, Sees
    <3> QED BY <1>l, <1>o, <2>1, <3>1
  <2>2. CASE t # s
    BY <1>1, <1>6, <1>9, <1>l, <1>o, <2>2 DEF Core, Alone
  <2> QED BY <2>1, <2>2
<1>16. Scripted'
  <2>1. CASE w = Cert
    BY <1>5, <1>w, <2>1 DEF Scripted, Script
  <2>2. CASE w # Cert
    <3>1. Proper(Cert, work[Cert]) /\ work'[Cert] = work[Cert]
      BY <1>1, <1>w, <1>c, <2>2 DEF Core, WorkShape
    <3> QED BY <1>1, <1>3, <1>9, <3>1 DEF Core, Scripted, Script, Proper
  <2> QED BY <2>1, <2>2
<1>17. Closes' /\ ExitIsRecorded'
  BY <1>1, <1>3 DEF Core, Closes, ExitIsRecorded
<1>18. OutcomeIsTrue'
  <2> SUFFICES ASSUME NEW p \in Orders
               PROVE  /\ entry[p] = "EXECUTED" => order'[p].state \in {"DONE", "PARTIAL", "PLACED"}
                      /\ entry[p] = "BLOCK" /\ excuse'[order'[p].sym] # "lost" =>
                             \/ order'[p].state = "REJECT"
                             \/ node = "tools" /\ order'[p].state = "PARTIAL"
    BY <1>3 DEF OutcomeIsTrue
  <2>1. CASE p = o
    BY <1>n, <2>1
  <2>2. CASE p # o
    <3>1. order'[p] = order[p] /\ (entry[p] # "none" => order[p].sym \in Symbols)
      BY <1>1, <1>o, <2>2 DEF OrderShape, Rows, Unwritten
    <3>2. entry[p] = "BLOCK" => (excuse[order[p].sym] = "lost" => excuse'[order[p].sym] = "lost")
      BY <1>8, <3>1 DEF Remembers
    <3> QED BY <1>1, <3>1, <3>2 DEF Rows, OutcomeIsTrue
  <2> QED BY <2>1, <2>2
<1>19. EveryOrderHasARow'
  <2> SUFFICES ASSUME NEW p \in Orders, order'[p].by \in Scans
               PROVE  \/ entry[p] # "none"
                      \/ work'[order'[p].by].pc = "posted" /\ work'[order'[p].by].order = p
                      \/ excuse'[order'[p].sym] = "lost"
    BY <1>3 DEF EveryOrderHasARow
  <2>1. CASE p = o
    BY <1>5, <1>6, <1>o, <1>w, <2>1
  <2>2. CASE p # o
    <3>1. order'[p] = order[p] /\ order[p].sym \in Symbols
      BY <1>1, <1>o, <1>c, <2>2 DEF OrderShape, NoOrder
    <3>2. \/ entry[p] # "none"
          \/ work[order[p].by].pc = "posted" /\ work[order[p].by].order = p
          \/ excuse[order[p].sym] = "lost"
      BY <1>1, <3>1 DEF Rows, EveryOrderHasARow
    <3>3. work[order[p].by].pc = "posted" => work'[order[p].by] = work[order[p].by]
      BY <1>1, <1>w, <1>c, <3>1
    <3>4. excuse[order[p].sym] = "lost" => excuse'[order[p].sym] = "lost"
      BY <1>8, <3>1 DEF Remembers
    <3> QED BY <3>1, <3>2, <3>3, <3>4
  <2> QED BY <2>1, <2>2
<1>20. Unwritten'
  <2>1. \A p \in Orders :
            /\ order'[p].state = "none" => entry[p] = "none"
            /\ order'[p].state = "flight" => entry[p] = "none" \/ excuse'[order'[p].sym] = "lost"
    <3> SUFFICES ASSUME NEW p \in Orders, p # o
                 PROVE  /\ order[p].state = "none" => entry[p] = "none"
                        /\ order[p].state = "flight" =>
                               entry[p] = "none" \/ excuse'[order[p].sym] = "lost"
      BY <1>n, <1>o
    <3> QED BY <1>1, <1>8 DEF Rows, Unwritten, OrderShape, Remembers
  <2>2. \A v \in Scans : work'[v].pc = "posted" => entry[work'[v].order] = "none"
    BY <1>1, <1>5, <1>n, <1>w, <1>c DEF Rows, Unwritten
  <2> QED BY <1>3, <2>1, <2>2 DEF Unwritten
<1> QED BY <1>10, <1>11, <1>12, <1>13, <1>14, <1>15, <1>16, <1>17, <1>18, <1>19, <1>20
        DEF IInv, Core, Rows

-----------------------------------------------------------------------------
(* Answers.  The script goes on with its order, or fails.                  *)
LEMMA CertMove ==
    ASSUME IInv, NEW pc \in {"failed"} \cup CertPC, To(Cert, pc), guard' = guard,
           work[Cert].pc \in {"posted"} \cup CertPC,
           pc # "failed" => order[work[Cert].order].state = "DONE",
           faults' \in Nat, Remembers,
           close' \in [{Manager, Cert} -> [ticket : Orders \cup {None}, state : CloseState]],
           close'[Manager] = close[Manager],
           close'[Cert].state = "flight" => close'[Cert].ticket \in Orders,
           Script(Gone(Cert, pc), close'[Cert], excuse'),
           UNCHANGED << node, crew, killed, order, pos, entry, owed, pm, controls >>
    PROVE  IInv'
<1>1. Core /\ TypeOK /\ Cert \in Workers /\ Cert \notin Scans /\ pc \in WorkPC
  BY NameAssumption DEF IInv, Core, Workers, WorkPC, CertPC
<1> DEFINE rec == Gone(Cert, pc)
<1>2. /\ rec \in Work /\ rec.pc = pc /\ rec.sym = work[Cert].sym /\ rec.order = work[Cert].order
      /\ work' = [work EXCEPT ![Cert] = rec]
  BY <1>1, Going
<1> HIDE DEF rec
<1>3. Guarded(Cert, rec)
  BY <1>1 DEF TypeOK, Guarded
<1>4. ScriptCloses(Cert, rec)
  BY DEF ScriptCloses, rec
<1>5. Proper(Cert, work[Cert])
  BY <1>1 DEF Core, WorkShape
<1>6. Proper(Cert, rec)
  BY <1>2, <1>5 DEF Proper, CertPC
<1>7. Sees(rec, excuse') /\ rec.pc # "posted" /\ (work[Cert].pc = "posted" => Cert = Cert)
  BY <1>2 DEF Sees, CertPC
<1>8. entry' \in [Orders -> {"none", "EXECUTED", "BLOCK"}] /\ controls' \in Nat
  BY <1>1 DEF TypeOK
<1>9. Core'
  BY <1>1, <1>2, <1>3, <1>4, <1>6, <1>7, <1>8, Moving
<1>10. Rows'
  BY <1>1, <1>2, <1>7, RowsKept
<1> QED BY <1>9, <1>10 DEF IInv

\* What a row may say of an order.
RowIsTrue(status, o, ex) ==
    /\ status = "EXECUTED" => order[o].state \in {"DONE", "PARTIAL", "PLACED"}
    /\ status = "BLOCK" /\ ex[order[o].sym] # "lost" =>
           \/ order[o].state = "REJECT"
           \/ node = "tools" /\ order[o].state = "PARTIAL"

(* A scan has its answer, or gives up on it, and writes a true row.        *)
LEMMA RowWritten ==
    ASSUME IInv, NEW w \in Scans, work[w].pc = "posted", Leave(w),
           NEW status \in {"EXECUTED", "BLOCK"},
           entry' = [entry EXCEPT ![work[w].order] = status],
           RowIsTrue(status, work[w].order, excuse'),
           order[work[w].order].state = "flight" => excuse'[order[work[w].order].sym] = "lost",
           faults' \in Nat, Remembers,
           UNCHANGED << node, crew, killed, order, pos, owed, pm, close, controls >>
    PROVE  IInv'
<1> DEFINE o == work[w].order
<1>1. Core /\ Rows /\ TypeOK /\ OrderShape /\ w \in Workers /\ w # Cert /\ Cert \notin Scans
  BY NameAssumption DEF IInv, Core, Workers
<1>2. o \in Orders /\ order[o].by = w /\ order[o].state # "none" /\ order[o].sym \in Symbols
  BY <1>1 DEF Core, WorkShape, Proper
<1>3. work[w].pc \notin {"idle", "items"}
  OBVIOUS
<1>4. /\ LeftAs(w) \in Work /\ work' = [work EXCEPT ![w] = LeftAs(w)]
      /\ LeftAs(w).pc \in {"failed", "items"}
      /\ LeftAs(w).pc = "failed" => LeftAs(w).sym \in Symbols
      /\ Guarded(w, LeftAs(w))
  BY <1>1, <1>3, Leaving
<1>5. Proper(w, LeftAs(w)) /\ Sees(LeftAs(w), excuse')
  BY <1>4 DEF Proper, CertPC, Sees
<1>6. ScriptCloses(w, LeftAs(w))
  BY <1>1 DEF ScriptCloses, TypeOK, Core, Closes
<1>7. entry' \in [Orders -> {"none", "EXECUTED", "BLOCK"}] /\ controls' \in Nat
  BY <1>1, <1>2 DEF TypeOK
<1>8. Core'
  BY <1>1, <1>4, <1>5, <1>6, <1>7, Moving
<1>e. entry'[o] = status /\ \A p \in Orders \ {o} : entry'[p] = entry[p]
  BY <1>1, <1>2 DEF TypeOK
<1>w. work'[w].pc # "posted" /\ \A v \in Workers \ {w} : work'[v] = work[v]
  BY <1>1, <1>4 DEF TypeOK
<1>s. \A p \in Orders : order[p].state # "none" => order[p].sym \in Symbols
  BY <1>1 DEF OrderShape
<1>n. \A p \in Orders : order[p].state = "none" => entry[p] = "none" /\ order[p].by \notin Scans
  BY <1>1, NameAssumption DEF Rows, Unwritten, OrderShape, NoOrder
<1> HIDE DEF o, Orders, Workers
<1>9. OutcomeIsTrue'
  <2> SUFFICES ASSUME NEW p \in Orders PROVE RowIsTrue(entry'[p], p, excuse')
    BY DEF OutcomeIsTrue, RowIsTrue
  <2>1. CASE p = o
    BY <1>e, <2>1 DEF o
  <2>2. CASE p # o
    BY <1>1, <1>e, <1>s, <1>n, <2>2 DEF Rows, OutcomeIsTrue, RowIsTrue, Remembers
  <2> QED BY <2>1, <2>2
<1>10. EveryOrderHasARow'
  <2> SUFFICES ASSUME NEW p \in Orders, order[p].by \in Scans
               PROVE  \/ entry'[p] # "none"
                      \/ work'[order[p].by].pc = "posted" /\ work'[order[p].by].order = p
                      \/ excuse'[order[p].sym] = "lost"
    BY DEF EveryOrderHasARow
  <2>1. CASE p = o
    BY <1>e, <2>1
  <2>2. CASE p # o
    <3>1. \/ entry[p] # "none"
          \/ work[order[p].by].pc = "posted" /\ work[order[p].by].order = p
          \/ excuse[order[p].sym] = "lost"
      BY <1>1 DEF Rows, EveryOrderHasARow
    <3>2. order[p].by = w => work[order[p].by].order # p
      BY <2>2 DEF o
    <3>3. order[p].by # w => work'[order[p].by] = work[order[p].by]
      BY <1>w DEF Workers
    <3>4. excuse[order[p].sym] = "lost" => excuse'[order[p].sym] = "lost"
      BY <1>s, <1>n DEF Remembers
    <3> QED BY <1>e, <2>2, <3>1, <3>2, <3>3, <3>4
  <2> QED BY <2>1, <2>2
<1>11. Unwritten'
  <2>1. \A p \in Orders :
            /\ order[p].state = "none" => entry'[p] = "none"
            /\ order[p].state = "flight" => entry'[p] = "none" \/ excuse'[order[p].sym] = "lost"
    <3> SUFFICES ASSUME NEW p \in Orders
                 PROVE  /\ order[p].state = "none" => entry'[p] = "none"
                        /\ order[p].state = "flight" =>
                               entry'[p] = "none" \/ excuse'[order[p].sym] = "lost"
      OBVIOUS
    <3>1. CASE p = o
      BY <1>2, <3>1 DEF o
    <3>2. CASE p # o
      BY <1>1, <1>e, <1>s, <3>2 DEF Rows, Unwritten, Remembers
    <3> QED BY <3>1, <3>2
  <2>2. ASSUME NEW v \in Scans, work'[v].pc = "posted" PROVE entry'[work'[v].order] = "none"
    <3>1. v # w /\ work'[v] = work[v] /\ v \in Workers
      BY <1>w, <2>2 DEF Workers
    <3>2. work[v].order \in Orders /\ order[work[v].order].by = v
      BY <1>1, <2>2, <3>1 DEF Core, WorkShape, Proper
    <3>3. work[v].order # o
      BY <1>2, <3>1, <3>2
    <3> QED BY <1>1, <1>e, <2>2, <3>1, <3>2, <3>3 DEF Rows, Unwritten
  <2> QED BY <2>1, <2>2 DEF Unwritten
<1> QED BY <1>8, <1>9, <1>10, <1>11 DEF IInv, Rows

LEMMA AnsweredStep == ASSUME IInv, NEW w \in Workers, Answered(w) PROVE IInv'
<1> DEFINE o == work[w].order
<1>1. /\ Core /\ Rows /\ TypeOK /\ work[w].pc = "posted" /\ order[o].state # "flight"
      /\ o \in Orders /\ order[o].state # "none" /\ order[o] \in Order
      /\ faults' = faults /\ excuse' = excuse
  BY DEF Answered, IInv, Core, TypeOK, WorkShape, Proper
<1>2. UNCHANGED << node, crew, killed, order, pos, owed, pm, close, controls >>
  BY DEF Answered, broker
<1>3. Remembers /\ faults' \in Nat
  BY <1>1 DEF Remembers, TypeOK
<1>4. CASE w = Cert
  <2> DEFINE pc == IF CertAccepts(order[o].state) THEN "find" ELSE "failed"
  <2>1. To(Cert, pc) /\ entry' = entry /\ guard' = guard
    BY <1>4 DEF Answered
  <2>2. pc \in {"failed"} \cup CertPC /\ pc \in WorkPC
    BY DEF CertPC, WorkPC
  <2>3. pc # "failed" => order[work[Cert].order].state = "DONE"
    BY <1>4 DEF CertAccepts
  <2>4. Gone(Cert, pc).pc \notin {"close", "closed", "passed"}
    <3>1. Gone(Cert, pc).pc = pc
      BY <1>1, <1>4, <2>2, Going
    <3> QED BY <3>1
  <2>5. Script(Gone(Cert, pc), close'[Cert], excuse')
    BY <2>4 DEF Script
  <2>6. /\ close' \in [{Manager, Cert} -> [ticket : Orders \cup {None}, state : CloseState]]
        /\ close'[Manager] = close[Manager]
        /\ close'[Cert].state = "flight" => close'[Cert].ticket \in Orders
    BY <1>1, <1>2 DEF TypeOK, Core, Closes
  <2>7. work[Cert].pc \in {"posted"} \cup CertPC
    BY <1>1, <1>4
  <2> HIDE DEF pc
  <2> QED BY <1>2, <1>3, <2>1, <2>2, <2>3, <2>5, <2>6, <2>7, CertMove
<1>5. CASE w # Cert
  <2> DEFINE status == RecordedAs(order[o].state)
  <2>1. w \in Scans /\ Leave(w) /\ entry' = [entry EXCEPT ![work[w].order] = status]
    BY <1>5 DEF Answered, Workers
  <2>2. status \in {"EXECUTED", "BLOCK"}
    BY DEF RecordedAs
  <2>3. node \in {"tools", "windows"} /\ order[o].state \in {"DONE", "PARTIAL", "PLACED", "REJECT"}
    BY <1>1 DEF TypeOK, Setups, Order, OrderState
  <2>4. RowIsTrue(status, work[w].order, excuse')
    BY <2>3 DEF RowIsTrue, RecordedAs, Success, ToolsSuccess, WindowsSuccess
  <2>5. order[work[w].order].state = "flight" => excuse'[order[work[w].order].sym] = "lost"
    BY <1>1
  <2>6. work[w].pc = "posted"
    BY <1>1
  <2> HIDE DEF status
  <2> QED BY <1>2, <1>3, <2>1, <2>2, <2>4, <2>5, <2>6, RowWritten
<1> QED BY <1>4, <1>5

LEMMA LoseAnswerStep == ASSUME IInv, NEW w \in Workers, LoseAnswer(w) PROVE IInv'
<1> DEFINE o == work[w].order
<1>1. /\ Core /\ Rows /\ TypeOK /\ work[w].pc = "posted" /\ o \in Orders
      /\ order[o].sym \in Symbols /\ Leave(w)
      /\ excuse' = [excuse EXCEPT ![order[o].sym] = "lost"]
  BY DEF LoseAnswer, IInv, Core, WorkShape, Proper
<1>2. UNCHANGED << node, crew, killed, order, pos, owed, pm, close, controls >>
  BY DEF LoseAnswer, broker
<1>3. faults' \in Nat
  BY <1>1 DEF LoseAnswer, TypeOK
<1>4. Remembers /\ excuse'[order[o].sym] = "lost"
  <2>1. excuse \in [Symbols -> Excuses] /\ "lost" \in Excuses
    BY <1>1 DEF TypeOK, Excuses
  <2> QED BY <1>1, <2>1 DEF Remembers
<1>5. CASE w = Cert
  <2>1. entry' = entry
    BY <1>1, <1>5 DEF LoseAnswer, TypeOK
  <2>2. work[w].pc \notin {"idle", "items"}
    BY <1>1
  <2>3. /\ LeftAs(w) \in Work /\ work' = [work EXCEPT ![w] = LeftAs(w)]
        /\ LeftAs(w).pc \in {"failed", "items"}
        /\ LeftAs(w).pc = "failed" => LeftAs(w).sym \in Symbols
        /\ Guarded(w, LeftAs(w))
    BY <1>1, <2>2, Leaving
  <2>4. Sees(LeftAs(w), excuse') /\ LeftAs(w).pc \notin {"posted"} \cup CertPC
        /\ (LeftAs(w).pc \notin {"idle", "items"} => LeftAs(w).sym \in Symbols)
    BY <2>3 DEF Sees, CertPC
  <2>5. Remembers /\ (work[w].pc = "posted" => w = Cert)
    BY <1>4, <1>5
  <2> QED BY <1>2, <1>3, <2>1, <2>3, <2>4, <2>5, QuietMove
<1>6. CASE w # Cert
  <2>1. w \in Scans /\ entry' = [entry EXCEPT ![work[w].order] = "BLOCK"]
    BY <1>6 DEF LoseAnswer, Workers
  <2>2. RowIsTrue("BLOCK", work[w].order, excuse')
    BY <1>4 DEF RowIsTrue
  <2>3. order[work[w].order].state = "flight" => excuse'[order[work[w].order].sym] = "lost"
    BY <1>4
  <2>4. work[w].pc = "posted" /\ Leave(w) /\ Remembers /\ "BLOCK" \in {"EXECUTED", "BLOCK"}
    BY <1>1, <1>4
  <2> QED BY <1>2, <1>3, <2>1, <2>2, <2>3, <2>4, RowWritten
<1> QED BY <1>5, <1>6

(* The script finds the position its order opened, if it still lives.      *)
LEMMA CertFindStep == ASSUME IInv, CertFind PROVE IInv'
<1> DEFINE o == work[Cert].order
<1>1. /\ Core /\ TypeOK /\ Cert \in Workers /\ work[Cert].pc = "find"
      /\ o \in Orders /\ order[o].sym = work[Cert].sym /\ work[Cert].sym \in Symbols
      /\ order[o].state = "DONE" /\ To(Cert, "close") /\ guard' = guard
      /\ faults' = faults /\ excuse' = excuse
  BY DEF CertFind, IInv, Core, Workers, WorkShape, Proper, CertPC
<1>2. UNCHANGED << node, crew, killed, order, pos, entry, owed, pm, controls >>
  BY DEF CertFind, broker, records
<1>3. PICK t \in NewTickets : close' = [close EXCEPT ![Cert] = [ticket |-> t, state |-> "flight"]]
  BY DEF CertFind
<1>4. /\ t \in Orders /\ pos[t] \in {"open", "leaving"} /\ order[t].sym = work[Cert].sym
  BY <1>3 DEF NewTickets, Of, Tickets
<1>5. /\ close' \in [{Manager, Cert} -> [ticket : Orders \cup {None}, state : CloseState]]
      /\ close'[Manager] = close[Manager] /\ close'[Cert].ticket = t
  BY <1>1, <1>3, <1>4, NameAssumption DEF TypeOK, CloseState
<1>6. excuse[work[Cert].sym] = "no" => t = o \/ pos[o] = "closed"
  <2>1. pos[o] # "none" /\ pos[o] \in PosState
    BY <1>1 DEF Core, OrderShape, TypeOK
  <2>2. pos[o] # "closed" => Live(o)
    BY <2>1 DEF Live, PosState
  <2>3. Live(t)
    BY <1>4 DEF Live
  <2> QED BY <1>1, <1>4, <2>2, <2>3 DEF Core, Alone
<1>7. Remembers /\ faults' \in Nat
  BY <1>1 DEF Remembers, TypeOK
<1>8. /\ Gone(Cert, "close").pc = "close" /\ Gone(Cert, "close").sym = work[Cert].sym
      /\ Gone(Cert, "close").order = o
  <2>1. "close" \in WorkPC
    BY DEF WorkPC
  <2> QED BY <1>1, <2>1, Going
<1>9. Script(Gone(Cert, "close"), close'[Cert], excuse')
  BY <1>1, <1>4, <1>5, <1>6, <1>8 DEF Script
<1>10. "close" \in {"failed"} \cup CertPC /\ work[Cert].pc \in {"posted"} \cup CertPC
  BY <1>1 DEF CertPC
<1>11. close'[Cert].state = "flight" => close'[Cert].ticket \in Orders
  BY <1>4, <1>5
<1>12. "close" # "failed" => order[work[Cert].order].state = "DONE"
  BY <1>1
<1> QED BY <1>1, <1>2, <1>5, <1>7, <1>9, <1>10, <1>11, <1>12, CertMove

LEMMA CertClosedStep == ASSUME IInv, CertClosed PROVE IInv'
<1> DEFINE pc == IF close[Cert].state = "DONE" THEN "closed" ELSE "failed"
<1>1. /\ Core /\ TypeOK /\ Cert \in Workers /\ work[Cert].pc = "close"
      /\ order[work[Cert].order].state = "DONE" /\ To(Cert, pc) /\ guard' = guard
      /\ faults' = faults /\ excuse' = excuse /\ close' = close
  BY DEF CertClosed, IInv, Core, Workers, WorkShape, Proper, CertPC
<1>2. UNCHANGED << node, crew, killed, order, pos, entry, owed, pm, controls >>
  BY DEF CertClosed, broker, records
<1>3. Remembers /\ faults' \in Nat
  BY <1>1 DEF Remembers, TypeOK
<1>4. pc \in {"failed"} \cup CertPC /\ pc \in WorkPC /\ pc \in {"closed", "failed"}
      /\ work[Cert].pc \in {"posted"} \cup CertPC
  BY <1>1 DEF CertPC, WorkPC
<1>5. /\ To(Cert, pc) /\ (pc # "failed" => order[work[Cert].order].state = "DONE")
  BY <1>1
<1> HIDE DEF pc
<1>6. /\ Gone(Cert, pc).pc = pc /\ Gone(Cert, pc).sym = work[Cert].sym
      /\ Gone(Cert, pc).order = work[Cert].order
  BY <1>1, <1>4, Going
<1>7. Script(work[Cert], close[Cert], excuse)
  BY <1>1 DEF Core, Scripted
<1>8. Script(Gone(Cert, pc), close'[Cert], excuse')
  BY <1>1, <1>4, <1>6, <1>7 DEF Script
<1>9. /\ close' \in [{Manager, Cert} -> [ticket : Orders \cup {None}, state : CloseState]]
      /\ close'[Manager] = close[Manager]
      /\ close'[Cert].state = "flight" => close'[Cert].ticket \in Orders
  BY <1>1 DEF TypeOK, Core, Closes
<1>10. guard' = guard
  BY <1>1
<1> QED BY <1>2, <1>3, <1>4, <1>5, <1>8, <1>9, <1>10, CertMove

LEMMA CertPassStep == ASSUME IInv, CertPass PROVE IInv'
<1>1. /\ Core /\ TypeOK /\ Cert \in Workers /\ work[Cert].pc = "closed"
      /\ work[Cert].sym \in Symbols
      /\ order[work[Cert].order].state = "DONE" /\ To(Cert, "passed") /\ guard' = guard
      /\ close' = close
  BY DEF CertPass, IInv, Core, Workers, WorkShape, Proper, CertPC
<1>2. UNCHANGED << node, crew, killed, order, pos, entry, owed, pm, controls >>
  BY DEF CertPass, broker, records
<1>3. /\ Remembers /\ faults' \in Nat
      /\ excuse'[work[Cert].sym] = "no" =>
             excuse[work[Cert].sym] = "no" /\ close[Cert].ticket \notin Tickets
  <2>1. CASE CertFlat(close[Cert].ticket) /\ UNCHANGED << excuse, faults >>
    BY <1>1, <2>1 DEF Remembers, TypeOK, CertFlat
  <2>2. CASE faults' = faults + 1 /\ Excuse(work[Cert].sym)
    BY <1>1, <2>2, Excusing DEF TypeOK
  <2> QED BY <2>1, <2>2 DEF CertPass
<1>4. "passed" \in {"failed"} \cup CertPC /\ "passed" \in WorkPC
      /\ work[Cert].pc \in {"posted"} \cup CertPC
  BY <1>1 DEF CertPC, WorkPC
<1>5. /\ Gone(Cert, "passed").pc = "passed" /\ Gone(Cert, "passed").sym = work[Cert].sym
      /\ Gone(Cert, "passed").order = work[Cert].order
  BY <1>1, <1>4, Going
<1>6. Script(work[Cert], close[Cert], excuse)
  BY <1>1 DEF Core, Scripted
<1>7. Script(Gone(Cert, "passed"), close'[Cert], excuse')
  BY <1>1, <1>3, <1>5, <1>6 DEF Script, Tickets
<1>8. /\ close' \in [{Manager, Cert} -> [ticket : Orders \cup {None}, state : CloseState]]
      /\ close'[Manager] = close[Manager]
      /\ close'[Cert].state = "flight" => close'[Cert].ticket \in Orders
  BY <1>1 DEF TypeOK, Core, Closes
<1>9. "passed" # "failed" => order[work[Cert].order].state = "DONE"
  BY <1>1
<1> QED BY <1>1, <1>2, <1>3, <1>4, <1>7, <1>8, <1>9, CertMove

-----------------------------------------------------------------------------
(* A step of the manager touches its pass, its close and what it owes.     *)
LEMMA PassMove ==
    ASSUME IInv,
           UNCHANGED << node, crew, killed, order, pos, entry, work, guard, excuse, controls >>,
           pm' \in Pm, owed' \subseteq Orders, faults' \in Nat,
           close' \in [{Manager, Cert} -> [ticket : Orders \cup {None}, state : CloseState]],
           close'[Cert] = close[Cert], Closes', ExitIsRecorded'
    PROVE  IInv'
<1> USE DEF IInv, Core, Rows
<1> HIDE DEF Orders
<1>1. TypeOK'
  BY DEF TypeOK
<1>2. OrderShape' /\ WorkShape' /\ Held'
  BY DEF OrderShape, WorkShape, Proper, Held
<1>3. Looked' /\ Alone' /\ Scripted'
  BY DEF Looked, Sees, Alone, Scripted, Script, Live
<1>4. OutcomeIsTrue' /\ EveryOrderHasARow' /\ Unwritten'
  BY DEF OutcomeIsTrue, EveryOrderHasARow, Unwritten
<1> QED BY <1>1, <1>2, <1>3, <1>4

(* What the lemmas on passes use of the invariant.                         *)
LEMMA PassFacts ==
    ASSUME IInv
    PROVE  /\ pm \in Pm /\ owed \subseteq Orders /\ faults \in Nat /\ faults + 1 \in Nat
           /\ close \in [{Manager, Cert} -> [ticket : Orders \cup {None}, state : CloseState]]
           /\ Closes /\ ExitIsRecorded /\ Manager # Cert /\ None \notin Orders
           /\ pm.rows \subseteq Orders /\ NoPass \in Pm /\ NoPass.pc = "idle" /\ NoPass.rows = {}
           /\ NoClose \in [ticket : Orders \cup {None}, state : CloseState]
           /\ NoClose.state = "none"
<1>1. TypeOK /\ Closes /\ ExitIsRecorded
  BY DEF IInv, Core
<1>2. NoPass \in Pm /\ NoPass.pc = "idle" /\ NoPass.rows = {} /\ NoClose.state = "none"
      /\ NoClose \in [ticket : Orders \cup {None}, state : CloseState]
  BY DEF NoPass, Pm, PmPC, NoClose, CloseState
<1>3. None \notin Orders
  BY NameAssumption, BoundAssumption DEF Orders
<1>4. pm.rows \subseteq Orders
  BY <1>1 DEF TypeOK, Pm
<1> QED BY <1>1, <1>2, <1>3, <1>4, NameAssumption DEF TypeOK

\* The pass goes on to pc.
OnTo(pc, todo, ticket, rows) ==
    [pm EXCEPT !.pc = pc, !.todo = todo, !.ticket = ticket, !.rows = rows]

LEMMA PassFields ==
    ASSUME pm \in Pm, NEW pc \in PmPC, NEW todo \in SUBSET Orders,
           NEW ticket \in Orders \cup {None}, NEW rows \in SUBSET Orders
    PROVE  LET r == OnTo(pc, todo, ticket, rows)
           IN  r \in Pm /\ r.pc = pc /\ r.ticket = ticket /\ r.rows = rows
  BY DEF OnTo, Pm

(* A step of a pass that asks the terminal for nothing.                    *)
LEMMA PassGoes ==
    ASSUME IInv, NEW pc \in {"evaluate", "items", "positions"}, NEW todo \in SUBSET Orders,
           NEW ticket \in Orders \cup {None}, pc = "positions" => ticket \in Orders,
           pm.pc # "closing", pm' = OnTo(pc, todo, ticket, pm.rows), faults' \in Nat,
           UNCHANGED << node, crew, killed, order, pos, entry, work, guard, excuse, controls,
                        close, owed >>
    PROVE  IInv'
<1>1. /\ pm \in Pm /\ owed \subseteq Orders /\ Closes /\ ExitIsRecorded /\ pm.rows \subseteq Orders
      /\ close \in [{Manager, Cert} -> [ticket : Orders \cup {None}, state : CloseState]]
  BY PassFacts
<1>2. pc \in PmPC /\ pm.rows \in SUBSET Orders
  BY <1>1 DEF PmPC
<1>3. pm' \in Pm /\ pm'.pc = pc /\ pm'.ticket = ticket /\ pm'.rows = pm.rows
  BY <1>1, <1>2, PassFields
<1>4. Closes'
  BY <1>1, <1>3 DEF Closes
<1>5. ExitIsRecorded'
  BY <1>1, <1>3 DEF ExitIsRecorded
<1> QED BY <1>1, <1>3, <1>4, <1>5, PassMove

LEMMA BeginPassStep == ASSUME IInv, BeginPass PROVE IInv'
<1>1. /\ pm \in Pm /\ owed \subseteq Orders /\ Closes /\ ExitIsRecorded /\ faults \in Nat
      /\ close \in [{Manager, Cert} -> [ticket : Orders \cup {None}, state : CloseState]]
  BY PassFacts
<1>2. pm.pc = "idle" /\ pm' = [NoPass EXCEPT !.pc = "evaluate"]
      /\ faults' = faults /\ close' = close /\ owed' = owed
  BY DEF BeginPass, records
<1>3. UNCHANGED << node, crew, killed, order, pos, entry, work, guard, excuse, controls >>
  BY DEF BeginPass, broker, records
<1>4. pm' \in Pm /\ pm'.pc = "evaluate" /\ pm'.rows = {}
  BY <1>2 DEF NoPass, Pm, PmPC
<1>5. Closes'
  BY <1>1, <1>2, <1>4 DEF Closes
<1>6. ExitIsRecorded'
  BY <1>1, <1>2, <1>4 DEF Closes, ExitIsRecorded
<1>7. owed' \subseteq Orders /\ faults' \in Nat /\ close'[Cert] = close[Cert]
      /\ close' \in [{Manager, Cert} -> [ticket : Orders \cup {None}, state : CloseState]]
  BY <1>1, <1>2
<1> QED BY <1>3, <1>4, <1>5, <1>6, <1>7, PassMove

LEMMA EvaluateStep == ASSUME IInv, Evaluate PROVE IInv'
<1>1. pm.pc = "evaluate" /\ faults' = faults
  BY DEF Evaluate
<1>2. UNCHANGED << node, crew, killed, order, pos, entry, work, guard, excuse, controls,
                   close, owed >>
  BY DEF Evaluate, broker, records
<1>3. PICK signals \in SUBSET Eligible : pm' = [pm EXCEPT !.pc = "items", !.todo = signals]
  BY DEF Evaluate
<1>4. pm \in Pm /\ faults \in Nat
  BY PassFacts
<1>5. signals \in SUBSET Orders /\ pm.ticket \in Orders \cup {None}
  BY <1>3, <1>4 DEF Eligible, Tickets, Pm
<1>6. pm' = OnTo("items", signals, pm.ticket, pm.rows)
  BY <1>3, <1>4 DEF OnTo, Pm
<1>7. "items" \in {"evaluate", "items", "positions"}
      /\ ("items" = "positions" => pm.ticket \in Orders)
      /\ pm.pc # "closing" /\ faults' \in Nat
  BY <1>1, <1>4
<1> QED BY <1>2, <1>5, <1>6, <1>7, PassGoes

LEMMA NextExitStep == ASSUME IInv, NextExit PROVE IInv'
<1>1. pm.pc = "items" /\ faults' = faults
  BY DEF NextExit
<1>2. UNCHANGED << node, crew, killed, order, pos, entry, work, guard, excuse, controls,
                   close, owed >>
  BY DEF NextExit, broker, records
<1>3. pm \in Pm /\ faults \in Nat /\ pm.todo \subseteq Orders
  <2>1. pm \in Pm /\ faults \in Nat
    BY PassFacts
  <2> QED BY <2>1 DEF Pm
<1>4. PICK t \in pm.todo, pc \in {"positions", "items"} :
          pm' = [pm EXCEPT !.pc = pc, !.todo = @ \ {t},
                           !.ticket = IF pc = "items" THEN None ELSE t]
  BY DEF NextExit
<1> DEFINE ticket == IF pc = "items" THEN None ELSE t
           todo == pm.todo \ {t}
<1>5. ticket \in Orders \cup {None} /\ todo \in SUBSET Orders
      /\ (pc = "positions" => ticket \in Orders)
  BY <1>3, <1>4
<1>6. pm' = OnTo(pc, todo, ticket, pm.rows)
  BY <1>3, <1>4 DEF OnTo, Pm
<1>7. pc \in {"evaluate", "items", "positions"} /\ pm.pc # "closing" /\ faults' \in Nat
  BY <1>1, <1>3
<1> HIDE DEF ticket, todo
<1> QED BY <1>2, <1>5, <1>6, <1>7, PassGoes

LEMMA ExitPositionsStep == ASSUME IInv, ExitPositions PROVE IInv'
<1> DEFINE t == pm.ticket
<1>1. /\ pm.pc = "positions"
      /\ UNCHANGED << node, crew, killed, order, pos, entry, work, guard, excuse, controls, owed >>
  BY DEF ExitPositions, broker, records
<1>2. /\ pm \in Pm /\ owed \subseteq Orders /\ faults \in Nat /\ faults + 1 \in Nat
      /\ close \in [{Manager, Cert} -> [ticket : Orders \cup {None}, state : CloseState]]
      /\ Closes /\ ExitIsRecorded /\ Manager # Cert /\ pm.rows \subseteq Orders
  BY PassFacts
<1>3. t \in Orders /\ pm.todo \in SUBSET Orders /\ owed \subseteq pm.rows
  BY <1>1, <1>2 DEF Closes, Pm, ExitIsRecorded
<1>4. CASE /\ pm' = [pm EXCEPT !.pc = "closing"] /\ faults' = faults
           /\ close' = [close EXCEPT ![Manager] = [ticket |-> pm.ticket, state |-> "flight"]]
  <2>1. pm' \in Pm /\ pm'.pc = "closing" /\ pm'.ticket = t /\ pm'.rows = pm.rows
    BY <1>2, <1>4 DEF Pm, PmPC
  <2>2. /\ close' \in [{Manager, Cert} -> [ticket : Orders \cup {None}, state : CloseState]]
        /\ close'[Cert] = close[Cert] /\ close'[Manager].ticket = t
    BY <1>2, <1>3, <1>4 DEF CloseState
  <2>3. Closes'
    BY <1>2, <1>3, <2>1, <2>2 DEF Closes
  <2>4. ExitIsRecorded'
    BY <1>1, <1>3, <2>1 DEF ExitIsRecorded
  <2>5. owed' \subseteq Orders /\ faults' \in Nat
    BY <1>1, <1>2, <1>4
  <2> QED BY <1>1, <2>1, <2>2, <2>3, <2>4, <2>5, PassMove
<1>5. CASE /\ pm' = [pm EXCEPT !.pc = "items", !.ticket = None] /\ close' = close
           /\ faults' \in {faults, faults + 1}
  <2>1. pm' = OnTo("items", pm.todo, None, pm.rows)
    BY <1>2, <1>5 DEF OnTo, Pm
  <2>2. /\ "items" \in {"evaluate", "items", "positions"} /\ None \in Orders \cup {None}
        /\ "items" = "positions" => None \in Orders
        /\ pm.pc # "closing" /\ faults' \in Nat
    BY <1>1, <1>2, <1>5
  <2> QED BY <1>1, <1>3, <1>5, <2>1, <2>2, PassGoes
<1> QED BY <1>4, <1>5 DEF ExitPositions

LEMMA ExitAnsweredStep == ASSUME IInv, ExitAnswered PROVE IInv'
<1>1. /\ pm.pc = "closing" /\ owed' = owed /\ faults' = faults
      /\ pm' = [pm EXCEPT !.pc = "items", !.rows = @ \cup {pm.ticket}, !.ticket = None]
      /\ close' = [close EXCEPT ![Manager] = NoClose]
      /\ UNCHANGED << node, crew, killed, order, pos, entry, work, guard, excuse, controls >>
  BY DEF ExitAnswered, broker, records
<1>2. /\ pm \in Pm /\ owed \subseteq Orders /\ faults \in Nat
      /\ close \in [{Manager, Cert} -> [ticket : Orders \cup {None}, state : CloseState]]
      /\ Closes /\ ExitIsRecorded /\ Manager # Cert /\ pm.rows \subseteq Orders
      /\ NoClose \in [ticket : Orders \cup {None}, state : CloseState]
      /\ NoClose.state = "none"
  BY PassFacts
<1>3. pm.ticket \in Orders
  BY <1>1, <1>2 DEF Closes
<1>4. pm' \in Pm /\ pm'.pc = "items" /\ pm'.rows = pm.rows \cup {pm.ticket}
  BY <1>1, <1>2, <1>3 DEF Pm, PmPC
<1>5. /\ close' \in [{Manager, Cert} -> [ticket : Orders \cup {None}, state : CloseState]]
      /\ close'[Cert] = close[Cert] /\ close'[Manager].state = "none"
  BY <1>1, <1>2
<1>6. Closes'
  BY <1>2, <1>4, <1>5 DEF Closes
<1>7. ExitIsRecorded'
  BY <1>1, <1>2, <1>4 DEF ExitIsRecorded
<1>8. owed' \subseteq Orders /\ faults' \in Nat
  BY <1>1, <1>2
<1> QED BY <1>1, <1>4, <1>5, <1>6, <1>7, <1>8, PassMove

LEMMA EndPassStep == ASSUME IInv, EndPass PROVE IInv'
<1>1. /\ pm.pc = "items" /\ owed' = owed \ pm.rows /\ pm' = NoPass
      /\ faults' = faults /\ close' = close
      /\ UNCHANGED << node, crew, killed, order, pos, entry, work, guard, excuse, controls >>
  BY DEF EndPass, broker
<1>2. /\ owed \subseteq Orders /\ faults \in Nat /\ Closes /\ ExitIsRecorded
      /\ close \in [{Manager, Cert} -> [ticket : Orders \cup {None}, state : CloseState]]
      /\ NoPass \in Pm /\ NoPass.pc = "idle" /\ NoPass.rows = {}
  BY PassFacts
<1>3. Closes'
  BY <1>1, <1>2 DEF Closes
<1>4. owed' = {} /\ ExitIsRecorded'
  BY <1>1, <1>2 DEF ExitIsRecorded
<1>5. /\ pm' \in Pm /\ owed' \subseteq Orders /\ faults' \in Nat /\ close'[Cert] = close[Cert]
      /\ close' \in [{Manager, Cert} -> [ticket : Orders \cup {None}, state : CloseState]]
  BY <1>1, <1>2, <1>4
<1> QED BY <1>1, <1>3, <1>4, <1>5, PassMove

LEMMA FailPassStep == ASSUME IInv, FailPass PROVE IInv'
<1>1. /\ owed' = {} /\ pm' = NoPass /\ faults' \in {faults, faults + 1}
      /\ close' = [close EXCEPT ![Manager] = IF @.state = "flight" THEN @ ELSE NoClose]
      /\ UNCHANGED << node, crew, killed, order, pos, entry, work, guard, excuse, controls >>
  BY DEF FailPass, broker
<1>2. /\ faults \in Nat /\ faults + 1 \in Nat /\ Closes /\ Manager # Cert
      /\ close \in [{Manager, Cert} -> [ticket : Orders \cup {None}, state : CloseState]]
      /\ NoPass \in Pm /\ NoPass.pc = "idle" /\ NoPass.rows = {}
      /\ NoClose \in [ticket : Orders \cup {None}, state : CloseState]
      /\ NoClose.state = "none"
  BY PassFacts
<1>3. /\ close' \in [{Manager, Cert} -> [ticket : Orders \cup {None}, state : CloseState]]
      /\ close'[Cert] = close[Cert]
      /\ close'[Manager].state = "flight" => close'[Manager] = close[Manager]
  BY <1>1, <1>2
<1>4. Closes'
  BY <1>1, <1>2, <1>3 DEF Closes
<1>5. ExitIsRecorded'
  BY <1>1 DEF ExitIsRecorded
<1>6. pm' \in Pm /\ owed' \subseteq Orders /\ faults' \in Nat
  BY <1>1, <1>2
<1> QED BY <1>1, <1>3, <1>4, <1>5, <1>6, PassMove

-----------------------------------------------------------------------------
(* The kill switch is nothing the invariant is about.                      *)
LEMMA KillStep == ASSUME IInv, Kill PROVE IInv'
<1> USE DEF IInv, Core, Rows
<1>1. /\ UNCHANGED << node, crew, order, pos, entry, owed, work, guard, pm, close, excuse, faults >>
      /\ killed' \in BOOLEAN
  BY DEF Kill, broker, records, TypeOK
<1>2. controls' \in Nat
  BY DEF Kill, TypeOK
<1> HIDE DEF Orders
<1>3. TypeOK'
  BY <1>1, <1>2 DEF TypeOK
<1>4. OrderShape' /\ WorkShape' /\ Held' /\ Closes' /\ ExitIsRecorded'
  BY <1>1 DEF OrderShape, WorkShape, Proper, Held, Closes, ExitIsRecorded
<1>5. Looked' /\ Alone' /\ Scripted'
  BY <1>1 DEF Looked, Sees, Alone, Scripted, Script, Live
<1>6. OutcomeIsTrue' /\ EveryOrderHasARow' /\ Unwritten'
  BY <1>1 DEF OutcomeIsTrue, EveryOrderHasARow, Unwritten
<1> QED BY <1>3, <1>4, <1>5, <1>6

(* Scans, the pass and the reservations end with the process.  The answers *)
(* it waited for are lost; the script goes on.                             *)
LEMMA ProcessRestartStep == ASSUME IInv, ProcessRestart PROVE IInv'
<1>1. /\ Core /\ Rows /\ TypeOK /\ OrderShape
      /\ UNCHANGED << node, crew, killed, order, pos, entry, close, controls >>
      /\ work' = [w \in Workers |-> IF w = Cert THEN work[w] ELSE NoWork]
      /\ guard' = [s \in Symbols |-> None] /\ owed' = {} /\ pm' = NoPass
      /\ excuse' = [s \in Symbols |->
             IF \E w \in Scans : work[w].pc = "posted" /\ work[w].sym = s
             THEN "lost" ELSE excuse[s]]
  BY DEF ProcessRestart, broker, IInv, Core
<1>2. faults' \in Nat
  BY <1>1 DEF ProcessRestart, TypeOK
<1>3. /\ NoPass \in Pm /\ NoPass.pc = "idle" /\ NoPass.rows = {} /\ NoWork \in Work
      /\ NoWork.pc = "idle"
  BY DEF NoPass, Pm, PmPC, NoWork, Work, WorkPC
<1>4. Cert \in Workers /\ Scans \subseteq Workers /\ Cert \notin Scans /\ None \notin Scans
  BY NameAssumption DEF Workers
<1>5. /\ work' \in [Workers -> Work] /\ work'[Cert] = work[Cert]
      /\ \A w \in Workers \ {Cert} : work'[w] = NoWork
  BY <1>1, <1>3, <1>4 DEF TypeOK
<1>6. Remembers
  BY <1>1 DEF Remembers, TypeOK, Excuses
<1>7. \A w \in Scans : work'[w].pc = "idle"
  BY <1>3, <1>4, <1>5
<1>s. \A o \in Orders : order[o].state # "none" => order[o].sym \in Symbols
  BY <1>1 DEF OrderShape
<1>n. \A o \in Orders : order[o].state = "none" => entry[o] = "none" /\ order[o].by \notin Scans
  BY <1>1, NameAssumption DEF Rows, Unwritten, OrderShape, NoOrder
<1> HIDE DEF Orders, Workers
<1>8. TypeOK'
  <2>1. guard' \in [Symbols -> Scans \cup {None}] /\ \A s \in Symbols : guard'[s] = None
    BY <1>1
  <2> QED BY <1>1, <1>2, <1>3, <1>5, <1>6, <2>1 DEF TypeOK, Remembers
<1>9. OrderShape' /\ ExitIsRecorded'
  BY <1>1 DEF OrderShape, ExitIsRecorded
<1>10. Held'
  BY <1>1, <1>4, <1>7 DEF Held, Holding
<1>11. WorkShape' /\ Looked'
  <2>1. Proper(Cert, work[Cert]) /\ Sees(work[Cert], excuse)
    BY <1>1, <1>4 DEF Core, WorkShape, Looked
  <2>2. \A w \in Workers \ {Cert} : work'[w].pc = "idle"
    BY <1>3, <1>5
  <2>3. Proper(Cert, work[Cert])' /\ \A w \in Workers \ {Cert} : Proper(w, work[w])'
    BY <1>1, <1>5, <2>1, <2>2 DEF Proper, CertPC
  <2>4. Sees(work[Cert], excuse)' /\ \A w \in Workers \ {Cert} : Sees(work[w], excuse)'
    BY <1>1, <1>5, <1>6, <2>1, <2>2 DEF Sees, Proper, Live, Remembers
  <2> QED BY <2>3, <2>4 DEF WorkShape, Looked
<1>12. Alone'
  BY <1>1, <1>6 DEF Core, Alone, Live, Remembers
<1>13. Scripted'
  <2>1. Proper(Cert, work[Cert])
    BY <1>1, <1>4 DEF Core, WorkShape
  <2> QED BY <1>1, <1>5, <1>6, <2>1 DEF Core, Scripted, Script, Proper, Remembers
<1>14. Closes'
  BY <1>1, <1>3 DEF Core, Closes
<1>15. OutcomeIsTrue'
  BY <1>1, <1>6, <1>s, <1>n DEF Rows, OutcomeIsTrue, Remembers
<1>16. EveryOrderHasARow'
  <2> SUFFICES ASSUME NEW o \in Orders, order[o].by \in Scans
               PROVE  entry[o] # "none" \/ excuse'[order[o].sym] = "lost"
    BY <1>1 DEF EveryOrderHasARow
  <2>1. order[o].sym \in Symbols
    BY <1>s, <1>n
  <2>2. CASE work[order[o].by].pc = "posted" /\ work[order[o].by].order = o
    <3>1. work[order[o].by].sym = order[o].sym
      BY <1>1, <1>4, <2>2 DEF Core, WorkShape, Proper
    <3> QED BY <1>1, <2>1, <2>2, <3>1
  <2>3. CASE entry[o] # "none" \/ excuse[order[o].sym] = "lost"
    BY <1>6, <2>1, <2>3 DEF Remembers
  <2> QED BY <1>1, <2>2, <2>3 DEF Rows, EveryOrderHasARow
<1>17. Unwritten'
  BY <1>1, <1>6, <1>7, <1>s DEF Rows, Unwritten, Remembers
<1> QED BY <1>8, <1>9, <1>10, <1>11, <1>12, <1>13, <1>14, <1>15, <1>16, <1>17
        DEF IInv, Core, Rows

-----------------------------------------------------------------------------
(* The terminal.  Orders are answered once, and positions grow older.      *)
AnswersOnce == \A o \in Orders :
    /\ order'[o].sym = order[o].sym /\ order'[o].by = order[o].by
    /\ order'[o].state \in {"none", "flight"} => order'[o].state = order[o].state
    /\ order[o].state # "flight" => order'[o].state = order[o].state
Ages == \A o \in Orders :
    /\ Live(o)' => Live(o)
    /\ pos[o] \in {"open", "leaving", "closed"} => pos'[o] \in {"open", "leaving", "closed"}
    /\ pos[o] = "closed" => pos'[o] = "closed"

\* A placed order does not fill between the two reads without an excuse.
StaysPlaced == \A w \in Workers, o \in Orders :
    /\ work[w].pc = "orders2" /\ order[o].sym = work[w].sym /\ excuse'[work[w].sym] = "no"
    /\ order[o].state = "PLACED" /\ pos[o] = "none" /\ Live(o)'
    => pos'[o] = "none"

LEMMA TerminalMove ==
    ASSUME IInv, UNCHANGED << node, crew, killed, entry, work, guard, pm, faults, controls >>,
           order' \in [Orders -> Order], pos' \in [Orders -> PosState], OrderShape',
           AnswersOnce, Ages, StaysPlaced, Remembers,
           close' \in [{Manager, Cert} -> [ticket : Orders \cup {None}, state : CloseState]],
           close'[Cert].ticket = close[Cert].ticket,
           owed' \subseteq Orders, Closes', ExitIsRecorded'
    PROVE  IInv'
<1>1. /\ Core /\ Rows /\ TypeOK /\ OrderShape
      /\ \A o \in Orders : order[o].state # "none" => order[o].sym \in Symbols
  BY DEF IInv, Core, OrderShape
<1>2. \A s \in Symbols : excuse'[s] = "no" => excuse[s] = "no"
  BY DEF Remembers
<1>3. \A w \in Workers : work[w].pc \notin {"idle", "items"} => work[w].sym \in Symbols
  BY <1>1 DEF Core, WorkShape, Proper
<1>4. \A o \in Orders : Live(o)' => Live(o)
  BY DEF Ages
<1> HIDE DEF Orders, Order, Workers
<1>5. TypeOK'
  BY <1>1 DEF TypeOK, Remembers
<1>6. Held'
  BY <1>1 DEF Core, Held
<1>7. WorkShape'
  <2> SUFFICES ASSUME NEW w \in Workers PROVE Proper(w, work[w])'
    BY DEF WorkShape
  <2>1. Proper(w, work[w])
    BY <1>1 DEF Core, WorkShape
  <2> QED BY <2>1 DEF Proper, AnswersOnce
<1>8. Looked'
  <2> SUFFICES ASSUME NEW w \in Workers, work[w].pc \in {"orders2", "post"},
                      excuse'[work[w].sym] = "no",
                      NEW o \in Orders, order'[o].sym = work[w].sym, Live(o)'
               PROVE  work[w].pc = "orders2" /\ order'[o].state = "PLACED" /\ pos'[o] = "none"
    BY DEF Looked, Sees
  <2>1. order[o].sym = work[w].sym /\ Live(o) /\ excuse[work[w].sym] = "no"
    BY <1>2, <1>3, <1>4 DEF AnswersOnce
  <2>2. work[w].pc = "orders2" /\ order[o].state = "PLACED" /\ pos[o] = "none"
    BY <1>1, <2>1 DEF Core, Looked, Sees
  <2> QED BY <2>1, <2>2 DEF AnswersOnce, StaysPlaced
<1>9. Alone'
  BY <1>1, <1>2, <1>4 DEF Core, Alone, AnswersOnce
<1>10. Scripted'
  <2> SUFFICES ASSUME work[Cert].pc \in {"close", "closed", "passed"},
                      excuse'[work[Cert].sym] = "no"
               PROVE  /\ close'[Cert].ticket \in Orders
                      /\ pos'[close'[Cert].ticket] \in {"open", "leaving", "closed"}
                      /\ \/ close'[Cert].ticket = work[Cert].order
                         \/ pos'[work[Cert].order] = "closed"
                      /\ work[Cert].pc = "passed" => pos'[work[Cert].order] = "closed"
    BY DEF Scripted, Script
  <2>1. Cert \in Workers /\ work[Cert].sym \in Symbols /\ work[Cert].order \in Orders
    <3>1. Cert \in Workers
      BY DEF Workers
    <3> QED BY <1>1, <3>1 DEF Core, WorkShape, Proper, CertPC
  <2>2. /\ close[Cert].ticket \in Orders
        /\ pos[close[Cert].ticket] \in {"open", "leaving", "closed"}
        /\ close[Cert].ticket = work[Cert].order \/ pos[work[Cert].order] = "closed"
        /\ work[Cert].pc = "passed" => pos[work[Cert].order] = "closed"
    BY <1>1, <1>2, <2>1 DEF Core, Scripted, Script
  <2> QED BY <2>1, <2>2 DEF Ages
<1>11. OutcomeIsTrue'
  <2> SUFFICES ASSUME NEW o \in Orders
               PROVE  /\ entry[o] = "EXECUTED" => order'[o].state \in {"DONE", "PARTIAL", "PLACED"}
                      /\ entry[o] = "BLOCK" /\ excuse'[order'[o].sym] # "lost" =>
                             \/ order'[o].state = "REJECT"
                             \/ node = "tools" /\ order'[o].state = "PARTIAL"
    BY DEF OutcomeIsTrue
  <2>1. /\ entry[o] = "EXECUTED" => order[o].state \in {"DONE", "PARTIAL", "PLACED"}
        /\ entry[o] = "BLOCK" /\ excuse[order[o].sym] # "lost" =>
               \/ order[o].state = "REJECT"
               \/ node = "tools" /\ order[o].state = "PARTIAL"
        /\ order[o].state = "none" => entry[o] = "none"
    BY <1>1 DEF Rows, OutcomeIsTrue, Unwritten
  <2>2. order'[o].sym = order[o].sym
        /\ (order[o].state # "flight" => order'[o].state = order[o].state)
    BY DEF AnswersOnce
  <2>3. order[o].state # "none" /\ excuse[order[o].sym] = "lost" =>
            excuse'[order'[o].sym] = "lost"
    BY <1>1, <2>2 DEF Remembers
  <2> QED BY <2>1, <2>2, <2>3
<1>12. EveryOrderHasARow'
  <2> SUFFICES ASSUME NEW o \in Orders, order[o].by \in Scans
               PROVE  \/ entry[o] # "none"
                      \/ work[order[o].by].pc = "posted" /\ work[order[o].by].order = o
                      \/ excuse'[order[o].sym] = "lost"
    BY DEF EveryOrderHasARow, AnswersOnce
  <2>1. order[o].sym \in Symbols
    BY <1>1, NameAssumption DEF OrderShape, NoOrder
  <2> QED BY <1>1, <2>1 DEF Rows, EveryOrderHasARow, Remembers
<1>13. Unwritten'
  <2>1. \A o \in Orders :
            /\ order'[o].state = "none" => entry[o] = "none"
            /\ order'[o].state = "flight" => entry[o] = "none" \/ excuse'[order'[o].sym] = "lost"
    <3> SUFFICES ASSUME NEW o \in Orders, order'[o].state \in {"none", "flight"}
                 PROVE  /\ order[o].state = "none" => entry[o] = "none"
                        /\ order[o].state = "flight" =>
                               entry[o] = "none" \/ excuse'[order[o].sym] = "lost"
      BY DEF AnswersOnce
    <3> QED BY <1>1 DEF Rows, Unwritten, Remembers
  <2>2. \A w \in Scans : work[w].pc = "posted" => entry[work[w].order] = "none"
    BY <1>1 DEF Rows, Unwritten
  <2> QED BY <2>1, <2>2 DEF Unwritten
<1> QED BY <1>1, <1>5, <1>6, <1>7, <1>8, <1>9, <1>10, <1>11, <1>12, <1>13 DEF IInv, Core, Rows

(* A step that changes positions only.                                     *)
LEMMA PositionMove ==
    ASSUME IInv, NEW o \in Orders, NEW p \in PosState, pos' = [pos EXCEPT ![o] = p],
           UNCHANGED << node, crew, killed, order, entry, work, guard, pm, close, owed, faults,
                        controls >>,
           Remembers, order[o].state \notin {"none", "flight", "REJECT"}, p # "none",
           \/ pos[o] \in {"opening", "open", "leaving"}
           \/ order[o].state = "PLACED" /\ pos[o] = "none",
           pos[o] = "opening" \/ p \in {"open", "leaving", "closed"},
           \/ pos[o] # "none" \/ p = "closed"
           \/ \A w \in Workers : work[w].pc = "orders2" /\ excuse'[work[w].sym] = "no" =>
                  order[o].sym # work[w].sym
    PROVE  IInv'
<1>1. Core /\ TypeOK /\ OrderShape /\ Closes /\ ExitIsRecorded
  BY DEF IInv, Core
<1>2. /\ order' \in [Orders -> Order] /\ pos' \in [Orders -> PosState] /\ owed' \subseteq Orders
      /\ close' \in [{Manager, Cert} -> [ticket : Orders \cup {None}, state : CloseState]]
      /\ pos'[o] = p /\ \A q \in Orders \ {o} : pos'[q] = pos[q]
  BY <1>1 DEF TypeOK
<1> HIDE DEF Orders, Order, PosState
<1>3. OrderShape'
  BY <1>1, <1>2 DEF OrderShape
<1>4. AnswersOnce
  BY DEF AnswersOnce
<1>5. Ages
  BY <1>1, <1>2 DEF Ages, Live, OrderShape
<1>6. StaysPlaced
  BY <1>2 DEF StaysPlaced, Live
<1>7. Closes' /\ ExitIsRecorded' /\ close'[Cert].ticket = close[Cert].ticket
  BY <1>1 DEF Closes, ExitIsRecorded
<1> QED BY <1>2, <1>3, <1>4, <1>5, <1>6, <1>7, TerminalMove

LEMMA ShowStep == ASSUME IInv, NEW o \in Orders, Show(o) PROVE IInv'
<1>1. /\ UNCHANGED << node, crew, killed, order, entry, work, guard, pm, close, owed, faults,
                      controls >>
      /\ excuse' = excuse /\ TypeOK /\ OrderShape
  BY DEF Show, records, IInv, Core
<1>2. PICK p \in {"open", "closed"} : /\ pos' = [pos EXCEPT ![o] = p]
                                      /\ pos[o] \in {"opening", "leaving"}
  BY DEF Show
<1>3. /\ p \in PosState /\ p # "none"
      /\ pos[o] = "opening" \/ p \in {"open", "leaving", "closed"}
      /\ order[o].state \notin {"none", "flight", "REJECT"}
      /\ \/ pos[o] \in {"opening", "open", "leaving"}
         \/ order[o].state = "PLACED" /\ pos[o] = "none"
      /\ \/ pos[o] # "none" \/ p = "closed"
         \/ \A w \in Workers : work[w].pc = "orders2" /\ excuse'[work[w].sym] = "no" =>
                order[o].sym # work[w].sym
  BY <1>1, <1>2 DEF PosState, OrderShape
<1>4. Remembers
  BY <1>1 DEF Remembers, TypeOK
<1> QED BY <1>1, <1>2, <1>3, <1>4, PositionMove

LEMMA BrokerClosesStep == ASSUME IInv, NEW o \in Orders, BrokerCloses(o) PROVE IInv'
<1>1. /\ UNCHANGED << node, crew, killed, order, entry, work, guard, pm, close, owed, faults,
                      controls >>
      /\ excuse' = excuse /\ TypeOK /\ OrderShape
      /\ pos[o] = "open" /\ pos' = [pos EXCEPT ![o] = "closed"]
  BY DEF BrokerCloses, records, IInv, Core
<1>2. /\ "closed" \in PosState /\ order[o].state \notin {"none", "flight", "REJECT"}
      /\ \/ pos[o] \in {"opening", "open", "leaving"}
         \/ order[o].state = "PLACED" /\ pos[o] = "none"
      /\ \/ pos[o] # "none" \/ "closed" = "closed"
         \/ \A w \in Workers : work[w].pc = "orders2" /\ excuse'[work[w].sym] = "no" =>
                order[o].sym # work[w].sym
  BY <1>1 DEF PosState, OrderShape
<1>3. Remembers
  BY <1>1 DEF Remembers, TypeOK
<1> QED BY <1>1, <1>2, <1>3, PositionMove

LEMMA SettleStep == ASSUME IInv, NEW o \in Orders, Settle(o) PROVE IInv'
<1> DEFINE s == order[o].sym
<1>1. /\ UNCHANGED << node, crew, killed, order, entry, work, guard, pm, close, owed, faults,
                      controls >>
      /\ TypeOK /\ OrderShape /\ order[o].state = "PLACED" /\ pos[o] = "none"
      /\ s \in Symbols /\ "open" \in PosState /\ "closed" \in PosState
  BY DEF Settle, Pending, records, IInv, Core, OrderShape, PosState
<1>2. CASE pos' = [pos EXCEPT ![o] = "closed"] /\ excuse' = excuse
  <2>1. Remembers
    BY <1>1, <1>2 DEF Remembers, TypeOK
  <2> QED BY <1>1, <1>2, <2>1, PositionMove
<1>3. CASE /\ pos' = [pos EXCEPT ![o] = "open"]
           /\ IF \E w \in Workers : work[w].sym = s /\ work[w].pc = "orders2"
              THEN Excuse(s) ELSE UNCHANGED excuse
  <2>1. Remembers /\ \A w \in Workers :
            work[w].pc = "orders2" /\ excuse'[work[w].sym] = "no" => order[o].sym # work[w].sym
    <3>1. CASE Excuse(s)
      BY <1>1, <3>1, Excusing
    <3>2. CASE /\ excuse' = excuse
               /\ ~ \E w \in Workers : work[w].sym = s /\ work[w].pc = "orders2"
      BY <1>1, <3>2 DEF Remembers, TypeOK
    <3> QED BY <1>3, <3>1, <3>2
  <2> QED BY <1>1, <1>3, <2>1, PositionMove
<1> QED BY <1>2, <1>3 DEF Settle

LEMMA OrderArrivesStep == ASSUME IInv, NEW o \in Orders, OrderArrives(o) PROVE IInv'
<1>1. /\ UNCHANGED << node, crew, killed, entry, work, guard, pm, close, owed, faults, controls >>
      /\ excuse' = excuse /\ order[o].state = "flight"
      /\ Core /\ TypeOK /\ OrderShape /\ Closes /\ ExitIsRecorded
  BY DEF OrderArrives, records, IInv, Core
<1>2. PICK code \in {"DONE", "PARTIAL", "PLACED", "REJECT"} :
        /\ order' = [order EXCEPT ![o].state = code]
        /\ pos' = [pos EXCEPT ![o] = IF code \in {"DONE", "PARTIAL"} THEN "opening" ELSE @]
  BY DEF OrderArrives
<1>3. order \in [Orders -> Order] /\ order[o] \in Order /\ pos \in [Orders -> PosState]
      /\ pos[o] = "none"
  BY <1>1 DEF TypeOK, OrderShape
<1> DEFINE new == [order[o] EXCEPT !.state = code]
<1>4. new \in Order /\ new.state = code /\ new.sym = order[o].sym /\ new.by = order[o].by
  BY <1>3 DEF Order, OrderState
<1>5. order' = [order EXCEPT ![o] = new]
  BY <1>2, <1>3
<1> HIDE DEF new, Orders, Order
<1>6. /\ order' \in [Orders -> Order] /\ order'[o] = new
      /\ \A p \in Orders \ {o} : order'[p] = order[p]
  BY <1>3, <1>4, <1>5
<1>7. /\ pos' \in [Orders -> PosState] /\ \A p \in Orders \ {o} : pos'[p] = pos[p]
      /\ pos'[o] = IF code \in {"DONE", "PARTIAL"} THEN "opening" ELSE "none"
  BY <1>2, <1>3 DEF PosState
<1>8. OrderShape'
  BY <1>1, <1>4, <1>6, <1>7 DEF OrderShape
<1>9. AnswersOnce
  BY <1>1, <1>4, <1>6 DEF AnswersOnce
<1>10. Ages
  BY <1>1, <1>3, <1>4, <1>6, <1>7 DEF Ages, Live
<1>11. StaysPlaced
  BY <1>1, <1>7 DEF StaysPlaced
<1>12. Remembers /\ owed' \subseteq Orders /\ close'[Cert].ticket = close[Cert].ticket
       /\ close' \in [{Manager, Cert} -> [ticket : Orders \cup {None}, state : CloseState]]
  BY <1>1 DEF Remembers, TypeOK
<1>13. Closes' /\ ExitIsRecorded'
  BY <1>1 DEF Closes, ExitIsRecorded
<1> QED BY <1>1, <1>6, <1>7, <1>8, <1>9, <1>10, <1>11, <1>12, <1>13, TerminalMove

LEMMA CloseArrivesStep == ASSUME IInv, NEW c \in {Manager, Cert}, CloseArrives(c) PROVE IInv'
<1> DEFINE t == close[c].ticket
           waits == c = Cert \/ pm.pc = "closing"
<1>1. /\ UNCHANGED << node, crew, killed, order, entry, work, guard, pm, faults, controls >>
      /\ excuse' = excuse /\ close[c].state = "flight"
      /\ Core /\ TypeOK /\ OrderShape /\ Closes /\ ExitIsRecorded
  BY DEF CloseArrives, IInv, Core
<1>2. /\ close \in [{Manager, Cert} -> [ticket : Orders \cup {None}, state : CloseState]]
      /\ Manager # Cert /\ NoClose \in [ticket : Orders \cup {None}, state : CloseState]
      /\ NoClose.state = "none"
  BY PassFacts
<1>3. t \in Orders /\ pos \in [Orders -> PosState] /\ owed \subseteq Orders
  BY <1>1 DEF Closes, TypeOK
<1>4. PICK code \in {"DONE", "PARTIAL", "PLACED", "REJECT"} :
        /\ code = "DONE" => t \in Tickets
        /\ close' = [close EXCEPT ![c] = IF waits THEN [@ EXCEPT !.state = code] ELSE NoClose]
        /\ pos' = [pos EXCEPT ![t] = IF code = "DONE" THEN "leaving" ELSE @]
        /\ owed' = IF c = Manager /\ waits /\ code \in Success THEN owed \cup {t} ELSE owed
  BY DEF CloseArrives
<1>5. /\ close' \in [{Manager, Cert} -> [ticket : Orders \cup {None}, state : CloseState]]
      /\ \A d \in {Manager, Cert} \ {c} : close'[d] = close[d]
      /\ close'[c].state # "flight" /\ (waits => close'[c].ticket = t)
  <2>1. [close[c] EXCEPT !.state = code] \in [ticket : Orders \cup {None}, state : CloseState]
        /\ [close[c] EXCEPT !.state = code].state = code
        /\ [close[c] EXCEPT !.state = code].ticket = t
    BY <1>2 DEF CloseState
  <2>2. close' = [close EXCEPT ![c] =
                      IF waits THEN [close[c] EXCEPT !.state = code] ELSE NoClose]
    BY <1>4
  <2> QED BY <1>2, <2>1, <2>2
<1>6. pos' = [pos EXCEPT ![t] = IF code = "DONE" THEN "leaving" ELSE pos[t]]
  BY <1>4
<1>7. /\ pos' \in [Orders -> PosState] /\ \A p \in Orders \ {t} : pos'[p] = pos[p]
      /\ \/ pos'[t] = pos[t]
         \/ pos[t] \in {"open", "leaving"} /\ pos'[t] = "leaving"
  <2>1. CASE code = "DONE"
    <3>1. pos' = [pos EXCEPT ![t] = "leaving"] /\ "leaving" \in PosState
      BY <1>6, <2>1 DEF PosState
    <3>2. pos[t] \in {"open", "leaving"}
      BY <1>4, <2>1 DEF Tickets
    <3> QED BY <1>3, <3>1, <3>2
  <2>2. CASE code # "DONE"
    <3>1. pos' = [pos EXCEPT ![t] = pos[t]]
      BY <1>6, <2>2
    <3> QED BY <1>3, <3>1
  <2> QED BY <2>1, <2>2
<1> HIDE DEF Orders, Order, PosState, Success
<1>8. OrderShape'
  BY <1>1, <1>7 DEF OrderShape
<1>9. AnswersOnce
  BY <1>1 DEF AnswersOnce
<1>10. Ages
  BY <1>1, <1>7 DEF Ages, Live
<1>11. StaysPlaced
  BY <1>7 DEF StaysPlaced
<1>12. Remembers /\ order' \in [Orders -> Order]
  BY <1>1 DEF Remembers, TypeOK
<1>13. close'[Cert].ticket = close[Cert].ticket
  BY <1>5
<1>14. Closes'
  BY <1>1, <1>5 DEF Closes
<1>15. owed' \subseteq Orders /\ ExitIsRecorded'
  BY <1>1, <1>2, <1>3, <1>4 DEF ExitIsRecorded, Closes
<1> QED BY <1>1, <1>5, <1>7, <1>8, <1>9, <1>10, <1>11, <1>12, <1>13, <1>14, <1>15, TerminalMove

-----------------------------------------------------------------------------
(* The invariant is inductive: one step of the proof per action.           *)
LEMMA Preserved == IInv /\ [Next]_vars => IInv'
<1> SUFFICES ASSUME IInv, [Next]_vars PROVE IInv'
  OBVIOUS
<1>1. ASSUME NEW w \in Workers, BeginScan(w) \/ ScanStep(w) \/ LoseAnswer(w) \/ ReadFault(w)
      PROVE  IInv'
  <2>1. CASE BeginScan(w)
    BY <2>1, BeginScanStep
  <2>2. CASE NextItem(w)
    BY <2>2, NextItemStep
  <2>3. CASE Preliminary(w)
    BY <2>3, PreliminaryStep
  <2>4. CASE ReserveSymbol(w)
    BY <2>4, ReserveSymbolStep
  <2>5. CASE RereadPositions(w)
    BY <2>5, RereadPositionsStep
  <2>6. CASE RereadOrders(w)
    BY <2>6, RereadOrdersStep
  <2>7. CASE PostOrder(w)
    BY <2>7, PostOrderStep
  <2>8. CASE Answered(w)
    BY <2>8, AnsweredStep
  <2>9. CASE LoseAnswer(w)
    BY <2>9, LoseAnswerStep
  <2>10. CASE ReadFault(w)
    BY <2>10, ReadFaultStep
  <2> QED BY <1>1, <2>1, <2>2, <2>3, <2>4, <2>5, <2>6, <2>7, <2>8, <2>9, <2>10 DEF ScanStep
<1>2. CASE CertStep
  BY <1>2, BeginCertStep, CertFindStep, CertClosedStep, CertPassStep DEF CertStep
<1>3. CASE BeginPass \/ PmStep \/ FailPass
  BY <1>3, BeginPassStep, EvaluateStep, NextExitStep, ExitPositionsStep, ExitAnsweredStep,
     EndPassStep, FailPassStep DEF PmStep
<1>4. CASE Kill \/ ProcessRestart
  BY <1>4, KillStep, ProcessRestartStep
<1>5. CASE Terminal
  BY <1>5, OrderArrivesStep, ShowStep, SettleStep, BrokerClosesStep, CloseArrivesStep
     DEF Terminal
<1>6. CASE UNCHANGED vars
  <2> USE <1>6 DEF vars, broker, records
  <2>1. /\ UNCHANGED << node, crew, killed, order, pos, entry, work, guard, excuse, controls >>
        /\ pm' = pm /\ owed' = owed /\ close' = close /\ faults' = faults
    OBVIOUS
  <2>2. /\ pm' \in Pm /\ owed' \subseteq Orders /\ faults' \in Nat /\ close'[Cert] = close[Cert]
        /\ close' \in [{Manager, Cert} -> [ticket : Orders \cup {None}, state : CloseState]]
    BY <2>1, PassFacts
  <2>3. Closes' /\ ExitIsRecorded'
    BY <2>1, PassFacts DEF Closes, ExitIsRecorded
  <2> QED BY <2>1, <2>2, <2>3, PassMove
<1> QED BY <1>1, <1>2, <1>3, <1>4, <1>5, <1>6 DEF Next

(* The strengthened invariant holds of every behaviour.                    *)
LEMMA Invariance == Spec => []IInv
  BY Initially, Preserved, PTL DEF Spec

(* Entry rows agree with what became of the orders, every order of a scan  *)
(* has its row, and every confirmed close is recorded or rolled back with  *)
(* its pass (safe_automation.py, mt5_position_manager.py:124-150).         *)
THEOREM RowsTellTheTerminal == Spec => []RowsAgree
<1>1. IInv => RowsAgree
  BY DEF IInv, Core, Rows, RowsAgree
<1> QED BY <1>1, Invariance, PTL

(* A symbol has one live entry: the reservation and the two reads of       *)
(* place_demo_order (brokers/mt5_bridge.py:40-47), unless an excuse of the *)
(* model, each a real order of events, is on record.                       *)
THEOREM OneLiveEntry == Spec => []OneEntry
<1>1. IInv => OneEntry
  <2> SUFFICES ASSUME IInv, NEW s \in Symbols, excuse[s] = "no"
               PROVE  Cardinality({o \in Orders : order[o].sym = s /\ Live(o)}) <= 1
    BY DEF OneEntry
  <2> DEFINE S == {o \in Orders : order[o].sym = s /\ Live(o)}
  <2>1. \A o, p \in S : o = p
    BY DEF IInv, Core, Alone
  <2>2. CASE S = {}
    BY <2>2, FS_EmptySet
  <2>3. CASE S # {}
    <3>1. PICK o \in S : S = {o}
      BY <2>1, <2>3
    <3>2. Cardinality(S) = 1
      BY <3>1, FS_Singleton
    <3> QED BY <3>2
  <2> QED BY <2>2, <2>3
<1> QED BY <1>1, Invariance, PTL

(* A certification that passed without an excuse left no position.         *)
THEOREM PassMeansFlat == Spec => []CertifiedMeansFlat
<1>1. IInv => CertifiedMeansFlat
  BY DEF IInv, Core, Scripted, Script, CertifiedMeansFlat
<1> QED BY <1>1, Invariance, PTL
=============================================================================
