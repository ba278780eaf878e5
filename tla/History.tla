--------------------------- MODULE History ---------------------------
(***************************************************************************)
(* The ledger of one IBKR profile: executions the Gateway still remembers, *)
(* the fills that saved actions prove, and statement executions an         *)
(* operator has assigned to actions (ibkr_ledger_history.py,               *)
(* ibkr_closed_recovery.py, ibkr_statement_import.py, ibkr_entry_fill.py). *)
(*                                                                         *)
(* Orders are of one symbol, quantity and price, the case in which only    *)
(* identities tell them apart.  The Gateway gives an order a local number, *)
(* which may come again after a reset; the statement has numbers of its    *)
(* own, that do not.  Execution <<o, k>> is part k of order o.             *)
(***************************************************************************)
EXTENDS Integers, FiniteSets

CONSTANTS Orders,       \* in the order in which they are placed
          EntryOf,      \* EntryOf[o] = the entry o closes, 0 for an entry
          Parts,        \* the number of executions of every order
          Operators,    \* sessions that import or recover
          None

VARIABLES
    number,       \* local number of every order, 0 before it is placed
    next,         \* the Gateway's next number
    fills,        \* executions that happened
    memory,       \* executions the Gateway still returns
    action,       \* none, submitted, or how its fill is proved
    evidence,     \* reviewed evidence of every action, or None
    job,          \* what an operator is about to save, or None
    holder,       \* who has locked the profile's row, or None
    misled        \* history: a statement order was given to another action

vars == <<number, next, fills, memory, action, evidence, job, holder, misled>>
gateway == <<number, next, fills, memory>>

Executions(o) == {<<o, k>> : k \in 1..Parts[o]}
Filled(o) == Executions(o) \subseteq fills
Placed == {o \in Orders : number[o] > 0}
IsExit(o) == EntryOf[o] # 0

Init == /\ number = [o \in Orders |-> 0]
        /\ next = 1
        /\ fills = {} /\ memory = {}
        /\ action = [o \in Orders |-> "none"]
        /\ evidence = [o \in Orders |-> None]
        /\ job = [h \in Operators |-> None]
        /\ holder = None
        /\ misled = FALSE

(***************************************************************************)
(* The Gateway, and the actions that trading saves.                        *)
(***************************************************************************)

Place(o) == /\ number[o] = 0 /\ \A p \in Orders : p < o => number[p] > 0
            /\ IsExit(o) => action[EntryOf[o]] \in {"status", "executions"}
            /\ number' = [number EXCEPT ![o] = next]
            /\ next' = next + 1
            /\ action' = [action EXCEPT ![o] = "submitted"]
            /\ UNCHANGED <<fills, memory, evidence, job, holder, misled>>

Fill(e) == /\ number[e[1]] > 0 /\ e \notin fills
           /\ fills' = fills \cup {e} /\ memory' = memory \cup {e}
           /\ UNCHANGED <<number, next, action, evidence, job, holder, misled>>

\* A day ends: the Gateway forgets its executions, and may be reset.
NextDay == /\ memory # {}
           /\ memory' = {}
           /\ next' \in {next, 1}
           /\ UNCHANGED <<number, fills, action, evidence, job, holder, misled>>

\* The executions that carry this order's number prove it if they are all of
\* its side, not from before it was placed, and make up its quantity.
Carrying(o, seen) == {e \in seen : number[e[1]] = number[o]}
Proof(o, seen) == /\ \A e \in Carrying(o, seen) : IsExit(e[1]) = IsExit(o) /\ e[1] >= o
                  /\ Cardinality(Carrying(o, seen)) = Parts[o]

\* How the fill is known: the broker's final status, its executions (entries
\* found later), or the executions of native protection (exits).
Proofs(o) ==
    (IF Filled(o) THEN {"status"} ELSE {})
      \cup (IF ~IsExit(o) /\ Proof(o, memory) THEN {"executions"} ELSE {})
      \cup (IF IsExit(o) /\ Executions(o) \subseteq memory THEN {"native"} ELSE {})

Record(o) == /\ action[o] = "submitted"
             /\ \E p \in Proofs(o) : action' = [action EXCEPT ![o] = p]
             /\ UNCHANGED <<gateway, evidence, job, holder, misled>>

(***************************************************************************)
(* Reviewed evidence.  Both workflows lock the profile, validate against   *)
(* what is saved, and commit.                                              *)
(***************************************************************************)

\* Mutants: only final statuses count; evidence is read without the lock.
SavedStatus(o) == action[o] = "status"
Unguarded(h) == TRUE

Saved(o) == action[o] \in {"status", "executions"}
Unlocked(h) == holder = None
Assigned(t) == {o \in Orders : evidence[o] # None /\ evidence[o].trades \cap Executions(t) # {}}
Evidence(kind, trades, closing) == [kind |-> kind, trades |-> trades, closing |-> closing]

\* Statement order t is mapped to action o: same side, complete, and not the
\* evidence of another action; what is saved is not overwritten.
MayImport(o, t) == /\ Saved(o) /\ Filled(t) /\ IsExit(t) = IsExit(o)
                   /\ Assigned(t) \subseteq {o}
                   /\ evidence[o] = None

StartImport(h) ==
    /\ job[h] = None /\ Unlocked(h)
    /\ \E o, t \in Orders :
         /\ MayImport(o, t)
         /\ job' = [job EXCEPT ![h] = {<<o, Evidence("flex", Executions(t), {})>>}]
    /\ holder' = h
    /\ UNCHANGED <<gateway, action, evidence, misled>>

\* A closed pair: the exit names the entry, its executions are still in the
\* Gateway, and nothing else happened in the symbol since the entry.
MayRecover(x, t) ==
    LET e == EntryOf[x] IN
    /\ Saved(e) /\ action[x] = "status" /\ Proof(x, memory)
    /\ \A o \in Placed \ {e, x} : o > e => action[o] = "none"
    /\ Filled(t) /\ ~IsExit(t)
    /\ Assigned(t) \subseteq {e}
    /\ evidence[e] = None /\ evidence[x] = None

StartRecovery(h) ==
    /\ job[h] = None /\ Unlocked(h)
    /\ \E x, t \in Orders :
         /\ IsExit(x) /\ MayRecover(x, t)
         /\ job' = [job EXCEPT ![h] =
              {<<EntryOf[x], Evidence("opening", Executions(t), Carrying(x, memory))>>,
               <<x, Evidence("closing", {}, Carrying(x, memory))>>}]
    /\ holder' = h
    /\ UNCHANGED <<gateway, action, evidence, misled>>

\* The action is the primary key: a second row for it would fail the commit.
Save(h) ==
    /\ job[h] # None
    /\ \A p \in job[h] : evidence[p[1]] = None
    /\ evidence' = [o \in Orders |-> IF \E p \in job[h] : p[1] = o
                       THEN (CHOOSE p \in job[h] : p[1] = o)[2] ELSE evidence[o]]
    /\ misled' = (misled \/ \E p \in job[h] : ~ (p[2].trades \subseteq Executions(p[1])))
    /\ job' = [job EXCEPT ![h] = None]
    /\ holder' = IF holder = h THEN None ELSE holder
    /\ UNCHANGED <<gateway, action>>

\* A failed commit or a crash of the command: nothing is saved, the lock is gone.
Abort(h) == /\ job[h] # None
            /\ job' = [job EXCEPT ![h] = None]
            /\ holder' = IF holder = h THEN None ELSE holder
            /\ UNCHANGED <<gateway, action, evidence, misled>>

Next == \/ \E o \in Orders : Place(o) \/ Record(o) \/ \E e \in Executions(o) : Fill(e)
        \/ NextDay
        \/ \E h \in Operators : StartImport(h) \/ StartRecovery(h) \/ Save(h) \/ Abort(h)

Spec == Init /\ [][Next]_vars

(***************************************************************************)
(* The ledger: merge_saved_fills over the actions in their order.  A row   *)
(* has the number of its order, an execution or None, and the executions   *)
(* its quantity stands for.                                                *)
(***************************************************************************)

Row(o, execution, covers) == [number |-> number[o], execution |-> execution, covers |-> covers, of |-> o]
Live(seen) == {Row(e[1], e, {e}) : e \in seen}

\* Mutant: saved fills are added beside live ones.
MergedTwice(rows, o) == IF Saved(o) THEN rows \cup {Row(o, None, Executions(o))} ELSE rows

Imported(o) == evidence[o] # None /\ evidence[o].kind = "flex"
Recovered(o) == evidence[o] # None /\ evidence[o].kind # "flex"

\* A pair's evidence replaces executions by their identity, a statement order
\* what has its number; a saved fill counts if nothing has its number.
Merged(rows, o) ==
    LET e == evidence[o] IN
    IF ~Saved(o) THEN rows
    ELSE IF Imported(o)
    THEN {r \in rows : r.number # number[o]} \cup {Row(o, None, e.trades)}
    ELSE IF Recovered(o)
    THEN LET covers == IF e.kind = "opening" THEN e.trades ELSE e.closing IN
         {r \in rows : r.execution \notin covers} \cup {Row(o, None, covers)}
    ELSE IF \E r \in rows : r.number = number[o] THEN rows
    ELSE rows \cup {Row(o, None, Executions(o))}

\* A native exit of a saved entry adds the executions that no row has.
WithNative(rows, o) ==
    rows \cup {Row(o, e, {e}) : e \in {x \in Executions(o) : \A r \in rows : r.execution # x}}

Ledger(seen) ==
    LET saved[n \in 0..Cardinality(Orders)] ==
          IF n = 0 THEN Live(seen) ELSE Merged(saved[n - 1], n)
        native[n \in 0..Cardinality(Orders)] ==
          IF n = 0 THEN saved[Cardinality(Orders)]
          ELSE IF action[n] = "native" /\ Saved(EntryOf[n]) THEN WithNative(native[n - 1], n)
          ELSE native[n - 1]
    IN native[Cardinality(Orders)]

(***************************************************************************)
(* Properties.                                                             *)
(***************************************************************************)

TypeOK == /\ number \in [Orders -> Nat] /\ next \in Nat \ {0}
          /\ memory \subseteq fills /\ fills \subseteq UNION {Executions(o) : o \in Orders}
          /\ \A o \in Orders : /\ action[o] \in {"none", "submitted", "status", "executions", "native"}
                               /\ evidence[o] # None => evidence[o].trades \subseteq fills
          /\ holder \in Operators \cup {None} /\ misled \in BOOLEAN

Reused == \E o, p \in Placed : o # p /\ number[o] = number[p]
Counting(e, seen) == {r \in Ledger(seen) : e \in r.covers}
\* Of this order the Gateway remembers one execution and has forgotten another.
Split(o, seen) == seen \cap Executions(o) \notin {{}, Executions(o)}

\* No execution is counted twice, whether the Gateway answers or not, unless
\* the Gateway used a number again or a reviewer mapped the wrong order.
NoFillTwice == Reused \/ misled \/
    \A seen \in {memory, {}} : \A e \in fills : Cardinality(Counting(e, seen)) <= 1

\* And every execution of an order with a saved fill is counted, except, once
\* more, when the Gateway has forgotten a part of that order: the part it
\* remembers then hides the saved fill.
NoFillLost == Reused \/ misled \/
    \A seen \in {memory, {}} : \A o \in Orders :
       (action[o] \in {"status", "executions", "native"} /\ ~Split(o, seen))
         => \A e \in Executions(o) : Counting(e, seen) # {}

\* No statement execution is the evidence of two actions, however wrong the
\* maps and however the operators' sessions interleave.
AssignedOnce == \A o, p \in Orders :
    (o # p /\ evidence[o] # None /\ evidence[p] # None)
      => evidence[o].trades \cap evidence[p].trades = {}
=============================================================================
