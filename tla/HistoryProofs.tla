------------------------- MODULE HistoryProofs -------------------------
(***************************************************************************)
(* The ledger that History rebuilds from the Gateway's memory, saved fills *)
(* and reviewed evidence counts every execution once, and none is given to *)
(* two actions, for any orders in any number of parts, any exits of any    *)
(* entries, and any operators.                                             *)
(*                                                                         *)
(* The argument: only the holder of the profile's row has something to     *)
(* save, and what it will save was checked against evidence that nobody    *)
(* else can change meanwhile.  So, while numbers tell orders apart and no  *)
(* map is wrong, the evidence of an order stands for its own executions.   *)
(* Every merge then replaces rows of one order by a row of that order, and *)
(* rows of an order that overlap would have to have been there before: the *)
(* least order at which they appear does not exist.                        *)
(***************************************************************************)
EXTENDS History, FiniteSetTheorems, WellFoundedInduction, TLAPS

(* Orders are numbered as they are placed, each has a part, and an exit    *)
(* closes an entry.  None is no execution and no operator.                 *)
AllParts == UNION {Executions(o) : o \in Orders}
EvidenceRow == [kind : {"flex", "opening", "closing"}, trades : SUBSET AllParts,
                closing : SUBSET AllParts]
Wellformed ==
    /\ IsFiniteSet(Orders) /\ Orders = 1 .. Cardinality(Orders)
    /\ Parts \in [Orders -> Nat \ {0}] /\ EntryOf \in [Orders -> Nat]
    /\ \A x \in Orders : IsExit(x) => EntryOf[x] \in Orders /\ ~IsExit(EntryOf[x])
    /\ None \notin AllParts /\ None \notin Operators

HistoryType ==
    /\ number \in [Orders -> Nat] /\ next \in Nat \ {0}
    /\ memory \subseteq fills /\ fills \subseteq AllParts
    /\ action \in [Orders -> {"none", "submitted", "status", "executions", "native"}]
    /\ evidence \in [Orders -> EvidenceRow \cup {None}]
    /\ job \in [Operators -> (SUBSET (Orders \X EvidenceRow)) \cup {None}]
    /\ holder \in Operators \cup {None} /\ misled \in BOOLEAN

(* Only orders that were placed fill, an exit was placed after its entry's *)
(* fill was saved, and native protection only exits.                       *)
Placing ==
    /\ \A e \in fills : number[e[1]] > 0
    /\ \A o \in Orders : action[o] # "none" => number[o] > 0
    /\ \A x \in Orders : IsExit(x) /\ number[x] > 0 => Saved(EntryOf[x])
    /\ \A x \in Orders : action[x] = "native" => IsExit(x)

(* Evidence is all of a statement order, or, of an exit, all that carries  *)
(* its number; while numbers tell orders apart, these are its executions.  *)
Reviewed(o, v) ==
    /\ v.trades \subseteq fills
    /\ v.kind # "closing" => \E t \in Orders : v.trades = Executions(t)
    /\ v.kind = "closing" => Reused \/ v.closing = Executions(o)
EvidenceIsSound ==
    \A o \in Orders : evidence[o] # None =>
        Saved(o) /\ Reviewed(o, evidence[o]) /\ (misled \/ evidence[o].trades \subseteq Executions(o))

(* What is about to be saved is still nobody's evidence: its author holds  *)
(* the lock.                                                               *)
Pending(p) ==
    /\ evidence[p[1]] = None /\ Saved(p[1]) /\ Reviewed(p[1], p[2])
    /\ \A o \in Orders : evidence[o] # None => evidence[o].trades \cap p[2].trades = {}
JobsAreSound ==
    \A h \in Operators : job[h] # None =>
        /\ holder = h
        /\ \A p \in job[h] : Pending(p)
        /\ \A p, q \in job[h] : p # q => p[1] # q[1] /\ p[2].trades \cap q[2].trades = {}

HistoryInv == HistoryType /\ Placing /\ EvidenceIsSound /\ JobsAreSound /\ AssignedOnce

(***************************************************************************)
(* Executions, and what carries a number.                                  *)
(***************************************************************************)
LEMMA ExecutionsAre ==
    ASSUME Wellformed, NEW o \in Orders
    PROVE  /\ Executions(o) \subseteq AllParts /\ <<o, 1>> \in Executions(o)
           /\ \A e \in Executions(o) : e[1] = o
           /\ IsFiniteSet(Executions(o)) /\ Cardinality(Executions(o)) = Parts[o]
<1>1. Parts[o] \in Nat \ {0}
  BY DEF Wellformed
<1>2. \A e \in Executions(o) : e[1] = o
  BY DEF Executions
<1>3. <<o, 1>> \in Executions(o)
  BY <1>1 DEF Executions
<1> DEFINE part == [k \in 1 .. Parts[o] |-> <<o, k>>]
<1>4. part \in Bijection(1 .. Parts[o], Executions(o))
  <2>1. part \in [1 .. Parts[o] -> Executions(o)]
    BY DEF Executions
  <2>2. \A j, k \in 1 .. Parts[o] : part[j] = part[k] => j = k
    OBVIOUS
  <2>3. \A e \in Executions(o) : \E k \in 1 .. Parts[o] : part[k] = e
    BY DEF Executions
  <2> QED BY <2>1, <2>2, <2>3 DEF Bijection, Injection, Surjection, IsInjective
<1>5. ExistsBijection(1 .. Parts[o], Executions(o))
  BY <1>4 DEF ExistsBijection
<1>6. IsFiniteSet(Executions(o))
  BY <1>1, <1>5, FS_NatBijection
<1>7. Cardinality(Executions(o)) = Parts[o]
  BY <1>1, <1>5, FS_CountingElements
<1> QED BY <1>2, <1>3, <1>6, <1>7 DEF AllParts

LEMMA PartOf == ASSUME Wellformed, NEW e \in AllParts
                PROVE  e[1] \in Orders /\ e \in Executions(e[1])
<1>1. PICK o \in Orders : e \in Executions(o)
  BY DEF AllParts
<1> QED BY <1>1, ExecutionsAre

LEMMA CarriedAreOwn ==
    ASSUME Wellformed, HistoryType, Placing, NEW o \in Orders, number[o] > 0, ~Reused,
           NEW seen \in SUBSET memory
    PROVE  Carrying(o, seen) = seen \cap Executions(o)
<1>1. ASSUME NEW e \in seen
      PROVE  e[1] \in Orders /\ e \in Executions(e[1]) /\ number[e[1]] > 0
  <2>1. e \in fills /\ e \in AllParts
    BY DEF HistoryType
  <2> QED BY <2>1, PartOf DEF Placing
<1>2. ASSUME NEW e \in seen, number[e[1]] = number[o]
      PROVE  e \in Executions(o)
  <2>1. e[1] \in Placed /\ o \in Placed
    BY <1>1 DEF Placed
  <2>2. e[1] = o
    BY <1>2, <2>1 DEF Reused
  <2> QED BY <1>1, <2>2
<1>3. \A e \in Executions(o) : e[1] = o
  BY ExecutionsAre
<1> QED BY <1>2, <1>3 DEF Carrying

LEMMA ProvenIsWhole ==
    ASSUME Wellformed, HistoryType, Placing, NEW o \in Orders, number[o] > 0, ~Reused,
           Proof(o, memory)
    PROVE  Carrying(o, memory) = Executions(o)
<1>1. Carrying(o, memory) \subseteq Executions(o)
  BY CarriedAreOwn
<1>2. IsFiniteSet(Executions(o)) /\ Cardinality(Executions(o)) = Parts[o]
  BY ExecutionsAre
<1>3. Cardinality(Carrying(o, memory)) = Parts[o]
  BY DEF Proof
<1> QED BY <1>1, <1>2, <1>3, FS_Subset

(***************************************************************************)
(* Trading and the Gateway: evidence, and what is about to become it, stay *)
(* sound when orders are placed, fill and are recorded.                    *)
(***************************************************************************)
LEMMA HistoryStarts == ASSUME Wellformed, Init
                       PROVE  HistoryInv
<1>1. HistoryType
  <2>1. number \in [Orders -> Nat] /\ next \in Nat \ {0} /\ holder \in Operators \cup {None}
    BY DEF Init
  <2>2. memory \subseteq fills /\ fills \subseteq AllParts /\ misled \in BOOLEAN
    BY DEF Init
  <2>3. action \in [Orders -> {"none", "submitted", "status", "executions", "native"}]
    BY DEF Init
  <2>4. evidence \in [Orders -> EvidenceRow \cup {None}]
    BY DEF Init
  <2>5. job \in [Operators -> (SUBSET (Orders \X EvidenceRow)) \cup {None}]
    BY DEF Init
  <2> QED BY <2>1, <2>2, <2>3, <2>4, <2>5 DEF HistoryType
<1>2. Placing
  <2>1. fills = {} /\ \A o \in Orders : number[o] = 0 /\ action[o] = "none"
    BY DEF Init
  <2> QED BY <2>1 DEF Placing
<1>3. EvidenceIsSound /\ JobsAreSound /\ AssignedOnce
  BY DEF Init, EvidenceIsSound, JobsAreSound, AssignedOnce
<1> QED BY <1>1, <1>2, <1>3 DEF HistoryInv

LEMMA TradingStep ==
    ASSUME HistoryInv, fills \subseteq fills', Reused => Reused',
           \A o \in Orders : Saved(o) => Saved(o)',
           UNCHANGED <<evidence, job, holder, misled>>
    PROVE  EvidenceIsSound' /\ JobsAreSound' /\ AssignedOnce'
<1>1. EvidenceIsSound'
  <2>1. ASSUME NEW o \in Orders, evidence[o] # None
        PROVE  Saved(o)' /\ Reviewed(o, evidence[o])'
    <3>1. Saved(o) /\ Reviewed(o, evidence[o])
      BY <2>1 DEF HistoryInv, EvidenceIsSound
    <3>2. Reviewed(o, evidence[o])'
      BY <3>1 DEF Reviewed, Executions
    <3> QED BY <3>1, <3>2
  <2>2. ASSUME NEW o \in Orders, evidence[o] # None
        PROVE  (misled \/ evidence[o].trades \subseteq Executions(o))'
    <3>1. misled \/ evidence[o].trades \subseteq Executions(o)
      BY <2>2 DEF HistoryInv, EvidenceIsSound
    <3> QED BY <3>1 DEF Executions
  <2> QED BY <2>1, <2>2 DEF EvidenceIsSound
<1>2. JobsAreSound'
  <2>1. ASSUME NEW h \in Operators, job[h] # None, NEW p \in job[h]
        PROVE  Pending(p)'
    <3>1. Pending(p) /\ job[h] \in SUBSET (Orders \X EvidenceRow)
      BY <2>1 DEF HistoryInv, JobsAreSound, HistoryType
    <3>2. p[1] \in Orders
      BY <2>1, <3>1
    <3>3. Reviewed(p[1], p[2])'
      BY <3>1 DEF Pending, Reviewed, Executions
    <3> QED BY <3>1, <3>2, <3>3 DEF Pending
  <2>2. \A h \in Operators : job[h] # None =>
          /\ holder = h
          /\ \A p, q \in job[h] : p # q => p[1] # q[1] /\ p[2].trades \cap q[2].trades = {}
    BY DEF HistoryInv, JobsAreSound
  <2> QED BY <2>1, <2>2 DEF JobsAreSound
<1>3. AssignedOnce'
  BY DEF HistoryInv, AssignedOnce
<1> QED BY <1>1, <1>2, <1>3

LEMMA PlaceStep == ASSUME Wellformed, HistoryInv, NEW o \in Orders, Place(o)
                   PROVE  HistoryInv'
<1>0. HistoryType /\ Placing
  BY DEF HistoryInv
<1>1. /\ number[o] = 0 /\ next \in Nat \ {0} /\ number' \in [Orders -> Nat]
      /\ number'[o] > 0 /\ action'[o] = "submitted"
      /\ \A p \in Orders : p # o => number'[p] = number[p] /\ action'[p] = action[p]
  BY <1>0 DEF Place, HistoryType
<1>2. HistoryType'
  BY <1>0 DEF Place, HistoryType
<1>3. action[o] = "none"
  BY <1>0, <1>1 DEF HistoryType, Placing
<1>4. \A p \in Orders : Saved(p) => Saved(p)'
  BY <1>1, <1>3 DEF Saved
<1>5. Placing'
  <2>1. \A e \in fills : e[1] \in Orders
    BY <1>0, PartOf DEF HistoryType
  <2>2. \A e \in fills' : number'[e[1]] > 0
    BY <1>0, <1>1, <2>1 DEF Place, Placing
  <2>3. \A p \in Orders : action'[p] # "none" => number'[p] > 0
    BY <1>0, <1>1 DEF Placing
  <2>4. ASSUME NEW x \in Orders, IsExit(x), number'[x] > 0
        PROVE  Saved(EntryOf[x])'
    <3>1. Saved(EntryOf[x])
      <4>1. CASE x = o
        BY <2>4, <4>1 DEF Place, Saved
      <4>2. CASE x # o
        BY <1>0, <1>1, <2>4, <4>2 DEF Placing
      <4> QED BY <4>1, <4>2
    <3>2. EntryOf[x] \in Orders
      BY <2>4 DEF Wellformed
    <3> QED BY <1>4, <3>1, <3>2
  <2>5. \A x \in Orders : action'[x] = "native" => IsExit(x)
    BY <1>0, <1>1 DEF Placing
  <2> QED BY <2>2, <2>3, <2>4, <2>5 DEF Placing, IsExit
<1>6. Reused => Reused'
  <2>1. \A p \in Orders : number[p] > 0 => p # o /\ number'[p] = number[p]
    BY <1>1
  <2> QED BY <2>1 DEF Reused, Placed
<1>7. fills \subseteq fills' /\ UNCHANGED <<evidence, job, holder, misled>>
  BY DEF Place
<1> QED BY <1>2, <1>4, <1>5, <1>6, <1>7, TradingStep DEF HistoryInv

LEMMA FillStep == ASSUME Wellformed, HistoryInv, NEW o \in Orders, NEW e \in Executions(o), Fill(e)
                  PROVE  HistoryInv'
<1>0. HistoryType /\ Placing
  BY DEF HistoryInv
<1>1. HistoryType'
  <2>1. e \in AllParts
    BY ExecutionsAre
  <2>2. /\ memory' = memory \cup {e} /\ fills' = fills \cup {e}
        /\ UNCHANGED <<number, next, action, evidence, job, holder, misled>>
    BY DEF Fill
  <2>3. memory' \subseteq fills' /\ fills' \subseteq AllParts
    BY <1>0, <2>1, <2>2 DEF HistoryType
  <2> QED BY <1>0, <2>2, <2>3 DEF HistoryType
<1>2. Placing'
  BY <1>0 DEF Fill, Placing, Saved, IsExit
<1>3. Reused => Reused'
  BY DEF Fill, Reused, Placed
<1>4. \A p \in Orders : Saved(p) => Saved(p)'
  BY DEF Fill, Saved
<1>5. fills \subseteq fills' /\ UNCHANGED <<evidence, job, holder, misled>>
  BY DEF Fill
<1> QED BY <1>1, <1>2, <1>3, <1>4, <1>5, TradingStep DEF HistoryInv

LEMMA NextDayStep == ASSUME HistoryInv, NextDay
                     PROVE  HistoryInv'
<1>0. HistoryType /\ Placing
  BY DEF HistoryInv
<1>1. HistoryType'
  BY <1>0 DEF NextDay, HistoryType
<1>2. Placing'
  BY <1>0 DEF NextDay, Placing, Saved, IsExit
<1>3. Reused => Reused'
  BY DEF NextDay, Reused, Placed
<1>4. \A p \in Orders : Saved(p) => Saved(p)'
  BY DEF NextDay, Saved
<1>5. fills \subseteq fills' /\ UNCHANGED <<evidence, job, holder, misled>>
  BY DEF NextDay
<1> QED BY <1>1, <1>2, <1>3, <1>4, <1>5, TradingStep DEF HistoryInv

LEMMA RecordStep == ASSUME Wellformed, HistoryInv, NEW o \in Orders, Record(o)
                    PROVE  HistoryInv'
<1>0. HistoryType /\ Placing
  BY DEF HistoryInv
<1>1. PICK p \in Proofs(o) : action' = [action EXCEPT ![o] = p]
  BY DEF Record
<1>2. p \in {"status", "executions", "native"} /\ action[o] = "submitted"
  BY DEF Proofs, Record
<1>3. /\ action'[o] = p
      /\ \A x \in Orders : x # o => action'[x] = action[x]
  BY <1>0, <1>1 DEF HistoryType
<1>4. /\ UNCHANGED <<number, next, fills, memory>> /\ UNCHANGED <<evidence, job, holder, misled>>
  BY DEF Record, gateway
<1>5. HistoryType'
  BY <1>0, <1>1, <1>2, <1>4 DEF HistoryType
<1>6. \A x \in Orders : Saved(x) => Saved(x)'
  BY <1>2, <1>3 DEF Saved
<1>7. Placing'
  <2>1. \A x \in Orders : action'[x] # "none" => number'[x] > 0
    BY <1>0, <1>2, <1>3, <1>4 DEF Placing
  <2>2. \A x \in Orders : IsExit(x) => EntryOf[x] \in Orders
    BY DEF Wellformed
  <2>3. \A x \in Orders : IsExit(x) /\ number'[x] > 0 => Saved(EntryOf[x])'
    BY <1>0, <1>4, <1>6, <2>2 DEF Placing
  <2>4. p = "native" => IsExit(o)
    BY <1>1 DEF Proofs
  <2>5. \A x \in Orders : action'[x] = "native" => IsExit(x)
    BY <1>0, <1>3, <2>4 DEF Placing
  <2> QED BY <1>0, <1>4, <2>1, <2>3, <2>5 DEF Placing, IsExit
<1>8. Reused => Reused'
  BY <1>4 DEF Reused, Placed
<1> QED BY <1>4, <1>5, <1>6, <1>7, <1>8, TradingStep DEF HistoryInv

(***************************************************************************)
(* Operators: one at a time, they save what was checked.                   *)
(***************************************************************************)
LEMMA NobodySaves == ASSUME Wellformed, HistoryInv, holder = None
                     PROVE  \A h \in Operators : job[h] = None
  BY DEF Wellformed, HistoryInv, JobsAreSound

(* What the ledger is built from stays as it is.                           *)
LEMMA LedgerStays ==
    ASSUME HistoryInv, UNCHANGED <<gateway, action, evidence, misled>>
    PROVE  /\ Placing' /\ EvidenceIsSound' /\ AssignedOnce'
           /\ \A p : Pending(p) => Pending(p)'
<1>1. UNCHANGED <<number, next, fills, memory>>
  BY DEF gateway
<1>2. Reused' = Reused
  BY <1>1 DEF Reused, Placed
<1>3. Placing'
  BY <1>1 DEF HistoryInv, Placing, Saved, IsExit
<1>4. EvidenceIsSound'
  BY <1>1, <1>2 DEF HistoryInv, EvidenceIsSound, Reviewed, Executions, Saved
<1>5. AssignedOnce'
  BY DEF HistoryInv, AssignedOnce
<1>6. \A p : Pending(p) => Pending(p)'
  BY <1>1, <1>2 DEF Pending, Reviewed, Executions, Saved
<1> QED BY <1>3, <1>4, <1>5, <1>6

LEMMA JobStarts ==
    ASSUME Wellformed, HistoryInv, NEW h \in Operators, holder = None, holder' = h,
           NEW new \in SUBSET (Orders \X EvidenceRow), job' = [job EXCEPT ![h] = new],
           \A p \in new : Pending(p),
           \A p, q \in new : p # q => p[1] # q[1] /\ p[2].trades \cap q[2].trades = {},
           UNCHANGED <<gateway, action, evidence, misled>>
    PROVE  HistoryInv'
<1>1. job'[h] = new /\ \A g \in Operators : g # h => job'[g] = None
  BY NobodySaves DEF HistoryInv, HistoryType
<1>2. HistoryType'
  BY DEF HistoryInv, HistoryType, gateway
<1>3. \A p \in new : Pending(p)'
  BY LedgerStays
<1>4. JobsAreSound'
  BY <1>1, <1>3 DEF JobsAreSound
<1> QED BY <1>2, <1>4, LedgerStays DEF HistoryInv

(* A statement order that is no action's evidence, or only of this one,    *)
(* which has none, shares nothing with anybody's.                          *)
LEMMA UnassignedIs ==
    ASSUME HistoryInv, NEW o \in Orders, NEW t \in Orders, Assigned(t) \subseteq {o}, evidence[o] = None
    PROVE  \A p \in Orders : evidence[p] # None => evidence[p].trades \cap Executions(t) = {}
  BY DEF Assigned

LEMMA EvidenceIs ==
    ASSUME NEW kind \in {"flex", "opening", "closing"}, NEW trades \in SUBSET AllParts,
           NEW closing \in SUBSET AllParts
    PROVE  /\ Evidence(kind, trades, closing) \in EvidenceRow
           /\ Evidence(kind, trades, closing).kind = kind
           /\ Evidence(kind, trades, closing).trades = trades
           /\ Evidence(kind, trades, closing).closing = closing
  BY DEF Evidence, EvidenceRow

LEMMA ImportStep == ASSUME Wellformed, HistoryInv, NEW h \in Operators, StartImport(h)
                    PROVE  HistoryInv'
<1>1. PICK o \in Orders, t \in Orders :
        /\ MayImport(o, t)
        /\ job' = [job EXCEPT ![h] = {<<o, Evidence("flex", Executions(t), {})>>}]
  BY DEF StartImport
<1>2. Executions(t) \in SUBSET AllParts
  BY ExecutionsAre
<1> DEFINE v == Evidence("flex", Executions(t), {})
<1>3. v \in EvidenceRow /\ v.kind = "flex" /\ v.trades = Executions(t)
  BY <1>2, EvidenceIs
<1> HIDE DEF v
<1>4. Reviewed(o, v)
  <2>1. Executions(t) \subseteq fills
    BY <1>1 DEF MayImport, Filled
  <2> QED BY <1>3, <2>1 DEF Reviewed
<1>5. Saved(o) /\ evidence[o] = None
  BY <1>1 DEF MayImport
<1>6. \A p \in Orders : evidence[p] # None => evidence[p].trades \cap v.trades = {}
  BY <1>1, <1>3, <1>5, UnassignedIs DEF MayImport
<1>7. Pending(<<o, v>>)
  BY <1>4, <1>5, <1>6 DEF Pending
<1>8. {<<o, v>>} \in SUBSET (Orders \X EvidenceRow)
  BY <1>3
<1>9. job' = [job EXCEPT ![h] = {<<o, v>>}]
  BY <1>1 DEF v
<1>10. holder = None /\ holder' = h /\ UNCHANGED <<gateway, action, evidence, misled>>
  BY DEF StartImport, Unlocked
<1>11. \A p \in {<<o, v>>} : Pending(p)
  BY <1>7
<1>12. \A p, q \in {<<o, v>>} : p # q => p[1] # q[1] /\ p[2].trades \cap q[2].trades = {}
  OBVIOUS
<1> QED BY <1>8, <1>9, <1>10, <1>11, <1>12, JobStarts

LEMMA RecoveryStep == ASSUME Wellformed, HistoryInv, NEW h \in Operators, StartRecovery(h)
                      PROVE  HistoryInv'
<1>0. HistoryType /\ Placing
  BY DEF HistoryInv
<1>1. PICK x \in Orders, t \in Orders :
        /\ IsExit(x) /\ MayRecover(x, t)
        /\ job' = [job EXCEPT ![h] =
             {<<EntryOf[x], Evidence("opening", Executions(t), Carrying(x, memory))>>,
              <<x, Evidence("closing", {}, Carrying(x, memory))>>}]
  BY DEF StartRecovery
<1> DEFINE e == EntryOf[x]
           v == Evidence("opening", Executions(t), Carrying(x, memory))
           w == Evidence("closing", {}, Carrying(x, memory))
<1>2. e \in Orders /\ e # x
  BY <1>1 DEF Wellformed
<1>3. Executions(t) \in SUBSET AllParts /\ Carrying(x, memory) \in SUBSET AllParts
  BY <1>0, ExecutionsAre DEF HistoryType, Carrying
<1>4. v \in EvidenceRow /\ v.kind = "opening" /\ v.trades = Executions(t)
  BY <1>3, EvidenceIs
<1>5. w \in EvidenceRow /\ w.kind = "closing" /\ w.trades = {} /\ w.closing = Carrying(x, memory)
  BY <1>3, EvidenceIs
<1> HIDE DEF v, w
<1>6. /\ Saved(e) /\ Saved(x) /\ evidence[e] = None /\ evidence[x] = None
      /\ Proof(x, memory) /\ Executions(t) \subseteq fills /\ Assigned(t) \subseteq {e}
  BY <1>1 DEF MayRecover, Filled, Saved
<1>7. number[x] > 0
  BY <1>0, <1>6 DEF Placing, Saved
<1>8. Reviewed(e, v)
  BY <1>4, <1>6 DEF Reviewed
<1>9. Reviewed(x, w)
  <2>1. Reused \/ w.closing = Executions(x)
    BY <1>0, <1>5, <1>6, <1>7, ProvenIsWhole
  <2> QED BY <1>5, <2>1 DEF Reviewed
<1>10. \A p \in Orders : evidence[p] # None => evidence[p].trades \cap v.trades = {}
  BY <1>2, <1>4, <1>6, UnassignedIs
<1>11. Pending(<<e, v>>) /\ Pending(<<x, w>>)
  BY <1>5, <1>6, <1>8, <1>9, <1>10 DEF Pending
<1> DEFINE new == {<<e, v>>, <<x, w>>}
<1>12. new \in SUBSET (Orders \X EvidenceRow)
  BY <1>2, <1>4, <1>5
<1>13. job' = [job EXCEPT ![h] = new]
  BY <1>1 DEF v, w
<1>14. holder = None /\ holder' = h /\ UNCHANGED <<gateway, action, evidence, misled>>
  BY DEF StartRecovery, Unlocked
<1>15. \A p \in new : Pending(p)
  BY <1>11
<1>16. \A p, q \in new : p # q => p[1] # q[1] /\ p[2].trades \cap q[2].trades = {}
  BY <1>2, <1>5
<1> QED BY <1>12, <1>13, <1>14, <1>15, <1>16, JobStarts

(* Evidence is saved for the actions of the job, and for nobody else.      *)
LEMMA SaveIs ==
    ASSUME HistoryInv, NEW h \in Operators, Save(h)
    PROVE  /\ job[h] \in SUBSET (Orders \X EvidenceRow)
           /\ \A o \in Orders : (\A p \in job[h] : p[1] # o) => evidence'[o] = evidence[o]
           /\ \A p \in job[h] : /\ p[1] \in Orders /\ evidence'[p[1]] = p[2] /\ p[2] \in EvidenceRow
                                /\ misled' \/ p[2].trades \subseteq Executions(p[1])
           /\ misled => misled'
<1>1. job[h] # None /\ job[h] \in SUBSET (Orders \X EvidenceRow)
  BY DEF Save, HistoryInv, HistoryType
<1>2. \A o \in Orders : (\A p \in job[h] : p[1] # o) => evidence'[o] = evidence[o]
  BY DEF Save
<1>3. ASSUME NEW p \in job[h]
      PROVE  /\ p[1] \in Orders /\ evidence'[p[1]] = p[2] /\ p[2] \in EvidenceRow
             /\ misled' \/ p[2].trades \subseteq Executions(p[1])
  <2>1. p[1] \in Orders /\ p[2] \in EvidenceRow
    BY <1>1
  <2>2. \A q \in job[h] : q[1] = p[1] => q = p
    BY <1>1 DEF HistoryInv, JobsAreSound
  <2>3. evidence'[p[1]] = (CHOOSE q \in job[h] : q[1] = p[1])[2]
    BY <2>1 DEF Save
  <2>4. (CHOOSE q \in job[h] : q[1] = p[1]) = p
    BY <2>2
  <2>5. misled' \/ p[2].trades \subseteq Executions(p[1])
    BY DEF Save
  <2> QED BY <2>1, <2>3, <2>4, <2>5
<1>4. misled => misled'
  BY DEF Save
<1> QED BY <1>1, <1>2, <1>3, <1>4

LEMMA SaveStep == ASSUME Wellformed, HistoryInv, NEW h \in Operators, Save(h)
                  PROVE  HistoryInv'
<1>0. HistoryType /\ Placing /\ EvidenceIsSound /\ JobsAreSound
  BY DEF HistoryInv
<1>1. job[h] # None /\ holder = h
  BY <1>0 DEF Save, JobsAreSound
<1>2. /\ UNCHANGED <<number, next, fills, memory>> /\ action' = action
      /\ holder' = None /\ job' = [job EXCEPT ![h] = None]
  BY <1>1 DEF Save, gateway
<1>3. /\ Reused' = Reused /\ \A o : Saved(o)' <=> Saved(o)
      /\ \A o, v : Reviewed(o, v)' <=> Reviewed(o, v)
  BY <1>2 DEF Reused, Placed, Saved, Reviewed, Executions
<1>4. \A g \in Operators : job'[g] = None
  <2>1. \A g \in Operators : g # h => job[g] = None
    BY <1>0, <1>1 DEF JobsAreSound
  <2> QED BY <1>0, <1>2, <2>1 DEF HistoryType
<1>5. JobsAreSound'
  BY <1>4 DEF JobsAreSound
<1>6. Placing'
  BY <1>0, <1>2, <1>3 DEF Placing, IsExit
<1> DEFINE new == {p[1] : p \in job[h]}
<1>7. /\ \A o \in Orders \ new : evidence'[o] = evidence[o]
      /\ \A p \in job[h] : /\ p[1] \in Orders /\ evidence'[p[1]] = p[2] /\ p[2] \in EvidenceRow
                           /\ misled' \/ p[2].trades \subseteq Executions(p[1])
      /\ misled => misled'
  BY SaveIs
<1>8. HistoryType'
  <2>1. ASSUME NEW o \in Orders
        PROVE  evidence'[o] \in EvidenceRow \cup {None}
    <3>1. CASE o \in new
      BY <1>7, <3>1
    <3>2. CASE o \notin new
      BY <1>0, <1>7, <3>2 DEF HistoryType
    <3> QED BY <3>1, <3>2
  <2>2. evidence' \in [Orders -> EvidenceRow \cup {None}]
    BY <2>1 DEF Save
  <2>3. misled' \in BOOLEAN
    BY <1>0 DEF Save, HistoryType
  <2>4. job' \in [Operators -> (SUBSET (Orders \X EvidenceRow)) \cup {None}]
    BY <1>0, <1>2 DEF HistoryType
  <2> QED BY <1>0, <1>2, <2>2, <2>3, <2>4 DEF HistoryType
<1>9. EvidenceIsSound'
  <2>1. ASSUME NEW o \in Orders, evidence'[o] # None
        PROVE  /\ Saved(o) /\ Reviewed(o, evidence'[o])
               /\ misled' \/ evidence'[o].trades \subseteq Executions(o)
    <3>1. CASE o \in new
      <4>1. PICK p \in job[h] : p[1] = o
        BY <3>1
      <4>2. evidence'[o] = p[2] /\ (misled' \/ p[2].trades \subseteq Executions(o))
        BY <1>7, <4>1
      <4>3. Pending(p)
        BY <1>0, <1>1 DEF JobsAreSound
      <4> QED BY <4>1, <4>2, <4>3 DEF Pending
    <3>2. CASE o \notin new
      BY <1>0, <1>7, <2>1, <3>2 DEF EvidenceIsSound
    <3> QED BY <3>1, <3>2
  <2>2. \A o : Executions(o)' = Executions(o)
    BY DEF Executions
  <2> QED BY <1>3, <2>1, <2>2 DEF EvidenceIsSound
<1>10. AssignedOnce'
  <2>1. ASSUME NEW o \in Orders, NEW p \in job[h], p[1] # o, evidence'[o] # None
        PROVE  evidence'[o].trades \cap p[2].trades = {}
    <3>1. CASE o \in new
      <4>1. PICK q \in job[h] : q[1] = o
        BY <3>1
      <4>2. evidence'[o] = q[2] /\ q # p
        BY <1>7, <2>1, <4>1
      <4>3. q[2].trades \cap p[2].trades = {}
        BY <1>0, <1>1, <4>2 DEF JobsAreSound
      <4> QED BY <4>2, <4>3
    <3>2. CASE o \notin new
      <4>1. evidence'[o] = evidence[o]
        BY <1>7, <3>2
      <4>2. Pending(p)
        BY <1>0, <1>1 DEF JobsAreSound
      <4> QED BY <2>1, <4>1, <4>2 DEF Pending
    <3> QED BY <3>1, <3>2
  <2>2. ASSUME NEW o \in Orders, NEW q \in Orders, o # q, evidence'[o] # None, evidence'[q] # None
        PROVE  evidence'[o].trades \cap evidence'[q].trades = {}
    <3>1. CASE q \in new
      <4>1. PICK p \in job[h] : p[1] = q
        BY <3>1
      <4>2. evidence'[q] = p[2]
        BY <1>7, <4>1
      <4> QED BY <2>1, <2>2, <4>1, <4>2
    <3>2. CASE o \in new
      <4>1. PICK p \in job[h] : p[1] = o
        BY <3>2
      <4>2. evidence'[o] = p[2]
        BY <1>7, <4>1
      <4>3. evidence'[q].trades \cap p[2].trades = {}
        BY <2>1, <2>2, <4>1
      <4> QED BY <4>2, <4>3
    <3>3. CASE o \notin new /\ q \notin new
      <4>1. evidence'[o] = evidence[o] /\ evidence'[q] = evidence[q]
        BY <1>7, <3>3
      <4> QED BY <2>2, <4>1 DEF HistoryInv, AssignedOnce
    <3> QED BY <3>1, <3>2, <3>3
  <2> QED BY <2>2 DEF AssignedOnce
<1> QED BY <1>5, <1>6, <1>8, <1>9, <1>10 DEF HistoryInv

LEMMA AbortStep == ASSUME Wellformed, HistoryInv, NEW h \in Operators, Abort(h)
                   PROVE  HistoryInv'
<1>1. UNCHANGED <<gateway, action, evidence, misled>> /\ job' = [job EXCEPT ![h] = None]
  BY DEF Abort
<1>2. \A g \in Operators : job'[g] # None => g # h /\ job'[g] = job[g] /\ holder' = holder
  <2>1. \A g \in Operators : job'[g] # None => g # h /\ job'[g] = job[g]
    BY <1>1 DEF HistoryInv, HistoryType
  <2>2. \A g \in Operators : job[g] # None => holder = g
    BY DEF HistoryInv, JobsAreSound
  <2> QED BY <2>1, <2>2 DEF Abort
<1>3. HistoryType'
  BY <1>1 DEF Abort, HistoryInv, HistoryType, gateway
<1>4. JobsAreSound'
  BY <1>2, LedgerStays, <1>1 DEF HistoryInv, JobsAreSound
<1> QED BY <1>1, <1>3, <1>4, LedgerStays DEF HistoryInv

LEMMA HistoryIdles == ASSUME HistoryInv, UNCHANGED vars
                      PROVE  HistoryInv'
<1>1. UNCHANGED <<gateway, action, evidence, misled>> /\ UNCHANGED <<job, holder>>
  BY DEF vars, gateway
<1>2. HistoryType'
  BY DEF vars, HistoryInv, HistoryType
<1>3. JobsAreSound'
  BY <1>1, LedgerStays DEF HistoryInv, JobsAreSound
<1> QED BY <1>1, <1>2, <1>3, LedgerStays DEF HistoryInv

LEMMA HistorySteps == ASSUME Wellformed, HistoryInv, Next
                      PROVE  HistoryInv'
<1>1. CASE \E o \in Orders : Place(o)
  BY <1>1, PlaceStep
<1>2. CASE \E o \in Orders : Record(o)
  BY <1>2, RecordStep
<1>3. CASE \E o \in Orders : \E e \in Executions(o) : Fill(e)
  BY <1>3, FillStep
<1>4. CASE NextDay
  BY <1>4, NextDayStep
<1>5. CASE \E h \in Operators : StartImport(h)
  BY <1>5, ImportStep
<1>6. CASE \E h \in Operators : StartRecovery(h)
  BY <1>6, RecoveryStep
<1>7. CASE \E h \in Operators : Save(h)
  BY <1>7, SaveStep
<1>8. CASE \E h \in Operators : Abort(h)
  BY <1>8, AbortStep
<1> QED BY <1>1, <1>2, <1>3, <1>4, <1>5, <1>6, <1>7, <1>8 DEF Next

(***************************************************************************)
(* Merging: the rows of an order with a saved fill.                        *)
(***************************************************************************)
LEMMA Least ==
    ASSUME NEW T, T \subseteq Nat, T # {}
    PROVE  \E x \in T : \A y \in T : x <= y
<1>1. PICK x \in T : \A y \in T : <<y, x>> \notin OpToRel(<, Nat)
  <2>1. \E x \in T : \A y \in T : <<y, x>> \notin OpToRel(<, Nat)
    BY NatLessThanWellFounded, WFMin
  <2> QED BY <2>1
<1>2. ASSUME NEW y \in T
      PROVE  x <= y
  <2>1. x \in Nat /\ y \in Nat /\ <<y, x>> \in Nat \X Nat
    BY <1>2
  <2>2. ~(y < x)
    BY <1>1, <2>1 DEF OpToRel
  <2> QED BY <2>1, <2>2
<1> QED BY <1>2

LEMMA OrdersAre == ASSUME Wellformed
                   PROVE  /\ Cardinality(Orders) \in Nat /\ Orders = 1 .. Cardinality(Orders)
                          /\ \A o \in Orders : o \in Nat \ {0} /\ ~(o <= o - 1)
<1>1. IsFiniteSet(Orders) /\ Orders = 1 .. Cardinality(Orders)
  BY DEF Wellformed
<1>2. Cardinality(Orders) \in Nat
  BY <1>1, FS_CardinalityType
<1>3. PICK n \in Nat : n = Cardinality(Orders)
  BY <1>2
<1>4. Orders = 1 .. n
  BY <1>1, <1>3
<1>5. \A o \in Orders : o \in Nat \ {0} /\ ~(o <= o - 1)
  BY <1>4
<1> QED BY <1>1, <1>2, <1>5

(* Numbers tell orders apart, and no map was wrong.                        *)
Truthful == Wellformed /\ HistoryInv /\ ~Reused /\ ~misled

RowSet == [number : Nat, execution : AllParts \cup {None}, covers : SUBSET AllParts, of : Orders]

(* A row is one execution of a placed order, or the saved fill of an order *)
(* up to n; no two stand for the same execution.                           *)
Single(r) == r.execution \in Executions(r.of) /\ r.covers = {r.execution}
Whole(r, n) == /\ r.execution = None /\ r.covers = Executions(r.of)
               /\ Saved(r.of) /\ r.of <= n
Shaped(rows, n) ==
    \A r \in rows : /\ r.of \in Orders /\ r.number = number[r.of] /\ number[r.of] > 0
                    /\ Single(r) \/ Whole(r, n)
Apart(rows) == \A r, s \in rows : r # s => r.covers \cap s.covers = {}
Covered(rows) == UNION {r.covers : r \in rows}
OfOrder(rows, o) == {r \in rows : r.of = o}

LEMMA ReviewedIsOwn ==
    ASSUME Truthful, NEW o \in Orders, evidence[o] # None
    PROVE  /\ Saved(o) /\ evidence[o].kind \in {"flex", "opening", "closing"}
           /\ evidence[o].kind # "closing" => evidence[o].trades = Executions(o)
           /\ evidence[o].kind = "closing" => evidence[o].closing = Executions(o)
<1>1. Wellformed /\ HistoryType /\ EvidenceIsSound
  BY DEF Truthful, HistoryInv
<1>2. evidence[o] \in EvidenceRow
  BY <1>1 DEF HistoryType
<1>3. Saved(o) /\ Reviewed(o, evidence[o]) /\ evidence[o].trades \subseteq Executions(o)
  BY <1>1 DEF EvidenceIsSound, Truthful
<1>4. ASSUME evidence[o].kind # "closing"
      PROVE  evidence[o].trades = Executions(o)
  <2>1. PICK t \in Orders : evidence[o].trades = Executions(t)
    BY <1>3, <1>4 DEF Reviewed
  <2>2. <<t, 1>> \in Executions(o)
    BY <1>1, <1>3, <2>1, ExecutionsAre
  <2>3. t = o
    BY <1>1, <2>2, ExecutionsAre
  <2> QED BY <2>1, <2>3
<1>5. evidence[o].kind = "closing" => evidence[o].closing = Executions(o)
  BY <1>3 DEF Reviewed, Truthful
<1> QED BY <1>2, <1>3, <1>4, <1>5 DEF EvidenceRow

(* What a row stands for is of its order.                                  *)
LEMMA RowIsOwn ==
    ASSUME Wellformed, NEW rows, NEW n, Shaped(rows, n), NEW r \in rows
    PROVE  /\ r.of \in Orders /\ r.covers \subseteq Executions(r.of)
           /\ \A e \in r.covers : e[1] = r.of
<1>1. r.of \in Orders /\ (Single(r) \/ Whole(r, n))
  BY DEF Shaped
<1>2. r.covers \subseteq Executions(r.of)
  BY <1>1 DEF Single, Whole
<1> QED BY <1>1, <1>2, ExecutionsAre

(* A merge leaves the rows as they are, or puts the order's saved fill in  *)
(* place of its rows.                                                      *)
Filling(rows, o) == (rows \ OfOrder(rows, o)) \cup {Row(o, None, Executions(o))}

LEMMA MergedIs ==
    ASSUME Truthful, NEW o \in Orders, NEW rows, Shaped(rows, o - 1)
    PROVE  \/ Merged(rows, o) = rows /\ (Saved(o) => OfOrder(rows, o) # {})
           \/ Merged(rows, o) = Filling(rows, o) /\ Saved(o)
<1>0. Wellformed /\ HistoryType /\ Placing
  BY DEF Truthful, HistoryInv
<1>1. o \in Nat /\ ~(o <= o - 1)
  BY <1>0, OrdersAre
<1>2. CASE ~Saved(o)
  BY <1>2 DEF Merged
<1>3. ASSUME Saved(o)
      PROVE  \A r \in rows : r.number = number[o] <=> r.of = o
  <2>1. number[o] > 0
    BY <1>0, <1>3 DEF Placing, Saved
  <2>2. ASSUME NEW r \in rows, r.number = number[o]
        PROVE  r.of = o
    <3>1. r.of \in Placed /\ o \in Placed /\ number[r.of] = number[o]
      BY <2>1, <2>2 DEF Shaped, Placed
    <3> QED BY <3>1 DEF Truthful, Reused
  <2> QED BY <2>2 DEF Shaped
<1>4. ASSUME Saved(o), Imported(o)
      PROVE  Merged(rows, o) = Filling(rows, o)
  <2>1. evidence[o].trades = Executions(o)
    BY <1>4, ReviewedIsOwn DEF Imported
  <2>2. Merged(rows, o) = {r \in rows : r.number # number[o]} \cup {Row(o, None, evidence[o].trades)}
    BY <1>4 DEF Merged
  <2>3. {r \in rows : r.number # number[o]} = rows \ OfOrder(rows, o)
    BY <1>3, <1>4 DEF OfOrder
  <2> QED BY <2>1, <2>2, <2>3 DEF Filling
<1>5. ASSUME Saved(o), ~Imported(o), Recovered(o)
      PROVE  Merged(rows, o) = Filling(rows, o)
  <2> DEFINE covers == IF evidence[o].kind = "opening" THEN evidence[o].trades ELSE evidence[o].closing
  <2>1. covers = Executions(o)
    BY <1>5, ReviewedIsOwn DEF Recovered
  <2>2. Merged(rows, o) = {r \in rows : r.execution \notin covers} \cup {Row(o, None, covers)}
    BY <1>5 DEF Merged
  <2>3. ASSUME NEW r \in rows
        PROVE  r.execution \notin Executions(o) <=> r.of # o
    <3>1. Single(r) \/ Whole(r, o - 1)
      BY DEF Shaped
    <3>2. CASE Single(r)
      <4>1. r.of \in Orders /\ r.execution \in Executions(r.of)
        BY <3>2 DEF Shaped, Single
      <4> QED BY <1>0, <4>1, ExecutionsAre
    <3>3. CASE Whole(r, o - 1)
      <4>1. r.of # o
        BY <1>1, <3>3 DEF Whole
      <4>2. None \notin Executions(o)
        BY <1>0, ExecutionsAre DEF Wellformed
      <4> QED BY <3>3, <4>1, <4>2 DEF Whole
    <3> QED BY <3>1, <3>2, <3>3
  <2>4. {r \in rows : r.execution \notin Executions(o)} = rows \ OfOrder(rows, o)
    BY <2>3 DEF OfOrder
  <2> QED BY <2>1, <2>2, <2>4 DEF Filling
<1>6. ASSUME Saved(o), ~Imported(o), ~Recovered(o)
      PROVE  \/ Merged(rows, o) = rows /\ OfOrder(rows, o) # {}
             \/ Merged(rows, o) = Filling(rows, o)
  <2>1. CASE \E r \in rows : r.number = number[o]
    <3>1. Merged(rows, o) = rows
      BY <1>6, <2>1 DEF Merged
    <3> QED BY <1>3, <1>6, <2>1, <3>1 DEF OfOrder
  <2>2. CASE ~ \E r \in rows : r.number = number[o]
    <3>1. Merged(rows, o) = rows \cup {Row(o, None, Executions(o))}
      BY <1>6, <2>2 DEF Merged
    <3>2. OfOrder(rows, o) = {}
      BY <1>3, <1>6, <2>2 DEF OfOrder
    <3> QED BY <3>1, <3>2 DEF Filling
  <2> QED BY <2>1, <2>2
<1> QED BY <1>2, <1>4, <1>5, <1>6

(***************************************************************************)
(* The merges of saved fills, one order after the other: no two rows       *)
(* overlap, what the Gateway returns stays covered, and a saved fill is    *)
(* covered unless the Gateway remembers a part of it.                      *)
(***************************************************************************)
SavedSound(rows, n, seen) ==
    /\ rows \in SUBSET RowSet /\ Shaped(rows, n) /\ Apart(rows)
    /\ \A r \in rows : r.execution # None => r.execution \in seen
    /\ seen \subseteq Covered(rows)
    /\ \A o \in Orders : o <= n /\ Saved(o) /\ ~Split(o, seen) => Executions(o) \subseteq Covered(rows)

LEMMA LiveIsSound ==
    ASSUME Truthful, NEW seen \in SUBSET memory
    PROVE  SavedSound(Live(seen), 0, seen)
<1>0. Wellformed /\ HistoryType /\ Placing
  BY DEF Truthful, HistoryInv
<1>1. \A e \in seen : /\ e \in AllParts /\ e[1] \in Orders /\ e \in Executions(e[1])
                      /\ number[e[1]] > 0 /\ number[e[1]] \in Nat
  BY <1>0, PartOf DEF HistoryType, Placing
<1>2. ASSUME NEW r \in Live(seen)
      PROVE  /\ r \in RowSet /\ r.of \in Orders /\ r.number = number[r.of] /\ number[r.of] > 0
             /\ Single(r) /\ r.execution \in seen /\ r = Row(r.execution[1], r.execution, {r.execution})
  <2>1. PICK e \in seen : r = Row(e[1], e, {e})
    BY DEF Live
  <2>2. r = [number |-> number[e[1]], execution |-> e, covers |-> {e}, of |-> e[1]]
    BY <2>1 DEF Row
  <2>3. r.of = e[1] /\ r.execution = e /\ r.covers = {e} /\ r.number = number[e[1]]
    BY <2>2
  <2>4. r \in RowSet
    BY <1>1, <2>2 DEF RowSet
  <2> QED BY <1>1, <2>1, <2>3, <2>4 DEF Single
<1>3. Apart(Live(seen))
  <2>1. ASSUME NEW r \in Live(seen), NEW s \in Live(seen), NEW e \in r.covers \cap s.covers
        PROVE  r = s
    <3>1. e = r.execution /\ e = s.execution
      BY <1>2 DEF Single
    <3>2. r = Row(r.execution[1], r.execution, {r.execution})
      BY <1>2
    <3>3. s = Row(s.execution[1], s.execution, {s.execution})
      BY <1>2
    <3> QED BY <3>1, <3>2, <3>3
  <2> QED BY <2>1 DEF Apart
<1>4. ASSUME NEW e \in seen
      PROVE  e \in Covered(Live(seen))
  <2>1. Row(e[1], e, {e}) \in Live(seen)
    BY DEF Live
  <2>2. Row(e[1], e, {e}).covers = {e}
    BY DEF Row
  <2> QED BY <2>1, <2>2 DEF Covered
<1>5. \A o \in Orders : ~(o <= 0)
  BY <1>0, OrdersAre
<1> QED BY <1>2, <1>3, <1>4, <1>5 DEF SavedSound, Shaped

LEMMA RowIs ==
    ASSUME Wellformed, HistoryType, NEW o \in Orders, NEW x \in AllParts \cup {None},
           NEW c \in SUBSET AllParts
    PROVE  /\ Row(o, x, c) \in RowSet /\ Row(o, x, c).number = number[o]
           /\ Row(o, x, c).execution = x /\ Row(o, x, c).covers = c /\ Row(o, x, c).of = o
<1>1. number[o] \in Nat
  BY DEF HistoryType
<1> QED BY <1>1 DEF Row, RowSet

LEMMA WholeStill ==
    ASSUME Wellformed, NEW o \in Orders, NEW r, r.of \in Orders, Whole(r, o - 1)
    PROVE  Whole(r, o)
<1>1. PICK p \in Nat : p = r.of
  BY OrdersAre
<1>2. o \in Nat /\ p <= o - 1
  BY <1>1, OrdersAre DEF Whole
<1>3. p <= o
  BY <1>2
<1> QED BY <1>1, <1>3 DEF Whole

LEMMA FillingIsSound ==
    ASSUME Truthful, NEW o \in Orders, NEW rows, NEW seen \in SUBSET memory,
           SavedSound(rows, o - 1, seen), Saved(o)
    PROVE  SavedSound(Filling(rows, o), o, seen)
<1>0. Wellformed /\ HistoryType /\ Placing
  BY DEF Truthful, HistoryInv
<1>1. rows \in SUBSET RowSet /\ Shaped(rows, o - 1) /\ Apart(rows)
  BY DEF SavedSound
<1> DEFINE new == Row(o, None, Executions(o))
           all == Filling(rows, o)
<1>2. /\ new \in RowSet /\ new.number = number[o] /\ new.execution = None
      /\ new.covers = Executions(o) /\ new.of = o
  <2>1. Executions(o) \in SUBSET AllParts /\ None \in AllParts \cup {None}
    BY <1>0, ExecutionsAre
  <2> QED BY <1>0, <2>1, RowIs
<1>3. number[o] > 0
  BY <1>0 DEF Placing, Saved
<1>4. o \in Nat /\ \A p \in Orders : p \in Nat
  BY <1>0, OrdersAre
<1> HIDE DEF new
<1>5. all = (rows \ OfOrder(rows, o)) \cup {new}
  BY DEF new, Filling
<1> HIDE DEF all
<1>6. Shaped(all, o)
  <2>1. ASSUME NEW r \in rows
        PROVE  /\ r.of \in Orders /\ r.number = number[r.of] /\ number[r.of] > 0
               /\ Single(r) \/ Whole(r, o)
    <3>1. r.of \in Orders /\ r.number = number[r.of] /\ number[r.of] > 0
      BY <1>1 DEF Shaped
    <3>2. Single(r) \/ Whole(r, o - 1)
      BY <1>1 DEF Shaped
    <3>3. Whole(r, o - 1) => Whole(r, o)
      BY <1>0, <3>1, WholeStill
    <3> QED BY <3>1, <3>2, <3>3
  <2>2. Whole(new, o)
    BY <1>2, <1>4 DEF Whole
  <2> QED BY <1>2, <1>3, <1>5, <2>1, <2>2 DEF Shaped
<1>7. \A r \in rows \ OfOrder(rows, o) : r.covers \cap Executions(o) = {}
  <2>1. ASSUME NEW r \in rows, r.of # o, NEW e \in r.covers \cap Executions(o)
        PROVE  FALSE
    <3>1. e[1] = r.of
      BY <1>0, <1>1, RowIsOwn
    <3>2. e[1] = o
      BY <1>0, ExecutionsAre
    <3> QED BY <2>1, <3>1, <3>2
  <2> QED BY <2>1 DEF OfOrder
<1>8. Apart(all)
  BY <1>1, <1>2, <1>5, <1>7 DEF Apart
<1>9. \A r \in all : r.execution # None => r.execution \in seen
  BY <1>2, <1>5 DEF SavedSound
<1>10. Executions(o) \subseteq Covered(all)
  BY <1>2, <1>5 DEF Covered
<1>11. ASSUME NEW e \in Covered(rows)
       PROVE  e \in Covered(all)
  <2>1. PICK r \in rows : e \in r.covers
    BY <1>11 DEF Covered
  <2>2. CASE r.of = o
    <3>1. e \in Executions(o)
      BY <1>0, <1>1, <2>1, <2>2, RowIsOwn
    <3> QED BY <1>10, <3>1
  <2>3. CASE r.of # o
    BY <1>5, <2>1, <2>3 DEF Covered, OfOrder
  <2> QED BY <2>2, <2>3
<1>12. seen \subseteq Covered(all)
  BY <1>11 DEF SavedSound
<1>13. ASSUME NEW p \in Orders, p <= o, Saved(p), ~Split(p, seen)
       PROVE  Executions(p) \subseteq Covered(all)
  <2>1. p = o \/ p <= o - 1
    BY <1>4, <1>13
  <2>2. p <= o - 1 => Executions(p) \subseteq Covered(rows)
    BY <1>13 DEF SavedSound
  <2> QED BY <1>10, <1>11, <2>1, <2>2
<1>14. all \in SUBSET RowSet
  BY <1>1, <1>2, <1>5
<1>15. SavedSound(all, o, seen)
  BY <1>6, <1>8, <1>9, <1>12, <1>13, <1>14 DEF SavedSound
<1> QED BY <1>15 DEF all

LEMMA MergedIsSound ==
    ASSUME Truthful, NEW o \in Orders, NEW rows, NEW seen \in SUBSET memory,
           SavedSound(rows, o - 1, seen)
    PROVE  SavedSound(Merged(rows, o), o, seen)
<1>0. Wellformed
  BY DEF Truthful
<1>1. Shaped(rows, o - 1)
  BY DEF SavedSound
<1>2. o \in Nat /\ \A p \in Orders : p \in Nat
  BY <1>0, OrdersAre
<1>3. CASE Merged(rows, o) = Filling(rows, o) /\ Saved(o)
  BY <1>3, FillingIsSound
<1>4. CASE Merged(rows, o) = rows /\ (Saved(o) => OfOrder(rows, o) # {})
  <2>1. Shaped(rows, o)
    <3>1. \A r \in rows : r.of \in Orders /\ (Whole(r, o - 1) => Whole(r, o))
      BY <1>0, <1>1, WholeStill DEF Shaped
    <3> QED BY <1>1, <3>1 DEF Shaped
  <2>2. ASSUME Saved(o), ~Split(o, seen)
        PROVE  Executions(o) \subseteq Covered(rows)
    <3>1. PICK r \in rows : r.of = o
      BY <1>4, <2>2 DEF OfOrder
    <3>2. ~Whole(r, o - 1)
      BY <1>0, <3>1, OrdersAre DEF Whole
    <3>3. Single(r)
      BY <1>1, <3>2 DEF Shaped
    <3>4. r.execution \in Executions(o) /\ r.execution # None
      <4>1. r.execution \in Executions(o)
        BY <3>1, <3>3 DEF Single
      <4>2. Executions(o) \subseteq AllParts /\ None \notin AllParts
        BY <1>0, ExecutionsAre DEF Wellformed
      <4> QED BY <4>1, <4>2
    <3>5. r.execution \in seen
      BY <3>4 DEF SavedSound
    <3>6. Executions(o) \subseteq seen
      BY <2>2, <3>4, <3>5 DEF Split
    <3> QED BY <3>6 DEF SavedSound
  <2>3. ASSUME NEW p \in Orders, p <= o, Saved(p), ~Split(p, seen)
        PROVE  Executions(p) \subseteq Covered(rows)
    <3>1. p = o \/ p <= o - 1
      BY <1>2, <2>3
    <3> QED BY <2>2, <2>3, <3>1 DEF SavedSound
  <2>4. SavedSound(rows, o, seen)
    BY <2>1, <2>3 DEF SavedSound
  <2> QED BY <1>4, <2>4
<1> QED BY <1>1, <1>3, <1>4, MergedIs

(***************************************************************************)
(* Native exits add the executions that no row has.                        *)
(***************************************************************************)
Last == Cardinality(Orders)
Native(o) == action[o] = "native" /\ Saved(EntryOf[o])
NativeSound(rows, n, seen) ==
    /\ rows \in SUBSET RowSet /\ Shaped(rows, Last) /\ Apart(rows)
    /\ \A o \in Orders : Saved(o) /\ ~Split(o, seen) => Executions(o) \subseteq Covered(rows)
    /\ \A o \in Orders : o <= n /\ Native(o) => Executions(o) \subseteq Covered(rows)

LEMMA NativeStarts ==
    ASSUME Truthful, NEW rows, NEW seen \in SUBSET memory, SavedSound(rows, Last, seen)
    PROVE  NativeSound(rows, 0, seen)
<1>1. \A o \in Orders : o <= Last /\ ~(o <= 0)
  <2>1. PICK n \in Nat : n = Last /\ Orders = 1 .. n
    BY OrdersAre DEF Truthful, Last
  <2> QED BY <2>1
<1> QED BY <1>1 DEF SavedSound, NativeSound

LEMMA NativeIsSound ==
    ASSUME Truthful, NEW o \in Orders, NEW rows, NEW seen \in SUBSET memory,
           NativeSound(rows, o - 1, seen), Native(o)
    PROVE  NativeSound(WithNative(rows, o), o, seen)
<1>0. Wellformed /\ HistoryType /\ Placing
  BY DEF Truthful, HistoryInv
<1>1. rows \in SUBSET RowSet /\ Shaped(rows, Last) /\ Apart(rows)
  BY DEF NativeSound
<1>2. Executions(o) \subseteq AllParts /\ number[o] > 0 /\ ~Saved(o)
  BY <1>0, ExecutionsAre DEF Native, Placing, Saved
<1> DEFINE missing == {e \in Executions(o) : \A r \in rows : r.execution # e}
           added == {Row(o, e, {e}) : e \in missing}
           all == WithNative(rows, o)
<1>3. all = rows \cup added
  BY DEF WithNative
<1> HIDE DEF all
<1>4. \A e \in missing : e \in Executions(o) /\ e \in AllParts /\ \A r \in rows : r.execution # e
  BY <1>2
<1> HIDE DEF missing
<1>5. ASSUME NEW r \in added
      PROVE  /\ r \in RowSet /\ r.number = number[o] /\ r.of = o
             /\ r.execution \in missing /\ r.covers = {r.execution} /\ r = Row(o, r.execution, r.covers)
  <2>1. PICK e \in missing : r = Row(o, e, {e})
    OBVIOUS
  <2>2. e \in AllParts \cup {None} /\ {e} \in SUBSET AllParts
    BY <1>4
  <2>3. /\ r \in RowSet /\ r.number = number[o] /\ r.of = o
        /\ r.execution = e /\ r.covers = {e}
    BY <1>0, <2>1, <2>2, RowIs
  <2> QED BY <2>1, <2>3
<1> HIDE DEF added
<1>6. Shaped(all, Last)
  <2>1. \A r \in added : /\ r.of \in Orders /\ r.number = number[r.of] /\ number[r.of] > 0 /\ Single(r)
    BY <1>2, <1>4, <1>5 DEF Single
  <2> QED BY <1>1, <1>3, <2>1 DEF Shaped
<1>7. ASSUME NEW r \in rows, NEW e \in missing
      PROVE  e \notin r.covers
  <2>1. SUFFICES ASSUME e \in r.covers PROVE FALSE
    OBVIOUS
  <2>2. e[1] = r.of /\ e[1] = o
    BY <1>0, <1>1, <1>4, <2>1, RowIsOwn, ExecutionsAre
  <2>3. Single(r) \/ Whole(r, Last)
    BY <1>1 DEF Shaped
  <2>4. Single(r)
    BY <1>2, <2>2, <2>3 DEF Whole
  <2> QED BY <1>4, <2>1, <2>4 DEF Single
<1>8. Apart(all)
  <2>1. \A r \in rows, s \in added : r.covers \cap s.covers = {}
    BY <1>5, <1>7
  <2>2. ASSUME NEW r \in added, NEW s \in added, NEW e \in r.covers \cap s.covers
        PROVE  r = s
    <3>1. r.covers = {e} /\ r.execution = e /\ s.covers = {e} /\ s.execution = e
      BY <1>5, <2>2
    <3>2. r = Row(o, e, {e}) /\ s = Row(o, e, {e})
      BY <1>5, <3>1
    <3> QED BY <3>2
  <2>3. \A r, s \in added : r # s => r.covers \cap s.covers = {}
    BY <2>2
  <2> QED BY <1>1, <1>3, <2>1, <2>3 DEF Apart
<1>9. Covered(rows) \subseteq Covered(all)
  BY <1>3 DEF Covered
<1>10. ASSUME NEW e \in Executions(o)
       PROVE  e \in Covered(all)
  <2>1. CASE e \in missing
    <3>1. Row(o, e, {e}) \in added
      BY <2>1 DEF added
    <3>2. Row(o, e, {e}).covers = {e}
      BY DEF Row
    <3> QED BY <1>3, <3>1, <3>2 DEF Covered
  <2>2. CASE e \notin missing
    <3>1. PICK r \in rows : r.execution = e
      BY <2>2 DEF missing
    <3>2. e # None
      BY <1>0, <1>2 DEF Wellformed
    <3>3. Single(r)
      BY <1>1, <3>1, <3>2 DEF Shaped, Whole
    <3>4. e \in r.covers
      BY <3>1, <3>3 DEF Single
    <3> QED BY <1>9, <3>4 DEF Covered
  <2> QED BY <2>1, <2>2
<1>11. ASSUME NEW p \in Orders, p <= o, Native(p)
       PROVE  Executions(p) \subseteq Covered(all)
  <2>1. p = o \/ p <= o - 1
    <3>1. p \in Nat /\ o \in Nat
      BY <1>0, OrdersAre
    <3> QED BY <1>11, <3>1
  <2>2. p <= o - 1 => Executions(p) \subseteq Covered(rows)
    BY <1>11 DEF NativeSound
  <2> QED BY <1>9, <1>10, <2>1, <2>2
<1>12. \A p \in Orders : Saved(p) /\ ~Split(p, seen) => Executions(p) \subseteq Covered(all)
  BY <1>9 DEF NativeSound
<1>13. all \in SUBSET RowSet
  BY <1>1, <1>3, <1>5
<1>14. NativeSound(all, o, seen)
  BY <1>6, <1>8, <1>11, <1>12, <1>13 DEF NativeSound
<1> QED BY <1>14 DEF all

LEMMA NativeSkips ==
    ASSUME Truthful, NEW o \in Orders, NEW rows, NEW seen \in SUBSET memory,
           NativeSound(rows, o - 1, seen), ~Native(o)
    PROVE  NativeSound(rows, o, seen)
<1>1. ASSUME NEW p \in Orders, p <= o, Native(p)
      PROVE  Executions(p) \subseteq Covered(rows)
  <2>1. p \in Nat /\ o \in Nat /\ p # o
    BY <1>1, OrdersAre DEF Truthful
  <2>2. p <= o - 1
    BY <1>1, <2>1
  <2> QED BY <1>1, <2>2 DEF NativeSound
<1> QED BY <1>1 DEF NativeSound

(***************************************************************************)
(* The ledger: both folds exist, whatever the number of orders, and what   *)
(* holds at first and after every merge holds of what they return.         *)
(***************************************************************************)
LEMMA FoldExists ==
    ASSUME NEW N \in Nat, NEW V, NEW b \in V, NEW step \in [1 .. N -> [V -> V]]
    PROVE  \E f \in [0 .. N -> V] : f[0] = b /\ \A i \in 1 .. N : f[i] = step[i][f[i - 1]]
<1> DEFINE Folds(n) == \E f \in [0 .. n -> V] : f[0] = b /\ \A i \in 1 .. n : f[i] = step[i][f[i - 1]]
           fails == {n \in 0 .. N : ~Folds(n)}
<1>1. Folds(0)
  <2>1. [i \in 0 .. 0 |-> b] \in [0 .. 0 -> V] /\ [i \in 0 .. 0 |-> b][0] = b
    OBVIOUS
  <2>2. \A i \in 1 .. 0 : FALSE
    OBVIOUS
  <2> QED BY <2>1, <2>2
<1>2. ASSUME NEW m \in 1 .. N, Folds(m - 1)
      PROVE  Folds(m)
  <2>1. PICK f \in [0 .. (m - 1) -> V] : f[0] = b /\ \A i \in 1 .. (m - 1) : f[i] = step[i][f[i - 1]]
    BY <1>2
  <2> DEFINE g == [i \in 0 .. m |-> IF i = m THEN step[m][f[m - 1]] ELSE f[i]]
  <2>2. f[m - 1] \in V
    BY <2>1
  <2>3. step[m][f[m - 1]] \in V
    BY <2>2
  <2>4. g \in [0 .. m -> V]
    BY <2>1, <2>3
  <2>5. g[0] = b
    BY <2>1
  <2>6. \A i \in 1 .. m : g[i] = step[i][g[i - 1]]
    BY <2>1
  <2> QED BY <2>4, <2>5, <2>6
<1> HIDE DEF Folds
<1>3. fails = {}
  <2> SUFFICES ASSUME fails # {} PROVE FALSE
    OBVIOUS
  <2>1. fails \subseteq Nat
    OBVIOUS
  <2>2. PICK m \in fails : \A n \in fails : m <= n
    BY <2>1, Least
  <2>3. m \in 0 .. N /\ ~Folds(m)
    BY <2>2
  <2>4. m # 0
    BY <1>1, <2>3
  <2>5. m \in 1 .. N /\ m - 1 \in 0 .. N /\ ~(m <= m - 1)
    BY <2>3, <2>4
  <2>6. Folds(m - 1)
    BY <2>2, <2>5
  <2> QED BY <1>2, <2>3, <2>5, <2>6
<1>4. Folds(N)
  BY <1>3
<1> QED BY <1>4 DEF Folds

LEMMA LiveType == ASSUME Truthful, NEW seen \in SUBSET memory
                  PROVE  Live(seen) \in SUBSET RowSet
  BY LiveIsSound DEF SavedSound

LEMMA MergedType ==
    ASSUME Truthful, NEW o \in Orders, NEW rows \in SUBSET RowSet
    PROVE  Merged(rows, o) \in SUBSET RowSet
<1>0. Wellformed /\ HistoryType
  BY DEF Truthful, HistoryInv
<1>1. \A c \in SUBSET AllParts : Row(o, None, c) \in RowSet
  BY <1>0, RowIs
<1>2. Executions(o) \in SUBSET AllParts
  BY <1>0, ExecutionsAre
<1>3. evidence[o] # None => evidence[o].trades \in SUBSET AllParts /\ evidence[o].closing \in SUBSET AllParts
  BY <1>0 DEF HistoryType, EvidenceRow
<1>4. CASE ~Saved(o)
  BY <1>4 DEF Merged
<1>5. CASE Saved(o) /\ Imported(o)
  <2>1. Merged(rows, o) = {r \in rows : r.number # number[o]} \cup {Row(o, None, evidence[o].trades)}
    BY <1>5 DEF Merged
  <2>2. Row(o, None, evidence[o].trades) \in RowSet
    BY <1>1, <1>3, <1>5 DEF Imported
  <2> QED BY <2>1, <2>2
<1>6. CASE Saved(o) /\ ~Imported(o) /\ Recovered(o)
  <2> DEFINE covers == IF evidence[o].kind = "opening" THEN evidence[o].trades ELSE evidence[o].closing
  <2>1. Merged(rows, o) = {r \in rows : r.execution \notin covers} \cup {Row(o, None, covers)}
    BY <1>6 DEF Merged
  <2>2. Row(o, None, covers) \in RowSet
    BY <1>1, <1>3, <1>6 DEF Recovered
  <2> QED BY <2>1, <2>2
<1>7. CASE Saved(o) /\ ~Imported(o) /\ ~Recovered(o)
  <2>1. Merged(rows, o) \in {rows, rows \cup {Row(o, None, Executions(o))}}
    BY <1>7 DEF Merged
  <2> QED BY <1>1, <1>2, <2>1
<1> QED BY <1>4, <1>5, <1>6, <1>7

LEMMA WithNativeType ==
    ASSUME Truthful, NEW o \in Orders, NEW rows \in SUBSET RowSet
    PROVE  WithNative(rows, o) \in SUBSET RowSet
<1>0. Wellformed /\ HistoryType
  BY DEF Truthful, HistoryInv
<1>1. \A e \in Executions(o) : e \in AllParts \cup {None} /\ {e} \in SUBSET AllParts
  BY <1>0, ExecutionsAre
<1>2. \A e \in Executions(o) : Row(o, e, {e}) \in RowSet
  BY <1>0, <1>1, RowIs
<1> QED BY <1>2 DEF WithNative

(* The two folds of Ledger.                                                *)
SavedRows(seen) ==
    CHOOSE f : f = [n \in 0 .. Cardinality(Orders) |->
                      IF n = 0 THEN Live(seen) ELSE Merged(f[n - 1], n)]
NativeRows(seen) ==
    CHOOSE g : g = [n \in 0 .. Cardinality(Orders) |->
                      IF n = 0 THEN SavedRows(seen)[Cardinality(Orders)]
                      ELSE IF action[n] = "native" /\ Saved(EntryOf[n]) THEN WithNative(g[n - 1], n)
                      ELSE g[n - 1]]

LEMMA LedgerIs == \A seen : Ledger(seen) = NativeRows(seen)[Last]
  BY DEF Ledger, NativeRows, SavedRows, Last

LEMMA SavedRowsAre ==
    ASSUME Truthful, NEW seen \in SUBSET memory
    PROVE  /\ SavedRows(seen)[0] = Live(seen)
           /\ \A o \in Orders : SavedRows(seen)[o] = Merged(SavedRows(seen)[o - 1], o)
<1>1. PICK N \in Nat : N = Cardinality(Orders) /\ Orders = 1 .. N
  BY OrdersAre DEF Truthful
<1> DEFINE step == [o \in 1 .. N |-> [rows \in SUBSET RowSet |-> Merged(rows, o)]]
           Rule(f) == [n \in 0 .. N |-> IF n = 0 THEN Live(seen) ELSE Merged(f[n - 1], n)]
<1>2. step \in [1 .. N -> [SUBSET RowSet -> SUBSET RowSet]]
  BY <1>1, MergedType
<1> HIDE DEF step, Rule
<1>3. \E f \in [0 .. N -> SUBSET RowSet] :
        f[0] = Live(seen) /\ \A i \in 1 .. N : f[i] = step[i][f[i - 1]]
  <2>1. PICK V : V = SUBSET RowSet
    OBVIOUS
  <2>2. PICK b \in V : b = Live(seen)
    BY <2>1, LiveType
  <2>3. PICK s \in [1 .. N -> [V -> V]] : s = step
    BY <1>2, <2>1
  <2>4. \E f \in [0 .. N -> V] : f[0] = b /\ \A i \in 1 .. N : f[i] = s[i][f[i - 1]]
    <3>1. N \in Nat /\ b \in V /\ s \in [1 .. N -> [V -> V]]
      OBVIOUS
    <3> QED BY ONLY <3>1, FoldExists
  <2> QED BY <2>1, <2>2, <2>3, <2>4
<1>4. PICK f \in [0 .. N -> SUBSET RowSet] :
        f[0] = Live(seen) /\ \A i \in 1 .. N : f[i] = step[i][f[i - 1]]
  BY <1>3
<1>5. f = Rule(f)
  <2>1. ASSUME NEW i \in 1 .. N
        PROVE  f[i] = Merged(f[i - 1], i)
    <3>1. f[i] = step[i][f[i - 1]] /\ f[i - 1] \in SUBSET RowSet
      BY <1>4
    <3>2. step[i] = [rows \in SUBSET RowSet |-> Merged(rows, i)]
      BY DEF step
    <3> QED BY <3>1, <3>2
  <2>2. \A n \in 0 .. N : f[n] = IF n = 0 THEN Live(seen) ELSE Merged(f[n - 1], n)
    BY <1>4, <2>1
  <2>3. f = [n \in 0 .. N |-> f[n]]
    OBVIOUS
  <2> QED BY <2>2, <2>3 DEF Rule
<1>6. SavedRows(seen) = CHOOSE g : g = Rule(g)
  BY <1>1 DEF SavedRows, Rule
<1> DEFINE rows == SavedRows(seen)
<1>7. rows = Rule(rows)
  BY <1>5, <1>6
<1> HIDE DEF rows
<1>8. \A n \in 0 .. N : rows[n] = IF n = 0 THEN Live(seen) ELSE Merged(rows[n - 1], n)
  BY <1>7 DEF Rule
<1>9. rows[0] = Live(seen) /\ \A o \in Orders : rows[o] = Merged(rows[o - 1], o)
  <2>1. 0 \in 0 .. N /\ \A o \in Orders : o \in 0 .. N /\ o # 0
    <3>1. \A o \in 1 .. N : o \in 0 .. N /\ o # 0
      OBVIOUS
    <3>2. 0 \in 0 .. N
      OBVIOUS
    <3> QED BY <1>1, <3>1, <3>2
  <2> QED BY <1>8, <2>1
<1> QED BY <1>9 DEF rows

LEMMA SavedRowsAreSound ==
    ASSUME Truthful, NEW seen \in SUBSET memory
    PROVE  SavedSound(SavedRows(seen)[Last], Last, seen)
<1>1. PICK N \in Nat : N = Last /\ Orders = 1 .. N
  BY OrdersAre DEF Truthful, Last
<1> DEFINE rows == SavedRows(seen)
           fails == {n \in 0 .. N : ~SavedSound(rows[n], n, seen)}
<1>2. rows[0] = Live(seen) /\ \A o \in Orders : rows[o] = Merged(rows[o - 1], o)
  BY SavedRowsAre
<1> HIDE DEF rows
<1>3. fails = {}
  <2> SUFFICES ASSUME fails # {} PROVE FALSE
    OBVIOUS
  <2>1. fails \subseteq Nat
    OBVIOUS
  <2>2. PICK m \in fails : \A n \in fails : m <= n
    BY <2>1, Least
  <2>3. m \in 0 .. N /\ ~SavedSound(rows[m], m, seen)
    BY <2>2
  <2>4. m # 0
    BY <1>2, <2>3, LiveIsSound
  <2>5. m \in Orders /\ m - 1 \in 0 .. N /\ ~(m <= m - 1)
    BY <1>1, <2>3, <2>4
  <2>6. SavedSound(rows[m - 1], m - 1, seen)
    BY <2>2, <2>5
  <2>7. rows[m] = Merged(rows[m - 1], m)
    BY <1>2, <2>5
  <2> QED BY <2>3, <2>5, <2>6, <2>7, MergedIsSound
<1>4. N \in 0 .. N
  OBVIOUS
<1>5. SavedSound(rows[N], N, seen)
  BY <1>3, <1>4
<1> QED BY <1>1, <1>5 DEF rows

LEMMA NativeRowsAre ==
    ASSUME Truthful, NEW seen \in SUBSET memory
    PROVE  /\ NativeRows(seen)[0] = SavedRows(seen)[Last]
           /\ \A o \in Orders : NativeRows(seen)[o] = IF Native(o) THEN WithNative(NativeRows(seen)[o - 1], o)
                                                      ELSE NativeRows(seen)[o - 1]
<1>1. PICK N \in Nat : N = Cardinality(Orders) /\ Orders = 1 .. N /\ N = Last
  BY OrdersAre DEF Truthful, Last
<1> DEFINE first == SavedRows(seen)[N]
           Add(n, rows) == IF action[n] = "native" /\ Saved(EntryOf[n]) THEN WithNative(rows, n) ELSE rows
           step == [o \in 1 .. N |-> [rows \in SUBSET RowSet |-> Add(o, rows)]]
           Rule(f) == [n \in 0 .. N |-> IF n = 0 THEN first ELSE Add(n, f[n - 1])]
<1>2. step \in [1 .. N -> [SUBSET RowSet -> SUBSET RowSet]]
  <2>1. \A o \in 1 .. N : \A rows \in SUBSET RowSet : Add(o, rows) \in SUBSET RowSet
    BY <1>1, WithNativeType
  <2> HIDE DEF Add
  <2> QED BY <2>1
<1>3. first \in SUBSET RowSet
  BY <1>1, SavedRowsAreSound DEF SavedSound
<1> HIDE DEF first
<1> HIDE DEF step, Rule, Add
<1>4. \E f \in [0 .. N -> SUBSET RowSet] : f[0] = first /\ \A i \in 1 .. N : f[i] = step[i][f[i - 1]]
  <2>1. PICK V : V = SUBSET RowSet
    OBVIOUS
  <2>2. PICK b \in V : b = first
    BY <1>3, <2>1
  <2>3. PICK s \in [1 .. N -> [V -> V]] : s = step
    BY <1>2, <2>1
  <2>4. \E f \in [0 .. N -> V] : f[0] = b /\ \A i \in 1 .. N : f[i] = s[i][f[i - 1]]
    <3>1. N \in Nat /\ b \in V /\ s \in [1 .. N -> [V -> V]]
      OBVIOUS
    <3> QED BY ONLY <3>1, FoldExists
  <2> QED BY <2>1, <2>2, <2>3, <2>4
<1>5. PICK f \in [0 .. N -> SUBSET RowSet] : f[0] = first /\ \A i \in 1 .. N : f[i] = step[i][f[i - 1]]
  BY <1>4
<1>6. f = Rule(f)
  <2>1. ASSUME NEW i \in 1 .. N
        PROVE  f[i] = Add(i, f[i - 1])
    <3>1. f[i] = step[i][f[i - 1]] /\ f[i - 1] \in SUBSET RowSet
      BY <1>5
    <3>2. step[i] = [rows \in SUBSET RowSet |-> Add(i, rows)]
      BY DEF step
    <3> QED BY <3>1, <3>2
  <2>2. \A n \in 0 .. N : f[n] = IF n = 0 THEN first ELSE Add(n, f[n - 1])
    BY <1>5, <2>1
  <2>3. f = [n \in 0 .. N |-> f[n]]
    OBVIOUS
  <2> QED BY <2>2, <2>3 DEF Rule
<1>7. NativeRows(seen) = CHOOSE g : g = Rule(g)
  BY <1>1 DEF NativeRows, first, Rule, Add
<1> DEFINE rows == NativeRows(seen)
<1>8. rows = Rule(rows)
  BY <1>6, <1>7
<1> HIDE DEF rows
<1>9. \A n \in 0 .. N : rows[n] = IF n = 0 THEN first ELSE Add(n, rows[n - 1])
  BY <1>8 DEF Rule
<1>10. rows[0] = first /\ \A o \in Orders : rows[o] = Add(o, rows[o - 1])
  BY <1>1, <1>9
<1>11. \A o : Add(o, rows[o - 1]) = IF Native(o) THEN WithNative(rows[o - 1], o) ELSE rows[o - 1]
  BY DEF Add, Native
<1> QED BY <1>1, <1>10, <1>11 DEF rows, first

LEMMA LedgerIsSound ==
    ASSUME Truthful, NEW seen \in SUBSET memory
    PROVE  NativeSound(Ledger(seen), Last, seen)
<1>1. PICK N \in Nat : N = Last /\ Orders = 1 .. N
  BY OrdersAre DEF Truthful, Last
<1> DEFINE rows == NativeRows(seen)
           fails == {n \in 0 .. N : ~NativeSound(rows[n], n, seen)}
<1>2. /\ rows[0] = SavedRows(seen)[Last]
      /\ \A o \in Orders : rows[o] = IF Native(o) THEN WithNative(rows[o - 1], o) ELSE rows[o - 1]
  BY NativeRowsAre
<1> HIDE DEF rows
<1>3. fails = {}
  <2> SUFFICES ASSUME fails # {} PROVE FALSE
    OBVIOUS
  <2>1. fails \subseteq Nat
    OBVIOUS
  <2>2. PICK m \in fails : \A n \in fails : m <= n
    BY <2>1, Least
  <2>3. m \in 0 .. N /\ ~NativeSound(rows[m], m, seen)
    BY <2>2
  <2>4. m # 0
    BY <1>2, <2>3, NativeStarts, SavedRowsAreSound
  <2>5. m \in Orders /\ m - 1 \in 0 .. N /\ ~(m <= m - 1)
    BY <1>1, <2>3, <2>4
  <2>6. NativeSound(rows[m - 1], m - 1, seen)
    BY <2>2, <2>5
  <2>7. CASE Native(m)
    BY <1>2, <2>3, <2>5, <2>6, <2>7, NativeIsSound
  <2>8. CASE ~Native(m)
    BY <1>2, <2>3, <2>5, <2>6, <2>8, NativeSkips
  <2> QED BY <2>7, <2>8
<1>4. N \in 0 .. N
  OBVIOUS
<1>5. NativeSound(rows[N], N, seen)
  BY <1>3, <1>4
<1> QED BY <1>1, <1>5, LedgerIs DEF rows

(***************************************************************************)
(* What the invariant gives.                                               *)
(***************************************************************************)
LEMMA CountedOnce ==
    ASSUME Truthful, NEW seen \in SUBSET memory, NEW e
    PROVE  Cardinality(Counting(e, seen)) <= 1
<1>1. Apart(Ledger(seen))
  BY LedgerIsSound DEF NativeSound
<1>2. \A r, s \in Counting(e, seen) : r = s
  <2>1. ASSUME NEW r \in Counting(e, seen), NEW s \in Counting(e, seen)
        PROVE  r = s
    <3>1. r \in Ledger(seen) /\ s \in Ledger(seen) /\ e \in r.covers \cap s.covers
      BY DEF Counting
    <3> QED BY <1>1, <3>1 DEF Apart
  <2> QED BY <2>1
<1>3. CASE Counting(e, seen) = {}
  <2>1. Cardinality(Counting(e, seen)) = 0
    BY <1>3, FS_EmptySet
  <2> QED BY <2>1
<1>4. CASE Counting(e, seen) # {}
  <2>1. PICK r : Counting(e, seen) = {r}
    BY <1>2, <1>4
  <2>2. Cardinality(Counting(e, seen)) = 1
    BY <2>1, FS_Singleton
  <2> QED BY <2>2
<1> QED BY <1>3, <1>4

LEMMA NoneMissing ==
    ASSUME Truthful, NEW seen \in SUBSET memory, NEW o \in Orders,
           action[o] \in {"status", "executions", "native"}, ~Split(o, seen)
    PROVE  \A e \in Executions(o) : Counting(e, seen) # {}
<1>0. Wellformed /\ Placing
  BY DEF Truthful, HistoryInv
<1>1. Saved(o) \/ Native(o)
  <2>1. CASE action[o] = "native"
    <3>1. IsExit(o) /\ number[o] > 0
      BY <1>0, <2>1 DEF Placing
    <3> QED BY <1>0, <2>1, <3>1 DEF Placing, Native
  <2> QED BY <2>1 DEF Saved
<1>2. o <= Last
  <2>1. PICK n \in Nat : n = Last /\ Orders = 1 .. n
    BY <1>0, OrdersAre DEF Last
  <2> QED BY <2>1
<1>3. Executions(o) \subseteq Covered(Ledger(seen))
  BY <1>1, <1>2, LedgerIsSound DEF NativeSound
<1> QED BY <1>3 DEF Covered, Counting

LEMMA HistoryGives ==
    ASSUME Wellformed, HistoryInv
    PROVE  TypeOK /\ NoFillTwice /\ NoFillLost /\ AssignedOnce
<1>1. TypeOK
  <2>1. \A o \in Orders : evidence[o] # None => evidence[o].trades \subseteq fills
    BY DEF HistoryInv, EvidenceIsSound, Reviewed
  <2> QED BY <2>1 DEF HistoryInv, HistoryType, TypeOK, AllParts
<1>2. \A seen \in {memory, {}} : seen \in SUBSET memory
  OBVIOUS
<1>3. NoFillTwice
  BY <1>2, CountedOnce DEF NoFillTwice, Truthful
<1>4. NoFillLost
  BY <1>2, NoneMissing DEF NoFillLost, Truthful
<1> QED BY <1>1, <1>3, <1>4 DEF HistoryInv

(* No execution is counted twice and none of an order with a saved fill is *)
(* missed, for any number of orders, unless the Gateway has used a number  *)
(* again, a reviewer mapped the wrong order, or, of what is missed, the    *)
(* Gateway forgot a part; and no statement execution is given to two       *)
(* actions, however the operators' sessions interleave.                    *)
THEOREM LedgersAreTrue ==
    ASSUME Wellformed
    PROVE  Spec => [](TypeOK /\ NoFillTwice /\ NoFillLost /\ AssignedOnce)
<1>1. Init => HistoryInv
  BY HistoryStarts
<1>2. HistoryInv /\ [Next]_vars => HistoryInv'
  BY HistorySteps, HistoryIdles
<1>3. HistoryInv => TypeOK /\ NoFillTwice /\ NoFillLost /\ AssignedOnce
  BY HistoryGives
<1> QED BY <1>1, <1>2, <1>3, PTL DEF Spec

=====
