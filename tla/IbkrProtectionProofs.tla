------------------------ MODULE IbkrProtectionProofs ------------------------
(***************************************************************************)
(* No entry is given a second stop or target, and what is saved is true of *)
(* the broker, for any number of entries and of faults.                    *)
(*                                                                         *)
(* The crux is the permission to submit.  It is in one place at a time: in *)
(* the row (None or PRE_SUBMISSION_BLOCKED), with the worker that has      *)
(* committed SUBMITTING, or with the bridge that works for it, whether it  *)
(* is still waited for or not.  A lost answer or a restart loses it; only  *)
(* an answer that precedes both orders returns it to the row.              *)
(***************************************************************************)
EXTENDS IbkrProtection, TLAPS

Holding == {"call", "wait"}
Before == {"positions", "orders", "positions2", "orders2", "stop"}
Between == {"positions3", "target"}

Closed(e) == \E l \in Legs : pair[e][l] = "filled"

(* Who may place the orders of e.                                          *)
ScanHolds(e) == scan.pc \in Holding /\ scan.e = e
PmHolds(e) == pm.pc \in Holding /\ pm.allow /\ pm.e = e
BridgeHolds(e) == bridge.pc \in Before \cup Between /\ bridge.allow /\ bridge.e = e

(* The order id of a row is saved before anything else is.                 *)
SaneRows == \A e \in Entries :
    /\ rows[e].status = "UNUSED" => ~rows[e].oid
    /\ rows[e].status = "EXECUTED" => rows[e].oid
    /\ ~rows[e].oid => rows[e].raw.prot = None
    /\ rows[e].exited => Closed(e)

SaneScan ==
    /\ scan.pc # "idle" => scan.e \in Entries
    /\ scan.pc = "verify" => rows[scan.e].status = "SUBMITTED" /\ ~rows[scan.e].oid
    /\ scan.pc \in Holding => rows[scan.e].oid

(* A copy of a row that allows an attempt is up to date.                   *)
SanePass ==
    /\ \A e \in pm.dirty : rows[e].oid
    /\ \A e \in pm.closes : Closed(e)
    /\ pm.pc \in {"status"} \cup Holding => pm.e \in Entries /\ rows[pm.e].oid
    /\ pm.pc = "status" /\ MaySubmit(pm.copy) => MaySubmit(rows[pm.e].raw)
    /\ pm.wrote => pm.pc \in Holding /\ ~MaySubmit(pm.copy)

(* The bridge works for a worker that waits for it, or for nobody.         *)
Requested ==
    /\ bridge.pc # "idle" => bridge.e \in Entries
    /\ bridge.owner = "scan" => scan.pc = "wait" /\ bridge.e = scan.e /\ bridge.allow
    /\ bridge.owner = "pm" => /\ pm.pc = "wait" /\ bridge.e = pm.e
                              /\ (bridge.allow <=> pm.allow)
    /\ bridge.pc = "idle" => bridge.owner = None
    /\ bridge.pc \in Between \cup {"positions2", "orders2", "stop", "verify"} => bridge.allow
    /\ bridge.pc = "answer" /\ bridge.answer = "busy" /\ bridge.allow /\ bridge.owner # None
           => placed[bridge.e] = 0

(* The permission is in one place.                                         *)
Permitted == \A e \in Entries :
    MaySubmit(rows[e].raw) =>
        placed[e] = 0 /\ ~ScanHolds(e) /\ ~PmHolds(e) /\ ~BridgeHolds(e)
OneHolder == \A e \in Entries :
    /\ ~(ScanHolds(e) /\ PmHolds(e))
    /\ ScanHolds(e) /\ scan.pc = "call" => placed[e] = 0 /\ ~BridgeHolds(e)
    /\ PmHolds(e) /\ pm.pc = "call" => placed[e] = 0 /\ ~BridgeHolds(e)

(* Orders are placed in turn, each on an empty leg.                        *)
Placing ==
    /\ \A e \in Entries : placed[e] <= 2
    /\ \A e \in Entries, l \in Legs : placed[e] = 0 => pair[e][l] = "none"
    /\ bridge.pc \in Before /\ bridge.allow => placed[bridge.e] = 0
    /\ bridge.pc \in Between => placed[bridge.e] = 1 /\ pair[bridge.e]["target"] = "none"

IInv == /\ TypeOK /\ SaneRows /\ SaneScan /\ SanePass /\ Requested
        /\ Permitted /\ OneHolder /\ Placing

USE DEF Holding, Before, Between

(* Nothing was placed, and nobody holds anything.                          *)
LEMMA Initially == Init => IInv
<1> SUFFICES ASSUME Init PROVE IInv
  OBVIOUS
<1>1. NoRow \in Row /\ NoScan \in Scan /\ NoPass \in Pass /\ NoRequest \in Bridge
  <2>1. NoRaw \in Raw
    BY DEF NoRaw, Raw, Protection
  <2> QED BY <2>1 DEF NoRow, Row, NoScan, Scan, ScanPC, NoPass, Pass, PmPC, NoRequest,
                      Bridge, BridgePC, Answers
<1>2. /\ NoRow.status = "UNUSED" /\ ~NoRow.oid /\ NoRow.raw.prot = None /\ ~NoRow.exited
      /\ NoScan.pc = "idle" /\ NoPass.pc = "idle" /\ NoPass.dirty = {} /\ NoPass.closes = {}
      /\ ~NoPass.wrote /\ NoRequest.pc = "idle" /\ NoRequest.owner = None
  BY DEF NoRow, NoRaw, NoScan, NoPass, NoRequest
<1>3. None \notin Workers
  BY NoneAssumption DEF Workers
<1> HIDE DEF NoRow, NoScan, NoPass, NoRequest, Row, Scan, Pass, Bridge, Entries
<1>4. TypeOK
  <2>1. pair \in [Entries -> [Legs -> LegState]]
    BY DEF Init, LegState
  <2> QED BY <1>1, <1>3, <2>1 DEF Init, TypeOK, Workers
<1>5. SaneRows /\ SaneScan /\ SanePass /\ Requested
  BY <1>2, <1>3 DEF Init, SaneRows, SaneScan, SanePass, Requested, Workers
<1>6. Permitted /\ OneHolder /\ Placing
  BY <1>2 DEF Init, Permitted, OneHolder, Placing, ScanHolds, PmHolds, BridgeHolds
<1> QED BY <1>4, <1>5, <1>6 DEF IInv

-----------------------------------------------------------------------------
(* The rows.  A write changes the record of one entry at most, and keeps   *)
(* the order ids.                                                          *)
Written(table, e) ==
    /\ table \in [Entries -> Row]
    /\ \A f \in Entries :
          /\ table[f].oid <=> rows[f].oid
          /\ \/ table[f].status = rows[f].status
             \/ table[f].status = "EXECUTED" /\ rows[f].oid
          /\ table[f].exited => rows[f].exited \/ Closed(f)
          /\ f # e => table[f].raw = rows[f].raw

(* A row that is committed with its exit.                                  *)
Finished(r, status, exited, newer) ==
    [r EXCEPT !.status = status, !.exited = exited, !.newer = newer]

(* Nothing else of it changes.                                             *)
LEMMA FinishedFields ==
    ASSUME NEW r \in Row, NEW status \in {"UNUSED", "SUBMITTED", "EXECUTED"},
           NEW exited \in BOOLEAN, NEW newer \in SUBSET Entries
    PROVE  LET q == Finished(r, status, exited, newer) IN
           /\ q \in Row /\ q.status = status /\ (q.oid <=> r.oid) /\ q.raw = r.raw
           /\ (q.exited <=> exited)
<1>1. Finished(r, status, exited, newer) \in Row
  BY DEF Finished, Row
<1>2. /\ Finished(r, status, exited, newer).status = status
      /\ Finished(r, status, exited, newer).raw = r.raw
  BY DEF Finished, Row
<1>3. Finished(r, status, exited, newer).oid <=> r.oid
  BY DEF Finished, Row
<1>4. Finished(r, status, exited, newer).exited <=> exited
  BY DEF Finished, Row
<1> QED BY <1>1, <1>2, <1>3, <1>4

(* A commit writes order ids that were saved and exits that were made.     *)
LEMMA CommittedRows ==
    ASSUME IInv, NEW dirty \in SUBSET Entries, \A e \in dirty : rows[e].oid,
           NEW exits \in SUBSET Entries, \A e \in exits : Closed(e)
    PROVE  /\ \A e \in Entries : Written(Committed(dirty, exits), e)
           /\ \A f \in Entries : Committed(dirty, exits)[f].raw = rows[f].raw
<1> DEFINE table == Committed(dirty, exits)
<1> SUFFICES /\ table \in [Entries -> Row]
             /\ \A f \in Entries :
                   /\ table[f].oid <=> rows[f].oid
                   /\ \/ table[f].status = rows[f].status
                      \/ table[f].status = "EXECUTED" /\ rows[f].oid
                   /\ table[f].exited => rows[f].exited \/ Closed(f)
                   /\ table[f].raw = rows[f].raw
  BY DEF Written
<1>1. /\ \A f \in Entries : /\ rows[f] \in Row
                            /\ rows[f].status \in {"UNUSED", "SUBMITTED", "EXECUTED"}
                            /\ rows[f].exited \in BOOLEAN /\ rows[f].newer \in SUBSET Entries
      /\ Entries \ pm.seen \in SUBSET Entries
  BY DEF IInv, TypeOK, Row
<1> DEFINE status(f) == IF f \in dirty THEN "EXECUTED" ELSE rows[f].status
           exited(f) == rows[f].exited \/ f \in exits
           newer(f) == IF f \in exits THEN Entries \ pm.seen ELSE rows[f].newer
<1>2. table = [f \in Entries |-> Finished(rows[f], status(f), exited(f), newer(f))]
  BY DEF Committed, Finished
<1>3. \A f \in Entries : /\ status(f) \in {"UNUSED", "SUBMITTED", "EXECUTED"}
                         /\ exited(f) \in BOOLEAN /\ newer(f) \in SUBSET Entries
  BY <1>1
<1> HIDE DEF table, Row, Entries
<1>4. ASSUME NEW f \in Entries
      PROVE  LET q == Finished(rows[f], status(f), exited(f), newer(f)) IN
             /\ q \in Row /\ q.status = status(f) /\ (q.oid <=> rows[f].oid)
             /\ q.raw = rows[f].raw /\ (q.exited <=> exited(f))
  <2> HIDE DEF status, exited, newer
  <2> QED BY <1>1, <1>3, FinishedFields
<1>5. \A f \in Entries :
         /\ table[f] \in Row /\ table[f].status = status(f) /\ (table[f].oid <=> rows[f].oid)
         /\ table[f].raw = rows[f].raw /\ (table[f].exited <=> exited(f))
  <2> HIDE DEF status, exited, newer
  <2> QED BY <1>2, <1>4
<1>6. table \in [Entries -> Row]
  <2> HIDE DEF status, exited, newer
  <2> QED BY <1>2, <1>4
<1> QED BY <1>5, <1>6

(* The sanity of the rows survives a write.                                *)
LEMMA WrittenSane ==
    ASSUME IInv, NEW e \in Entries, rows[e].oid, Written(rows', e),
           \A f \in Entries : Closed(f) => Closed(f)'
    PROVE  SaneRows'
<1> HIDE DEF Entries, Row
<1> SUFFICES ASSUME NEW f \in Entries
             PROVE  /\ rows'[f].status = "UNUSED" => ~rows'[f].oid
                    /\ rows'[f].status = "EXECUTED" => rows'[f].oid
                    /\ ~rows'[f].oid => rows'[f].raw.prot = None
                    /\ rows'[f].exited => Closed(f)'
  BY DEF SaneRows
<1> QED BY DEF IInv, SaneRows, Written

(* The record of one entry is replaced.                                    *)
LEMMA RawFields ==
    ASSUME NEW r \in Row, NEW raw \in Raw
    PROVE  LET q == [r EXCEPT !.raw = raw] IN
           /\ q \in Row /\ q.status = r.status /\ (q.oid <=> r.oid) /\ q.raw = raw
           /\ (q.exited <=> r.exited)
<1>1. [r EXCEPT !.raw = raw] \in Row
  BY DEF Row
<1>2. [r EXCEPT !.raw = raw].status = r.status /\ [r EXCEPT !.raw = raw].raw = raw
  BY DEF Row
<1>3. [r EXCEPT !.raw = raw].oid <=> r.oid
  BY DEF Row
<1>4. [r EXCEPT !.raw = raw].exited <=> r.exited
  BY DEF Row
<1> QED BY <1>1, <1>2, <1>3, <1>4

(* Whatever else was written, the record of protection may be.             *)
LEMMA RecordWritten ==
    ASSUME NEW table, NEW e \in Entries, Written(table, e), NEW raw \in Raw
    PROVE  /\ Written([table EXCEPT ![e].raw = raw], e)
           /\ [table EXCEPT ![e].raw = raw][e].raw = raw
<1> DEFINE q == [table[e] EXCEPT !.raw = raw]
           new == [table EXCEPT ![e].raw = raw]
<1>1. table \in [Entries -> Row]
  BY DEF Written
<1>2. /\ q \in Row /\ q.status = table[e].status /\ (q.oid <=> table[e].oid) /\ q.raw = raw
      /\ (q.exited <=> table[e].exited)
  <2>1. table[e] \in Row
    BY <1>1
  <2> HIDE DEF Row, Raw, Entries
  <2> QED BY <2>1, RawFields
<1>3. new = [table EXCEPT ![e] = q]
  OBVIOUS
<1> HIDE DEF Row, Raw, Entries, q, new
<1>4. new \in [Entries -> Row] /\ new[e] = q /\ \A f \in Entries \ {e} : new[f] = table[f]
  BY <1>1, <1>2, <1>3
<1>5. Written(new, e) /\ new[e].raw = raw
  BY <1>2, <1>4 DEF Written
<1> QED BY <1>5 DEF new

(* The result of a request is merged into a record.                        *)
MergedRaw(r, prot, ids) == [r EXCEPT !.prot = prot, !.ids = @ \/ ids]

(* So it is with the result of a request.                                  *)
LEMMA MergedWritten ==
    ASSUME NEW table, NEW e \in Entries, Written(table, e), NEW prot \in Protection,
           NEW ids \in BOOLEAN
    PROVE  /\ Written(Merged(table, e, prot, ids), e)
           /\ Merged(table, e, prot, ids)[e].raw.prot = prot
<1> DEFINE raw == MergedRaw(table[e].raw, prot, ids)
<1>1. table \in [Entries -> Row] /\ table[e].raw \in Raw
  BY DEF Written, Row
<1>2. raw \in Raw /\ raw.prot = prot
  <2>1. ASSUME NEW r \in Raw
        PROVE  MergedRaw(r, prot, ids) \in Raw /\ MergedRaw(r, prot, ids).prot = prot
    BY DEF MergedRaw, Raw
  <2> QED BY <1>1, <2>1
<1>3. Merged(table, e, prot, ids) = [table EXCEPT ![e].raw = raw]
  <2> DEFINE one == [table EXCEPT ![e].raw.prot = prot]
             two == [one EXCEPT ![e].raw.ids = @ \/ ids]
             raw1 == [table[e].raw EXCEPT !.prot = prot]
             raw2 == [raw1 EXCEPT !.ids = @ \/ ids]
  <2>1. one \in [Entries -> Row] /\ one[e] = [table[e] EXCEPT !.raw = raw1]
    BY <1>1 DEF Row, Raw
  <2>2. one[e].raw = raw1 /\ two[e] = [one[e] EXCEPT !.raw = raw2]
    BY <1>1, <2>1 DEF Row
  <2>3. two[e] = [table[e] EXCEPT !.raw = raw2]
    BY <1>1, <2>1, <2>2 DEF Row
  <2>4. two = [table EXCEPT ![e].raw = raw2]
    BY <1>1, <2>3
  <2>5. Merged(table, e, prot, ids) = two /\ raw = raw2
    BY DEF Merged, MergedRaw
  <2> QED BY <2>4, <2>5
<1> HIDE DEF raw, Raw, Entries, Row
<1>4. Written([table EXCEPT ![e].raw = raw], e) /\ [table EXCEPT ![e].raw = raw][e].raw = raw
  BY <1>2, RecordWritten
<1> QED BY <1>2, <1>3, <1>4

(* What a worker asks for, and whether it may submit.                      *)
Target(w) == IF w = "scan" THEN scan.e ELSE pm.e
Allowed(w) == w = "scan" \/ pm.allow

(* A worker asks for an entry whose order id is saved.                     *)
LEMMA Targets ==
    ASSUME IInv, NEW w \in Workers, PC(w) \in Holding
    PROVE  Target(w) \in Entries /\ rows[Target(w)].oid
BY DEF IInv, SaneScan, SanePass, Target, PC, Workers

(* A worker writes what it was told; it returns the permission only when   *)
(* it had it and was told to try again.                                    *)
LEMMA ConcludedRows ==
    ASSUME IInv, NEW w \in Workers, PC(w) \in Holding, NEW answer, Conclude(w, answer)
    PROVE  /\ Written(rows', Target(w))
           /\ MaySubmit(rows'[Target(w)].raw) =>
                  MaySubmit(rows[Target(w)].raw) \/ (Allowed(w) /\ answer = "busy")
<1> DEFINE e == Target(w)
           table == IF w = "scan" THEN rows ELSE Committed(pm.dirty, {})
<1>0. e \in Entries /\ rows[e].oid
  BY Targets
<1>1. \A dirty \in SUBSET Entries : (\A f \in dirty : rows[f].oid) =>
          /\ Written(Committed(dirty, {}), e)
          /\ \A f \in Entries : Committed(dirty, {})[f].raw = rows[f].raw
  BY <1>0, CommittedRows
<1>2. Written(Committed(pm.dirty, {}), e) /\ Committed(pm.dirty, {})[e].raw = rows[e].raw
  <2>1. pm.dirty \in SUBSET Entries
    BY DEF IInv, TypeOK, Pass
  <2> QED BY <1>0, <1>1, <2>1 DEF IInv, SanePass
<1>3. Written(rows, e)
  BY DEF Written, IInv, TypeOK
<1>4. Written(table, e)
  BY <1>2, <1>3
<1>5. ASSUME answer \in DOMAIN Confirmed, rows' = Merged(table, e, Confirmed[answer], TRUE)
      PROVE  Written(rows', e) /\ ~MaySubmit(rows'[e].raw)
  <2>1. Confirmed[answer] \in {"PROTECTED", "PROTECTION_PENDING"}
    BY <1>5 DEF Confirmed
  <2>2. Confirmed[answer] \in Protection
    BY <2>1 DEF Protection
  <2> HIDE DEF table, e
  <2>3. Written(rows', e) /\ rows'[e].raw.prot = Confirmed[answer]
    BY <1>0, <1>4, <1>5, <2>2, MergedWritten
  <2> QED BY <2>1, <2>3, NoneAssumption DEF MaySubmit
<1>6. ASSUME Allowed(w), answer = "busy",
             rows' = Merged(table, e, "PRE_SUBMISSION_BLOCKED", FALSE)
      PROVE  Written(rows', e)
  <2> HIDE DEF table, e
  <2>1. "PRE_SUBMISSION_BLOCKED" \in Protection
    BY DEF Protection
  <2> QED BY <1>0, <1>4, <1>6, <2>1, MergedWritten
<1>7. ASSUME w = "pm", rows' = WriteBack
      PROVE  Written(rows', e) /\ (MaySubmit(rows'[e].raw) => MaySubmit(rows[e].raw))
  <2> DEFINE old == Committed(pm.dirty, {})
             raw == IF pm.wrote THEN pm.copy ELSE old[e].raw
  <2>1. rows' = [old EXCEPT ![e].raw = raw]
    BY <1>7 DEF WriteBack, Target
  <2>2. raw \in Raw /\ (MaySubmit(raw) => MaySubmit(rows[e].raw))
    <3>1. pm.copy \in Raw
      BY DEF IInv, TypeOK, Pass
    <3>2. old[e].raw \in Raw /\ old[e].raw = rows[e].raw
      BY <1>0, <1>2 DEF Written, Row
    <3> QED BY <3>1, <3>2 DEF IInv, SanePass
  <2> HIDE DEF old, raw, e
  <2>3. Written(old, e)
    BY <1>2 DEF old
  <2> QED BY <1>0, <2>1, <2>2, <2>3, RecordWritten
<1>8. \/ answer \in DOMAIN Confirmed /\ rows' = Merged(table, e, Confirmed[answer], TRUE)
      \/ /\ Allowed(w) /\ answer = "busy"
         /\ rows' = Merged(table, e, "PRE_SUBMISSION_BLOCKED", FALSE)
      \/ rows' = rows
      \/ w = "pm" /\ rows' = WriteBack
  BY DEF Conclude, Target, Allowed, Retryable, Workers
<1> HIDE DEF table, e
<1>9. Written(rows', e) /\ (MaySubmit(rows'[e].raw) =>
                               MaySubmit(rows[e].raw) \/ (Allowed(w) /\ answer = "busy"))
  BY <1>3, <1>5, <1>6, <1>7, <1>8
<1> QED BY <1>9 DEF e

-----------------------------------------------------------------------------
(* A worker's request ends: what its answer means is written, and it       *)
(* leaves.  The bridge is done, or goes on for nobody or for the other.    *)
LEMMA Concluding ==
    ASSUME IInv, NEW w \in Workers, PC(w) \in Holding, NEW answer, Conclude(w, answer),
           answer = "busy" /\ Allowed(w) =>
               placed[Target(w)] = 0 /\ ~BridgeHolds(Target(w)),
           bridge' \in Bridge, bridge'.owner # w,
           \/ bridge'.pc = "idle" /\ bridge'.owner = None
           \/ /\ bridge'.pc = bridge.pc /\ bridge'.e = bridge.e
              /\ bridge'.allow <=> bridge.allow
              /\ bridge'.answer = bridge.answer /\ bridge'.owner \in {None, bridge.owner},
           UNCHANGED broker, UNCHANGED attempts, faults' \in Nat
    PROVE  IInv'
<1> DEFINE e == Target(w)
<1>0. /\ TypeOK /\ e \in Entries /\ rows[e].oid
      /\ pair' = pair /\ placed' = placed /\ entry' = entry /\ position' = position
  BY Targets DEF IInv, broker
<1>1. Written(rows', e) /\ (MaySubmit(rows'[e].raw) =>
                               MaySubmit(rows[e].raw) \/ (Allowed(w) /\ answer = "busy"))
  BY ConcludedRows
<1>2. /\ guard' = IF guard = w THEN None ELSE guard
      /\ w = "scan" => scan' = NoScan /\ pm' = pm
      /\ w = "pm" => pm' = NoPass /\ scan' = scan
      /\ w = "scan" \/ w = "pm"
  BY DEF Conclude, Leave, Workers
<1>3. /\ NoScan \in Scan /\ NoScan.pc = "idle" /\ NoPass \in Pass /\ NoPass.pc = "idle"
      /\ NoPass.dirty = {} /\ NoPass.closes = {} /\ ~NoPass.wrote
  BY DEF NoScan, Scan, ScanPC, NoPass, Pass, PmPC, NoRaw, Raw, Protection
<1>n. None \notin Workers /\ "scan" \in Workers /\ "pm" \in Workers
  BY NoneAssumption DEF Workers
<1>c. w = "scan" => scan.pc \in Holding /\ e = scan.e /\ Allowed(w) /\ ScanHolds(e)
  BY DEF PC, Target, Allowed, ScanHolds
<1>d. w = "pm" => pm.pc \in Holding /\ e = pm.e /\ (Allowed(w) => PmHolds(e))
  BY DEF PC, Target, Allowed, PmHolds
<1> HIDE DEF Row, Scan, Pass, Bridge, NoScan, NoPass, Entries, e
<1>4. TypeOK'
  <2>1. scan' \in Scan /\ pm' \in Pass /\ guard' \in Workers \cup {None}
    BY <1>0, <1>2, <1>3 DEF TypeOK
  <2>2. /\ guard' = "scan" => scan'.pc \in {"call", "wait"}
        /\ guard' = "pm" => pm'.pc \in {"call", "wait"}
    BY <1>0, <1>2, <1>n DEF TypeOK
  <2> QED BY <1>0, <1>1, <2>1, <2>2 DEF TypeOK, Written
<1>5. SaneRows'
  BY <1>0, <1>1, WrittenSane DEF Closed
<1>6. SaneScan'
  <2>1. CASE w = "scan"
    BY <1>2, <1>3, <2>1 DEF SaneScan
  <2>2. CASE w = "pm"
    BY <1>0, <1>1, <1>2, <2>2 DEF SaneScan, IInv, Written
  <2> QED BY <1>2, <2>1, <2>2
<1>7. SanePass'
  <2>1. CASE w = "pm"
    BY <1>2, <1>3, <2>1 DEF SanePass
  <2>2. CASE w = "scan"
    <3>1. ~MaySubmit(rows[e].raw)
      BY <1>0, <1>c, <2>2 DEF IInv, Permitted
    <3>2. \A f \in pm.dirty : f \in Entries
      BY <1>0 DEF TypeOK, Pass
    <3>3. pm.pc = "status" /\ MaySubmit(pm.copy) => rows'[pm.e].raw = rows[pm.e].raw
      BY <1>1, <3>1 DEF IInv, SanePass, Written
    <3> QED BY <1>0, <1>1, <1>2, <2>2, <3>2, <3>3 DEF SanePass, IInv, Written, Closed
  <2> QED BY <1>2, <2>1, <2>2
<1>8. Requested'
  BY <1>0, <1>2, <1>3, <1>n DEF IInv, Requested
<1>9. \A f \in Entries : /\ ScanHolds(f)' => ScanHolds(f) /\ w = "pm"
                         /\ PmHolds(f)' => PmHolds(f) /\ w = "scan"
                         /\ BridgeHolds(f)' => BridgeHolds(f)
  BY <1>2, <1>3 DEF ScanHolds, PmHolds, BridgeHolds
<1>10. MaySubmit(rows'[e].raw) => /\ placed[e] = 0 /\ ~BridgeHolds(e)
                                  /\ w = "scan" => ~PmHolds(e)
                                  /\ w = "pm" => ~ScanHolds(e)
  <2>1. CASE MaySubmit(rows[e].raw)
    BY <1>0, <2>1 DEF IInv, Permitted
  <2>2. CASE Allowed(w) /\ answer = "busy"
    BY <1>0, <1>c, <1>d, <2>2 DEF IInv, OneHolder, e
  <2> QED BY <1>1, <2>1, <2>2
<1>11. Permitted'
  <2> SUFFICES ASSUME NEW f \in Entries, MaySubmit(rows'[f].raw)
               PROVE  placed[f] = 0 /\ ~ScanHolds(f)' /\ ~PmHolds(f)' /\ ~BridgeHolds(f)'
    BY <1>0 DEF Permitted, MaySubmit
  <2>1. CASE f = e
    BY <1>2, <1>9, <1>10, <2>1
  <2>2. CASE f # e
    BY <1>1, <1>9, <2>2 DEF IInv, Permitted, Written
  <2> QED BY <2>1, <2>2
<1>12. OneHolder'
  <2>1. scan'.pc = "call" => scan.pc = "call"
    BY <1>2, <1>3
  <2>2. pm'.pc = "call" => pm.pc = "call"
    BY <1>2, <1>3
  <2> QED BY <1>0, <1>9, <2>1, <2>2 DEF IInv, OneHolder
<1>13. Placing'
  BY <1>0 DEF IInv, Placing
<1> QED BY <1>4, <1>5, <1>6, <1>7, <1>8, <1>11, <1>12, <1>13 DEF IInv

(* The bridge goes on for nobody.                                          *)
LEMMA OwnerFields ==
    ASSUME NEW b \in Bridge
    PROVE  LET q == [b EXCEPT !.owner = None] IN
           /\ q \in Bridge /\ q.owner = None /\ q.pc = b.pc /\ q.e = b.e
           /\ q.allow = b.allow /\ q.answer = b.answer
BY DEF Bridge, BridgePC, Answers

(* A bridge that is done waits for a request.                              *)
LEMMA IdleBridge == NoRequest \in Bridge /\ NoRequest.pc = "idle" /\ NoRequest.owner = None
BY DEF NoRequest, Bridge, BridgePC, Answers

(* A worker hears the answer to its own request.                           *)
LEMMA ReceiveKeeps == ASSUME IInv, NEW w \in Workers, Receive(w) PROVE IInv'
<1>1. /\ PC(w) \in Holding /\ Conclude(w, bridge.answer) /\ bridge' = NoRequest
      /\ UNCHANGED broker /\ UNCHANGED attempts /\ faults' \in Nat
      /\ bridge.pc = "answer" /\ bridge.owner = w
  BY DEF Receive, IInv, TypeOK
<1>2. None # w
  BY NoneAssumption DEF Workers
<1>3. bridge.e = Target(w) /\ (bridge.allow <=> Allowed(w))
  BY <1>1 DEF IInv, Requested, Target, Allowed, Workers
<1>4. bridge.answer = "busy" /\ Allowed(w) =>
          placed[Target(w)] = 0 /\ ~BridgeHolds(Target(w))
  BY <1>1, <1>2, <1>3 DEF IInv, Requested, BridgeHolds
<1> QED BY <1>1, <1>2, <1>4, IdleBridge, Concluding

(* A lost answer never returns the permission.                             *)
LEMMA GiveUpKeeps == ASSUME IInv, NEW w \in Workers, GiveUp(w) PROVE IInv'
<1> DEFINE b == [bridge EXCEPT !.owner = None]
<1>1. /\ PC(w) \in Holding /\ Conclude(w, "lost")
      /\ bridge' = IF bridge.owner = w THEN b ELSE bridge
      /\ UNCHANGED broker /\ UNCHANGED attempts /\ faults' \in Nat
  BY DEF GiveUp, IInv, TypeOK, CountFault
<1>2. None # w /\ bridge \in Bridge
  BY NoneAssumption DEF Workers, IInv, TypeOK
<1>3. /\ b \in Bridge /\ b.owner = None /\ b.pc = bridge.pc /\ b.e = bridge.e
      /\ b.allow = bridge.allow /\ b.answer = bridge.answer
  BY <1>2, OwnerFields
<1> HIDE DEF b, Bridge
<1>4. /\ bridge' \in Bridge /\ bridge'.owner # w
      /\ bridge'.pc = bridge.pc /\ bridge'.e = bridge.e /\ (bridge'.allow <=> bridge.allow)
      /\ bridge'.answer = bridge.answer /\ bridge'.owner \in {None, bridge.owner}
  BY <1>1, <1>2, <1>3
<1> QED BY <1>1, <1>4, Concluding

(* A worker waits for its answer.                                          *)
LEMMA WaitFields ==
    ASSUME NEW r \in Scan, NEW p \in Pass
    PROVE  /\ [r EXCEPT !.pc = "wait"] \in Scan /\ [p EXCEPT !.pc = "wait"] \in Pass
           /\ [r EXCEPT !.pc = "wait"].pc = "wait" /\ [p EXCEPT !.pc = "wait"].pc = "wait"
           /\ [r EXCEPT !.pc = "wait"].e = r.e /\ [p EXCEPT !.pc = "wait"].e = p.e
           /\ [p EXCEPT !.pc = "wait"].dirty = p.dirty /\ [p EXCEPT !.pc = "wait"].closes = p.closes
           /\ [p EXCEPT !.pc = "wait"].copy = p.copy
           /\ ([p EXCEPT !.pc = "wait"].allow <=> p.allow)
           /\ ([p EXCEPT !.pc = "wait"].wrote <=> p.wrote)
<1>1. [r EXCEPT !.pc = "wait"] \in Scan /\ [p EXCEPT !.pc = "wait"] \in Pass
  BY DEF Scan, ScanPC, Pass, PmPC
<1>2. /\ [r EXCEPT !.pc = "wait"].pc = "wait" /\ [p EXCEPT !.pc = "wait"].pc = "wait"
      /\ [r EXCEPT !.pc = "wait"].e = r.e /\ [p EXCEPT !.pc = "wait"].e = p.e
      /\ [p EXCEPT !.pc = "wait"].dirty = p.dirty /\ [p EXCEPT !.pc = "wait"].closes = p.closes
      /\ [p EXCEPT !.pc = "wait"].copy = p.copy
  BY DEF Scan, Pass
<1>3. [p EXCEPT !.pc = "wait"].allow <=> p.allow
  BY DEF Pass
<1>4. [p EXCEPT !.pc = "wait"].wrote <=> p.wrote
  BY DEF Pass
<1> QED BY <1>1, <1>2, <1>3, <1>4

(* With its request a worker hands the permission over to the bridge.      *)
LEMMA Requesting ==
    ASSUME IInv, NEW w \in Workers, PC(w) = "call", bridge.pc = "idle",
           NEW b \in Bridge, bridge' = b, b.pc = "positions", b.owner = w, b.e = Target(w),
           b.allow <=> Allowed(w),
           IF w = "scan" THEN scan' = [scan EXCEPT !.pc = "wait"] /\ pm' = pm
                         ELSE pm' = [pm EXCEPT !.pc = "wait"] /\ scan' = scan,
           UNCHANGED << rows, guard, broker, attempts, faults >>
    PROVE  IInv'
<1> DEFINE e == Target(w)
<1>0. /\ TypeOK /\ e \in Entries /\ scan \in Scan /\ pm \in Pass
      /\ pair' = pair /\ placed' = placed /\ entry' = entry /\ position' = position
  BY Targets DEF IInv, broker, TypeOK
<1>w. w = "scan" \/ w = "pm"
  BY DEF Workers
<1>n. None # "scan" /\ None # "pm"
  BY NoneAssumption
<1>c. w = "scan" => scan.pc = "call" /\ e = scan.e /\ Allowed(w)
  BY DEF PC, Target, Allowed
<1>d. w = "pm" => pm.pc = "call" /\ e = pm.e /\ (Allowed(w) <=> pm.allow)
  BY DEF PC, Target, Allowed
<1>1. /\ scan' \in Scan /\ scan'.e = scan.e
      /\ scan'.pc = (IF w = "scan" THEN "wait" ELSE scan.pc)
      /\ w = "pm" => scan' = scan
  BY <1>0, <1>w, WaitFields
<1>2. /\ pm' \in Pass /\ pm'.e = pm.e /\ pm'.dirty = pm.dirty /\ pm'.closes = pm.closes
      /\ pm'.copy = pm.copy /\ (pm'.allow <=> pm.allow) /\ (pm'.wrote <=> pm.wrote)
      /\ pm'.pc = (IF w = "pm" THEN "wait" ELSE pm.pc)
      /\ w = "scan" => pm' = pm
  <2> HIDE DEF Pass, Scan, Row, Bridge, Entries, e
  <2>1. CASE w = "scan"
    BY <1>0, <2>1
  <2>2. CASE w = "pm"
    <3>1. pm' = [pm EXCEPT !.pc = "wait"]
      BY <2>2
    <3> QED BY <1>0, <2>2, <3>1, WaitFields
  <2> QED BY <1>w, <2>1, <2>2
<1> HIDE DEF Row, Scan, Pass, Bridge, Entries, e
<1>3. TypeOK'
  BY <1>0, <1>1, <1>2, <1>c, <1>d DEF TypeOK
<1>4. SaneRows'
  BY <1>0 DEF IInv, SaneRows, Closed
<1>5. SaneScan'
  BY <1>0, <1>1, <1>c, <1>d, <1>w DEF IInv, SaneScan
<1>6. SanePass'
  BY <1>0, <1>2, <1>c, <1>d, <1>w DEF IInv, SanePass, Closed
<1>7. Requested'
  BY <1>0, <1>1, <1>2, <1>c, <1>d, <1>w, <1>n DEF Requested, e
<1>8. \A f \in Entries : /\ ScanHolds(f)' <=> ScanHolds(f)
                         /\ PmHolds(f)' <=> PmHolds(f)
                         /\ BridgeHolds(f)' <=> f = e /\ Allowed(w)
  BY <1>1, <1>2, <1>c, <1>d, <1>w DEF ScanHolds, PmHolds, BridgeHolds, e
<1>9. Allowed(w) => /\ w = "scan" => ScanHolds(e)
                    /\ w = "pm" => PmHolds(e)
  BY <1>c, <1>d DEF ScanHolds, PmHolds
<1>10. Allowed(w) => placed[e] = 0 /\ ~MaySubmit(rows[e].raw)
  BY <1>0, <1>9, <1>c, <1>d, <1>w DEF IInv, OneHolder, Permitted
<1>11. Permitted'
  BY <1>0, <1>8, <1>10 DEF IInv, Permitted, MaySubmit
<1>12. OneHolder'
  <2> SUFFICES ASSUME NEW f \in Entries
               PROVE  /\ ~(ScanHolds(f)' /\ PmHolds(f)')
                      /\ ScanHolds(f)' /\ scan'.pc = "call" => placed[f] = 0 /\ ~BridgeHolds(f)'
                      /\ PmHolds(f)' /\ pm'.pc = "call" => placed[f] = 0 /\ ~BridgeHolds(f)'
    BY <1>0 DEF OneHolder
  <2>1. /\ ~(ScanHolds(f) /\ PmHolds(f))
        /\ ScanHolds(f) /\ scan.pc = "call" => placed[f] = 0
        /\ PmHolds(f) /\ pm.pc = "call" => placed[f] = 0
    BY DEF IInv, OneHolder
  <2> QED BY <1>1, <1>2, <1>8, <1>9, <1>w, <2>1
<1>13. Placing'
  BY <1>0, <1>10 DEF IInv, Placing, e
<1> QED BY <1>3, <1>4, <1>5, <1>6, <1>7, <1>11, <1>12, <1>13 DEF IInv

(* A busy bridge sends a worker back with its permission.                  *)
LEMMA SendKeeps == ASSUME IInv, NEW w \in Workers, Send(w) PROVE IInv'
<1>0. /\ PC(w) = "call" /\ UNCHANGED << broker, attempts, faults >>
      /\ faults' \in Nat /\ bridge \in Bridge
  BY DEF Send, IInv, TypeOK
<1>1. CASE bridge.pc # "idle" /\ Conclude(w, "busy") /\ bridge' = bridge
  <2>1. bridge.owner # w
    BY <1>0 DEF IInv, Requested, PC, Workers
  <2>2. Allowed(w) => placed[Target(w)] = 0 /\ ~BridgeHolds(Target(w))
    BY <1>0, Targets DEF IInv, OneHolder, PC, Allowed, Target, ScanHolds, PmHolds, Workers
  <2> HIDE DEF Bridge
  <2>3. bridge' \in Bridge /\ bridge'.owner # w /\ bridge'.owner \in {None, bridge.owner}
    BY <1>0, <1>1, <2>1
  <2> QED BY <1>0, <1>1, <2>2, <2>3, Concluding
<1>2. CASE /\ bridge.pc = "idle"
           /\ bridge' = [pc |-> "positions", owner |-> w, answer |-> None,
                         e |-> IF w = "scan" THEN scan.e ELSE pm.e,
                         allow |-> w = "scan" \/ pm.allow]
           /\ IF w = "scan" THEN scan' = [scan EXCEPT !.pc = "wait"] /\ UNCHANGED pm
                            ELSE pm' = [pm EXCEPT !.pc = "wait"] /\ UNCHANGED scan
           /\ UNCHANGED << rows, guard >>
  <2> DEFINE b == [pc |-> "positions", owner |-> w, answer |-> None,
                   e |-> Target(w), allow |-> Allowed(w)]
  <2>1. Target(w) \in Entries /\ Allowed(w) \in BOOLEAN
    <3>1. Target(w) \in Entries
      BY <1>0, Targets
    <3>2. Allowed(w) \in BOOLEAN
      BY DEF Allowed, IInv, TypeOK, Pass
    <3> QED BY <3>1, <3>2
  <2>2. b \in Bridge
    BY <2>1 DEF Bridge, BridgePC, Answers
  <2>3. bridge' = b
    BY <1>2 DEF Target, Allowed
  <2>4. b.pc = "positions" /\ b.owner = w /\ b.e = Target(w)
    OBVIOUS
  <2>5. b.allow <=> Allowed(w)
    OBVIOUS
  <2> HIDE DEF b, Bridge
  <2> QED BY <1>0, <1>2, <2>2, <2>3, <2>4, <2>5, Requesting
<1> QED BY <1>1, <1>2 DEF Send

-----------------------------------------------------------------------------
(* The scan, before it asks for protection: the entry's row is written, but *)
(* not its record of protection.                                           *)
LEMMA Entering ==
    ASSUME IInv, scan.pc \in {"idle", "verify"}, NEW r \in Scan, scan' = r,
           r.pc \in {"idle", "verify"},
           rows' \in [Entries -> Row],
           \A e \in Entries : /\ rows'[e].raw = rows[e].raw /\ (rows[e].oid => rows'[e].oid)
                              /\ rows'[e].exited => rows[e].exited
                              /\ rows'[e].status = "UNUSED" => ~rows'[e].oid
                              /\ rows'[e].status = "EXECUTED" => rows'[e].oid
                              /\ ~rows'[e].oid => ~rows[e].oid,
           r.pc = "verify" => /\ r.e \in Entries
                              /\ rows'[r.e].status = "SUBMITTED" /\ ~rows'[r.e].oid,
           entry' \in [Entries -> {"none", "open", "filled", "forgotten"}],
           UNCHANGED << pair, placed, position, pm, guard, bridge, attempts, faults >>
    PROVE  IInv'
<1>0. TypeOK /\ \A e \in pm.dirty : e \in Entries
  BY DEF IInv, TypeOK, Pass
<1>n. None # "scan"
  BY NoneAssumption
<1> HIDE DEF Row, Scan, Pass, Bridge, Entries
<1>1. TypeOK'
  BY <1>0, <1>n DEF TypeOK
<1>2. SaneRows' /\ SaneScan'
  BY DEF IInv, SaneRows, SaneScan, Closed
<1>3. SanePass'
  BY <1>0 DEF IInv, SanePass, Closed
<1>4. Requested'
  BY DEF IInv, Requested
<1>5. \A e \in Entries : /\ ~ScanHolds(e)' /\ (PmHolds(e)' => PmHolds(e))
                         /\ BridgeHolds(e)' => BridgeHolds(e)
  BY DEF ScanHolds, PmHolds, BridgeHolds
<1>6. Permitted' /\ OneHolder' /\ Placing'
  BY <1>5 DEF IInv, Permitted, OneHolder, Placing, MaySubmit
<1> QED BY <1>1, <1>2, <1>3, <1>4, <1>6 DEF IInv

Standing(r, status, oid) == [r EXCEPT !.status = status, !.oid = oid]

(* Only the status and the order id change.                                *)
LEMMA StandingFields ==
    ASSUME NEW r \in Row, NEW status \in {"UNUSED", "SUBMITTED", "EXECUTED"}, NEW oid \in BOOLEAN
    PROVE  LET q == Standing(r, status, oid) IN
           /\ q \in Row /\ q.status = status /\ (q.oid <=> oid) /\ q.raw = r.raw
           /\ (q.exited <=> r.exited)
<1>1. Standing(r, status, oid) \in Row
  BY DEF Standing, Row
<1>2. Standing(r, status, oid).status = status /\ Standing(r, status, oid).raw = r.raw
  BY DEF Standing, Row
<1>3. Standing(r, status, oid).oid <=> oid
  BY DEF Standing, Row
<1>4. Standing(r, status, oid).exited <=> r.exited
  BY DEF Standing, Row
<1> QED BY <1>1, <1>2, <1>3, <1>4

(* An intent is saved, without an order id.                                *)
LEMMA SubmitKeeps == ASSUME IInv, NEW e \in Entries, Submit(e) PROVE IInv'
<1> DEFINE q == Standing(rows[e], "SUBMITTED", rows[e].oid)
           r == [pc |-> "verify", e |-> e]
<1>0. rows \in [Entries -> Row] /\ rows[e].oid \in BOOLEAN /\ ~rows[e].oid
  BY DEF IInv, TypeOK, Row, SaneRows, Submit
<1>1. /\ q \in Row /\ q.status = "SUBMITTED" /\ ~q.oid /\ q.raw = rows[e].raw
      /\ (q.exited <=> rows[e].exited)
  BY <1>0, StandingFields
<1>2. rows' = [rows EXCEPT ![e] = q]
  <2>1. q = [rows[e] EXCEPT !.status = "SUBMITTED"]
    BY <1>0 DEF Standing, Row
  <2> HIDE DEF q
  <2> QED BY <1>0, <2>1 DEF Submit
<1>3. r \in Scan /\ scan' = r /\ r.pc = "verify" /\ r.e = e /\ scan.pc = "idle"
  BY DEF Scan, ScanPC, Submit
<1>4. /\ entry' \in [Entries -> {"none", "open", "filled", "forgotten"}]
      /\ UNCHANGED << pair, placed, position, pm, guard, bridge, attempts, faults >>
  BY DEF Submit, IInv, TypeOK
<1> HIDE DEF Row, Scan, Entries, q, r
<1>5. rows' \in [Entries -> Row] /\ rows'[e] = q /\ \A f \in Entries \ {e} : rows'[f] = rows[f]
  BY <1>0, <1>1, <1>2
<1>6. \A f \in Entries : /\ rows[f].status = "UNUSED" => ~rows[f].oid
                         /\ rows[f].status = "EXECUTED" => rows[f].oid
  BY DEF IInv, SaneRows
<1> QED BY <1>0, <1>1, <1>3, <1>4, <1>5, <1>6, Entering

(* An unverified fill: the order id is saved, and the manager may see it.  *)
LEMMA LeaveKeeps == ASSUME IInv, LeaveSubmitted PROVE IInv'
<1> DEFINE e == scan.e
           q == Standing(rows[e], "SUBMITTED", TRUE)
<1>0. /\ rows \in [Entries -> Row] /\ e \in Entries /\ rows[e].status = "SUBMITTED"
      /\ scan.pc = "verify"
  BY DEF IInv, TypeOK, SaneScan, LeaveSubmitted
<1>1. /\ q \in Row /\ q.status = "SUBMITTED" /\ q.oid /\ q.raw = rows[e].raw
      /\ (q.exited <=> rows[e].exited)
  BY <1>0, StandingFields
<1>2. rows' = [rows EXCEPT ![e] = q]
  <2>1. q = [rows[e] EXCEPT !.oid = TRUE]
    BY <1>0 DEF Standing, Row
  <2> HIDE DEF q
  <2> QED BY <1>0, <2>1 DEF LeaveSubmitted
<1>3. NoScan \in Scan /\ scan' = NoScan /\ NoScan.pc = "idle"
  BY DEF Scan, ScanPC, LeaveSubmitted, NoScan
<1>4. /\ entry' \in [Entries -> {"none", "open", "filled", "forgotten"}]
      /\ UNCHANGED << pair, placed, position, pm, guard, bridge, attempts, faults >>
  BY DEF LeaveSubmitted, IInv, TypeOK, broker
<1> HIDE DEF Row, Scan, NoScan, Entries, e, q
<1>5. rows' \in [Entries -> Row] /\ rows'[e] = q /\ \A f \in Entries \ {e} : rows'[f] = rows[f]
  BY <1>0, <1>1, <1>2
<1>6. \A f \in Entries : /\ rows[f].status = "UNUSED" => ~rows[f].oid
                         /\ rows[f].status = "EXECUTED" => rows[f].oid
  BY DEF IInv, SaneRows
<1> QED BY <1>0, <1>1, <1>3, <1>4, <1>5, <1>6, Entering

(* The scan takes the permission from the row of the entry it verified:    *)
(* the row had no order id, so the manager has not seen it yet.            *)
Attached(r) == [r EXCEPT !.status = "EXECUTED", !.oid = TRUE,
                         !.raw = [@ EXCEPT !.prot = "SUBMITTING", !.proof = TRUE]]

(* The record says SUBMITTING.                                             *)
LEMMA AttachedFields ==
    ASSUME NEW r \in Row
    PROVE  /\ Attached(r) \in Row /\ Attached(r).status = "EXECUTED" /\ Attached(r).oid
           /\ Attached(r).raw.prot = "SUBMITTING" /\ (Attached(r).exited <=> r.exited)
<1> DEFINE raw == [r.raw EXCEPT !.prot = "SUBMITTING", !.proof = TRUE]
<1>1. raw \in Raw /\ raw.prot = "SUBMITTING"
  BY DEF Row, Raw, Protection
<1>2. Attached(r) = [r EXCEPT !.status = "EXECUTED", !.oid = TRUE, !.raw = raw]
  BY DEF Attached
<1> HIDE DEF raw, Raw
<1>3. /\ Attached(r) \in Row /\ Attached(r).status = "EXECUTED"
      /\ Attached(r).raw.prot = "SUBMITTING"
  BY <1>1, <1>2 DEF Row
<1>4. Attached(r).oid
  BY <1>2 DEF Row
<1>5. Attached(r).exited <=> r.exited
  BY <1>2 DEF Row
<1> QED BY <1>3, <1>4, <1>5

(* The scan attaches protection to the entry that filled.                  *)
LEMMA AttachKeeps == ASSUME IInv, Attach PROVE IInv'
<1> DEFINE e == scan.e
           q == Attached(rows[e])
           r == [scan EXCEPT !.pc = "call"]
<1>0. /\ TypeOK /\ rows \in [Entries -> Row] /\ e \in Entries /\ ~rows[e].oid
      /\ scan.pc = "verify" /\ scan \in Scan
      /\ \A f \in pm.dirty : f \in Entries
  BY DEF IInv, TypeOK, SaneScan, Attach, Pass
<1>1. /\ q \in Row /\ q.status = "EXECUTED" /\ q.oid /\ q.raw.prot = "SUBMITTING"
      /\ (q.exited <=> rows[e].exited)
  BY <1>0, AttachedFields
<1>2. rows' = [rows EXCEPT ![e] = q]
  BY <1>0 DEF Attach, Attached
<1>3. r \in Scan /\ r.pc = "call" /\ r.e = e /\ NoScan \in Scan /\ NoScan.pc = "idle"
  BY <1>0 DEF Scan, ScanPC, NoScan
<1>4. /\ \/ guard = None /\ guard' = "scan" /\ scan' = r
         \/ guard' = guard /\ scan' = NoScan
      /\ UNCHANGED << pair, placed, entry, position, pm, bridge, attempts, faults >>
  BY DEF Attach, broker
<1>n. None # "scan" /\ None # "pm" /\ None # "SUBMITTING"
  BY NoneAssumption
<1> HIDE DEF Row, Scan, NoScan, Pass, Bridge, Entries, e, q, r
<1>5. rows' \in [Entries -> Row] /\ rows'[e] = q /\ \A f \in Entries \ {e} : rows'[f] = rows[f]
  BY <1>0, <1>1, <1>2
<1>6. /\ MaySubmit(rows[e].raw) /\ ~MaySubmit(rows'[e].raw)
      /\ placed[e] = 0 /\ ~PmHolds(e) /\ ~BridgeHolds(e)
  BY <1>0, <1>1, <1>5, <1>n DEF IInv, SaneRows, Permitted, MaySubmit
<1>7. TypeOK'
  <2>1. guard # "scan"
    BY <1>0 DEF TypeOK
  <2>2. scan' \in Scan /\ guard' \in Workers \cup {None}
    BY <1>0, <1>3, <1>4 DEF TypeOK, Workers
  <2>3. guard' = "scan" => scan'.pc \in {"call", "wait"}
    BY <1>3, <1>4, <2>1
  <2>4. guard' = "pm" => pm'.pc \in {"call", "wait"}
    BY <1>0, <1>4 DEF TypeOK
  <2> QED BY <1>0, <1>4, <1>5, <2>2, <2>3, <2>4 DEF TypeOK
<1>8. SaneRows'
  BY <1>1, <1>4, <1>5 DEF IInv, SaneRows, Closed
<1>9. SaneScan'
  BY <1>0, <1>1, <1>3, <1>4, <1>5 DEF SaneScan
<1>10. SanePass'
  <2>1. pm.pc \in {"status"} \cup Holding => pm.e # e
    BY <1>0 DEF IInv, SanePass
  <2> QED BY <1>0, <1>1, <1>4, <1>5, <2>1 DEF IInv, SanePass, Closed
<1>11. Requested'
  BY <1>0, <1>4, <1>n DEF IInv, Requested
<1>12. \A f \in Entries : /\ ScanHolds(f)' => f = e
                          /\ PmHolds(f)' <=> PmHolds(f)
                          /\ BridgeHolds(f)' <=> BridgeHolds(f)
  BY <1>3, <1>4 DEF ScanHolds, PmHolds, BridgeHolds
<1>13. Permitted'
  <2> SUFFICES ASSUME NEW f \in Entries, MaySubmit(rows'[f].raw)
               PROVE  placed[f] = 0 /\ ~ScanHolds(f)' /\ ~PmHolds(f)' /\ ~BridgeHolds(f)'
    BY <1>4 DEF Permitted, MaySubmit
  <2>1. f # e /\ MaySubmit(rows[f].raw)
    BY <1>5, <1>6
  <2> QED BY <1>12, <2>1 DEF IInv, Permitted
<1>14. OneHolder'
  BY <1>4, <1>6, <1>12 DEF IInv, OneHolder
<1>15. Placing'
  BY <1>4 DEF IInv, Placing
<1> QED BY <1>7, <1>8, <1>9, <1>10, <1>11, <1>13, <1>14, <1>15 DEF IInv

-----------------------------------------------------------------------------
(* The position manager reads and writes, without a request.               *)
LEMMA PassWrites ==
    ASSUME IInv, pm.pc \notin Holding, NEW p \in Pass, pm' = p, p.pc \notin Holding, ~p.wrote,
           \A e \in p.dirty : rows[e].oid,
           \A e \in p.closes : Closed(e),
           p.pc = "status" => /\ p.e \in Entries /\ rows[p.e].oid
                              /\ MaySubmit(p.copy) => MaySubmit(rows'[p.e].raw),
           rows' \in [Entries -> Row],
           \A e \in Entries :
              /\ rows'[e].oid <=> rows[e].oid
              /\ \/ rows'[e].status = rows[e].status
                 \/ rows'[e].status = "EXECUTED" /\ rows[e].oid
              /\ rows'[e].exited => rows[e].exited \/ Closed(e)
              /\ \/ rows'[e].raw = rows[e].raw
                 \/ rows[e].oid /\ (MaySubmit(rows'[e].raw) => MaySubmit(rows[e].raw)),
           UNCHANGED << broker, scan, guard, bridge, attempts >>, faults' \in Nat
    PROVE  IInv'
<1>0. /\ TypeOK /\ \A e \in p.dirty : e \in Entries
      /\ pair' = pair /\ placed' = placed /\ entry' = entry /\ position' = position
  BY DEF IInv, TypeOK, Pass, broker
<1>n. None # "pm"
  BY NoneAssumption
<1> HIDE DEF Row, Scan, Pass, Bridge, Entries
<1>1. TypeOK'
  BY <1>0, <1>n DEF TypeOK
<1>2. SaneRows' /\ SaneScan'
  BY <1>0 DEF IInv, SaneRows, SaneScan, Closed
<1>3. SanePass'
  BY <1>0 DEF SanePass, Closed
<1>4. Requested'
  BY <1>0, <1>n DEF IInv, Requested
<1>5. \A e \in Entries : /\ ScanHolds(e)' => ScanHolds(e)
                         /\ ~PmHolds(e)'
                         /\ BridgeHolds(e)' => BridgeHolds(e)
  BY DEF ScanHolds, PmHolds, BridgeHolds
<1>6. Permitted'
  <2> SUFFICES ASSUME NEW e \in Entries, MaySubmit(rows'[e].raw)
               PROVE  placed[e] = 0 /\ ~ScanHolds(e)' /\ ~PmHolds(e)' /\ ~BridgeHolds(e)'
    BY <1>0 DEF Permitted, MaySubmit
  <2>1. MaySubmit(rows[e].raw)
    OBVIOUS
  <2> QED BY <1>5, <2>1 DEF IInv, Permitted
<1>7. OneHolder' /\ Placing'
  BY <1>0, <1>5 DEF IInv, OneHolder, Placing
<1> QED BY <1>1, <1>2, <1>3, <1>4, <1>6, <1>7 DEF IInv

(* The same, with a write to one entry's record.                           *)
LEMMA PassEnds ==
    ASSUME IInv, pm.pc \notin Holding, pm' = NoPass,
           \/ \A e \in Entries : Written(rows', e) /\ rows'[e].raw = rows[e].raw
           \/ \E e \in Entries : /\ Written(rows', e) /\ rows[e].oid
                                 /\ MaySubmit(rows'[e].raw) => MaySubmit(rows[e].raw),
           UNCHANGED << broker, scan, guard, bridge, attempts, faults >>
    PROVE  IInv'
<1>1. /\ NoPass \in Pass /\ NoPass.pc = "idle" /\ ~NoPass.wrote
      /\ NoPass.dirty = {} /\ NoPass.closes = {}
  BY DEF NoPass, Pass, PmPC, NoRaw, Raw, Protection
<1>2. \E e \in Entries : TRUE
  BY EntriesAssumption DEF Entries
<1>3. faults' \in Nat
  BY DEF IInv, TypeOK
<1> HIDE DEF Row, Pass, NoPass, Entries
<1>4. /\ rows' \in [Entries -> Row]
      /\ \A e \in Entries :
            /\ rows'[e].oid <=> rows[e].oid
            /\ \/ rows'[e].status = rows[e].status
               \/ rows'[e].status = "EXECUTED" /\ rows[e].oid
            /\ rows'[e].exited => rows[e].exited \/ Closed(e)
            /\ \/ rows'[e].raw = rows[e].raw
               \/ rows[e].oid /\ (MaySubmit(rows'[e].raw) => MaySubmit(rows[e].raw))
  BY <1>2 DEF Written
<1> QED BY <1>1, <1>3, <1>4, PassWrites

(* A pass starts with nothing read.                                        *)
LEMMA StartFields ==
    ASSUME NEW seen \in SUBSET Entries
    PROVE  LET q == [NoPass EXCEPT !.pc = "executions", !.seen = seen] IN
           /\ q \in Pass /\ q.pc = "executions" /\ q.dirty = {} /\ q.closes = {} /\ ~q.wrote
BY DEF NoPass, Pass, PmPC, NoRaw, Raw, Protection

Reading(r, fills, closes, dirty) ==
    [r EXCEPT !.pc = "positions", !.fills = fills, !.closes = closes, !.dirty = dirty]

(* It reads the executions.                                                *)
LEMMA ReadingFields ==
    ASSUME NEW r \in Pass, NEW fills \in SUBSET Entries, NEW closes \in SUBSET Entries,
           NEW dirty \in SUBSET Entries, ~r.wrote
    PROVE  LET q == Reading(r, fills, closes, dirty) IN
           /\ q \in Pass /\ q.pc = "positions" /\ q.dirty = dirty /\ q.closes = closes /\ ~q.wrote
<1>1. Reading(r, fills, closes, dirty) \in Pass
  BY DEF Reading, Pass, PmPC
<1>2. /\ Reading(r, fills, closes, dirty).pc = "positions"
      /\ Reading(r, fills, closes, dirty).dirty = dirty
      /\ Reading(r, fills, closes, dirty).closes = closes
  BY DEF Reading, Pass
<1>3. ~Reading(r, fills, closes, dirty).wrote
  BY DEF Reading, Pass
<1> QED BY <1>1, <1>2, <1>3

Owning(r, dirty, e, copy) ==
    [r EXCEPT !.pc = "status", !.dirty = dirty, !.e = e, !.copy = copy]

(* It finds the entry that owns the position, and copies its record.       *)
LEMMA OwningFields ==
    ASSUME NEW r \in Pass, NEW dirty \in SUBSET Entries, NEW e \in Entries, NEW copy \in Raw,
           ~r.wrote
    PROVE  LET q == Owning(r, dirty, e, copy) IN
           /\ q \in Pass /\ q.pc = "status" /\ q.dirty = dirty /\ q.closes = r.closes
           /\ q.e = e /\ q.copy = copy /\ ~q.wrote
<1>1. Owning(r, dirty, e, copy) \in Pass
  BY DEF Owning, Pass, PmPC
<1>2. /\ Owning(r, dirty, e, copy).pc = "status" /\ Owning(r, dirty, e, copy).dirty = dirty
      /\ Owning(r, dirty, e, copy).closes = r.closes
      /\ Owning(r, dirty, e, copy).e = e /\ Owning(r, dirty, e, copy).copy = copy
  BY DEF Owning, Pass
<1>3. ~Owning(r, dirty, e, copy).wrote
  BY DEF Owning, Pass
<1> QED BY <1>1, <1>2, <1>3

(* Nothing is written: what a pass has read is as it was read.             *)
LEMMA PassReads ==
    ASSUME IInv, pm.pc \notin Holding, NEW p \in Pass, pm' = p, p.pc \notin Holding, ~p.wrote,
           \A e \in p.dirty : rows[e].oid,
           \A e \in p.closes : Closed(e),
           p.pc = "status" => /\ p.e \in Entries /\ rows[p.e].oid
                              /\ MaySubmit(p.copy) => MaySubmit(rows[p.e].raw),
           UNCHANGED << rows, broker, scan, guard, bridge, attempts >>, faults' \in Nat
    PROVE  IInv'
<1>1. rows' \in [Entries -> Row]
  BY DEF IInv, TypeOK
<1> HIDE DEF Row, Pass, Entries
<1> QED BY <1>1, PassWrites

(* What it read: saved order ids, and protective orders that filled.       *)
LEMMA ReadsKeep == ASSUME IInv, StartPass \/ ReadExecutions \/ PassFault PROVE IInv'
<1>0. pm \in Pass /\ faults \in Nat
  BY DEF IInv, TypeOK
<1>1. CASE StartPass
  <2> DEFINE seen == {e \in Entries : rows[e].status # "UNUSED"}
             q == [NoPass EXCEPT !.pc = "executions", !.seen = seen]
  <2>1. seen \in SUBSET Entries
    OBVIOUS
  <2> HIDE DEF seen
  <2>2. q \in Pass /\ q.pc = "executions" /\ q.dirty = {} /\ q.closes = {} /\ ~q.wrote
    BY <2>1, StartFields
  <2>3. /\ pm' = q /\ pm.pc = "idle"
        /\ UNCHANGED << rows, broker, scan, guard, bridge, attempts >> /\ faults' = faults
    BY <1>1 DEF StartPass, seen
  <2> HIDE DEF q, Pass
  <2> QED BY <1>0, <2>2, <2>3, PassReads
<1>2. CASE ReadExecutions
  <2> DEFINE dirty == Unresolved \cap EntryFills
             q == Reading(pm, EntryFills, PairFills, dirty)
  <2>1. /\ EntryFills \in SUBSET Entries /\ PairFills \in SUBSET Entries /\ dirty \in SUBSET Entries
        /\ \A e \in dirty : rows[e].oid
        /\ \A e \in PairFills : Closed(e)
    BY DEF EntryFills, PairFills, Unresolved, Closed
  <2>2. /\ pm' = q /\ pm.pc = "executions"
        /\ UNCHANGED << rows, broker, scan, guard, bridge, attempts >> /\ faults' = faults
    BY <1>2 DEF ReadExecutions, Reading
  <2>3. ~pm.wrote
    BY <2>2 DEF IInv, SanePass
  <2> HIDE DEF dirty
  <2>4. /\ q \in Pass /\ q.pc = "positions" /\ q.dirty = dirty /\ q.closes = PairFills
        /\ ~q.wrote
    BY <1>0, <2>1, <2>3, ReadingFields
  <2> HIDE DEF q, Pass, Entries
  <2> QED BY <1>0, <2>1, <2>2, <2>4, PassReads
<1>3. CASE PassFault
  <2>1. /\ NoPass \in Pass /\ NoPass.pc = "idle" /\ ~NoPass.wrote
        /\ NoPass.dirty = {} /\ NoPass.closes = {}
    BY DEF NoPass, Pass, PmPC, NoRaw, Raw, Protection
  <2>2. /\ pm' = NoPass /\ pm.pc \in {"executions", "positions", "status"}
        /\ UNCHANGED << rows, broker, scan, guard, bridge, attempts >> /\ faults' \in Nat
    BY <1>0, <1>3 DEF PassFault, CountFault
  <2> HIDE DEF NoPass, Pass
  <2> QED BY <2>1, <2>2, PassReads
<1> QED BY <1>1, <1>2, <1>3

(* It records exits that were made, or goes on with a copy of the record.  *)
LEMMA PositionsKeep == ASSUME IInv, ReadPositions PROVE IInv'
<1> DEFINE dirty == pm.dirty \cup {e \in Unresolved : position = 1}
<1>0. /\ pm \in Pass /\ pm.pc = "positions" /\ rows \in [Entries -> Row] /\ faults \in Nat
      /\ UNCHANGED << broker, scan, guard, bridge, attempts, faults >>
      /\ ~pm.wrote /\ \A e \in pm.closes : Closed(e)
  BY DEF ReadPositions, IInv, TypeOK, SanePass
<1>1. dirty \in SUBSET Entries /\ \A e \in dirty : rows[e].oid
  BY <1>0 DEF IInv, SanePass, Unresolved, Pass
<1>2. CASE /\ rows' = Committed(dirty, NativeExits(dirty))
           /\ pm' = NoPass
  <2>1. NativeExits(dirty) \in SUBSET Entries /\ \A e \in NativeExits(dirty) : Closed(e)
    <3>1. Latest(dirty) \in SUBSET Entries
      BY <1>1 DEF Latest, Filled
    <3> HIDE DEF dirty
    <3> QED BY <1>0, <3>1 DEF NativeExits
  <2> HIDE DEF dirty
  <2>2. \A e \in Entries : Written(rows', e) /\ rows'[e].raw = rows[e].raw
    BY <1>1, <1>2, <2>1, CommittedRows
  <2> QED BY <1>0, <1>2, <2>2, PassEnds
<1>3. ASSUME NEW e \in Latest(dirty),
             pm' = [pm EXCEPT !.pc = "status", !.dirty = dirty, !.e = e, !.copy = rows[e].raw],
             rows' = rows
      PROVE  IInv'
  <2> DEFINE q == Owning(pm, dirty, e, rows[e].raw)
  <2>1. e \in Entries /\ rows[e].oid
    BY <1>1 DEF Latest, Filled, IInv, SaneRows
  <2>2. rows[e].raw \in Raw
    BY <1>0, <2>1 DEF Row
  <2> HIDE DEF dirty
  <2>3. /\ q \in Pass /\ q.pc = "status" /\ q.dirty = dirty /\ q.closes = pm.closes
        /\ q.e = e /\ q.copy = rows[e].raw /\ ~q.wrote
    BY <1>0, <1>1, <2>1, <2>2, OwningFields
  <2>4. pm' = q
    BY <1>3 DEF Owning
  <2> HIDE DEF q, Pass, Entries, Row, Raw
  <2> QED BY <1>0, <1>1, <1>3, <2>1, <2>3, <2>4, PassReads
<1>4. \/ /\ rows' = Committed(dirty, NativeExits(dirty))
         /\ pm' = NoPass
      \/ \E e \in Latest(dirty) :
            /\ pm' = [pm EXCEPT !.pc = "status", !.dirty = dirty, !.e = e, !.copy = rows[e].raw]
            /\ rows' = rows
  BY DEF ReadPositions
<1> QED BY <1>2, <1>3, <1>4

Calling(r, allow, copy, dirty, wrote) ==
    [r EXCEPT !.pc = "call", !.allow = allow, !.copy = copy, !.dirty = dirty, !.wrote = wrote]

(* It calls the bridge.                                                    *)
LEMMA CallingFields ==
    ASSUME NEW r \in Pass, NEW allow \in BOOLEAN, NEW copy \in Raw,
           NEW dirty \in SUBSET Entries, NEW wrote \in BOOLEAN
    PROVE  LET q == Calling(r, allow, copy, dirty, wrote) IN
           /\ q \in Pass /\ q.pc = "call" /\ q.dirty = dirty /\ q.closes = r.closes
           /\ q.e = r.e /\ q.copy = copy /\ (q.allow <=> allow) /\ (q.wrote <=> wrote)
<1> DEFINE q == Calling(r, allow, copy, dirty, wrote)
<1>1. q \in Pass
  BY DEF Calling, Pass, PmPC
<1>2. q.pc = "call" /\ q.dirty = dirty /\ q.closes = r.closes /\ q.e = r.e /\ q.copy = copy
  BY DEF Calling, Pass
<1>3. q.allow <=> allow
  BY DEF Calling, Pass
<1>4. q.wrote <=> wrote
  BY DEF Calling, Pass
<1> QED BY <1>1, <1>2, <1>3, <1>4

(* The manager reserves the symbol for its request.  If it may submit, the *)
(* permission goes from the row, which now says SUBMITTING, to the manager. *)
LEMMA Taking ==
    ASSUME IInv, pm.pc = "status", NEW p \in Pass, pm' = p, p.pc = "call", p.e = pm.e,
           \A e \in p.dirty : rows[e].oid,
           p.closes = pm.closes,
           p.wrote => ~MaySubmit(p.copy),
           Written(rows', pm.e),
           \/ ~p.allow /\ rows' = rows
           \/ p.allow /\ MaySubmit(rows[pm.e].raw) /\ ~MaySubmit(rows'[pm.e].raw),
           guard = None, guard' = "pm",
           UNCHANGED << broker, scan, bridge, attempts, faults >>
    PROVE  IInv'
<1> DEFINE e == pm.e
<1>0. /\ TypeOK /\ e \in Entries /\ rows[e].oid
      /\ pair' = pair /\ placed' = placed /\ entry' = entry /\ position' = position
      /\ \A f \in p.dirty : f \in Entries
  BY DEF IInv, SanePass, broker, Pass
<1>n. None # "scan" /\ None # "pm"
  BY NoneAssumption
<1> HIDE DEF Row, Scan, Pass, Bridge, Entries, e
<1>1. TypeOK'
  BY <1>0, <1>n DEF TypeOK, Written, Workers
<1>2. SaneRows'
  BY <1>0, WrittenSane DEF Closed, e
<1>3. SaneScan'
  BY <1>0 DEF IInv, SaneScan, Written
<1>4. SanePass'
  BY <1>0 DEF IInv, SanePass, Written, Closed, e
<1>5. Requested'
  BY <1>0, <1>n DEF IInv, Requested
<1>6. \A f \in Entries : /\ ScanHolds(f)' <=> ScanHolds(f)
                         /\ ~PmHolds(f)
                         /\ PmHolds(f)' <=> p.allow /\ f = e
                         /\ BridgeHolds(f)' <=> BridgeHolds(f)
  BY DEF ScanHolds, PmHolds, BridgeHolds, e
<1>7. p.allow => placed[e] = 0 /\ ~ScanHolds(e) /\ ~BridgeHolds(e) /\ ~MaySubmit(rows'[e].raw)
  BY <1>0 DEF IInv, Permitted, e
<1>8. Permitted'
  <2> SUFFICES ASSUME NEW f \in Entries, MaySubmit(rows'[f].raw)
               PROVE  placed[f] = 0 /\ ~ScanHolds(f)' /\ ~PmHolds(f)' /\ ~BridgeHolds(f)'
    BY <1>0 DEF Permitted, MaySubmit
  <2>1. ~p.allow \/ f # e
    BY <1>7
  <2>2. MaySubmit(rows[f].raw)
    BY <2>1 DEF Written, e
  <2> QED BY <1>6, <2>1, <2>2 DEF IInv, Permitted
<1>9. OneHolder'
  BY <1>0, <1>6, <1>7 DEF IInv, OneHolder
<1>10. Placing'
  BY <1>0 DEF IInv, Placing
<1> QED BY <1>1, <1>2, <1>3, <1>4, <1>5, <1>8, <1>9, <1>10 DEF IInv

(* The fields of a record.                                                 *)
LEMMA RecordFields ==
    ASSUME NEW r \in Raw
    PROVE  /\ [r EXCEPT !.proof = TRUE] \in Raw /\ [r EXCEPT !.proof = TRUE].prot = r.prot
           /\ [r EXCEPT !.prot = "SUBMITTING"] \in Raw
           /\ [r EXCEPT !.prot = "SUBMITTING"].prot = "SUBMITTING"
BY DEF Raw, Protection

(* It asks for the first attempt, or for a look at what there is.          *)
LEMMA CheckKeeps == ASSUME IInv, CheckEntry PROVE IInv'
<1> DEFINE e == pm.e
           copy == IF e \in pm.fills THEN [pm.copy EXCEPT !.proof = TRUE] ELSE pm.copy
           allow == MaySubmit(copy)
           table == Committed(pm.dirty, {})
           asked == [copy EXCEPT !.prot = "SUBMITTING"]
           submitting == [table EXCEPT ![e].raw = asked]
           old == [table EXCEPT ![e].raw = copy]
           dirty == IF allow THEN {} ELSE pm.dirty
           wrote == ~allow /\ e \in pm.fills
           q == Calling(pm, allow, copy, dirty, wrote)
<1>0. /\ pm \in Pass /\ pm.pc = "status" /\ e \in Entries /\ rows[e].oid
      /\ MaySubmit(pm.copy) => MaySubmit(rows[e].raw)
      /\ pm.copy \in Raw /\ pm.dirty \in SUBSET Entries /\ \A f \in pm.dirty : rows[f].oid
      /\ UNCHANGED << broker, scan, bridge, attempts, faults >>
  BY DEF CheckEntry, IInv, TypeOK, SanePass, Pass
<1>1. Written(table, e)
  BY <1>0, CommittedRows
<1>2. copy \in Raw /\ copy.prot = pm.copy.prot
  BY <1>0, RecordFields
<1>3. allow => MaySubmit(rows[e].raw)
  BY <1>0, <1>2 DEF MaySubmit
<1>4. asked \in Raw /\ ~MaySubmit(asked)
  <2> HIDE DEF copy
  <2>1. asked \in Raw /\ asked.prot = "SUBMITTING"
    BY <1>2, RecordFields
  <2> QED BY <2>1, NoneAssumption DEF MaySubmit
<1>5. Written(submitting, e) /\ submitting[e].raw = asked
  <2> HIDE DEF table, asked, e
  <2> QED BY <1>0, <1>1, <1>4, RecordWritten
<1>6. Written(old, e) /\ old[e].raw = copy
  <2> HIDE DEF table, copy, e
  <2> QED BY <1>0, <1>1, <1>2, RecordWritten
<1>7. Written(rows, e)
  BY DEF Written, IInv, TypeOK
<1>8. \/ /\ rows' = submitting \/ rows' = old
         /\ pm' = NoPass /\ guard' = guard
      \/ /\ guard = None /\ guard' = "pm" /\ pm' = q
         /\ rows' = IF allow THEN submitting ELSE rows
  BY DEF CheckEntry, Calling
<1>9. q \in Pass /\ q.pc = "call" /\ q.dirty = dirty /\ q.closes = pm.closes
      /\ q.e = e /\ q.copy = copy /\ (q.allow <=> allow) /\ (q.wrote <=> wrote)
  <2>1. allow \in BOOLEAN /\ dirty \in SUBSET Entries /\ wrote \in BOOLEAN
    BY <1>0 DEF MaySubmit
  <2> HIDE DEF allow, dirty, wrote, copy
  <2> QED BY <1>0, <1>2, <2>1, CallingFields
<1>10. (\A f \in dirty : rows[f].oid) /\ (wrote => ~MaySubmit(copy))
  BY <1>0
<1>11. allow = MaySubmit(copy)
  OBVIOUS
<1> HIDE DEF e, copy, allow, table, asked, submitting, old, dirty, wrote, q,
             Pass, Raw, Entries, NoPass
<1>12. CASE (rows' = submitting \/ rows' = old) /\ pm' = NoPass /\ guard' = guard
  <2>1. Written(rows', e) /\ (MaySubmit(rows'[e].raw) => MaySubmit(rows[e].raw))
    BY <1>3, <1>4, <1>5, <1>6, <1>11, <1>12
  <2> QED BY <1>0, <1>12, <2>1, PassEnds
<1>13. CASE /\ guard = None /\ guard' = "pm" /\ pm' = q
            /\ rows' = IF allow THEN submitting ELSE rows
  <2>1. Written(rows', e)
    BY <1>5, <1>7, <1>13
  <2>2. \/ ~q.allow /\ rows' = rows
        \/ q.allow /\ MaySubmit(rows[e].raw) /\ ~MaySubmit(rows'[e].raw)
    BY <1>3, <1>4, <1>5, <1>9, <1>13
  <2> QED BY <1>0, <1>9, <1>10, <1>13, <2>1, <2>2, Taking DEF e
<1> QED BY <1>8, <1>12, <1>13

-----------------------------------------------------------------------------
(* The bridge goes on without placing an order, or answers.                *)
Quietly == UNCHANGED << rows, pair, placed, entry, position, scan, pm, guard >>

(* The request moves on: a placing step is reached from the one before.    *)
LEMMA BridgeMoves ==
    ASSUME IInv, bridge.pc # "idle", NEW b \in Bridge, bridge' = b, b.pc # "idle",
           b.owner = bridge.owner, b.e = bridge.e, b.allow <=> bridge.allow,
           b.pc \in Before /\ b.allow => bridge.pc \in Before,
           b.pc \in Between => bridge.pc \in Between,
           b.pc \in Between \cup {"positions2", "orders2", "stop", "verify"} => b.allow,
           b.pc = "answer" /\ b.answer = "busy" => bridge.pc \in Before,
           Quietly, attempts' \subseteq Entries, faults' \in Nat
    PROVE  IInv'
<1>0. TypeOK /\ \A e \in pm.dirty : e \in Entries
  BY DEF IInv, TypeOK, Pass
<1> USE DEF Quietly
<1> HIDE DEF Row, Scan, Pass, Bridge, Entries
<1>1. TypeOK'
  BY <1>0 DEF TypeOK
<1>2. SaneRows' /\ SaneScan'
  BY DEF IInv, SaneRows, SaneScan, Closed
<1>3. SanePass'
  BY <1>0 DEF IInv, SanePass, Closed
<1>4. Requested'
  BY DEF IInv, Requested, Placing
<1>5. \A e \in Entries : /\ ScanHolds(e)' <=> ScanHolds(e)
                         /\ PmHolds(e)' <=> PmHolds(e)
                         /\ BridgeHolds(e)' => BridgeHolds(e)
  BY DEF ScanHolds, PmHolds, BridgeHolds
<1>6. Permitted' /\ OneHolder'
  BY <1>5 DEF IInv, Permitted, OneHolder, MaySubmit
<1>7. Placing'
  BY DEF IInv, Placing
<1> QED BY <1>1, <1>2, <1>3, <1>4, <1>6, <1>7 DEF IInv

(* Only the step of the bridge changes.                                    *)
LEMMA BridgeFields ==
    ASSUME NEW b \in Bridge, NEW pc \in BridgePC, NEW a \in Answers
    PROVE  /\ [b EXCEPT !.pc = pc] \in Bridge /\ [b EXCEPT !.pc = pc].pc = pc
           /\ [b EXCEPT !.pc = pc].owner = b.owner /\ [b EXCEPT !.pc = pc].e = b.e
           /\ [b EXCEPT !.pc = pc].allow = b.allow /\ [b EXCEPT !.pc = pc].answer = b.answer
BY DEF Bridge

Answering(b, a) == [b EXCEPT !.pc = "answer", !.answer = a]

(* The bridge has its answer.                                              *)
LEMMA AnsweringFields ==
    ASSUME NEW b \in Bridge, NEW a \in Answers
    PROVE  /\ Answering(b, a) \in Bridge /\ Answering(b, a).pc = "answer"
           /\ Answering(b, a).owner = b.owner /\ Answering(b, a).e = b.e
           /\ Answering(b, a).allow = b.allow /\ Answering(b, a).answer = a
BY DEF Answering, Bridge, BridgePC

(* It answers "busy", which may be retried, only before both orders.       *)
LEMMA AnswerMoves ==
    ASSUME IInv, bridge.pc # "idle", NEW a \in Answers, Answer(a),
           a = "busy" => bridge.pc \in Before,
           Quietly, attempts' \subseteq Entries, faults' \in Nat
    PROVE  IInv'
<1> DEFINE b == Answering(bridge, a)
<1>1. bridge \in Bridge
  BY DEF IInv, TypeOK
<1>2. /\ b \in Bridge /\ b.pc = "answer" /\ b.owner = bridge.owner /\ b.e = bridge.e
      /\ b.allow = bridge.allow /\ b.answer = a
  BY <1>1, AnsweringFields
<1>3. bridge' = b
  BY DEF Answer, Answering
<1> HIDE DEF b, Bridge, Entries
<1> QED BY <1>2, <1>3, BridgeMoves

(* The bridge goes on only in order.                                       *)
LEMMA ProceedMoves ==
    ASSUME IInv, NEW pc \in BridgePC, Proceed(pc), pc \notin {"idle", "answer"},
           bridge.pc # "idle",
           pc \in Before => bridge.pc \in Before,
           pc \in Between => bridge.pc \in Between,
           pc \in Between \cup {"positions2", "orders2", "stop", "verify"} => bridge.allow,
           Quietly, attempts' \subseteq Entries, faults' \in Nat
    PROVE  IInv'
<1> DEFINE b == [bridge EXCEPT !.pc = pc]
<1>1. bridge \in Bridge /\ None \in Answers
  BY DEF IInv, TypeOK, Answers
<1>2. /\ b \in Bridge /\ b.pc = pc /\ b.owner = bridge.owner /\ b.e = bridge.e
      /\ b.allow = bridge.allow
  BY <1>1, BridgeFields
<1>3. bridge' = b
  BY DEF Proceed
<1> HIDE DEF b, Bridge, Entries, BridgePC
<1> QED BY <1>2, <1>3, BridgeMoves

(* Every read of the bridge, successful or not, is such a move.            *)
LEMMA BridgeReads ==
    ASSUME IInv, \/ BridgePositions \/ BridgeOrders \/ BridgeRereadPositions
                 \/ BridgeRereadOrders \/ BridgeThirdRead \/ Verify \/ BridgeFault
    PROVE  IInv'
<1>0. Quietly /\ attempts' \subseteq Entries /\ faults' \in Nat
  BY DEF BridgePositions, BridgeOrders, BridgeRereadPositions, BridgeRereadOrders, Read,
         BridgeThirdRead, Verify, BridgeFault, BridgeOnly, Quietly, IInv, TypeOK, CountFault
<1>1. \A pc \in {"orders", "positions2", "orders2", "stop", "target"} : pc \in BridgePC
  BY DEF BridgePC
<1>2. {"PROTECTED", "PENDING", "refused", "busy"} \subseteq Answers
  BY DEF Answers
<1>3. CASE BridgePositions
  BY <1>0, <1>1, <1>2, <1>3, AnswerMoves, ProceedMoves DEF BridgePositions, Read
<1>4. CASE BridgeOrders
  BY <1>0, <1>1, <1>2, <1>4, AnswerMoves, ProceedMoves DEF BridgeOrders
<1>5. CASE BridgeRereadPositions
  <2>1. bridge.allow
    BY <1>5 DEF BridgeRereadPositions, Read, IInv, Requested
  <2> QED BY <1>0, <1>1, <1>2, <1>5, <2>1, AnswerMoves, ProceedMoves
          DEF BridgeRereadPositions, Read
<1>6. CASE BridgeRereadOrders
  <2>1. bridge.allow
    BY <1>6 DEF BridgeRereadOrders, Read, IInv, Requested
  <2> QED BY <1>0, <1>1, <1>2, <1>6, <2>1, AnswerMoves, ProceedMoves
          DEF BridgeRereadOrders, Read
<1>7. CASE BridgeThirdRead
  <2>1. bridge.allow
    BY <1>7 DEF BridgeThirdRead, IInv, Requested
  <2> QED BY <1>0, <1>1, <1>2, <1>7, <2>1, AnswerMoves, ProceedMoves DEF BridgeThirdRead
<1>8. CASE Verify
  BY <1>0, <1>2, <1>8, AnswerMoves DEF Verify
<1>9. CASE BridgeFault
  BY <1>0, <1>2, <1>9, AnswerMoves DEF BridgeFault
<1> QED BY <1>3, <1>4, <1>5, <1>6, <1>7, <1>8, <1>9

(* An order is placed by the holder of the permission, on an empty leg.    *)
LEMMA OrderPlaced ==
    ASSUME IInv, bridge.pc \in {"stop", "target"}, NEW leg \in Legs, NEW state \in LegState,
           NEW b \in Bridge, bridge' = b,
           b.owner = bridge.owner, b.e = bridge.e, b.allow <=> bridge.allow,
           \/ bridge.pc = "stop" /\ b.pc = "positions3" /\ leg = "stop"
           \/ bridge.pc = "target" /\ b.pc = "verify" /\ leg = "target",
           Place(leg, state), BridgeOnly, attempts' \subseteq Entries, faults' = faults
    PROVE  IInv'
<1> DEFINE e == bridge.e
<1>0. /\ TypeOK /\ e \in Entries /\ bridge.allow
      /\ \A f \in pm.dirty : f \in Entries
      /\ bridge.pc = "stop" => placed[e] = 0
      /\ bridge.pc = "target" => placed[e] = 1 /\ pair[e]["target"] = "none"
      /\ BridgeHolds(e)
  BY DEF IInv, TypeOK, Pass, Requested, Placing, BridgeHolds
<1>1. pair' = [pair EXCEPT ![e][leg] = state] /\ placed' = [placed EXCEPT ![e] = @ + 1]
  BY DEF Place
<1>2. /\ pair' \in [Entries -> [Legs -> LegState]] /\ placed' \in [Entries -> Nat]
      /\ placed'[e] = placed[e] + 1 /\ \A f \in Entries \ {e} : placed'[f] = placed[f]
      /\ \A f \in Entries, l \in Legs : (f # e \/ l # leg) => pair'[f][l] = pair[f][l]
  BY <1>0, <1>1 DEF TypeOK
<1>3. pair[e][leg] = "none"
  BY <1>0 DEF IInv, Placing
<1>4. \A f \in Entries : Closed(f) => Closed(f)'
  BY <1>0, <1>2, <1>3 DEF Closed
<1> USE DEF BridgeOnly
<1> HIDE DEF Row, Scan, Pass, Bridge, Entries, e, LegState, Legs
<1>5. TypeOK'
  BY <1>0, <1>2 DEF TypeOK
<1>6. SaneRows' /\ SaneScan'
  BY <1>4 DEF IInv, SaneRows, SaneScan
<1>7. SanePass'
  <2>1. \A f \in pm.closes : f \in Entries
    BY <1>0 DEF TypeOK, Pass
  <2> QED BY <1>0, <1>4, <2>1 DEF IInv, SanePass
<1>8. Requested'
  BY DEF IInv, Requested
<1>9. \A f \in Entries : /\ ScanHolds(f)' <=> ScanHolds(f)
                         /\ PmHolds(f)' <=> PmHolds(f)
                         /\ BridgeHolds(f)' => BridgeHolds(f)
  BY DEF ScanHolds, PmHolds, BridgeHolds
<1>10. Permitted'
  BY <1>0, <1>2, <1>9 DEF IInv, Permitted, MaySubmit
<1>11. OneHolder'
  BY <1>0, <1>2, <1>9 DEF IInv, OneHolder
<1>12. Placing'
  <2>1. \A f \in Entries : placed[f] \in Nat /\ placed[f] <= 2
    BY <1>0 DEF IInv, Placing, TypeOK
  <2>2. \A f \in Entries : placed'[f] <= 2
    BY <1>0, <1>2, <2>1
  <2>3. \A f \in Entries, l \in Legs : placed'[f] = 0 => pair'[f][l] = "none"
    BY <1>0, <1>2, <2>1 DEF IInv, Placing
  <2>4. b.pc = "positions3" => placed'[e] = 1 /\ pair'[e]["target"] = "none"
    BY <1>0, <1>2 DEF IInv, Placing, Legs
  <2> QED BY <2>2, <2>3, <2>4 DEF Placing, e
<1> QED BY <1>5, <1>6, <1>7, <1>8, <1>10, <1>11, <1>12 DEF IInv

(* The stop, and the target after it.                                      *)
LEMMA PlaceKeeps == ASSUME IInv, PlaceStop \/ PlaceTarget PROVE IInv'
<1>0. /\ bridge \in Bridge /\ None \in Answers /\ BridgeOnly /\ faults' = faults
      /\ "positions3" \in BridgePC /\ "verify" \in BridgePC /\ "stop" \in Legs /\ "target" \in Legs
      /\ "sent" \in LegState /\ "gone" \in LegState
  BY DEF IInv, TypeOK, Answers, BridgePC, Legs, LegState, PlaceStop, PlaceTarget
<1>1. attempts' \subseteq Entries
  BY DEF PlaceStop, PlaceTarget, IInv, TypeOK, Requested
<1>2. CASE PlaceStop
  <2> DEFINE b == [bridge EXCEPT !.pc = "positions3"]
  <2>1. /\ b \in Bridge /\ b.pc = "positions3" /\ b.owner = bridge.owner /\ b.e = bridge.e
        /\ b.allow = bridge.allow
    BY <1>0, BridgeFields
  <2>2. bridge' = b /\ bridge.pc = "stop" /\ Place("stop", "sent")
    BY <1>2 DEF PlaceStop, Proceed
  <2> HIDE DEF b, Bridge, Entries, LegState, Legs
  <2> QED BY <1>0, <1>1, <2>1, <2>2, OrderPlaced
<1>3. CASE PlaceTarget
  <2> DEFINE b == [bridge EXCEPT !.pc = "verify"]
             state == IF pair[bridge.e]["stop"] = "filled" THEN "gone" ELSE "sent"
  <2>1. /\ b \in Bridge /\ b.pc = "verify" /\ b.owner = bridge.owner /\ b.e = bridge.e
        /\ b.allow = bridge.allow
    BY <1>0, BridgeFields
  <2>2. bridge' = b /\ bridge.pc = "target" /\ Place("target", state) /\ state \in LegState
    BY <1>0, <1>3 DEF PlaceTarget, Proceed
  <2> HIDE DEF b, Bridge, Entries, LegState, Legs, state
  <2> QED BY <1>0, <1>1, <2>1, <2>2, OrderPlaced
<1> QED BY <1>2, <1>3

(* A request that is dropped takes the permission along.                   *)
LEMMA DropKeeps == ASSUME IInv, Discard \/ BridgeRestart PROVE IInv'
<1>0. /\ TypeOK /\ \A e \in pm.dirty : e \in Entries
      /\ bridge' = NoRequest /\ attempts' \subseteq Entries /\ faults' \in Nat
      /\ UNCHANGED << rows, pair, placed, entry, position, scan, pm, guard >>
  BY DEF Discard, BridgeRestart, BridgeOnly, broker, IInv, TypeOK, Pass, CountFault
<1>n. None # "scan" /\ None # "pm"
  BY NoneAssumption
<1> HIDE DEF Row, Scan, Pass, Bridge, NoRequest, Entries
<1>1. TypeOK'
  BY <1>0, IdleBridge DEF TypeOK
<1>2. SaneRows' /\ SaneScan'
  BY <1>0 DEF IInv, SaneRows, SaneScan, Closed
<1>3. SanePass'
  BY <1>0 DEF IInv, SanePass, Closed
<1>4. Requested'
  BY <1>0, <1>n, IdleBridge DEF Requested
<1>5. \A e \in Entries : /\ ScanHolds(e)' <=> ScanHolds(e)
                         /\ PmHolds(e)' <=> PmHolds(e)
                         /\ ~BridgeHolds(e)'
  BY <1>0, IdleBridge DEF ScanHolds, PmHolds, BridgeHolds
<1>6. Permitted' /\ OneHolder'
  BY <1>0, <1>5 DEF IInv, Permitted, OneHolder, MaySubmit
<1>7. Placing'
  BY <1>0, IdleBridge DEF IInv, Placing
<1> QED BY <1>1, <1>2, <1>3, <1>4, <1>6, <1>7 DEF IInv

(* With the process both workers and the reservation are gone; the bridge  *)
(* goes on for nobody, and no row allows another attempt.                  *)
LEMMA RestartKeeps == ASSUME IInv, ProcessRestart PROVE IInv'
<1> DEFINE b == [bridge EXCEPT !.owner = None]
<1>0. /\ TypeOK /\ bridge \in Bridge /\ faults' \in Nat
      /\ rows' = rows /\ pair' = pair /\ placed' = placed /\ entry' = entry
      /\ position' = position /\ attempts' = attempts
      /\ scan' = NoScan /\ pm' = NoPass /\ guard' = None /\ bridge' = b
  BY DEF ProcessRestart, broker, IInv, TypeOK, CountFault
<1>1. /\ b \in Bridge /\ b.owner = None /\ b.pc = bridge.pc /\ b.e = bridge.e
      /\ b.allow = bridge.allow /\ b.answer = bridge.answer
  BY <1>0, OwnerFields
<1>2. /\ NoScan \in Scan /\ NoScan.pc = "idle" /\ NoPass \in Pass /\ NoPass.pc = "idle"
      /\ NoPass.dirty = {} /\ NoPass.closes = {} /\ ~NoPass.wrote
  BY DEF NoScan, Scan, ScanPC, NoPass, Pass, PmPC, NoRaw, Raw, Protection
<1>n. None # "scan" /\ None # "pm"
  BY NoneAssumption
<1> HIDE DEF Row, Scan, Pass, Bridge, NoScan, NoPass, Entries, b
<1>3. TypeOK'
  BY <1>0, <1>1, <1>2, <1>n DEF TypeOK
<1>4. SaneRows' /\ SaneScan' /\ SanePass'
  BY <1>0, <1>2 DEF IInv, SaneRows, SaneScan, SanePass, Closed
<1>5. Requested'
  BY <1>0, <1>1, <1>n DEF IInv, Requested
<1>6. \A e \in Entries : /\ ~ScanHolds(e)' /\ ~PmHolds(e)'
                         /\ BridgeHolds(e)' <=> BridgeHolds(e)
  BY <1>0, <1>1, <1>2 DEF ScanHolds, PmHolds, BridgeHolds
<1>7. Permitted' /\ OneHolder'
  BY <1>0, <1>6 DEF IInv, Permitted, OneHolder, MaySubmit
<1>8. Placing'
  BY <1>0, <1>1 DEF IInv, Placing
<1> QED BY <1>3, <1>4, <1>5, <1>7, <1>8 DEF IInv

(* The broker changes legs that were placed, and keeps what was executed.  *)
LEMMA BrokerMoves ==
    ASSUME IInv, BrokerOnly, faults' \in Nat, position' \in Int,
           entry' \in [Entries -> {"none", "open", "filled", "forgotten"}],
           pair' \in [Entries -> [Legs -> LegState]],
           \A e \in Entries, l \in Legs :
              /\ pair[e][l] = "filled" => pair'[e][l] = "filled"
              /\ pair[e][l] = "none" => pair'[e][l] = "none"
    PROVE  IInv'
<1>0. /\ TypeOK /\ \A e \in pm.dirty : e \in Entries
      /\ \A e \in pm.closes : e \in Entries
      /\ UNCHANGED << rows, placed, scan, pm, guard, bridge, attempts >>
  BY DEF IInv, TypeOK, Pass, BrokerOnly
<1>1. "target" \in Legs
  BY DEF Legs
<1> HIDE DEF Row, Scan, Pass, Bridge, Entries, Legs, LegState
<1>2. \A e \in Entries : Closed(e) => Closed(e)'
  BY DEF Closed
<1>3. TypeOK'
  BY <1>0 DEF TypeOK
<1>4. SaneRows' /\ SaneScan' /\ SanePass'
  BY <1>0, <1>2 DEF IInv, SaneRows, SaneScan, SanePass
<1>5. Requested'
  BY <1>0 DEF IInv, Requested
<1>6. Permitted' /\ OneHolder'
  BY <1>0 DEF IInv, Permitted, OneHolder, MaySubmit, ScanHolds, PmHolds, BridgeHolds
<1>7. Placing'
  BY <1>0, <1>1 DEF IInv, Placing, Requested
<1> QED BY <1>3, <1>4, <1>5, <1>6, <1>7 DEF IInv

(* Every step of the broker and of the operator preserves the invariant.   *)
LEMMA BrokerKeeps == ASSUME IInv, Broker PROVE IInv'
<1>0. /\ pair \in [Entries -> [Legs -> LegState]] /\ position \in Int /\ faults \in Nat
      /\ entry \in [Entries -> {"none", "open", "filled", "forgotten"}]
  BY DEF IInv, TypeOK
<1>1. CASE ManualClose
  BY <1>0, <1>1, BrokerMoves DEF ManualClose, CountFault
<1>2. ASSUME NEW e \in Entries, FillEntry(e) \/ GatewayRestart(e) PROVE IInv'
  <2>1. /\ BrokerOnly /\ faults' \in Nat /\ position' \in Int /\ pair' = pair
        /\ entry' \in [Entries -> {"none", "open", "filled", "forgotten"}]
    BY <1>0, <1>2 DEF FillEntry, GatewayRestart, CountFault
  <2> QED BY <1>0, <2>1, BrokerMoves
<1>3. ASSUME NEW e \in Entries, NEW l \in Legs, Activate(e, l) \/ Cancel(e, l) \/ FillLeg(e, l)
      PROVE  IInv'
  <2>1. BrokerOnly /\ faults' \in Nat /\ position' \in Int /\ entry' = entry
    BY <1>0, <1>3 DEF Activate, Cancel, FillLeg, CountFault
  <2>2. CASE Activate(e, l) \/ Cancel(e, l)
    <3>1. PICK state \in {"live", "gone"} : pair' = [pair EXCEPT ![e][l] = state]
      BY <2>2 DEF Activate, Cancel
    <3>2. pair[e][l] \in {"sent", "live"} /\ state \in LegState
      BY <2>2 DEF Activate, Cancel, OpenLeg, LegState
    <3> HIDE DEF Entries, Legs, LegState
    <3>3. /\ pair' \in [Entries -> [Legs -> LegState]] /\ pair'[e][l] = state
          /\ \A f \in Entries, k \in Legs : (f # e \/ k # l) => pair'[f][k] = pair[f][k]
      BY <1>0, <3>1, <3>2
    <3> QED BY <1>0, <2>1, <3>2, <3>3, BrokerMoves
  <2>3. CASE FillLeg(e, l)
    <3> DEFINE legs == [k \in Legs |-> IF k = l THEN "filled"
                                       ELSE IF OpenLeg(e, k) THEN "gone" ELSE pair[e][k]]
    <3>1. pair' = [pair EXCEPT ![e] = legs] /\ pair[e][l] = "live"
      BY <2>3 DEF FillLeg
    <3>2. /\ legs \in [Legs -> LegState]
          /\ \A k \in Legs : /\ pair[e][k] = "filled" => legs[k] = "filled"
                             /\ pair[e][k] = "none" => legs[k] = "none"
      BY <1>0, <3>1 DEF LegState, OpenLeg
    <3> HIDE DEF Entries, Legs, LegState, legs
    <3>3. /\ pair' \in [Entries -> [Legs -> LegState]] /\ pair'[e] = legs
          /\ \A f \in Entries \ {e} : pair'[f] = pair[f]
      BY <1>0, <3>1, <3>2
    <3>4. \A f \in Entries, k \in Legs :
              /\ pair[f][k] = "filled" => pair'[f][k] = "filled"
              /\ pair[f][k] = "none" => pair'[f][k] = "none"
      BY <3>2, <3>3
    <3> QED BY <1>0, <2>1, <3>3, <3>4, BrokerMoves
  <2> QED BY <1>3, <2>2, <2>3
<1> QED BY <1>1, <1>2, <1>3 DEF Broker

(* So does a step that changes nothing.                                    *)
LEMMA Stutter == ASSUME IInv, UNCHANGED vars PROVE IInv'
<1>1. BrokerOnly /\ UNCHANGED << pair, entry, position, faults >>
  BY DEF vars, BrokerOnly
<1>2. /\ pair \in [Entries -> [Legs -> LegState]] /\ position \in Int /\ faults \in Nat
      /\ entry \in [Entries -> {"none", "open", "filled", "forgotten"}]
  BY DEF IInv, TypeOK
<1> QED BY <1>1, <1>2, BrokerMoves

-----------------------------------------------------------------------------
(* Every step of the system preserves the invariant.                       *)
LEMMA Invariance == IInv /\ [Next]_vars => IInv'
<1> SUFFICES ASSUME IInv, [Next]_vars PROVE IInv'
  OBVIOUS
<1>1. CASE WorkerStep
  BY <1>1, SendKeeps, ReceiveKeeps, GiveUpKeeps DEF WorkerStep
<1>2. CASE ScanStep
  BY <1>2, SubmitKeeps, AttachKeeps, LeaveKeeps DEF ScanStep
<1>3. CASE PmStep
  BY <1>3, ReadsKeep, PositionsKeep, CheckKeeps DEF PmStep
<1>4. CASE BridgeStep
  BY <1>4, BridgeReads, PlaceKeeps, DropKeeps DEF BridgeStep
<1>5. CASE Fault
  BY <1>5, ReadsKeep, BridgeReads, DropKeeps, RestartKeeps DEF Fault
<1> QED BY <1>1, <1>2, <1>3, <1>4, <1>5, BrokerKeeps, Stutter DEF Next

(* So it holds throughout.                                                 *)
LEMMA Invariant == Spec => []IInv
BY Initially, Invariance, PTL DEF Spec

(* No entry is ever given a second stop or target, whatever answers are    *)
(* lost, reads fail, orders are rejected, and processes restart.           *)
THEOREM PairsArePlacedOnce == Spec => []OnePair
<1>1. IInv => OnePair
  BY DEF IInv, Placing, OnePair
<1> QED BY <1>1, Invariant, PTL

(* What is saved is true of the broker: a row that allows another attempt  *)
(* has had none, and a recorded exit is a protective order that filled.    *)
THEOREM RecordsAreTrue == Spec => []RecordsAgree
<1>1. IInv => RecordsAgree
  <2> SUFFICES ASSUME IInv PROVE AttemptIsRecorded /\ ExitMeansClosed
    BY DEF IInv, RecordsAgree
  <2>1. \A e \in Entries : placed[e] \in Nat
    BY DEF IInv, TypeOK
  <2>2. AttemptIsRecorded
    BY <2>1 DEF IInv, Permitted, AttemptIsRecorded
  <2>3. ExitMeansClosed
    BY DEF IInv, SaneRows, ExitMeansClosed, Closed
  <2> QED BY <2>2, <2>3
<1> QED BY <1>1, Invariant, PTL

=============================================================================
