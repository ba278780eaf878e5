------------------------------ MODULE MCOrders ------------------------------
(***************************************************************************)
(* Bybit's managed orders and IBKR's protective pairs: two executors whose *)
(* audit rows have to agree with the orders at the broker, whatever        *)
(* answers are lost and whatever restarts.  They share no state, so a      *)
(* behaviour exercises one of them, chosen at the start.                   *)
(***************************************************************************)
EXTENDS BybitSpot

CONSTANTS MaxEntries, MaxFaults

\* What IbkrProtection assumes.
ASSUME ProtectionAssumption ==
    /\ MaxEntries \in Nat \ {0} /\ MaxFaults \in Nat
    /\ None \notin Nat \cup {"scan", "pm", "SUBMITTING", "PROTECTION_PENDING", "PROTECTED"}

VARIABLES protecting,
          pRows, pair, placed, entry, position, pScan, pm, pGuard, bridge, attempts, faults

\* The module of the theorems, for they hold of this part as well.
P == INSTANCE IbkrProtectionProofs WITH rows <- pRows, scan <- pScan, guard <- pGuard

pVars == <<pRows, pair, placed, entry, position, pScan, pm, pGuard, bridge, attempts, faults>>

InitEither == Init /\ P!Init /\ protecting \in BOOLEAN

NextEither == \/ ~protecting /\ Next /\ UNCHANGED <<protecting, pVars>>
              \/ protecting /\ P!Next /\ UNCHANGED <<protecting, vars>>

SpecEither == InitEither /\ [][NextEither]_<<protecting, vars, pVars>>

\* No entry ever gets a second protective pair, whatever answers are lost and
\* whichever process restarts between intent, placement and record.
OnePair == P!OnePair

\* An attempt is never forgotten and no exit is made up: the rows of protected
\* entries agree with what the broker executed.
RecordsAgree == P!RecordsAgree
=============================================================================
