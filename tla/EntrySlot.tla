----------------------------- MODULE EntrySlot -----------------------------
(***************************************************************************)
(* What the durable submission intent promises, one slot per symbol: an    *)
(* entry order is sent only under a claim and only when no other entry     *)
(* order of the symbol is on its way or open, and a claim is not given up  *)
(* while its order is on its way.  IbkrLifecycle implements it.            *)
(***************************************************************************)
CONSTANT Symbols

VARIABLES
    claimed,    \* symbols with an unresolved entry intent
    order       \* the entry order of each symbol: none, sent or open

vars == << claimed, order >>

TypeOK == /\ claimed \subseteq Symbols
          /\ order \in [Symbols -> {"none", "sent", "open"}]

Init == claimed = {} /\ order = [s \in Symbols |-> "none"]

Claim(s) ==
    /\ s \notin claimed /\ order[s] # "sent"
    /\ claimed' = claimed \cup {s}
    /\ UNCHANGED order

Send(s) ==
    /\ s \in claimed /\ order[s] = "none"
    /\ order' = [order EXCEPT ![s] = "sent"]
    /\ UNCHANGED claimed

(* Orders arrive, or never will, and open ones are filled or cancelled.    *)
Progress ==
    /\ order' \in [Symbols -> {"none", "sent", "open"}]
    /\ \A s \in Symbols :
          \/ order'[s] = order[s]
          \/ order[s] = "sent"
          \/ order[s] = "open" /\ order'[s] = "none"
    /\ UNCHANGED claimed

(* The outcome of some claims is known.                                    *)
Settle ==
    /\ claimed' \subseteq claimed
    /\ \A s \in claimed \ claimed' : order[s] # "sent"
    /\ UNCHANGED order

Next == Progress \/ Settle \/ \E s \in Symbols : Claim(s) \/ Send(s)

Spec == Init /\ [][Next]_vars

=============================================================================
