--------------------------- MODULE MCPlatform ---------------------------
(***************************************************************************)
(* What surrounds the executors: the portfolio guard that approves orders, *)
(* the ledger of an IBKR profile, reads through the IBKR bridge, telemetry,*)
(* and what a user trades where.  They share no state, so a behaviour      *)
(* exercises one of them, chosen at the start.                             *)
(***************************************************************************)
EXTENDS Integers, FiniteSets

CONSTANTS Scans, Views, Monitors, Certifiers, Providers, Books, Equity, MaxPct, MaxOpen, MaxNew,
          MaxStarts, NumSymbols,
          Orders, Exits, Partial, Several, Operators,
          Readers, Operations, MaxRequests, MaxEpoch,
          Emitters, QueueSize, Keep, Window, Limit, MaxEvents,
          Profiles, Certified, Traded, Jobs, Ceiling, MaxCalls, MaxEras,
          None

\* The limits of the portfolio guard, and the prices of the symbols with what
\* their strategies may buy, which stay in a behaviour.  None is no session.
ASSUME PortfolioAssumption ==
    /\ NumSymbols \in Nat /\ Equity \in Nat /\ MaxNew \in Nat
    /\ MaxPct \in Nat /\ MaxOpen \in Nat /\ MaxStarts \in Nat
    /\ Books \subseteq [price : [1 .. NumSymbols -> Nat \ {0}], risk : [1 .. NumSymbols -> Nat]]
    /\ None \notin Scans \cup Views \cup Monitors \cup Certifiers

\* Orders are numbered as they are placed, and an exit closes the entry before it.
\* None is no execution and no operator.
ASSUME LedgerAssumption ==
    /\ IsFiniteSet(Orders) /\ Orders = 1 .. Cardinality(Orders)
    /\ Exits \subseteq Orders /\ \A x \in Exits : x - 1 \in Orders \ Exits
    /\ Several \in Nat \ {0}
    /\ None \notin Orders \X (1 .. Several) /\ None \notin Operators

\* The bounds of the reads, and the operations there are.
ASSUME ReadsAssumption ==
    /\ MaxRequests \in Nat /\ MaxEpoch \in Nat
    /\ Operations \subseteq {"positions", "orders", "exec", "acct"}

\* The sizes of telemetry: 2000 rows queued, 20000 kept, a window of 2000, a page of 1 to 500.
ASSUME EventsAssumption ==
    /\ MaxEvents \in Nat /\ Keep \in Nat \ {0} /\ QueueSize \in Nat
    /\ Window \in Nat /\ Limit \in Nat

\* Profiles are numbered from 1: 0 is no route.  A risk is at least 1.
ASSUME StrategiesAssumption ==
    /\ Profiles \subseteq Nat \ {0} /\ Certified \subseteq Profiles
    /\ Ceiling \in Nat \ {0} /\ MaxEras \in Nat

VARIABLES part,
          provider, price, risk, mode, held, managed, resting, session, owner, waiting, blind, excess,
          starts,
          number, local, fills, remembered, action, evidence, review, holder, misled,
          op, list, reader, streams, events, server, epoch, cooling, requests,
          next, emitter, memory, queue, writer, redis, dropped, audit, viewer, lost, raced,
          state, ceiling, rows, era, revisions, job, scan, wanted, calls

\* Symbols: cheap ones, dear ones, and ones that together just fit.
All(value) == [x \in 1 .. NumSymbols |-> value]
ThreeBooks == {[price |-> All(2), risk |-> All(2)], [price |-> All(2), risk |-> All(6)],
               [price |-> All(5), risk |-> All(4)]}

\* Orders fill in one part or in several.
EntryOf == [o \in Orders |-> IF o \in Exits THEN o - 1 ELSE 0]
Parts == [o \in Orders |-> IF o \in Partial THEN Several ELSE 1]

\* What TWS answers to the first request of an operation and to the second.
Book == [positions |-> <<{1, 2}, {}>>, orders |-> <<{1}, {1, 2}>>,
         exec |-> <<{1, 2}, {}>>, acct |-> <<{1, 2}, {}>>]

F == INSTANCE Portfolio
H == INSTANCE History WITH next <- local, memory <- remembered, job <- review
B == INSTANCE BridgeReads
E == INSTANCE SystemEvents WITH reader <- viewer
S == INSTANCE Strategies WITH Symbols <- Traded

fVars == <<provider, price, risk, mode, held, managed, resting, session, owner, waiting,
           blind, excess, starts>>
hVars == <<number, local, fills, remembered, action, evidence, review, holder, misled>>
bVars == <<op, list, reader, streams, events, server, epoch, cooling, requests>>
eVars == <<next, emitter, memory, queue, writer, redis, dropped, audit, viewer, lost, raced>>
sVars == <<state, ceiling, rows, era, revisions, job, scan, wanted, calls>>
vars == <<part, fVars, hVars, bVars, eVars, sVars>>

\* What stays at rest starts in one state.
Init == /\ part \in {"portfolio", "history", "bridge", "events", "strategies"}
        /\ F!Init /\ H!Init /\ B!Init /\ E!Init /\ S!Init
        /\ part # "portfolio" => /\ provider = "IBKR"
                                 /\ price = All(2) /\ risk = All(2) /\ mode = All("AUTO")
        /\ part # "bridge" => op = "exec"

Next == \/ part = "portfolio" /\ F!Next /\ UNCHANGED <<part, hVars, bVars, eVars, sVars>>
        \/ part = "history" /\ H!Next /\ UNCHANGED <<part, fVars, bVars, eVars, sVars>>
        \/ part = "bridge" /\ B!Next /\ UNCHANGED <<part, fVars, hVars, eVars, sVars>>
        \/ part = "events" /\ E!Next /\ UNCHANGED <<part, fVars, hVars, bVars, sVars>>
        \/ part = "strategies" /\ S!Next /\ UNCHANGED <<part, fVars, hVars, bVars, eVars>>

Spec == Init /\ [][Next]_vars

\* What a Bybit profile holds and has ordered stays within half of its equity,
\* what any profile has of one symbol does, and its positions stay within the
\* number a scan may reserve for an account, although a scan approves all its
\* orders before it places the first.  No scan or request ends and leaves the
\* row of the profile locked.
PortfolioIsGuarded == part = "portfolio" =>
    F!TypeOK /\ F!ExposureWithinLimit /\ F!PositionsWithinLimit /\ F!LockHasOwner

\* The guard blocks a projected gross exposure over half of the equity, on
\* every provider and whatever earlier scans have bought.
ExposureIsWithinHalf == part = "portfolio" => F!GrossWithinHalf

\* No execution is counted twice, from the Gateway, a saved fill or reviewed
\* evidence; none of an order with a saved fill is missed, unless the Gateway
\* has forgotten a part of that order; and no statement execution becomes the
\* evidence of two actions.
LedgerIsTrue == part = "history" =>
    H!TypeOK /\ H!NoFillTwice /\ H!NoFillLost /\ H!AssignedOnce

\* A read of the bridge that succeeds returns all that TWS has, and once.
ReadIsWhole == part = "bridge" => B!TypeOK /\ B!ReadIsWhole

\* Every event that the queue or Redis refused is in the count, and pages read
\* one after the other miss no row and repeat none.
EventsAreAccounted == part = "events" => E!TypeOK /\ E!LossIsCounted /\ E!PagesAreComplete

\* Two revisions of a strategy have two numbers, and the last one tells its
\* configuration.
HistoryTellsRow == part = "strategies" => S!TypeOK /\ S!HistoryTellsRow /\ S!NumbersAreUnique

\* The bulk promotion leaves no account that is not certified in AUTO_TRADE, no
\* request writes a risk above the limit it read, and an order goes where its
\* symbol was traded at some time since the preflight.
TradesAreAllowed == part = "strategies" =>
    S!BulkNeverLive /\ S!RiskWasAllowed /\ S!OrderIsWanted
=============================================================================
