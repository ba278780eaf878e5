-------------------------- MODULE Portfolio --------------------------
(***************************************************************************)
(* From strategies to orders on one profile: readiness checks every        *)
(* enabled symbol against the account, preflight asks the broker, and the  *)
(* scan executes what both let through (app/services/                      *)
(* autotrade_readiness.py, autotrade_preflight.py, run_safe_scan).  What   *)
(* happens inside one execution is IbkrLifecycle, BybitSpot and Mt5.       *)
(*                                                                         *)
(* Sessions run on the one event loop and may wait for each other between  *)
(* their steps, except the market monitor, which runs in a thread.  A      *)
(* refreshed IBKR profile is flushed and not committed: its row is locked  *)
(* until the session commits or ends.                                      *)
(***************************************************************************)
EXTENDS Integers, FiniteSets, FiniteSetsExt

CONSTANTS NumSymbols,        \* of symbols
          Scans,        \* the loop and scan-now
          Views,        \* readiness and preflight requests
          Monitors,     \* market monitors
          Certifiers,   \* demo-certify-single requests
          Providers, Books, Equity, MaxPct,
          MaxOpen,      \* RiskProfile.max_open_positions
          MaxNew,       \* READINESS_MAX_NEW_POSITIONS_PER_ACCOUNT
          MaxStarts,    \* bound: sessions of a behaviour
          None

VARIABLES
    provider,     \* of the profile
    price, risk,  \* of every symbol: a unit, and what its strategy may buy
    mode,         \* of the strategy of every symbol: OFF, WATCH or AUTO
    held,         \* units of the broker's position in every symbol
    managed,      \* Bybit: units that BybitManagedInventory records
    resting,      \* units of orders that have not filled
    session,      \* readiness calls and what follows them
    owner,        \* the session that has locked the profile's row, or None
    waiting,      \* the sessions that wait for that lock
    blind,        \* history: an order was approved past one it could not see,
                  \* or past a position it did not count
    excess,       \* history: value a symbol has beyond its approved plan
    starts        \* history: sessions so far

vars == <<provider, price, risk, mode, held, managed, resting, session, owner,
          waiting, blind, excess, starts>>

\* In the order of the scan.
Symbols == 1 .. NumSymbols
Sessions == Scans \cup Views \cup Monitors \cup Certifiers
OnLoop == Sessions \ Monitors

\* pc: off, refresh, slots, check, preflight, execute, place; todo: symbols
\* left in this phase; plan: approved notional (0: none); sell: approved Bybit
\* exits; slots: the managed positions of the Bybit profile, read once per call.
Off == [pc |-> "off", todo |-> {}, plan |-> [x \in Symbols |-> 0], sell |-> {},
        slots |-> {}]

Init == /\ provider \in Providers
        /\ \E b \in Books : price = b.price /\ risk = b.risk
        /\ mode \in {m \in [Symbols -> {"OFF", "WATCH", "AUTO"}] :
                       \A x \in Symbols : m[x] = "AUTO" \/ x = Max(Symbols)}
        /\ held = [x \in Symbols |-> 0]
        /\ managed = [x \in Symbols |-> 0]
        /\ resting = [x \in Symbols |-> 0]
        /\ session = [s \in Sessions |-> Off]
        /\ owner = None
        /\ waiting = {}
        /\ blind = FALSE
        /\ excess = [x \in Symbols |-> 0]
        /\ starts = 0

settings == <<provider, price, risk>>
world == <<settings, mode, held, managed, resting, blind, excess, starts>>
locks == <<owner, waiting>>

Total(value) == LET upTo[n \in 0 .. NumSymbols] == IF n = 0 THEN 0 ELSE upTo[n - 1] + value[n]
                IN upTo[NumSymbols]
Gross == Total([x \in Symbols |-> held[x] * price[x]])
Positions == {x \in Symbols : held[x] > 0}
Managed == {x \in Symbols : managed[x] > 0}
Approved(s) == {x \in Symbols : session[s].plan[x] > 0}
Reserved(s) == Total(session[s].plan)
Mine(s) == Min(session[s].todo)

\* A waiting session of the loop stops every session of the loop.
Running(s) == /\ session[s].pc # "off"
              /\ s \notin waiting
              /\ s \in OnLoop => waiting \cap OnLoop = {}

\* Mutant: a request that only reads is not rolled back.
ReleasedByScans(s) == IF owner # s \/ s \in Views THEN UNCHANGED locks
                      ELSE IF waiting = {} THEN owner' = None /\ UNCHANGED waiting
                      ELSE \E w \in waiting : owner' = w /\ waiting' = waiting \ {w}

\* The row lock is released, by a commit or a rollback, and goes to a waiter.
Released(s) == IF owner # s THEN UNCHANGED locks
               ELSE IF waiting = {} THEN owner' = None /\ UNCHANGED waiting
               ELSE \E w \in waiting : owner' = w /\ waiting' = waiting \ {w}
Locked(s) == IF owner \in {None, s} THEN owner' = s /\ UNCHANGED waiting
             ELSE waiting' = waiting \cup {s} /\ UNCHANGED owner

\* What a session is at, what it has left, and what it has approved.
Becomes(s, phase, todo, plan, sell) ==
    session' = [session EXCEPT ![s] = [pc |-> phase, todo |-> todo, plan |-> plan,
                                       sell |-> sell, slots |-> @.slots]]
Enter(s, phase, todo) == Becomes(s, phase, todo, session[s].plan, session[s].sell)
Planning(s, x, notional) == [session[s].plan EXCEPT ![x] = notional]
\* The next symbol of this phase.
Advance(s, phase) == Enter(s, phase, session[s].todo \ {Mine(s)})
\* Where the first symbol of a call begins, and where the next one does.
First == CASE provider = "IBKR" -> "refresh" [] provider = "BYBIT" -> "slots"
           [] OTHER -> "check"
Onward(s) == IF provider = "IBKR" THEN "refresh" ELSE session[s].pc

(***************************************************************************)
(* Readiness.                                                              *)
(***************************************************************************)

\* Every enabled strategy is checked, whatever its mode; a scan starts only
\* if one of them is AUTO_TRADE.  A monitor is of use to the model for its lock.
Start(s) ==
    /\ session[s].pc = "off"
    /\ s \in OnLoop => waiting \cap OnLoop = {}
    /\ s \in Scans => \E x \in Symbols : mode[x] = "AUTO"
    /\ s \in Views \cup Monitors => provider = "IBKR"
    /\ s \in Certifiers => provider = "MT5"
    /\ Enter(s, First, {x \in Symbols : mode[x] # "OFF"})
    /\ starts < MaxStarts /\ starts' = starts + 1
    /\ UNCHANGED <<settings, mode, held, managed, resting, blind, excess, locks>>

\* The verdict of the Gateway is written to the profile and flushed.  A
\* session that waits for the row continues here when it has the lock.
Refresh(s) ==
    /\ Running(s) /\ session[s].pc = "refresh" /\ session[s].todo # {}
    /\ Locked(s)
    /\ Enter(s, "check", session[s].todo)
    /\ UNCHANGED world

\* managed_slot_cache: the first symbol of the call that gets as far counts
\* the managed positions, and the symbols after it use that count.
ReadSlots(s) ==
    /\ Running(s) /\ session[s].pc = "slots" /\ session[s].todo # {}
    /\ session' = [session EXCEPT ![s].pc = "check", ![s].slots = Managed]
    /\ UNCHANGED <<world, locks>>

\* The symbol is blocked: no route, no data, no signal, below the minimum
\* strength, against the router, or past one of the limits of Approve.
Skip(s) ==
    /\ Running(s) /\ session[s].pc \in {"slots", "check"} /\ session[s].todo # {}
    /\ Advance(s, Onward(s))
    /\ UNCHANGED <<world, locks>>

\* build_execution_plan: the stop is a share of the price, so the risk sets
\* the notional; the cash caps it.
Planned(x) == Min({risk[x], ((Equity - Gross) * MaxPct) \div 100})
WholeUnits(x) == Planned(x) \div price[x]
\* What it proposes: IBKR's is sized in shares before the guard.
Proposed(x) == IF provider = "IBKR" THEN WholeUnits(x) * price[x] ELSE Planned(x)
\* What is ordered: the volume of MT5 is raised to its minimum.
Ordered(x, notional) == IF provider = "MT5" THEN Max({1, notional \div price[x]})
                        ELSE notional \div price[x]

\* existing_gross: Bybit's wallet tells the value of what is held; in the rows
\* of IBKR and MT5 _position_notional finds no value and no price it knows.
ExistingGross == IF provider = "BYBIT" THEN Gross ELSE 0
\* existing_positions, and the quantity of a symbol: Bybit's are those recorded.
Existing(s) == IF provider = "BYBIT" THEN session[s].slots ELSE Positions
Quantity(x) == IF provider = "BYBIT" THEN managed[x] ELSE held[x]

\* Mutants: the guard without what the call has reserved, or without the
\* number of what it has approved.
GuardUnreserved(s, notional) ==
    /\ 2 * (ExistingGross + notional) <= Equity
    /\ Cardinality(Existing(s)) + Cardinality(Approved(s)) + 1 <= MaxNew
GuardUncounted(s, notional) ==
    /\ 2 * (ExistingGross + Reserved(s) + notional) <= Equity
    /\ Cardinality(Existing(s)) + 1 <= MaxNew

\* _portfolio_guard, with what this call has approved so far.
WithinGuard(s, notional) ==
    /\ 2 * (ExistingGross + Reserved(s) + notional) <= Equity
    /\ Cardinality(Existing(s)) + Cardinality(Approved(s)) + 1 <= MaxNew

\* The account is read per symbol; max_open_positions counts it alone.
Approve(s) ==
    /\ Running(s) /\ session[s].pc = "check" /\ session[s].todo # {}
    /\ s \notin Views \cup Monitors
    /\ LET x == Mine(s) IN
         /\ Cardinality(Existing(s)) < MaxOpen
         /\ Quantity(x) = 0
         /\ Proposed(x) > 0 /\ Proposed(x) <= Equity - Gross
         /\ WithinGuard(s, Proposed(x))
         /\ Becomes(s, Onward(s), session[s].todo \ {x}, Planning(s, x, Proposed(x)),
                    session[s].sell)
    /\ blind' = (blind \/ (\E y \in Symbols : resting[y] > 0)
                       \/ ~(Positions \subseteq Existing(s))
                       \/ \E t \in Sessions \ {s} : Approved(t) # {})
    /\ UNCHANGED <<settings, starts, mode, held, managed, resting, excess, locks>>

\* A Bybit SELL closes the managed inventory and reserves nothing.
ApproveSell(s) ==
    /\ Running(s) /\ session[s].pc = "check" /\ session[s].todo # {}
    /\ provider = "BYBIT" /\ managed[Mine(s)] > 0
    /\ Becomes(s, "check", session[s].todo \ {Mine(s)}, session[s].plan,
               session[s].sell \cup {Mine(s)})
    /\ UNCHANGED <<world, locks>>

(***************************************************************************)
(* Preflight, and what ends without an order.                              *)
(***************************************************************************)

Passed(s) == Approved(s) \cup session[s].sell

EndReadiness(s) ==
    /\ Running(s) /\ session[s].pc \in {"refresh", "slots", "check"} /\ session[s].todo = {}
    /\ Passed(s) # {}
    /\ Enter(s, "preflight", Passed(s))
    /\ UNCHANGED <<world, locks>>

\* The broker is asked about one order.  Bybit's answer is its open orders.
Preflight(s) ==
    /\ Running(s) /\ session[s].pc = "preflight" /\ session[s].todo # {}
    /\ LET x == Mine(s) IN
       \E ok \in BOOLEAN :
         /\ (ok /\ provider = "BYBIT") => resting[x] = 0
         /\ IF ok THEN Advance(s, "preflight")
            ELSE Becomes(s, "preflight", session[s].todo \ {x}, Planning(s, x, 0),
                         session[s].sell \ {x})
    /\ UNCHANGED <<world, locks>>

\* A scan executes what passed, a certifier only the symbol it was asked for.
EndPreflight(s) ==
    /\ Running(s) /\ session[s].pc = "preflight" /\ session[s].todo = {}
    /\ Passed(s) # {}
    /\ \/ s \in Scans /\ Enter(s, "execute", Passed(s))
       \/ s \in Certifiers /\ \E x \in Approved(s) : Enter(s, "place", {x})
    /\ UNCHANGED <<world, locks>>

\* The session ends: a scan commits, a request is rolled back.
End(s) ==
    /\ Running(s)
    /\ session[s].todo = {}
    /\ (session[s].pc = "place" \/ Passed(s) = {})
    /\ Released(s)
    /\ session' = [session EXCEPT ![s] = Off]
    /\ UNCHANGED world

(***************************************************************************)
(* Execution, symbol after symbol.                                         *)
(***************************************************************************)

\* IBKR: SELECT FOR UPDATE of the profile, on the loop.  The session may come
\* to wait before the guards.
Claim(s) ==
    /\ Running(s) /\ session[s].pc = "execute" /\ session[s].todo # {}
    /\ provider = "IBKR" /\ owner # s
    /\ Locked(s)
    /\ UNCHANGED <<world, session>>

\* The positions and orders of the symbol and the mode are read again; the
\* guards of readiness are not.  Whether a Bybit order that has filled and is
\* not recorded stops another one is up to BybitSpot.  The intent of IBKR is
\* committed.
Verify(s) ==
    /\ Running(s) /\ session[s].pc = "execute" /\ session[s].todo # {}
    /\ provider = "IBKR" => owner = s
    /\ LET x == Mine(s) IN
         /\ mode[x] = "AUTO" /\ resting[x] = 0
         /\ (Quantity(x) = 0) <=> (x \notin session[s].sell)
    /\ Enter(s, "place", session[s].todo)
    /\ Released(s)
    /\ UNCHANGED world

\* This symbol is settled: a scan goes on with the next one.
Done(s) == Becomes(s, IF s \in Scans THEN "execute" ELSE session[s].pc,
                   session[s].todo \ {Mine(s)}, Planning(s, Mine(s), 0),
                   session[s].sell \ {Mine(s)})

\* Refused: by one of these guards, by the broker, or the route is not ready.
\* The scan commits the row of the refusal.
Refuse(s) ==
    /\ Running(s) /\ session[s].pc \in {"execute", "place"} /\ session[s].todo # {}
    /\ (provider = "IBKR" /\ session[s].pc = "execute") => owner = s
    /\ Done(s)
    /\ Released(s)
    /\ UNCHANGED world

\* The order is accepted.  What MT5 raised counts as excess.
Place(s) ==
    /\ Running(s) /\ session[s].pc = "place" /\ session[s].todo # {}
    /\ LET x == Mine(s)
           plan == session[s].plan[x]
           units == Ordered(x, plan) IN
         /\ \/ /\ x \in session[s].sell
               /\ held' = [held EXCEPT ![x] = 0]
               /\ UNCHANGED <<resting, excess>>
            \/ /\ x \notin session[s].sell /\ units > 0
               /\ UNCHANGED held
               /\ resting' = [resting EXCEPT ![x] = @ + units]
               /\ excess' = [excess EXCEPT ![x] = Max({0, units * price[x] - plan})]
         /\ Done(s)
    /\ UNCHANGED <<settings, starts, mode, managed, blind, locks>>

(***************************************************************************)
(* The broker, the operator, the host.                                     *)
(***************************************************************************)

Fill(x) == /\ resting[x] > 0
           /\ held' = [held EXCEPT ![x] = @ + resting[x]]
           /\ resting' = [resting EXCEPT ![x] = 0]
           /\ UNCHANGED <<settings, starts, mode, managed, session, locks, blind, excess>>

\* What Bybit holds is recorded: with the verified fill, by a reconciliation
\* after it, or when an exit finds less in the wallet.
Record(x) == /\ provider = "BYBIT" /\ managed[x] # held[x]
             /\ managed' = [managed EXCEPT ![x] = held[x]]
             /\ UNCHANGED <<settings, starts, mode, held, resting, session, locks, blind, excess>>

\* An order is cancelled, or a stop, a target or the owner closes a position.
Close(x) == /\ held[x] + resting[x] > 0
            /\ held' = [held EXCEPT ![x] = 0]
            /\ resting' = [resting EXCEPT ![x] = IF held[x] > 0 THEN @ ELSE 0]
            /\ excess' = [excess EXCEPT ![x] = IF resting'[x] > 0 THEN @ ELSE 0]
            /\ UNCHANGED <<settings, starts, mode, managed, session, locks, blind>>

\* The owner stops automatic trading of a symbol.
StopAuto(x) == /\ mode[x] = "AUTO"
               /\ mode' = [mode EXCEPT ![x] = "WATCH"]
               /\ UNCHANGED <<settings, starts, held, managed, resting, session, locks, blind, excess>>

\* The loop no longer answers and the watchdog restarts the process.
Stopped == \E w \in waiting \cap OnLoop : owner \in OnLoop
Restart == /\ Stopped
           /\ session' = [s \in Sessions |-> Off]
           /\ owner' = None /\ waiting' = {}
           /\ UNCHANGED world

Next == \/ \E s \in Sessions :
             \/ Start(s) \/ Refresh(s) \/ ReadSlots(s) \/ Skip(s) \/ Approve(s) \/ ApproveSell(s)
             \/ EndReadiness(s) \/ Preflight(s) \/ EndPreflight(s) \/ End(s)
             \/ Claim(s) \/ Verify(s) \/ Refuse(s) \/ Place(s)
        \/ \E x \in Symbols : Fill(x) \/ Record(x) \/ Close(x) \/ StopAuto(x)
        \/ Restart

TypeOK == /\ provider \in Providers
          /\ mode \in [Symbols -> {"OFF", "WATCH", "AUTO"}]
          /\ held \in [Symbols -> Nat] /\ managed \in [Symbols -> Nat]
          /\ resting \in [Symbols -> Nat]
          /\ \A s \in Sessions :
               /\ session[s].pc \in {"off", "refresh", "slots", "check", "preflight", "execute", "place"}
               /\ session[s].todo \subseteq Symbols /\ session[s].sell \subseteq Symbols
               /\ session[s].slots \subseteq Symbols
               /\ session[s].plan \in [Symbols -> Nat]
          /\ owner \in Sessions \cup {None} /\ waiting \subseteq Sessions \ {owner}

\* What a symbol has and has ordered, but for what MT5's minimum volume raised.
Exposure(x) == (held[x] + resting[x]) * price[x] - excess[x]
HalfOfEquity == 2 * Total([x \in Symbols |-> Exposure(x)]) <= Equity

\* What a Bybit profile holds and has ordered stays within half of its equity,
\* although a scan approves all its orders before it places the first; orders
\* of two scans, or past one that still rests or is not recorded, do not see
\* each other.  On IBKR and MT5 that holds of every symbol and not of all of
\* them: the guard does not see what earlier scans have bought.
ExposureWithinLimit ==
    blind \/ IF provider = "BYBIT" THEN HalfOfEquity
             ELSE \A x \in Symbols : 2 * Exposure(x) <= Equity

\* The limit that READINESS_MAX_GROSS_EXPOSURE_PCT names, of all symbols.
GrossWithinHalf == blind \/ HalfOfEquity

\* And its positions within the number for an account; max_open_positions is
\* no such bound, for it does not count what the scan has approved.
PositionsWithinLimit ==
    blind \/ Cardinality({x \in Symbols : held[x] + resting[x] > 0}) <= MaxNew

\* Whoever waits for the row waits for a session that still runs: no scan or
\* request ends and leaves the profile locked.
LockHasOwner == /\ owner # None => session[owner].pc # "off"
                /\ waiting # {} => owner # None
=============================================================================
