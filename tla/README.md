# A verification project for ATLAS Markets

ATLAS Markets scans markets, turns signals into orders on simulated or paper broker accounts
(IBKR, Bybit, MT5) and manages the positions that result. This directory holds TLA+ models of
the parts in which state that decides about orders is changed by several actors at once, TLC
configurations that check them on small instances, and TLAPS proofs of the most important facts
for every instance. `PROJECT.json` lists components, runs, mutants, the source lines each
definition stands for, findings, hazards and theorems.

Paths below are relative to the repository; `safe_automation.py:182` means line 182 of
`app/services/safe_automation.py`.

## 1. The system

`app/main.py` (lifespan, lines 52-85) starts seven loops in **one asyncio process**, next to the
HTTP routes: `safe_automation`, the MT5 and IBKR position managers, reporting, history, news and
the shadow monitor. PostgreSQL holds the audit rows; sessions neither flush by themselves nor
expire what they loaded (`db/session.py:27-33`), and every database call is synchronous. Brokers
are reached through bridges, which are processes of their own. So:

* between two `await`s nothing else runs in the process; at an `await` anything may;
* what was read before an `await` may be stale after it, and a session may write it back;
* a row lock held across an `await` can stop the event loop, with the task that would release it;
* an answer of a bridge may be lost although the order was placed.

### Components

| Component | State | Operations | Interacts through | What makes it correct |
|---|---|---|---|---|
| IBKR entries and positions (`safe_automation`, `ibkr_position_manager`, `brokers/ibkr_bridge`, `execution_guard`) | `automation_actions` rows, the symbol reservation, controls | scan, audited entry, reconciliation, close | shared rows, reservation, bridge requests | one unresolved intent and one entry order per symbol; outcomes are true and final; fills are recorded |
| IBKR broker-held protection (`protect_saved_entry`, `tools/ibkr_bridge.py` `/protection`) | `raw_json.native_protection`, the bridge's `protection_attempts`, a stop and a target in an OCA group | submit once, verify, record native exits | one bridge mutation at a time; both workers write the row | one pair per entry; an attempt is never forgotten; exits are real; positions end up protected |
| Bybit managed Spot (`bybit_spot_execution`, `brokers/bybit_private`) | managed quantity, audit rows of orders | order, fill verification, reconciliation of cancelled submissions | row locks, reservation, order history | sell only what was bought; managed quantity is exact |
| Guided IBKR onboarding (`routes_ibkr_onboarding`, `ops/ibkr-user/provisioner.py`) | `ibkr_onboarding` rows, leases, node directories | request, amend, approve, reject, credentials, claim, acknowledge, verify | HTTP between worker and routes, row and advisory locks | a login is used once and erased; one profile per account; no job stays for ever |
| IBKR bridge (`tools/ibkr_bridge.py`) | shared lists and events, connection, epoch, cooldown, read lock | reads, What-If, orders, reconnection | HTTP threads, one callback thread | a read returns all of what TWS has, once |
| MT5 (`safe_automation`, `mt5_position_manager`, `brokers/mt5_bridge`, two bridges, `certify_mt5`) | positions at the terminal, audit rows written after the answer | entry, exit, certification | HTTP, one lock in each bridge | one entry per symbol; rows match the terminal; certified means flat; the kill switch takes hold |
| Readiness, preflight, portfolio guard (`autotrade_readiness`, `autotrade_preflight`) | a snapshot of the account, a reservation, a flushed profile row | check, refresh, approve, execute | the row lock of a profile | exposure and positions stay within the limits; no lock outlives its session |
| Strategy configuration (`routes_symbol_strategies`, `universe_seed`) | rows, revisions | create, edit, roll back, delete, seed, promote | rows read by each phase of a scan | history tells the row; bulk requests never trade an account that is not certified |
| Operator controls (`routes_automation`, `automation.py`) | enabled, killed, auto | kill, restart, update, scan-now | state row read by all workers | kill stops orders |
| Accounts and Live permission (`routes_accounts`, `_account_lifecycle`, `_bybit_environment`, `_bybit_certification_state`, `_bybit_oauth`) | profiles, keys, certificates, arming; authorization sessions in memory | connect, save, probe, detect, certify, reconcile, activate, arm, disconnect; authorize, choose | rows, one advisory lock, Bybit | one account, one profile; permission is earned; status is true |
| Authentication and sessions (`services/auth`, `routes_auth`, `routes_admin`) | users, sessions | login, logout, update, reset | threads, rows | a session ends with its user; an administrator remains |
| IBKR history (`ibkr_ledger_history`, `ibkr_statement_import`, `ibkr_closed_recovery`) | saved fills, reviewed evidence | record, import, recover, rebuild the ledger | rows, the Gateway's memory | no fill twice, none lost |
| System events (`system_events`, `routes_logs`) | memory ring, bounded queue, Redis list | emit, write, page | a writer thread | what is lost is counted; pages are complete |
| Shadow monitor | virtual positions | open, close | rows | one virtual position per symbol |
| Market data, reporting, routes, backtesting, frontend | reads, files | - | - | - |

The hard behaviours are listed as `hazards` in `PROJECT.json`, each at the line where it bites.

## 2. Plan

Built, in the order of importance (what can lose or double an order comes first):

1. `EntrySlot` (abstract), `IbkrLifecycle`, `MCIbkrLifecycle`; proofs `IbkrLifecycleProofs`.
2. `IbkrProtection`; proofs `IbkrProtectionProofs`.
3. `BybitSpot`, which `MCOrders` checks together with `IbkrProtection`; proofs `BybitSpotProofs`.
4. `IbkrOnboarding`; proofs `IbkrOnboardingProofs`.
5. `Mt5`; proofs `Mt5Proofs`.
6. `Profiles`, `BybitOAuth`, `Sessions`, which `MCAccounts` checks together; proofs `AccountsProofs`.
7. `Portfolio`, `History`, `BridgeReads`, `SystemEvents`, `Strategies`, which `MCPlatform` checks together;
   proofs `HistoryProofs`, `PlatformProofs`.

`EntrySlot` is stated for IBKR only: an MT5 order has no intent, so a lost answer gives its symbol up
while the order is on its way, and `Mt5` says instead under which conditions one entry is kept.

Next:

8. The staged recovery of protection, and the shadow monitor.

## 3. Modules

An action is the code between two `await`s of a worker, one request of a route, or one step of
a broker. Program counters are named for the `await` the worker stands at. `map` in
`PROJECT.json` names the lines.

### IbkrLifecycle, EntrySlot

The trading cycle with broker-held protection off. `rows` are the committed
`automation_actions`; `orders`, `position` and `opener` (history) are the broker; `guard` is
`reserve_execution`; `scan[s]` and `pm` are the workers, `gate` and `ready` what
`_execution_authorization` reads.

* A scan (`run_safe_scan`): `BeginEntry` is `_execute_ibkr_audited` up to its first commit (row lock,
  pending check, controls, `SUBMITTED` row); `ReadPositions`, `ReadOrders`, `ReserveEntry`,
  `RereadPositions`, `RereadOrders`, `PostEntry`, `PostAnswered`, `VerifyFill` are the `await`s of
  `_execute_ibkr` and `place_order`; `RefuseEntry`, `Unresolved`, `EntryFault` its ways out.
* The manager: `ReconcileExecutions` and `ReconcilePositions` (`reconcile_submitted_entries`,
  first from executions, then from a position), `CheckOwnership` (`_latest_entry`),
  `CheckEntryFill`, `ReserveClose` ... `VerifyClose` (`close_position`), `EndPass`, `FailPass`.
  What it has marked but not committed is `pm.dirty`; a failed pass loses it.
* `created_at` is `now()`, which PostgreSQL fixes at the start of a transaction: `stamp`, `Tick`,
  `StampOf`. It decides `Latest`.
* The operator kills, restarts, updates, trades in TWS; the process restarts; posts are lost;
  orders fill by units, are cancelled, are refused; the Gateway forgets executions on restart.
* `moved` is history: the symbols the operator traded, or whose position was no longer the one a close was sized on
  when it was posted (`brokers/ibkr_bridge.py:99-105` reads positions before orders).

`EntrySlot` is the promise the entry workflow makes: per symbol, an order is sent only under a
claim and with no other on its way or open, and no claim is given up while its order is on its
way. `Slot` in `IbkrLifecycle` is the refinement mapping (claimed: a `SUBMITTED` row; order: what
the broker holds of entries).

### IbkrProtection

With protection on. The entry is two steps (`Submit`, `Attach` or `LeaveSubmitted`); `Attach` goes on
into `protect_saved_entry`, which commits `SUBMITTING` before it calls the bridge. `Send`, `Receive`
and `GiveUp` are the call of either worker, `Conclude` what each answer does to `raw_json`. The bridge
(`BridgePositions` ... `Verify`) reads positions and orders twice, places the stop, reads the position
again, places the target. `pm.copy` is the row's JSON as the pass loaded it; `WriteBack` commits it
when an exception leaves the call. `ReadPositions` includes `_reconcile_native_exits`.

The broker assumption: once a member of an OCA group is executed, the group takes no further order,
and what is open is cancelled.

### BybitSpot

`Begin`, `Reconcile`, `Examine`, `CheckSlots`, `ReadWallet`, `ReadOrders`, `Post`, `Answered`, `Verify` are
`execute_managed_spot_order` and `place_test_spot_market_order`. The audit row and the managed
quantity are written when a scan has finished with its order; `rec.copy` is the quantity its
session loaded. `Net` is what the account has of the orders' units: the wallet and what the owner moved out, less
what the owner had. A flushed row stays locked until the item ends; a scan that meets the lock stops
the process (`blocked`), until the watchdog restarts it. Two variables are history:
`writtenOff` (units the wallet turned out not to hold) and `overlapped` (two scans were busy with
the symbol at once).

### IbkrOnboarding

Every route that changes a job is one step (row lock, advisory lock), except `verify`, which is
examined before and after its wait (`StartVerify`, `FinishVerify`). `Claim` reconciles ended leases and
hands out a job; `Provision` is the host (`identity.json`, room, Docker); `SendAck`, `Acknowledge`,
`LoseAck`, `EndAck` are the acknowledgement, which may come late, twice or never. `submitted` and
`claimed` are history.

### Mt5

`node` is the bridge of a behaviour: `tools` answers a failed read as an empty list
(`tools/mt5_bridge.py:88`), `windows` as an error; they also differ in which return codes they call a
success (`ToolsSuccess`, `WindowsSuccess`). `crew` is the pair of workers at it. A scan goes through
`BeginScan`, `NextItem`, `Preliminary`, `ReserveSymbol`, `RereadPositions`, `RereadOrders`, `PostOrder`,
`Answered`; only the last writes a row. The certification script (`BeginCert` ... `CertPass`) is a process
of its own with its own reservations. The manager evaluates its positions (`BeginPass`, `Evaluate`), closes
what it decides (`NextExit`, `ExitPositions`, `ExitAnswered`) and commits once (`EndPass`); `FailPass` rolls
everything back. `excuse[s]` is history: the first of the things that may cost a symbol its single entry
(an answer lost, a read masked, a placed order late, the script crossing a scan).

### Profiles, BybitOAuth, Sessions; MCAccounts

`Profiles` has the rows (`profile`), the requests in progress with the copy they loaded (`req`), the
advisory lock of provisioning and whether the event loop is stopped at it (`blocked`). A request that
asks Bybit something is `Start...` and `Finish...`, and so is one that runs in the thread pool (activate, disconnect,
toggle, delete, arm, disarm): `Start` is what it reads, its row and the replacement it will activate
(`Substitute`), in one step; `Finish` is what it writes and commits. `Saved` is what an SQLAlchemy session writes: the columns it changed,
compared with what it had loaded; an UPDATE of a deleted row fails (`Seen`), and that of an activation
does not find what was committed after it began (`found` in `FinishActivate`). The history variable `stale` names the exception: a request
wrote a row that had changed since it was loaded.
`BybitOAuth` is Agent Connect: `auth` is the dictionary `_sessions`, `call` the requests at their `await`s, `linked` the
profiles that choices became, each of an owner.
In `Sessions` requests run in threads, a login is two transactions (`Authenticate`, `CreateSession`) and an
update reads before it writes (`CheckUpdate`, `WriteUpdate`); `crossed` remembers that two updates overlapped.

### Portfolio, History, BridgeReads, SystemEvents, Strategies; MCPlatform

* `Portfolio`: a session goes through readiness symbol by symbol, preflight, and, if it is a scan,
  execution in two passes over what was approved. `owner` and `waiting` are the row lock of an IBKR
  profile whose status was flushed and not committed; a synchronous wait on the event loop stops it
  (`Stopped`) until `Restart`. What the guard counts differs by provider: of Bybit the value of the wallet
  (`ExistingGross`) and the managed rows, read once per call (`ReadSlots`, `managed_slot_cache`), which lag
  behind fills (`managed`, `Record`); of IBKR and MT5 the number of positions and no value. `blind` remembers that an order was approved past one that readiness
  could not see or past a position it did not count, `excess` what MT5's minimum volume added.
* `History`: `Ledger(seen)` is the list the ledger builds from what the Gateway returns, from saved fills and from
  reviewed evidence; the actions are what happens at the Gateway, what the manager records, and an
  operator's import or recovery (`Start...`, `Save`, `Abort`).
* `BridgeReads`: handlers share a list per operation and, for positions and orders, an event; `streams` are the
  answers TWS has begun and not ended, among them those of requests that timed out.
* `SystemEvents`: emitters keep an event and queue it, a thread writes the queue; each count is read and
  written in two steps (`ReadCount`, `Count`). `ReadPage` is the merged log; a page is complete with respect to
  everything stored when it was read, also what lies beyond the window.
* `Strategies`: requests load (`Create`, `Update`, `Rollback`, `Delete`, `Seed`, `Promote`) and commit; a scan finds a row by
  symbol in each of its phases (`Approve`, `Check`, `Execute`).

## 4. Runs

| Run | Bounds | Shows |
|---|---|---|
| `ibkr_entries` | 2 scans, 2 rows, 2 orders of 2 units, 1 control change, 1 fault | `OneUnresolvedEntry`, `NoConcurrentEntryOrders`, `ReleasedMeansDead`, `OutcomeIsFinal`, and that the entries implement `EntrySlot` |
| `ibkr_exits` | 1 scan, 2 rows, 4 orders of 2 units in either direction, 2 faults | an EXECUTED row is a filled order, and exposure stays within one entry through entry, close and re-entry, unless a close was posted for a position that had moved |
| `ibkr_liveness` | 1 scan, 2 rows, 2 orders, 1 fault, 1 trade in TWS | fills are recorded, reservations given back |
| `ibkr_kill` | violation | an order leaves after the kill switch was set |
| `protection_protected` | 1 entry, 1 fault, fair | `PairIsRecognised`, `PositionIsProtected`, `ExitIsRecorded` |
| `orders` | *Bybit*: 2 scans, 3 orders of 2 units, 2 transfers, 1 lost answer or restart; *protection*: 2 entries, 2 faults | `RowsAgree`: outcomes are true, one open order; and, while scans follow one another, the managed quantity is exact and covers what is sold; `OnePair`; `RecordsAgree`: an attempt is never forgotten, no exit is fabricated |
| `onboarding_setup` | 2 owners, 1 account, 2 logins each | `LoginFollowsJob`: a login is used once and erased, no stale acknowledgement counts; one profile per account |
| `onboarding_attempts` | 1 owner, 2 accounts, 2 verifications, 4 logins, fair | three attempts per approval; queue and leases drain |
| `mt5` | 1 symbol; a scan and the script, or a scan and the manager, on the tools bridge, two scans on the Windows bridge; 2 orders, 1 fault, 1 kill, fair | one entry per symbol unless excused; `RowsAgree`; certified means flat; a kill switch that stays on ends all passes |
| `accounts` | *profiles*: 2 slots, 2 owners, 4 keys (one a second key of an account, one Live), 1 side, 2 requests at a time, 3 in all that wait for Bybit, 8 menus of requests; *Agent Connect*: 2 authorization sessions, 2 sub-accounts, 2 calls, 2 owners; *sessions*: 2 administrators, 2 sessions, 2 threads, 1 reset each | verified keys of an account are on one profile, and of one owner a sub-account and a label; permission is earned; CONNECTED is true, AUTHORIZED has a token; access is controlled |
| `platform` | *portfolio*: 3 symbols, a loop and a scan-now, a view, the monitor, a certification, 2 starts; *history*: 3 orders in 1 or 2 parts, 2 operators; *bridge*: 2 readers, 2 requests, 1 reconnection; *events*: 2 emitters, 3 events, a queue of 1, 2 kept; *strategies*: 2 profiles, 1 symbol, 2 requests, 3 calls, 2 generations of a row | limits hold, the ledger is true, reads are whole, losses are counted, history tells the row, trades are allowed |
| `exposure` | violation; as `platform`, of IBKR | a second scan takes the profile over half of its equity beside what the first has bought |

**Combined properties.** Where several facts about one component belong together they are one
property of a run, a conjunction of named definitions: `RecordsAgree`, `RowsAgree` (twice),
`LoginFollowsJob`, and the properties of `MCAccounts` and `MCPlatform`. The operators marked "Mutant" in
the modules are plausible bugs of the definition that follows them. `PROJECT.json` names one for each property of each
passing run; the others break the remaining conjuncts.

**Components side by side.** `MCOrders`, `MCAccounts` and `MCPlatform` choose one component at the start of a
behaviour and leave the others at rest: they share no state, so the product of their states would
show nothing more.

**Excuses.** Some properties hold except after an event that the code does not guard against. The
event is then a history variable, set by the step in which it happens and by no other, and the
property names it: `moved` (IbkrLifecycle), `lost`, `overlapped` (BybitSpot), `excuse` (Mt5), `stale` (Profiles), `crossed`
(Sessions, BridgeReads), `blind`, `excess` (Portfolio), `misled` and a number used again (History), `raced` (SystemEvents), `known`
(Strategies). What remains is that nothing *else* breaks the property. Section 6 tells what the code does
after the more serious ones.

**Why the bounds suffice.** The hazards are about two actors on one symbol or row, so one symbol and two
scans (plus the manager) show every pair of interleavings; symbols do not share state except
through a pass that fails as a whole and through the portfolio, which has three, one more than the two positions
it allows. Two rows and orders are needed to have a second entry on
top of a first; three to have entry, exit and a second entry. Two units make a partial fill
different from a full one. A close that dies before its post and a second one that reverses the position need two rows,
four orders and two faults. One fault may fall at any point; a second one is what `OnePair` needs (a
lost answer *and* a bridge restart). Four logins and three attempts are the code's own limit plus
one. Two profile slots and two requests allow a profile and its rival or replacement; the menus keep together the requests
whose effects meet, among them the four that change which profile is active. Three events overfill a queue of one while the writer holds one. `MaxClock` start times are at least as
many as rows; at the bound they coincide, which PostgreSQL's clock allows as well. Every property of a passing run has a mutant in
`PROJECT.json`, a plausible bug of the named definition that the run finds within the same bounds.

**Deadlock.** Row and order ids, requests, events and calls run out, and an engine the operator switched
off stops: all runs but those of onboarding therefore set `CHECK_DEADLOCK FALSE`. Onboarding
checks deadlock (an owner can always be suspended or reinstated).

**Symmetry.** Rows, orders and scans in the safety runs of `IbkrLifecycle`: `Latest` and
the history compare stamps, never ids. In `accounts` what no definition tells apart: owners, authorization sessions and session
tokens, which share one set of names, for a behaviour exercises one component; requests, calls and threads, which
share another; and sub-accounts. None elsewhere.

**Fairness.** *IbkrLifecycle*: weak fairness of each scan's steps and of the manager's (loops that run
as long as the process does; each step ends at a call with a timeout), of `Accept` (a post that is
neither refused nor lost arrives) and of `Fill` (a market order that stays open is executed).
Nothing is assumed of the operator, faults, cancellations or refusals. `Exhausted` excuses
behaviours in which the bounds leave no id for the next row or order. `FillsAreRecorded` speaks of
rows whose order id was saved: an error before that leaves a row that the code deliberately never
resolves (`safe_automation.py:173-174`). *IbkrProtection*: the same for the workers, the bridge's
handler and broker orders; at most one fault, after which a position that stays unprotected is
at least on record as attempted. *IbkrOnboarding*: the provisioner polls (systemd restarts it), its
commands and requests end, and time passes; owners, administrators and deliveries are not fair. *Mt5*: the steps of a scan and of a pass that
has begun (their calls have timeouts), and the arrival of a request that was sent; no scan and no pass has to start,
and nothing is assumed of the broker beyond that.

## 5. Proofs

| Theorem | Statement |
|---|---|
| `TypeCorrectness` | `Spec => []TypeOK` |
| `OneIntent` | `Spec => []OneUnresolvedEntry` |
| `EntriesSerialised` | `Spec => []NoConcurrentEntryOrders` |
| `ReleaseIsSafe` | `Spec => []ReleasedMeansDead` |
| `OutcomesAreFinal` | `Spec => OutcomeIsFinal` |
| `Implementation` | `Spec => ImplementsSlot` (the refinement of `EntrySlot`) |
| `ExecutionsAreReal` | `Spec => []ExecutedMeansFilled` |
| `ExposureIsBounded` | `Spec => []ExposureBounded` |
| `LoginsAreUsedOnce` | `Spec => []NoReplay` |
| `LoginsFollowJobs` | `Spec => []LoginFollowsJob` |
| `AccountsHaveOneProfile` | `Spec => []OneProfilePerAccount` |
| `AttemptsAreBounded` | `Spec => ThreeAttempts` |
| `RowsAreTrue` | `Spec => []RowsAgree` |
| `NoOrderOverAnother` | `Spec => []OneUnresolvedOrder` |
| `OnlyManagedIsSold` | `Spec => []ScansInTurnSellOnlyManaged` |
| `BuysAddToDust` | `Spec => []OneEntry` |
| `ManagedStockIsExact` | `Spec => []StockIsExact` |
| `PairsArePlacedOnce` | `Spec => []OnePair` |
| `RecordsAreTrue` | `Spec => []RecordsAgree` |
| `PairsStayPlacedOnce`, `RecordsStayTrue` | `SpecEither => []OnePair`, `[]RecordsAgree` |
| `RowsTellTheTerminal`, `OneLiveEntry`, `PassMeansFlat` | `Spec => []RowsAgree`, `[]OneEntry`, `[]CertifiedMeansFlat` |
| `AccountsAreUnique`, `PermissionsAreEarned` | `Spec => []OneProfilePerAccount`, `[]PermissionIsEarned` |
| `StatusesAreTrue`, `AccessHolds` | `Spec => []StatusIsTrue`, `[]AccessIsControlled` |
| `ReadsAreWhole` | `Spec => []ReadIsWhole` |
| `RevisionsTellRows`, `TradesStayAllowed` | `Spec => []HistoryTellsRow`, `[]TradesAreAllowed` |
| `EventsStayAccounted` | `Spec => []EventsAreAccounted` |
| `PortfolioStaysGuarded` | `Spec => []PortfolioIsGuarded` |
| `LedgerStaysTrue` | `Spec => []LedgerIsTrue` |
| `LedgersAreTrue` | `Wellformed` implies `Spec => [](TypeOK /\ NoFillTwice /\ NoFillLost /\ AssignedOnce)` |

The first eight are about `IbkrLifecycle`, the next four about `IbkrOnboarding`, then five about
`BybitSpot`, two about `IbkrProtection` and the same two about `MCOrders`, three about `Mt5`, four about `MCAccounts` and the rest about `MCPlatform`, but for
the last, which is about `History` by itself. With these, each invariant that a run checks and that holds has a theorem.

**IbkrLifecycle.** They hold for any sets of symbols, scans, rows and orders and any bounds, under the named
assumptions of `IbkrLifecycle` (sides are 1 or -1, `Qty` is positive, bounds are natural numbers, `None`
and the manager are distinct from the other names). `ibkr_entries` checks the same properties on its
instance.

`TypeOK` is not inductive alone: an action updates the row or order its worker points at, so
`Typed` adds that a worker past a certain point has a target (`ScanTargets`, `PmTargets`). For the
others, the invariant is `IInv`:

* **Ownership** - a scan past its intent holds a `SUBMITTED` row of its symbol without an order id, and
  no other scan holds it; what the manager has marked is still unresolved *with* an order id. So
  the two never resolve the same row.
* **Sending** - a row has at most one order, sent by its own scan; an order on its way has a row that is
  unresolved and without an id; only accepted orders fill.
* **Serial** - one unresolved row per symbol, no two entry orders live, and when a scan stands between
  its second read of the orders and the post, none is.
* `ReleasedMeansDead`.

The crux is `ReadyToPost`: an order the second read cannot see is still on its way; then its row is
`SUBMITTED`, and as a symbol has one such row it is this scan's own, which has no order yet.

The proof splits by *effect* rather than by action: `ScanStepEffect`, `PmStepEffect` and
`OtherStepEffect` show that each of the actions has one of nine effects on rows, orders and scans
(`Quiet`, `Beginning`, `Readying`, `Posting`, `Closing`, `Answering`, `Recording`, `Committing`,
`Brokering`), and one lemma per effect shows that it preserves `IInv`. `SlotStep` maps each effect to a step
of `EntrySlot` or to a stutter.

The second half of `IbkrLifecycleProofs` adds orders that close, for symbols that are not in `moved`. `ExecutedMeansFilled` needs that what a pass has
marked was filled (`DirtyFilled`): either its executions were read, or its whole quantity is the position, which nothing else makes up. For `ExposureBounded`: an entry is posted while its symbol is flat and while no close is on its way,
because a close always has a position to close; the position is what the unresolved entry filled, less what was
closed since; and the only close under way has no more left than the position. The statement without `moved` is false, as TLC showed:
a close that was decided on a position reverses it when an earlier close, whose answer was lost, flattens it first.

**IbkrOnboarding.** For any number of owners, any accounts, verifications, instances and logins; the
assumptions are that the bounds are natural numbers and that `None` is neither an account nor a number.
None of the properties is inductive alone: a late acknowledgement could name the current lease, a claim
could exceed what was submitted, a node could be restarted under an owner who was asked to log in. The
invariant of `IbkrOnboardingProofs` adds:

* **Queueing** - what is queued is approved, has an attempt left and a login that was not handed out;
* **Leases**, **WorkerClaim** - a lease is the number of its claim, and the worker's claim is the last of its job;
* **Deploying** - before the node is started its job waits for it, and no acknowledgement of this claim
  exists: ended leases are reconciled by the next claim, which the same worker makes when it is idle;
* **Reporting**, **Reported** - what the worker, or an acknowledgement of the last claim, reports as started runs for
  that claim.

Leases only grow, so an acknowledgement of an earlier claim has a smaller number than the row's; one
of the last claim is true, because only the worker starts nodes and `Deploying` keeps it from starting one for a job that
has been acknowledged. There is a lemma per action, or per group of actions with one effect on the rows
(`RowChange`, `Profiling`, `Failing`, `Leasing`). `onboarding_setup` and `onboarding_attempts` check the four
properties on their instances.

**BybitSpot.** For any number of scans, which may overlap, and any quantities and bounds; the assumptions are
that a BUY is at least the least order, that the bounds are natural numbers and that `None` is neither a scan nor a
number. `orders` checks the same property with two scans. The invariant of `BybitSpotProofs` adds to it:

* **SaneOrders** - an order that may still fill is not full, and a full one did fill;
* **SaneScans** - a SELL asks for no more than the scan's copy of the managed quantity, so applying its fill leaves no
  negative quantity; a scan that has posted knows its own order; what it has marked `CANCELLED` was, without a fill;
* **Reserved** - the symbol is reserved exactly while a scan reads the open orders, reads the lot or awaits the answer;
* **Awaited**, **Clear**, **Alone** - while no answer was lost: an order on its way has its scan waiting for it, none is on
  its way or open when a scan is about to post, and no two are unfinished at once.

The crux is `OrdersKeep`: the open orders do not show an order on its way, but that order's scan would hold the
reservation, which the reading scan holds. `Ending`, `Moving` and `OrderMoves` are the three effects of an
action (a scan's item ends, goes on, an order changes at the broker); most operations are a lemma that ends in one of
them.

The other four follow from a second invariant, which holds while no scans overlapped and no answer was lost: one
scan is busy; an order whose outcome is not in the books is that scan's own, or has a `SUBMITTED` row that stops
every scan; and the managed quantity and what that order filled are `Net` less what was written off. As `Net` is read from the wallet,
no sum over all orders is needed: a fill changes wallet and order together, an outcome moves the order's part into the managed quantity.

**IbkrProtection.** For any number of entries and of faults; the assumptions are that there is an entry, that the
bound on faults is a natural number and that `None` is neither a number, a worker, nor a status that tells of an
attempt. `orders` checks both properties with two entries and two faults (`BybitSpotProofs` carries them over to
`MCOrders`, whose steps are those of `IbkrProtection` or leave it at rest), and TLC found `IInv` to hold
there too. The invariant of `IbkrProtectionProofs` follows the permission to submit, which is in one place:

* **Permitted** - a row that allows an attempt (`None` or `PRE_SUBMISSION_BLOCKED`) has had none, and no worker and no
  request holds the permission for it; **OneHolder** - it is with the scan, with the manager or with a
  request, and a worker that has not called yet shares it with no request;
* **Requested** - the bridge works for a worker that waits for that entry, or for nobody; it answers "busy" to one
  that waits only if it placed nothing;
* **SaneRows**, **SaneScan**, **SanePass** - a row without an order id has no record of protection, and the scan
  attaches only to such a row, which the manager does not see; a copy of a record that allows an attempt is up to
  date, so writing it back, or `SUBMITTING` over it, hides no attempt; exits are executions that were read;
* **Placing** - stop and target are placed in turn, each on an empty leg.

A lost answer or a restart loses the permission and never returns it; `attempts`, which the bridge forgets when it
restarts, is not needed. `Concluding` is the lemma for what a worker does with an answer, `OrderPlaced` for the two orders.

**MT5.** For any number of scans, symbols and orders, any crews, either bridge; the assumptions are that the
workers have different names, that crews are made of them and that the bounds are natural numbers. `mt5` checks the same
three properties on its instance. The invariant of `Mt5Proofs` adds to them:

* **OrderShape**, **WorkShape** - a position belongs to an order the terminal took, a worker past the post knows the order
  it posted, and the script goes on with a deal only;
* **Held** - a scan holds the reservation of a symbol exactly from its reads under the reservation to the answer;
* **Looked** - unless there is an excuse, what lives of the symbol after the read of positions are placed orders, and
  after the read of orders nothing; **Alone** - one entry lives;
* **Scripted** - the position the script closes is that of its order, unless that one was already closed;
* **Closes**, **Unwritten** - a pass waits for the close of its own ticket; an order on its way has no row unless its answer
  was lost.

The excuses are what the argument needs of the code and the code does not give: with the script in another process
`Held` says nothing about it (`PostOrder` excuses the crossing), the two reads are not one (`Settle`), and the tools
bridge reports a failed read as an empty one (`ToolsMask`). `Moving` and `RowsKept` are the effect of a worker's step on the
two halves of the invariant, `PassMove` of a step of the manager, `TerminalMove` of the terminal; each action is a lemma
that ends in one of them, except `PostOrder` and `ProcessRestart`, which have a step per conjunct.

**Accounts.** For any numbers of users, profiles, keys, requests, threads and tokens; the assumptions are that an administrator
exists at first, that users are finitely many, that slots are numbers and that `None` is no name. `AccountsProofs` has an invariant for each of
the three parts:

* sessions: one that has not ended was made in the present era of its user; an update that no other crossed
  wrote down a row that has not changed, so its check that an administrator remains still holds when it writes;
* Agent Connect: status and token are set together, and what was compared before an `await` is compared again after it;
* profiles: the copy of a request whose row nobody changed is the row but for its expiry; one that was overtaken makes the
  row `stale` or writes nothing that permission or status rest on. Every row is sound: certified means that both sides passed on its
  key in its environment. What a request writes of other rows, a replacement or those an activation finds, is their activity
  only. A request that provisions holds the lock from its reads to its commit, so the comparison of accounts still holds when it writes.

`AccountsAreUnique` says nothing of which profile is active (section 6), and of sub-accounts only what holds of one owner.

**Bridge reads.** For any handlers, requests and epochs. A handler that is alone with its operation has a list made of what came of the
two answers to its request, and streams of its request exist only while it waits in its epoch; so a read that ends
without an error, a reconnection or a crossing returned every item once.

**Strategies.** For any users' requests, profiles, generations of a row and ceiling (at least 1); profiles are numbered from 1 and the certified ones
exist. Revisions of a row are numbered 1 to m without a gap, so a number that was read and is not taken is
the next one, and its unique key refuses the others; a loaded row that was not overtaken is still the row; a row's risk was
within the limit it was written under, and a bulk request switches on certified accounts only. A scan's accounts are those that
`wanted` the symbol when the preflight read them; that the chosen route is the least one uses that numbers are well-founded.

**Telemetry.** For any emitters, numbers of events and sizes of queue, store, window and page. An event in flight is in one place; there is a set
of counted events, none of which is still stored, that bounds each of the counts; refused events that are no longer pending are
at most `dropped`, unless two counts raced. A page holds everything stored from its cursor on.

**Portfolio.** For any number of symbols, any equity and limits, any number of scans, requests, monitors and certifications, and any
`Books`: the prices and risks are arbitrary, and fixed within a behaviour.
Sums over the symbols are a recursive function; `SumExists`, `SumIsUnique` and `TotalChanges` (one symbol changes) are proved from
the well-foundedness of numbers, since induction theorems take an operator. While nothing was approved past an order or a position
that did not count:

* **OneApproves** - only one session has approved anything;
* **CountIsSound** - the number of symbols held or ordered together with the number it approved is within `MaxNew`;
* **SumIsSound** - of Bybit, what is held and ordered together with what it has reserved is within half of the equity;
* **EachIsSound** - of IBKR and MT5, where the guard sees no value of what is held: a symbol is approved while it has no position and
  no order, within half of the equity, and has at most one of the two, less the `excess` that only MT5 has.

`SeenApproved` is the guard's step (all orders have filled and every position counts, so what is ordered is at most what the guard
reads), `SeenPlaced` an order that takes the place of its plan, `SeenShrinks` a sale, a fill or a close, `SeenStays` everything that leaves the broker alone.
`Record` and `ReadSlots` change only what Bybit's guard will count. The locks
are an argument of their own: whoever has the row, or waits for it, has not ended. For IBKR and MT5 the sum over all symbols has no theorem: it
is the finding of `exposure`.

**Ledger.** For any number of orders in any number of parts, any exits of any entries, and any operators; `Wellformed` says what that needs:
orders are numbered from 1 without a gap, each has a part, an exit closes an entry, and `None` is neither an execution nor an operator. The
invariant of `HistoryProofs`, which TLC found to hold on the instance of `platform`, adds to the properties:

* **Placing** - only what was placed fills or has an action, an exit is placed after the fill of its entry was saved, and native protection only exits;
* **EvidenceIsSound** - evidence is all of a statement order, or, of an exit, what carries its number; while numbers tell orders apart and no map
  was wrong, these are executions of its own order;
* **JobsAreSound** - only the holder of the profile's row has something to save, and what it will save is still nobody's evidence.

What an order's number proves is its own executions: no other order carries it, and a set of them with as many members as there are parts is all of them
(`ProvenIsWhole`). The two merges of the ledger are recursive functions over the orders; that they exist is proved as for
`Portfolio` (`FoldExists`). Each merge keeps the rows of other orders, and leaves those of its own or puts one row in their place (`MergedIs`,
`FillingIsSound`), so that rows are about the order they name and count no execution twice (`LedgerIsSound`): the least order whose merge broke that
does not exist. What is missed is only a part the Gateway forgot beside one it remembers, the exception in `NoFillLost`. `PlatformProofs`
instantiates `HistoryProofs` under the names of `MCPlatform`, shows both copies of `History` equal, and inherits the theorem.

**Only model-checked:** liveness under
fairness (`FillsAreRecorded`, `ReservationsAreReleased`, `PairIsRecognised`, `PositionIsProtected`, `ExitIsRecorded`, `QueueDrains`, `LeasesEnd`, `KillTakesHold`), `ENABLED`,
induction over data and RECURSIVE operators are beyond the installed provers and stay with TLC.

## 6. Where code and documents disagree

Two runs are expected to be violated; `findings` quotes the sentences and the lines.

* **Kill switch** (`ibkr_kill`). The last check of an entry precedes `_post`, which awaits `/account` first; a
  close checks when its pass starts only. MT5 and Bybit read the switch when a scan starts (`safe_automation.py:430`);
  `KillTakesHold` says that what was begun ends.
* **Gross exposure** (`exposure`). The guard is to keep existing and proposed exposure within half of the equity
  (`READINESS_MAX_GROSS_EXPOSURE_PCT`), but `_position_notional` (`autotrade_readiness.py:218-234`) finds no value and no
  price in the rows of the IBKR bridge (`quantity`, `avg_cost`) and of MT5 (`price_open`, `price_current`). Existing exposure is then 0, and each scan may
  reserve half of the equity again. What remains is in `ExposureWithinLimit`: a symbol stays within half, and `PositionsWithinLimit` bounds their number.

Three more properties are stated in the modules and violated by the code. No run is kept for them; each is
reproduced with `SPECIFICATION Spec`, `CHECK_DEADLOCK FALSE` and the instance given.

* **Ownership** (`OpenPositionIsOwned`, `MCIbkrLifecycle`: 1 symbol, 1 scan, 3 rows, 3 orders, `Sides <- BuyAndSell`, `Qty = 1`, `MaxClock = 4`,
  no changes, faults or trades in TWS). `_latest_entry` orders by `created_at`, the start of a
  transaction: an entry inserted by a transaction that was open before the exit's sorts before the
  exit it follows, and the position it opens is then nobody's (`ibkr_position_manager.py:160`).
* **Identities** (`IdentitiesKept`, a PROPERTY of `IbkrProtection`: 1 entry, no fault). A pass writes an old copy of
  `raw_json` back over order identities that the scan saved while it waited (`ibkr_position_manager.py:380`).
* **Overselling** (`SellsOnlyManaged`, `BybitSpot`: 2 scans, 3 orders, `Qty = MinQty = Own = 2`, no transfers, nothing lost).
  Between an order and its recorded outcome neither the
  reservation nor a row nor the managed quantity tells another scan about it.

In these places a document or a comment promises more than the code keeps; the models carry the exception as history:

* `docs/LIVE_EXECUTION_LIFECYCLE.md:19`: Paper, Demo or Testnet certification never satisfies Live. A detection that waits for Bybit
  while the key is replaced and certified may move the certificate to a Live environment
  (`routes_bybit_environment.py:82`; `stale` in `LiveStaysUnarmed`).
* `routes_admin.py:78`: an active administrator remains. Two updates that overlap each count two (`crossed` in
  `AnAdminRemains`).
* `docs/STRATEGY_REVISIONS.md:10-12`: the last revision is the configuration. Two edits that overlap each record what
  they read and changed, the row gets both (`known` in `HistoryTellsRow`).
* `max_open_positions` is compared with the positions the account had when readiness read it (`autotrade_readiness.py:396`), so one
  scan may exceed it; the reservation (`MaxNew`) is the bound that holds.

Met while modelling and kept as hazards with a note, or here: two profiles of an owner may both be active. A request that connects
and activates one commits after the UPDATE of an activation has begun, which does not find it (`routes_accounts.py:207`, `:244`); a
disconnection or a removal activates the replacement it read before another profile was activated (`routes_account_lifecycle.py:69`, `:95`);
and a replacement is activated beside any other active profile. Both steps are in `Profiles`. Two owners may link one sub-account, as `_duplicate`
compares the profiles of one owner (`routes_accounts.py:69`). A login that was verified before a reset of the password still gets a session
after it (`services/auth.py:91-115`, `CreateSession`). Further: a close asks for the
whole position, the operator's units included, once executions are forgotten
(`ibkr_position_manager.py:175`); a close reads positions before orders, and reverses a position that
an earlier close flattens in between (`brokers/ibkr_bridge.py:99-105`; the exception `moved` of `ExposureBounded`); the protective exit of an entry
is never recorded once a newer entry is the latest (`ibkr_position_manager.py:292`), and its late
row may hide the newer entry; two overlapping Bybit buys stack (`bybit_spot_execution.py:332`); a
failed onboarding may continue on its old approval beside a competing one
(`routes_ibkr_onboarding.py:146`), and a reapproved, then rejected one may change the account of a
node that exists (`:129`); the certification of a single Demo order places it without reading the positions again; the
preflight keys rows by symbol without their account (`autotrade_preflight.py:75`).

## 7. Not modelled

* Prices, indicators, sizing and risk arithmetic: floating-point decisions; in the models a signal of
  any direction may come at any time. `Portfolio` takes the price of a symbol to stay, so that its limits are those of the
  guard and not of the market, and leaves dust, which does not count as a position, to `BybitSpot`.
* The reads of a request in a thread one by one: `Profiles` reads its row and its replacement in one step, so what
  another request commits between those two reads is not in the models.
* The bridge's staged recovery of protection (`tools/ibkr_bridge.py:403-423`) and the manual recovery
  script.
* Partial fills of entries and several symbols in `IbkrProtection`; several accounts everywhere.
* Bybit's order history is taken to list finished orders. Should it list a partly filled open order,
  `PARTIALLYFILLED` would be recorded as executed and the rest of its fill would be in no row
  (`bybit_spot_execution.py:26`).
* Secrets, ports, files and certificates of onboarding.
* What-If and contract lookups of the IBKR bridge; the certification scripts of IBKR and Bybit, which place an order
  pair in sequence; hashing, redaction and the wording of rows.
* The shadow monitor: one task and virtual positions that no order depends on.
* Market-data profiles, simulation capital, reporting, market data, backtesting, frontend, migrations: little or no concurrent
  state; reasons per component in `PROJECT.json`.
