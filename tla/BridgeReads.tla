------------------------- MODULE BridgeReads -------------------------
(***************************************************************************)
(* Reads through the IBKR bridge (tools/ibkr_bridge.py): handlers run in   *)
(* threads, ask TWS and wait for an event; one thread runs the callbacks   *)
(* that fill the lists the handlers return.  Positions, orders and         *)
(* executions have one list each for all requests, and positions and       *)
(* orders one event; account summaries, candles and contracts have their   *)
(* own.  What the broker holds does not change during a behaviour.         *)
(***************************************************************************)
EXTENDS Integers, FiniteSets

CONSTANTS Readers, Operations,
          Book,         \* what TWS has to answer: items of request 1 and 2
          MaxRequests,  \* bound: requests of a behaviour
          MaxEpoch      \* bound: disconnections

VARIABLES
    op,           \* the operation of this behaviour
    list,         \* what each list has: the number of times an item came
    reader,       \* the handlers
    streams,      \* answers TWS has begun: request, key, items left
    events,       \* events that are set
    server,       \* server_connected
    epoch,        \* connection_epoch
    cooling,      \* the operation is in its recovery cooldown
    requests      \* the number of requests so far

vars == <<op, list, reader, streams, events, server, epoch, cooling, requests>>

Items == UNION {b[1] \cup b[2] : b \in {Book[o] : o \in Operations}}
Empty == [i \in Items |-> 0]
Shared == {"positions", "orders", "exec"}    \* one list for all requests
Serial == {"positions", "orders"}            \* serial_read
Cancelled == {"positions", "acct"}           \* the request is cancelled at the end

\* pc: idle, begun, prepared, waiting, woken; req: its request; pass: 1, for
\* orders then 2; at: the epoch it prepared in; result: the list it returned;
\* crossed, history: an answer to another read was under way.
Idle == [pc |-> "idle", req |-> 0, pass |-> 1, at |-> 0, result |-> Empty,
         ok |-> FALSE, crossed |-> FALSE]

Init == /\ op \in Operations
        /\ list = [k \in 0..MaxRequests |-> Empty]
        /\ reader = [r \in Readers |-> Idle]
        /\ streams = {} /\ events = {}
        /\ server = TRUE /\ epoch = 0 /\ cooling = FALSE /\ requests = 0

\* The list of a request, and the event it waits for: 0 if it is shared.
ListOf(q) == IF op \in Shared THEN 0 ELSE q
EventOf(q) == IF op \in Serial THEN 0 ELSE q
Active == {r \in Readers : reader[r].pc # "idle"}
\* Mutant: a lock that does not exclude.
NoLock(r) == TRUE
MayBegin(r) == op # "exec" => Active = {}

Set(r, new) == reader' = [reader EXCEPT ![r] = new]

\* read_ready, then the lock: a busy operation is refused.  The list is new.
Begin(r) ==
    /\ reader[r].pc = "idle" /\ server /\ ~cooling /\ requests < MaxRequests
    /\ MayBegin(r)
    /\ requests' = requests + 1
    /\ list' = [list EXCEPT ![ListOf(requests')] = Empty]
    /\ reader' = [x \in Readers |->
         IF x = r THEN [Idle EXCEPT !.pc = "begun", !.req = requests',
                                    !.crossed = (streams # {} \/ (op = "exec" /\ Active # {}))]
         ELSE IF op = "exec" /\ x \in Active THEN [reader[x] EXCEPT !.crossed = TRUE]
         ELSE reader[x]]
    /\ UNCHANGED <<op, streams, events, server, epoch, cooling>>

\* Mutant: the event of an earlier answer is not cleared.
Uncleared(r) == events
Cleared(r) == events \ {EventOf(reader[r].req)}

Prepare(r) ==
    /\ reader[r].pc = "begun"
    /\ Set(r, [reader[r] EXCEPT !.pc = "prepared", !.at = epoch])
    /\ events' = Cleared(r)
    /\ UNCHANGED <<op, list, streams, server, epoch, cooling, requests>>

\* TWS may never answer, as when it has lost its server.
Request(r) ==
    /\ reader[r].pc = "prepared"
    /\ Set(r, [reader[r] EXCEPT !.pc = "waiting"])
    /\ \/ streams' = streams \cup {[req |-> reader[r].req, left |-> Book[op][reader[r].pass]]}
       \/ UNCHANGED streams
    /\ UNCHANGED <<op, list, events, server, epoch, cooling, requests>>

(***************************************************************************)
(* Callbacks.                                                              *)
(***************************************************************************)

\* A private list is gone once its request has ended.
Known(q) == op \in Shared \/ \E r \in Active : reader[r].req = q

Item(s) ==
    \E i \in s.left :
      /\ streams' = (streams \ {s}) \cup {[s EXCEPT !.left = @ \ {i}]}
      /\ list' = IF Known(s.req) THEN [list EXCEPT ![ListOf(s.req)][i] = @ + 1] ELSE list
      /\ UNCHANGED <<op, reader, events, server, epoch, cooling, requests>>

ItemsEnd(s) ==
    /\ s.left = {}
    /\ streams' = streams \ {s}
    /\ events' = IF Known(s.req) THEN events \cup {EventOf(s.req)} ELSE events
    /\ UNCHANGED <<op, list, reader, server, epoch, cooling, requests>>

\* 1100, 2110: every waiting handler wakes.  Answers under way may still come.
Disconnected ==
    /\ server /\ epoch < MaxEpoch
    /\ server' = FALSE /\ epoch' = epoch + 1
    /\ events' = events \cup {EventOf(q) : q \in 1..requests}
    /\ streams' \in SUBSET streams
    /\ UNCHANGED <<op, list, reader, cooling, requests>>

\* 1101, 1102: cooldowns end.
Restored ==
    /\ ~server
    /\ server' = TRUE /\ cooling' = FALSE
    /\ UNCHANGED <<op, list, reader, streams, events, epoch, requests>>

CooldownEnds ==
    /\ cooling /\ cooling' = FALSE
    /\ UNCHANGED <<op, list, reader, streams, events, server, epoch, requests>>

(***************************************************************************)
(* Waiting.                                                                *)
(***************************************************************************)

\* finally: a cancelled request may have sent its answer already.
Ended(r, ok) ==
    /\ Set(r, [reader[r] EXCEPT !.pc = "idle", !.ok = ok,
                 !.result = IF ok THEN list[ListOf(reader[r].req)] ELSE @])
    /\ IF op \in Cancelled
       THEN streams' \in {streams, {s \in streams : s.req # reader[r].req}}
       ELSE UNCHANGED streams

\* Mutant: the epoch in which the request was prepared is not compared.
AnyEpoch(r) == TRUE
SameEpoch(r) == reader[r].at = epoch

\* The wait is over: the server must be there and have been there all along.
\* The orders of all clients are followed by those of this client.
Woken(r) ==
    /\ reader[r].pc = "waiting" /\ EventOf(reader[r].req) \in events
    /\ server /\ SameEpoch(r)
    /\ cooling' = FALSE
    /\ IF op = "orders" /\ reader[r].pass = 1
       THEN /\ Set(r, [reader[r] EXCEPT !.pc = "begun", !.pass = 2])
            /\ UNCHANGED streams
       ELSE /\ Set(r, [reader[r] EXCEPT !.pc = "woken"])
            /\ UNCHANGED streams
    /\ UNCHANGED <<op, list, events, server, epoch, requests>>

\* The handler copies the list.
Return(r) ==
    /\ reader[r].pc = "woken"
    /\ Ended(r, TRUE)
    /\ UNCHANGED <<op, list, events, server, epoch, cooling, requests>>

\* A disconnection, before or since; no cooldown follows.
Interrupted(r) ==
    /\ reader[r].pc = "waiting" /\ EventOf(reader[r].req) \in events
    /\ ~ (server /\ SameEpoch(r))
    /\ Ended(r, FALSE)
    /\ UNCHANGED <<op, list, events, server, epoch, cooling, requests>>

TimesOut(r) ==
    /\ reader[r].pc = "waiting" /\ EventOf(reader[r].req) \notin events
    /\ cooling' = TRUE
    /\ Ended(r, FALSE)
    /\ UNCHANGED <<op, list, events, server, epoch, requests>>

Next == \/ \E r \in Readers : \/ Begin(r) \/ Prepare(r) \/ Request(r) \/ Woken(r)
                              \/ Return(r) \/ Interrupted(r) \/ TimesOut(r)
        \/ \E s \in streams : Item(s) \/ ItemsEnd(s)
        \/ Disconnected \/ Restored \/ CooldownEnds

TypeOK == /\ op \in Operations /\ server \in BOOLEAN /\ cooling \in BOOLEAN
          /\ epoch \in 0..MaxEpoch /\ requests \in 0..MaxRequests
          /\ events \subseteq 0..MaxRequests
          /\ \A s \in streams : s.req \in 1..MaxRequests /\ s.left \subseteq Items
          /\ \A r \in Readers : reader[r].pc \in {"idle", "begun", "prepared", "waiting", "woken"}

\* Orders are reported by their number, positions and executions as they came.
Whole(l) == \A i \in Items :
    LET n == (IF i \in Book[op][1] THEN 1 ELSE 0) + (IF i \in Book[op][2] THEN 1 ELSE 0) IN
    IF op = "orders" THEN (l[i] > 0) = (n > 0) ELSE l[i] = n

\* A read that succeeds returns all that TWS has and nothing twice, whatever
\* disconnections and timeouts there were, unless an answer to an earlier read
\* of positions, orders or executions was still under way or, executions not
\* being serialised, another read of them was.
ReadIsWhole == \A r \in Readers :
    (reader[r].pc = "idle" /\ reader[r].ok) =>
       (Whole(reader[r].result) \/ (reader[r].crossed /\ op \in Shared))
=============================================================================
