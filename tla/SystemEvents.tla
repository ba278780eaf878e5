------------------------- MODULE SystemEvents -------------------------
(***************************************************************************)
(* Telemetry (app/services/system_events.py, app/api/routes_logs.py).      *)
(* Whoever emits an event keeps it in memory and queues it without         *)
(* waiting; one thread writes the queue to Redis.  An event that finds the *)
(* queue full, or that Redis refuses, is counted.  An administrator reads  *)
(* memory, Redis and the audit tables together, page after page, newest    *)
(* first.                                                                  *)
(*                                                                         *)
(* Events are numbered in the order of their time and id.  The time is     *)
(* taken before the event is kept, so events may be kept in another order. *)
(***************************************************************************)
EXTENDS Integers, Sequences, FiniteSets, SequencesExt

CONSTANTS Emitters,
          QueueSize,    \* 2000 in the code
          Keep,         \* MAX_EVENTS
          Window,       \* rows of the audit tables that one read loads
          Limit,        \* of one page
          MaxEvents,    \* bound: events of a behaviour
          None

VARIABLES
    next,         \* the number of the next event
    emitter,      \* a provider call or a request, or whoever emits: what it is at
    memory,       \* _events
    queue,        \* _queue
    writer,       \* the thread: what it is at
    redis,        \* the list of Redis, newest first
    dropped,      \* _health['dropped']
    audit,        \* committed rows of the audit tables
    reader,       \* an administrator who reads page after page
    lost,         \* history: events that the queue or Redis refused in this process
    raced         \* history: two threads counted at the same time

vars == <<next, emitter, memory, queue, writer, redis, dropped, audit, reader, lost, raced>>
capture == <<next, emitter, memory, queue>>
storage == <<writer, redis>>
counting == <<dropped, lost, raced>>

\* Emitters: idle, stamped, kept, full, counting; seen: the count they read.
\* A traced operation is idle between its events.
\* The writer: waiting, writing, failed, counting, stopped.
Idle == [pc |-> "idle", row |-> None, seen |-> 0]
Waiting == [pc |-> "waiting", row |-> None, seen |-> 0]

\* cursor: the last row of the page before; base: rows that were there at each
\* of the reads, those of the audit tables beyond the window too; twice: a row
\* came a second time.
NotReading == [on |-> FALSE, cursor |-> MaxEvents + 1, base |-> {}, got |-> {},
               twice |-> FALSE, capped |-> FALSE, done |-> FALSE]

Init == /\ next = 1
        /\ emitter = [e \in Emitters |-> Idle]
        /\ memory = <<>> /\ queue = <<>> /\ redis = <<>>
        /\ writer = Waiting
        /\ dropped = 0 /\ lost = {} /\ raced = FALSE
        /\ audit = {}
        /\ reader = NotReading

(***************************************************************************)
(* Emitting: traced operations, provider calls, requests and Python logs.  *)
(***************************************************************************)

Emit(e) == /\ emitter[e].pc = "idle" /\ next <= MaxEvents
           /\ emitter' = [emitter EXCEPT ![e] = [pc |-> "stamped", row |-> next, seen |-> 0]]
           /\ next' = next + 1
           /\ UNCHANGED <<memory, queue, storage, audit, reader, counting>>

\* _lock is free: no emitter is counting.
Free == \A e \in Emitters : emitter[e].pc # "counting"

Latest(s, n) == IF Len(s) > n THEN SubSeq(s, Len(s) - n + 1, Len(s)) ELSE s
KeepRow(e) == /\ emitter[e].pc = "stamped" /\ Free
              /\ memory' = Latest(Append(memory, emitter[e].row), Keep)
              /\ emitter' = [emitter EXCEPT ![e].pc = "kept"]
              /\ UNCHANGED <<next, queue, storage, audit, reader, counting>>

\* Mutant: an event that finds the queue full is dropped without a count.
PutQuietly(e) == IF Len(queue) < QueueSize
                 THEN /\ queue' = Append(queue, emitter[e].row)
                      /\ emitter' = [emitter EXCEPT ![e] = Idle] /\ UNCHANGED lost
                 ELSE /\ lost' = lost \cup {emitter[e].row}
                      /\ emitter' = [emitter EXCEPT ![e] = Idle] /\ UNCHANGED queue

PutOrCount(e) == IF Len(queue) < QueueSize
                 THEN /\ queue' = Append(queue, emitter[e].row)
                      /\ emitter' = [emitter EXCEPT ![e] = Idle] /\ UNCHANGED lost
                 ELSE /\ lost' = lost \cup {emitter[e].row}
                      /\ emitter' = [emitter EXCEPT ![e].pc = "full"] /\ UNCHANGED queue

Put(e) == /\ emitter[e].pc = "kept"
          /\ PutOrCount(e)
          /\ UNCHANGED <<next, memory, storage, audit, reader, dropped, raced>>

\* += reads and writes; the lock keeps other emitters out, not the writer.
AtCount(row) == [pc |-> "counting", row |-> row, seen |-> dropped]

ReadCount(e) == /\ emitter[e].pc = "full" /\ Free
                /\ emitter' = [emitter EXCEPT ![e] = AtCount(emitter[e].row)]
                /\ raced' = (raced \/ writer.pc = "counting")
                /\ UNCHANGED <<next, memory, queue, storage, audit, reader, dropped, lost>>

Count(e) == /\ emitter[e].pc = "counting"
            /\ dropped' = emitter[e].seen + 1
            /\ emitter' = [emitter EXCEPT ![e] = Idle]
            /\ UNCHANGED <<next, memory, queue, storage, audit, reader, lost, raced>>

(***************************************************************************)
(* The writer.                                                             *)
(***************************************************************************)

Take == /\ writer.pc = "waiting" /\ queue # <<>>
        /\ writer' = [pc |-> "writing", row |-> Head(queue), seen |-> 0]
        /\ queue' = Tail(queue)
        /\ UNCHANGED <<next, emitter, memory, redis, audit, reader, counting>>

Pushed(row) == SubSeq(<<row>> \o redis, 1, IF Len(redis) < Keep THEN Len(redis) + 1 ELSE Keep)

\* The transaction succeeds, or fails, or its answer is lost.
Write == /\ writer.pc = "writing"
         /\ \/ /\ redis' = Pushed(writer.row)
               /\ writer' = Waiting /\ UNCHANGED lost
            \/ /\ redis' = Pushed(writer.row)
               /\ writer' = [writer EXCEPT !.pc = "failed"] /\ UNCHANGED lost
            \/ /\ writer' = [writer EXCEPT !.pc = "failed"]
               /\ lost' = lost \cup {writer.row} /\ UNCHANGED redis
         /\ UNCHANGED <<capture, audit, reader, dropped, raced>>

WriterReads == /\ writer.pc = "failed"
               /\ writer' = AtCount(writer.row)
               /\ raced' = (raced \/ ~Free)
               /\ UNCHANGED <<capture, redis, audit, reader, dropped, lost>>

WriterCounts == /\ writer.pc = "counting"
                /\ dropped' = writer.seen + 1
                /\ writer' = Waiting
                /\ UNCHANGED <<capture, redis, audit, reader, lost, raced>>

\* stop: the thread ends without writing what is queued.
Stop == /\ writer.pc = "waiting"
        /\ writer' = [Waiting EXCEPT !.pc = "stopped"]
        /\ UNCHANGED <<capture, redis, audit, reader, counting>>

\* The process ends, after stop or by a crash, and starts again.
Restart == /\ emitter' = [e \in Emitters |-> Idle]
           /\ memory' = <<>> /\ queue' = <<>>
           /\ writer' = Waiting
           /\ dropped' = 0 /\ lost' = {} /\ raced' = FALSE
           /\ UNCHANGED <<next, redis, audit, reader>>

\* Nothing was written for seven days.
Expire == /\ redis # <<>> /\ redis' = <<>>
          /\ UNCHANGED <<capture, writer, audit, reader, counting>>

(***************************************************************************)
(* Reading.                                                                *)
(***************************************************************************)

Commit == /\ next <= MaxEvents
          /\ audit' = audit \cup {next} /\ next' = next + 1
          /\ UNCHANGED <<emitter, memory, queue, storage, reader, counting>>

Newest(rows, n) == {x \in rows : Cardinality({y \in rows : y > x}) < n}

\* snapshot: Redis may not answer.
Snapshot(up) == ToSet(memory) \cup (IF up THEN ToSet(redis) ELSE {})

\* history loads the newest rows of the audit tables, and says when it came to its limit.
Rows(up) == Snapshot(up) \cup Newest(audit, Window)
Capped == Cardinality(audit) >= Window

\* Mutant: the cursor's own row is on the next page too.
BeforeOrAt(x, cursor) == x <= cursor
Before(x, cursor) == x < cursor

Page(up) == Newest({x \in Rows(up) : Before(x, reader.cursor)}, Limit)

ReadPage(up) ==
    /\ ~reader.done
    /\ LET rest == {x \in Rows(up) : Before(x, reader.cursor)}
           there == Snapshot(up) \cup audit
           base == IF reader.on THEN reader.base \cap there ELSE there IN
       reader' = [on |-> TRUE, base |-> base, got |-> reader.got \cup Page(up),
                  twice |-> reader.twice \/ reader.got \cap Page(up) # {},
                  capped |-> reader.capped \/ Capped,
                  cursor |-> IF Page(up) = {} THEN reader.cursor
                             ELSE CHOOSE x \in Page(up) : \A y \in Page(up) : x <= y,
                  done |-> Cardinality(rest) <= Limit]
    /\ UNCHANGED <<capture, storage, audit, counting>>

Next == \/ \E e \in Emitters : Emit(e) \/ KeepRow(e) \/ Put(e) \/ ReadCount(e) \/ Count(e)
        \/ Take \/ Write \/ WriterReads \/ WriterCounts \/ Stop \/ Restart \/ Expire
        \/ Commit \/ \E up \in BOOLEAN : ReadPage(up)

(***************************************************************************)
(* Properties.                                                             *)
(***************************************************************************)

TypeOK == /\ next \in 1..(MaxEvents + 1)
          /\ Len(queue) <= QueueSize /\ Len(memory) <= Keep /\ Len(redis) <= Keep
          /\ writer.pc \in {"waiting", "writing", "failed", "counting", "stopped"}
          /\ \A e \in Emitters : emitter[e].pc \in {"idle", "stamped", "kept", "full", "counting"}
          /\ dropped \in 0..MaxEvents

AtRest == Free /\ writer.pc \notin {"failed", "counting"}
               /\ \A e \in Emitters : emitter[e].pc # "full"

\* Events that the queue or Redis refused are counted, each of them unless the writer
\* and an emitter counted at the same time, and even then not as none.
LossIsCounted == AtRest => /\ raced \/ Cardinality(lost) <= dropped
                           /\ dropped = 0 => lost = {}

\* Who reads to the last page gets every row that was there at each of the
\* reads, and none twice, although rows come and go between the pages, unless
\* the audit window was capped, which the answer says.
PagesAreComplete == reader.done => /\ reader.base \subseteq reader.got \/ reader.capped
                                   /\ ~reader.twice
=============================================================================
