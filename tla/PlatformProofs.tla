------------------------- MODULE PlatformProofs -------------------------
(***************************************************************************)
(* Proofs about the parts of MCPlatform, each with its own inductive       *)
(* invariant: reads through the bridge, the configuration of strategies    *)
(* with the scan that trades by it, telemetry, the portfolio guard, and    *)
(* the ledger, whose argument is that of HistoryProofs.                    *)
(***************************************************************************)
EXTENDS MCPlatform, Sequences, FiniteSetTheorems, WellFoundedInduction, TLAPS

(***************************************************************************)
(* Reads through the bridge.                                               *)
(***************************************************************************)
ReaderRow == [pc : {"idle", "begun", "prepared", "waiting", "woken"}, req : 0 .. MaxRequests,
              pass : {1, 2}, at : Nat, result : [B!Items -> Nat],
              ok : BOOLEAN, crossed : BOOLEAN]
StreamRow == [req : 1 .. MaxRequests, left : SUBSET B!Items]
ReadsType ==
    /\ op \in Operations /\ server \in BOOLEAN /\ cooling \in BOOLEAN
    /\ epoch \in 0 .. MaxEpoch /\ requests \in 0 .. MaxRequests
    /\ events \subseteq 0 .. MaxRequests
    /\ streams \subseteq StreamRow
    /\ list \in [0 .. MaxRequests -> [B!Items -> Nat]]
    /\ reader \in [Readers -> ReaderRow]

(* Requests have numbers of their own, and epochs come one after another.  *)
Numbered ==
    /\ \A s \in streams : s.req <= requests
    /\ \A r \in B!Active : reader[r].req \in 1 .. requests /\ reader[r].at <= epoch
    /\ \A r \in Readers : reader[r].pass = 2 => op = "orders"

(* Nobody else reads while a handler reads what only it may read, or while *)
(* a handler reads with nothing else under way.                            *)
Alone(r) == r \in B!Active /\ (op \in B!Shared => ~reader[r].crossed)
Own(r) == {s \in streams : s.req = reader[r].req}
Apart ==
    /\ op # "exec" => \A q, r \in B!Active : q = r
    /\ \A r \in Readers : Alone(r) =>
         /\ B!Active = {r}
         /\ op \in B!Shared => streams = Own(r)

(* What has come of the two answers to a request.                          *)
Has(counts, first, second) == \A i \in B!Items :
    counts[i] = (IF i \in first THEN 1 ELSE 0) + (IF i \in second THEN 1 ELSE 0)
ListOf(r) == list[B!ListOf(reader[r].req)]
Signalled(r) == B!EventOf(reader[r].req) \in events
Came(r, part1, part2) == IF reader[r].pass = 1 THEN Has(ListOf(r), part1, {})
                         ELSE Has(ListOf(r), Book[op][1], part2)

Asking(r) == reader[r].pc \in {"begun", "prepared"} =>
    /\ Own(r) = {} /\ Came(r, {}, {})
    /\ reader[r].pc = "prepared" /\ reader[r].at = epoch => ~Signalled(r)
Hearing(r) == reader[r].pc = "waiting" /\ reader[r].at = epoch =>
    /\ \A s, t \in Own(r) : s = t
    /\ \A s \in Own(r) : ~Signalled(r) /\ Came(r, Book[op][1] \ s.left, Book[op][2] \ s.left)
                         /\ s.left \subseteq Book[op][reader[r].pass]
    /\ Signalled(r) => Came(r, Book[op][1], Book[op][2])
Done(r) == reader[r].pc = "woken" =>
    /\ Own(r) = {} /\ Came(r, Book[op][1], Book[op][2])
    /\ op = "orders" => reader[r].pass = 2
Heard == \A r \in Readers : Alone(r) => Asking(r) /\ Hearing(r) /\ Done(r)

ReadsInv == ReadsType /\ Numbered /\ Apart /\ Heard /\ B!ReadIsWhole

LEMMA BookIs ==
    ASSUME NEW o \in Operations
    PROVE  /\ Book[o][1] \subseteq B!Items /\ Book[o][2] \subseteq B!Items
           /\ o # "orders" => Book[o][2] = {}
<1>1. Book[o] \in {Book[x] : x \in Operations}
  OBVIOUS
<1>2. Book[o][1] \cup Book[o][2] \subseteq B!Items
  BY <1>1 DEF B!Items
<1>3. o # "orders" => Book[o][2] = {}
  BY ReadsAssumption DEF Book
<1> QED BY <1>2, <1>3

LEMMA ReaderSet ==
    ASSUME ReadsType, NEW r \in Readers, NEW new \in ReaderRow, B!Set(r, new)
    PROVE  /\ reader' \in [Readers -> ReaderRow] /\ reader'[r] = new
           /\ \A x \in Readers : x # r => reader'[x] = reader[x]
  BY DEF ReadsType, B!Set

HeardOf(r) == Asking(r) /\ Hearing(r) /\ Done(r)

Answered(r) == reader[r].pc = "idle" /\ reader[r].ok =>
    B!Whole(reader[r].result) \/ (reader[r].crossed /\ op \in B!Shared)

(* What a handler does, when it is alone, concerns nobody else.            *)
LEMMA ReaderStep ==
    ASSUME ReadsInv, NEW r \in B!Active, NEW new \in ReaderRow, B!Set(r, new),
           new.crossed = reader[r].crossed, new.req = reader[r].req, new.at <= epoch,
           new.pass = 2 => op = "orders",
           op' = op, requests' = requests, epoch' = epoch,
           streams' \subseteq StreamRow, \A s \in streams' : s \in streams \/ s.req = new.req,
           new.pc # "idle" /\ Alone(r) => HeardOf(r)',
           new.pc = "idle" /\ new.ok =>
               B!Whole(new.result) \/ (new.crossed /\ op \in B!Shared)
    PROVE  Numbered' /\ Apart' /\ Heard' /\ B!ReadIsWhole'
<1>r. r \in Readers /\ reader[r].pc # "idle"
  BY DEF B!Active
<1>1. /\ reader' \in [Readers -> ReaderRow] /\ reader'[r] = new
      /\ \A x \in Readers : x # r => reader'[x] = reader[x]
  BY <1>r, ReaderSet DEF ReadsInv
<1>2. B!Active' \subseteq B!Active
  BY <1>1 DEF B!Active
<1>3. Numbered'
  <2>1. \A s \in streams' : s.req <= requests'
    <3>1. \A s \in streams : s.req <= requests
      BY DEF ReadsInv, Numbered
    <3>2. reader[r].req <= requests
      BY <1>r DEF ReadsInv, Numbered
    <3> QED BY <3>1, <3>2
  <2>2. ASSUME NEW x \in B!Active'
        PROVE  reader'[x].req \in 1 .. requests' /\ reader'[x].at <= epoch'
    <3>1. x \in B!Active /\ x \in Readers
      BY <1>2 DEF B!Active
    <3>2. CASE x = r
      BY <1>1, <3>1, <3>2 DEF ReadsInv, Numbered
    <3>3. CASE x # r
      BY <1>1, <3>1, <3>3 DEF ReadsInv, Numbered
    <3> QED BY <3>2, <3>3
  <2>3. \A x \in Readers : reader'[x].pass = 2 => op' = "orders"
    BY <1>1 DEF ReadsInv, Numbered
  <2> QED BY <2>1, <2>2, <2>3 DEF Numbered
<1>4. ASSUME NEW x \in Readers, Alone(x)'
      PROVE  x = r /\ Alone(r) /\ new.pc # "idle"
  <2>1. x \in B!Active /\ x \in B!Active'
    BY <1>2, <1>4 DEF Alone
  <2>2. op \in B!Shared => ~reader[x].crossed
    BY <1>1, <1>4 DEF Alone, B!Shared
  <2>3. Alone(x)
    BY <2>1, <2>2 DEF Alone
  <2>4. x = r
    BY <2>3 DEF ReadsInv, Apart
  <2> QED BY <1>1, <2>1, <2>3, <2>4 DEF B!Active
<1>5. Apart'
  <2>1. op' # "exec" => \A q, x \in B!Active' : q = x
    BY <1>2 DEF ReadsInv, Apart
  <2>2. ASSUME NEW x \in Readers, Alone(x)'
        PROVE  B!Active' = {x} /\ (op' \in B!Shared' => streams' = Own(x)')
    <3>1. x = r /\ Alone(r)
      BY <1>4, <2>2
    <3>2. B!Active' = {r}
      BY <1>2, <2>2, <3>1 DEF ReadsInv, Apart, Alone
    <3>3. op \in B!Shared => \A s \in streams : s.req = new.req
      BY <1>r, <3>1 DEF ReadsInv, Apart, Own
    <3>4. op \in B!Shared => \A s \in streams' : s.req = reader'[r].req
      BY <1>1, <3>3
    <3> QED BY <3>1, <3>2, <3>4 DEF Own, B!Shared
  <2> QED BY <2>1, <2>2 DEF Apart
<1>6. Heard'
  BY <1>4 DEF Heard, HeardOf
<1>7. B!ReadIsWhole'
  <2>1. ASSUME NEW x \in Readers
        PROVE  Answered(x)'
    <3>1. CASE x = r
      BY <1>1, <3>1 DEF Answered, B!Whole, B!Shared
    <3>2. CASE x # r
      <4>1. Answered(x)
        BY DEF ReadsInv, B!ReadIsWhole, Answered
      <4> QED BY <1>1, <3>2, <4>1 DEF Answered, B!Whole, B!Shared
    <3> QED BY <3>1, <3>2
  <2> QED BY <2>1 DEF B!ReadIsWhole, Answered
<1> QED BY <1>3, <1>5, <1>6, <1>7

(* What TWS and the connection do.                                         *)
LEMMA ServerStep ==
    ASSUME ReadsInv, reader' = reader, op' = op, requests' = requests,
           epoch' \in Nat, epoch <= epoch',
           streams' \subseteq StreamRow,
           \A s \in streams' : \E t \in streams : s.req = t.req,
           \A r \in Readers : Alone(r) => HeardOf(r)'
    PROVE  Numbered' /\ Apart' /\ Heard' /\ B!ReadIsWhole'
<1>1. B!Active' = B!Active /\ B!Active \subseteq Readers
  BY DEF B!Active
<1>2. Numbered'
  <2>1. \A s \in streams' : s.req <= requests'
    BY DEF ReadsInv, Numbered
  <2>2. \A x \in B!Active : reader[x].at \in Nat /\ epoch \in Nat
    BY <1>1 DEF ReadsInv, ReadsType, ReaderRow
  <2>3. \A x \in B!Active' : reader'[x].req \in 1 .. requests' /\ reader'[x].at <= epoch'
    BY <1>1, <2>2 DEF ReadsInv, Numbered
  <2> QED BY <2>1, <2>3 DEF ReadsInv, Numbered
<1>3. \A x \in Readers : Alone(x)' <=> Alone(x)
  BY <1>1 DEF Alone, B!Shared
<1>4. Apart'
  <2>1. ASSUME NEW x \in Readers, Alone(x)
        PROVE  B!Active = {x} /\ (op \in B!Shared => streams' = Own(x)')
    BY <2>1 DEF ReadsInv, Apart, Own
  <2> QED BY <1>1, <1>3, <2>1 DEF ReadsInv, Apart, B!Shared
<1>5. Heard'
  BY <1>3 DEF Heard, HeardOf
<1>6. B!ReadIsWhole'
  <2>1. ASSUME NEW x \in Readers
        PROVE  Answered(x)'
    <3>1. Answered(x)
      BY DEF ReadsInv, B!ReadIsWhole, Answered
    <3> QED BY <3>1 DEF Answered, B!Whole, B!Shared
  <2> QED BY <2>1 DEF B!ReadIsWhole, Answered
<1> QED BY <1>2, <1>4, <1>5, <1>6

LEMMA HeardStill ==
    ASSUME NEW r \in Readers, HeardOf(r), reader' = reader, op' = op,
           Own(r)' \subseteq Own(r), ListOf(r)' = ListOf(r),
           \/ epoch' = epoch /\ (Signalled(r)' <=> Signalled(r))
           \/ reader[r].at # epoch'
    PROVE  HeardOf(r)'
<1>1. \A p1, p2 : Came(r, p1, p2)' = Came(r, p1, p2)
  BY DEF Came, Has, ListOf
<1>2. \A p1, p2 : Came(r, p1, p2) => Came(r, p1, p2)'
  BY <1>1
<1> HIDE DEF Came, Signalled, Own
<1>3. Asking(r)'
  BY <1>2 DEF HeardOf, Asking
<1>4. Hearing(r)'
  BY <1>2 DEF HeardOf, Hearing
<1>5. Done(r)'
  BY <1>2 DEF HeardOf, Done
<1> QED BY <1>3, <1>4, <1>5 DEF HeardOf

LEMMA AloneHas ==
    ASSUME ReadsInv, NEW r \in Readers, Alone(r)
    PROVE  /\ reader[r] \in ReaderRow /\ reader[r].req \in 1 .. requests
           /\ reader[r].req \in 1 .. MaxRequests /\ reader[r].pc # "idle"
           /\ B!ListOf(reader[r].req) \in 0 .. MaxRequests
           /\ ListOf(r) \in [B!Items -> Nat] /\ HeardOf(r)
           /\ reader[r].at \in Nat /\ reader[r].at <= epoch
<1>1. reader[r] \in ReaderRow /\ r \in B!Active
  BY DEF ReadsInv, ReadsType, Alone
<1>2. reader[r].req \in 1 .. requests /\ reader[r].at <= epoch
  BY <1>1 DEF ReadsInv, Numbered
<1>3. reader[r].req \in 1 .. MaxRequests
  BY <1>2, ReadsAssumption DEF ReadsInv, ReadsType
<1>4. B!ListOf(reader[r].req) \in 0 .. MaxRequests
  BY <1>3, ReadsAssumption DEF B!ListOf
<1>5. ListOf(r) \in [B!Items -> Nat]
  BY <1>4 DEF ListOf, ReadsInv, ReadsType
<1>6. HeardOf(r)
  BY DEF ReadsInv, Heard, HeardOf
<1> QED BY <1>1, <1>2, <1>3, <1>4, <1>5, <1>6 DEF B!Active, ReaderRow

(* The answer to another request does not reach a handler that is alone.   *)
LEMMA Elsewhere ==
    ASSUME ReadsInv, NEW r \in Readers, Alone(r), NEW s \in streams, s \notin Own(r)
    PROVE  /\ B!ListOf(s.req) = s.req /\ B!EventOf(s.req) = s.req
           /\ B!ListOf(reader[r].req) # s.req /\ B!EventOf(reader[r].req) # s.req
<1>1. op \notin B!Shared
  BY DEF ReadsInv, Apart
<1>2. s.req # reader[r].req
  BY DEF Own
<1> QED BY <1>1, <1>2 DEF B!ListOf, B!EventOf, B!Shared, B!Serial

LEMMA HasMore ==
    ASSUME NEW counts \in [B!Items -> Nat], NEW left, NEW i \in left, NEW a, NEW b,
           i \in B!Items, NEW new, new = [counts EXCEPT ![i] = @ + 1]
    PROVE  /\ i \in a /\ Has(counts, a \ left, {}) => Has(new, a \ (left \ {i}), {})
           /\ i \in b /\ Has(counts, a, b \ left) => Has(new, a, b \ (left \ {i}))
<1>1. \A j \in B!Items : new[j] = (IF j = i THEN counts[j] + 1 ELSE counts[j])
  OBVIOUS
<1>2. ASSUME i \in a, Has(counts, a \ left, {})
      PROVE  Has(new, a \ (left \ {i}), {})
  <2>1. \A j \in B!Items : /\ j # i => (j \in a \ (left \ {i}) <=> j \in a \ left)
                           /\ j = i => j \in a \ (left \ {i}) /\ j \notin a \ left
    BY <1>2
  <2> QED BY <1>1, <1>2, <2>1 DEF Has
<1>3. ASSUME i \in b, Has(counts, a, b \ left)
      PROVE  Has(new, a, b \ (left \ {i}))
  <2>1. \A j \in B!Items : /\ j # i => (j \in b \ (left \ {i}) <=> j \in b \ left)
                           /\ j = i => j \in b \ (left \ {i}) /\ j \notin b \ left
    BY <1>3
  <2> QED BY <1>1, <1>3, <2>1 DEF Has
<1> QED BY <1>2, <1>3

Less(s, i) == [s EXCEPT !.left = @ \ {i}]
More(s, i) == [list EXCEPT ![B!ListOf(s.req)][i] = @ + 1]

LEMMA ItemIs ==
    ASSUME ReadsType, NEW s \in streams, B!Item(s)
    PROVE  \E i \in s.left :
             /\ Less(s, i) \in StreamRow /\ Less(s, i).req = s.req /\ Less(s, i).left = s.left \ {i}
             /\ streams' = (streams \ {s}) \cup {Less(s, i)}
             /\ list' \in [0 .. MaxRequests -> [B!Items -> Nat]]
             /\ \A k \in 0 .. MaxRequests : k # B!ListOf(s.req) => list'[k] = list[k]
             /\ B!Known(s.req) =>
                  list'[B!ListOf(s.req)] = [list[B!ListOf(s.req)] EXCEPT ![i] = @ + 1]
<1>s. s \in StreamRow /\ s.req \in 1 .. MaxRequests /\ s.left \subseteq B!Items
  BY DEF ReadsType, StreamRow
<1>1. PICK i \in s.left : /\ streams' = (streams \ {s}) \cup {Less(s, i)}
                          /\ list' = IF B!Known(s.req) THEN More(s, i) ELSE list
  BY Zenon DEF B!Item, Less, More
<1>2. /\ Less(s, i) \in StreamRow /\ Less(s, i).req = s.req /\ Less(s, i).left = s.left \ {i}
  BY <1>s DEF Less, StreamRow
<1>k. PICK k \in 0 .. MaxRequests : k = B!ListOf(s.req)
  BY <1>s, ReadsAssumption DEF B!ListOf
<1>l. list[k] \in [B!Items -> Nat] /\ list \in [0 .. MaxRequests -> [B!Items -> Nat]]
  BY DEF ReadsType
<1>3. PICK new : new = [list[k] EXCEPT ![i] = @ + 1]
  OBVIOUS
<1>4. new \in [B!Items -> Nat]
  BY <1>s, <1>l, <1>3
<1>5. More(s, i) = [list EXCEPT ![k] = new]
  BY <1>k, <1>l, <1>3 DEF More
<1>6. CASE B!Known(s.req)
  <2>1. list' = [list EXCEPT ![k] = new]
    BY <1>1, <1>5, <1>6
  <2>2. /\ list' \in [0 .. MaxRequests -> [B!Items -> Nat]] /\ list'[k] = new
        /\ \A x \in 0 .. MaxRequests : x # k => list'[x] = list[x]
    BY <2>1, <1>4, <1>l
  <2> QED BY <1>1, <1>2, <1>3, <1>k, <2>2
<1>7. CASE ~B!Known(s.req)
  BY <1>1, <1>2, <1>7, <1>k, <1>l
<1> QED BY <1>6, <1>7

LEMMA ItemKeeps ==
    ASSUME ReadsInv, NEW s \in streams, B!Item(s)
    PROVE  ReadsInv'
<1>t. ReadsType
  BY DEF ReadsInv
<1>u. /\ op' = op /\ reader' = reader /\ events' = events /\ server' = server /\ epoch' = epoch
      /\ cooling' = cooling /\ requests' = requests
  BY DEF B!Item
<1>s. s \in StreamRow
  BY <1>t DEF ReadsType
<1>1. PICK i \in s.left :
        /\ Less(s, i) \in StreamRow /\ Less(s, i).req = s.req /\ Less(s, i).left = s.left \ {i}
        /\ streams' = (streams \ {s}) \cup {Less(s, i)}
        /\ list' \in [0 .. MaxRequests -> [B!Items -> Nat]]
        /\ \A k \in 0 .. MaxRequests : k # B!ListOf(s.req) => list'[k] = list[k]
        /\ B!Known(s.req) =>
             list'[B!ListOf(s.req)] = [list[B!ListOf(s.req)] EXCEPT ![i] = @ + 1]
  BY <1>t, ItemIs
<1>i. i \in B!Items
  BY <1>s DEF StreamRow
<1> PICK less : less = Less(s, i)
  OBVIOUS
<1>2. ReadsType'
  BY <1>1, <1>u, <1>t DEF ReadsType, StreamRow
<1>3. ASSUME NEW r \in Readers, Alone(r)
      PROVE  HeardOf(r)'
  <2>h. /\ reader[r] \in ReaderRow /\ reader[r].req \in 1 .. requests
        /\ B!ListOf(reader[r].req) \in 0 .. MaxRequests
        /\ ListOf(r) \in [B!Items -> Nat] /\ HeardOf(r)
    BY <1>3, AloneHas
  <2>1. CASE s \notin Own(r)
    <3>1. /\ B!ListOf(reader[r].req) # B!ListOf(s.req)
      BY <1>3, <2>1, Elsewhere
    <3>2. ListOf(r)' = ListOf(r)
      BY <1>1, <1>u, <2>h, <3>1 DEF ListOf, B!ListOf, B!Shared
    <3>3. Own(r)' \subseteq Own(r)
      BY <1>1, <1>u, <2>1 DEF Own
    <3>4. Signalled(r)' <=> Signalled(r)
      BY <1>u DEF Signalled, B!EventOf, B!Serial
    <3> QED BY <1>u, <2>h, <3>2, <3>3, <3>4, HeardStill
  <2>2. CASE s \in Own(r)
    <3>1. s.req = reader[r].req /\ Own(r) # {}
      BY <2>2 DEF Own
    <3>2. reader[r].pc = "waiting" /\ r \in B!Active
      BY <1>3, <2>h, <3>1 DEF HeardOf, Asking, Done, Alone, ReaderRow, B!Active
    <3>3. CASE reader[r].at # epoch
      BY <1>u, <3>2, <3>3 DEF HeardOf, Asking, Hearing, Done
    <3>4. CASE reader[r].at = epoch
      <4>1. /\ \A t \in Own(r) : t = s
            /\ ~Signalled(r) /\ s.left \subseteq Book[op][reader[r].pass]
            /\ Came(r, Book[op][1] \ s.left, Book[op][2] \ s.left)
        BY <2>h, <2>2, <3>2, <3>4 DEF HeardOf, Hearing
      <4>2. Own(r)' = {less}
        BY <1>1, <1>u, <3>1, <4>1, <2>2 DEF Own
      <4>3. ~Signalled(r)'
        BY <4>1, <1>u DEF Signalled, B!EventOf, B!Serial
      <4>4. B!Known(s.req)
        BY <3>1, <3>2 DEF B!Known
      <4>5. ListOf(r)' = [ListOf(r) EXCEPT ![i] = @ + 1]
        BY <1>1, <1>u, <3>1, <4>4 DEF ListOf, B!ListOf, B!Shared
      <4>6. less.left = s.left \ {i} /\ less.left \subseteq Book[op][reader[r].pass]
        BY <1>1, <4>1
      <4>7. Came(r, Book[op][1] \ less.left, Book[op][2] \ less.left)'
        <5>1. CASE reader[r].pass = 1
          <6>1. Has(ListOf(r), Book[op][1] \ s.left, {}) /\ i \in Book[op][1]
            BY <4>1, <5>1 DEF Came
          <6>2. PICK new : new = [ListOf(r) EXCEPT ![i] = @ + 1]
            OBVIOUS
          <6>3. Has(new, Book[op][1] \ (s.left \ {i}), {})
            BY <1>i, <2>h, <6>1, <6>2, HasMore
          <6>4. ListOf(r)' = new
            BY <4>5, <6>2
          <6> QED BY <1>u, <4>6, <5>1, <6>3, <6>4 DEF Came, Has
        <5>2. CASE reader[r].pass = 2
          <6>1. Has(ListOf(r), Book[op][1], Book[op][2] \ s.left) /\ i \in Book[op][2]
            BY <4>1, <5>2 DEF Came
          <6>2. PICK new : new = [ListOf(r) EXCEPT ![i] = @ + 1]
            OBVIOUS
          <6>3. Has(new, Book[op][1], Book[op][2] \ (s.left \ {i}))
            BY <1>i, <2>h, <6>1, <6>2, HasMore
          <6>4. ListOf(r)' = new
            BY <4>5, <6>2
          <6> QED BY <1>u, <4>6, <5>2, <6>3, <6>4 DEF Came, Has
        <5> QED BY <2>h, <5>1, <5>2 DEF ReaderRow
      <4>8. Asking(r)' /\ Done(r)'
        BY <1>u, <3>2 DEF Asking, Done
      <4>9. Hearing(r)'
        BY <1>u, <4>2, <4>3, <4>6, <4>7 DEF Hearing
      <4> QED BY <4>8, <4>9 DEF HeardOf
    <3> QED BY <3>3, <3>4
  <2> QED BY <2>1, <2>2
<1>4. streams' \subseteq StreamRow /\ \A x \in streams' : \E t \in streams : x.req = t.req
  BY <1>1, <1>2, <1>t DEF ReadsType
<1>5. epoch' \in Nat /\ epoch <= epoch'
  BY <1>t, <1>u, ReadsAssumption DEF ReadsType
<1> QED BY <1>2, <1>3, <1>4, <1>5, <1>u, ServerStep DEF ReadsInv

LEMMA ItemsEndKeeps ==
    ASSUME ReadsInv, NEW s \in streams, B!ItemsEnd(s)
    PROVE  ReadsInv'
<1>t. ReadsType
  BY DEF ReadsInv
<1>u. /\ op' = op /\ reader' = reader /\ list' = list /\ server' = server /\ epoch' = epoch
      /\ cooling' = cooling /\ requests' = requests /\ streams' = streams \ {s} /\ s.left = {}
      /\ events' = IF B!Known(s.req) THEN events \cup {B!EventOf(s.req)} ELSE events
  BY DEF B!ItemsEnd
<1>s. s.req \in 1 .. MaxRequests
  BY <1>t DEF ReadsType, StreamRow
<1>e. B!EventOf(s.req) \in 0 .. MaxRequests
  BY <1>s, ReadsAssumption DEF B!EventOf
<1>2. ReadsType'
  BY <1>e, <1>u, <1>t DEF ReadsType
<1>3. ASSUME NEW r \in Readers, Alone(r)
      PROVE  HeardOf(r)'
  <2>h. /\ reader[r] \in ReaderRow /\ HeardOf(r)
    BY <1>3, AloneHas
  <2>l. ListOf(r)' = ListOf(r)
    BY <1>u DEF ListOf, B!ListOf, B!Shared
  <2>o. Own(r)' = Own(r) \ {s}
    BY <1>u DEF Own
  <2>1. CASE s \notin Own(r)
    <3>1. B!EventOf(reader[r].req) # B!EventOf(s.req)
      BY <1>3, <2>1, Elsewhere
    <3>2. Signalled(r)' <=> Signalled(r)
      BY <1>u, <3>1 DEF Signalled, B!EventOf, B!Serial
    <3> QED BY <1>u, <2>h, <2>l, <2>o, <3>2, HeardStill
  <2>2. CASE s \in Own(r)
    <3>1. s.req = reader[r].req /\ Own(r) # {}
      BY <2>2 DEF Own
    <3>2. reader[r].pc = "waiting" /\ r \in B!Active
      BY <1>3, <2>h, <3>1 DEF HeardOf, Asking, Done, Alone, ReaderRow, B!Active
    <3>3. CASE reader[r].at # epoch
      BY <1>u, <3>2, <3>3 DEF HeardOf, Asking, Hearing, Done
    <3>4. CASE reader[r].at = epoch
      <4>1. /\ \A t \in Own(r) : t = s
            /\ Came(r, Book[op][1] \ s.left, Book[op][2] \ s.left)
        BY <2>h, <2>2, <3>2, <3>4 DEF HeardOf, Hearing
      <4>2. Own(r)' = {}
        BY <2>o, <4>1
      <4>3. Came(r, Book[op][1], Book[op][2])
        <5>1. Book[op][1] \ s.left = Book[op][1] /\ Book[op][2] \ s.left = Book[op][2]
          BY <1>u
        <5> QED BY <4>1, <5>1
      <4>4. Came(r, Book[op][1], Book[op][2])'
        BY <1>u, <2>l, <4>3 DEF Came, Has
      <4>5. Asking(r)' /\ Done(r)'
        BY <1>u, <3>2 DEF Asking, Done
      <4>6. Hearing(r)'
        BY <1>u, <4>2, <4>4 DEF Hearing
      <4> QED BY <4>5, <4>6 DEF HeardOf
    <3> QED BY <3>3, <3>4
  <2> QED BY <2>1, <2>2
<1>4. streams' \subseteq StreamRow /\ \A x \in streams' : \E t \in streams : x.req = t.req
  BY <1>u, <1>t DEF ReadsType
<1>5. epoch' \in Nat /\ epoch <= epoch'
  BY <1>t, <1>u, ReadsAssumption DEF ReadsType
<1> QED BY <1>2, <1>3, <1>4, <1>5, <1>u, ServerStep DEF ReadsInv

LEMMA ConnectionKeeps ==
    ASSUME ReadsInv, B!Disconnected \/ B!Restored \/ B!CooldownEnds
    PROVE  ReadsInv'
<1>t. ReadsType
  BY DEF ReadsInv
<1>u. /\ op' = op /\ reader' = reader /\ list' = list /\ requests' = requests
      /\ streams' \subseteq streams
      /\ server' \in BOOLEAN /\ cooling' \in BOOLEAN
      /\ \/ epoch < MaxEpoch /\ epoch' = epoch + 1
            /\ events' = events \cup {B!EventOf(q) : q \in 1 .. requests}
         \/ epoch' = epoch /\ events' = events
  BY <1>t DEF B!Disconnected, B!Restored, B!CooldownEnds, ReadsType
<1>e. epoch \in Nat /\ epoch' \in 0 .. MaxEpoch /\ epoch <= epoch' /\ epoch' \in Nat
  BY <1>t, <1>u, ReadsAssumption DEF ReadsType
<1>2. ReadsType'
  <2>1. \A q \in 1 .. requests : B!EventOf(q) \in 0 .. MaxRequests
    BY <1>t, ReadsAssumption DEF B!EventOf, ReadsType
  <2>3. {B!EventOf(q) : q \in 1 .. requests} \subseteq 0 .. MaxRequests
    BY <2>1
  <2>2. events' \subseteq 0 .. MaxRequests
    BY <1>t, <1>u, <2>3 DEF ReadsType
  <2> QED BY <1>t, <1>u, <1>e, <2>2 DEF ReadsType
<1>3. ASSUME NEW r \in Readers, Alone(r)
      PROVE  HeardOf(r)'
  <2>h. reader[r].at \in Nat /\ reader[r].at <= epoch /\ HeardOf(r)
    BY <1>3, AloneHas
  <2>l. ListOf(r)' = ListOf(r)
    BY <1>u DEF ListOf, B!ListOf, B!Shared
  <2>o. Own(r)' \subseteq Own(r)
    BY <1>u DEF Own
  <2>e. \/ epoch' = epoch /\ (Signalled(r)' <=> Signalled(r))
        \/ reader[r].at # epoch'
    BY <1>e, <1>u, <2>h DEF Signalled, B!EventOf, B!Serial
  <2> QED BY <1>u, <2>h, <2>l, <2>o, <2>e, HeardStill
<1>4. streams' \subseteq StreamRow /\ \A x \in streams' : \E y \in streams : x.req = y.req
  BY <1>u, <1>t DEF ReadsType
<1> QED BY <1>2, <1>3, <1>4, <1>e, <1>u, ServerStep DEF ReadsInv

Begun(n, c) == [B!Idle EXCEPT !.pc = "begun", !.req = n, !.crossed = c]
Crossed(x) == [reader[x] EXCEPT !.crossed = TRUE]

LEMMA BegunIs ==
    ASSUME NEW n \in 1 .. MaxRequests, NEW c \in BOOLEAN
    PROVE  /\ Begun(n, c) \in ReaderRow /\ Begun(n, c).pc = "begun" /\ Begun(n, c).req = n
           /\ Begun(n, c).crossed = c /\ Begun(n, c).pass = 1 /\ Begun(n, c).at = 0
<1>1. B!Empty \in [B!Items -> Nat]
  BY DEF B!Empty
<1>2. PICK none \in [B!Items -> Nat] : none = B!Empty
  BY <1>1
<1>3. n \in 0 .. MaxRequests /\ 0 \in 0 .. MaxRequests
  BY ReadsAssumption
<1>4. B!Idle = [pc |-> "idle", req |-> 0, pass |-> 1, at |-> 0, result |-> none,
                ok |-> FALSE, crossed |-> FALSE]
  BY Zenon, <1>2 DEF B!Idle
<1>r. B!Idle \in ReaderRow
  <2>1. PICK zero \in 0 .. MaxRequests : zero = 0
    BY <1>3
  <2>2. 0 \in Nat /\ 1 \in {1, 2} /\ FALSE \in BOOLEAN
    OBVIOUS
  <2>3. [pc |-> "idle", req |-> zero, pass |-> 1, at |-> 0, result |-> none,
         ok |-> FALSE, crossed |-> FALSE] \in ReaderRow
    BY Zenon, <2>2 DEF ReaderRow
  <2> QED BY <1>4, <2>1, <2>3
<1>f. B!Idle.pass = 1 /\ B!Idle.at = 0
  BY <1>4
<1>5. PICK p \in ReaderRow : p = B!Idle /\ p.pass = 1 /\ p.at = 0
  BY <1>r, <1>f
<1>6. Begun(n, c) = [p EXCEPT !.pc = "begun", !.req = n, !.crossed = c]
  BY Zenon, <1>5 DEF Begun
<1> QED BY <1>3, <1>5, <1>6 DEF ReaderRow

LEMMA BeginIs ==
    ASSUME ReadsType, NEW r \in Readers, B!Begin(r)
    PROVE  LET c == streams # {} \/ (op = "exec" /\ B!Active # {}) IN
           /\ requests' = requests + 1 /\ requests' \in 1 .. MaxRequests
           /\ reader' \in [Readers -> ReaderRow] /\ list' \in [0 .. MaxRequests -> [B!Items -> Nat]]
           /\ reader'[r].pc = "begun" /\ reader'[r].req = requests' /\ reader'[r].crossed = c
           /\ reader'[r].pass = 1 /\ reader'[r].at = 0
           /\ \A x \in Readers : x # r =>
                IF op = "exec" /\ x \in B!Active
                THEN /\ reader'[x].crossed /\ reader'[x].pc = reader[x].pc
                     /\ reader'[x].req = reader[x].req /\ reader'[x].pass = reader[x].pass
                     /\ reader'[x].at = reader[x].at
                ELSE reader'[x] = reader[x]
           /\ list'[IF op \in B!Shared THEN 0 ELSE requests'] = B!Empty
<1>1. requests' = requests + 1 /\ requests < MaxRequests
  BY DEF B!Begin
<1>n. requests' \in 1 .. MaxRequests
  BY <1>1, ReadsAssumption DEF ReadsType
<1> PICK n \in 1 .. MaxRequests : n = requests'
  BY <1>n
<1> PICK c \in BOOLEAN : c = (streams # {} \/ (op = "exec" /\ B!Active # {}))
  OBVIOUS
<1>2. reader' = [x \in Readers |-> IF x = r THEN Begun(n, c)
                                   ELSE IF op = "exec" /\ x \in B!Active THEN Crossed(x)
                                   ELSE reader[x]]
  BY Zenon DEF B!Begin, Begun, Crossed
<1>3. /\ Begun(n, c) \in ReaderRow /\ Begun(n, c).pc = "begun" /\ Begun(n, c).req = n
      /\ Begun(n, c).crossed = c /\ Begun(n, c).pass = 1 /\ Begun(n, c).at = 0
  BY BegunIs
<1>4. ASSUME NEW x \in Readers
      PROVE  /\ Crossed(x) \in ReaderRow /\ Crossed(x).crossed /\ Crossed(x).pc = reader[x].pc
             /\ Crossed(x).req = reader[x].req /\ Crossed(x).pass = reader[x].pass
             /\ Crossed(x).at = reader[x].at /\ reader[x] \in ReaderRow
  <2>1. PICK p \in ReaderRow : p = reader[x]
    BY DEF ReadsType
  <2>2. Crossed(x) = [p EXCEPT !.crossed = TRUE]
    BY <2>1 DEF Crossed
  <2> QED BY <2>1, <2>2 DEF ReaderRow
<1>5. reader' \in [Readers -> ReaderRow]
  BY <1>2, <1>3, <1>4
<1>6. reader'[r] = Begun(n, c)
  BY <1>2
<1>7. \A x \in Readers : x # r => reader'[x] = IF op = "exec" /\ x \in B!Active THEN Crossed(x)
                                               ELSE reader[x]
  BY <1>2
<1>8. /\ list' = [list EXCEPT ![IF op \in B!Shared THEN 0 ELSE n] = B!Empty]
      /\ (IF op \in B!Shared THEN 0 ELSE n) \in 0 .. MaxRequests
  <2>1. list' = [list EXCEPT ![B!ListOf(requests')] = B!Empty]
    BY Zenon DEF B!Begin
  <2>2. B!ListOf(requests') = IF op \in B!Shared THEN 0 ELSE n
    BY DEF B!ListOf
  <2>3. (IF op \in B!Shared THEN 0 ELSE n) \in 0 .. MaxRequests
    BY ReadsAssumption
  <2> QED BY <2>1, <2>2, <2>3
<1>9. /\ list' \in [0 .. MaxRequests -> [B!Items -> Nat]]
      /\ list'[IF op \in B!Shared THEN 0 ELSE n] = B!Empty
  BY <1>8 DEF ReadsType, B!Empty
<1> QED BY <1>1, <1>3, <1>4, <1>5, <1>6, <1>7, <1>9

LEMMA BeginKeeps ==
    ASSUME ReadsInv, NEW r \in Readers, B!Begin(r)
    PROVE  ReadsInv'
<1>t. ReadsType
  BY DEF ReadsInv
<1>u. /\ op' = op /\ streams' = streams /\ events' = events /\ server' = server
      /\ epoch' = epoch /\ cooling' = cooling /\ (op # "exec" => B!Active = {})
      /\ reader[r].pc = "idle"
  BY DEF B!Begin, B!MayBegin
<1> PICK c : c = (streams # {} \/ (op = "exec" /\ B!Active # {}))
  OBVIOUS
<1>1. /\ requests' = requests + 1 /\ requests' \in 1 .. MaxRequests
      /\ reader' \in [Readers -> ReaderRow] /\ list' \in [0 .. MaxRequests -> [B!Items -> Nat]]
      /\ reader'[r].pc = "begun" /\ reader'[r].req = requests' /\ reader'[r].crossed = c
      /\ reader'[r].pass = 1 /\ reader'[r].at = 0
      /\ \A x \in Readers : x # r =>
           IF op = "exec" /\ x \in B!Active
           THEN /\ reader'[x].crossed /\ reader'[x].pc = reader[x].pc
                /\ reader'[x].req = reader[x].req /\ reader'[x].pass = reader[x].pass
                /\ reader'[x].at = reader[x].at
           ELSE reader'[x] = reader[x]
      /\ list'[IF op \in B!Shared THEN 0 ELSE requests'] = B!Empty
  BY <1>t, BeginIs
<1>2. ReadsType'
  BY <1>1, <1>u, <1>t DEF ReadsType
<1>n. requests \in Nat /\ epoch \in Nat
  BY <1>t, ReadsAssumption DEF ReadsType
<1>3. B!Active' = B!Active \cup {r}
  BY <1>1 DEF B!Active
<1>4. Numbered'
  <2>1. \A s \in streams' : s.req <= requests'
    <3>1. \A s \in streams : s.req <= requests /\ s.req \in Nat
      BY <1>t DEF ReadsInv, Numbered, ReadsType, StreamRow
    <3> QED BY <3>1, <1>1, <1>n, <1>u
  <2>2. ASSUME NEW x \in B!Active'
        PROVE  reader'[x].req \in 1 .. requests' /\ reader'[x].at <= epoch'
    <3>1. CASE x = r
      BY <3>1, <1>1, <1>n, <1>u
    <3>2. CASE x # r
      <4>1. x \in B!Active /\ x \in Readers
        BY <1>3, <3>2 DEF B!Active
      <4>2. reader[x].req \in 1 .. requests /\ reader[x].at <= epoch
        BY <4>1 DEF ReadsInv, Numbered
      <4>3. reader'[x].req = reader[x].req /\ reader'[x].at = reader[x].at
        BY <1>1, <3>2, <4>1
      <4> QED BY <4>2, <4>3, <1>1, <1>n, <1>u
    <3> QED BY <3>1, <3>2
  <2>3. \A x \in Readers : reader'[x].pass = 2 => op' = "orders"
    BY <1>1, <1>u DEF ReadsInv, Numbered
  <2> QED BY <2>1, <2>2, <2>3 DEF Numbered
<1>5. ASSUME NEW x \in Readers, Alone(x)'
      PROVE  x = r /\ B!Active = {} /\ (op \in B!Shared => streams = {})
  <2>1. x \in B!Active' /\ (op \in B!Shared => ~reader'[x].crossed)
    BY <1>5, <1>u DEF Alone, B!Shared
  <2>2. x = r
    <3> SUFFICES ASSUME x # r
                 PROVE  FALSE
      OBVIOUS
    <3>1. x \in B!Active
      BY <1>3, <2>1
    <3>2. op = "exec"
      BY <1>u, <3>1
    <3> QED BY <1>1, <2>1, <3>1, <3>2 DEF B!Shared
  <2>3. op \in B!Shared => ~c
    BY <1>1, <2>1, <2>2
  <2> QED BY <1>u, <2>2, <2>3 DEF B!Shared
<1>6. ASSUME NEW x \in Readers, Alone(x)'
      PROVE  Own(x)' = {}
  <2>1. x = r
    BY <1>5, <1>6
  <2>2. \A s \in streams : s.req <= requests /\ s.req \in Nat
    BY <1>t DEF ReadsInv, Numbered, ReadsType, StreamRow
  <2> QED BY <1>1, <1>n, <1>u, <2>1, <2>2 DEF Own
<1>7. Apart'
  BY <1>3, <1>5, <1>6, <1>u DEF Apart, B!Shared
<1>8. Heard'
  <2> SUFFICES ASSUME NEW x \in Readers, Alone(x)'
               PROVE  (Asking(x) /\ Hearing(x) /\ Done(x))'
    BY DEF Heard
  <2>1. x = r /\ Own(x)' = {}
    BY <1>5, <1>6
  <2>2. ListOf(x)' = B!Empty
    BY <1>1, <1>u, <2>1 DEF ListOf, B!ListOf, B!Shared
  <2>3. Came(x, {}, {})'
    BY <1>1, <2>1, <2>2 DEF Came, Has, B!Empty
  <2> QED BY <1>1, <2>1, <2>3 DEF Asking, Hearing, Done
<1>9. B!ReadIsWhole'
  <2>1. ASSUME NEW x \in Readers
        PROVE  Answered(x)'
    <3>1. CASE x = r
      BY <1>1, <3>1 DEF Answered
    <3>2. CASE x # r /\ x \in B!Active
      BY <1>1, <3>2 DEF Answered, B!Active
    <3>3. CASE x # r /\ x \notin B!Active
      <4>1. Answered(x)
        BY DEF ReadsInv, B!ReadIsWhole, Answered
      <4>2. reader'[x] = reader[x]
        BY <1>1, <3>3
      <4> QED BY <1>u, <4>1, <4>2 DEF Answered, B!Whole, B!Shared
    <3> QED BY <3>1, <3>2, <3>3
  <2> QED BY <2>1 DEF B!ReadIsWhole, Answered
<1> QED BY <1>2, <1>4, <1>7, <1>8, <1>9 DEF ReadsInv

Waiting(r) == [reader[r] EXCEPT !.pc = "waiting"]
Woke(r) == [reader[r] EXCEPT !.pc = "woken"]
Prepared(r) == [reader[r] EXCEPT !.pc = "prepared", !.at = epoch]
Again(r) == [reader[r] EXCEPT !.pc = "begun", !.pass = 2]
Back(r, ok) == [reader[r] EXCEPT !.pc = "idle", !.ok = ok,
                  !.result = IF ok THEN list[B!ListOf(reader[r].req)] ELSE @]

LEMMA HandlerIs ==
    ASSUME ReadsInv, NEW r \in Readers, reader[r].pc # "idle"
    PROVE  /\ r \in B!Active /\ reader[r] \in ReaderRow /\ reader[r].req \in 1 .. requests
           /\ reader[r].req \in 1 .. MaxRequests /\ reader[r].at \in Nat
           /\ reader[r].at <= epoch /\ epoch \in Nat
           /\ list[B!ListOf(reader[r].req)] \in [B!Items -> Nat]
           /\ B!EventOf(reader[r].req) \in 0 .. MaxRequests
           /\ reader[r].pass = 2 => op = "orders"
<1>1. reader[r] \in ReaderRow /\ r \in B!Active
  BY DEF ReadsInv, ReadsType, B!Active
<1>2. reader[r].req \in 1 .. requests /\ reader[r].at <= epoch
  BY <1>1 DEF ReadsInv, Numbered
<1>3. reader[r].req \in 1 .. MaxRequests /\ epoch \in Nat
  BY <1>2, ReadsAssumption DEF ReadsInv, ReadsType
<1>4. B!ListOf(reader[r].req) \in 0 .. MaxRequests /\ B!EventOf(reader[r].req) \in 0 .. MaxRequests
  BY <1>3, ReadsAssumption DEF B!ListOf, B!EventOf
<1>5. list[B!ListOf(reader[r].req)] \in [B!Items -> Nat]
  BY <1>4 DEF ReadsInv, ReadsType
<1>6. reader[r].pass = 2 => op = "orders"
  BY DEF ReadsInv, Numbered
<1> QED BY <1>1, <1>2, <1>3, <1>4, <1>5, <1>6 DEF ReaderRow

(* The fields a step of a handler leaves.                                  *)
Leaves(new, row) ==
    new \in ReaderRow /\ new.crossed = row.crossed /\ new.req = row.req

LEMMA RowsAre ==
    ASSUME ReadsInv, NEW r \in Readers, reader[r].pc # "idle"
    PROVE  /\ Leaves(Waiting(r), reader[r]) /\ Waiting(r).pc = "waiting"
           /\ Waiting(r).at = reader[r].at /\ Waiting(r).pass = reader[r].pass
           /\ Leaves(Woke(r), reader[r]) /\ Woke(r).pc = "woken"
           /\ Woke(r).at = reader[r].at /\ Woke(r).pass = reader[r].pass
           /\ Leaves(Prepared(r), reader[r]) /\ Prepared(r).pc = "prepared"
           /\ Prepared(r).at = epoch /\ Prepared(r).pass = reader[r].pass
           /\ Leaves(Again(r), reader[r]) /\ Again(r).pc = "begun"
           /\ Again(r).at = reader[r].at /\ Again(r).pass = 2
<1>1. PICK p \in ReaderRow : p = reader[r]
  BY HandlerIs
<1>2. epoch \in Nat
  BY HandlerIs
<1>3. Waiting(r) = [p EXCEPT !.pc = "waiting"]
  BY <1>1 DEF Waiting
<1>4. Woke(r) = [p EXCEPT !.pc = "woken"]
  BY <1>1 DEF Woke
<1>5. Prepared(r) = [p EXCEPT !.pc = "prepared", !.at = epoch]
  BY <1>1 DEF Prepared
<1>6. Again(r) = [p EXCEPT !.pc = "begun", !.pass = 2]
  BY <1>1 DEF Again
<1>7. Leaves(Waiting(r), p) /\ Waiting(r).pc = "waiting"
      /\ Waiting(r).at = p.at /\ Waiting(r).pass = p.pass
  BY <1>3 DEF Leaves, ReaderRow
<1>8. Leaves(Woke(r), p) /\ Woke(r).pc = "woken" /\ Woke(r).at = p.at /\ Woke(r).pass = p.pass
  BY <1>4 DEF Leaves, ReaderRow
<1>9. Leaves(Prepared(r), p) /\ Prepared(r).pc = "prepared"
      /\ Prepared(r).at = epoch /\ Prepared(r).pass = p.pass
  BY <1>2, <1>5 DEF Leaves, ReaderRow
<1>10. Leaves(Again(r), p) /\ Again(r).pc = "begun" /\ Again(r).at = p.at /\ Again(r).pass = 2
  BY <1>6 DEF Leaves, ReaderRow
<1> QED BY <1>1, <1>7, <1>8, <1>9, <1>10

LEMMA BackIs ==
    ASSUME ReadsInv, NEW r \in Readers, reader[r].pc # "idle", NEW ok \in BOOLEAN
    PROVE  /\ Leaves(Back(r, ok), reader[r]) /\ Back(r, ok).pc = "idle" /\ Back(r, ok).ok = ok
           /\ Back(r, ok).at = reader[r].at /\ Back(r, ok).pass = reader[r].pass
           /\ ok => Back(r, ok).result = list[B!ListOf(reader[r].req)]
<1>1. PICK p \in ReaderRow : p = reader[r]
  BY HandlerIs
<1>2. PICK got \in [B!Items -> Nat] :
        got = IF ok THEN list[B!ListOf(reader[r].req)] ELSE reader[r].result
  BY HandlerIs DEF ReaderRow
<1>3. Back(r, ok) = [p EXCEPT !.pc = "idle", !.ok = ok, !.result = got]
  BY <1>1, <1>2 DEF Back
<1>4. Leaves(Back(r, ok), p) /\ Back(r, ok).pc = "idle" /\ Back(r, ok).ok = ok
      /\ Back(r, ok).at = p.at /\ Back(r, ok).pass = p.pass /\ Back(r, ok).result = got
  BY <1>3 DEF Leaves, ReaderRow
<1> QED BY <1>1, <1>2, <1>4

LEMMA PrepareKeeps ==
    ASSUME ReadsInv, NEW r \in Readers, B!Prepare(r)
    PROVE  ReadsInv'
<1>t. ReadsType
  BY DEF ReadsInv
<1>u. /\ op' = op /\ list' = list /\ streams' = streams /\ server' = server
      /\ epoch' = epoch /\ cooling' = cooling /\ requests' = requests
      /\ events' = events \ {B!EventOf(reader[r].req)} /\ reader[r].pc = "begun"
  BY DEF B!Prepare, B!Cleared
<1>h. /\ r \in B!Active /\ reader[r].at <= epoch /\ epoch \in Nat
      /\ reader[r].pass = 2 => op = "orders"
  BY <1>u, HandlerIs
<1>s. B!Set(r, Prepared(r))
  BY Zenon DEF B!Prepare, Prepared
<1> PICK new \in ReaderRow : new = Prepared(r)
  BY <1>u, RowsAre DEF Leaves
<1>1. /\ new.crossed = reader[r].crossed /\ new.req = reader[r].req /\ new.pc = "prepared"
      /\ new.at = epoch /\ new.pass = reader[r].pass
  BY <1>u, RowsAre DEF Leaves
<1>2. B!Set(r, new)
  BY <1>s
<1>3. reader' \in [Readers -> ReaderRow] /\ reader'[r] = new
  BY <1>2, <1>t, ReaderSet
<1>4. ReadsType'
  BY <1>3, <1>t, <1>u DEF ReadsType
<1>5. ASSUME Alone(r)
      PROVE  HeardOf(r)'
  <2>1. Own(r) = {} /\ Came(r, {}, {})
    BY <1>5, <1>u, AloneHas DEF HeardOf, Asking
  <2>2. Own(r)' = {}
    BY <1>1, <1>3, <1>u, <2>1 DEF Own
  <2>3. Came(r, {}, {})'
    BY <1>1, <1>3, <1>u, <2>1 DEF Came, Has, ListOf, B!ListOf, B!Shared
  <2>4. ~Signalled(r)'
    BY <1>1, <1>3, <1>u DEF Signalled, B!EventOf, B!Serial
  <2> QED BY <1>1, <1>3, <2>2, <2>3, <2>4 DEF HeardOf, Asking, Hearing, Done
<1>6. streams' \subseteq StreamRow /\ \A s \in streams' : s \in streams \/ s.req = new.req
  BY <1>t, <1>u DEF ReadsType
<1>7. Numbered' /\ Apart' /\ Heard' /\ B!ReadIsWhole'
  BY <1>1, <1>2, <1>5, <1>6, <1>h, <1>u, ReaderStep
<1> QED BY <1>4, <1>7 DEF ReadsInv

LEMMA RequestKeeps ==
    ASSUME ReadsInv, NEW r \in Readers, B!Request(r)
    PROVE  ReadsInv'
<1>t. ReadsType
  BY DEF ReadsInv
<1>u. /\ op' = op /\ list' = list /\ events' = events /\ server' = server
      /\ epoch' = epoch /\ cooling' = cooling /\ requests' = requests
      /\ reader[r].pc = "prepared"
  BY DEF B!Request
<1>h. /\ r \in B!Active /\ reader[r].at <= epoch /\ epoch \in Nat
      /\ reader[r].pass = 2 => op = "orders"
      /\ reader[r] \in ReaderRow /\ reader[r].req \in 1 .. MaxRequests
  BY <1>u, HandlerIs
<1>s. B!Set(r, Waiting(r))
  BY Zenon DEF B!Request, Waiting
<1> PICK new \in ReaderRow : new = Waiting(r)
  BY <1>u, RowsAre DEF Leaves
<1>1. /\ new.crossed = reader[r].crossed /\ new.req = reader[r].req /\ new.pc = "waiting"
      /\ new.at = reader[r].at /\ new.pass = reader[r].pass
  BY <1>u, RowsAre DEF Leaves
<1>2. B!Set(r, new)
  BY <1>s
<1>3. reader' \in [Readers -> ReaderRow] /\ reader'[r] = new
  BY <1>2, <1>t, ReaderSet
<1>a. PICK asked : asked = [req |-> reader[r].req, left |-> Book[op][reader[r].pass]]
  OBVIOUS
<1>b. asked \in StreamRow /\ asked.req = reader[r].req /\ asked.left = Book[op][reader[r].pass]
  <2>1. Book[op][1] \subseteq B!Items /\ Book[op][2] \subseteq B!Items
    BY <1>t, BookIs DEF ReadsType
  <2>2. Book[op][reader[r].pass] \subseteq B!Items
    BY <1>h, <2>1 DEF ReaderRow
  <2> QED BY <1>a, <1>h, <2>2 DEF StreamRow
<1>c. streams' = streams \cup {asked} \/ streams' = streams
  BY <1>a DEF B!Request
<1>6. streams' \subseteq StreamRow /\ \A s \in streams' : s \in streams \/ s.req = new.req
  BY <1>1, <1>b, <1>c, <1>t DEF ReadsType
<1>4. ReadsType'
  BY <1>3, <1>6, <1>t, <1>u DEF ReadsType
<1>5. ASSUME Alone(r)
      PROVE  HeardOf(r)'
  <2>1. Own(r) = {} /\ Came(r, {}, {}) /\ (reader[r].at = epoch => ~Signalled(r))
    BY <1>5, <1>u, AloneHas DEF HeardOf, Asking
  <2>2. \A s \in Own(r)' : s = asked
    BY <1>1, <1>3, <1>c, <2>1 DEF Own
  <2>3. Came(r, Book[op][1] \ asked.left, Book[op][2] \ asked.left)
    BY <1>b, <1>h, <2>1 DEF Came, Has, ReaderRow
  <2>4. Came(r, Book[op][1] \ asked.left, Book[op][2] \ asked.left)'
    BY <1>1, <1>3, <1>u, <2>3 DEF Came, Has, ListOf, B!ListOf, B!Shared
  <2>5. reader[r].at = epoch => ~Signalled(r)'
    BY <1>1, <1>3, <1>u, <2>1 DEF Signalled, B!EventOf, B!Serial
  <2>6. Hearing(r)'
    <3>1. asked.left \subseteq (Book[op][reader[r].pass])'
      BY <1>1, <1>3, <1>b, <1>u
    <3> QED BY <1>1, <1>3, <1>u, <2>2, <2>4, <2>5, <3>1 DEF Hearing
  <2> QED BY <1>1, <1>3, <2>6 DEF HeardOf, Asking, Done
<1>7. Numbered' /\ Apart' /\ Heard' /\ B!ReadIsWhole'
  BY <1>1, <1>2, <1>5, <1>6, <1>h, <1>u, ReaderStep
<1> QED BY <1>4, <1>7 DEF ReadsInv

LEMMA WokenKeeps ==
    ASSUME ReadsInv, NEW r \in Readers, B!Woken(r)
    PROVE  ReadsInv'
<1>t. ReadsType
  BY DEF ReadsInv
<1>u. /\ op' = op /\ list' = list /\ events' = events /\ server' = server
      /\ epoch' = epoch /\ cooling' \in BOOLEAN /\ requests' = requests
      /\ streams' = streams /\ reader[r].pc = "waiting"
      /\ B!EventOf(reader[r].req) \in events /\ reader[r].at = epoch
  BY DEF B!Woken, B!SameEpoch
<1>h. /\ r \in B!Active /\ reader[r].at <= epoch /\ epoch \in Nat
      /\ reader[r].pass = 2 => op = "orders"
      /\ reader[r] \in ReaderRow
  BY <1>u, HandlerIs
<1>6. streams' \subseteq StreamRow
  BY <1>t, <1>u DEF ReadsType
<1>5. ASSUME Alone(r)
      PROVE  Own(r) = {} /\ Came(r, Book[op][1], Book[op][2])
  BY <1>5, <1>u, AloneHas DEF HeardOf, Hearing, Signalled
<1>8. CASE op = "orders" /\ reader[r].pass = 1
  <2>s. B!Set(r, Again(r))
    BY Zenon, <1>8 DEF B!Woken, Again
  <2> PICK new \in ReaderRow : new = Again(r)
    BY <1>u, RowsAre DEF Leaves
  <2>1. /\ new.crossed = reader[r].crossed /\ new.req = reader[r].req /\ new.pc = "begun"
        /\ new.at = reader[r].at /\ new.pass = 2
    BY <1>u, RowsAre DEF Leaves
  <2>2. B!Set(r, new)
    BY <2>s
  <2>3. reader' \in [Readers -> ReaderRow] /\ reader'[r] = new
    BY <2>2, <1>t, ReaderSet
  <2>4. ReadsType'
    BY <2>3, <1>t, <1>u DEF ReadsType
  <2>5. ASSUME Alone(r)
        PROVE  HeardOf(r)'
    <3>1. Own(r)' = {}
      BY <1>5, <1>u, <2>1, <2>3, <2>5 DEF Own
    <3>2. Has(ListOf(r), Book[op][1], {})
      BY <1>5, <1>8, <2>5 DEF Came, Has
    <3>3. Came(r, {}, {})'
      BY <1>u, <2>1, <2>3, <3>2 DEF Came, Has, ListOf, B!ListOf, B!Shared
    <3> QED BY <2>1, <2>3, <3>1, <3>3 DEF HeardOf, Asking, Hearing, Done
  <2>7. Numbered' /\ Apart' /\ Heard' /\ B!ReadIsWhole'
    BY <1>6, <1>8, <1>h, <1>u, <2>1, <2>2, <2>5, ReaderStep
  <2> QED BY <2>4, <2>7 DEF ReadsInv
<1>9. CASE ~(op = "orders" /\ reader[r].pass = 1)
  <2>s. B!Set(r, Woke(r))
    BY Zenon, <1>9 DEF B!Woken, Woke
  <2> PICK new \in ReaderRow : new = Woke(r)
    BY <1>u, RowsAre DEF Leaves
  <2>1. /\ new.crossed = reader[r].crossed /\ new.req = reader[r].req /\ new.pc = "woken"
        /\ new.at = reader[r].at /\ new.pass = reader[r].pass
    BY <1>u, RowsAre DEF Leaves
  <2>2. B!Set(r, new)
    BY <2>s
  <2>3. reader' \in [Readers -> ReaderRow] /\ reader'[r] = new
    BY <2>2, <1>t, ReaderSet
  <2>4. ReadsType'
    BY <2>3, <1>t, <1>u DEF ReadsType
  <2>5. ASSUME Alone(r)
        PROVE  HeardOf(r)'
    <3>1. Own(r)' = {}
      BY <1>5, <1>u, <2>1, <2>3, <2>5 DEF Own
    <3>2. Came(r, Book[op][1], Book[op][2])'
      BY <1>5, <1>u, <2>1, <2>3, <2>5 DEF Came, Has, ListOf, B!ListOf, B!Shared
    <3>3. op = "orders" => reader[r].pass = 2
      BY <1>9, <1>h DEF ReaderRow
    <3> QED BY <1>u, <2>1, <2>3, <3>1, <3>2, <3>3 DEF HeardOf, Asking, Hearing, Done
  <2>7. Numbered' /\ Apart' /\ Heard' /\ B!ReadIsWhole'
    BY <1>6, <1>h, <1>u, <2>1, <2>2, <2>5, ReaderStep
  <2> QED BY <2>4, <2>7 DEF ReadsInv
<1> QED BY <1>8, <1>9

LEMMA EndedKeeps ==
    ASSUME ReadsInv, NEW r \in Readers, NEW ok \in BOOLEAN, reader[r].pc # "idle",
           B!Ended(r, ok), ok => reader[r].pc = "woken",
           op' = op, list' = list, events' = events, server' = server, epoch' = epoch,
           requests' = requests, cooling' \in BOOLEAN
    PROVE  ReadsInv'
<1>t. ReadsType
  BY DEF ReadsInv
<1>h. /\ r \in B!Active /\ reader[r].at <= epoch /\ epoch \in Nat
      /\ reader[r].pass = 2 => op = "orders"
      /\ reader[r] \in ReaderRow /\ list[B!ListOf(reader[r].req)] \in [B!Items -> Nat]
  BY HandlerIs
<1>s. B!Set(r, Back(r, ok))
  BY Zenon DEF B!Ended, Back
<1> PICK new \in ReaderRow : new = Back(r, ok)
  BY BackIs DEF Leaves
<1>1. /\ new.crossed = reader[r].crossed /\ new.req = reader[r].req /\ new.pc = "idle"
      /\ new.at = reader[r].at /\ new.pass = reader[r].pass /\ new.ok = ok
      /\ ok => new.result = list[B!ListOf(reader[r].req)]
  BY BackIs DEF Leaves
<1>2. B!Set(r, new)
  BY <1>s
<1>3. reader' \in [Readers -> ReaderRow]
  BY <1>2, <1>t, ReaderSet
<1>c. streams' \subseteq streams
  BY DEF B!Ended
<1>6. streams' \subseteq StreamRow /\ \A s \in streams' : s \in streams \/ s.req = new.req
  BY <1>c, <1>t DEF ReadsType
<1>4. ReadsType'
  BY <1>3, <1>6, <1>t DEF ReadsType
<1>5. ASSUME ok
      PROVE  B!Whole(new.result) \/ (new.crossed /\ op \in B!Shared)
  <2>1. CASE ~Alone(r)
    BY <1>1, <1>h, <2>1 DEF Alone
  <2>2. CASE Alone(r)
    <3>1. Came(r, Book[op][1], Book[op][2]) /\ (op = "orders" => reader[r].pass = 2)
      BY <1>5, <2>2, AloneHas DEF HeardOf, Done
    <3>2. op # "orders" => reader[r].pass = 1 /\ Book[op][2] = {}
      BY <1>h, <1>t, BookIs DEF ReadsType, ReaderRow
    <3>3. Has(ListOf(r), Book[op][1], Book[op][2])
      BY <3>1, <3>2 DEF Came, Has
    <3>4. new.result = ListOf(r)
      BY <1>1, <1>5 DEF ListOf
    <3>5. new.result \in [B!Items -> Nat]
      BY <1>h, <3>4 DEF ListOf
    <3> QED BY <3>3, <3>4, <3>5 DEF Has, B!Whole
  <2> QED BY <2>1, <2>2
<1>7. Numbered' /\ Apart' /\ Heard' /\ B!ReadIsWhole'
  BY <1>1, <1>2, <1>5, <1>6, <1>h, ReaderStep
<1> QED BY <1>4, <1>7 DEF ReadsInv

LEMMA ReadsInitially ==
    ASSUME B!Init
    PROVE  ReadsInv
<1>1. B!Empty \in [B!Items -> Nat]
  BY DEF B!Empty
<1>2. \A r \in Readers : reader[r] = B!Idle
  BY DEF B!Init
<1>3. B!Idle \in ReaderRow /\ B!Idle.pc = "idle" /\ B!Idle.pass = 1 /\ ~B!Idle.ok
  <2>1. PICK none \in [B!Items -> Nat] : none = B!Empty
    BY <1>1
  <2>2. PICK zero \in 0 .. MaxRequests : zero = 0
    BY ReadsAssumption
  <2>3. 0 \in Nat /\ 1 \in {1, 2} /\ FALSE \in BOOLEAN
    OBVIOUS
  <2>4. PICK idle : idle = [pc |-> "idle", req |-> zero, pass |-> 1, at |-> 0,
                            result |-> none, ok |-> FALSE, crossed |-> FALSE]
    OBVIOUS
  <2>5. idle \in ReaderRow
    BY Zenon, <2>3, <2>4 DEF ReaderRow
  <2>6. idle.pc = "idle" /\ idle.pass = 1 /\ ~idle.ok
    BY <2>4
  <2>7. idle = B!Idle
    BY Zenon, <2>1, <2>2, <2>4 DEF B!Idle
  <2> QED BY <2>5, <2>6, <2>7
<1>4. reader \in [Readers -> ReaderRow]
  <2>1. reader = [r \in Readers |-> B!Idle]
    BY DEF B!Init
  <2> QED BY <1>3, <2>1
<1>5. list \in [0 .. MaxRequests -> [B!Items -> Nat]]
  <2>1. list = [k \in 0 .. MaxRequests |-> B!Empty]
    BY DEF B!Init
  <2> QED BY <1>1, <2>1
<1>u. /\ op \in Operations /\ streams = {} /\ events = {} /\ server = TRUE /\ epoch = 0
      /\ cooling = FALSE /\ requests = 0
  BY DEF B!Init
<1>6. ReadsType
  <2>1. server \in BOOLEAN /\ cooling \in BOOLEAN
    BY Zenon, <1>u
  <2>2. epoch \in 0 .. MaxEpoch /\ requests \in 0 .. MaxRequests
    BY <1>u, ReadsAssumption
  <2>3. events \subseteq 0 .. MaxRequests /\ streams \subseteq StreamRow
    BY <1>u
  <2> QED BY Zenon, <1>4, <1>5, <1>u, <2>1, <2>2, <2>3 DEF ReadsType
<1>7. B!Active = {} /\ streams = {}
  BY <1>2, <1>3 DEF B!Active, B!Init
<1>8. Numbered /\ Apart /\ Heard
  BY <1>2, <1>3, <1>7 DEF Numbered, Apart, Heard, Alone
<1>9. B!ReadIsWhole
  BY <1>2, <1>3 DEF B!ReadIsWhole
<1> QED BY <1>6, <1>8, <1>9 DEF ReadsInv

LEMMA ReadsStep ==
    ASSUME ReadsInv, B!Next
    PROVE  ReadsInv'
<1>1. ASSUME NEW r \in Readers, B!Return(r) \/ B!Interrupted(r) \/ B!TimesOut(r)
      PROVE  ReadsInv'
  <2>1. /\ op' = op /\ list' = list /\ events' = events /\ server' = server
        /\ epoch' = epoch /\ requests' = requests /\ cooling' \in BOOLEAN
        /\ reader[r].pc # "idle"
    BY <1>1 DEF B!Return, B!Interrupted, B!TimesOut, ReadsInv, ReadsType
  <2>2. PICK ok \in BOOLEAN : B!Ended(r, ok) /\ (ok => reader[r].pc = "woken")
    BY <1>1 DEF B!Return, B!Interrupted, B!TimesOut
  <2> QED BY <2>1, <2>2, EndedKeeps
<1>2. ASSUME NEW r \in Readers, B!Begin(r) \/ B!Prepare(r) \/ B!Request(r) \/ B!Woken(r)
      PROVE  ReadsInv'
  BY <1>2, BeginKeeps, PrepareKeeps, RequestKeeps, WokenKeeps
<1>3. ASSUME NEW s \in streams, B!Item(s) \/ B!ItemsEnd(s)
      PROVE  ReadsInv'
  BY <1>3, ItemKeeps, ItemsEndKeeps
<1>4. ASSUME B!Disconnected \/ B!Restored \/ B!CooldownEnds
      PROVE  ReadsInv'
  BY <1>4, ConnectionKeeps
<1> QED BY Zenon, <1>1, <1>2, <1>3, <1>4 DEF B!Next

LEMMA ReadsStutter ==
    ASSUME ReadsInv, UNCHANGED bVars
    PROVE  ReadsInv'
<1>1. /\ op' = op /\ list' = list /\ reader' = reader /\ streams' = streams /\ events' = events
      /\ server' = server /\ epoch' = epoch /\ cooling' = cooling /\ requests' = requests
  BY DEF bVars
<1>2. ReadsType' /\ Numbered'
  BY <1>1 DEF ReadsInv, ReadsType, Numbered, B!Active
<1>3. Apart'
  BY <1>1 DEF ReadsInv, Apart, Alone, Own, B!Active, B!Shared
<1>4. Heard' /\ B!ReadIsWhole'
  <2>1. ASSUME NEW r \in Readers, Alone(r)
        PROVE  HeardOf(r)'
    <3>1. HeardOf(r)
      BY <2>1, AloneHas
    <3>2. /\ Own(r)' \subseteq Own(r) /\ ListOf(r)' = ListOf(r)
          /\ epoch' = epoch /\ (Signalled(r)' <=> Signalled(r))
      BY <1>1 DEF Own, ListOf, Signalled, B!ListOf, B!EventOf, B!Shared, B!Serial
    <3> QED BY <1>1, <3>1, <3>2, HeardStill
  <2>2. epoch' \in Nat /\ epoch <= epoch'
    BY <1>1, ReadsAssumption DEF ReadsInv, ReadsType
  <2>3. streams' \subseteq StreamRow /\ \A s \in streams' : \E t \in streams : s.req = t.req
    BY <1>1 DEF ReadsInv, ReadsType
  <2> QED BY <1>1, <2>1, <2>2, <2>3, ServerStep
<1> QED BY <1>2, <1>3, <1>4 DEF ReadsInv

LEMMA ReadsGive ==
    ASSUME ReadsInv
    PROVE  B!TypeOK /\ B!ReadIsWhole
<1>1. B!TypeOK
  BY DEF ReadsInv, ReadsType, B!TypeOK, StreamRow, ReaderRow
<1> QED BY <1>1 DEF ReadsInv

\* A read of the bridge that succeeds returns all that TWS answered to the
\* operation, each item once, whatever other reads, reconnections and late
\* answers do meanwhile.
THEOREM ReadsAreWhole == Spec => []ReadIsWhole
<1>1. Init => ReadsInv
  BY ReadsInitially DEF Init
<1>2. ReadsInv /\ [Next]_vars => ReadsInv'
  <2> SUFFICES ASSUME ReadsInv, [Next]_vars
               PROVE  ReadsInv'
    OBVIOUS
  <2>1. B!Next \/ UNCHANGED bVars
    BY Zenon DEF Next, vars
  <2> QED BY <2>1, ReadsStep, ReadsStutter
<1>3. ReadsInv => ReadIsWhole
  BY ReadsGive DEF ReadIsWhole
<1> QED BY <1>1, <1>2, <1>3, PTL DEF Spec

(***************************************************************************)
(* Strategies: their rows, their revisions and the scan.                   *)
(***************************************************************************)
RowType == [mode : S!Modes, risk : S!Risks, known : BOOLEAN, bulk : BOOLEAN, limit : S!Risks]
Maybe(T) == T \cup {None}
JobType == [kind : {"none", "create", "update", "rollback", "delete", "seed", "promote"},
            slot : Maybe(S!Slots), era : Nat, old : Maybe(RowType), new : Maybe(RowType),
            number : Nat, inserts : SUBSET S!Slots, autos : SUBSET S!Slots,
            eras : Maybe([S!Slots -> Nat]), stale : BOOLEAN]
RevisionType == [slot : S!Slots, era : Nat, number : Nat, mode : S!Modes, risk : S!Risks]
ItemType == [pc : {"idle", "approved", "checked", "ordered"}, slot : Maybe(S!Slots),
             on : Maybe(Profiles)]
StrategiesType ==
    /\ state \in [Profiles -> {"ready", "offline", "disabled"}]
    /\ ceiling \in S!Risks /\ era \in [S!Slots -> 0 .. MaxEras]
    /\ rows \in [S!Slots -> Maybe(RowType)]
    /\ revisions \subseteq RevisionType
    /\ job \in [Jobs -> JobType] /\ scan \in ItemType

(* The revisions of a row are numbered from 1, and none is of a row to come. *)
Under(s, e) == {r \in revisions : r.slot = s /\ r.era = e}
Numbers(s, e) == {r.number : r \in Under(s, e)}
Consecutive == \A s \in S!Slots, e \in Nat : \E m \in Nat : Numbers(s, e) = 1 .. m
NotAhead == \A r \in revisions : r.era <= era[r.slot]

Sound(s, row) == /\ row.risk <= row.limit
                 /\ row.bulk /\ row.mode = "AUTO_TRADE" => s[1] \in Certified
RowsAreSound == \A s \in S!Slots : rows[s] # None => Sound(s, rows[s])

(* What a request knows of its row, and what it is about to write.         *)
Single == {"create", "update", "rollback", "delete"}
Revising == {"update", "rollback", "delete"}
Editing == {"update", "rollback"}
JobIsSound(j) ==
    /\ j.kind \in Single => j.slot \in S!Slots /\ j.new \in RowType /\ j.new.risk <= j.new.limit
    /\ j.kind = "create" => ~j.new.bulk
    /\ j.kind \in Revising => /\ j.old \in RowType /\ j.era <= era[j.slot]
                              /\ j.number # 0 => 1 .. (j.number - 1) \subseteq Numbers(j.slot, j.era)
    /\ j.kind \in Editing /\ ~j.stale => rows[j.slot] = j.old
    /\ j.kind = "promote" => \A s \in j.inserts : s[1] \in Certified
    /\ j.kind \in {"seed", "promote"} => \A s \in j.autos : s[1] \in Certified
JobsAreSound == \A j \in Jobs : JobIsSound(job[j])

ScanIsSound ==
    /\ scan.pc \in {"checked", "ordered"} => S!Trading(rows, scan.slot[2]) \subseteq wanted
    /\ scan.pc = "ordered" => scan.on \in wanted /\ scan.on \in Certified

StrategiesInv == /\ StrategiesType /\ Consecutive /\ NotAhead /\ S!NumbersAreUnique
                 /\ S!HistoryTellsRow /\ RowsAreSound /\ JobsAreSound /\ ScanIsSound

LEMMA Least ==
    ASSUME NEW T, T \subseteq Nat, T # {}
    PROVE  \E x \in T : \A y \in T : x <= y
<1>1. \E x \in T : \A y \in T : <<y, x>> \notin OpToRel(<, Nat)
  BY NatLessThanWellFounded, WFMin
<1>2. PICK x \in T : \A y \in T : <<y, x>> \notin OpToRel(<, Nat)
  BY <1>1
<1>3. ASSUME NEW y \in T
      PROVE  x <= y
  <2>1. x \in Nat /\ y \in Nat /\ <<y, x>> \in Nat \X Nat
    BY <1>3
  <2>2. ~(y < x)
    BY <1>2, <2>1 DEF OpToRel
  <2> QED BY <2>1, <2>2
<1> QED BY <1>2, <1>3

LEMMA RouteIs == ASSUME S!Route # 0
                 PROVE  S!Route \in Profiles
<1> DEFINE able == {p \in Profiles : state[p] = "ready"}
<1>1. able # {} /\ able \subseteq Nat
  BY StrategiesAssumption DEF S!Route
<1>2. \E p \in able : \A q \in able : p <= q
  BY <1>1, Least
<1>3. S!Route = CHOOSE p \in able : \A q \in able : p <= q
  BY <1>1 DEF S!Route
<1> HIDE DEF able
<1>4. S!Route \in able
  BY <1>2, <1>3
<1> QED BY <1>4 DEF able

LEMMA BoundsAre == ceiling \in S!Risks => ceiling \in Nat /\ 1 \in S!Risks
  BY StrategiesAssumption DEF S!Risks

LEMMA SlotIs == \A s \in S!Slots : s[1] \in Profiles /\ s[2] \in Traded /\ s = <<s[1], s[2]>>
  BY DEF S!Slots

Tells(s) == rows[s] # None /\ rows[s].known =>
    \E r \in Under(s, era[s]) : /\ r.mode = rows[s].mode /\ r.risk = rows[s].risk
                                /\ \A x \in Under(s, era[s]) : x.number <= r.number

LEMMA TellsIs == S!HistoryTellsRow <=> \A s \in S!Slots : Tells(s)
<1>1. ASSUME NEW s \in S!Slots
      PROVE  Tells(s) <=> (rows[s] # None /\ rows[s].known =>
               \E r \in revisions : /\ r.slot = s /\ r.era = era[s]
                                    /\ r.mode = rows[s].mode /\ r.risk = rows[s].risk
                                    /\ \A x \in revisions : x.slot = s /\ x.era = era[s]
                                          => x.number <= r.number)
  BY Zenon DEF Tells, Under
<1> QED BY Zenon, <1>1 DEF S!HistoryTellsRow

LEMMA TellsNext == (\A s \in S!Slots : Tells(s)') => S!HistoryTellsRow'
<1>1. ASSUME NEW s \in S!Slots
      PROVE  Tells(s)' <=> (rows'[s] # None /\ rows'[s].known =>
               \E r \in revisions' : /\ r.slot = s /\ r.era = era'[s]
                                     /\ r.mode = rows'[s].mode /\ r.risk = rows'[s].risk
                                     /\ \A x \in revisions' : x.slot = s /\ x.era = era'[s]
                                           => x.number <= r.number)
  BY Zenon DEF Tells, Under
<1> QED BY Zenon, <1>1 DEF S!HistoryTellsRow

LEMMA IdleIs == /\ S!Idle \in JobType /\ S!Idle.kind = "none" /\ S!Idle.number = 0
                /\ ~S!Idle.stale /\ S!Idle.autos = {}
<1>1. S!Idle = [kind |-> "none", slot |-> None, era |-> 0, old |-> None, new |-> None,
                number |-> 0, inserts |-> {}, autos |-> {}, eras |-> None, stale |-> FALSE]
  BY Zenon DEF S!Idle
<1>2. 0 \in Nat /\ FALSE \in BOOLEAN /\ {} \in SUBSET S!Slots /\ \A T : None \in Maybe(T)
  BY DEF Maybe
<1>3. [kind |-> "none", slot |-> None, era |-> 0, old |-> None, new |-> None,
       number |-> 0, inserts |-> {}, autos |-> {}, eras |-> None, stale |-> FALSE] \in JobType
  BY Zenon, <1>2 DEF JobType
<1>4. S!Idle \in JobType
  BY <1>1, <1>3
<1>5. S!Idle.kind = "none" /\ S!Idle.number = 0 /\ ~S!Idle.stale /\ S!Idle.autos = {}
  BY Zenon, <1>1
<1> QED BY <1>4, <1>5

(* A request that reads changes its own record alone.                      *)
LEMMA JobStep ==
    ASSUME StrategiesInv, NEW j \in Jobs, NEW new \in JobType, JobIsSound(new),
           job' = [job EXCEPT ![j] = new],
           state' = state, ceiling' = ceiling, rows' = rows, era' = era,
           revisions' = revisions, scan' = scan, wanted' = wanted
    PROVE  StrategiesInv'
<1>1. job' \in [Jobs -> JobType] /\ \A i \in Jobs : job'[i] = IF i = j THEN new ELSE job[i]
  BY DEF StrategiesInv, StrategiesType
<1>2. StrategiesType'
  BY <1>1 DEF StrategiesInv, StrategiesType
<1>3. \A s, e : Numbers(s, e)' = Numbers(s, e)
  BY DEF Numbers, Under
<1>4. Consecutive' /\ NotAhead' /\ S!NumbersAreUnique' /\ RowsAreSound'
  BY <1>3 DEF StrategiesInv, Consecutive, NotAhead, S!NumbersAreUnique, RowsAreSound
<1>5. S!HistoryTellsRow'
  BY DEF StrategiesInv, S!HistoryTellsRow
<1>6. ScanIsSound'
  BY DEF StrategiesInv, ScanIsSound, S!Trading
<1>7. JobsAreSound'
  <2>1. ASSUME NEW i \in Jobs
        PROVE  JobIsSound(job'[i])
    BY <1>1 DEF StrategiesInv, JobsAreSound
  <2>2. ASSUME NEW x, JobIsSound(x)
        PROVE  JobIsSound(x)'
    BY <1>3, <2>2 DEF JobIsSound
  <2>3. ASSUME NEW i \in Jobs
        PROVE  JobIsSound(job[i])'
    <3>1. PICK x : x = job'[i]
      OBVIOUS
    <3>2. JobIsSound(x)'
      BY <2>1, <2>2, <3>1
    <3> QED BY <3>1, <3>2 DEF JobIsSound, Numbers, Under
  <2> QED BY <2>3 DEF JobsAreSound
<1> QED BY <1>2, <1>4, <1>5, <1>6, <1>7 DEF StrategiesInv

Creation(s, row) == [S!Idle EXCEPT !.kind = "create", !.slot = s, !.era = era[s] + 1, !.new = row]
Seeding(places) == [S!Idle EXCEPT !.kind = "seed", !.inserts = places]
Promotion(places, chosen) ==
    [S!Idle EXCEPT !.kind = "promote", !.inserts = places, !.autos = chosen, !.eras = era]

LEMMA RowIs ==
    ASSUME NEW m \in S!Modes, NEW k \in S!Risks, NEW lim \in S!Risks
    PROVE  LET row == S!Row(m, k, lim) IN
           /\ row \in RowType /\ row.mode = m /\ row.risk = k /\ row.limit = lim
           /\ ~row.bulk /\ ~row.known
  BY DEF S!Row, RowType

LEMMA RequestsAre ==
    ASSUME StrategiesType, NEW s \in S!Slots, NEW row \in RowType, NEW kind \in Single
    PROVE  /\ Creation(s, row) \in JobType /\ Creation(s, row).kind = "create"
           /\ Creation(s, row).slot = s /\ Creation(s, row).new = row
           /\ rows[s] # None =>
                /\ S!Loaded(kind, s, row) \in JobType /\ S!Loaded(kind, s, row).kind = kind
                /\ S!Loaded(kind, s, row).slot = s /\ S!Loaded(kind, s, row).new = row
                /\ S!Loaded(kind, s, row).old = rows[s] /\ S!Loaded(kind, s, row).era = era[s]
                /\ S!Loaded(kind, s, row).number = 0
<1>1. PICK p \in JobType : p = S!Idle /\ p.number = 0
  BY IdleIs
<1>2. era[s] \in Nat /\ era[s] + 1 \in Nat /\ rows[s] \in Maybe(RowType)
  BY StrategiesAssumption DEF StrategiesType
<1>3. Creation(s, row) = [p EXCEPT !.kind = "create", !.slot = s, !.era = era[s] + 1, !.new = row]
  BY <1>1 DEF Creation
<1>4. S!Loaded(kind, s, row) = [p EXCEPT !.kind = kind, !.slot = s, !.era = era[s],
                                         !.old = rows[s], !.new = row]
  BY <1>1 DEF S!Loaded
<1>7. /\ Creation(s, row) \in JobType /\ Creation(s, row).kind = "create"
      /\ Creation(s, row).slot = s /\ Creation(s, row).new = row
  BY <1>1, <1>2, <1>3, ZenonT(60) DEF JobType, Maybe
<1>8. rows[s] # None =>
         /\ S!Loaded(kind, s, row) \in JobType /\ S!Loaded(kind, s, row).kind = kind
         /\ S!Loaded(kind, s, row).slot = s /\ S!Loaded(kind, s, row).new = row
         /\ S!Loaded(kind, s, row).old = rows[s] /\ S!Loaded(kind, s, row).era = era[s]
         /\ S!Loaded(kind, s, row).number = 0
  BY <1>1, <1>2, <1>4 DEF JobType, Maybe, Single
<1> QED BY <1>7, <1>8

(* A request for one row that a user has read.                             *)
LEMMA LoadedKeeps ==
    ASSUME StrategiesInv, NEW j \in Jobs, NEW s \in S!Slots, NEW kind \in Revising,
           NEW row \in RowType, rows[s] # None, row.risk <= row.limit,
           S!Begin(j, S!Loaded(kind, s, row))
    PROVE  StrategiesInv'
<1>t. StrategiesType
  BY DEF StrategiesInv
<1>k. kind \in Single
  BY DEF Single, Revising
<1>1. PICK new \in JobType : new = S!Loaded(kind, s, row)
  BY <1>t, <1>k, RequestsAre
<1>2. /\ new.kind = kind /\ new.slot = s /\ new.new = row /\ new.old = rows[s]
      /\ new.era = era[s] /\ new.number = 0
  BY <1>1, <1>t, <1>k, RequestsAre
<1>3. rows[s] \in RowType /\ era[s] \in Nat
  BY <1>t, StrategiesAssumption DEF StrategiesType, Maybe
<1>4. JobIsSound(new)
  <2>1. new.kind # "create" /\ new.kind # "promote" /\ new.kind \notin {"seed", "promote"}
    BY <1>2 DEF Revising
  <2>2. era[s] <= era[s]
    BY <1>3
  <2> HIDE DEF RowType
  <2> QED BY Zenon, <1>2, <1>3, <2>1, <2>2 DEF JobIsSound
<1>5. /\ job' = [job EXCEPT ![j] = new]
      /\ state' = state /\ ceiling' = ceiling /\ rows' = rows /\ era' = era
      /\ revisions' = revisions /\ scan' = scan /\ wanted' = wanted
  BY <1>1 DEF S!Begin, S!table, S!scanning
<1> QED BY <1>4, <1>5, JobStep

LEMMA CreateKeeps ==
    ASSUME StrategiesInv, NEW j \in Jobs, S!Create(j)
    PROVE  StrategiesInv'
<1>t. StrategiesType
  BY DEF StrategiesInv
<1>1. PICK s \in S!Slots, m \in S!Modes, k \in 1 .. ceiling :
        S!Begin(j, Creation(s, S!Row(m, k, ceiling)))
  BY Zenon DEF S!Create, Creation
<1>2. k \in S!Risks /\ ceiling \in S!Risks /\ k <= ceiling
  BY <1>t, StrategiesAssumption DEF StrategiesType, S!Risks
<1>3. PICK row \in RowType : row = S!Row(m, k, ceiling) /\ row.risk <= row.limit /\ ~row.bulk
  BY <1>2, RowIs
<1>e. "create" \in Single
  BY DEF Single
<1>4. PICK new \in JobType : /\ new = Creation(s, row) /\ new.kind = "create" /\ new.slot = s
                             /\ new.new = row
  BY <1>t, <1>e, RequestsAre
<1>5. JobIsSound(new)
  <2> HIDE DEF RowType
  <2> QED BY <1>3, <1>4 DEF JobIsSound, Revising, Editing
<1>6. /\ job' = [job EXCEPT ![j] = new]
      /\ state' = state /\ ceiling' = ceiling /\ rows' = rows /\ era' = era
      /\ revisions' = revisions /\ scan' = scan /\ wanted' = wanted
  BY <1>1, <1>3, <1>4 DEF S!Begin, S!table, S!scanning
<1> QED BY <1>5, <1>6, JobStep

Moded(s, m) == [rows[s] EXCEPT !.mode = m]
Risked(s, k) == [rows[s] EXCEPT !.risk = k, !.limit = ceiling]
Returned(s, r) == [rows[s] EXCEPT !.mode = r.mode, !.risk = r.risk, !.limit = ceiling]

LEMMA UpdateKeeps ==
    ASSUME StrategiesInv, NEW j \in Jobs, S!Update(j)
    PROVE  StrategiesInv'
<1>t. StrategiesType
  BY DEF StrategiesInv
<1>1. PICK s \in S!Slots : /\ rows[s] # None
                           /\ \E new \in S!Edits(rows[s]) : S!Begin(j, S!Loaded("update", s, new))
  BY Zenon DEF S!Update
<1>2. PICK row \in S!Edits(rows[s]) : S!Begin(j, S!Loaded("update", s, row))
  BY <1>1
<1>3. PICK old \in RowType : old = rows[s] /\ old.risk <= old.limit
  BY <1>1, <1>t DEF StrategiesType, Maybe, StrategiesInv, RowsAreSound, Sound
<1>4. (\E m \in S!Modes : row = Moded(s, m)) \/ \E k \in 1 .. ceiling : row = Risked(s, k)
  BY Zenon, <1>2 DEF S!Edits, Moded, Risked
<1>5. row \in RowType /\ row.risk <= row.limit
  <2>1. ASSUME NEW m \in S!Modes, row = Moded(s, m)
        PROVE  row \in RowType /\ row.risk <= row.limit
    BY <1>3, <2>1 DEF Moded, RowType
  <2>2. ASSUME NEW k \in 1 .. ceiling, row = Risked(s, k)
        PROVE  row \in RowType /\ row.risk <= row.limit
    <3>1. k \in S!Risks /\ ceiling \in S!Risks /\ k <= ceiling
      BY <1>t, StrategiesAssumption DEF StrategiesType, S!Risks
    <3>2. row = [old EXCEPT !.risk = k, !.limit = ceiling]
      BY <1>3, <2>2 DEF Risked
    <3> QED BY <3>1, <3>2 DEF RowType
  <2> QED BY <1>4, <2>1, <2>2
<1>6. "update" \in Revising
  BY DEF Revising
<1> QED BY <1>1, <1>2, <1>5, <1>6, LoadedKeeps

LEMMA RollbackKeeps ==
    ASSUME StrategiesInv, NEW j \in Jobs, S!Rollback(j)
    PROVE  StrategiesInv'
<1>t. StrategiesType
  BY DEF StrategiesInv
<1>1. PICK s \in S!Slots :
        \E r \in revisions : /\ rows[s] # None /\ S!WithinCeiling(r)
                             /\ S!Begin(j, S!Loaded("rollback", s, Returned(s, r)))
  BY Zenon DEF S!Rollback, Returned
<1>2. PICK r \in revisions : /\ rows[s] # None /\ S!WithinCeiling(r)
                             /\ S!Begin(j, S!Loaded("rollback", s, Returned(s, r)))
  BY <1>1
<1>3. PICK old \in RowType : old = rows[s]
  BY <1>2, <1>t DEF StrategiesType, Maybe
<1>4. r.mode \in S!Modes /\ r.risk \in S!Risks /\ ceiling \in S!Risks /\ r.risk <= ceiling
  BY <1>2, <1>t DEF StrategiesType, RevisionType, S!WithinCeiling
<1>5. Returned(s, r) = [old EXCEPT !.mode = r.mode, !.risk = r.risk, !.limit = ceiling]
  BY <1>3 DEF Returned
<1>6. Returned(s, r) \in RowType /\ Returned(s, r).risk <= Returned(s, r).limit
  BY <1>4, <1>5 DEF RowType
<1>7. "rollback" \in Revising
  BY DEF Revising
<1> QED BY <1>2, <1>6, <1>7, LoadedKeeps

LEMMA DeleteKeeps ==
    ASSUME StrategiesInv, NEW j \in Jobs, S!Delete(j)
    PROVE  StrategiesInv'
<1>1. PICK s \in S!Slots : rows[s] # None /\ S!Begin(j, S!Loaded("delete", s, rows[s]))
  BY Zenon DEF S!Delete
<1>2. rows[s] \in RowType /\ rows[s].risk <= rows[s].limit
  BY <1>1 DEF StrategiesInv, StrategiesType, Maybe, RowsAreSound, Sound
<1>3. "delete" \in Revising
  BY DEF Revising
<1> QED BY <1>1, <1>2, <1>3, LoadedKeeps

Numbering(j, n) == [job[j] EXCEPT !.number = n]

LEMMA LastIs ==
    ASSUME NEW m \in Nat, NEW T, T = 1 .. m
    PROVE  (CHOOSE n \in {0} \cup T : \A x \in T : x <= n) = m
<1>1. m \in {0} \cup T /\ \A x \in T : x <= m
  OBVIOUS
<1>2. ASSUME NEW n \in {0} \cup T, \A x \in T : x <= n
      PROVE  n = m
  BY <1>2
<1> QED BY <1>1, <1>2

LEMMA RecordKeeps ==
    ASSUME StrategiesInv, NEW j \in Jobs, S!RecordRevision(j)
    PROVE  StrategiesInv'
<1>t. StrategiesType
  BY DEF StrategiesInv
<1>1. job[j].kind \in Revising /\ job[j] \in JobType
  BY <1>t DEF S!RecordRevision, Revising, StrategiesType
<1>2. JobIsSound(job[j])
  BY DEF StrategiesInv, JobsAreSound
<1>3. job[j].slot \in S!Slots /\ job[j].era \in Nat
  <2>1. job[j].kind \in Single
    BY <1>1 DEF Revising, Single
  <2>2. job[j].slot \in S!Slots
    BY <1>2, <2>1 DEF JobIsSound
  <2> QED BY <1>1, <2>2 DEF JobType
<1>4. PICK m \in Nat : Numbers(job[j].slot, job[j].era) = 1 .. m
  BY <1>3 DEF StrategiesInv, Consecutive
<1>5. job' = [job EXCEPT ![j] = Numbering(j, (CHOOSE n \in {0} \cup Numbers(job[j].slot, job[j].era) :
                             \A x \in Numbers(job[j].slot, job[j].era) : x <= n) + 1)]
  <2>1. job' = [job EXCEPT ![j].number = (CHOOSE n \in {0} \cup Numbers(job[j].slot, job[j].era) :
                             \A x \in Numbers(job[j].slot, job[j].era) : x <= n) + 1]
    BY Zenon DEF S!RecordRevision, Numbers, Under
  <2> QED BY Zenon, <2>1 DEF Numbering
<1>6. job' = [job EXCEPT ![j] = Numbering(j, m + 1)]
  <2>1. (CHOOSE n \in {0} \cup Numbers(job[j].slot, job[j].era) :
            \A x \in Numbers(job[j].slot, job[j].era) : x <= n) = m
    BY <1>4, LastIs
  <2> QED BY <1>5, <2>1
<1>7. PICK p \in JobType : p = job[j]
  BY <1>1
<1>8. Numbering(j, m + 1) = [p EXCEPT !.number = m + 1]
  BY <1>7 DEF Numbering
<1>9. PICK new \in JobType : /\ new = Numbering(j, m + 1) /\ new.number = m + 1
                             /\ new.kind = p.kind /\ new.slot = p.slot /\ new.era = p.era
                             /\ new.old = p.old /\ new.new = p.new /\ new.stale = p.stale
                             /\ new.inserts = p.inserts /\ new.autos = p.autos
  BY <1>7, <1>8 DEF JobType
<1>10. JobIsSound(new)
  <2>1. 1 .. (new.number - 1) \subseteq Numbers(new.slot, new.era)
    BY <1>4, <1>7, <1>9
  <2> HIDE DEF RowType
  <2> QED BY Zenon, <1>2, <1>7, <1>9, <2>1 DEF JobIsSound
<1>11. /\ job' = [job EXCEPT ![j] = new]
       /\ state' = state /\ ceiling' = ceiling /\ rows' = rows /\ era' = era
       /\ revisions' = revisions /\ scan' = scan /\ wanted' = wanted
  BY <1>6, <1>9 DEF S!RecordRevision, S!table, S!scanning
<1> QED BY <1>10, <1>11, JobStep

LEMMA SeedKeeps ==
    ASSUME StrategiesInv, NEW j \in Jobs, S!Seed(j)
    PROVE  StrategiesInv'
<1>t. StrategiesType
  BY DEF StrategiesInv
<1>1. PICK found \in SUBSET S!Missing :
        S!Route # 0 /\ S!Begin(j, Seeding({<<S!Route, x>> : x \in found}))
  BY Zenon DEF S!Seed, Seeding
<1>2. {<<S!Route, x>> : x \in found} \in SUBSET S!Slots
  BY <1>1, RouteIs DEF S!Missing, S!Slots
<1>3. PICK new \in JobType : /\ new = Seeding({<<S!Route, x>> : x \in found})
                             /\ new.kind = "seed" /\ new.autos = {}
  <2>1. PICK places \in SUBSET S!Slots : places = {<<S!Route, x>> : x \in found}
    BY <1>2
  <2>2. Seeding(places) \in JobType /\ Seeding(places).kind = "seed" /\ Seeding(places).autos = {}
    <3>1. PICK p \in JobType : p = S!Idle /\ p.autos = {}
      BY IdleIs
    <3>2. Seeding(places) = [p EXCEPT !.kind = "seed", !.inserts = places]
      BY <3>1 DEF Seeding
    <3> QED BY <3>1, <3>2 DEF JobType
  <2> QED BY <2>1, <2>2
<1>4. JobIsSound(new)
  BY <1>3 DEF JobIsSound, Single, Revising, Editing
<1>5. /\ job' = [job EXCEPT ![j] = new]
      /\ state' = state /\ ceiling' = ceiling /\ rows' = rows /\ era' = era
      /\ revisions' = revisions /\ scan' = scan /\ wanted' = wanted
  BY <1>1, <1>3 DEF S!Begin, S!table, S!scanning
<1> QED BY <1>4, <1>5, JobStep

LEMMA PromoteKeeps ==
    ASSUME StrategiesInv, NEW j \in Jobs, S!Promote(j)
    PROVE  StrategiesInv'
<1>t. StrategiesType
  BY DEF StrategiesInv
<1> DEFINE fresh == IF S!Route \in Certified THEN {<<S!Route, x>> : x \in S!Missing} ELSE {}
           autos(chosen) == {s \in chosen : S!Promotable(s) /\ rows[s].mode = "WATCH"}
<1>1. PICK chosen \in SUBSET {s \in S!Slots : rows[s] # None} :
        S!Begin(j, Promotion(fresh, autos(chosen)))
  BY Zenon DEF S!Promote, Promotion
<1>m. \A x \in S!Missing : x \in Traded
  BY DEF S!Missing
<1>2. PICK places \in SUBSET S!Slots : places = fresh
  <2>1. S!Route \in Certified => S!Route \in Profiles
    BY StrategiesAssumption
  <2>2. \A s \in fresh : s \in S!Slots
    BY <1>m, <2>1 DEF S!Slots
  <2> QED BY <2>2
<1>3. PICK those \in SUBSET S!Slots : those = autos(chosen)
  BY <1>1
<1>4. \A s \in places \cup those : s[1] \in Certified
  BY <1>2, <1>3 DEF S!Promotable
<1>5. Promotion(places, those) \in JobType /\ Promotion(places, those).kind = "promote"
      /\ Promotion(places, those).inserts = places /\ Promotion(places, those).autos = those
  <2>1. PICK p \in JobType : p = S!Idle
    BY IdleIs
  <2>2. era \in [S!Slots -> Nat]
    BY <1>t, StrategiesAssumption DEF StrategiesType
  <2>3. era \in Maybe([S!Slots -> Nat])
    BY <2>2 DEF Maybe
  <2>4. Promotion(places, those) =
          [p EXCEPT !.kind = "promote", !.inserts = places, !.autos = those, !.eras = era]
    BY <2>1 DEF Promotion
  <2> QED BY <2>1, <2>3, <2>4 DEF JobType
<1>6. PICK new \in JobType : /\ new = Promotion(places, those) /\ new.kind = "promote"
                             /\ new.inserts = places /\ new.autos = those
  BY <1>5
<1>7. JobIsSound(new)
  BY <1>4, <1>6 DEF JobIsSound, Single, Revising, Editing
<1> HIDE DEF fresh, autos
<1>8. /\ job' = [job EXCEPT ![j] = new]
      /\ state' = state /\ ceiling' = ceiling /\ rows' = rows /\ era' = era
      /\ revisions' = revisions /\ scan' = scan /\ wanted' = wanted
  BY <1>1, <1>2, <1>3, <1>6 DEF S!Begin, S!table, S!scanning
<1> QED BY <1>7, <1>8, JobStep

LEMMA TableStays ==
    ASSUME StrategiesInv, rows' = rows, era' = era, revisions' = revisions, job' = job,
           state' \in [Profiles -> {"ready", "offline", "disabled"}], ceiling' \in S!Risks,
           scan' \in ItemType, ScanIsSound'
    PROVE  StrategiesInv'
<1>1. StrategiesType'
  BY DEF StrategiesInv, StrategiesType
<1>3. \A s, e : Numbers(s, e)' = Numbers(s, e)
  BY DEF Numbers, Under
<1>4. Consecutive' /\ NotAhead' /\ S!NumbersAreUnique' /\ RowsAreSound'
  BY <1>3 DEF StrategiesInv, Consecutive, NotAhead, S!NumbersAreUnique, RowsAreSound
<1>5. S!HistoryTellsRow'
  BY DEF StrategiesInv, S!HistoryTellsRow
<1>6. JobsAreSound'
  BY DEF StrategiesInv, JobsAreSound, JobIsSound, Numbers, Under
<1> QED BY <1>1, <1>4, <1>5, <1>6 DEF StrategiesInv

LEMMA SettingsKeep ==
    ASSUME StrategiesInv, (\E p \in Profiles : S!Account(p)) \/ \E c \in S!Risks : S!SetCeiling(c)
    PROVE  StrategiesInv'
<1>t. StrategiesType
  BY DEF StrategiesInv
<1>1. /\ rows' = rows /\ era' = era /\ revisions' = revisions /\ job' = job
      /\ scan' = scan /\ wanted' = wanted
  BY DEF S!Account, S!SetCeiling, S!table, S!scanning
<1>2. state' \in [Profiles -> {"ready", "offline", "disabled"}]
  BY <1>t DEF S!Account, S!SetCeiling, StrategiesType
<1>3. ceiling' \in S!Risks
  BY <1>t DEF S!Account, S!SetCeiling, StrategiesType
<1>4. scan' \in ItemType
  BY <1>1, <1>t DEF StrategiesType
<1>5. ScanIsSound'
  BY <1>1 DEF StrategiesInv, ScanIsSound, S!Trading
<1> QED BY <1>1, <1>2, <1>3, <1>4, <1>5, TableStays

LEMMA ScanKeeps ==
    ASSUME StrategiesInv,
           S!EndScan \/ \E s \in S!Slots : S!Approve(s) \/ S!Check(s) \/ S!Execute(s)
    PROVE  StrategiesInv'
<1>t. StrategiesType
  BY DEF StrategiesInv
<1>1. /\ rows' = rows /\ era' = era /\ revisions' = revisions /\ job' = job
      /\ state' = state /\ ceiling' = ceiling
  BY DEF S!EndScan, S!Approve, S!Check, S!Execute, S!table
<1>2. PICK old \in ItemType : old = scan
  BY <1>t DEF StrategiesType
<1>3. scan' \in ItemType /\ ScanIsSound'
  <2>1. CASE S!EndScan
    BY <2>1 DEF S!EndScan, S!NoScan, ItemType, Maybe, ScanIsSound
  <2>2. ASSUME NEW s \in S!Slots, S!Approve(s)
        PROVE  scan' \in ItemType /\ ScanIsSound'
    <3>1. scan' = [pc |-> "approved", slot |-> s, on |-> None]
      BY <2>2 DEF S!Approve
    <3> QED BY <3>1 DEF ItemType, Maybe, ScanIsSound
  <2>3. ASSUME NEW s \in S!Slots, S!Check(s)
        PROVE  scan' \in ItemType /\ ScanIsSound'
    <3>1. /\ scan' = [old EXCEPT !.pc = "checked"] /\ s[2] = old.slot[2]
          /\ wanted' = S!Trading(rows, s[2])
      BY <1>2, <2>3 DEF S!Check
    <3>2. scan' \in ItemType /\ scan'.pc = "checked" /\ scan'.slot = old.slot
      BY <3>1 DEF ItemType
    <3>3. S!Trading(rows, scan.slot[2])' = wanted'
      BY <1>1, <3>1, <3>2 DEF S!Trading
    <3> QED BY <3>2, <3>3 DEF ScanIsSound
  <2>4. ASSUME NEW s \in S!Slots, S!Execute(s)
        PROVE  scan' \in ItemType /\ ScanIsSound'
    <3>1. /\ scan' = [old EXCEPT !.pc = "ordered", !.on = s[1]] /\ s[2] = old.slot[2]
          /\ old.pc = "checked" /\ s[1] \in Certified /\ S!TradedRow(s) /\ wanted' = wanted
      BY <1>2, <2>4 DEF S!Execute
    <3>2. s[1] \in Profiles /\ s = <<s[1], s[2]>>
      BY SlotIs
    <3>3. /\ scan' \in ItemType /\ scan'.pc = "ordered" /\ scan'.slot = old.slot
          /\ scan'.on = s[1]
      BY <3>1, <3>2 DEF ItemType, Maybe
    <3>4. S!Trading(rows, old.slot[2]) \subseteq wanted
      BY <1>2, <3>1 DEF StrategiesInv, ScanIsSound
    <3>5. s[1] \in S!Trading(rows, old.slot[2])
      BY <3>1, <3>2 DEF S!Trading, S!TradedRow
    <3>6. S!Trading(rows, scan.slot[2])' = S!Trading(rows, old.slot[2])
      BY <1>1, <3>3 DEF S!Trading
    <3> QED BY <3>1, <3>3, <3>4, <3>5, <3>6 DEF ScanIsSound
  <2> QED BY <2>1, <2>2, <2>3, <2>4
<1> QED BY <1>1, <1>3, <1>t, TableStays DEF StrategiesType

Late(i) == [job[i] EXCEPT !.stale = TRUE]

LEMMA MarkedIs ==
    ASSUME StrategiesType, NEW j \in Jobs, job' = S!Marked(j)
    PROVE  /\ job' \in [Jobs -> JobType] /\ job'[j] = S!Idle
           /\ \A i \in Jobs : i # j =>
                IF job[i].slot \in S!Written(j)
                THEN /\ job'[i].stale /\ job'[i].kind = job[i].kind /\ job'[i].slot = job[i].slot
                     /\ job'[i].era = job[i].era /\ job'[i].old = job[i].old
                     /\ job'[i].new = job[i].new /\ job'[i].number = job[i].number
                     /\ job'[i].inserts = job[i].inserts /\ job'[i].autos = job[i].autos
                ELSE job'[i] = job[i]
<1>1. job' = [i \in Jobs |-> IF i = j THEN S!Idle
                            ELSE IF job[i].slot \in S!Written(j) THEN Late(i) ELSE job[i]]
  BY Zenon DEF S!Marked, Late
<1>2. ASSUME NEW i \in Jobs
      PROVE  /\ Late(i) \in JobType /\ Late(i).stale /\ Late(i).kind = job[i].kind
             /\ Late(i).slot = job[i].slot /\ Late(i).era = job[i].era
             /\ Late(i).old = job[i].old /\ Late(i).new = job[i].new
             /\ Late(i).number = job[i].number /\ Late(i).inserts = job[i].inserts
             /\ Late(i).autos = job[i].autos /\ job[i] \in JobType
  <2>1. PICK p \in JobType : p = job[i]
    BY DEF StrategiesType
  <2>2. Late(i) = [p EXCEPT !.stale = TRUE]
    BY <2>1 DEF Late
  <2> QED BY <2>1, <2>2 DEF JobType
<1>3. S!Idle \in JobType
  BY IdleIs
<1> HIDE DEF JobType
<1> QED BY <1>1, <1>2, <1>3

(* The other requests at a commit.                                         *)
LEMMA JobsStay ==
    ASSUME StrategiesInv, NEW j \in Jobs, job' = S!Marked(j),
           \A s, e : Numbers(s, e) \subseteq Numbers(s, e)',
           era' \in [S!Slots -> Nat], \A s \in S!Slots : era[s] <= era'[s],
           \A s \in S!Slots : s \notin S!Written(j) => rows'[s] = rows[s]
    PROVE  job' \in [Jobs -> JobType] /\ JobsAreSound'
<1>t. StrategiesType
  BY DEF StrategiesInv
<1>m. /\ job' \in [Jobs -> JobType] /\ job'[j] = S!Idle
      /\ \A i \in Jobs : i # j =>
           IF job[i].slot \in S!Written(j)
           THEN /\ job'[i].stale /\ job'[i].kind = job[i].kind /\ job'[i].slot = job[i].slot
                /\ job'[i].era = job[i].era /\ job'[i].old = job[i].old
                /\ job'[i].new = job[i].new /\ job'[i].number = job[i].number
                /\ job'[i].inserts = job[i].inserts /\ job'[i].autos = job[i].autos
           ELSE job'[i] = job[i]
  BY <1>t, MarkedIs
<1>1. ASSUME NEW i \in Jobs
      PROVE  JobIsSound(job[i])'
  <2>1. CASE i = j
    <3>1. job'[i].kind = "none"
      BY <1>m, <2>1, IdleIs
    <3> QED BY <3>1 DEF JobIsSound, Single, Revising, Editing
  <2>2. CASE i # j
    <3>o. JobIsSound(job[i]) /\ job[i] \in JobType /\ era \in [S!Slots -> Nat]
      BY <1>t, StrategiesAssumption DEF StrategiesInv, JobsAreSound, StrategiesType
    <3>e. job[i].era \in Nat
      BY <3>o DEF JobType
    <3>f. /\ job'[i].kind = job[i].kind /\ job'[i].slot = job[i].slot
          /\ job'[i].era = job[i].era /\ job'[i].old = job[i].old
          /\ job'[i].new = job[i].new /\ job'[i].number = job[i].number
          /\ job'[i].inserts = job[i].inserts /\ job'[i].autos = job[i].autos
      BY <1>m, <2>2
    <3>1. job[i].kind \in Single => /\ job[i].slot \in S!Slots /\ job[i].new \in RowType
                                    /\ job[i].new.risk <= job[i].new.limit
      BY <3>o DEF JobIsSound
    <3>2. job[i].kind = "create" => ~job[i].new.bulk
      BY <3>o DEF JobIsSound
    <3>3. job[i].kind \in Revising =>
            /\ job[i].old \in RowType /\ job[i].era <= era'[job[i].slot]
            /\ job[i].number # 0 =>
                 1 .. (job[i].number - 1) \subseteq Numbers(job[i].slot, job[i].era)
      <4> SUFFICES ASSUME job[i].kind \in Revising
                   PROVE  /\ job[i].old \in RowType /\ job[i].era <= era'[job[i].slot]
                          /\ job[i].number # 0 =>
                               1 .. (job[i].number - 1) \subseteq Numbers(job[i].slot, job[i].era)
        OBVIOUS
      <4>1. job[i].slot \in S!Slots
        BY <3>1 DEF Single, Revising
      <4>2. /\ job[i].old \in RowType /\ job[i].era <= era[job[i].slot]
            /\ job[i].number # 0 =>
                 1 .. (job[i].number - 1) \subseteq Numbers(job[i].slot, job[i].era)
        BY <3>o DEF JobIsSound
      <4>3. era[job[i].slot] <= era'[job[i].slot]
        BY <4>1
      <4>4. era[job[i].slot] \in Nat /\ era'[job[i].slot] \in Nat
        BY <3>o, <4>1
      <4>5. job[i].era <= era'[job[i].slot]
        BY <3>e, <4>2, <4>3, <4>4
      <4> QED BY <4>2, <4>5
    <3>4. job[i].kind \in Editing /\ ~job'[i].stale => rows'[job[i].slot] = job[i].old
      <4> SUFFICES ASSUME job[i].kind \in Editing, ~job'[i].stale
                   PROVE  rows'[job[i].slot] = job[i].old
        OBVIOUS
      <4>1. job[i].slot \notin S!Written(j) /\ job'[i] = job[i]
        BY <1>m, <2>2
      <4>2. job[i].slot \in S!Slots
        BY <3>1 DEF Single, Editing
      <4>3. rows[job[i].slot] = job[i].old
        BY <3>o, <4>1 DEF JobIsSound
      <4> QED BY <4>1, <4>2, <4>3
    <3>5. /\ job[i].kind = "promote" => \A s \in job[i].inserts : s[1] \in Certified
          /\ job[i].kind \in {"seed", "promote"} => \A s \in job[i].autos : s[1] \in Certified
      BY <3>o DEF JobIsSound
    <3> HIDE DEF RowType, JobType
    <3>6. 1 .. (job[i].number - 1) \subseteq Numbers(job[i].slot, job[i].era) =>
            1 .. (job[i].number - 1) \subseteq Numbers(job[i].slot, job[i].era)'
      <4>1. PICK x, y : x = job[i].slot /\ y = job[i].era
        OBVIOUS
      <4>2. Numbers(x, y) \subseteq Numbers(x, y)'
        OBVIOUS
      <4>3. Numbers(job[i].slot, job[i].era) = Numbers(x, y)
        BY <4>1
      <4>4. Numbers(job[i].slot, job[i].era)' = Numbers(x, y)'
        BY <3>f, <4>1 DEF Numbers, Under
      <4> QED BY <4>2, <4>3, <4>4
    <3> QED BY <3>1, <3>2, <3>3, <3>4, <3>5, <3>6, <3>f DEF JobIsSound
  <2> QED BY <2>1, <2>2
<1> QED BY <1>1, <1>m DEF JobsAreSound

(* A number that follows those there are, and is not taken, is the next.   *)
LEMMA RevisionAdded ==
    ASSUME StrategiesInv, NEW s \in S!Slots, NEW e \in Nat, NEW n \in Nat \ {0},
           1 .. (n - 1) \subseteq Numbers(s, e), n \notin Numbers(s, e),
           NEW new \in RevisionType, new.slot = s, new.era = e, new.number = n,
           revisions' = revisions \cup {new}
    PROVE  /\ revisions' \subseteq RevisionType /\ Consecutive' /\ S!NumbersAreUnique'
           /\ \A x, y : Numbers(x, y) \subseteq Numbers(x, y)'
           /\ \A x, y : x # s \/ y # e => Under(x, y)' = Under(x, y)
           /\ new \in Under(s, e)' /\ \A r \in Under(s, e)' : r.number <= n
<1>1. PICK m \in Nat : Numbers(s, e) = 1 .. m
  BY DEF StrategiesInv, Consecutive
<1>2. m = n - 1
  <2>1. n > m
    BY <1>1
  <2>2. n - 1 <= m
    <3> SUFFICES ASSUME n - 1 > m
                 PROVE  FALSE
      BY <1>1
    <3>1. n - 1 \in 1 .. (n - 1)
      BY <1>1
    <3> QED BY <1>1, <3>1
  <2> QED BY <2>1, <2>2
<1>3. revisions' \subseteq RevisionType
  BY DEF StrategiesInv, StrategiesType
<1>4. \A x, y : x # s \/ y # e => Under(x, y)' = Under(x, y)
  BY DEF Under
<1>5. Under(s, e)' = Under(s, e) \cup {new}
  BY DEF Under
<1>6. \A x, y : x # s \/ y # e => Numbers(x, y)' = Numbers(x, y)
  BY <1>4 DEF Numbers
<1>7. Numbers(s, e)' = Numbers(s, e) \cup {n}
  BY <1>5 DEF Numbers
<1>8. Numbers(s, e)' = 1 .. n
  BY <1>1, <1>2, <1>7
<1>9. Consecutive'
  <2>1. ASSUME NEW x \in S!Slots, NEW y \in Nat
        PROVE  \E k \in Nat : Numbers(x, y)' = 1 .. k
    <3>1. CASE x = s /\ y = e
      BY <1>8, <3>1
    <3>2. CASE x # s \/ y # e
      BY <1>6, <3>2 DEF StrategiesInv, Consecutive
    <3> QED BY <3>1, <3>2
  <2> QED BY <2>1 DEF Consecutive
<1>10. S!NumbersAreUnique'
  <2> SUFFICES ASSUME NEW r1 \in revisions', NEW r2 \in revisions', r1.slot = r2.slot,
                      r1.era = r2.era, r1.number = r2.number
               PROVE  r1 = r2
    BY DEF S!NumbersAreUnique
  <2>1. \A r \in revisions : r.slot = s /\ r.era = e => r.number # n
    BY DEF Numbers, Under
  <2> QED BY <2>1 DEF StrategiesInv, S!NumbersAreUnique
<1>11. \A x, y : Numbers(x, y) \subseteq Numbers(x, y)'
  BY <1>6, <1>7
<1>12. \A r \in Under(s, e)' : r.number <= n
  <2>1. \A r \in Under(s, e)' : r.number \in Numbers(s, e)'
    BY DEF Numbers
  <2> QED BY <1>8, <2>1
<1> QED BY <1>3, <1>4, <1>5, <1>9, <1>10, <1>11, <1>12

LEMMA RevisionIs ==
    ASSUME StrategiesType, NEW j \in Jobs, job[j].slot \in S!Slots, job[j].new \in RowType,
           NEW n \in Nat
    PROVE  /\ S!Revision(j, n) \in RevisionType /\ S!Revision(j, n).slot = job[j].slot
           /\ S!Revision(j, n).era = job[j].era /\ S!Revision(j, n).number = n
           /\ S!Revision(j, n).mode = job[j].new.mode /\ S!Revision(j, n).risk = job[j].new.risk
<1>1. job[j].era \in Nat
  BY DEF StrategiesType, JobType
<1>2. job[j].new.mode \in S!Modes /\ job[j].new.risk \in S!Risks
  BY DEF RowType
<1>3. S!Revision(j, n) = [slot |-> job[j].slot, era |-> job[j].era, number |-> n,
                          mode |-> job[j].new.mode, risk |-> job[j].new.risk]
  BY DEF S!Revision, S!Snapshot
<1> QED BY <1>1, <1>2, <1>3 DEF RevisionType

(* A row that is not told apart from before, or tells nothing.             *)
LEMMA TellsStill ==
    ASSUME NEW s \in S!Slots, Tells(s), era'[s] = era[s],
           rows'[s] = rows[s] \/ rows'[s] = None \/ ~rows'[s].known,
           Under(s, era[s])' = Under(s, era[s])
    PROVE  Tells(s)'
  BY DEF Tells

(* What follows from the rows that a commit leaves.                        *)
LEMMA ScanStays ==
    ASSUME StrategiesInv, scan' = scan,
           wanted' = IF scan.pc \in {"idle", "approved"} THEN {}
                     ELSE wanted \cup S!Trading(rows', scan.slot[2])
    PROVE  scan' \in ItemType /\ ScanIsSound'
<1>1. scan \in ItemType
  BY DEF StrategiesInv, StrategiesType
<1>2. S!Trading(rows, scan.slot[2])' = S!Trading(rows', scan.slot[2])
  BY DEF S!Trading
<1>3. scan.pc \in {"checked", "ordered"} =>
        wanted' = wanted \cup S!Trading(rows', scan.slot[2])
  OBVIOUS
<1> QED BY <1>1, <1>2, <1>3 DEF StrategiesInv, ScanIsSound

TableIsSound ==
    /\ rows \in [S!Slots -> Maybe(RowType)] /\ era \in [S!Slots -> 0 .. MaxEras]
    /\ revisions \subseteq RevisionType /\ job \in [Jobs -> JobType]
    /\ Consecutive /\ NotAhead /\ S!NumbersAreUnique /\ S!HistoryTellsRow
    /\ RowsAreSound /\ JobsAreSound
ErasAreBounded == \A s \in S!Slots : era[s] <= MaxEras

KnownRow(row, flag) == [row EXCEPT !.known = flag]
FirstRevision(j, e) == [S!Revision(j, 1) EXCEPT !.era = e]

LEMMA KnownRowIs ==
    ASSUME NEW row \in RowType, NEW flag \in BOOLEAN
    PROVE  /\ KnownRow(row, flag) \in RowType /\ (KnownRow(row, flag).known <=> flag)
           /\ KnownRow(row, flag).mode = row.mode /\ KnownRow(row, flag).risk = row.risk
           /\ KnownRow(row, flag).limit = row.limit /\ (KnownRow(row, flag).bulk <=> row.bulk)
  BY DEF KnownRow, RowType

LEMMA CreateCommits ==
    ASSUME StrategiesInv, NEW j \in Jobs, ~S!Fails(j), S!CommitCreate(j), job' = S!Marked(j),
           ErasAreBounded'
    PROVE  TableIsSound'
<1>t. StrategiesType
  BY DEF StrategiesInv
<1>k. job[j].kind = "create" /\ job[j].kind \in Single
  BY DEF S!CommitCreate, Single
<1>1. PICK s \in S!Slots : s = job[j].slot
  BY <1>k DEF StrategiesInv, JobsAreSound, JobIsSound
<1>2. job[j].new \in RowType /\ job[j].new.risk <= job[j].new.limit /\ ~job[j].new.bulk
  BY <1>k DEF StrategiesInv, JobsAreSound, JobIsSound
<1>3. PICK row \in RowType : /\ row = KnownRow(job[j].new, TRUE) /\ row.mode = job[j].new.mode
                             /\ row.risk = job[j].new.risk /\ row.risk <= row.limit /\ ~row.bulk
  BY <1>2, KnownRowIs
<1>4. rows' = [rows EXCEPT ![s] = row] /\ era' = [era EXCEPT ![s] = @ + 1]
  BY Zenon, <1>1, <1>3 DEF S!CommitCreate, KnownRow
<1>5. era \in [S!Slots -> Nat] /\ era'[s] = era[s] + 1 /\ era' \in [S!Slots -> Nat]
      /\ \A x \in S!Slots : x # s => era'[x] = era[x]
  BY <1>4, <1>t, StrategiesAssumption DEF StrategiesType
<1>6. PICK e \in Nat : e = era'[s]
  BY <1>5
<1>7. PICK new \in RevisionType : /\ new = FirstRevision(j, e) /\ new.slot = s /\ new.era = e
                                  /\ new.number = 1 /\ new.mode = row.mode /\ new.risk = row.risk
  <2>e. job[j].slot \in S!Slots /\ 1 \in Nat
    BY <1>1
  <2>r. /\ S!Revision(j, 1) \in RevisionType /\ S!Revision(j, 1).slot = job[j].slot
        /\ S!Revision(j, 1).number = 1 /\ S!Revision(j, 1).mode = job[j].new.mode
        /\ S!Revision(j, 1).risk = job[j].new.risk
    BY <1>t, <1>2, <2>e, RevisionIs
  <2>1. PICK p \in RevisionType : /\ p = S!Revision(j, 1) /\ p.slot = s /\ p.number = 1
                                  /\ p.mode = row.mode /\ p.risk = row.risk
    BY <2>r, <1>1, <1>3
  <2>2. FirstRevision(j, e) = [p EXCEPT !.era = e]
    BY <2>1 DEF FirstRevision
  <2> QED BY <2>1, <2>2 DEF RevisionType
<1>8. revisions' = revisions \cup {new}
  BY Zenon, <1>1, <1>6, <1>7 DEF S!CommitCreate, FirstRevision
<1>9. Under(s, e) = {}
  BY <1>5, <1>6, <1>t DEF Under, StrategiesInv, NotAhead, StrategiesType, RevisionType
<1>10. 1 .. (1 - 1) \subseteq Numbers(s, e) /\ 1 \notin Numbers(s, e)
  BY <1>9 DEF Numbers
<1>11. /\ revisions' \subseteq RevisionType /\ Consecutive' /\ S!NumbersAreUnique'
       /\ \A x, y : Numbers(x, y) \subseteq Numbers(x, y)'
       /\ \A x, y : x # s \/ y # e => Under(x, y)' = Under(x, y)
       /\ new \in Under(s, e)' /\ \A r \in Under(s, e)' : r.number <= 1
  <2>1. 1 \in Nat \ {0}
    OBVIOUS
  <2> QED BY <1>7, <1>8, <1>10, <2>1, RevisionAdded
<1>12. S!HistoryTellsRow'
  <2>1. ASSUME NEW x \in S!Slots
        PROVE  Tells(x)'
    <3>1. CASE x = s
      <4>1. rows'[x] = row
        BY <1>4, <1>t, <3>1 DEF StrategiesType
      <4>2. new \in Under(x, era[x])' /\ \A r \in Under(x, era[x])' : r.number <= new.number
        BY <1>6, <1>7, <1>11, <3>1 DEF Under
      <4> QED BY <1>7, <4>1, <4>2 DEF Tells
    <3>2. CASE x # s
      <4>1. Tells(x)
        BY TellsIs DEF StrategiesInv
      <4>2. rows'[x] = rows[x] /\ era'[x] = era[x]
        BY <1>4, <1>5, <1>t, <3>2 DEF StrategiesType
      <4>3. Under(x, era[x])' = Under(x, era[x])
        BY <1>11, <3>2, <4>2 DEF Under
      <4> QED BY <4>1, <4>2, <4>3, TellsStill
    <3> QED BY <3>1, <3>2
  <2> QED BY <2>1, TellsNext
<1>13. NotAhead'
  <2>1. \A r \in revisions : r.era <= era[r.slot] /\ r.slot \in S!Slots /\ r.era \in Nat
    BY <1>t DEF StrategiesInv, NotAhead, StrategiesType, RevisionType
  <2>2. \A r \in revisions : r.era <= era'[r.slot]
    BY <1>5, <2>1
  <2>3. new.era <= era'[new.slot]
    BY <1>5, <1>6, <1>7
  <2> QED BY <1>8, <2>2, <2>3 DEF NotAhead
<1>14. RowsAreSound' /\ rows' \in [S!Slots -> Maybe(RowType)]
  BY <1>3, <1>4, <1>t DEF StrategiesInv, StrategiesType, RowsAreSound, Sound, Maybe
<1>15. era' \in [S!Slots -> 0 .. MaxEras]
  BY <1>5, StrategiesAssumption DEF ErasAreBounded
<1>16. \A x \in S!Slots : x \notin S!Written(j) => rows'[x] = rows[x]
  BY <1>1, <1>4, <1>k, <1>t DEF S!Written, StrategiesType
<1>17. \A x \in S!Slots : era[x] <= era'[x]
  BY <1>5
<1>18. job' \in [Jobs -> JobType] /\ JobsAreSound'
  BY <1>5, <1>11, <1>16, <1>17, JobsStay
<1> QED BY <1>11, <1>12, <1>13, <1>14, <1>15, <1>18 DEF TableIsSound

LEMMA MergedIs ==
    ASSUME NEW row \in RowType, NEW old \in RowType, NEW new \in RowType
    PROVE  LET m == S!Merged(row, old, new) IN
           /\ m \in RowType
           /\ m.mode = IF old.mode # new.mode THEN new.mode ELSE row.mode
           /\ m.risk = IF old.risk # new.risk THEN new.risk ELSE row.risk
           /\ m.limit = IF old.risk # new.risk THEN new.limit ELSE row.limit
           /\ m.bulk <=> (old.mode = new.mode /\ row.bulk)
<1>1. PICK mode1 \in S!Modes : mode1 = IF old.mode # new.mode THEN new.mode ELSE row.mode
  BY DEF RowType
<1>2. PICK risk1 \in S!Risks : risk1 = IF old.risk # new.risk THEN new.risk ELSE row.risk
  BY DEF RowType
<1>3. PICK limit1 \in S!Risks : limit1 = IF old.risk # new.risk THEN new.limit ELSE row.limit
  BY DEF RowType
<1>4. PICK bulk1 \in BOOLEAN : /\ bulk1 = IF old.mode # new.mode THEN FALSE ELSE row.bulk
                               /\ bulk1 <=> (old.mode = new.mode /\ row.bulk)
  <2>1. CASE old.mode # new.mode
    BY <2>1
  <2>2. CASE old.mode = new.mode
    BY <2>2 DEF RowType
  <2> QED BY <2>1, <2>2
<1>5. S!Merged(row, old, new) =
        [row EXCEPT !.mode = mode1, !.bulk = bulk1, !.risk = risk1, !.limit = limit1]
  BY Zenon, <1>1, <1>2, <1>3, <1>4 DEF S!Merged
<1> QED BY <1>1, <1>2, <1>3, <1>4, <1>5 DEF RowType

(* A request that revises a row.                                           *)
LEMMA RevisingIs ==
    ASSUME StrategiesInv, NEW j \in Jobs, S!Ready(j), ~S!Fails(j), job[j].kind \in Revising,
           NEW s, NEW e, s = job[j].slot, e = job[j].era,
           revisions' = revisions \cup {S!Revision(j, job[j].number)}
    PROVE  /\ s \in S!Slots /\ e \in Nat /\ e <= era[s]
           /\ job[j].old \in RowType /\ job[j].new \in RowType
           /\ job[j].new.risk <= job[j].new.limit /\ S!Written(j) = {s}
           /\ revisions' \subseteq RevisionType /\ Consecutive' /\ S!NumbersAreUnique'
           /\ \A x, y : Numbers(x, y) \subseteq Numbers(x, y)'
           /\ \A x, y : x # s \/ y # e => Under(x, y)' = Under(x, y)
           /\ \E r \in Under(s, e)' : /\ r.mode = job[j].new.mode /\ r.risk = job[j].new.risk
                                      /\ \A x \in Under(s, e)' : x.number <= r.number
           /\ (\A x \in S!Slots : era[x] = era'[x]) => NotAhead'
<1>t. StrategiesType
  BY DEF StrategiesInv
<1>o. JobIsSound(job[j]) /\ job[j] \in JobType
  BY <1>t DEF StrategiesInv, JobsAreSound, StrategiesType
<1>k. job[j].kind \in Single
  BY DEF Single, Revising
<1>n. job[j].number # 0 /\ job[j].number \in Nat /\ job[j].era \in Nat
  BY <1>o DEF S!Ready, Revising, JobType
<1>1. s \in S!Slots /\ s = job[j].slot
  BY <1>o, <1>k DEF JobIsSound
<1>2. PICK n \in Nat \ {0} : n = job[j].number
  BY <1>n
<1>3. e \in Nat /\ e = job[j].era
  BY <1>n
<1>4. /\ job[j].new \in RowType /\ job[j].new.risk <= job[j].new.limit
      /\ job[j].old \in RowType /\ e <= era[s] /\ 1 .. (n - 1) \subseteq Numbers(s, e)
  BY <1>o, <1>k, <1>n, <1>1, <1>2, <1>3 DEF JobIsSound
<1>5. n \notin Numbers(s, e)
  <2>1. ~S!Taken(j)
    BY DEF S!Fails, Revising
  <2> QED BY <1>1, <1>2, <1>3, <2>1 DEF S!Taken, Numbers, Under
<1>6. PICK new \in RevisionType : /\ new = S!Revision(j, n) /\ new.slot = s /\ new.era = e
                                  /\ new.number = n /\ new.mode = job[j].new.mode
                                  /\ new.risk = job[j].new.risk
  <2>1. job[j].slot \in S!Slots
    BY <1>1
  <2>2. /\ S!Revision(j, n) \in RevisionType /\ S!Revision(j, n).slot = job[j].slot
        /\ S!Revision(j, n).era = job[j].era /\ S!Revision(j, n).number = n
        /\ S!Revision(j, n).mode = job[j].new.mode /\ S!Revision(j, n).risk = job[j].new.risk
    BY <1>t, <1>4, <2>1, RevisionIs
  <2> QED BY <1>1, <1>3, <2>2
<1>7. revisions' = revisions \cup {new}
  BY <1>2, <1>6
<1>8. /\ revisions' \subseteq RevisionType /\ Consecutive' /\ S!NumbersAreUnique'
      /\ \A x, y : Numbers(x, y) \subseteq Numbers(x, y)'
      /\ \A x, y : x # s \/ y # e => Under(x, y)' = Under(x, y)
      /\ new \in Under(s, e)' /\ \A r \in Under(s, e)' : r.number <= n
  BY <1>1, <1>3, <1>4, <1>5, <1>6, <1>7, RevisionAdded
<1>9. \E r \in Under(s, e)' : /\ r.mode = job[j].new.mode /\ r.risk = job[j].new.risk
                              /\ \A x \in Under(s, e)' : x.number <= r.number
  BY <1>6, <1>8
<1>11. S!Written(j) = {s}
  BY <1>k DEF S!Written, Single
<1>12. ASSUME \A x \in S!Slots : era[x] = era'[x]
       PROVE  NotAhead'
  <2>1. \A r \in revisions : r.era <= era[r.slot] /\ r.slot \in S!Slots
    BY <1>t DEF StrategiesInv, NotAhead, StrategiesType, RevisionType
  <2>2. new.era <= era'[new.slot]
    BY <1>1, <1>4, <1>6, <1>12
  <2>3. \A r \in revisions : r.era <= era'[r.slot]
    BY <1>12, <2>1
  <2> QED BY <1>7, <2>2, <2>3 DEF NotAhead
<1> QED BY <1>1, <1>3, <1>4, <1>8, <1>9, <1>11, <1>12

(* The rows that a request with a revision leaves.                         *)
LEMMA RevisedTable ==
    ASSUME StrategiesInv, NEW j \in Jobs, S!Ready(j), ~S!Fails(j), job[j].kind \in Revising,
           revisions' = revisions \cup {S!Revision(j, job[j].number)}, era' = era,
           job' = S!Marked(j), rows' \in [S!Slots -> Maybe(RowType)], RowsAreSound',
           \A x \in S!Slots : x # job[j].slot => rows'[x] = rows[x],
           \/ rows'[job[j].slot] = None
           \/ rows'[job[j].slot] = rows[job[j].slot] /\ ~S!There(j)
           \/ /\ S!There(j)
              /\ rows'[job[j].slot].known => /\ rows'[job[j].slot].mode = job[j].new.mode
                                             /\ rows'[job[j].slot].risk = job[j].new.risk
    PROVE  TableIsSound'
<1>t. StrategiesType
  BY DEF StrategiesInv
<1> PICK s, e : s = job[j].slot /\ e = job[j].era
  OBVIOUS
<1>1. /\ s \in S!Slots /\ e \in Nat /\ S!Written(j) = {s}
      /\ revisions' \subseteq RevisionType /\ Consecutive' /\ S!NumbersAreUnique'
      /\ \A x, y : Numbers(x, y) \subseteq Numbers(x, y)'
      /\ \A x, y : x # s \/ y # e => Under(x, y)' = Under(x, y)
      /\ \E r \in Under(s, e)' : /\ r.mode = job[j].new.mode /\ r.risk = job[j].new.risk
                                 /\ \A x \in Under(s, e)' : x.number <= r.number
      /\ (\A x \in S!Slots : era[x] = era'[x]) => NotAhead'
  BY RevisingIs
<1>2. NotAhead'
  BY <1>1
<1>3. S!HistoryTellsRow'
  <2>1. ASSUME NEW x \in S!Slots
        PROVE  Tells(x)'
    <3>o. Tells(x)
      BY TellsIs DEF StrategiesInv
    <3>1. CASE x # s \/ (rows'[x] = rows[x] /\ era[x] # e)
      <4>1. rows'[x] = rows[x]
        BY <3>1
      <4>2. Under(x, era[x])' = Under(x, era[x])
        <5>1. PICK y : y = era[x]
          OBVIOUS
        <5>2. Under(x, y)' = Under(x, y)
          BY <1>1, <3>1, <5>1
        <5> QED BY <5>1, <5>2 DEF Under
      <4> QED BY <3>o, <4>1, <4>2, TellsStill
    <3>2. CASE rows'[x] = None
      BY <3>2 DEF Tells
    <3>3. CASE /\ x = s /\ era[x] = e
               /\ rows'[x].known => /\ rows'[x].mode = job[j].new.mode
                                    /\ rows'[x].risk = job[j].new.risk
      <4>1. Under(x, era[x])' = Under(s, e)'
        BY <3>3 DEF Under
      <4> QED BY <1>1, <3>3, <4>1 DEF Tells
    <3>4. CASE x = s /\ ~S!There(j) /\ rows'[x] = rows[x]
      <4>1. rows'[x] = None \/ era[x] # e
        BY <3>4 DEF S!There
      <4> QED BY <3>1, <3>2, <3>4, <4>1
    <3>5. S!There(j) => era[s] = e
      BY DEF S!There
    <3> QED BY <3>1, <3>2, <3>3, <3>4, <3>5
  <2> QED BY <2>1, TellsNext
<1>4. \A x \in S!Slots : x \notin S!Written(j) => rows'[x] = rows[x]
  BY <1>1
<1>5. era' \in [S!Slots -> 0 .. MaxEras] /\ era' \in [S!Slots -> Nat]
      /\ \A x \in S!Slots : era[x] <= era'[x]
  BY <1>t, StrategiesAssumption DEF StrategiesType
<1>6. job' \in [Jobs -> JobType] /\ JobsAreSound'
  BY <1>1, <1>4, <1>5, JobsStay
<1> QED BY <1>1, <1>2, <1>3, <1>5, <1>6 DEF TableIsSound

LEMMA DeleteCommits ==
    ASSUME StrategiesInv, NEW j \in Jobs, S!Ready(j), ~S!Fails(j), S!CommitDelete(j),
           job' = S!Marked(j)
    PROVE  TableIsSound'
<1>t. StrategiesType
  BY DEF StrategiesInv
<1>1. job[j].kind \in Revising /\ era' = era
      /\ revisions' = revisions \cup {S!Revision(j, job[j].number)}
  BY DEF S!CommitDelete, Revising
<1>2. job[j].slot \in S!Slots
  BY <1>1 DEF StrategiesInv, JobsAreSound, JobIsSound, Single, Revising
<1>3. rows' = [rows EXCEPT ![job[j].slot] = IF S!There(j) THEN None ELSE @]
  BY DEF S!CommitDelete
<1>4. /\ rows' \in [S!Slots -> Maybe(RowType)]
      /\ \A x \in S!Slots : x # job[j].slot => rows'[x] = rows[x]
      /\ rows'[job[j].slot] = IF S!There(j) THEN None ELSE rows[job[j].slot]
  BY <1>2, <1>3, <1>t DEF StrategiesType, Maybe
<1>5. RowsAreSound'
  BY <1>2, <1>4 DEF StrategiesInv, RowsAreSound, Sound
<1>6. \/ rows'[job[j].slot] = None
      \/ rows'[job[j].slot] = rows[job[j].slot] /\ ~S!There(j)
  BY <1>4
<1> QED BY <1>1, <1>4, <1>5, <1>6, RevisedTable

LEMMA EditCommits ==
    ASSUME StrategiesInv, NEW j \in Jobs, S!Ready(j), ~S!Fails(j), S!CommitEdit(j),
           job' = S!Marked(j)
    PROVE  TableIsSound'
<1>t. StrategiesType
  BY DEF StrategiesInv
<1>1. job[j].kind \in Revising /\ job[j].kind \in Editing /\ era' = era
      /\ revisions' = revisions \cup {S!Revision(j, job[j].number)}
  BY DEF S!CommitEdit, Revising, Editing
<1>2. /\ job[j].slot \in S!Slots /\ job[j].old \in RowType /\ job[j].new \in RowType
      /\ job[j].new.risk <= job[j].new.limit
      /\ ~job[j].stale => rows[job[j].slot] = job[j].old
  BY <1>1 DEF StrategiesInv, JobsAreSound, JobIsSound, Single, Revising
<1>s. PICK s \in S!Slots : s = job[j].slot
  BY <1>2
<1>o. PICK old \in RowType : old = job[j].old
  BY <1>2
<1>n. PICK new \in RowType : new = job[j].new /\ new.risk <= new.limit
  BY <1>2
<1>f. PICK flag \in BOOLEAN : flag <=> ~job[j].stale
  OBVIOUS
<1>3. CASE S!There(j)
  <2>1. PICK row \in RowType : row = rows[s] /\ Sound(s, row)
    BY <1>3, <1>s, <1>t DEF S!There, StrategiesType, Maybe, StrategiesInv, RowsAreSound
  <2>2. PICK merged \in RowType :
          /\ merged = S!Merged(row, old, new)
          /\ merged.mode = IF old.mode # new.mode THEN new.mode ELSE row.mode
          /\ merged.risk = IF old.risk # new.risk THEN new.risk ELSE row.risk
          /\ merged.limit = IF old.risk # new.risk THEN new.limit ELSE row.limit
          /\ merged.bulk <=> (old.mode = new.mode /\ row.bulk)
    BY MergedIs
  <2>3. PICK after \in RowType :
          /\ after = KnownRow(merged, flag) /\ (after.known <=> flag)
          /\ after.mode = merged.mode /\ after.risk = merged.risk
          /\ after.limit = merged.limit /\ (after.bulk <=> merged.bulk)
    BY KnownRowIs
  <2>4. rows' = [rows EXCEPT ![s] = after]
    <3>1. flag = ~job[j].stale
      BY <1>f, <1>t DEF StrategiesType, JobType
    <3>2. after = [S!Merged(rows[s], job[j].old, job[j].new) EXCEPT !.known = ~job[j].stale]
      BY Zenon, <1>o, <1>n, <2>1, <2>2, <2>3, <3>1 DEF KnownRow
    <3>3. rows' = [rows EXCEPT ![s] =
             IF S!There(j)
             THEN [S!Merged(@, job[j].old, job[j].new) EXCEPT !.known = ~job[j].stale] ELSE @]
      BY Zenon, <1>s DEF S!CommitEdit
    <3> QED BY Zenon, <1>3, <3>2, <3>3
  <2>5. /\ rows' \in [S!Slots -> Maybe(RowType)] /\ rows'[s] = after
        /\ \A x \in S!Slots : x # s => rows'[x] = rows[x]
    BY <2>3, <2>4, <1>t DEF StrategiesType, Maybe
  <2>6. Sound(s, after)
    <3>1. after.risk <= after.limit
      BY <1>n, <2>1, <2>2, <2>3 DEF Sound
    <3>2. after.bulk => after.mode = row.mode /\ row.bulk
      BY <2>2, <2>3
    <3> QED BY <2>1, <3>1, <3>2 DEF Sound
  <2>7. RowsAreSound'
    BY <2>5, <2>6 DEF StrategiesInv, RowsAreSound, Sound
  <2>8. after.known => after.mode = new.mode /\ after.risk = new.risk
    <3> SUFFICES ASSUME after.known
                 PROVE  after.mode = new.mode /\ after.risk = new.risk
      OBVIOUS
    <3>1. row = old
      BY <1>2, <1>s, <1>o, <1>f, <2>1, <2>3
    <3> QED BY <2>2, <2>3, <3>1
  <2>9. \A x \in S!Slots : x # job[j].slot => rows'[x] = rows[x]
    BY <1>s, <2>5
  <2>10. rows'[job[j].slot].known => /\ rows'[job[j].slot].mode = job[j].new.mode
                                     /\ rows'[job[j].slot].risk = job[j].new.risk
    BY <1>s, <1>n, <2>5, <2>8
  <2> QED BY <1>1, <1>3, <2>5, <2>7, <2>9, <2>10, RevisedTable
<1>4. CASE ~S!There(j)
  <2>1. rows' = [rows EXCEPT ![s] = rows[s]]
    <3>1. rows' = [rows EXCEPT ![s] =
             IF S!There(j)
             THEN [S!Merged(@, job[j].old, job[j].new) EXCEPT !.known = ~job[j].stale] ELSE @]
      BY Zenon, <1>s DEF S!CommitEdit
    <3> QED BY Zenon, <1>4, <3>1
  <2>2. rows' = rows
    BY <2>1, <1>t DEF StrategiesType
  <2>3. rows' \in [S!Slots -> Maybe(RowType)]
    BY <2>2, <1>t DEF StrategiesType
  <2>4. RowsAreSound'
    BY <2>2 DEF StrategiesInv, RowsAreSound, Sound
  <2>5. \A x \in S!Slots : x # job[j].slot => rows'[x] = rows[x]
    BY <2>2
  <2>6. rows'[job[j].slot] = rows[job[j].slot] /\ ~S!There(j)
    BY <1>4, <2>2
  <2> QED BY <1>1, <2>3, <2>4, <2>5, <2>6, RevisedTable
<1> QED BY <1>3, <1>4

Inserted(bulk) == [S!Row(IF bulk THEN "AUTO_TRADE" ELSE "WATCH", 1, ceiling) EXCEPT !.bulk = bulk]
Promoted(s) == [rows[s] EXCEPT !.mode = "AUTO_TRADE", !.bulk = TRUE, !.known = FALSE]

LEMMA BulkCommits ==
    ASSUME StrategiesInv, NEW j \in Jobs, ~S!Fails(j), S!CommitBulk(j), job' = S!Marked(j),
           ErasAreBounded'
    PROVE  TableIsSound'
<1>t. StrategiesType
  BY DEF StrategiesInv
<1>k. job[j].kind \in {"seed", "promote"} /\ revisions' = revisions
  BY DEF S!CommitBulk
<1>b. PICK bulk \in BOOLEAN : bulk = (job[j].kind = "promote")
  OBVIOUS
<1>f. /\ \A s \in job[j].inserts : rows[s] = None
      /\ \A s \in job[j].autos : rows[s] # None
      /\ S!Written(j) = job[j].inserts \cup job[j].autos
  BY <1>k DEF S!Fails, S!Written
<1>c. /\ bulk => \A s \in job[j].inserts : s[1] \in Certified
      /\ \A s \in job[j].autos : s[1] \in Certified
  BY <1>b, <1>k DEF StrategiesInv, JobsAreSound, JobIsSound
<1>1. rows' = [s \in S!Slots |-> IF s \in job[j].inserts THEN Inserted(bulk)
                                 ELSE IF s \in job[j].autos THEN Promoted(s) ELSE rows[s]]
  BY Zenon, <1>b DEF S!CommitBulk, Inserted, Promoted
<1>2. PICK row \in RowType : /\ row = Inserted(bulk) /\ row.risk <= row.limit /\ ~row.known
                             /\ (row.bulk <=> bulk)
  <2>1. PICK m \in S!Modes : m = IF bulk THEN "AUTO_TRADE" ELSE "WATCH"
    BY DEF S!Modes
  <2>2. 1 \in S!Risks /\ ceiling \in S!Risks /\ 1 <= ceiling
    BY <1>t, StrategiesAssumption DEF StrategiesType, S!Risks
  <2>3. PICK p \in RowType : /\ p = S!Row(m, 1, ceiling) /\ p.risk = 1 /\ p.limit = ceiling
                             /\ ~p.known
    BY <2>2, RowIs
  <2>4. Inserted(bulk) = [p EXCEPT !.bulk = bulk]
    BY Zenon, <2>1, <2>3 DEF Inserted
  <2> QED BY <2>2, <2>3, <2>4 DEF RowType
<1>3. ASSUME NEW s \in S!Slots, rows[s] # None
      PROVE  /\ Promoted(s) \in RowType /\ ~Promoted(s).known /\ Promoted(s).bulk
             /\ Promoted(s).risk = rows[s].risk /\ Promoted(s).limit = rows[s].limit
  <2>1. PICK p \in RowType : p = rows[s]
    BY <1>3, <1>t DEF StrategiesType, Maybe
  <2>2. Promoted(s) = [p EXCEPT !.mode = "AUTO_TRADE", !.bulk = TRUE, !.known = FALSE]
    BY <2>1 DEF Promoted
  <2>3. "AUTO_TRADE" \in S!Modes
    BY DEF S!Modes
  <2> QED BY <2>1, <2>2, <2>3 DEF RowType
<1>a. \A s \in S!Slots : rows[s] \in Maybe(RowType)
  BY <1>t DEF StrategiesType
<1>4. rows' \in [S!Slots -> Maybe(RowType)]
  <2> HIDE DEF RowType
  <2>1. ASSUME NEW s \in S!Slots
        PROVE  rows'[s] \in Maybe(RowType)
    BY <1>1, <1>2, <1>3, <1>f, <1>a DEF Maybe
  <2> QED BY <1>1, <2>1
<1>5. RowsAreSound'
  <2> SUFFICES ASSUME NEW s \in S!Slots, rows'[s] # None
               PROVE  Sound(s, rows'[s])
    BY DEF RowsAreSound, Sound
  <2> HIDE DEF RowType
  <2>1. CASE s \in job[j].inserts
    BY <1>1, <1>2, <1>c, <2>1 DEF Sound
  <2>2. CASE s \notin job[j].inserts /\ s \in job[j].autos
    <3>1. rows'[s] = Promoted(s) /\ rows[s] # None
      BY <1>1, <1>f, <2>2
    <3>2. Sound(s, rows[s])
      BY <3>1 DEF StrategiesInv, RowsAreSound
    <3>3. s[1] \in Certified
      BY <1>c, <2>2
    <3> QED BY <1>3, <3>1, <3>2, <3>3 DEF Sound
  <2>3. CASE s \notin job[j].inserts /\ s \notin job[j].autos
    BY <1>1, <2>3 DEF StrategiesInv, RowsAreSound
  <2> QED BY <2>1, <2>2, <2>3
<1>6. era' = [s \in S!Slots |-> IF s \in job[j].inserts THEN era[s] + 1 ELSE era[s]]
  BY Zenon DEF S!CommitBulk
<1>7. /\ era \in [S!Slots -> Nat] /\ era' \in [S!Slots -> Nat]
      /\ \A s \in S!Slots : era[s] <= era'[s]
      /\ \A s \in S!Slots : s \notin job[j].inserts => era'[s] = era[s]
  BY <1>6, <1>t, StrategiesAssumption DEF StrategiesType
<1>8. era' \in [S!Slots -> 0 .. MaxEras]
  BY <1>7, StrategiesAssumption DEF ErasAreBounded
<1>9. \A x, y : Numbers(x, y)' = Numbers(x, y) /\ Under(x, y)' = Under(x, y)
  BY <1>k DEF Numbers, Under
<1>10. NotAhead'
  <2>1. \A r \in revisions : r.era <= era[r.slot] /\ r.slot \in S!Slots /\ r.era \in Nat
    BY <1>t DEF StrategiesInv, NotAhead, StrategiesType, RevisionType
  <2> QED BY <1>7, <1>k, <2>1 DEF NotAhead
<1>11. S!HistoryTellsRow'
  <2>1. ASSUME NEW s \in S!Slots
        PROVE  Tells(s)'
    <3> HIDE DEF RowType
    <3>1. CASE s \in job[j].inserts \/ s \in job[j].autos
      <4>1. ~rows'[s].known
        BY <1>1, <1>2, <1>3, <1>f, <3>1
      <4> QED BY <4>1 DEF Tells
    <3>2. CASE s \notin job[j].inserts /\ s \notin job[j].autos
      <4>1. Tells(s)
        BY TellsIs DEF StrategiesInv
      <4>2. rows'[s] = rows[s] /\ era'[s] = era[s]
        BY <1>1, <1>7, <3>2
      <4>3. Under(s, era[s])' = Under(s, era[s])
        BY <1>k, <4>2 DEF Under
      <4> QED BY <4>1, <4>2, <4>3, TellsStill
    <3> QED BY <3>1, <3>2
  <2> QED BY <2>1, TellsNext
<1>12. Consecutive' /\ S!NumbersAreUnique' /\ revisions' \subseteq RevisionType
  BY <1>9, <1>k, <1>t DEF StrategiesInv, Consecutive, S!NumbersAreUnique, StrategiesType
<1>13. \A x, y : Numbers(x, y) \subseteq Numbers(x, y)'
  BY <1>9
<1>14. \A s \in S!Slots : s \notin S!Written(j) => rows'[s] = rows[s]
  BY <1>1, <1>f
<1>15. job' \in [Jobs -> JobType] /\ JobsAreSound'
  BY <1>7, <1>13, <1>14, JobsStay
<1> QED BY <1>4, <1>5, <1>8, <1>10, <1>11, <1>12, <1>15 DEF TableIsSound

LEMMA CommitKeeps ==
    ASSUME StrategiesInv, NEW j \in Jobs, S!Commit(j)
    PROVE  StrategiesInv'
<1>t. StrategiesType
  BY DEF StrategiesInv
<1>u. /\ S!Ready(j) /\ state' = state /\ ceiling' = ceiling /\ scan' = scan
      /\ ErasAreBounded'
  BY DEF S!Commit, ErasAreBounded
<1>1. CASE S!Fails(j)
  <2>1. PICK new \in JobType : new = S!Idle /\ new.kind = "none"
    BY IdleIs
  <2>2. JobIsSound(new)
    BY <2>1 DEF JobIsSound, Single, Revising, Editing
  <2>3. /\ job' = [job EXCEPT ![j] = new] /\ rows' = rows /\ era' = era
        /\ revisions' = revisions /\ wanted' = wanted
    BY <1>1, <2>1 DEF S!Commit, S!table
  <2> QED BY <1>u, <2>2, <2>3, JobStep
<1>2. CASE ~S!Fails(j)
  <2>1. /\ S!CommitCreate(j) \/ S!CommitEdit(j) \/ S!CommitDelete(j) \/ S!CommitBulk(j)
        /\ job' = S!Marked(j)
        /\ wanted' = IF scan.pc \in {"idle", "approved"} THEN {}
                     ELSE wanted \cup S!Trading(rows', scan.slot[2])
    BY Zenon, <1>2 DEF S!Commit
  <2>2. TableIsSound'
    BY <1>2, <1>u, <2>1, CreateCommits, EditCommits, DeleteCommits, BulkCommits
  <2>3. scan' \in ItemType /\ ScanIsSound'
    BY <1>u, <2>1, ScanStays
  <2>4. StrategiesType'
    BY <1>t, <1>u, <2>2, <2>3 DEF StrategiesType, TableIsSound
  <2> QED BY <2>2, <2>3, <2>4 DEF TableIsSound, StrategiesInv
<1> QED BY <1>1, <1>2

LEMMA StrategiesInitially ==
    ASSUME S!Init
    PROVE  StrategiesInv
<1>1. /\ state = [p \in Profiles |-> "ready"] /\ ceiling = Ceiling
      /\ rows = [s \in S!Slots |-> None] /\ era = [s \in S!Slots |-> 0]
      /\ revisions = {} /\ job = [j \in Jobs |-> S!Idle] /\ scan = S!NoScan
  BY DEF S!Init
<1>2. job \in [Jobs -> JobType] /\ \A j \in Jobs : job[j].kind = "none"
  BY <1>1, IdleIs
<1>3. scan \in ItemType /\ scan.pc = "idle"
  BY <1>1 DEF S!NoScan, ItemType, Maybe
<1>4. StrategiesType
  BY <1>1, <1>2, <1>3, StrategiesAssumption DEF StrategiesType, S!Risks, Maybe
<1>5. Consecutive
  <2>1. \A s, e : Numbers(s, e) = 1 .. 0
    BY <1>1 DEF Numbers, Under
  <2> QED BY <2>1 DEF Consecutive
<1>6. NotAhead /\ S!NumbersAreUnique
  BY <1>1 DEF NotAhead, S!NumbersAreUnique
<1>7. S!HistoryTellsRow /\ RowsAreSound
  BY <1>1 DEF S!HistoryTellsRow, RowsAreSound
<1>8. JobsAreSound
  BY <1>2 DEF JobsAreSound, JobIsSound, Single, Revising, Editing
<1>9. ScanIsSound
  BY <1>3 DEF ScanIsSound
<1> QED BY <1>4, <1>5, <1>6, <1>7, <1>8, <1>9 DEF StrategiesInv

LEMMA StrategiesStutter ==
    ASSUME StrategiesInv, UNCHANGED sVars
    PROVE  StrategiesInv'
<1>1. /\ rows' = rows /\ era' = era /\ revisions' = revisions /\ job' = job
      /\ state' = state /\ ceiling' = ceiling /\ scan' = scan /\ wanted' = wanted
  BY DEF sVars
<1>2. ScanIsSound'
  BY <1>1 DEF StrategiesInv, ScanIsSound, S!Trading
<1>3. /\ state' \in [Profiles -> {"ready", "offline", "disabled"}] /\ ceiling' \in S!Risks
      /\ scan' \in ItemType
  BY <1>1 DEF StrategiesInv, StrategiesType
<1> QED BY <1>1, <1>2, <1>3, TableStays

LEMMA StrategiesStep ==
    ASSUME StrategiesInv, S!Next
    PROVE  StrategiesInv'
<1>1. ASSUME NEW j \in Jobs,
             \/ S!Create(j) \/ S!Update(j) \/ S!Rollback(j) \/ S!Delete(j)
             \/ S!RecordRevision(j) \/ S!Seed(j) \/ S!Promote(j) \/ S!Commit(j)
      PROVE  StrategiesInv'
  BY <1>1, CreateKeeps, UpdateKeeps, RollbackKeeps, DeleteKeeps, RecordKeeps, SeedKeeps,
     PromoteKeeps, CommitKeeps
<1>2. ASSUME (\E p \in Profiles : S!Account(p)) \/ \E c \in S!Risks : S!SetCeiling(c)
      PROVE  StrategiesInv'
  BY <1>2, SettingsKeep
<1>3. ASSUME S!EndScan \/ \E s \in S!Slots : S!Approve(s) \/ S!Check(s) \/ S!Execute(s)
      PROVE  StrategiesInv'
  BY <1>3, ScanKeeps
<1> QED BY Zenon, <1>1, <1>2, <1>3 DEF S!Next

LEMMA StrategiesGive ==
    ASSUME StrategiesInv
    PROVE  /\ S!TypeOK /\ S!HistoryTellsRow /\ S!NumbersAreUnique
           /\ S!BulkNeverLive /\ S!RiskWasAllowed /\ S!OrderIsWanted
<1>1. S!TypeOK
  <2>1. \A s \in S!Slots : rows[s] # None => rows[s].mode \in S!Modes /\ rows[s].risk \in S!Risks
    BY DEF StrategiesInv, StrategiesType, Maybe, RowType
  <2>2. scan.pc \in {"idle", "approved", "checked", "ordered"}
    BY DEF StrategiesInv, StrategiesType, ItemType
  <2>3. ceiling \in 1 .. Ceiling
    BY DEF StrategiesInv, StrategiesType, S!Risks
  <2> QED BY <2>1, <2>2, <2>3 DEF StrategiesInv, StrategiesType, S!TypeOK
<1>2. S!BulkNeverLive /\ S!RiskWasAllowed
  BY DEF StrategiesInv, RowsAreSound, Sound, S!BulkNeverLive, S!RiskWasAllowed
<1>3. S!OrderIsWanted
  BY DEF StrategiesInv, ScanIsSound, S!OrderIsWanted
<1> QED BY <1>1, <1>2, <1>3 DEF StrategiesInv

LEMMA StrategiesAlways == Spec => []StrategiesInv
<1>1. Init => StrategiesInv
  BY StrategiesInitially DEF Init
<1>2. StrategiesInv /\ [Next]_vars => StrategiesInv'
  <2> SUFFICES ASSUME StrategiesInv, [Next]_vars
               PROVE  StrategiesInv'
    OBVIOUS
  <2>1. S!Next \/ UNCHANGED sVars
    BY Zenon DEF Next, vars
  <2> QED BY <2>1, StrategiesStep, StrategiesStutter
<1> QED BY <1>1, <1>2, PTL DEF Spec

\* The numbers of the revisions of a strategy are unique, and while no request is
\* between its writes the newest revision tells what the row says.
THEOREM RevisionsTellRows == Spec => []HistoryTellsRow
<1>1. StrategiesInv => HistoryTellsRow
  BY StrategiesGive DEF HistoryTellsRow
<1> QED BY <1>1, StrategiesAlways, PTL

\* The bulk promotion leaves AUTO_TRADE only on certified profiles, a request
\* writes a risk within the limit it read, and the scan orders only where the
\* symbol was traded since the preflight.
THEOREM TradesStayAllowed == Spec => []TradesAreAllowed
<1>1. StrategiesInv => TradesAreAllowed
  BY StrategiesGive DEF TradesAreAllowed
<1> QED BY <1>1, StrategiesAlways, PTL

(***************************************************************************)
(* Telemetry: who emits, the writer, and pages read one after the other.   *)
(***************************************************************************)
EventIds == 1 .. MaxEvents
EmitterRow == [pc : {"idle", "stamped", "kept", "full", "counting"},
               row : EventIds \cup {None}, seen : Nat]
WriterRow == [pc : {"waiting", "writing", "failed", "counting", "stopped"},
              row : EventIds \cup {None}, seen : Nat]
EventsType ==
    /\ next \in 1 .. (MaxEvents + 1)
    /\ emitter \in [Emitters -> EmitterRow] /\ writer \in WriterRow
    /\ memory \in Seq(EventIds) /\ Len(memory) <= Keep
    /\ queue \in Seq(EventIds) /\ Len(queue) <= QueueSize
    /\ redis \in Seq(EventIds) /\ Len(redis) <= Keep
    /\ dropped \in Nat /\ raced \in BOOLEAN
    /\ audit \subseteq EventIds /\ lost \subseteq EventIds

\* A row that is not yet kept, queued and written, or counted, is with one emitter, in
\* one place of the queue, or with the writer.
Emitting == {e \in Emitters : emitter[e].pc # "idle"}
Writing == writer.pc \in {"writing", "failed", "counting"}
InOnePlace ==
    /\ \A e \in Emitting : emitter[e].row \in 1 .. (next - 1)
    /\ \A e, f \in Emitting : emitter[e].row = emitter[f].row => e = f
    /\ \A i \in 1 .. Len(queue) : /\ queue[i] \in 1 .. (next - 1)
                                  /\ \A e \in Emitting : emitter[e].row # queue[i]
    /\ \A i, j \in 1 .. Len(queue) : queue[i] = queue[j] => i = j
    /\ Writing => /\ writer.row \in 1 .. (next - 1)
                  /\ \A e \in Emitting : emitter[e].row # writer.row
                  /\ \A i \in 1 .. Len(queue) : queue[i] # writer.row

\* The rows of C were counted: no count is above their number, and none of them
\* is still in its place.
Covers(C) ==
    /\ C \subseteq 1 .. (next - 1)
    /\ dropped <= Cardinality(C)
    /\ \A e \in Emitters : emitter[e].seen <= Cardinality(C)
    /\ writer.seen <= Cardinality(C)
    /\ \A e \in Emitting : emitter[e].row \notin C
    /\ \A i \in 1 .. Len(queue) : queue[i] \notin C
    /\ Writing => writer.row \notin C
CountIsBounded == \E C \in SUBSET EventIds : Covers(C)

\* Refused rows that somebody is about to count.
AboutToCount(x) == x.pc \in {"full", "failed", "counting"}
Pending == {emitter[e].row : e \in {f \in Emitters : AboutToCount(emitter[f])}}
             \cup (IF AboutToCount(writer) THEN {writer.row} ELSE {})
CountingNow == {e \in Emitters : emitter[e].pc = "counting"}
LossIsBounded ==
    /\ \A e, f \in CountingNow : e = f
    /\ ~raced => /\ CountingNow # {} => writer.pc # "counting"
                 /\ \A e \in CountingNow : emitter[e].seen = dropped
                 /\ writer.pc = "counting" => writer.seen = dropped
                 /\ Cardinality(lost \ Pending) <= dropped
    /\ dropped = 0 => lost \subseteq Pending

\* The pages that were read hold all rows from the cursor on that were there, and
\* nothing before it.
PagesAreSound ==
    /\ viewer \in [on : BOOLEAN, cursor : 1 .. (MaxEvents + 1), base : SUBSET EventIds,
                   got : SUBSET EventIds, twice : BOOLEAN, capped : BOOLEAN, done : BOOLEAN]
    /\ ~viewer.on => viewer = E!NotReading
    /\ \A x \in viewer.got : x >= viewer.cursor
    /\ viewer.capped \/ \A x \in viewer.base : x >= viewer.cursor => x \in viewer.got
    /\ viewer.done => viewer.capped \/ viewer.base \subseteq viewer.got
    /\ ~viewer.twice

EventsInv == EventsType /\ InOnePlace /\ CountIsBounded /\ LossIsBounded /\ PagesAreSound

LEMMA SameSize == \A T : E!Cardinality(T) = Cardinality(T)
  BY DEF E!Cardinality, Cardinality

LEMMA SetsAreFinite ==
  ASSUME NEW T \in SUBSET EventIds
  PROVE  IsFiniteSet(T) /\ Cardinality(T) \in Nat
<1>1. IsFiniteSet(EventIds)
  BY FS_Interval, EventsAssumption DEF EventIds
<1>2. IsFiniteSet(T)
  BY <1>1, FS_Subset
<1> QED BY <1>2, FS_CardinalityType

LEMMA AppendIs ==
  ASSUME NEW s \in Seq(EventIds), NEW x \in EventIds
  PROVE  /\ Append(s, x) \in Seq(EventIds) /\ Len(Append(s, x)) = Len(s) + 1 /\ Len(s) \in Nat
         /\ Append(s, x)[Len(s) + 1] = x
         /\ \A i \in 1 .. Len(s) : Append(s, x)[i] = s[i]
  OBVIOUS

LEMMA LatestIs ==
  ASSUME NEW s \in Seq(EventIds), NEW n \in Nat
  PROVE E!Latest(s, n) \in Seq(EventIds) /\ Len(E!Latest(s, n)) <= n
  BY DEF E!Latest

LEMMA PushedIs ==
  ASSUME NEW row \in EventIds, redis \in Seq(EventIds), Keep \in Nat \ {0}, Len(redis) <= Keep
  PROVE E!Pushed(row) \in Seq(EventIds) /\ Len(E!Pushed(row)) <= Keep
<1>1. <<row>> \o redis \in Seq(EventIds) /\ Len(<<row>> \o redis) = Len(redis) + 1
  OBVIOUS
<1> QED BY <1>1 DEF E!Pushed

LEMMA SnapshotIs ==
  ASSUME NEW up \in BOOLEAN, memory \in Seq(EventIds), redis \in Seq(EventIds)
  PROVE E!Snapshot(up) \subseteq EventIds
  BY DEF E!Snapshot, E!ToSet

LEMMA EmitType == ASSUME EventsType, NEW e \in Emitters, E!Emit(e)
                  PROVE  EventsType'
<1>1. next \in EventIds
  BY EventsAssumption DEF E!Emit, EventsType, EventIds
<1>2. [pc |-> "stamped", row |-> next, seen |-> 0] \in EmitterRow
  BY <1>1 DEF EmitterRow
<1>3. emitter' \in [Emitters -> EmitterRow] /\ next' \in 1 .. (MaxEvents + 1)
  BY <1>2, EventsAssumption DEF E!Emit, EventsType
<1> QED BY <1>3 DEF E!Emit, EventsType, E!storage, E!counting

LEMMA IdleType == E!Idle \in EmitterRow /\ E!Waiting \in WriterRow
  BY DEF E!Idle, E!Waiting, EmitterRow, WriterRow

LEMMA KeepType == ASSUME EventsType, NEW e \in Emitters, E!KeepRow(e), InOnePlace
                  PROVE  EventsType'
<1>1. emitter[e].row \in EventIds
  BY EventsAssumption DEF E!KeepRow, EventsType, EventIds, InOnePlace, Emitting
<1>2. Append(memory, emitter[e].row) \in Seq(EventIds)
  BY <1>1 DEF EventsType
<1>3. memory' \in Seq(EventIds) /\ Len(memory') <= Keep
  BY <1>2, LatestIs, EventsAssumption DEF E!KeepRow
<1>4. [emitter[e] EXCEPT !.pc = "kept"] \in EmitterRow
  BY DEF EventsType, EmitterRow
<1>5. emitter' \in [Emitters -> EmitterRow]
  BY <1>4 DEF E!KeepRow, EventsType
<1> QED BY <1>3, <1>5 DEF E!KeepRow, EventsType, E!storage, E!counting

LEMMA PutType == ASSUME EventsType, NEW e \in Emitters, E!Put(e), InOnePlace
                 PROVE  EventsType'
<1>1. emitter[e].row \in EventIds
  BY EventsAssumption DEF E!Put, EventsType, EventIds, InOnePlace, Emitting
<1>2. [emitter[e] EXCEPT !.pc = "full"] \in EmitterRow
  BY DEF EventsType, EmitterRow
<1>3. emitter' \in [Emitters -> EmitterRow]
  BY <1>2, IdleType DEF E!Put, E!PutOrCount, EventsType
<1>4. /\ \/ queue' = queue
         \/ Len(queue) < QueueSize /\ queue' = Append(queue, emitter[e].row)
      /\ lost' = lost \/ lost' = lost \cup {emitter[e].row}
  BY DEF E!Put, E!PutOrCount
<1>6. queue' \in Seq(EventIds) /\ Len(queue') <= QueueSize /\ lost' \subseteq EventIds
  <2>1. queue \in Seq(EventIds) /\ Len(queue) <= QueueSize /\ lost \subseteq EventIds
    BY DEF EventsType
  <2>2. /\ Append(queue, emitter[e].row) \in Seq(EventIds)
        /\ Len(Append(queue, emitter[e].row)) = Len(queue) + 1 /\ Len(queue) \in Nat
    BY <1>1, <2>1, AppendIs
  <2>3. queue' \in Seq(EventIds) /\ Len(queue') <= QueueSize
    BY <1>4, <2>1, <2>2, EventsAssumption
  <2>4. lost' \subseteq EventIds
    BY <1>1, <1>4, <2>1
  <2> QED BY <2>3, <2>4
<1>5. /\ next' = next /\ memory' = memory /\ writer' = writer /\ redis' = redis
      /\ audit' = audit /\ dropped' = dropped /\ raced' = raced
  BY DEF E!Put, E!storage
<1> QED BY <1>3, <1>5, <1>6 DEF EventsType

LEMMA ReadCountType == ASSUME EventsType, NEW e \in Emitters, E!ReadCount(e)
                       PROVE  EventsType'
<1>1. E!AtCount(emitter[e].row) \in EmitterRow
  BY DEF EventsType, EmitterRow, E!AtCount
<1>2. emitter' \in [Emitters -> EmitterRow]
  BY <1>1 DEF E!ReadCount, EventsType
<1>3. raced' \in BOOLEAN
  BY DEF E!ReadCount
<1> QED BY <1>2, <1>3 DEF E!ReadCount, EventsType, E!storage

LEMMA CountType == ASSUME EventsType, NEW e \in Emitters, E!Count(e)
                   PROVE  EventsType'
<1>1. emitter' \in [Emitters -> EmitterRow] /\ dropped' \in Nat
  BY IdleType DEF E!Count, EventsType, EmitterRow
<1> QED BY <1>1 DEF E!Count, EventsType, E!storage

LEMMA WriterTypes ==
    ASSUME EventsType, InOnePlace,
           E!Take \/ E!Write \/ E!WriterReads \/ E!WriterCounts \/ E!Stop \/ E!Expire
    PROVE  EventsType'
<1>1. CASE E!Take
  <2>1. Head(queue) \in EventIds /\ Tail(queue) \in Seq(EventIds) /\ Len(Tail(queue)) <= QueueSize
    BY <1>1, EventsAssumption DEF E!Take, EventsType
  <2>2. writer' \in WriterRow
    BY <1>1, <2>1 DEF E!Take, WriterRow
  <2> QED BY <1>1, <2>1, <2>2 DEF E!Take, EventsType, E!counting
<1>2. CASE E!Write
  <2>1. writer.row \in EventIds
    BY <1>2, EventsAssumption DEF E!Write, EventsType, EventIds, InOnePlace, Writing
  <2>2. redis' \in Seq(EventIds) /\ Len(redis') <= Keep
    BY <1>2, <2>1, PushedIs, EventsAssumption DEF E!Write, EventsType
  <2>3. writer' \in WriterRow /\ lost' \subseteq EventIds
    BY <1>2, <2>1, IdleType DEF E!Write, EventsType, WriterRow
  <2> QED BY <1>2, <2>2, <2>3 DEF E!Write, EventsType, E!capture
<1>3. CASE E!WriterReads
  <2>1. writer' \in WriterRow /\ raced' \in BOOLEAN
    BY <1>3 DEF E!WriterReads, EventsType, WriterRow, E!AtCount
  <2> QED BY <1>3, <2>1 DEF E!WriterReads, EventsType, E!capture
<1>4. CASE E!WriterCounts
  <2>1. writer' \in WriterRow /\ dropped' \in Nat
    BY <1>4, IdleType DEF E!WriterCounts, EventsType, WriterRow
  <2> QED BY <1>4, <2>1 DEF E!WriterCounts, EventsType, E!capture
<1>5. CASE E!Stop
  <2>1. writer' \in WriterRow
    BY <1>5, IdleType DEF E!Stop, WriterRow
  <2> QED BY <1>5, <2>1 DEF E!Stop, EventsType, E!capture, E!counting
<1>6. CASE E!Expire
  BY <1>6, EventsAssumption DEF E!Expire, EventsType, E!capture, E!counting
<1> QED BY <1>1, <1>2, <1>3, <1>4, <1>5, <1>6

\* What is at rest after an event: the emitter is idle, or holds the row it has.
LEMMA EmitApart ==
    ASSUME EventsType, InOnePlace, LossIsBounded, CountIsBounded, NEW e \in Emitters, E!Emit(e)
    PROVE  InOnePlace' /\ CountIsBounded' /\ LossIsBounded'
<1> USE EventsAssumption
<1>1. /\ next \in 1 .. MaxEvents /\ next' = next + 1
      /\ emitter' = [emitter EXCEPT ![e] = [pc |-> "stamped", row |-> next, seen |-> 0]]
      /\ queue' = queue /\ writer' = writer /\ dropped' = dropped /\ lost' = lost
      /\ raced' = raced /\ emitter[e].pc = "idle"
  BY DEF E!Emit, E!storage, E!counting, EventsType
<1>2. /\ emitter'[e].pc = "stamped" /\ emitter'[e].row = next /\ emitter'[e].seen = 0
      /\ \A f \in Emitters \ {e} : emitter'[f] = emitter[f]
  BY <1>1 DEF EventsType
<1>3. Emitting' = Emitting \cup {e} /\ e \notin Emitting
  BY <1>1, <1>2 DEF Emitting
<1>4. InOnePlace'
  BY <1>1, <1>2, <1>3 DEF InOnePlace, EventsType, Writing, Emitting
<1>5. CountIsBounded'
  <2>1. PICK C \in SUBSET EventIds : Covers(C)
    BY DEF CountIsBounded
  <2>2. Cardinality(C) \in Nat
    BY <2>1, SetsAreFinite
  <2>3. Covers(C)'
    BY <1>1, <1>2, <1>3, <2>1, <2>2 DEF Covers, EventsType, Writing, Emitting
  <2> QED BY <2>3 DEF CountIsBounded
<1>6. Pending' = Pending /\ CountingNow' = CountingNow
  BY <1>1, <1>2 DEF Pending, AboutToCount, CountingNow
<1>7. LossIsBounded'
  BY <1>1, <1>2, <1>6 DEF LossIsBounded, CountingNow
<1> QED BY <1>4, <1>5, <1>7

LEMMA KeepApart ==
    ASSUME EventsType, InOnePlace, LossIsBounded, CountIsBounded, NEW e \in Emitters, E!KeepRow(e)
    PROVE  InOnePlace' /\ CountIsBounded' /\ LossIsBounded'
<1>1. /\ next' = next /\ queue' = queue /\ writer' = writer /\ dropped' = dropped
      /\ lost' = lost /\ raced' = raced /\ emitter[e].pc = "stamped"
      /\ emitter' = [emitter EXCEPT ![e].pc = "kept"]
  BY DEF E!KeepRow, E!storage, E!counting
<1>2. /\ emitter'[e].pc = "kept" /\ emitter'[e].row = emitter[e].row
      /\ emitter'[e].seen = emitter[e].seen
      /\ \A f \in Emitters \ {e} : emitter'[f] = emitter[f]
  BY <1>1 DEF EventsType, EmitterRow
<1>3. Emitting' = Emitting
  BY <1>1, <1>2 DEF Emitting
<1>4. \A f \in Emitters : emitter'[f].row = emitter[f].row /\ emitter'[f].seen = emitter[f].seen
  BY <1>2
<1>5. InOnePlace'
  BY <1>1, <1>3, <1>4 DEF InOnePlace, Writing, Emitting
<1>6. \A C : Covers(C) => Covers(C)'
  BY <1>1, <1>3, <1>4 DEF Covers, Writing, Emitting
<1>7. CountIsBounded'
  BY <1>6 DEF CountIsBounded
<1>8. Pending' = Pending /\ CountingNow' = CountingNow
  BY <1>1, <1>2 DEF Pending, AboutToCount, CountingNow
<1>9. LossIsBounded'
  BY <1>1, <1>2, <1>8 DEF LossIsBounded, CountingNow
<1> QED BY <1>5, <1>7, <1>9

\* A set of events that is part of another is no larger.
LEMMA Smaller ==
  ASSUME NEW T \in SUBSET EventIds, NEW U \in SUBSET T
  PROVE  Cardinality(U) <= Cardinality(T)
  BY SetsAreFinite, FS_Subset

\* Nothing is counted: what is refused is pending.
LEMMA LossStays ==
    ASSUME EventsType, EventsType', LossIsBounded, dropped' = dropped, raced => raced',
           lost' \ Pending' \subseteq lost \ Pending
    PROVE  /\ ~raced' => Cardinality(lost' \ Pending') <= dropped'
           /\ dropped' = 0 => lost' \subseteq Pending'
<1>1. Cardinality(lost' \ Pending') <= Cardinality(lost \ Pending)
  BY Smaller DEF EventsType
<1>2. lost' \ Pending' \in SUBSET EventIds /\ lost \ Pending \in SUBSET EventIds
  BY DEF EventsType
<1>3. Cardinality(lost' \ Pending') \in Nat /\ Cardinality(lost \ Pending) \in Nat
  BY <1>2, SetsAreFinite
<1> QED BY <1>1, <1>3 DEF LossIsBounded, EventsType

LEMMA PutApart ==
    ASSUME EventsType, EventsType', InOnePlace, LossIsBounded, CountIsBounded,
           NEW e \in Emitters, E!Put(e)
    PROVE  InOnePlace' /\ CountIsBounded' /\ LossIsBounded'
<1>1. /\ next' = next /\ writer' = writer /\ dropped' = dropped
      /\ raced' = raced /\ emitter[e].pc = "kept"
  BY DEF E!Put, E!storage
<1> DEFINE row == emitter[e].row
<1>q. CASE Len(queue) < QueueSize
  <2>1. /\ queue' = Append(queue, row) /\ lost' = lost
        /\ emitter' = [emitter EXCEPT ![e] = E!Idle]
    BY <1>q DEF E!Put, E!PutOrCount
  <2>2. /\ emitter'[e].pc = "idle" /\ emitter'[e].seen = 0
        /\ \A f \in Emitters \ {e} : emitter'[f] = emitter[f]
    BY <2>1 DEF EventsType, E!Idle
  <2>3. Emitting' = Emitting \ {e} /\ e \in Emitting
    BY <1>1, <2>2 DEF Emitting
  <2>4. /\ Len(queue') = Len(queue) + 1 /\ queue'[Len(queue) + 1] = row
        /\ \A i \in 1 .. Len(queue) : queue'[i] = queue[i]
        /\ Len(queue) \in Nat
    <3>1. row \in EventIds /\ queue \in Seq(EventIds)
      BY <1>1, EventsAssumption DEF EventsType, EventIds, InOnePlace, Emitting
    <3> HIDE DEF row
    <3> QED BY <2>1, <3>1, AppendIs
  <2> HIDE DEF row
  <2>5. row \in 1 .. (next - 1) /\ \A f \in Emitting \ {e} : emitter[f].row # row
    BY <2>3 DEF InOnePlace, row
  <2>6. \A i \in 1 .. Len(queue) : queue[i] # row
    BY <2>3 DEF InOnePlace, row
  <2>7. Writing => writer.row # row
    BY <2>3 DEF InOnePlace, row
  <2>8. \A i \in 1 .. Len(queue') : \/ i = Len(queue) + 1 /\ queue'[i] = row
                                    \/ i \in 1 .. Len(queue) /\ queue'[i] = queue[i]
    <3> TAKE i \in 1 .. Len(queue')
    <3>1. i = Len(queue) + 1 \/ i \in 1 .. Len(queue)
      BY <2>4
    <3> QED BY <2>4, <3>1
  <2>9. \A f \in Emitting' : f \in Emitting \ {e} /\ emitter'[f] = emitter[f]
    BY <2>2, <2>3 DEF Emitting
  <2>10. Writing' = Writing
    BY <1>1 DEF Writing
  <2>11. InOnePlace'
    <3>1. \A f \in Emitting' : emitter'[f].row \in 1 .. (next' - 1)
      BY <1>1, <2>9 DEF InOnePlace
    <3>2. \A f, g \in Emitting' : emitter'[f].row = emitter'[g].row => f = g
      BY <2>9 DEF InOnePlace
    <3>3. \A i \in 1 .. Len(queue') : /\ queue'[i] \in 1 .. (next' - 1)
                                       /\ \A f \in Emitting' : emitter'[f].row # queue'[i]
      BY <1>1, <2>5, <2>8, <2>9 DEF InOnePlace
    <3>4. \A i, j \in 1 .. Len(queue') : queue'[i] = queue'[j] => i = j
      BY <2>6, <2>8 DEF InOnePlace
    <3>5. Writing' => /\ writer'.row \in 1 .. (next' - 1)
                      /\ \A f \in Emitting' : emitter'[f].row # writer'.row
                      /\ \A i \in 1 .. Len(queue') : queue'[i] # writer'.row
      BY <1>1, <2>7, <2>8, <2>9, <2>10 DEF InOnePlace
    <3> QED BY <3>1, <3>2, <3>3, <3>4, <3>5 DEF InOnePlace
  <2>12. ASSUME NEW C, Covers(C), C \in SUBSET EventIds
         PROVE  Covers(C)'
    <3>1. Cardinality(C) \in Nat
      BY <2>12, SetsAreFinite
    <3>2. row \notin C
      BY <2>12, <2>3 DEF Covers, row
    <3> QED BY <1>1, <2>2, <2>8, <2>9, <2>10, <2>12, <3>1, <3>2 DEF Covers
  <2>13. CountIsBounded'
    BY <2>12 DEF CountIsBounded
  <2>14. Pending' = Pending /\ CountingNow' = CountingNow
    BY <1>1, <2>2 DEF Pending, AboutToCount, CountingNow
  <2>15. LossIsBounded'
    BY <1>1, <2>1, <2>2, <2>14 DEF LossIsBounded, CountingNow
  <2> QED BY <2>11, <2>13, <2>15
<1>f. CASE ~(Len(queue) < QueueSize)
  <2>1. /\ queue' = queue /\ lost' = lost \cup {row}
        /\ emitter' = [emitter EXCEPT ![e].pc = "full"]
    BY <1>f DEF E!Put, E!PutOrCount
  <2>2. /\ emitter'[e].pc = "full" /\ emitter'[e].row = row /\ emitter'[e].seen = emitter[e].seen
        /\ \A f \in Emitters \ {e} : emitter'[f] = emitter[f]
    BY <2>1 DEF EventsType, EmitterRow
  <2>3. Emitting' = Emitting
    BY <1>1, <2>2 DEF Emitting
  <2>4. \A f \in Emitters : emitter'[f].row = emitter[f].row /\ emitter'[f].seen = emitter[f].seen
    BY <2>2
  <2>5. InOnePlace'
    BY <1>1, <2>1, <2>3, <2>4 DEF InOnePlace, Writing, Emitting
  <2>6. \A C : Covers(C) => Covers(C)'
    BY <1>1, <2>1, <2>3, <2>4 DEF Covers, Writing, Emitting
  <2>7. CountIsBounded'
    BY <2>6 DEF CountIsBounded
  <2>8. Pending' = Pending \cup {row} /\ CountingNow' = CountingNow
    BY <1>1, <2>2 DEF Pending, AboutToCount, CountingNow
  <2>9. lost' \ Pending' \subseteq lost \ Pending
    BY <2>1, <2>8
  <2>10. LossIsBounded'
    BY <1>1, <2>2, <2>8, <2>9, LossStays DEF LossIsBounded, CountingNow
  <2> QED BY <2>5, <2>7, <2>10
<1> QED BY <1>q, <1>f

LEMMA ReadCountApart ==
    ASSUME EventsType, EventsType', InOnePlace, LossIsBounded, CountIsBounded,
           NEW e \in Emitters, E!ReadCount(e)
    PROVE  InOnePlace' /\ CountIsBounded' /\ LossIsBounded'
<1>1. /\ next' = next /\ queue' = queue /\ writer' = writer /\ dropped' = dropped
      /\ lost' = lost /\ raced' = (raced \/ writer.pc = "counting") /\ emitter[e].pc = "full"
      /\ emitter' = [emitter EXCEPT ![e] = E!AtCount(emitter[e].row)]
      /\ CountingNow = {}
  BY DEF E!ReadCount, E!storage, E!Free, CountingNow
<1>2. /\ emitter'[e].pc = "counting" /\ emitter'[e].row = emitter[e].row
      /\ emitter'[e].seen = dropped
      /\ \A f \in Emitters \ {e} : emitter'[f] = emitter[f]
  BY <1>1 DEF EventsType, E!AtCount
<1>3. Emitting' = Emitting
  BY <1>1, <1>2 DEF Emitting
<1>4. \A f \in Emitters : /\ emitter'[f].row = emitter[f].row
                          /\ emitter'[f].seen = dropped \/ emitter'[f].seen = emitter[f].seen
  BY <1>2
<1>5. InOnePlace'
  BY <1>1, <1>3, <1>4 DEF InOnePlace, Writing, Emitting
<1>6. \A C : Covers(C) => Covers(C)'
  BY <1>1, <1>3, <1>4 DEF Covers, Writing, Emitting
<1>7. CountIsBounded'
  BY <1>6 DEF CountIsBounded
<1>8. Pending' = Pending /\ CountingNow' = {e}
  BY <1>1, <1>2 DEF Pending, AboutToCount, CountingNow
<1>9. LossIsBounded'
  BY <1>1, <1>2, <1>8 DEF LossIsBounded
<1> QED BY <1>5, <1>7, <1>9

\* A row is counted: the rows that are neither pending nor counted are at most one more.
LEMMA LossGrows ==
    ASSUME EventsType, EventsType', LossIsBounded, NEW x \in EventIds, lost' = lost,
           Pending \subseteq Pending' \cup {x}
    PROVE  ~raced => Cardinality(lost' \ Pending') <= dropped + 1
<1> DEFINE T == lost \ Pending
           U == lost' \ Pending'
<1>1. T \in SUBSET EventIds /\ U \in SUBSET EventIds /\ T \cup {x} \in SUBSET EventIds
  BY DEF EventsType
<1>2. U \in SUBSET (T \cup {x})
  OBVIOUS
<1> HIDE DEF T, U
<1>3. Cardinality(U) <= Cardinality(T \cup {x})
  BY <1>1, <1>2, Smaller
<1>4. Cardinality(T \cup {x}) <= Cardinality(T) + 1
  BY <1>1, SetsAreFinite, FS_AddElement
<1>5. Cardinality(U) \in Nat /\ Cardinality(T) \in Nat /\ Cardinality(T \cup {x}) \in Nat
  BY <1>1, SetsAreFinite
<1>6. ~raced => Cardinality(T) <= dropped
  BY DEF LossIsBounded, T
<1> QED BY <1>3, <1>4, <1>5, <1>6 DEF EventsType, U

\* One more row is counted.
LEMMA OneMore ==
    ASSUME NEW C \in SUBSET EventIds, NEW x \in EventIds, x \notin C
    PROVE  Cardinality(C \cup {x}) = Cardinality(C) + 1 /\ Cardinality(C) \in Nat
  BY SetsAreFinite, FS_AddElement

LEMMA CountApart ==
    ASSUME EventsType, EventsType', InOnePlace, LossIsBounded, CountIsBounded,
           NEW e \in Emitters, E!Count(e)
    PROVE  InOnePlace' /\ CountIsBounded' /\ LossIsBounded'
<1>1. /\ next' = next /\ queue' = queue /\ writer' = writer /\ dropped' = emitter[e].seen + 1
      /\ lost' = lost /\ raced' = raced /\ emitter[e].pc = "counting"
      /\ emitter' = [emitter EXCEPT ![e] = E!Idle]
  BY DEF E!Count, E!storage
<1>2. /\ emitter'[e].pc = "idle" /\ emitter'[e].seen = 0
      /\ \A f \in Emitters \ {e} : emitter'[f] = emitter[f]
  BY <1>1 DEF EventsType, E!Idle
<1>3. Emitting' = Emitting \ {e} /\ e \in Emitting /\ e \in CountingNow
  BY <1>1, <1>2 DEF Emitting, CountingNow
<1>4. \A f \in Emitting' : f \in Emitting \ {e} /\ emitter'[f] = emitter[f]
  BY <1>2, <1>3 DEF Emitting
<1>5. InOnePlace'
  BY <1>1, <1>4 DEF InOnePlace, Writing
<1>a. emitter[e].row \in EventIds /\ emitter[e].row \in 1 .. (next - 1)
  BY <1>3, EventsAssumption DEF EventsType, EventIds, InOnePlace
<1>6. PICK row \in EventIds : row = emitter[e].row /\ row \in 1 .. (next - 1)
  BY <1>a
<1>7. emitter[e].seen \in Nat /\ \A f \in Emitters : emitter[f].seen \in Nat
  BY DEF EventsType, EmitterRow
<1>8. CountIsBounded'
  <2>1. PICK C \in SUBSET EventIds : Covers(C)
    BY DEF CountIsBounded
  <2>2. row \notin C
    BY <2>1, <1>3, <1>6 DEF Covers
  <2>3. \A f \in Emitting' : emitter'[f].row # row
    BY <1>3, <1>4, <1>6 DEF InOnePlace
  <2>4. /\ \A i \in 1 .. Len(queue) : queue[i] # row
        /\ Writing => writer.row # row
    <3>1. e \in Emitting
      BY <1>3
    <3> QED BY <1>6, <3>1 DEF InOnePlace
  <2>5. Cardinality(C \cup {row}) = Cardinality(C) + 1 /\ Cardinality(C) \in Nat
    BY <1>6, <2>2, OneMore
  <2>6. /\ C \cup {row} \subseteq 1 .. (next' - 1)
        /\ dropped' <= Cardinality(C \cup {row})
    <3>1. emitter[e].seen <= Cardinality(C) /\ C \subseteq 1 .. (next - 1)
      BY <2>1 DEF Covers
    <3>2. dropped' <= Cardinality(C \cup {row})
      BY <1>1, <1>7, <2>5, <3>1
    <3> QED BY <1>1, <1>6, <3>1, <3>2
  <2>7. \A f \in Emitters : emitter'[f].seen <= Cardinality(C \cup {row})
    BY <1>2, <1>7, <2>1, <2>5 DEF Covers
  <2>8. writer'.seen <= Cardinality(C \cup {row})
    BY <1>1, <2>1, <2>5 DEF Covers, EventsType, WriterRow
  <2>9. /\ \A f \in Emitting' : emitter'[f].row \notin C \cup {row}
        /\ \A i \in 1 .. Len(queue') : queue'[i] \notin C \cup {row}
        /\ Writing' => writer'.row \notin C \cup {row}
    <3>1. Writing' = Writing
      BY <1>1 DEF Writing
    <3>2. \A f \in Emitting' : emitter'[f].row \notin C
      BY <1>4, <2>1 DEF Covers
    <3> QED BY <1>1, <2>1, <2>3, <2>4, <3>1, <3>2 DEF Covers
  <2>10. Covers(C \cup {row})'
    BY <2>6, <2>7, <2>8, <2>9 DEF Covers
  <2>11. C \cup {row} \in SUBSET EventIds
    BY <1>6, <2>1
  <2> QED BY <2>10, <2>11 DEF CountIsBounded
<1>9. CountingNow' = {} /\ Pending \subseteq Pending' \cup {row}
  <2>1. CountingNow = {e}
    BY <1>3 DEF LossIsBounded
  <2>2. CountingNow' = CountingNow \ {e}
    BY <1>2 DEF CountingNow
  <2>3. Pending \subseteq Pending' \cup {row}
    BY <1>1, <1>2, <1>6 DEF Pending, AboutToCount
  <2> QED BY <2>1, <2>2, <2>3
<1>10. ~raced => Cardinality(lost' \ Pending') <= dropped + 1
  BY <1>1, <1>6, <1>9, LossGrows
<1>11. LossIsBounded'
  BY <1>1, <1>3, <1>7, <1>9, <1>10 DEF LossIsBounded
<1> QED BY <1>5, <1>8, <1>11

LEMMA TakeApart ==
    ASSUME EventsType, EventsType', InOnePlace, LossIsBounded, CountIsBounded, E!Take
    PROVE  InOnePlace' /\ CountIsBounded' /\ LossIsBounded'
<1>1. /\ next' = next /\ emitter' = emitter /\ dropped' = dropped /\ lost' = lost
      /\ raced' = raced /\ writer.pc = "waiting" /\ queue # <<>> /\ queue' = Tail(queue)
      /\ writer' = [pc |-> "writing", row |-> Head(queue), seen |-> 0]
  BY DEF E!Take, E!counting
<1>2. /\ writer'.pc = "writing" /\ writer'.row = queue[1] /\ writer'.seen = 0
      /\ Len(queue) \in Nat /\ Len(queue) >= 1 /\ Len(queue') = Len(queue) - 1
      /\ \A i \in 1 .. Len(queue') : queue'[i] = queue[i + 1] /\ i + 1 \in 1 .. Len(queue)
  BY <1>1 DEF EventsType
<1>3. Emitting' = Emitting /\ ~Writing
  BY <1>1 DEF Emitting, Writing
<1>4. 1 \in 1 .. Len(queue)
  BY <1>2
<1>5. \A i \in 1 .. Len(queue') : i \in Int /\ i >= 1
  OBVIOUS
<1>6. InOnePlace'
  <2>1. \A i \in 1 .. Len(queue') : /\ queue'[i] \in 1 .. (next' - 1)
                                    /\ \A f \in Emitting' : emitter'[f].row # queue'[i]
    BY <1>1, <1>2, <1>3 DEF InOnePlace
  <2>2. ASSUME NEW i \in 1 .. Len(queue'), NEW j \in 1 .. Len(queue'), queue'[i] = queue'[j]
        PROVE  i = j
    <3>1. i + 1 = j + 1
      BY <1>2, <2>2 DEF InOnePlace
    <3> QED BY <3>1, <1>5
  <2>3. /\ writer'.row \in 1 .. (next' - 1)
        /\ \A f \in Emitting' : emitter'[f].row # writer'.row
    BY <1>1, <1>2, <1>3, <1>4 DEF InOnePlace
  <2>4. ASSUME NEW i \in 1 .. Len(queue')
        PROVE  queue'[i] # writer'.row
    <3>1. i + 1 # 1
      BY <1>5
    <3> QED BY <1>2, <1>4, <3>1 DEF InOnePlace
  <2>5. /\ \A f \in Emitting' : emitter'[f].row \in 1 .. (next' - 1)
        /\ \A f, g \in Emitting' : emitter'[f].row = emitter'[g].row => f = g
    BY <1>1, <1>3 DEF InOnePlace
  <2> QED BY <2>1, <2>2, <2>3, <2>4, <2>5 DEF InOnePlace
<1>7. CountIsBounded'
  <2>1. PICK C \in SUBSET EventIds : Covers(C)
    BY DEF CountIsBounded
  <2>2. Cardinality(C) \in Nat
    BY <2>1, SetsAreFinite
  <2>3. Covers(C)'
    BY <1>1, <1>2, <1>3, <1>4, <2>1, <2>2 DEF Covers
  <2> QED BY <2>1, <2>3 DEF CountIsBounded
<1>8. Pending' = Pending /\ CountingNow' = CountingNow
  BY <1>1, <1>2 DEF Pending, AboutToCount, CountingNow
<1>9. LossIsBounded'
  BY <1>1, <1>2, <1>8 DEF LossIsBounded, CountingNow
<1> QED BY <1>6, <1>7, <1>9

\* The writer goes on with the row it has, or drops it.
LEMMA WriterApart ==
    ASSUME EventsType, EventsType', InOnePlace, CountIsBounded,
           next' = next, emitter' = emitter, queue' = queue, dropped' = dropped,
           writer'.seen \in {0, writer.seen, dropped},
           Writing' => Writing /\ writer'.row = writer.row
    PROVE  InOnePlace' /\ CountIsBounded'
<1>1. Emitting' = Emitting
  BY DEF Emitting
<1>2. InOnePlace'
  BY <1>1 DEF InOnePlace
<1>3. CountIsBounded'
  <2>1. PICK C \in SUBSET EventIds : Covers(C)
    BY DEF CountIsBounded
  <2>2. Cardinality(C) \in Nat
    BY <2>1, SetsAreFinite
  <2>3. Covers(C)'
    BY <1>1, <2>1, <2>2 DEF Covers
  <2> QED BY <2>1, <2>3 DEF CountIsBounded
<1> QED BY <1>2, <1>3

LEMMA WriteApart ==
    ASSUME EventsType, EventsType', InOnePlace, LossIsBounded, CountIsBounded, E!Write
    PROVE  InOnePlace' /\ CountIsBounded' /\ LossIsBounded'
<1>1. /\ next' = next /\ emitter' = emitter /\ queue' = queue /\ dropped' = dropped
      /\ raced' = raced /\ writer.pc = "writing"
  BY DEF E!Write, E!capture
<1>2. \/ writer' = E!Waiting /\ lost' = lost
      \/ writer' = [writer EXCEPT !.pc = "failed"] /\ lost' = lost
      \/ writer' = [writer EXCEPT !.pc = "failed"] /\ lost' = lost \cup {writer.row}
  BY DEF E!Write
<1>3. \/ writer'.pc = "waiting" /\ writer'.seen = 0 /\ lost' = lost
      \/ /\ writer'.pc = "failed" /\ writer'.row = writer.row /\ writer'.seen = writer.seen
         /\ lost' = lost \/ lost' = lost \cup {writer.row}
  BY <1>2 DEF E!Waiting, EventsType, WriterRow
<1>4. InOnePlace' /\ CountIsBounded'
  <2>1. Writing' => Writing /\ writer'.row = writer.row
    BY <1>1, <1>3 DEF Writing
  <2>2. writer'.seen \in {0, writer.seen, dropped}
    BY <1>3
  <2> QED BY <1>1, <2>1, <2>2, WriterApart
<1>5. CountingNow' = CountingNow
  BY <1>1 DEF CountingNow
<1>6. lost' \ Pending' \subseteq lost \ Pending
  BY <1>1, <1>3 DEF Pending, AboutToCount
<1>7. LossIsBounded'
  BY <1>1, <1>3, <1>5, <1>6, LossStays DEF LossIsBounded
<1> QED BY <1>4, <1>7

LEMMA WriterReadsApart ==
    ASSUME EventsType, EventsType', InOnePlace, LossIsBounded, CountIsBounded, E!WriterReads
    PROVE  InOnePlace' /\ CountIsBounded' /\ LossIsBounded'
<1>1. /\ next' = next /\ emitter' = emitter /\ queue' = queue /\ dropped' = dropped
      /\ lost' = lost /\ raced' = (raced \/ ~E!Free) /\ writer.pc = "failed"
      /\ writer' = E!AtCount(writer.row)
  BY DEF E!WriterReads, E!capture
<1>2. /\ writer'.pc = "counting" /\ writer'.row = writer.row /\ writer'.seen = dropped
      /\ CountingNow' = CountingNow /\ raced' = (raced \/ CountingNow # {})
  BY <1>1 DEF E!AtCount, CountingNow, E!Free
<1>3. InOnePlace' /\ CountIsBounded'
  <2>1. Writing' => Writing /\ writer'.row = writer.row
    BY <1>1, <1>2 DEF Writing
  <2>2. writer'.seen \in {0, writer.seen, dropped}
    BY <1>2
  <2> QED BY <1>1, <2>1, <2>2, WriterApart
<1>4. Pending' = Pending
  BY <1>1, <1>2 DEF Pending, AboutToCount
<1>5. LossIsBounded'
  BY <1>1, <1>2, <1>4 DEF LossIsBounded
<1> QED BY <1>3, <1>5

LEMMA WriterCountsApart ==
    ASSUME EventsType, EventsType', InOnePlace, LossIsBounded, CountIsBounded, E!WriterCounts
    PROVE  InOnePlace' /\ CountIsBounded' /\ LossIsBounded'
<1>1. /\ next' = next /\ emitter' = emitter /\ queue' = queue /\ lost' = lost /\ raced' = raced
      /\ dropped' = writer.seen + 1 /\ writer.pc = "counting" /\ writer' = E!Waiting
  BY DEF E!WriterCounts, E!capture
<1>2. /\ writer'.pc = "waiting" /\ writer'.seen = 0 /\ writer.seen \in Nat
      /\ Writing /\ ~Writing' /\ Emitting' = Emitting /\ CountingNow' = CountingNow
  BY <1>1 DEF E!Waiting, Writing, EventsType, WriterRow, Emitting, CountingNow
<1>3. InOnePlace'
  BY <1>1, <1>2 DEF InOnePlace
<1>a. writer.row \in EventIds /\ writer.row \in 1 .. (next - 1)
  BY <1>2, EventsAssumption DEF EventsType, EventIds, InOnePlace
<1>4. PICK row \in EventIds : row = writer.row /\ row \in 1 .. (next - 1)
  BY <1>a
<1>5. CountIsBounded'
  <2>1. PICK C \in SUBSET EventIds : Covers(C)
    BY DEF CountIsBounded
  <2>2. row \notin C
    BY <2>1, <1>2, <1>4 DEF Covers
  <2>3. Cardinality(C \cup {row}) = Cardinality(C) + 1 /\ Cardinality(C) \in Nat
    BY <2>2, OneMore
  <2>4. writer.seen <= Cardinality(C) /\ C \subseteq 1 .. (next - 1)
    BY <2>1 DEF Covers
  <2>5. dropped' <= Cardinality(C \cup {row}) /\ writer'.seen <= Cardinality(C \cup {row})
    BY <1>1, <1>2, <2>3, <2>4
  <2>6. \A f \in Emitters : emitter'[f].seen <= Cardinality(C \cup {row})
    BY <1>1, <2>1, <2>3 DEF Covers, EventsType, EmitterRow
  <2>7. /\ \A f \in Emitting' : emitter'[f].row \notin C \cup {row}
        /\ \A i \in 1 .. Len(queue') : queue'[i] \notin C \cup {row}
    BY <1>1, <1>2, <1>4, <2>1 DEF Covers, InOnePlace
  <2>8. C \cup {row} \subseteq 1 .. (next' - 1)
    BY <1>1, <1>4, <2>4
  <2>9. Covers(C \cup {row})'
    BY <1>2, <2>5, <2>6, <2>7, <2>8 DEF Covers
  <2>10. C \cup {row} \in SUBSET EventIds
    BY <1>4, <2>1
  <2> QED BY <2>9, <2>10 DEF CountIsBounded
<1>6. Pending \subseteq Pending' \cup {row}
  BY <1>1, <1>2, <1>4 DEF Pending, AboutToCount
<1>7. ~raced => Cardinality(lost' \ Pending') <= dropped + 1
  BY <1>1, <1>4, <1>6, LossGrows
<1>8. LossIsBounded'
  BY <1>1, <1>2, <1>7 DEF LossIsBounded
<1> QED BY <1>3, <1>5, <1>8

LEMMA RestApart ==
    ASSUME EventsType, EventsType', InOnePlace, LossIsBounded, CountIsBounded,
           E!Stop \/ E!Expire \/ E!Commit \/ \E up \in BOOLEAN : E!ReadPage(up)
    PROVE  InOnePlace' /\ CountIsBounded' /\ LossIsBounded'
<1>1. /\ next' = next \/ next' = next + 1
      /\ emitter' = emitter /\ queue' = queue /\ dropped' = dropped /\ lost' = lost
      /\ raced' = raced
  BY DEF E!Stop, E!Expire, E!Commit, E!ReadPage, E!capture, E!storage, E!counting
<1>2. \/ writer' = writer
      \/ writer.pc = "waiting" /\ writer'.pc = "stopped" /\ writer'.seen = 0
  BY DEF E!Stop, E!Expire, E!Commit, E!ReadPage, E!capture, E!storage, E!counting, E!Waiting
<1>3. /\ Emitting' = Emitting /\ CountingNow' = CountingNow /\ Writing' = Writing
      /\ Pending' = Pending /\ 1 .. (next - 1) \subseteq 1 .. (next' - 1)
  <2>1. Emitting' = Emitting /\ CountingNow' = CountingNow
    BY <1>1 DEF Emitting, CountingNow
  <2>2. Writing' = Writing /\ AboutToCount(writer)' = AboutToCount(writer)
    BY <1>2 DEF Writing, AboutToCount
  <2>3. AboutToCount(writer) => writer' = writer
    BY <1>2 DEF AboutToCount
  <2>4. Pending' = Pending
    BY <1>1, <2>2, <2>3 DEF Pending, AboutToCount
  <2>5. next \in Nat
    BY DEF EventsType
  <2>6. 1 .. (next - 1) \subseteq 1 .. (next' - 1)
    BY <1>1, <2>5
  <2> QED BY <2>1, <2>2, <2>4, <2>6
<1>4. InOnePlace'
  BY <1>1, <1>2, <1>3 DEF InOnePlace, Writing
<1>5. CountIsBounded'
  <2>1. PICK C \in SUBSET EventIds : Covers(C)
    BY DEF CountIsBounded
  <2>2. Cardinality(C) \in Nat
    BY <2>1, SetsAreFinite
  <2>3. Covers(C)'
    BY <1>1, <1>2, <1>3, <2>1, <2>2 DEF Covers, Writing
  <2> QED BY <2>1, <2>3 DEF CountIsBounded
<1>6. LossIsBounded'
  BY <1>1, <1>2, <1>3 DEF LossIsBounded
<1> QED BY <1>4, <1>5, <1>6

LEMMA StoredIs ==
    ASSUME NEW up \in BOOLEAN, EventsType
    PROVE  /\ E!Snapshot(up) \cup audit \subseteq EventIds
           /\ E!Rows(up) \subseteq E!Snapshot(up) \cup audit
           /\ ~E!Capped => E!Rows(up) = E!Snapshot(up) \cup audit
<1>1. audit \in SUBSET EventIds
  BY DEF EventsType
<1>2. E!Snapshot(up) \subseteq EventIds
  BY SnapshotIs DEF EventsType
<1>3. E!Newest(audit, Window) \subseteq audit
  BY DEF E!Newest
<1>4. ASSUME ~E!Capped, NEW x \in audit
      PROVE  x \in E!Newest(audit, Window)
  <2>1. {y \in audit : y > x} \in SUBSET audit
    OBVIOUS
  <2>2. Cardinality({y \in audit : y > x}) <= Cardinality(audit)
    BY <1>1, <2>1, Smaller
  <2>3. Cardinality(audit) \in Nat /\ Cardinality({y \in audit : y > x}) \in Nat
    BY <1>1, SetsAreFinite
  <2>4. Cardinality(audit) < Window
    BY <1>4, <2>3, SameSize, EventsAssumption DEF E!Capped
  <2>5. Cardinality({y \in audit : y > x}) < Window
    BY <2>2, <2>3, <2>4, EventsAssumption
  <2> QED BY <1>4, <2>5, SameSize DEF E!Newest
<1> QED BY <1>1, <1>2, <1>3, <1>4 DEF E!Rows

\* A page is the newest part of what remains, and all of it when it is the last.
LEMMA PageIs ==
    ASSUME NEW rest \in SUBSET EventIds, NEW page, page = E!Newest(rest, Limit)
    PROVE  /\ page \subseteq rest
           /\ \A x \in page : \A y \in rest : y >= x => y \in page
           /\ Cardinality(rest) <= Limit => page = rest
<1>1. page \subseteq rest
  BY DEF E!Newest
<1>2. ASSUME NEW x \in page, NEW y \in rest, y >= x
      PROVE  y \in page
  <2>1. {z \in rest : z > y} \in SUBSET {z \in rest : z > x}
    <3>1. x \in Nat /\ y \in Nat /\ \A z \in rest : z \in Nat
      BY <1>1, <1>2 DEF EventIds
    <3>2. \A z \in rest : z > y => z > x
      BY <1>2, <3>1
    <3> QED BY <3>2
  <2>2. {z \in rest : z > x} \in SUBSET EventIds /\ {z \in rest : z > y} \in SUBSET EventIds
    OBVIOUS
  <2>3. Cardinality({z \in rest : z > y}) <= Cardinality({z \in rest : z > x})
    BY <2>1, <2>2, Smaller
  <2>4. Cardinality({z \in rest : z > x}) < Limit
    BY SameSize DEF E!Newest
  <2>5. Cardinality({z \in rest : z > x}) \in Nat /\ Cardinality({z \in rest : z > y}) \in Nat
    BY <2>2, SetsAreFinite
  <2>6. Cardinality({z \in rest : z > y}) < Limit
    BY <2>3, <2>4, <2>5, EventsAssumption
  <2> QED BY <1>2, <2>6, SameSize DEF E!Newest
<1>3. ASSUME Cardinality(rest) <= Limit, NEW x \in rest
      PROVE  x \in page
  <2>1. {z \in rest : z > x} \in SUBSET (rest \ {x})
    BY DEF EventIds
  <2>2. rest \ {x} \in SUBSET EventIds
    OBVIOUS
  <2>3. Cardinality({z \in rest : z > x}) <= Cardinality(rest \ {x})
    BY <2>1, <2>2, Smaller
  <2>4. Cardinality(rest \ {x}) = Cardinality(rest) - 1
    BY <1>3, SetsAreFinite, FS_RemoveElement
  <2>5. {z \in rest : z > x} \in SUBSET EventIds
    OBVIOUS
  <2>6. Cardinality(rest) \in Nat /\ Cardinality({z \in rest : z > x}) \in Nat
    BY <2>5, SetsAreFinite
  <2>7. Cardinality({z \in rest : z > x}) < Limit
    BY <1>3, <2>3, <2>4, <2>6, EventsAssumption
  <2> QED BY <1>3, <2>7, SameSize DEF E!Newest
<1> QED BY <1>1, <1>2, <1>3

LEMMA PageSound ==
    ASSUME EventsType, PagesAreSound, NEW up \in BOOLEAN, E!ReadPage(up)
    PROVE  PagesAreSound'
<1> DEFINE there == E!Snapshot(up) \cup audit
           rest == {x \in E!Rows(up) : x < viewer.cursor}
           base == IF viewer.on THEN viewer.base \cap there ELSE there
           page == E!Page(up)
           cursor == IF page = {} THEN viewer.cursor
                     ELSE CHOOSE x \in page : \A y \in page : x <= y
<1>1. viewer' = [on |-> TRUE, base |-> base, got |-> viewer.got \cup page,
                 twice |-> viewer.twice \/ viewer.got \cap page # {},
                 capped |-> viewer.capped \/ E!Capped, cursor |-> cursor,
                 done |-> E!Cardinality(rest) <= Limit]
  BY DEF E!ReadPage, E!Before
<1>2. page = E!Newest(rest, Limit)
  BY DEF E!Page, E!Before
<1>3. /\ viewer.cursor \in 1 .. (MaxEvents + 1) /\ viewer.base \subseteq EventIds
      /\ viewer.got \subseteq EventIds /\ viewer.capped \in BOOLEAN
      /\ viewer.on \/ viewer.cursor = MaxEvents + 1
  BY DEF PagesAreSound, E!NotReading
<1>4. /\ there \subseteq EventIds /\ E!Rows(up) \subseteq there
      /\ ~E!Capped => E!Rows(up) = there
  BY StoredIs
<1>5. rest \in SUBSET EventIds
  BY <1>4
<1>6. base \subseteq EventIds /\ base \subseteq there /\ (viewer.on => base \subseteq viewer.base)
  BY <1>3, <1>4
<1>7. \A x \in rest : x < viewer.cursor
  OBVIOUS
<1>8. \A x \in base : x < viewer.cursor => E!Capped \/ x \in rest
  BY <1>4, <1>6
<1> HIDE DEF there, rest, base, page
<1>9. /\ page \subseteq rest /\ \A x \in page : \A y \in rest : y >= x => y \in page
      /\ Cardinality(rest) <= Limit => page = rest
  BY <1>2, <1>5, PageIs
<1>10. /\ cursor \in 1 .. (MaxEvents + 1) /\ cursor <= viewer.cursor
       /\ \A x \in page : x >= cursor
       /\ cursor \in page \/ cursor = viewer.cursor
  <2>1. CASE page = {}
    BY <2>1, <1>3
  <2>2. CASE page # {}
    <3>1. page \subseteq Nat
      BY <1>5, <1>9 DEF EventIds
    <3>2. \E x \in page : \A y \in page : x <= y
      BY <2>2, <3>1, Least
    <3>3. cursor \in page /\ \A y \in page : cursor <= y
      BY <2>2, <3>2
    <3> HIDE DEF cursor
    <3> QED BY <1>3, <1>5, <1>7, <1>9, <3>3, EventsAssumption DEF EventIds
  <2> QED BY <2>1, <2>2
<1> HIDE DEF cursor
<1>11. ASSUME NEW x \in base
       PROVE  x \in EventIds /\ (x >= viewer.cursor => viewer.on)
  <2>1. x \in EventIds
    BY <1>6
  <2>2. x \in Int /\ x <= MaxEvents
    BY <2>1, EventsAssumption DEF EventIds
  <2>3. viewer.cursor = MaxEvents + 1 => ~(x >= viewer.cursor)
    BY <2>2, EventsAssumption
  <2> QED BY <1>3, <2>1, <2>3
<1>12. viewer.got \cap page = {}
  BY <1>3, <1>5, <1>7, <1>9 DEF PagesAreSound, EventIds
<1>13. \A x \in viewer.got \cup page : x >= cursor
  BY <1>3, <1>10 DEF PagesAreSound, EventIds
<1>14. ASSUME ~viewer.capped, ~E!Capped, NEW x \in base, x >= cursor
       PROVE  x \in viewer.got \cup page
  <2>1. CASE x >= viewer.cursor
    BY <1>14, <1>11, <1>6, <2>1 DEF PagesAreSound
  <2>2. CASE ~(x >= viewer.cursor)
    <3>1. x < viewer.cursor /\ cursor \in page
      BY <1>3, <1>10, <1>11, <1>14, <2>2 DEF EventIds
    <3>2. x \in rest
      BY <1>8, <1>14, <3>1
    <3> QED BY <1>9, <1>14, <3>1, <3>2
  <2> QED BY <2>1, <2>2
<1>15. ASSUME ~viewer.capped, ~E!Capped, Cardinality(rest) <= Limit, NEW x \in base
       PROVE  x \in viewer.got \cup page
  <2>1. CASE x >= viewer.cursor
    BY <1>15, <1>11, <1>6, <2>1 DEF PagesAreSound
  <2>2. CASE ~(x >= viewer.cursor)
    <3>1. x < viewer.cursor
      BY <1>3, <1>11, <2>2 DEF EventIds
    <3> QED BY <1>8, <1>9, <1>15, <3>1
  <2> QED BY <2>1, <2>2
<1>16. E!Cardinality(rest) = Cardinality(rest)
  BY SameSize
<1>17. E!Capped \in BOOLEAN /\ (E!Cardinality(rest) <= Limit) \in BOOLEAN
  BY DEF E!Capped
<1>18. page \subseteq EventIds
  BY <1>5, <1>9
<1>19. /\ viewer'.on /\ viewer'.base = base /\ viewer'.got = viewer.got \cup page
       /\ ~viewer'.twice /\ viewer'.capped = (viewer.capped \/ E!Capped)
       /\ viewer'.cursor = cursor /\ viewer'.done = (Cardinality(rest) <= Limit)
  BY <1>1, <1>12, <1>16 DEF PagesAreSound
<1>20. viewer' \in [on : BOOLEAN, cursor : 1 .. (MaxEvents + 1), base : SUBSET EventIds,
                    got : SUBSET EventIds, twice : BOOLEAN, capped : BOOLEAN, done : BOOLEAN]
  BY <1>1, <1>3, <1>6, <1>10, <1>17, <1>18
<1> QED BY <1>13, <1>14, <1>15, <1>19, <1>20 DEF PagesAreSound

LEMMA EventsInitially == ASSUME E!Init
                         PROVE  EventsInv
<1>1. /\ next = 1 /\ emitter = [e \in Emitters |-> E!Idle] /\ memory = <<>> /\ queue = <<>>
      /\ redis = <<>> /\ writer = E!Waiting /\ dropped = 0 /\ lost = {} /\ raced = FALSE
      /\ audit = {} /\ viewer = E!NotReading
  BY DEF E!Init
<1>2. EventsType
  <2>1. emitter \in [Emitters -> EmitterRow] /\ writer \in WriterRow
    BY <1>1, IdleType
  <2>2. 1 \in 1 .. (MaxEvents + 1)
    BY EventsAssumption
  <2>3. /\ memory \in Seq(EventIds) /\ queue \in Seq(EventIds) /\ redis \in Seq(EventIds)
        /\ Len(memory) = 0 /\ Len(queue) = 0 /\ Len(redis) = 0
    BY <1>1
  <2>4. 0 <= Keep /\ 0 <= QueueSize
    BY EventsAssumption
  <2>5. dropped \in Nat /\ lost \subseteq EventIds /\ audit \subseteq EventIds /\ raced \in BOOLEAN
    BY <1>1
  <2>6. next \in 1 .. (MaxEvents + 1)
    BY <1>1, <2>2
  <2> QED BY <2>1, <2>3, <2>4, <2>5, <2>6 DEF EventsType
<1>3. InOnePlace /\ CountIsBounded /\ LossIsBounded
  <2>1. Emitting = {} /\ CountingNow = {} /\ ~Writing /\ Len(queue) = 0 /\ writer.pc # "counting"
    BY <1>1 DEF Emitting, CountingNow, Writing, E!Idle, E!Waiting
  <2>2. InOnePlace
    BY <2>1 DEF InOnePlace
  <2>3. {} \in SUBSET EventIds /\ Cardinality({}) = 0
    BY FS_EmptySet
  <2>4. Covers({})
    BY <1>1, <2>1, <2>3 DEF Covers, E!Idle, E!Waiting
  <2>5. CountIsBounded
    BY <2>3, <2>4 DEF CountIsBounded
  <2>6. lost \ Pending = {} /\ lost \subseteq Pending
    BY <1>1
  <2>7. LossIsBounded
    BY <1>1, <2>1, <2>3, <2>6 DEF LossIsBounded
  <2> QED BY <2>2, <2>5, <2>7
<1>4. PagesAreSound
  <2>1. viewer \in [on : BOOLEAN, cursor : 1 .. (MaxEvents + 1), base : SUBSET EventIds,
                    got : SUBSET EventIds, twice : BOOLEAN, capped : BOOLEAN, done : BOOLEAN]
    BY <1>1, EventsAssumption DEF E!NotReading
  <2>2. viewer.got = {} /\ viewer.base = {} /\ ~viewer.twice
    BY <1>1 DEF E!NotReading
  <2> QED BY <1>1, <2>1, <2>2 DEF PagesAreSound
<1> QED BY <1>2, <1>3, <1>4 DEF EventsInv

LEMMA RestartStep == ASSUME EventsInv, E!Restart
                     PROVE  EventsType' /\ InOnePlace' /\ CountIsBounded' /\ LossIsBounded'
<1>1. /\ emitter' = [e \in Emitters |-> E!Idle] /\ memory' = <<>> /\ queue' = <<>>
      /\ writer' = E!Waiting /\ dropped' = 0 /\ lost' = {} /\ raced' = FALSE
      /\ next' = next /\ redis' = redis /\ audit' = audit
  BY DEF E!Restart
<1>2. emitter' \in [Emitters -> EmitterRow] /\ writer' \in WriterRow
  BY <1>1, IdleType
<1>3. EventsType'
  <2>1. memory' \in Seq(EventIds) /\ queue' \in Seq(EventIds) /\ Len(memory') = 0 /\ Len(queue') = 0
    BY <1>1
  <2>2. dropped' \in Nat /\ lost' \subseteq EventIds /\ raced' \in BOOLEAN
    BY <1>1
  <2>3. /\ next' \in 1 .. (MaxEvents + 1) /\ audit' \subseteq EventIds
        /\ redis' \in Seq(EventIds) /\ Len(redis') <= Keep
    BY <1>1 DEF EventsInv, EventsType
  <2>4. 0 <= Keep /\ 0 <= QueueSize
    BY EventsAssumption
  <2> QED BY <1>2, <2>1, <2>2, <2>3, <2>4 DEF EventsType
<1>4. Emitting' = {} /\ CountingNow' = {} /\ ~Writing' /\ Len(queue') = 0 /\ writer'.pc # "counting"
  BY <1>1 DEF Emitting, CountingNow, Writing, E!Idle, E!Waiting
<1>5. InOnePlace'
  BY <1>4 DEF InOnePlace
<1>6. {} \in SUBSET EventIds /\ Cardinality({}) = 0
  BY FS_EmptySet
<1>7. Covers({})'
  BY <1>1, <1>4, <1>6 DEF Covers, E!Idle, E!Waiting
<1>8. CountIsBounded'
  BY <1>6, <1>7 DEF CountIsBounded
<1>9. lost' \ Pending' = {}
  BY <1>1
<1>10. LossIsBounded'
  BY <1>1, <1>4, <1>6, <1>9 DEF LossIsBounded
<1> QED BY <1>3, <1>5, <1>8, <1>10

LEMMA ReadingType == ASSUME EventsType, E!Commit \/ \E up \in BOOLEAN : E!ReadPage(up)
                     PROVE  EventsType'
<1>1. /\ next' \in 1 .. (MaxEvents + 1) /\ audit' \subseteq EventIds
      /\ emitter' = emitter /\ memory' = memory /\ queue' = queue /\ writer' = writer
      /\ redis' = redis /\ dropped' = dropped /\ lost' = lost /\ raced' = raced
  <2>1. CASE E!Commit
    BY <2>1, EventsAssumption DEF E!Commit, E!storage, E!counting, EventsType, EventIds
  <2>2. CASE \E up \in BOOLEAN : E!ReadPage(up)
    BY <2>2 DEF E!ReadPage, E!capture, E!storage, E!counting, EventsType
  <2> QED BY <2>1, <2>2
<1> QED BY <1>1 DEF EventsType

LEMMA PagesStay == ASSUME PagesAreSound, viewer' = viewer
                   PROVE  PagesAreSound'
  BY DEF PagesAreSound, E!NotReading

LEMMA EventsStep == ASSUME EventsInv, E!Next
                    PROVE  EventsInv'
<1>1. EventsType /\ InOnePlace /\ CountIsBounded /\ LossIsBounded /\ PagesAreSound
  BY DEF EventsInv
<1>2. ASSUME NEW e \in Emitters,
             E!Emit(e) \/ E!KeepRow(e) \/ E!Put(e) \/ E!ReadCount(e) \/ E!Count(e)
      PROVE  EventsInv'
  <2>1. EventsType'
    BY <1>1, <1>2, EmitType, KeepType, PutType, ReadCountType, CountType
  <2>2. InOnePlace' /\ CountIsBounded' /\ LossIsBounded'
    BY <1>1, <1>2, <2>1, EmitApart, KeepApart, PutApart, ReadCountApart, CountApart
  <2>3. viewer' = viewer
    BY <1>2 DEF E!Emit, E!KeepRow, E!Put, E!ReadCount, E!Count
  <2> QED BY <1>1, <2>1, <2>2, <2>3, PagesStay DEF EventsInv
<1>3. ASSUME E!Take \/ E!Write \/ E!WriterReads \/ E!WriterCounts \/ E!Stop \/ E!Expire
      PROVE  EventsInv'
  <2>1. EventsType'
    BY <1>1, <1>3, WriterTypes
  <2>2. InOnePlace' /\ CountIsBounded' /\ LossIsBounded'
    BY <1>1, <1>3, <2>1, TakeApart, WriteApart, WriterReadsApart, WriterCountsApart, RestApart
  <2>3. viewer' = viewer
    BY <1>3 DEF E!Take, E!Write, E!WriterReads, E!WriterCounts, E!Stop, E!Expire
  <2> QED BY <1>1, <2>1, <2>2, <2>3, PagesStay DEF EventsInv
<1>4. CASE E!Restart
  <2>1. viewer' = viewer
    BY <1>4 DEF E!Restart
  <2> QED BY <1>1, <1>4, <2>1, RestartStep, PagesStay DEF EventsInv
<1>5. ASSUME E!Commit \/ \E up \in BOOLEAN : E!ReadPage(up)
      PROVE  EventsInv'
  <2>1. EventsType'
    BY <1>1, <1>5, ReadingType
  <2>2. InOnePlace' /\ CountIsBounded' /\ LossIsBounded'
    BY <1>1, <1>5, <2>1, RestApart
  <2>3. PagesAreSound'
    <3>1. CASE E!Commit
      BY <1>1, <3>1, PagesStay DEF E!Commit
    <3>2. CASE \E up \in BOOLEAN : E!ReadPage(up)
      BY <1>1, <3>2, PageSound
    <3> QED BY <1>5, <3>1, <3>2
  <2> QED BY <2>1, <2>2, <2>3 DEF EventsInv
<1> QED BY <1>2, <1>3, <1>4, <1>5 DEF E!Next

LEMMA EventsStutter == ASSUME EventsInv, UNCHANGED eVars
                       PROVE  EventsInv'
<1>1. /\ next' = next /\ emitter' = emitter /\ memory' = memory /\ queue' = queue
      /\ writer' = writer /\ redis' = redis /\ dropped' = dropped /\ audit' = audit
      /\ viewer' = viewer /\ lost' = lost /\ raced' = raced
  BY DEF eVars
<1>2. EventsType' /\ PagesAreSound'
  BY <1>1, PagesStay DEF EventsInv, EventsType
<1>3. Emitting' = Emitting /\ CountingNow' = CountingNow /\ Writing' = Writing /\ Pending' = Pending
  BY <1>1 DEF Emitting, CountingNow, Writing, Pending, AboutToCount
<1>4. InOnePlace' /\ LossIsBounded'
  BY <1>1, <1>3 DEF EventsInv, InOnePlace, LossIsBounded
<1>5. \A C : Covers(C) => Covers(C)'
  BY <1>1, <1>3 DEF Covers
<1>6. CountIsBounded'
  BY <1>5 DEF EventsInv, CountIsBounded
<1> QED BY <1>2, <1>4, <1>6 DEF EventsInv

LEMMA EventsGive == ASSUME EventsInv
                    PROVE  E!TypeOK /\ E!LossIsCounted /\ E!PagesAreComplete
<1>1. dropped \in 0 .. MaxEvents
  <2>1. PICK C \in SUBSET EventIds : Covers(C)
    BY DEF EventsInv, CountIsBounded
  <2>2. Cardinality(C) \in Nat /\ dropped <= Cardinality(C)
    BY <2>1, SetsAreFinite DEF Covers
  <2>3. EventIds \in SUBSET EventIds /\ C \in SUBSET EventIds
    OBVIOUS
  <2>4. Cardinality(C) <= Cardinality(EventIds)
    BY <2>3, Smaller
  <2>5. Cardinality(EventIds) = MaxEvents
    BY FS_Interval, EventsAssumption DEF EventIds
  <2> QED BY <2>2, <2>4, <2>5, EventsAssumption DEF EventsInv, EventsType
<1>2. E!TypeOK
  BY <1>1 DEF E!TypeOK, EventsInv, EventsType, EmitterRow, WriterRow
<1>3. ASSUME E!AtRest
      PROVE  Pending = {}
  BY <1>3 DEF E!AtRest, E!Free, Pending, AboutToCount, EventsInv, EventsType, EmitterRow, WriterRow
<1>4. E!LossIsCounted
  <2>1. Pending = {} => lost \ Pending = lost
    OBVIOUS
  <2> QED BY <1>3, <2>1, SameSize DEF E!LossIsCounted, EventsInv, LossIsBounded
<1>5. E!PagesAreComplete
  BY DEF E!PagesAreComplete, EventsInv, PagesAreSound
<1> QED BY <1>2, <1>4, <1>5

\* Every event that the queue or Redis refused is in the count while nobody counts
\* (unless the writer and an emitter counted at once, and then not as none), and an
\* administrator's pages miss no row that stayed and repeat none.
THEOREM EventsStayAccounted == Spec => []EventsAreAccounted
<1>1. Init => EventsInv
  BY EventsInitially DEF Init
<1>2. EventsInv /\ [Next]_vars => EventsInv'
  <2>1. ASSUME EventsInv, [Next]_vars
        PROVE  E!Next \/ UNCHANGED eVars
    BY <2>1 DEF Next, vars
  <2> QED BY <2>1, EventsStep, EventsStutter
<1>3. EventsInv => EventsAreAccounted
  BY EventsGive DEF EventsAreAccounted
<1> QED BY <1>1, <1>2, <1>3, PTL DEF Spec

(***************************************************************************)
(* The portfolio guard, over sums of any number of symbols.                *)
(***************************************************************************)
SessionRow == [pc : {"off", "refresh", "slots", "check", "preflight", "execute", "place"},
               todo : SUBSET F!Symbols, plan : [F!Symbols -> Nat], sell : SUBSET F!Symbols,
               slots : SUBSET F!Symbols]
PortfolioType ==
    /\ provider \in Providers
    /\ price \in [F!Symbols -> Nat \ {0}] /\ risk \in [F!Symbols -> Nat]
    /\ mode \in [F!Symbols -> {"OFF", "WATCH", "AUTO"}]
    /\ held \in [F!Symbols -> Nat] /\ managed \in [F!Symbols -> Nat]
    /\ resting \in [F!Symbols -> Nat] /\ excess \in [F!Symbols -> Nat]
    /\ session \in [F!Sessions -> SessionRow]
    /\ owner \in F!Sessions \cup {None} /\ waiting \subseteq F!Sessions
    /\ blind \in BOOLEAN

(* Whoever has the lock or waits for it still runs.                       *)
LocksAreHeld ==
    /\ owner \notin waiting
    /\ owner # None => session[owner].pc # "off"
    /\ \A w \in waiting : session[w].pc # "off"
    /\ waiting # {} => owner # None

(* A session approves a symbol once, and then goes through what it approved. *)
Checking(s) == session[s].pc \in {"refresh", "slots", "check"}
PhasesAreSound ==
    \A s \in F!Sessions :
      /\ session[s].pc = "off" => session[s] = F!Off
      /\ Checking(s) => session[s].todo \cap F!Passed(s) = {}
      /\ session[s].pc \in {"preflight", "execute", "place"} => session[s].todo \subseteq F!Passed(s)
      /\ F!Approved(s) \cap session[s].sell = {}
      /\ session[s].sell # {} => provider = "BYBIT"

(* What was approved in sight of everything else: one session at a time, symbols *)
(* without a position, within the limits together with what is held and ordered. *)
Holding == {x \in F!Symbols : held[x] + resting[x] > 0}
Share(x) == (held[x] + resting[x]) * price[x] - excess[x]
Ordering == F!Total([x \in F!Symbols |-> Share(x)])
OneApproves == \A s, t \in F!Sessions : F!Approved(s) = {} \/ F!Approved(t) = {} \/ s = t
CountIsSound ==
    /\ Cardinality(Holding) <= MaxNew
    /\ \A s \in F!Sessions : Cardinality(Holding) + Cardinality(F!Approved(s)) <= MaxNew

(* Bybit's guard counts what is held: all symbols together stay within half. *)
SumIsSound ==
    provider = "BYBIT" => /\ 2 * Ordering <= Equity
                          /\ \A s \in F!Sessions : 2 * (Ordering + F!Reserved(s)) <= Equity

(* The others' does not: a symbol is ordered only if nothing is held of it.  *)
EachIsSound ==
    provider # "BYBIT" =>
      /\ \A s \in F!Sessions : \A x \in F!Symbols :
           /\ session[s].plan[x] > 0 => held[x] = 0 /\ resting[x] = 0
           /\ 2 * session[s].plan[x] <= Equity
      /\ \A x \in F!Symbols : /\ held[x] = 0 \/ resting[x] = 0
                              /\ excess[x] <= (held[x] + resting[x]) * price[x]
                              /\ 2 * Share(x) <= Equity
SeenIsSound == OneApproves /\ CountIsSound /\ SumIsSound /\ EachIsSound

PortfolioInv == /\ PortfolioType /\ LocksAreHeld /\ PhasesAreSound
                /\ \A x \in F!Symbols : provider # "MT5" => excess[x] = 0
                /\ blind \/ SeenIsSound

(* The sum of a value over the symbols.                                   *)
UpTo(v, f) == /\ f \in [0 .. NumSymbols -> Int] /\ f[0] = 0
              /\ \A n \in 1 .. NumSymbols : f[n] = f[n - 1] + v[n]

LEMMA SumExists == ASSUME NEW v \in [F!Symbols -> Int]
                   PROVE  \E f : UpTo(v, f)
<1> USE PortfolioAssumption
<1> DEFINE Sums(n) == \E f \in [0 .. n -> Int] : f[0] = 0 /\ \A i \in 1 .. n : f[i] = f[i - 1] + v[i]
           fails == {n \in 0 .. NumSymbols : ~Sums(n)}
<1>1. Sums(0)
  <2>1. [i \in 0 .. 0 |-> 0] \in [0 .. 0 -> Int] /\ [i \in 0 .. 0 |-> 0][0] = 0
    OBVIOUS
  <2>2. \A i \in 1 .. 0 : FALSE
    OBVIOUS
  <2> QED BY <2>1, <2>2
<1>2. ASSUME NEW m \in 1 .. NumSymbols, Sums(m - 1)
      PROVE  Sums(m)
  <2>1. PICK f \in [0 .. (m - 1) -> Int] : f[0] = 0 /\ \A i \in 1 .. (m - 1) : f[i] = f[i - 1] + v[i]
    BY <1>2
  <2> DEFINE g == [i \in 0 .. m |-> IF i = m THEN f[m - 1] + v[m] ELSE f[i]]
  <2>2. v[m] \in Int /\ f[m - 1] \in Int
    BY <2>1 DEF F!Symbols
  <2>3. g \in [0 .. m -> Int]
    BY <2>1, <2>2
  <2>4. g[0] = 0
    BY <2>1
  <2>5. \A i \in 1 .. m : g[i] = g[i - 1] + v[i]
    BY <2>1
  <2> QED BY <2>3, <2>4, <2>5
<1> HIDE DEF Sums
<1>3. fails = {}
  <2> SUFFICES ASSUME fails # {} PROVE FALSE
    OBVIOUS
  <2>1. fails \subseteq Nat
    OBVIOUS
  <2>2. PICK m \in fails : \A n \in fails : m <= n
    BY <2>1, Least
  <2>3. m \in 0 .. NumSymbols /\ ~Sums(m)
    BY <2>2
  <2>4. m # 0
    BY <1>1, <2>3
  <2>5. m \in 1 .. NumSymbols /\ m - 1 \in 0 .. NumSymbols /\ ~(m <= m - 1)
    BY <2>3, <2>4
  <2>6. Sums(m - 1)
    BY <2>2, <2>5
  <2> QED BY <1>2, <2>3, <2>5, <2>6
<1>4. Sums(NumSymbols)
  BY <1>3
<1> QED BY <1>4 DEF Sums, UpTo

LEMMA SumIsUnique ==
    ASSUME NEW v, NEW f, NEW g, UpTo(v, f), UpTo(v, g)
    PROVE  f = g
<1> USE PortfolioAssumption
<1> DEFINE fails == {n \in 0 .. NumSymbols : f[n] # g[n]}
<1>a. ASSUME fails = {} PROVE f = g
  <2>1. \A n \in 0 .. NumSymbols : f[n] = g[n]
    BY <1>a
  <2>2. f = [n \in 0 .. NumSymbols |-> f[n]] /\ g = [n \in 0 .. NumSymbols |-> g[n]]
    BY DEF UpTo
  <2> QED BY <2>1, <2>2
<1>1. SUFFICES ASSUME fails # {} PROVE FALSE
  BY <1>a
<1>2. fails \subseteq Nat
  OBVIOUS
<1>3. PICK m \in fails : \A n \in fails : m <= n
  BY <1>1, <1>2, Least
<1>4. m \in 0 .. NumSymbols /\ f[m] # g[m]
  BY <1>3
<1>5. m # 0
  BY <1>4 DEF UpTo
<1>6. m \in 1 .. NumSymbols /\ m - 1 \in 0 .. NumSymbols /\ ~(m <= m - 1)
  BY <1>4, <1>5
<1>7. f[m - 1] = g[m - 1]
  BY <1>3, <1>6
<1> QED BY <1>4, <1>6, <1>7 DEF UpTo

LEMMA TotalIs == ASSUME NEW v \in [F!Symbols -> Int]
                 PROVE  \E f : UpTo(v, f) /\ F!Total(v) = f[NumSymbols]
<1> USE PortfolioAssumption
<1> DEFINE R(g) == [n \in 0 .. NumSymbols |-> IF n = 0 THEN 0 ELSE g[n - 1] + v[n]]
           sum == CHOOSE g : g = R(g)
<1>1. PICK f : UpTo(v, f)
  BY SumExists
<1>2. f = R(f)
  <2>1. \A n \in 0 .. NumSymbols : f[n] = IF n = 0 THEN 0 ELSE f[n - 1] + v[n]
    BY <1>1 DEF UpTo
  <2>2. f = [n \in 0 .. NumSymbols |-> f[n]]
    BY <1>1 DEF UpTo
  <2> QED BY <2>1, <2>2
<1>3. sum = R(sum)
  BY <1>2
<1>4. F!Total(v) = sum[NumSymbols]
  BY DEF F!Total
<1> HIDE DEF sum
<1>5. \A n \in 0 .. NumSymbols : sum[n] = IF n = 0 THEN 0 ELSE sum[n - 1] + v[n]
  BY <1>3
<1> DEFINE fails == {n \in 0 .. NumSymbols : f[n] # sum[n]}
<1>6. ASSUME fails # {} PROVE FALSE
  <2>1. fails \subseteq Nat
    OBVIOUS
  <2>2. PICK m \in fails : \A n \in fails : m <= n
    BY <1>6, <2>1, Least
  <2>3. m \in 0 .. NumSymbols /\ f[m] # sum[m]
    BY <2>2
  <2>4. m # 0
    BY <1>1, <1>5, <2>3 DEF UpTo
  <2>5. m \in 1 .. NumSymbols /\ m - 1 \in 0 .. NumSymbols /\ ~(m <= m - 1)
    BY <2>3, <2>4
  <2>6. f[m - 1] = sum[m - 1]
    BY <2>2, <2>5
  <2> QED BY <1>1, <1>5, <2>3, <2>5, <2>6 DEF UpTo
<1>7. f[NumSymbols] = sum[NumSymbols]
  BY <1>6
<1> QED BY <1>1, <1>4, <1>7

LEMMA TotalIsInt == ASSUME NEW v \in [F!Symbols -> Int]
                    PROVE  F!Total(v) \in Int
<1>1. PICK f : UpTo(v, f) /\ F!Total(v) = f[NumSymbols]
  BY TotalIs
<1> QED BY <1>1, PortfolioAssumption DEF UpTo

(* The sums of two values differ as the values do, symbol after symbol.   *)
LEMMA TotalIsMonotone ==
    ASSUME NEW v \in [F!Symbols -> Int], NEW w \in [F!Symbols -> Int],
           \A x \in F!Symbols : v[x] <= w[x]
    PROVE  F!Total(v) <= F!Total(w)
<1> USE PortfolioAssumption
<1>1. PICK f : UpTo(v, f) /\ F!Total(v) = f[NumSymbols]
  BY TotalIs
<1>2. PICK g : UpTo(w, g) /\ F!Total(w) = g[NumSymbols]
  BY TotalIs
<1> DEFINE fails == {n \in 0 .. NumSymbols : ~(f[n] <= g[n])}
<1>3. ASSUME fails # {} PROVE FALSE
  <2>1. fails \subseteq Nat
    OBVIOUS
  <2>2. PICK m \in fails : \A n \in fails : m <= n
    BY <1>3, <2>1, Least
  <2>3. m \in 0 .. NumSymbols /\ ~(f[m] <= g[m])
    BY <2>2
  <2>4. m # 0
    BY <1>1, <1>2, <2>3 DEF UpTo
  <2>5. m \in 1 .. NumSymbols /\ m - 1 \in 0 .. NumSymbols /\ ~(m <= m - 1)
    BY <2>3, <2>4
  <2>6. f[m - 1] <= g[m - 1]
    BY <2>2, <2>5
  <2>7. v[m] <= w[m] /\ v[m] \in Int /\ w[m] \in Int
    BY <2>5 DEF F!Symbols
  <2>8. /\ f[m] = f[m - 1] + v[m] /\ g[m] = g[m - 1] + w[m]
        /\ f[m - 1] \in Int /\ g[m - 1] \in Int
    BY <1>1, <1>2, <2>5 DEF UpTo
  <2> QED BY <2>3, <2>6, <2>7, <2>8
<1>4. f[NumSymbols] <= g[NumSymbols]
  BY <1>3
<1> QED BY <1>1, <1>2, <1>4

(* One symbol changes.                                                    *)
LEMMA TotalChanges ==
    ASSUME NEW v \in [F!Symbols -> Int], NEW w \in [F!Symbols -> Int], NEW x \in F!Symbols,
           \A y \in F!Symbols \ {x} : w[y] = v[y]
    PROVE  F!Total(w) = F!Total(v) + (w[x] - v[x])
<1> USE PortfolioAssumption
<1>1. PICK f : UpTo(v, f) /\ F!Total(v) = f[NumSymbols]
  BY TotalIs
<1>2. PICK g : UpTo(w, g) /\ F!Total(w) = g[NumSymbols]
  BY TotalIs
<1>x. x \in 1 .. NumSymbols /\ v[x] \in Int /\ w[x] \in Int
  BY DEF F!Symbols
<1> DEFINE change(n) == IF n < x THEN 0 ELSE w[x] - v[x]
           fails == {n \in 0 .. NumSymbols : g[n] # f[n] + change(n)}
<1>3. ASSUME fails # {} PROVE FALSE
  <2>1. fails \subseteq Nat
    OBVIOUS
  <2>2. PICK m \in fails : \A n \in fails : m <= n
    BY <1>3, <2>1, Least
  <2>3. m \in 0 .. NumSymbols /\ g[m] # f[m] + change(m)
    BY <2>2
  <2>4. m # 0
    BY <1>1, <1>2, <1>x, <2>3 DEF UpTo
  <2>5. m \in 1 .. NumSymbols /\ m - 1 \in 0 .. NumSymbols /\ ~(m <= m - 1)
    BY <2>3, <2>4
  <2>6. g[m - 1] = f[m - 1] + change(m - 1)
    BY <2>2, <2>5
  <2>8. /\ f[m] = f[m - 1] + v[m] /\ g[m] = g[m - 1] + w[m]
        /\ f[m - 1] \in Int /\ g[m - 1] \in Int
    BY <1>1, <1>2, <2>5 DEF UpTo
  <2>9. v[m] \in Int /\ w[m] \in Int /\ (m # x => w[m] = v[m])
    BY <2>5 DEF F!Symbols
  <2>10. CASE m = x
    BY <1>x, <2>3, <2>5, <2>6, <2>8, <2>9, <2>10
  <2>11. CASE m # x
    BY <1>x, <2>3, <2>5, <2>6, <2>8, <2>9, <2>11
  <2> QED BY <2>10, <2>11
<1>4. g[NumSymbols] = f[NumSymbols] + change(NumSymbols)
  BY <1>3
<1> QED BY <1>1, <1>2, <1>4, <1>x

(* Nothing sums to nothing.                                               *)
LEMMA TotalOfNothing ==
    ASSUME NEW v \in [F!Symbols -> Int], \A x \in F!Symbols : v[x] = 0
    PROVE  F!Total(v) = 0
<1> USE PortfolioAssumption
<1>1. PICK f : UpTo(v, f) /\ F!Total(v) = f[NumSymbols]
  BY TotalIs
<1> DEFINE g == [n \in 0 .. NumSymbols |-> 0]
<1>2. UpTo(v, g)
  BY DEF UpTo, F!Symbols
<1>3. f = g
  BY <1>1, <1>2, SumIsUnique
<1> QED BY <1>1, <1>3

PCs == {"off", "refresh", "slots", "check", "preflight", "execute", "place"}

LEMMA BecomesRow ==
    ASSUME session \in [F!Sessions -> SessionRow], NEW s \in F!Sessions,
           NEW phase \in PCs, NEW todo \in SUBSET F!Symbols,
           NEW plan \in [F!Symbols -> Nat], NEW sell \in SUBSET F!Symbols,
           F!Becomes(s, phase, todo, plan, sell)
    PROVE  /\ session' \in [F!Sessions -> SessionRow]
           /\ session'[s].pc = phase /\ session'[s].todo = todo
           /\ session'[s].plan = plan /\ session'[s].sell = sell
           /\ \A t \in F!Sessions \ {s} : session'[t] = session[t]
<1>1. PICK slots \in SUBSET F!Symbols : slots = session[s].slots
  BY DEF SessionRow
<1>2. [pc |-> phase, todo |-> todo, plan |-> plan, sell |-> sell, slots |-> slots] \in SessionRow
  BY DEF SessionRow, PCs
<1>3. session' = [session EXCEPT ![s] = [pc |-> phase, todo |-> todo, plan |-> plan,
                                         sell |-> sell, slots |-> slots]]
  BY <1>1 DEF F!Becomes
<1> HIDE DEF SessionRow
<1> QED BY <1>2, <1>3

LEMMA SessionIs ==
    ASSUME session \in [F!Sessions -> SessionRow], NEW s \in F!Sessions
    PROVE  /\ session[s].pc \in PCs /\ session[s].todo \in SUBSET F!Symbols
           /\ session[s].plan \in [F!Symbols -> Nat] /\ session[s].sell \in SUBSET F!Symbols
           /\ session[s].slots \in SUBSET F!Symbols
  BY DEF SessionRow, PCs

LEMMA PhasesBecome ==
    ASSUME session \in [F!Sessions -> SessionRow], PhasesAreSound, provider' = provider,
           NEW s \in F!Sessions, NEW phase \in PCs, NEW todo \in SUBSET F!Symbols,
           NEW plan \in [F!Symbols -> Nat], NEW sell \in SUBSET F!Symbols,
           phase # "off",
           phase \in {"refresh", "slots", "check"} => \A x \in todo : plan[x] = 0 /\ x \notin sell,
           phase \in {"preflight", "execute", "place"} => \A x \in todo : plan[x] > 0 \/ x \in sell,
           \A x \in sell : plan[x] = 0 /\ provider = "BYBIT",
           F!Becomes(s, phase, todo, plan, sell)
    PROVE  PhasesAreSound'
<1>1. /\ session'[s].pc = phase /\ session'[s].todo = todo
      /\ session'[s].plan = plan /\ session'[s].sell = sell
      /\ \A t \in F!Sessions \ {s} : session'[t] = session[t]
  BY BecomesRow
<1>2. F!Approved(s)' = {x \in F!Symbols : plan[x] > 0}
  BY <1>1 DEF F!Approved
<1>3. ASSUME NEW t \in F!Sessions
      PROVE  /\ session'[t].pc = "off" => session'[t] = F!Off
             /\ Checking(t)' => session'[t].todo \cap F!Passed(t)' = {}
             /\ session'[t].pc \in {"preflight", "execute", "place"}
                  => session'[t].todo \subseteq F!Passed(t)'
             /\ F!Approved(t)' \cap session'[t].sell = {}
             /\ session'[t].sell # {} => provider' = "BYBIT"
  <2>1. CASE t = s
    BY <1>1, <1>2, <2>1 DEF Checking, F!Passed
  <2>2. CASE t # s
    <3>1. session'[t] = session[t]
      BY <1>1, <2>2
    <3>2. F!Approved(t)' = F!Approved(t) /\ F!Passed(t)' = F!Passed(t) /\ Checking(t)' = Checking(t)
      BY <3>1 DEF F!Approved, F!Passed, Checking
    <3> QED BY <3>1, <3>2 DEF PhasesAreSound
  <2> QED BY <2>1, <2>2
<1>4. F!Off' = F!Off
  BY DEF F!Off
<1> QED BY <1>3, <1>4 DEF PhasesAreSound

(* The lock: whoever ends or begins a step does not wait for it.          *)
LEMMA LocksReleased ==
    ASSUME LocksAreHeld, owner \in F!Sessions \cup {None}, waiting \subseteq F!Sessions,
           NEW s \in F!Sessions, s \notin waiting, F!Released(s),
           \A t \in F!Sessions \ {s} : session'[t] = session[t]
    PROVE  LocksAreHeld' /\ owner' \in F!Sessions \cup {None} /\ waiting' \subseteq F!Sessions
<1>0. None \notin F!Sessions
  BY PortfolioAssumption DEF F!Sessions
<1>1. CASE owner # s
  BY <1>0, <1>1 DEF F!Released, F!locks, LocksAreHeld
<1>2. CASE owner = s /\ waiting = {}
  BY <1>0, <1>2 DEF F!Released, LocksAreHeld
<1>3. CASE owner = s /\ waiting # {}
  <2>1. PICK w \in waiting : owner' = w /\ waiting' = waiting \ {w}
    BY <1>3 DEF F!Released
  <2>2. w \in F!Sessions /\ w # s /\ w # None
    BY <1>0, <2>1
  <2> QED BY <2>1, <2>2 DEF LocksAreHeld
<1> QED BY <1>1, <1>2, <1>3

LEMMA LocksTaken ==
    ASSUME LocksAreHeld, owner \in F!Sessions \cup {None}, waiting \subseteq F!Sessions,
           NEW s \in F!Sessions, s \notin waiting, F!Locked(s), session'[s].pc # "off",
           \A t \in F!Sessions \ {s} : session'[t] = session[t]
    PROVE  LocksAreHeld' /\ owner' \in F!Sessions \cup {None} /\ waiting' \subseteq F!Sessions
<1>0. None \notin F!Sessions
  BY PortfolioAssumption DEF F!Sessions
<1> QED BY <1>0 DEF F!Locked, LocksAreHeld

LEMMA LocksStay ==
    ASSUME LocksAreHeld, owner \in F!Sessions \cup {None}, waiting \subseteq F!Sessions,
           owner' = owner, waiting' = waiting,
           \A t \in F!Sessions : session[t].pc # "off" => session'[t].pc # "off"
    PROVE  LocksAreHeld'
  BY DEF LocksAreHeld

LEMMA TotalIsNat == ASSUME NEW v \in [F!Symbols -> Nat]
                    PROVE  F!Total(v) \in Nat
<1> DEFINE none == [x \in F!Symbols |-> 0]
<1>1. none \in [F!Symbols -> Int] /\ v \in [F!Symbols -> Int]
  OBVIOUS
<1>2. \A x \in F!Symbols : none[x] = 0 /\ none[x] <= v[x]
  OBVIOUS
<1> HIDE DEF none
<1>3. F!Total(none) = 0 /\ F!Total(none) <= F!Total(v)
  BY <1>1, <1>2, TotalOfNothing, TotalIsMonotone
<1> QED BY <1>1, <1>3, TotalIsInt

(* The values that are summed are integers.                               *)
Spent == [x \in F!Symbols |-> held[x] * price[x]]
Bound == [x \in F!Symbols |-> Share(x)]

LEMMA ProductIsNat == ASSUME NEW a \in Nat, NEW b \in Nat
                      PROVE  a * b \in Nat
  OBVIOUS

LEMMA SumsAreInts ==
    ASSUME PortfolioType
    PROVE  /\ Spent \in [F!Symbols -> Nat] /\ Bound \in [F!Symbols -> Int]
           /\ F!Gross = F!Total(Spent) /\ Ordering = F!Total(Bound)
           /\ F!Gross \in Nat /\ Ordering \in Int
           /\ \A s \in F!Sessions : F!Reserved(s) \in Nat
<1>1. ASSUME NEW x \in F!Symbols
      PROVE  /\ held[x] * price[x] \in Nat
             /\ Share(x) \in Int
  <2>1. held[x] \in Nat /\ price[x] \in Nat /\ resting[x] \in Nat /\ excess[x] \in Nat
    BY DEF PortfolioType
  <2>2. held[x] + resting[x] \in Nat
    BY <2>1
  <2>3. (held[x] + resting[x]) * price[x] \in Nat /\ held[x] * price[x] \in Nat
    BY <2>1, <2>2, ProductIsNat
  <2> QED BY <2>1, <2>3 DEF Share
<1>2. Spent \in [F!Symbols -> Nat] /\ Bound \in [F!Symbols -> Int]
  BY <1>1 DEF Spent, Bound
<1>3. F!Gross = F!Total(Spent) /\ Ordering = F!Total(Bound)
  BY DEF F!Gross, Ordering, Spent, Bound
<1>5. F!Gross \in Nat /\ Ordering \in Int
  BY <1>2, <1>3, TotalIsNat, TotalIsInt
<1>6. \A s \in F!Sessions : F!Reserved(s) \in Nat
  BY TotalIsNat, SessionIs DEF F!Reserved, PortfolioType
<1> QED BY <1>2, <1>3, <1>5, <1>6

LEMMA SymbolsAreFinite ==
    ASSUME NEW T \in SUBSET F!Symbols
    PROVE  IsFiniteSet(T) /\ Cardinality(T) \in Nat
<1>1. IsFiniteSet(F!Symbols)
  BY FS_Interval, PortfolioAssumption DEF F!Symbols
<1>2. IsFiniteSet(T)
  BY <1>1, FS_Subset
<1> QED BY <1>2, FS_CardinalityType

LEMMA Fewer == ASSUME NEW T \in SUBSET F!Symbols, NEW U \in SUBSET T
               PROVE  Cardinality(U) <= Cardinality(T)
  BY SymbolsAreFinite, FS_Subset

LEMMA SameCount == \A T : F!Cardinality(T) = Cardinality(T)
  BY DEF F!Cardinality, Cardinality

(* Sessions give up what they approved, or keep it.                        *)
LEMMA PlansShrink ==
    ASSUME PortfolioType, PortfolioType', NEW t \in F!Sessions,
           \A y \in F!Symbols :
              session'[t].plan[y] = session[t].plan[y] \/ session'[t].plan[y] = 0
    PROVE  /\ F!Approved(t)' \in SUBSET F!Approved(t) /\ F!Approved(t) \in SUBSET F!Symbols
           /\ F!Approved(t)' \in SUBSET F!Symbols
           /\ F!Reserved(t)' <= F!Reserved(t)
           /\ F!Reserved(t)' \in Nat /\ F!Reserved(t) \in Nat
           /\ Cardinality(F!Approved(t)') <= Cardinality(F!Approved(t))
           /\ Cardinality(F!Approved(t)') \in Nat /\ Cardinality(F!Approved(t)) \in Nat
<1>1. session[t].plan \in [F!Symbols -> Nat] /\ session'[t].plan \in [F!Symbols -> Nat]
  BY DEF PortfolioType, SessionRow
<1>2. PICK v \in [F!Symbols -> Nat] : v = session[t].plan
  BY <1>1
<1>3. PICK w \in [F!Symbols -> Nat] : w = session'[t].plan
  BY <1>1
<1>4. \A y \in F!Symbols : w[y] <= v[y]
  BY <1>2, <1>3
<1>5. v \in [F!Symbols -> Int] /\ w \in [F!Symbols -> Int]
  OBVIOUS
<1>6. F!Total(w) <= F!Total(v)
  BY <1>4, <1>5, TotalIsMonotone
<1>7. F!Total(w) \in Nat /\ F!Total(v) \in Nat
  BY TotalIsNat
<1>8. F!Reserved(t) = F!Total(v) /\ F!Reserved(t)' = F!Total(w)
  BY <1>2, <1>3 DEF F!Reserved
<1>9. F!Approved(t) = {y \in F!Symbols : v[y] > 0} /\ F!Approved(t)' = {y \in F!Symbols : w[y] > 0}
  BY <1>2, <1>3 DEF F!Approved
<1>10. {y \in F!Symbols : w[y] > 0} \subseteq {y \in F!Symbols : v[y] > 0}
  BY <1>4
<1>11. /\ F!Approved(t)' \in SUBSET F!Approved(t) /\ F!Approved(t) \in SUBSET F!Symbols
       /\ F!Approved(t)' \in SUBSET F!Symbols
  BY <1>9, <1>10
<1> QED BY <1>6, <1>7, <1>8, <1>11, Fewer, SymbolsAreFinite

(* What the broker has of one symbol shrinks or fills, and approvals are given up. *)
LEMMA CountShrinks ==
    ASSUME PortfolioType, PortfolioType', OneApproves, CountIsSound, Holding' \subseteq Holding,
           \A t \in F!Sessions : \A y \in F!Symbols :
              session'[t].plan[y] = session[t].plan[y] \/ session'[t].plan[y] = 0
    PROVE  OneApproves' /\ CountIsSound'
<1>1. /\ Holding' \in SUBSET Holding /\ Holding \in SUBSET F!Symbols
      /\ Holding' \in SUBSET F!Symbols
  BY DEF Holding
<1>2. /\ Cardinality(Holding') <= Cardinality(Holding)
      /\ Cardinality(Holding') \in Nat /\ Cardinality(Holding) \in Nat /\ MaxNew \in Nat
  BY <1>1, Fewer, SymbolsAreFinite, PortfolioAssumption
<1>3. Cardinality(Holding') <= MaxNew
  BY <1>2 DEF CountIsSound
<1>4. ASSUME NEW t \in F!Sessions
      PROVE  Cardinality(Holding') + Cardinality(F!Approved(t)') <= MaxNew
  <2>1. /\ Cardinality(F!Approved(t)') <= Cardinality(F!Approved(t))
        /\ Cardinality(F!Approved(t)') \in Nat /\ Cardinality(F!Approved(t)) \in Nat
    BY PlansShrink
  <2>2. Cardinality(Holding) + Cardinality(F!Approved(t)) <= MaxNew
    BY DEF CountIsSound
  <2> QED BY <2>1, <2>2, <1>2
<1>5. OneApproves'
  <2>1. \A t \in F!Sessions : F!Approved(t) = {} => F!Approved(t)' = {}
    BY PlansShrink
  <2> QED BY <2>1 DEF OneApproves
<1> QED BY <1>3, <1>4, <1>5 DEF CountIsSound

LEMMA SumShrinks ==
    ASSUME PortfolioType, PortfolioType', SumIsSound, provider' = provider, Ordering' <= Ordering,
           Ordering' \in Int,
           \A t \in F!Sessions : \A y \in F!Symbols :
              session'[t].plan[y] = session[t].plan[y] \/ session'[t].plan[y] = 0
    PROVE  SumIsSound'
<1>1. SUFFICES ASSUME provider = "BYBIT"
               PROVE  /\ 2 * Ordering' <= Equity
                      /\ \A t \in F!Sessions : 2 * (Ordering' + F!Reserved(t)') <= Equity
  BY DEF SumIsSound
<1>2. PICK o \in Int : o = Ordering'
  OBVIOUS
<1>3. PICK p \in Int : p = Ordering
  BY SumsAreInts
<1>4. PICK e \in Int : e = Equity
  BY PortfolioAssumption
<1>5. 2 * o <= e
  <2>1. o <= p /\ 2 * p <= e
    BY <1>1, <1>2, <1>3, <1>4 DEF SumIsSound
  <2> QED BY <2>1
<1>6. ASSUME NEW t \in F!Sessions
      PROVE  2 * (Ordering' + F!Reserved(t)') <= Equity
  <2>1. PICK r \in Nat : r = F!Reserved(t)
    BY PlansShrink
  <2>2. PICK q \in Nat : q = F!Reserved(t)'
    BY PlansShrink
  <2>3. q <= r
    BY <2>1, <2>2, PlansShrink
  <2>4. o <= p /\ 2 * (p + r) <= e
    BY <1>1, <1>2, <1>3, <1>4, <2>1 DEF SumIsSound
  <2>5. 2 * (o + q) <= e
    BY <2>3, <2>4
  <2> QED BY <1>2, <1>4, <2>2, <2>5
<1> QED BY <1>2, <1>4, <1>5, <1>6

(* The broker's side stays.                                                *)
LEMMA SeenStays ==
    ASSUME PortfolioType, PortfolioType', SeenIsSound, provider' = provider,
           price' = price, held' = held, resting' = resting, excess' = excess,
           \A t \in F!Sessions : \A x \in F!Symbols :
              session'[t].plan[x] = session[t].plan[x] \/ session'[t].plan[x] = 0
    PROVE  SeenIsSound'
<1>1. Holding' = Holding /\ Ordering' = Ordering /\ \A x : Share(x)' = Share(x)
  BY DEF Holding, Ordering, Share
<1>2. Ordering \in Int /\ Ordering' <= Ordering
  BY <1>1, SumsAreInts
<1>3. OneApproves' /\ CountIsSound'
  BY <1>1, CountShrinks DEF SeenIsSound
<1>4. SumIsSound'
  BY <1>1, <1>2, SumShrinks DEF SeenIsSound
<1>5. EachIsSound'
  <2>1. SUFFICES ASSUME provider # "BYBIT", NEW t \in F!Sessions, NEW x \in F!Symbols
                 PROVE  /\ session'[t].plan[x] > 0 => held[x] = 0 /\ resting[x] = 0
                        /\ 2 * session'[t].plan[x] <= Equity
    BY <1>1 DEF EachIsSound, SeenIsSound
  <2>2. /\ session[t].plan[x] > 0 => held[x] = 0 /\ resting[x] = 0
        /\ 2 * session[t].plan[x] <= Equity
    BY <2>1 DEF EachIsSound, SeenIsSound
  <2> QED BY <2>2, PortfolioAssumption
<1> QED BY <1>3, <1>4, <1>5 DEF SeenIsSound

LEMMA MineIs == ASSUME NEW s \in F!Sessions, session[s].todo \subseteq F!Symbols, session[s].todo # {}
                PROVE  F!Mine(s) \in session[s].todo
<1>1. session[s].todo \subseteq Nat
  BY PortfolioAssumption DEF F!Symbols
<1>2. \E x \in session[s].todo : \A y \in session[s].todo : x <= y
  BY <1>1, Least
<1> QED BY <1>2 DEF F!Mine, F!Min

LEMMA OffIs == F!Off \in SessionRow /\ F!Off.pc = "off" /\ F!Off.plan = [x \in F!Symbols |-> 0]
  BY DEF F!Off, SessionRow

(* A step of one session that leaves the broker's side alone.             *)
LEMMA SessionStep ==
    ASSUME PortfolioInv,
           NEW s \in F!Sessions, NEW phase \in PCs, NEW todo \in SUBSET F!Symbols,
           NEW plan \in [F!Symbols -> Nat], NEW sell \in SUBSET F!Symbols,
           phase # "off",
           phase \in {"refresh", "slots", "check"} => \A x \in todo : plan[x] = 0 /\ x \notin sell,
           phase \in {"preflight", "execute", "place"} => \A x \in todo : plan[x] > 0 \/ x \in sell,
           \A x \in sell : plan[x] = 0 /\ provider = "BYBIT",
           F!Becomes(s, phase, todo, plan, sell),
           \A x \in F!Symbols : plan[x] = session[s].plan[x] \/ plan[x] = 0,
           provider' = provider, price' = price, risk' = risk, mode' = mode,
           held' = held, managed' = managed, resting' = resting, excess' = excess, blind' = blind,
           LocksAreHeld', owner' \in F!Sessions \cup {None}, waiting' \subseteq F!Sessions
    PROVE  PortfolioInv'
<1>1. session \in [F!Sessions -> SessionRow] /\ PhasesAreSound
  BY DEF PortfolioInv, PortfolioType
<1>2. /\ session' \in [F!Sessions -> SessionRow] /\ session'[s].plan = plan
      /\ \A t \in F!Sessions \ {s} : session'[t] = session[t]
  <2>1. /\ s \in F!Sessions /\ phase \in PCs /\ todo \in SUBSET F!Symbols
        /\ plan \in [F!Symbols -> Nat] /\ sell \in SUBSET F!Symbols
        /\ F!Becomes(s, phase, todo, plan, sell)
    OBVIOUS
  <2> QED BY ONLY <1>1, <2>1, BecomesRow
<1>3. PhasesAreSound'
  BY <1>1, PhasesBecome
<1>4. PortfolioType'
  BY <1>2 DEF PortfolioInv, PortfolioType
<1>5. \A t \in F!Sessions : \A x \in F!Symbols :
        session'[t].plan[x] = session[t].plan[x] \/ session'[t].plan[x] = 0
  BY <1>2
<1>6. blind' \/ SeenIsSound'
  BY <1>4, <1>5, SeenStays DEF PortfolioInv
<1> QED BY <1>3, <1>4, <1>6 DEF PortfolioInv

(* What a session has left and what it approved, before a step.           *)
LEMMA PhaseIs ==
    ASSUME PortfolioInv, NEW s \in F!Sessions
    PROVE  /\ session[s].pc \in PCs /\ session[s].todo \in SUBSET F!Symbols
           /\ session[s].plan \in [F!Symbols -> Nat] /\ session[s].sell \in SUBSET F!Symbols
           /\ F!Approved(s) = {x \in F!Symbols : session[s].plan[x] > 0}
           /\ F!Passed(s) = F!Approved(s) \cup session[s].sell
           /\ F!Approved(s) \cap session[s].sell = {}
           /\ session[s].sell # {} => provider = "BYBIT"
           /\ session[s].pc \in {"refresh", "slots", "check"} => session[s].todo \cap F!Passed(s) = {}
           /\ session[s].pc \in {"preflight", "execute", "place"} => session[s].todo \subseteq F!Passed(s)
           /\ session[s].pc = "off" => F!Approved(s) = {} /\ session[s].sell = {}
<1>1. session \in [F!Sessions -> SessionRow]
  BY DEF PortfolioInv, PortfolioType
<1>2. session[s].pc = "off" => session[s] = F!Off
  BY DEF PortfolioInv, PhasesAreSound
<1>3. session[s].pc = "off" => F!Approved(s) = {} /\ session[s].sell = {}
  BY <1>2 DEF F!Off, F!Approved
<1> QED BY <1>1, <1>3, SessionIs DEF PortfolioInv, PhasesAreSound, F!Approved, F!Passed, Checking

LEMMA LocksFrom ==
    ASSUME PortfolioInv
    PROVE  LocksAreHeld /\ owner \in F!Sessions \cup {None} /\ waiting \subseteq F!Sessions
  BY DEF PortfolioInv, PortfolioType

LEMMA EnterRow ==
    ASSUME PortfolioInv, NEW s \in F!Sessions, NEW phase \in PCs, NEW todo \in SUBSET F!Symbols,
           F!Enter(s, phase, todo)
    PROVE  /\ F!Becomes(s, phase, todo, session[s].plan, session[s].sell)
           /\ session'[s].pc = phase
           /\ \A t \in F!Sessions \ {s} : session'[t] = session[t]
<1>1. F!Becomes(s, phase, todo, session[s].plan, session[s].sell)
  BY DEF F!Enter
<1>2. session \in [F!Sessions -> SessionRow]
  BY DEF PortfolioInv, PortfolioType
<1>3. PICK plan \in [F!Symbols -> Nat] : plan = session[s].plan
  BY PhaseIs
<1>4. PICK sell \in SUBSET F!Symbols : sell = session[s].sell
  BY PhaseIs
<1>5. F!Becomes(s, phase, todo, plan, sell)
  BY <1>1, <1>3, <1>4
<1>6. session'[s].pc = phase /\ \A t \in F!Sessions \ {s} : session'[t] = session[t]
  BY <1>2, <1>5, BecomesRow
<1> QED BY <1>1, <1>6

(* The session enters a phase with symbols of a kind that the phase is about. *)
LEMMA EnterStep ==
    ASSUME PortfolioInv,
           NEW s \in F!Sessions, NEW phase \in PCs, NEW todo \in SUBSET F!Symbols,
           phase # "off", F!Enter(s, phase, todo),
           phase \in {"refresh", "slots", "check"} => todo \cap F!Passed(s) = {},
           phase \in {"preflight", "execute", "place"} => todo \subseteq F!Passed(s),
           provider' = provider, price' = price, risk' = risk, mode' = mode,
           held' = held, managed' = managed, resting' = resting, excess' = excess, blind' = blind,
           LocksAreHeld', owner' \in F!Sessions \cup {None}, waiting' \subseteq F!Sessions
    PROVE  PortfolioInv'
<1>1. PICK plan \in [F!Symbols -> Nat] : plan = session[s].plan
  BY PhaseIs
<1>2. PICK sell \in SUBSET F!Symbols : sell = session[s].sell
  BY PhaseIs
<1>4. F!Becomes(s, phase, todo, plan, sell)
  BY <1>1, <1>2, EnterRow
<1>5. phase \in {"refresh", "slots", "check"} => \A x \in todo : plan[x] = 0 /\ x \notin sell
  BY <1>1, <1>2, PhaseIs
<1>6. phase \in {"preflight", "execute", "place"} => \A x \in todo : plan[x] > 0 \/ x \in sell
  BY <1>1, <1>2, PhaseIs
<1>7. \A x \in sell : plan[x] = 0 /\ provider = "BYBIT"
  BY <1>1, <1>2, PhaseIs
<1>8. \A x \in F!Symbols : plan[x] = session[s].plan[x] \/ plan[x] = 0
  BY <1>1
<1> QED BY <1>4, <1>5, <1>6, <1>7, <1>8, SessionStep

LEMMA StartStep == ASSUME PortfolioInv, NEW s \in F!Sessions, F!Start(s)
                   PROVE  PortfolioInv'
<1> DEFINE todo == {x \in F!Symbols : mode[x] # "OFF"}
<1>1. /\ session[s].pc = "off" /\ F!Enter(s, F!First, todo)
      /\ provider' = provider /\ price' = price /\ risk' = risk /\ mode' = mode
      /\ held' = held /\ managed' = managed /\ resting' = resting /\ excess' = excess /\ blind' = blind
      /\ owner' = owner /\ waiting' = waiting
  BY DEF F!Start, F!settings, F!locks
<1>2. F!First \in PCs /\ F!First \in {"refresh", "slots", "check"} /\ todo \in SUBSET F!Symbols
  BY DEF F!First, PCs
<1> HIDE DEF todo
<1>3. F!Passed(s) = {}
  BY <1>1, PhaseIs
<1>4. session'[s].pc = F!First /\ \A t \in F!Sessions \ {s} : session'[t] = session[t]
  BY <1>1, <1>2, EnterRow
<1>5. F!First # "off"
  BY <1>2
<1>6. LocksAreHeld'
  BY <1>1, <1>4, <1>5, LocksFrom, LocksStay
<1>7. owner' \in F!Sessions \cup {None} /\ waiting' \subseteq F!Sessions
  BY <1>1, LocksFrom
<1> QED BY <1>1, <1>2, <1>3, <1>5, <1>6, <1>7, EnterStep

(* The lock stays where it is while a session goes on.                    *)
LEMMA GoesOn ==
    ASSUME PortfolioInv, NEW s \in F!Sessions, NEW phase \in PCs, NEW todo \in SUBSET F!Symbols,
           phase # "off", F!Enter(s, phase, todo),
           phase \in {"refresh", "slots", "check"} => todo \cap F!Passed(s) = {},
           phase \in {"preflight", "execute", "place"} => todo \subseteq F!Passed(s),
           UNCHANGED F!world, UNCHANGED F!locks
    PROVE  PortfolioInv'
<1>1. /\ provider' = provider /\ price' = price /\ risk' = risk /\ mode' = mode
      /\ held' = held /\ managed' = managed /\ resting' = resting /\ excess' = excess /\ blind' = blind
      /\ owner' = owner /\ waiting' = waiting
  BY DEF F!world, F!settings, F!locks
<1>2. session'[s].pc = phase /\ \A t \in F!Sessions \ {s} : session'[t] = session[t]
  BY EnterRow
<1>3. LocksAreHeld'
  BY <1>1, <1>2, LocksFrom, LocksStay
<1>4. owner' \in F!Sessions \cup {None} /\ waiting' \subseteq F!Sessions
  BY <1>1, LocksFrom
<1> QED BY <1>1, <1>3, <1>4, EnterStep

LEMMA RefreshStep == ASSUME PortfolioInv, NEW s \in F!Sessions, F!Refresh(s)
                     PROVE  PortfolioInv'
<1>1. /\ s \notin waiting /\ session[s].pc = "refresh" /\ F!Locked(s)
      /\ F!Enter(s, "check", session[s].todo)
      /\ provider' = provider /\ price' = price /\ risk' = risk /\ mode' = mode
      /\ held' = held /\ managed' = managed /\ resting' = resting /\ excess' = excess /\ blind' = blind
  BY DEF F!Refresh, F!Running, F!world, F!settings
<1>2. PICK todo \in SUBSET F!Symbols : todo = session[s].todo
  BY PhaseIs
<1>3. "check" \in PCs /\ F!Enter(s, "check", todo) /\ todo \cap F!Passed(s) = {}
  BY <1>1, <1>2, PhaseIs DEF PCs
<1>4. session'[s].pc = "check" /\ \A t \in F!Sessions \ {s} : session'[t] = session[t]
  BY <1>3, EnterRow
<1>5. LocksAreHeld' /\ owner' \in F!Sessions \cup {None} /\ waiting' \subseteq F!Sessions
  BY <1>1, <1>4, LocksFrom, LocksTaken
<1> QED BY <1>1, <1>3, <1>5, EnterStep

LEMMA OnwardIs == ASSUME NEW s, session[s].pc \in {"slots", "check"}
                  PROVE  F!Onward(s) \in {"refresh", "slots", "check"}
  BY DEF F!Onward

LEMMA SkipStep == ASSUME PortfolioInv, NEW s \in F!Sessions, F!Skip(s)
                  PROVE  PortfolioInv'
<1>1. PICK todo \in SUBSET F!Symbols : todo = session[s].todo \ {F!Mine(s)}
  BY PhaseIs
<1>2. /\ F!Enter(s, F!Onward(s), todo) /\ session[s].pc \in {"slots", "check"}
      /\ UNCHANGED F!world /\ UNCHANGED F!locks
  BY <1>1 DEF F!Skip, F!Advance
<1>3. PICK phase \in {"refresh", "slots", "check"} : phase = F!Onward(s)
  BY <1>2, OnwardIs
<1>4. phase \in PCs /\ phase # "off" /\ phase \notin {"preflight", "execute", "place"}
  BY DEF PCs
<1>5. F!Enter(s, phase, todo) /\ todo \cap F!Passed(s) = {}
  BY <1>1, <1>2, <1>3, PhaseIs
<1> QED BY <1>2, <1>4, <1>5, GoesOn

(* The managed positions are read; nothing is approved by that.           *)
LEMMA ReadSlotsStep == ASSUME PortfolioInv, NEW s \in F!Sessions, F!ReadSlots(s)
                       PROVE  PortfolioInv'
<1>1. /\ session[s].pc = "slots"
      /\ session' = [session EXCEPT ![s].pc = "check", ![s].slots = F!Managed]
      /\ provider' = provider /\ price' = price /\ risk' = risk /\ mode' = mode
      /\ held' = held /\ managed' = managed /\ resting' = resting /\ excess' = excess
      /\ blind' = blind /\ owner' = owner /\ waiting' = waiting
  BY DEF F!ReadSlots, F!world, F!settings, F!locks
<1>2. session \in [F!Sessions -> SessionRow] /\ PhasesAreSound
  BY DEF PortfolioInv, PortfolioType
<1>3. F!Managed \in SUBSET F!Symbols
  BY DEF F!Managed
<1>4. /\ session' \in [F!Sessions -> SessionRow] /\ session'[s].pc = "check"
      /\ session'[s].todo = session[s].todo /\ session'[s].plan = session[s].plan
      /\ session'[s].sell = session[s].sell
      /\ \A t \in F!Sessions \ {s} : session'[t] = session[t]
  BY <1>1, <1>2, <1>3 DEF SessionRow
<1>5. PortfolioType'
  BY <1>1, <1>4 DEF PortfolioInv, PortfolioType
<1>6. PhasesAreSound'
  <2>1. ASSUME NEW t \in F!Sessions
        PROVE  /\ session'[t].pc = "off" => session'[t] = F!Off
               /\ Checking(t)' => session'[t].todo \cap F!Passed(t)' = {}
               /\ session'[t].pc \in {"preflight", "execute", "place"}
                    => session'[t].todo \subseteq F!Passed(t)'
               /\ F!Approved(t)' \cap session'[t].sell = {}
               /\ session'[t].sell # {} => provider' = "BYBIT"
    <3>1. /\ session'[t].plan = session[t].plan /\ session'[t].sell = session[t].sell
          /\ session'[t].todo = session[t].todo
      BY <1>4
    <3>2. F!Approved(t)' = F!Approved(t) /\ F!Passed(t)' = F!Passed(t)
      BY <3>1 DEF F!Approved, F!Passed
    <3>3. CASE t = s
      BY <1>1, <1>2, <1>4, <3>1, <3>2, <3>3 DEF PhasesAreSound, Checking
    <3>4. CASE t # s
      BY <1>1, <1>2, <1>4, <3>2, <3>4 DEF PhasesAreSound, Checking
    <3> QED BY <3>3, <3>4
  <2>2. F!Off' = F!Off
    BY DEF F!Off
  <2> QED BY <2>1, <2>2 DEF PhasesAreSound
<1>7. \A t \in F!Sessions : session[t].pc # "off" => session'[t].pc # "off"
  BY <1>4
<1>8. LocksAreHeld'
  BY <1>1, <1>7, LocksFrom, LocksStay
<1>9. \A t \in F!Sessions : \A x \in F!Symbols :
        session'[t].plan[x] = session[t].plan[x] \/ session'[t].plan[x] = 0
  BY <1>4
<1>10. blind' \/ SeenIsSound'
  BY <1>1, <1>5, <1>9, SeenStays DEF PortfolioInv
<1> QED BY <1>1, <1>5, <1>6, <1>8, <1>10 DEF PortfolioInv

LEMMA EndReadinessStep == ASSUME PortfolioInv, NEW s \in F!Sessions, F!EndReadiness(s)
                          PROVE  PortfolioInv'
<1>1. PICK todo \in SUBSET F!Symbols : todo = F!Passed(s)
  BY PhaseIs
<1>2. F!Enter(s, "preflight", todo) /\ UNCHANGED F!world /\ UNCHANGED F!locks
  BY <1>1 DEF F!EndReadiness
<1>3. "preflight" \in PCs
  BY DEF PCs
<1> QED BY <1>1, <1>2, <1>3, GoesOn

LEMMA EndPreflightStep == ASSUME PortfolioInv, NEW s \in F!Sessions, F!EndPreflight(s)
                          PROVE  PortfolioInv'
<1>1. UNCHANGED F!world /\ UNCHANGED F!locks
  BY DEF F!EndPreflight
<1>2. "execute" \in PCs /\ "place" \in PCs
  BY DEF PCs
<1>3. CASE s \in Scans /\ F!Enter(s, "execute", F!Passed(s))
  <2>1. PICK todo \in SUBSET F!Symbols : todo = F!Passed(s)
    BY PhaseIs
  <2>2. F!Enter(s, "execute", todo)
    BY <1>3, <2>1
  <2> QED BY <1>1, <1>2, <2>1, <2>2, GoesOn
<1>4. CASE \E x \in F!Approved(s) : F!Enter(s, "place", {x})
  <2>1. PICK x \in F!Approved(s) : F!Enter(s, "place", {x})
    BY <1>4
  <2>a. {x} \in SUBSET F!Symbols /\ {x} \subseteq F!Passed(s)
    BY <2>1, PhaseIs
  <2>2. PICK todo \in SUBSET F!Symbols : todo = {x} /\ todo \subseteq F!Passed(s)
    BY <2>a
  <2>3. F!Enter(s, "place", todo)
    BY <2>1, <2>2
  <2> QED BY <1>1, <1>2, <2>2, <2>3, GoesOn
<1> QED BY <1>3, <1>4 DEF F!EndPreflight

LEMMA VerifyStep == ASSUME PortfolioInv, NEW s \in F!Sessions, F!Verify(s)
                    PROVE  PortfolioInv'
<1>1. PICK todo \in SUBSET F!Symbols : todo = session[s].todo
  BY PhaseIs
<1>2. /\ s \notin waiting /\ session[s].pc = "execute" /\ F!Released(s)
      /\ F!Enter(s, "place", todo)
      /\ provider' = provider /\ price' = price /\ risk' = risk /\ mode' = mode
      /\ held' = held /\ managed' = managed /\ resting' = resting /\ excess' = excess /\ blind' = blind
  BY <1>1 DEF F!Verify, F!Running, F!world, F!settings
<1>3. "place" \in PCs /\ todo \subseteq F!Passed(s)
  BY <1>1, <1>2, PhaseIs DEF PCs
<1>4. session'[s].pc = "place" /\ \A t \in F!Sessions \ {s} : session'[t] = session[t]
  BY <1>2, <1>3, EnterRow
<1>5. LocksAreHeld' /\ owner' \in F!Sessions \cup {None} /\ waiting' \subseteq F!Sessions
  BY <1>2, <1>4, LocksFrom, LocksReleased
<1> QED BY <1>2, <1>3, <1>5, EnterStep

LEMMA ClaimStep == ASSUME PortfolioInv, NEW s \in F!Sessions, F!Claim(s)
                   PROVE  PortfolioInv'
<1>1. /\ s \notin waiting /\ session[s].pc # "off" /\ F!Locked(s) /\ session' = session
      /\ provider' = provider /\ price' = price /\ risk' = risk /\ mode' = mode
      /\ held' = held /\ managed' = managed /\ resting' = resting /\ excess' = excess /\ blind' = blind
  BY DEF F!Claim, F!Running, F!world, F!settings
<1>2. LocksAreHeld' /\ owner' \in F!Sessions \cup {None} /\ waiting' \subseteq F!Sessions
  BY <1>1, LocksFrom, LocksTaken
<1>3. PortfolioType'
  BY <1>1, <1>2 DEF PortfolioInv, PortfolioType
<1>4. PhasesAreSound'
  BY <1>1 DEF PortfolioInv, PhasesAreSound, F!Off, F!Passed, F!Approved, Checking
<1>5. \A t \in F!Sessions : \A x \in F!Symbols :
        session'[t].plan[x] = session[t].plan[x] \/ session'[t].plan[x] = 0
  BY <1>1
<1>6. blind' \/ SeenIsSound'
  BY <1>1, <1>3, <1>5, SeenStays DEF PortfolioInv
<1> QED BY <1>1, <1>2, <1>3, <1>4, <1>6 DEF PortfolioInv

LEMMA PlanningIs ==
    ASSUME PortfolioInv, NEW s \in F!Sessions, NEW x \in F!Symbols, NEW notional \in Nat
    PROVE  /\ F!Planning(s, x, notional) \in [F!Symbols -> Nat]
           /\ F!Planning(s, x, notional)[x] = notional
           /\ \A y \in F!Symbols \ {x} : F!Planning(s, x, notional)[y] = session[s].plan[y]
<1>1. PICK plan \in [F!Symbols -> Nat] : plan = session[s].plan
  BY PhaseIs
<1>2. F!Planning(s, x, notional) = [plan EXCEPT ![x] = notional]
  BY <1>1 DEF F!Planning
<1> QED BY <1>1, <1>2

LEMMA ApproveSellStep == ASSUME PortfolioInv, NEW s \in F!Sessions, F!ApproveSell(s)
                         PROVE  PortfolioInv'
<1>1. F!Mine(s) \in session[s].todo
  BY MineIs, PhaseIs DEF F!ApproveSell
<1>2. PICK x \in F!Symbols : x = F!Mine(s) /\ x \in session[s].todo
  BY <1>1, PhaseIs
<1>3. PICK todo \in SUBSET F!Symbols : todo = session[s].todo \ {x}
  BY PhaseIs
<1>4. PICK plan \in [F!Symbols -> Nat] : plan = session[s].plan
  BY PhaseIs
<1>5. PICK sell \in SUBSET F!Symbols : sell = session[s].sell \cup {x}
  BY PhaseIs
<1>6. /\ session[s].pc = "check" /\ provider = "BYBIT"
      /\ F!Becomes(s, "check", todo, plan, sell)
      /\ provider' = provider /\ price' = price /\ risk' = risk /\ mode' = mode
      /\ held' = held /\ managed' = managed /\ resting' = resting /\ excess' = excess /\ blind' = blind
      /\ owner' = owner /\ waiting' = waiting
  BY <1>2, <1>3, <1>4, <1>5 DEF F!ApproveSell, F!world, F!settings, F!locks
<1>7. \A y \in session[s].todo : plan[y] = 0 /\ y \notin session[s].sell
  BY <1>4, <1>6, PhaseIs
<1>8. \A y \in todo : plan[y] = 0 /\ y \notin sell
  BY <1>3, <1>5, <1>7
<1>9. \A y \in sell : plan[y] = 0 /\ provider = "BYBIT"
  BY <1>2, <1>4, <1>5, <1>6, <1>7, PhaseIs
<1>10. \A y \in F!Symbols : plan[y] = session[s].plan[y] \/ plan[y] = 0
  BY <1>4
<1>11. "check" \in PCs /\ "check" \notin {"preflight", "execute", "place"} /\ "check" # "off"
  BY DEF PCs
<1>12. session'[s].pc = "check" /\ \A t \in F!Sessions \ {s} : session'[t] = session[t]
  BY <1>6, <1>11, BecomesRow DEF PortfolioInv, PortfolioType
<1>13. LocksAreHeld' /\ owner' \in F!Sessions \cup {None} /\ waiting' \subseteq F!Sessions
  BY <1>6, <1>12, LocksFrom, LocksStay
<1> QED BY <1>6, <1>8, <1>9, <1>10, <1>11, <1>13, SessionStep

(* A symbol that was approved is given up or settled.                     *)
LEMMA SettledSessions ==
    ASSUME PortfolioInv, NEW s \in F!Sessions, NEW phase \in {"preflight", "execute", "place"},
           NEW x \in F!Symbols, session[s].pc \in {"preflight", "execute", "place"},
           F!Becomes(s, phase, session[s].todo \ {x}, F!Planning(s, x, 0), session[s].sell \ {x}),
           provider' = provider
    PROVE  /\ PhasesAreSound' /\ session' \in [F!Sessions -> SessionRow]
           /\ \A t \in F!Sessions \ {s} : session'[t] = session[t]
           /\ session'[s].pc = phase /\ session'[s].plan[x] = 0
           /\ \A y \in F!Symbols \ {x} : session'[s].plan[y] = session[s].plan[y]
<1>1. PICK todo \in SUBSET F!Symbols : todo = session[s].todo \ {x}
  BY PhaseIs
<1>a. 0 \in Nat
  OBVIOUS
<1>b. F!Planning(s, x, 0) \in [F!Symbols -> Nat]
  BY <1>a, PlanningIs
<1>2. PICK plan \in [F!Symbols -> Nat] : plan = F!Planning(s, x, 0)
  BY <1>b
<1>3. PICK sell \in SUBSET F!Symbols : sell = session[s].sell \ {x}
  BY PhaseIs
<1>4. F!Becomes(s, phase, todo, plan, sell)
  BY <1>1, <1>2, <1>3
<1>5. /\ \A y \in todo : plan[y] > 0 \/ y \in sell
      /\ \A y \in sell : plan[y] = 0 /\ provider = "BYBIT"
      /\ \A y \in F!Symbols : plan[y] = session[s].plan[y] \/ plan[y] = 0
  <2>1. plan[x] = 0 /\ \A y \in F!Symbols \ {x} : plan[y] = session[s].plan[y]
    BY <1>a, <1>2, PlanningIs
  <2>2. \A y \in session[s].todo : session[s].plan[y] > 0 \/ y \in session[s].sell
    BY PhaseIs
  <2>3. \A y \in session[s].sell : ~(session[s].plan[y] > 0) /\ provider = "BYBIT"
    BY PhaseIs
  <2>4. \A y \in F!Symbols : session[s].plan[y] \in Nat
    BY PhaseIs
  <2>5. session[s].sell \subseteq F!Symbols /\ session[s].todo \subseteq F!Symbols
    BY PhaseIs
  <2>6. \A y \in todo : plan[y] > 0 \/ y \in sell
    BY <1>1, <1>3, <2>1, <2>2, <2>5
  <2>7. \A y \in sell : plan[y] = 0 /\ provider = "BYBIT"
    BY <1>3, <2>1, <2>3, <2>4, <2>5
  <2> QED BY <2>1, <2>6, <2>7
<1>6. phase \in PCs /\ phase # "off" /\ phase \notin {"refresh", "slots", "check"}
  BY DEF PCs
<1>7. plan[x] = 0 /\ \A y \in F!Symbols \ {x} : plan[y] = session[s].plan[y]
  BY <1>a, <1>2, PlanningIs
<1>8. session \in [F!Sessions -> SessionRow] /\ PhasesAreSound
  BY DEF PortfolioInv, PortfolioType
<1>9. /\ session' \in [F!Sessions -> SessionRow] /\ session'[s].plan = plan
      /\ session'[s].pc = phase /\ \A t \in F!Sessions \ {s} : session'[t] = session[t]
  BY <1>4, <1>6, <1>8, BecomesRow
<1>10. PhasesAreSound'
  BY <1>4, <1>5, <1>6, <1>8, PhasesBecome
<1> QED BY <1>7, <1>9, <1>10

LEMMA SettleStep ==
    ASSUME PortfolioInv, NEW s \in F!Sessions, NEW phase \in {"preflight", "execute", "place"},
           NEW x \in F!Symbols, session[s].pc \in {"preflight", "execute", "place"},
           F!Becomes(s, phase, session[s].todo \ {x}, F!Planning(s, x, 0), session[s].sell \ {x}),
           provider' = provider, price' = price, risk' = risk, mode' = mode,
           held' = held, managed' = managed, resting' = resting, excess' = excess, blind' = blind,
           UNCHANGED F!locks \/ (s \notin waiting /\ F!Released(s))
    PROVE  PortfolioInv'
<1>1. /\ PhasesAreSound' /\ session' \in [F!Sessions -> SessionRow]
      /\ \A t \in F!Sessions \ {s} : session'[t] = session[t]
      /\ session'[s].pc = phase /\ session'[s].plan[x] = 0
      /\ \A y \in F!Symbols \ {x} : session'[s].plan[y] = session[s].plan[y]
  BY SettledSessions
<1>2. LocksAreHeld' /\ owner' \in F!Sessions \cup {None} /\ waiting' \subseteq F!Sessions
  <2>1. CASE UNCHANGED F!locks
    <3>1. owner' = owner /\ waiting' = waiting
      BY <2>1 DEF F!locks
    <3> QED BY <3>1, <1>1, LocksFrom, LocksStay
  <2>2. CASE s \notin waiting /\ F!Released(s)
    BY <2>2, <1>1, LocksFrom, LocksReleased
  <2> QED BY <2>1, <2>2
<1>3. PortfolioType'
  BY <1>1, <1>2 DEF PortfolioInv, PortfolioType
<1>4. \A t \in F!Sessions : \A y \in F!Symbols :
        session'[t].plan[y] = session[t].plan[y] \/ session'[t].plan[y] = 0
  BY <1>1
<1>5. blind' \/ SeenIsSound'
  BY <1>3, <1>4, SeenStays DEF PortfolioInv
<1> QED BY <1>1, <1>2, <1>3, <1>5 DEF PortfolioInv

LEMMA PreflightStep == ASSUME PortfolioInv, NEW s \in F!Sessions, F!Preflight(s)
                       PROVE  PortfolioInv'
<1>1. /\ session[s].pc = "preflight" /\ session[s].todo # {}
      /\ UNCHANGED F!world /\ UNCHANGED F!locks
      /\ \/ F!Advance(s, "preflight")
         \/ F!Becomes(s, "preflight", session[s].todo \ {F!Mine(s)}, F!Planning(s, F!Mine(s), 0),
                      session[s].sell \ {F!Mine(s)})
  BY DEF F!Preflight
<1>2. F!Mine(s) \in session[s].todo /\ F!Mine(s) \in F!Symbols
  BY <1>1, MineIs, PhaseIs
<1>3. CASE F!Advance(s, "preflight")
  <2>1. PICK todo \in SUBSET F!Symbols : todo = session[s].todo \ {F!Mine(s)}
    BY PhaseIs
  <2>2. F!Enter(s, "preflight", todo)
    BY <1>3, <2>1 DEF F!Advance
  <2>3. todo \subseteq F!Passed(s) /\ "preflight" \in PCs
    BY <1>1, <2>1, PhaseIs DEF PCs
  <2> QED BY <1>1, <2>2, <2>3, GoesOn
<1>4. CASE F!Becomes(s, "preflight", session[s].todo \ {F!Mine(s)}, F!Planning(s, F!Mine(s), 0),
                     session[s].sell \ {F!Mine(s)})
  <2>1. PICK x \in F!Symbols : x = F!Mine(s)
    BY <1>2
  <2>2. F!Becomes(s, "preflight", session[s].todo \ {x}, F!Planning(s, x, 0), session[s].sell \ {x})
    BY <1>4, <2>1
  <2>3. /\ provider' = provider /\ price' = price /\ risk' = risk /\ mode' = mode
        /\ held' = held /\ managed' = managed /\ resting' = resting /\ excess' = excess /\ blind' = blind
    BY <1>1 DEF F!world, F!settings
  <2> QED BY <1>1, <2>2, <2>3, SettleStep
<1> QED BY <1>1, <1>3, <1>4

LEMMA DoneIs ==
    ASSUME NEW s, F!Done(s), session[s].pc \in {"execute", "place"}
    PROVE  \E phase \in {"execute", "place"} :
              F!Becomes(s, phase, session[s].todo \ {F!Mine(s)}, F!Planning(s, F!Mine(s), 0),
                        session[s].sell \ {F!Mine(s)})
  BY DEF F!Done

LEMMA RefuseStep == ASSUME PortfolioInv, NEW s \in F!Sessions, F!Refuse(s)
                    PROVE  PortfolioInv'
<1>1. /\ session[s].pc \in {"execute", "place"} /\ session[s].todo # {} /\ s \notin waiting
      /\ F!Done(s) /\ F!Released(s)
      /\ provider' = provider /\ price' = price /\ risk' = risk /\ mode' = mode
      /\ held' = held /\ managed' = managed /\ resting' = resting /\ excess' = excess /\ blind' = blind
  BY DEF F!Refuse, F!Running, F!world, F!settings
<1>2. PICK x \in F!Symbols : x = F!Mine(s)
  BY <1>1, MineIs, PhaseIs
<1>3. PICK phase \in {"execute", "place"} :
         F!Becomes(s, phase, session[s].todo \ {x}, F!Planning(s, x, 0), session[s].sell \ {x})
  BY <1>1, <1>2, DoneIs
<1>4. phase \in {"preflight", "execute", "place"} /\ session[s].pc \in {"preflight", "execute", "place"}
  BY <1>1, <1>3
<1> QED BY <1>1, <1>3, <1>4, SettleStep

(* A session that ends has nothing approved.                              *)
LEMMA EndStep == ASSUME PortfolioInv, NEW s \in F!Sessions, F!End(s)
                 PROVE  PortfolioInv'
<1>1. /\ s \notin waiting /\ F!Released(s) /\ session' = [session EXCEPT ![s] = F!Off]
      /\ provider' = provider /\ price' = price /\ risk' = risk /\ mode' = mode
      /\ held' = held /\ managed' = managed /\ resting' = resting /\ excess' = excess /\ blind' = blind
  BY DEF F!End, F!Running, F!world, F!settings
<1>2. session \in [F!Sessions -> SessionRow]
  BY DEF PortfolioInv, PortfolioType
<1>3. /\ session' \in [F!Sessions -> SessionRow] /\ session'[s] = F!Off
      /\ \A t \in F!Sessions \ {s} : session'[t] = session[t]
  BY <1>1, <1>2, OffIs
<1>4. LocksAreHeld' /\ owner' \in F!Sessions \cup {None} /\ waiting' \subseteq F!Sessions
  BY <1>1, <1>3, LocksFrom, LocksReleased
<1>5. PortfolioType'
  BY <1>1, <1>3, <1>4 DEF PortfolioInv, PortfolioType
<1>6. PhasesAreSound'
  <2>1. F!Off' = F!Off
    BY DEF F!Off
  <2>2. ASSUME NEW t \in F!Sessions \ {s}
        PROVE  /\ F!Approved(t)' = F!Approved(t) /\ F!Passed(t)' = F!Passed(t)
               /\ Checking(t)' = Checking(t) /\ session'[t] = session[t]
    BY <1>3 DEF F!Approved, F!Passed, Checking
  <2>3. session'[s].todo = {} /\ session'[s].sell = {} /\ session'[s].pc = "off"
    BY <1>3 DEF F!Off
  <2> QED BY <1>1, <1>3, <2>1, <2>2, <2>3 DEF PortfolioInv, PhasesAreSound
<1>7. \A t \in F!Sessions : \A x \in F!Symbols :
        session'[t].plan[x] = session[t].plan[x] \/ session'[t].plan[x] = 0
  BY <1>3 DEF F!Off
<1>8. blind' \/ SeenIsSound'
  BY <1>1, <1>5, <1>7, SeenStays DEF PortfolioInv
<1> QED BY <1>1, <1>4, <1>5, <1>6, <1>8 DEF PortfolioInv

LEMMA RestartSessions == ASSUME PortfolioInv, F!Restart
                         PROVE  PortfolioInv'
<1>1. /\ session' = [s \in F!Sessions |-> F!Off] /\ owner' = None /\ waiting' = {}
      /\ provider' = provider /\ price' = price /\ risk' = risk /\ mode' = mode
      /\ held' = held /\ managed' = managed /\ resting' = resting /\ excess' = excess /\ blind' = blind
  BY DEF F!Restart, F!world, F!settings
<1>2. session' \in [F!Sessions -> SessionRow] /\ \A t \in F!Sessions : session'[t] = F!Off
  BY <1>1, OffIs
<1>3. PortfolioType'
  BY <1>1, <1>2 DEF PortfolioInv, PortfolioType
<1>4. PhasesAreSound'
  <2>1. F!Off' = F!Off
    BY DEF F!Off
  <2>2. \A t \in F!Sessions : session'[t].todo = {} /\ session'[t].sell = {} /\ session'[t].pc = "off"
    BY <1>2 DEF F!Off
  <2> QED BY <1>2, <2>1, <2>2 DEF PhasesAreSound
<1>5. \A t \in F!Sessions : \A x \in F!Symbols :
        session'[t].plan[x] = session[t].plan[x] \/ session'[t].plan[x] = 0
  BY <1>2 DEF F!Off
<1>6. LocksAreHeld'
  BY <1>1 DEF LocksAreHeld
<1>7. blind' \/ SeenIsSound'
  BY <1>1, <1>3, <1>5, SeenStays DEF PortfolioInv
<1> QED BY <1>1, <1>3, <1>4, <1>6, <1>7 DEF PortfolioInv

LEMMA StopAutoStep == ASSUME PortfolioInv, NEW x \in F!Symbols, F!StopAuto(x)
                      PROVE  PortfolioInv'
<1>1. /\ session' = session /\ owner' = owner /\ waiting' = waiting
      /\ provider' = provider /\ price' = price /\ risk' = risk
      /\ mode' = [mode EXCEPT ![x] = "WATCH"]
      /\ held' = held /\ managed' = managed /\ resting' = resting /\ excess' = excess /\ blind' = blind
  BY DEF F!StopAuto, F!settings, F!locks
<1>2. PortfolioType'
  BY <1>1 DEF PortfolioInv, PortfolioType
<1>3. PhasesAreSound' /\ LocksAreHeld'
  BY <1>1 DEF PortfolioInv, PhasesAreSound, LocksAreHeld, F!Off, F!Passed, F!Approved, Checking
<1>4. blind' \/ SeenIsSound'
  BY <1>1, <1>2, SeenStays DEF PortfolioInv
<1> QED BY <1>1, <1>2, <1>3, <1>4 DEF PortfolioInv

LEMMA RecordStep == ASSUME PortfolioInv, NEW x \in F!Symbols, F!Record(x)
                    PROVE  PortfolioInv'
<1>1. /\ session' = session /\ owner' = owner /\ waiting' = waiting
      /\ provider' = provider /\ price' = price /\ risk' = risk /\ mode' = mode
      /\ managed' = [managed EXCEPT ![x] = held[x]]
      /\ held' = held /\ resting' = resting /\ excess' = excess /\ blind' = blind
  BY DEF F!Record, F!settings, F!locks
<1>2. PortfolioType'
  BY <1>1 DEF PortfolioInv, PortfolioType
<1>3. PhasesAreSound' /\ LocksAreHeld'
  BY <1>1 DEF PortfolioInv, PhasesAreSound, LocksAreHeld, F!Off, F!Passed, F!Approved, Checking
<1>4. blind' \/ SeenIsSound'
  BY <1>1, <1>2, SeenStays DEF PortfolioInv
<1> QED BY <1>1, <1>2, <1>3, <1>4 DEF PortfolioInv

LEMMA ShareIs == ASSUME PortfolioType, NEW x \in F!Symbols
                 PROVE  /\ Bound[x] = Share(x) /\ Share(x) \in Int
                        /\ held[x] \in Nat /\ resting[x] \in Nat /\ price[x] \in Nat \ {0}
                        /\ excess[x] \in Nat /\ (held[x] + resting[x]) * price[x] \in Nat
<1>1. held[x] \in Nat /\ price[x] \in Nat \ {0} /\ resting[x] \in Nat /\ excess[x] \in Nat
  BY DEF PortfolioType
<1>2. held[x] + resting[x] \in Nat
  BY <1>1
<1>3. (held[x] + resting[x]) * price[x] \in Nat
  BY <1>1, <1>2, ProductIsNat
<1> QED BY <1>1, <1>3 DEF Bound, Share

(* One symbol changes on the broker's side.                               *)
LEMMA SharesAreInts ==
    ASSUME NEW h \in [F!Symbols -> Nat], NEW r \in [F!Symbols -> Nat],
           NEW p \in [F!Symbols -> Nat], NEW e \in [F!Symbols -> Nat]
    PROVE  [x \in F!Symbols |-> (h[x] + r[x]) * p[x] - e[x]] \in [F!Symbols -> Int]
<1>1. ASSUME NEW x \in F!Symbols
      PROVE  (h[x] + r[x]) * p[x] - e[x] \in Int
  <2>1. h[x] \in Nat /\ p[x] \in Nat /\ r[x] \in Nat /\ e[x] \in Nat
    OBVIOUS
  <2>2. h[x] + r[x] \in Nat
    BY <2>1
  <2>3. (h[x] + r[x]) * p[x] \in Nat
    BY <2>1, <2>2, ProductIsNat
  <2> QED BY <2>1, <2>3
<1> QED BY <1>1

LEMMA OrderingChanges ==
    ASSUME PortfolioType, PortfolioType', NEW x \in F!Symbols,
           \A y \in F!Symbols \ {x} : Share(y)' = Share(y)
    PROVE  Ordering' = Ordering + (Share(x)' - Share(x))
<1>1. PICK v \in [F!Symbols -> Int] : v = Bound
  BY SumsAreInts
<1>2. /\ held' \in [F!Symbols -> Nat] /\ resting' \in [F!Symbols -> Nat]
      /\ price' \in [F!Symbols -> Nat] /\ excess' \in [F!Symbols -> Nat]
  BY DEF PortfolioType
<1>3. Bound' \in [F!Symbols -> Int]
  BY <1>2, SharesAreInts DEF Bound, Share
<1>4. PICK w \in [F!Symbols -> Int] : w = Bound'
  BY <1>3
<1>5. Ordering = F!Total(v) /\ Ordering' = F!Total(w)
  BY <1>1, <1>4 DEF Ordering, Bound
<1>6. \A y \in F!Symbols : v[y] = Share(y) /\ w[y] = Share(y)'
  BY <1>1, <1>4 DEF Bound
<1>7. F!Total(w) = F!Total(v) + (w[x] - v[x])
  BY <1>6, TotalChanges
<1> QED BY <1>5, <1>6, <1>7

LEMMA QuotientIsInt == ASSUME NEW a \in Int, NEW b \in Nat \ {0}
                       PROVE  a \div b \in Int
  OBVIOUS

LEMMA LeastOfTwo == ASSUME NEW a \in Int, NEW b \in Int
                    PROVE  F!Min({a, b}) \in {a, b}
<1>1. \E x \in {a, b} : \A y \in {a, b} : x <= y
  OBVIOUS
<1> QED BY <1>1 DEF F!Min

LEMMA MostOfTwo == ASSUME NEW a \in Int, NEW b \in Int
                   PROVE  F!Max({a, b}) \in {a, b} /\ F!Max({a, b}) >= a /\ F!Max({a, b}) >= b
<1>1. \E x \in {a, b} : \A y \in {a, b} : x >= y
  OBVIOUS
<1>2. F!Max({a, b}) \in {a, b} /\ \A y \in {a, b} : F!Max({a, b}) >= y
  BY <1>1 DEF F!Max
<1> QED BY <1>2

LEMMA ProductIsInt == ASSUME NEW a \in Int, NEW b \in Int
                      PROVE  a * b \in Int
  OBVIOUS

(* What readiness plans for a symbol is a number.                         *)
LEMMA ProposedIs == ASSUME PortfolioInv, NEW x \in F!Symbols
                   PROVE  F!Proposed(x) \in Int
<1>1. risk[x] \in Int /\ price[x] \in Nat \ {0} /\ price[x] \in Int
  BY DEF PortfolioInv, PortfolioType
<1>2. Equity - F!Gross \in Int /\ MaxPct \in Int
  BY SumsAreInts, PortfolioAssumption DEF PortfolioInv
<1>3. (Equity - F!Gross) * MaxPct \in Int
  BY <1>2, ProductIsInt
<1>4. ((Equity - F!Gross) * MaxPct) \div 100 \in Int
  BY <1>3, QuotientIsInt
<1>5. F!Planned(x) \in Int
  <2>1. PICK cash \in Int : cash = ((Equity - F!Gross) * MaxPct) \div 100
    BY <1>4
  <2>2. F!Planned(x) = F!Min({risk[x], cash})
    BY <2>1 DEF F!Planned
  <2>3. F!Min({risk[x], cash}) \in {risk[x], cash}
    BY <1>1, LeastOfTwo
  <2> QED BY <1>1, <2>2, <2>3
<1>6. F!WholeUnits(x) \in Int
  BY <1>1, <1>5, QuotientIsInt DEF F!WholeUnits
<1>7. F!WholeUnits(x) * price[x] \in Int
  BY <1>1, <1>6, ProductIsInt
<1> QED BY <1>5, <1>7 DEF F!Proposed

(* One more symbol, that was not among them.                              *)
LEMMA OneMoreSymbol == ASSUME NEW T \in SUBSET F!Symbols, NEW x \in F!Symbols \ T
                 PROVE  Cardinality(T \cup {x}) = Cardinality(T) + 1
  BY SymbolsAreFinite, FS_AddElement

(* A session reserves a part of the limits for a symbol it has checked.   *)
LEMMA SeenApproved ==
    ASSUME PortfolioType, PortfolioType', SeenIsSound, provider' = provider,
           price' = price, held' = held, resting' = resting, excess' = excess,
           NEW s \in F!Sessions, NEW x \in F!Symbols, NEW n \in Nat, n > 0,
           session[s].plan[x] = 0, session'[s].plan[x] = n,
           \A y \in F!Symbols \ {x} : session'[s].plan[y] = session[s].plan[y],
           \A t \in F!Sessions \ {s} : session'[t] = session[t] /\ F!Approved(t) = {},
           \A y \in F!Symbols : resting[y] = 0,
           provider # "BYBIT" => held[x] = 0,
           provider = "BYBIT" => 2 * (F!Gross + F!Reserved(s) + n) <= Equity,
           2 * n <= Equity,
           Cardinality(F!Positions) + Cardinality(F!Approved(s)) + 1 <= MaxNew
    PROVE  SeenIsSound'
<1>1. Holding' = Holding /\ Ordering' = Ordering /\ \A y : Share(y)' = Share(y)
  BY DEF Holding, Ordering, Share
<1>2. session[s].plan \in [F!Symbols -> Nat] /\ session'[s].plan \in [F!Symbols -> Nat]
  BY DEF PortfolioType, SessionRow
<1>3. /\ F!Approved(s)' = F!Approved(s) \cup {x} /\ x \notin F!Approved(s)
      /\ F!Approved(s) \in SUBSET F!Symbols
  BY <1>2 DEF F!Approved
<1>4. \A t \in F!Sessions \ {s} : F!Approved(t)' = {} /\ F!Reserved(t)' = F!Reserved(t)
  BY DEF F!Approved, F!Reserved
<1>5. F!Reserved(s)' = F!Reserved(s) + n
  <2>1. PICK v \in [F!Symbols -> Int] : v = session[s].plan
    BY <1>2
  <2>2. PICK w \in [F!Symbols -> Int] : w = session'[s].plan
    BY <1>2
  <2>3. F!Total(w) = F!Total(v) + (w[x] - v[x])
    BY <2>1, <2>2, TotalChanges
  <2>4. w[x] - v[x] = n
    BY <2>1, <2>2
  <2> QED BY <2>1, <2>2, <2>3, <2>4 DEF F!Reserved
<1>6. Ordering <= F!Gross
  <2>1. PICK v \in [F!Symbols -> Int] : v = Bound
    BY SumsAreInts
  <2>2. PICK w \in [F!Symbols -> Int] : w = Spent
    BY SumsAreInts
  <2>3. ASSUME NEW y \in F!Symbols PROVE v[y] <= w[y]
    <3>1. held[y] \in Nat /\ price[y] \in Nat /\ resting[y] = 0 /\ excess[y] \in Nat
      BY DEF PortfolioType
    <3>2. held[y] + resting[y] = held[y] /\ held[y] * price[y] \in Nat
      BY <3>1, ProductIsNat
    <3>3. v[y] = held[y] * price[y] - excess[y] /\ w[y] = held[y] * price[y]
      BY <2>1, <2>2, <3>2 DEF Bound, Spent, Share
    <3> QED BY <3>1, <3>2, <3>3
  <2>4. F!Total(v) <= F!Total(w)
    BY <2>3, TotalIsMonotone
  <2> QED BY <2>1, <2>2, <2>4, SumsAreInts
<1>7. Holding = F!Positions
  BY DEF Holding, F!Positions, PortfolioType
<1>8. /\ Ordering \in Int /\ F!Gross \in Nat /\ F!Reserved(s) \in Nat
      /\ Cardinality(Holding) \in Nat /\ Cardinality(F!Approved(s)) \in Nat
      /\ Equity \in Nat /\ MaxNew \in Nat
  BY <1>3, SumsAreInts, SymbolsAreFinite, PortfolioAssumption DEF Holding
<1>9. OneApproves'
  BY <1>4 DEF OneApproves
<1>10. CountIsSound'
  <2>1. Cardinality(Holding') + Cardinality(F!Approved(s)') <= MaxNew
    BY <1>1, <1>3, <1>7, <1>8, OneMoreSymbol
  <2>2. Cardinality(Holding') <= MaxNew
    BY <1>1 DEF SeenIsSound, CountIsSound
  <2>3. Cardinality({}) = 0
    BY FS_EmptySet
  <2>4. ASSUME NEW t \in F!Sessions \ {s}
        PROVE  Cardinality(Holding') + Cardinality(F!Approved(t)') <= MaxNew
    <3>1. Cardinality(F!Approved(t)') = 0
      BY <1>4, <2>3
    <3>2. Cardinality(Holding') \in Nat
      BY <1>1, <1>8
    <3> QED BY <2>2, <3>1, <3>2
  <2> QED BY <2>1, <2>2, <2>4 DEF CountIsSound
<1>11. SumIsSound'
  <2>1. SUFFICES ASSUME provider = "BYBIT"
                 PROVE  /\ 2 * Ordering' <= Equity
                        /\ \A t \in F!Sessions : 2 * (Ordering' + F!Reserved(t)') <= Equity
    BY DEF SumIsSound
  <2>2. /\ 2 * Ordering <= Equity
        /\ \A t \in F!Sessions : 2 * (Ordering + F!Reserved(t)) <= Equity
    BY <2>1 DEF SeenIsSound, SumIsSound
  <2>3. 2 * (Ordering' + F!Reserved(s)') <= Equity
    BY <1>1, <1>5, <1>6, <1>8, <2>1
  <2> QED BY <1>1, <1>4, <2>2, <2>3
<1>12. EachIsSound'
  <2>1. SUFFICES ASSUME provider # "BYBIT", NEW t \in F!Sessions, NEW y \in F!Symbols
                 PROVE  /\ session'[t].plan[y] > 0 => held[y] = 0 /\ resting[y] = 0
                        /\ 2 * session'[t].plan[y] <= Equity
    BY <1>1 DEF EachIsSound, SeenIsSound
  <2>2. CASE t = s /\ y = x
    BY <2>1, <2>2
  <2>3. CASE ~(t = s /\ y = x)
    <3>1. session'[t].plan[y] = session[t].plan[y]
      BY <2>3
    <3> QED BY <2>1, <3>1 DEF EachIsSound, SeenIsSound
  <2> QED BY <2>2, <2>3
<1> QED BY <1>9, <1>10, <1>11, <1>12 DEF SeenIsSound

LEMMA ApproveStep == ASSUME PortfolioInv, NEW s \in F!Sessions, F!Approve(s)
                     PROVE  PortfolioInv'
<1>1. F!Mine(s) \in session[s].todo
  BY MineIs, PhaseIs DEF F!Approve
<1>2. PICK x \in F!Symbols : x = F!Mine(s) /\ x \in session[s].todo
  BY <1>1, PhaseIs
<1>3. F!Proposed(x) \in Int /\ F!Proposed(x) > 0
  BY <1>2, ProposedIs DEF F!Approve
<1>4. PICK n \in Nat : n = F!Proposed(x) /\ n > 0
  BY <1>3
<1>5. PICK todo \in SUBSET F!Symbols : todo = session[s].todo \ {x}
  BY PhaseIs
<1>a. F!Planning(s, x, n) \in [F!Symbols -> Nat]
  BY PlanningIs
<1>6. PICK plan \in [F!Symbols -> Nat] : plan = F!Planning(s, x, n)
  BY <1>a
<1>7. PICK sell \in SUBSET F!Symbols : sell = session[s].sell
  BY PhaseIs
<1>8. PICK phase \in {"refresh", "slots", "check"} : phase = F!Onward(s)
  BY OnwardIs DEF F!Approve
<1>9. /\ session[s].pc = "check" /\ F!Becomes(s, phase, todo, plan, sell)
      /\ F!Quantity(x) = 0 /\ F!WithinGuard(s, n)
      /\ provider' = provider /\ price' = price /\ risk' = risk /\ mode' = mode
      /\ held' = held /\ managed' = managed /\ resting' = resting /\ excess' = excess
      /\ owner' = owner /\ waiting' = waiting
  BY <1>2, <1>4, <1>5, <1>6, <1>7, <1>8 DEF F!Approve, F!settings, F!locks
<1>10. blind' = (blind \/ (\E y \in F!Symbols : resting[y] > 0)
                       \/ ~(F!Positions \subseteq F!Existing(s))
                       \/ \E t \in F!Sessions \ {s} : F!Approved(t) # {})
  BY DEF F!Approve
<1>b. blind' \in BOOLEAN
  BY <1>10, Zenon DEF PortfolioInv, PortfolioType
<1>11. plan[x] = n /\ \A y \in F!Symbols \ {x} : plan[y] = session[s].plan[y]
  BY <1>6, PlanningIs
<1>12. /\ \A y \in session[s].todo : session[s].plan[y] = 0 /\ y \notin sell
       /\ \A y \in sell : session[s].plan[y] = 0 /\ provider = "BYBIT"
  BY <1>7, <1>9, PhaseIs
<1>13. phase \in PCs /\ phase # "off" /\ phase \notin {"preflight", "execute", "place"}
  BY DEF PCs
<1>14. /\ phase \in {"refresh", "slots", "check"} => \A y \in todo : plan[y] = 0 /\ y \notin sell
       /\ phase \in {"preflight", "execute", "place"} => \A y \in todo : plan[y] > 0 \/ y \in sell
  BY <1>5, <1>11, <1>12, <1>13
<1>15. \A y \in sell : plan[y] = 0 /\ provider = "BYBIT"
  BY <1>2, <1>11, <1>12
<1>16. session \in [F!Sessions -> SessionRow] /\ PhasesAreSound
  BY DEF PortfolioInv, PortfolioType
<1>17. PhasesAreSound'
  BY <1>9, <1>13, <1>14, <1>15, <1>16, PhasesBecome
<1>18. /\ session' \in [F!Sessions -> SessionRow] /\ session'[s].plan = plan
       /\ session'[s].pc = phase
       /\ \A t \in F!Sessions \ {s} : session'[t] = session[t]
  BY <1>9, <1>13, <1>16, BecomesRow
<1>19. LocksAreHeld'
  BY <1>9, <1>13, <1>18, LocksFrom, LocksStay
<1>20. PortfolioType'
  BY <1>9, <1>b, <1>18 DEF PortfolioInv, PortfolioType
<1>21. blind' \/ SeenIsSound'
  <2>1. SUFFICES ASSUME ~blind' PROVE SeenIsSound'
    OBVIOUS
  <2>2. PortfolioType /\ SeenIsSound
    BY <1>10, <2>1 DEF PortfolioInv
  <2>3. \A y \in F!Symbols : resting[y] = 0
    <3>1. \A y \in F!Symbols : ~(resting[y] > 0)
      BY <1>10, <2>1, Zenon
    <3>2. \A y \in F!Symbols : resting[y] \in Nat
      BY <2>2 DEF PortfolioType
    <3> QED BY <3>1, <3>2
  <2>4. \A t \in F!Sessions \ {s} : session'[t] = session[t] /\ F!Approved(t) = {}
    BY <1>10, <1>18, <2>1
  <2>5. session[s].plan[x] = 0 /\ session'[s].plan[x] = n
    BY <1>2, <1>11, <1>12, <1>18
  <2>6. \A y \in F!Symbols \ {x} : session'[s].plan[y] = session[s].plan[y]
    BY <1>11, <1>18
  <2>7. /\ F!Gross \in Nat /\ F!Reserved(s) \in Nat /\ Equity \in Nat
    BY <2>2, SumsAreInts, PortfolioAssumption
  <2>8. /\ 2 * (F!ExistingGross + F!Reserved(s) + n) <= Equity
        /\ Cardinality(F!Existing(s)) + Cardinality(F!Approved(s)) + 1 <= MaxNew
    BY <1>9, SameCount DEF F!WithinGuard
  <2>9. F!ExistingGross \in Nat /\ (provider = "BYBIT" => F!ExistingGross = F!Gross)
    BY <2>7 DEF F!ExistingGross
  <2>10. provider = "BYBIT" => 2 * (F!Gross + F!Reserved(s) + n) <= Equity
    BY <2>8, <2>9
  <2>11. 2 * n <= Equity
    BY <2>7, <2>8, <2>9
  <2>12. Cardinality(F!Positions) + Cardinality(F!Approved(s)) + 1 <= MaxNew
    <3>1. F!Existing(s) \in SUBSET F!Symbols
      BY PhaseIs, <1>16, SessionIs DEF F!Existing, F!Positions
    <3>2. F!Positions \in SUBSET F!Existing(s) /\ F!Positions \in SUBSET F!Symbols
      BY <1>10, <2>1 DEF F!Positions
    <3>3. F!Approved(s) \in SUBSET F!Symbols
      BY DEF F!Approved
    <3>4. /\ Cardinality(F!Positions) <= Cardinality(F!Existing(s))
          /\ Cardinality(F!Positions) \in Nat /\ Cardinality(F!Existing(s)) \in Nat
          /\ Cardinality(F!Approved(s)) \in Nat /\ MaxNew \in Nat
      BY <3>1, <3>2, <3>3, Fewer, SymbolsAreFinite, PortfolioAssumption
    <3> QED BY <2>8, <3>4
  <2>13. provider # "BYBIT" => held[x] = 0
    BY <1>9 DEF F!Quantity
  <2>14. /\ provider' = provider /\ price' = price /\ held' = held /\ resting' = resting
         /\ excess' = excess /\ n > 0
    BY <1>4, <1>9
  <2> QED BY <1>20, <2>2, <2>3, <2>4, <2>5, <2>6, <2>10, <2>11, <2>12, <2>13, <2>14, SeenApproved
<1> QED BY <1>9, <1>17, <1>19, <1>20, <1>21 DEF PortfolioInv

LEMMA ProductGrows == ASSUME NEW a \in Nat, NEW b \in Nat, NEW p \in Nat, a <= b
                      PROVE  a * p <= b * p
<1>1. PICK c \in Nat : b = a + c
  <2>1. b - a \in Nat /\ b = a + (b - a)
    OBVIOUS
  <2> QED BY <2>1
<1>2. (a + c) * p = a * p + c * p
  OBVIOUS
<1>3. a * p \in Nat /\ c * p \in Nat
  BY ProductIsNat
<1> QED BY <1>1, <1>2, <1>3

LEMMA WholeIs == ASSUME NEW a \in Nat, NEW b \in Nat \ {0}
                 PROVE  a \div b \in Nat /\ (a \div b) * b <= a
<1>1. a \div b \in Nat
  OBVIOUS
<1>2. a = b * (a \div b) + (a % b) /\ a % b \in 0 .. (b - 1)
  OBVIOUS
<1>3. b * (a \div b) = (a \div b) * b /\ b * (a \div b) \in Nat
  BY <1>1
<1> QED BY <1>1, <1>2, <1>3

(* What is ordered is whole, and worth no more than was approved, unless MT5 raises it. *)
LEMMA OrderedIs == ASSUME PortfolioType, NEW x \in F!Symbols, NEW n \in Nat
                   PROVE  /\ F!Ordered(x, n) \in Nat
                          /\ provider # "MT5" => F!Ordered(x, n) * price[x] <= n
<1>1. price[x] \in Nat \ {0}
  BY DEF PortfolioType
<1>2. n \div price[x] \in Nat /\ (n \div price[x]) * price[x] <= n
  BY <1>1, WholeIs
<1>3. F!Max({1, n \div price[x]}) \in Nat
  <2>1. PICK q \in Nat : q = n \div price[x]
    BY <1>2
  <2>2. F!Max({1, q}) \in {1, q}
    BY MostOfTwo
  <2> QED BY <2>1, <2>2
<1> QED BY <1>2, <1>3 DEF F!Ordered

LEMMA ShareNext == ASSUME PortfolioType', NEW x \in F!Symbols
                   PROVE  Share(x)' \in Int /\ held'[x] \in Nat /\ resting'[x] \in Nat
<1>1. /\ held'[x] \in Nat /\ resting'[x] \in Nat /\ price'[x] \in Nat /\ excess'[x] \in Nat
  BY DEF PortfolioType
<1>2. held'[x] + resting'[x] \in Nat
  BY <1>1
<1>3. (held'[x] + resting'[x]) * price'[x] \in Nat
  BY <1>1, <1>2, ProductIsNat
<1> QED BY <1>1, <1>3 DEF Share

LEMMA SeenShrinks ==
    ASSUME PortfolioType, PortfolioType', SeenIsSound, provider' = provider, price' = price,
           NEW x \in F!Symbols,
           \A y \in F!Symbols \ {x} : /\ held'[y] = held[y] /\ resting'[y] = resting[y]
                                      /\ excess'[y] = excess[y],
           provider # "BYBIT" => /\ held'[x] = 0 \/ resting'[x] = 0
                                 /\ excess'[x] <= (held'[x] + resting'[x]) * price'[x],
           held'[x] + resting'[x] > 0 => held[x] + resting[x] > 0,
           Share(x)' <= Share(x),
           \A t \in F!Sessions : \A y \in F!Symbols :
              session'[t].plan[y] = session[t].plan[y] \/ session'[t].plan[y] = 0
    PROVE  SeenIsSound'
<1>1. \A y \in F!Symbols \ {x} : Share(y)' = Share(y)
  BY DEF Share
<1>2. Ordering' <= Ordering /\ Ordering \in Int /\ Ordering' \in Int
  <2>2. Ordering' = Ordering + (Share(x)' - Share(x))
    BY <1>1, OrderingChanges
  <2>3. Share(x) \in Int /\ Ordering \in Int /\ Share(x)' \in Int
    BY ShareIs, SumsAreInts, ShareNext
  <2> QED BY <2>2, <2>3
<1>3. Holding' \subseteq Holding
  BY DEF Holding
<1>4. OneApproves' /\ CountIsSound'
  BY <1>3, CountShrinks DEF SeenIsSound
<1>5. SumIsSound'
  BY <1>2, SumShrinks DEF SeenIsSound
<1>6. EachIsSound'
  <2>1. SUFFICES ASSUME provider # "BYBIT"
                 PROVE  /\ \A t \in F!Sessions : \A y \in F!Symbols :
                             /\ session'[t].plan[y] > 0 => held'[y] = 0 /\ resting'[y] = 0
                             /\ 2 * session'[t].plan[y] <= Equity
                        /\ \A y \in F!Symbols :
                             /\ held'[y] = 0 \/ resting'[y] = 0
                             /\ excess'[y] <= (held'[y] + resting'[y]) * price'[y]
                             /\ 2 * Share(y)' <= Equity
    BY DEF EachIsSound
  <2>2. ASSUME NEW t \in F!Sessions, NEW y \in F!Symbols
        PROVE  /\ session'[t].plan[y] > 0 => held'[y] = 0 /\ resting'[y] = 0
               /\ 2 * session'[t].plan[y] <= Equity
    <3>1. /\ session[t].plan[y] > 0 => held[y] = 0 /\ resting[y] = 0
          /\ 2 * session[t].plan[y] <= Equity
      BY <2>1 DEF EachIsSound, SeenIsSound
    <3>2. 2 * session'[t].plan[y] <= Equity
      BY <3>1, PortfolioAssumption
    <3>3. ASSUME session'[t].plan[y] > 0
          PROVE  held'[y] = 0 /\ resting'[y] = 0
      <4>1. held[y] = 0 /\ resting[y] = 0
        BY <3>1, <3>3
      <4> QED BY <4>1, ShareNext
    <3> QED BY <3>2, <3>3
  <2>3. ASSUME NEW y \in F!Symbols
        PROVE  /\ held'[y] = 0 \/ resting'[y] = 0
               /\ excess'[y] <= (held'[y] + resting'[y]) * price'[y]
               /\ 2 * Share(y)' <= Equity
    <3>1. /\ held[y] = 0 \/ resting[y] = 0
          /\ excess[y] <= (held[y] + resting[y]) * price[y]
          /\ 2 * Share(y) <= Equity
      BY <2>1 DEF EachIsSound, SeenIsSound
    <3>2. Share(y) \in Int /\ Share(y)' \in Int /\ Share(y)' <= Share(y) /\ Equity \in Int
      BY <1>1, ShareIs, ShareNext, PortfolioAssumption
    <3>3. 2 * Share(y)' <= Equity
      BY <3>1, <3>2
    <3> QED BY <2>1, <3>1, <3>3
  <2> QED BY <2>2, <2>3
<1> QED BY <1>4, <1>5, <1>6 DEF SeenIsSound

(* What the broker's side and the sessions come to, when the locks are sound. *)
LEMMA Guarded ==
    ASSUME PortfolioType', LocksAreHeld', PhasesAreSound',
           \A x \in F!Symbols : provider' # "MT5" => excess'[x] = 0,
           blind' \/ SeenIsSound'
    PROVE  PortfolioInv'
  BY DEF PortfolioInv

LEMMA FillStep == ASSUME PortfolioInv, NEW x \in F!Symbols, F!Fill(x)
                  PROVE  PortfolioInv'
<1>1. /\ session' = session /\ owner' = owner /\ waiting' = waiting
      /\ provider' = provider /\ price' = price /\ risk' = risk /\ mode' = mode
      /\ managed' = managed /\ excess' = excess /\ blind' = blind /\ resting[x] > 0
      /\ held' = [held EXCEPT ![x] = @ + resting[x]]
      /\ resting' = [resting EXCEPT ![x] = 0]
  BY DEF F!Fill, F!settings, F!locks
<1>2. PortfolioType
  BY DEF PortfolioInv
<1>3. /\ held[x] \in Nat /\ resting[x] \in Nat
      /\ held'[x] = held[x] + resting[x] /\ resting'[x] = 0
      /\ \A y \in F!Symbols \ {x} : held'[y] = held[y] /\ resting'[y] = resting[y]
      /\ held' \in [F!Symbols -> Nat] /\ resting' \in [F!Symbols -> Nat]
  BY <1>1, <1>2 DEF PortfolioType
<1>4. PortfolioType'
  BY <1>1, <1>2, <1>3 DEF PortfolioType
<1>5. PhasesAreSound' /\ LocksAreHeld'
  BY <1>1 DEF PortfolioInv, PhasesAreSound, LocksAreHeld, F!Off, F!Passed, F!Approved, Checking
<1>6. blind' \/ SeenIsSound'
  <2>1. SUFFICES ASSUME ~blind' PROVE SeenIsSound'
    OBVIOUS
  <2>2. SeenIsSound
    BY <1>1, <2>1 DEF PortfolioInv
  <2>3. held'[x] + resting'[x] = held[x] + resting[x]
    BY <1>3
  <2>4. provider # "BYBIT" => excess'[x] <= (held'[x] + resting'[x]) * price'[x]
    BY <1>1, <2>2, <2>3 DEF SeenIsSound, EachIsSound
  <2>5. Share(x)' <= Share(x)
    <3>1. Share(x)' = Share(x)
      BY <1>1, <2>3 DEF Share
    <3> QED BY <3>1, <1>2, ShareIs
  <2>6. /\ held'[x] = 0 \/ resting'[x] = 0
        /\ held'[x] + resting'[x] > 0 => held[x] + resting[x] > 0
    BY <1>3, <2>3
  <2>7. \A y \in F!Symbols \ {x} : /\ held'[y] = held[y] /\ resting'[y] = resting[y]
                                   /\ excess'[y] = excess[y]
    BY <1>1, <1>3
  <2>8. \A t \in F!Sessions : \A y \in F!Symbols :
          session'[t].plan[y] = session[t].plan[y] \/ session'[t].plan[y] = 0
    BY <1>1
  <2> QED BY <1>1, <1>2, <1>4, <2>2, <2>4, <2>5, <2>6, <2>7, <2>8, SeenShrinks
<1>7. \A y \in F!Symbols : provider' # "MT5" => excess'[y] = 0
  BY <1>1 DEF PortfolioInv
<1> QED BY <1>4, <1>5, <1>6, <1>7, Guarded

(* What is left of a symbol is worth no more than what was there.         *)
LEMMA ShareShrinks ==
    ASSUME NEW a \in Nat, NEW b \in Nat, NEW p \in Nat, NEW e \in Nat, NEW d \in Nat,
           a <= b, e <= b * p, d = e \/ (d = 0 /\ a = 0)
    PROVE  a * p - d <= b * p - e
<1>1. a * p <= b * p /\ a * p \in Nat /\ b * p \in Nat
  BY ProductGrows, ProductIsNat
<1>2. CASE d = e
  BY <1>1, <1>2
<1>3. CASE d = 0 /\ a = 0
  <2>1. a * p = 0
    BY <1>3
  <2> QED BY <1>1, <1>3, <2>1
<1> QED BY <1>2, <1>3

LEMMA CloseStep == ASSUME PortfolioInv, NEW x \in F!Symbols, F!Close(x)
                   PROVE  PortfolioInv'
<1>1. /\ session' = session /\ owner' = owner /\ waiting' = waiting
      /\ provider' = provider /\ price' = price /\ risk' = risk /\ mode' = mode
      /\ managed' = managed /\ blind' = blind
      /\ held' = [held EXCEPT ![x] = 0]
      /\ resting' = [resting EXCEPT ![x] = IF held[x] > 0 THEN @ ELSE 0]
      /\ excess' = [excess EXCEPT ![x] = IF resting'[x] > 0 THEN @ ELSE 0]
  BY DEF F!Close, F!settings, F!locks
<1>2. PortfolioType
  BY DEF PortfolioInv
<1>3. /\ held[x] \in Nat /\ resting[x] \in Nat /\ price[x] \in Nat /\ excess[x] \in Nat
      /\ held'[x] = 0 /\ resting'[x] \in {0, resting[x]}
      /\ held[x] = 0 => resting'[x] = 0
      /\ excess'[x] \in {0, excess[x]} /\ (resting'[x] = 0 => excess'[x] = 0)
      /\ \A y \in F!Symbols \ {x} : /\ held'[y] = held[y] /\ resting'[y] = resting[y]
                                    /\ excess'[y] = excess[y]
      /\ held' \in [F!Symbols -> Nat] /\ resting' \in [F!Symbols -> Nat]
      /\ excess' \in [F!Symbols -> Nat]
  BY <1>1, <1>2 DEF PortfolioType
<1>4. PortfolioType'
  BY <1>1, <1>2, <1>3 DEF PortfolioType
<1>5. PhasesAreSound' /\ LocksAreHeld'
  BY <1>1 DEF PortfolioInv, PhasesAreSound, LocksAreHeld, F!Off, F!Passed, F!Approved, Checking
<1>6. blind' \/ SeenIsSound'
  <2>1. SUFFICES ASSUME ~blind' PROVE SeenIsSound'
    OBVIOUS
  <2>2. SeenIsSound
    BY <1>1, <2>1 DEF PortfolioInv
  <2>3. provider # "BYBIT" => held[x] = 0 \/ resting[x] = 0
    BY <2>2 DEF SeenIsSound, EachIsSound
  <2>4. excess[x] <= (held[x] + resting[x]) * price[x]
    <3>1. provider = "BYBIT" => excess[x] = 0
      BY DEF PortfolioInv
    <3>2. (held[x] + resting[x]) * price[x] \in Nat
      BY <1>2, ShareIs
    <3> QED BY <2>2, <3>1, <3>2 DEF SeenIsSound, EachIsSound
  <2>5. provider # "BYBIT" => held'[x] + resting'[x] = 0 /\ excess'[x] = 0 /\ resting'[x] = 0
    BY <1>3, <2>3
  <2>a. PICK a \in Nat : a = held'[x] + resting'[x]
    BY <1>3
  <2>b. PICK b \in Nat : b = held[x] + resting[x]
    BY <1>3
  <2>6. /\ a <= b /\ a * price[x] \in Nat
        /\ excess'[x] = excess[x] \/ (excess'[x] = 0 /\ a = 0)
        /\ provider # "BYBIT" => a = 0 /\ excess'[x] = 0
    <3>1. provider = "BYBIT" => excess[x] = 0 /\ excess'[x] = 0
      BY <1>3 DEF PortfolioInv
    <3>2. a <= b /\ a * price[x] \in Nat
      BY <1>3, <2>a, <2>b, ProductIsNat
    <3> QED BY <2>5, <2>a, <3>1, <3>2
  <2>7. Share(x)' <= Share(x)
    <3>1. a * price[x] - excess'[x] <= b * price[x] - excess[x]
      BY <1>3, <2>4, <2>6, <2>b, ShareShrinks
    <3> QED BY <1>1, <2>a, <2>b, <3>1 DEF Share
  <2>8. \A t \in F!Sessions : \A y \in F!Symbols :
          session'[t].plan[y] = session[t].plan[y] \/ session'[t].plan[y] = 0
    BY <1>1
  <2>9. /\ provider # "BYBIT" => held'[x] = 0 \/ resting'[x] = 0
        /\ held'[x] + resting'[x] > 0 => held[x] + resting[x] > 0
        /\ provider # "BYBIT" => excess'[x] <= (held'[x] + resting'[x]) * price'[x]
    BY <1>1, <1>3, <2>5, <2>6, <2>a
  <2> QED BY <1>1, <1>2, <1>3, <1>4, <2>2, <2>7, <2>8, <2>9, SeenShrinks
<1>7. \A y \in F!Symbols : provider' # "MT5" => excess'[y] = 0
  BY <1>1, <1>3 DEF PortfolioInv
<1> QED BY <1>4, <1>5, <1>6, <1>7, Guarded

LEMMA AtMostOneMore ==
    ASSUME NEW T \in SUBSET F!Symbols, NEW x \in F!Symbols, NEW U \in SUBSET (T \cup {x})
    PROVE  Cardinality(U) <= Cardinality(T) + 1
<1>1. T \cup {x} \in SUBSET F!Symbols /\ U \in SUBSET F!Symbols
  OBVIOUS
<1>2. Cardinality(U) <= Cardinality(T \cup {x})
  BY <1>1, Fewer
<1>3. Cardinality(T \cup {x}) <= Cardinality(T) + 1
  <2>1. CASE x \in T
    <3>1. T \cup {x} = T
      BY <2>1
    <3> QED BY <3>1, SymbolsAreFinite
  <2>2. CASE x \notin T
    BY <2>2, OneMoreSymbol, <1>1, SymbolsAreFinite
  <2> QED BY <2>1, <2>2
<1> QED BY <1>1, <1>2, <1>3, SymbolsAreFinite

(* An order that was approved in sight of everything takes the place of its plan. *)
LEMMA SeenPlaced ==
    ASSUME PortfolioType, PortfolioType', SeenIsSound, provider' = provider, price' = price,
           NEW s \in F!Sessions, NEW x \in F!Symbols,
           \A y \in F!Symbols \ {x} : /\ held'[y] = held[y] /\ resting'[y] = resting[y]
                                      /\ excess'[y] = excess[y],
           session[s].plan[x] > 0, session'[s].plan[x] = 0,
           \A y \in F!Symbols \ {x} : session'[s].plan[y] = session[s].plan[y],
           \A t \in F!Sessions \ {s} : session'[t] = session[t],
           Share(x)' - Share(x) <= session[s].plan[x],
           provider # "BYBIT" => /\ held'[x] = 0
                                 /\ excess'[x] <= (held'[x] + resting'[x]) * price'[x]
                                 /\ Share(x)' <= session[s].plan[x]
    PROVE  SeenIsSound'
<1>1. session[s].plan \in [F!Symbols -> Nat] /\ session'[s].plan \in [F!Symbols -> Nat]
  BY DEF PortfolioType, SessionRow
<1>2. x \in F!Approved(s) /\ F!Approved(s) \in SUBSET F!Symbols
  BY <1>1 DEF F!Approved
<1>3. PICK n \in Nat : n = session[s].plan[x]
  BY <1>1
<1>4. \A y \in F!Symbols \ {x} : Share(y)' = Share(y)
  BY DEF Share
<1>5. Ordering' = Ordering + (Share(x)' - Share(x))
  BY <1>4, OrderingChanges
<1>6. F!Reserved(s)' = F!Reserved(s) - n
  <2>1. PICK v \in [F!Symbols -> Int] : v = session[s].plan
    BY <1>1
  <2>2. PICK w \in [F!Symbols -> Int] : w = session'[s].plan
    BY <1>1
  <2>3. F!Total(w) = F!Total(v) + (w[x] - v[x])
    BY <2>1, <2>2, TotalChanges
  <2>4. w[x] = 0 /\ v[x] \in Int /\ F!Total(v) \in Int /\ v[x] = n
    BY <1>3, <2>1, <2>2, TotalIsInt
  <2>5. F!Reserved(s) = F!Total(v) /\ F!Reserved(s)' = F!Total(w)
    BY <2>1, <2>2 DEF F!Reserved
  <2> QED BY <2>3, <2>4, <2>5
<1>7. /\ F!Reserved(s)' \in Nat /\ F!Reserved(s) \in Nat
      /\ Ordering \in Int /\ Share(x) \in Int /\ Share(x)' \in Int
  <2>1. F!Reserved(s)' \in Nat
    BY <1>1, TotalIsNat DEF F!Reserved
  <2> QED BY <2>1, SumsAreInts, ShareIs, ShareNext
<1>8. ASSUME NEW t \in F!Sessions \ {s}
      PROVE  F!Approved(t)' = {} /\ F!Reserved(t)' = 0
  <2>1. F!Approved(t) = {}
    BY <1>2 DEF SeenIsSound, OneApproves
  <2>2. session[t].plan \in [F!Symbols -> Nat]
    BY DEF PortfolioType, SessionRow
  <2>3. PICK v \in [F!Symbols -> Int] : v = session[t].plan
    BY <2>2
  <2>4. \A y \in F!Symbols : v[y] = 0
    BY <2>1, <2>2, <2>3 DEF F!Approved
  <2>5. F!Total(v) = 0
    BY <2>4, TotalOfNothing
  <2>6. session'[t].plan = v
    BY <2>3
  <2>7. F!Reserved(t)' = F!Total(v)
    BY <2>6 DEF F!Reserved
  <2>8. F!Approved(t)' = {}
    BY <2>4, <2>6 DEF F!Approved
  <2> QED BY <2>5, <2>7, <2>8
<1>9. SumIsSound'
  <2>1. SUFFICES ASSUME provider = "BYBIT"
                 PROVE  /\ 2 * Ordering' <= Equity
                        /\ \A t \in F!Sessions : 2 * (Ordering' + F!Reserved(t)') <= Equity
    BY DEF SumIsSound
  <2>2. PICK o \in Int : o = Ordering'
    BY <1>5, <1>7
  <2>3. PICK r \in Nat : r = F!Reserved(s)'
    BY <1>7
  <2>4. PICK e \in Int : e = Equity
    BY PortfolioAssumption
  <2>5. PICK p \in Int : p = Ordering
    BY <1>7
  <2>6. PICK d \in Int : d = Share(x)' - Share(x)
    BY <1>7
  <2>7. 2 * (p + (r + n)) <= e
    <3>1. 2 * (Ordering + F!Reserved(s)) <= Equity
      BY <2>1 DEF SeenIsSound, SumIsSound
    <3>2. F!Reserved(s) = r + n
      BY <1>6, <1>7, <2>3
    <3> QED BY <2>4, <2>5, <3>1, <3>2
  <2>8. o = p + d /\ d <= n
    BY <1>3, <1>5, <2>2, <2>5, <2>6
  <2>9. 2 * (o + r) <= e /\ 2 * o <= e
    BY <2>7, <2>8
  <2>10. ASSUME NEW t \in F!Sessions \ {s}
         PROVE  2 * (Ordering' + F!Reserved(t)') <= Equity
    <3>1. F!Reserved(t)' = 0 /\ o + 0 = o
      BY <1>8
    <3> QED BY <2>2, <2>4, <2>9, <3>1
  <2> QED BY <2>2, <2>3, <2>4, <2>9, <2>10
<1>10. F!Approved(s)' \in SUBSET F!Symbols /\ F!Approved(s) = F!Approved(s)' \cup {x} /\ x \notin F!Approved(s)'
  BY <1>1 DEF F!Approved
<1>11. CountIsSound'
  <2>1. Holding \in SUBSET F!Symbols /\ Holding' \in SUBSET (Holding \cup {x}) /\ Holding' \in SUBSET F!Symbols
    BY DEF Holding
  <2>2. Cardinality(Holding') <= Cardinality(Holding) + 1
    BY <2>1, AtMostOneMore
  <2>3. Cardinality(F!Approved(s)) = Cardinality(F!Approved(s)') + 1
    BY <1>10, OneMoreSymbol
  <2>4. Cardinality(Holding) + Cardinality(F!Approved(s)) <= MaxNew
    BY DEF SeenIsSound, CountIsSound
  <2>5. /\ Cardinality(Holding) \in Nat /\ Cardinality(F!Approved(s)') \in Nat
        /\ Cardinality(Holding') \in Nat /\ MaxNew \in Nat
    BY <1>10, <2>1, SymbolsAreFinite, PortfolioAssumption
  <2>6. Cardinality(Holding') + Cardinality(F!Approved(s)') <= MaxNew /\ Cardinality(Holding') <= MaxNew
    BY <2>2, <2>3, <2>4, <2>5
  <2>7. Cardinality({}) = 0
    BY FS_EmptySet
  <2>8. ASSUME NEW t \in F!Sessions \ {s}
        PROVE  Cardinality(Holding') + Cardinality(F!Approved(t)') <= MaxNew
    <3>1. Cardinality(F!Approved(t)') = 0
      BY <1>8, <2>7
    <3> QED BY <2>5, <2>6, <3>1
  <2> QED BY <2>6, <2>8 DEF CountIsSound
<1>12. OneApproves'
  BY <1>8 DEF OneApproves
<1>13. EachIsSound'
  <2>1. SUFFICES ASSUME provider # "BYBIT"
                 PROVE  /\ \A t \in F!Sessions : \A y \in F!Symbols :
                             /\ session'[t].plan[y] > 0 => held'[y] = 0 /\ resting'[y] = 0
                             /\ 2 * session'[t].plan[y] <= Equity
                        /\ \A y \in F!Symbols :
                             /\ held'[y] = 0 \/ resting'[y] = 0
                             /\ excess'[y] <= (held'[y] + resting'[y]) * price'[y]
                             /\ 2 * Share(y)' <= Equity
    BY DEF EachIsSound
  <2>2. ASSUME NEW t \in F!Sessions, NEW y \in F!Symbols
        PROVE  /\ session'[t].plan[y] > 0 => held'[y] = 0 /\ resting'[y] = 0
               /\ 2 * session'[t].plan[y] <= Equity
    <3>1. CASE t # s
      <4>1. F!Approved(t)' = {} /\ session'[t].plan \in [F!Symbols -> Nat]
        BY <1>8, <3>1 DEF PortfolioType, SessionRow
      <4>2. session'[t].plan[y] = 0
        BY <4>1 DEF F!Approved
      <4> QED BY <4>2, PortfolioAssumption
    <3>2. CASE t = s /\ y = x
      BY <3>2, PortfolioAssumption
    <3>3. CASE t = s /\ y # x
      BY <2>1, <3>3 DEF EachIsSound, SeenIsSound
    <3> QED BY <3>1, <3>2, <3>3
  <2>3. ASSUME NEW y \in F!Symbols
        PROVE  /\ held'[y] = 0 \/ resting'[y] = 0
               /\ excess'[y] <= (held'[y] + resting'[y]) * price'[y]
               /\ 2 * Share(y)' <= Equity
    <3>1. CASE y = x
      <4>1. 2 * n <= Equity
        BY <1>3, <2>1 DEF EachIsSound, SeenIsSound
      <4>2. PICK d \in Int : d = Share(x)'
        BY <1>7
      <4>3. d <= n
        BY <1>3, <2>1, <4>2
      <4>4. 2 * d <= Equity
        BY <4>1, <4>3, PortfolioAssumption
      <4> QED BY <2>1, <3>1, <4>2, <4>4
    <3>2. CASE y # x
      BY <1>4, <2>1, <3>2 DEF EachIsSound, SeenIsSound
    <3> QED BY <3>1, <3>2
  <2> QED BY <2>2, <2>3
<1> QED BY <1>9, <1>11, <1>12, <1>13 DEF SeenIsSound

LEMMA PlaceSell ==
    ASSUME PortfolioInv, PortfolioType', NEW s \in F!Sessions, NEW x \in F!Symbols,
           provider = "BYBIT", provider' = provider, price' = price,
           held' = [held EXCEPT ![x] = 0], resting' = resting, excess' = excess,
           \A t \in F!Sessions : \A y \in F!Symbols :
              session'[t].plan[y] = session[t].plan[y] \/ session'[t].plan[y] = 0,
           SeenIsSound
    PROVE  SeenIsSound'
<1>1. PortfolioType
  BY DEF PortfolioInv
<1>2. /\ held[x] \in Nat /\ resting[x] \in Nat /\ price[x] \in Nat /\ excess[x] = 0
      /\ held'[x] = 0 /\ resting'[x] = resting[x] /\ price'[x] = price[x] /\ excess'[x] = 0
      /\ \A y \in F!Symbols \ {x} : /\ held'[y] = held[y] /\ resting'[y] = resting[y]
                                    /\ excess'[y] = excess[y]
  BY <1>1 DEF PortfolioInv, PortfolioType
<1>3. /\ resting[x] * price[x] <= (held[x] + resting[x]) * price[x]
      /\ resting[x] * price[x] \in Nat /\ (held[x] + resting[x]) * price[x] \in Nat
  <2>1. held[x] + resting[x] \in Nat /\ resting[x] <= held[x] + resting[x]
    BY <1>2
  <2> QED BY <1>2, <2>1, ProductGrows, ProductIsNat
<1>4. held'[x] + resting'[x] = resting[x]
  BY <1>2
<1>5. Share(x)' = resting[x] * price[x] /\ Share(x) = (held[x] + resting[x]) * price[x]
  <2>1. Share(x)' = resting[x] * price[x] - 0 /\ Share(x) = (held[x] + resting[x]) * price[x] - 0
    BY <1>2, <1>4 DEF Share
  <2> QED BY <1>3, <2>1
<1>6. Share(x)' <= Share(x)
  BY <1>3, <1>5
<1>8. /\ provider = "BYBIT"
      /\ held'[x] + resting'[x] > 0 => held[x] + resting[x] > 0
  BY <1>2
<1> QED BY <1>1, <1>2, <1>6, <1>8, SeenShrinks

(* What MT5 raised is what an order is worth beyond its plan.             *)
LEMMA ExcessIs ==
    ASSUME NEW a \in Nat, NEW n \in Nat, NEW e, e = F!Max({0, a - n})
    PROVE  e \in Nat /\ e <= a /\ a - e <= n /\ (a <= n => e = 0)
<1>1. a - n \in Int
  OBVIOUS
<1>2. e \in {0, a - n} /\ e >= 0 /\ e >= a - n
  BY <1>1, MostOfTwo
<1> QED BY <1>2

LEMMA PlaceStep == ASSUME PortfolioInv, NEW s \in F!Sessions, F!Place(s)
                   PROVE  PortfolioInv'
<1>1. /\ session[s].pc = "place" /\ session[s].todo # {} /\ s \notin waiting /\ F!Done(s)
      /\ provider' = provider /\ price' = price /\ risk' = risk /\ mode' = mode
      /\ managed' = managed /\ blind' = blind /\ owner' = owner /\ waiting' = waiting
  BY DEF F!Place, F!Running, F!settings, F!locks
<1>2. PICK x \in F!Symbols : x = F!Mine(s) /\ x \in session[s].todo
  <2>1. F!Mine(s) \in session[s].todo
    BY <1>1, MineIs, PhaseIs
  <2> QED BY <2>1, PhaseIs
<1>3. PICK phase \in {"preflight", "execute", "place"} :
         F!Becomes(s, phase, session[s].todo \ {x}, F!Planning(s, x, 0), session[s].sell \ {x})
  BY <1>1, <1>2, DoneIs
<1>4. /\ PhasesAreSound' /\ session' \in [F!Sessions -> SessionRow]
      /\ \A t \in F!Sessions \ {s} : session'[t] = session[t]
      /\ session'[s].pc = phase /\ session'[s].plan[x] = 0
      /\ \A y \in F!Symbols \ {x} : session'[s].plan[y] = session[s].plan[y]
  BY <1>1, <1>3, SettledSessions
<1>5. LocksAreHeld'
  BY <1>1, <1>4, LocksFrom, LocksStay
<1>6. PortfolioType
  BY DEF PortfolioInv
<1>7. PICK n \in Nat : n = session[s].plan[x]
  BY PhaseIs
<1>8. PICK units \in Nat : units = F!Ordered(x, n)
  BY <1>6, OrderedIs
<1>9. \/ /\ x \in session[s].sell /\ held' = [held EXCEPT ![x] = 0]
         /\ resting' = resting /\ excess' = excess
      \/ /\ x \notin session[s].sell /\ units > 0 /\ held' = held
         /\ resting' = [resting EXCEPT ![x] = @ + units]
         /\ excess' = [excess EXCEPT ![x] = F!Max({0, units * price[x] - n})]
  BY <1>2, <1>7, <1>8 DEF F!Place
<1>10. \A t \in F!Sessions : \A y \in F!Symbols :
         session'[t].plan[y] = session[t].plan[y] \/ session'[t].plan[y] = 0
  BY <1>4
<1>11. CASE /\ x \in session[s].sell /\ held' = [held EXCEPT ![x] = 0]
            /\ resting' = resting /\ excess' = excess
  <2>1. provider = "BYBIT"
    BY <1>11, PhaseIs
  <2>2. PortfolioType'
    BY <1>1, <1>4, <1>6, <1>11 DEF PortfolioType
  <2>3. blind' \/ SeenIsSound'
    BY <1>1, <1>10, <1>11, <2>1, <2>2, PlaceSell DEF PortfolioInv
  <2>4. \A y \in F!Symbols : provider' # "MT5" => excess'[y] = 0
    BY <1>1, <1>11 DEF PortfolioInv
  <2> QED BY <1>4, <1>5, <2>2, <2>3, <2>4, Guarded
<1>12. CASE /\ x \notin session[s].sell /\ units > 0 /\ held' = held
            /\ resting' = [resting EXCEPT ![x] = @ + units]
            /\ excess' = [excess EXCEPT ![x] = F!Max({0, units * price[x] - n})]
  <2>1. /\ held[x] \in Nat /\ resting[x] \in Nat /\ price[x] \in Nat \ {0} /\ price[x] \in Nat
        /\ resting'[x] = resting[x] + units /\ held'[x] = held[x]
        /\ excess'[x] = F!Max({0, units * price[x] - n})
        /\ \A y \in F!Symbols \ {x} : /\ held'[y] = held[y] /\ resting'[y] = resting[y]
                                      /\ excess'[y] = excess[y]
    BY <1>6, <1>12 DEF PortfolioType
  <2>2. PICK worth \in Nat : worth = units * price[x]
    BY <2>1, ProductIsNat
  <2>3. /\ excess'[x] \in Nat /\ excess'[x] <= worth /\ worth - excess'[x] <= n
        /\ worth <= n => excess'[x] = 0
    BY <2>1, <2>2, ExcessIs
  <2>4. excess' \in [F!Symbols -> Nat]
    BY <1>6, <1>12, <2>1, <2>3 DEF PortfolioType
  <2>5. resting' \in [F!Symbols -> Nat]
    BY <1>6, <1>12, <2>1 DEF PortfolioType
  <2>6. PortfolioType'
    BY <1>1, <1>4, <1>6, <1>12, <2>4, <2>5 DEF PortfolioType
  <2>7. \A y \in F!Symbols : provider' # "MT5" => excess'[y] = 0
    <3>1. provider # "MT5" => worth <= n
      BY <1>6, <1>8, <2>2, OrderedIs
    <3>2. \A y \in F!Symbols : provider # "MT5" => excess[y] = 0
      BY DEF PortfolioInv
    <3> QED BY <1>1, <2>1, <2>3, <3>1, <3>2
  <2>8. blind' \/ SeenIsSound'
    <3>1. SUFFICES ASSUME ~blind' PROVE SeenIsSound'
      OBVIOUS
    <3>2. SeenIsSound
      BY <1>1, <3>1 DEF PortfolioInv
    <3>3. n > 0 /\ x \in F!Approved(s)
      <4>1. x \in F!Passed(s)
        BY <1>1, <1>2, PhaseIs
      <4> QED BY <1>7, <1>12, <4>1, PhaseIs
    <3>4. /\ provider # "BYBIT" => held[x] = 0 /\ resting[x] = 0 /\ excess[x] = 0
          /\ provider = "BYBIT" => excess[x] = 0 /\ excess'[x] = 0
      <4>1. provider = "BYBIT" => excess[x] = 0 /\ excess'[x] = 0
        BY <1>1, <2>7 DEF PortfolioInv
      <4>2. provider # "BYBIT" => /\ held[x] = 0 /\ resting[x] = 0
                                  /\ excess[x] <= (held[x] + resting[x]) * price[x]
        BY <1>7, <3>2, <3>3 DEF SeenIsSound, EachIsSound
      <4>3. excess[x] \in Nat /\ (held[x] = 0 /\ resting[x] = 0 => (held[x] + resting[x]) * price[x] = 0)
        BY <1>6, <2>1 DEF PortfolioType
      <4> QED BY <4>1, <4>2, <4>3
    <3>5. PICK b \in Nat : b = held[x] + resting[x]
      BY <2>1
    <3>6. /\ held'[x] + resting'[x] = b + units /\ (b + units) * price[x] = b * price[x] + worth
          /\ b * price[x] \in Nat
      <4>1. held'[x] + resting'[x] = b + units
        BY <2>1, <3>5
      <4>2. (b + units) * price[x] = b * price[x] + units * price[x]
        BY <2>1
      <4>3. b * price[x] \in Nat
        BY <2>1, ProductIsNat
      <4> QED BY <4>1, <4>2, <4>3, <2>2
    <3>7. Share(x)' = (b * price[x] + worth) - excess'[x] /\ Share(x) = b * price[x] - excess[x]
      BY <1>1, <3>5, <3>6 DEF Share
    <3>8. /\ excess[x] = 0
          /\ provider # "BYBIT" => held'[x] = 0 /\ b * price[x] = 0
      <4>1. provider # "BYBIT" => b = 0
        BY <3>4, <3>5
      <4> QED BY <2>1, <3>4, <4>1
    <3>9. /\ Share(x)' - Share(x) <= session[s].plan[x]
          /\ provider # "BYBIT" => /\ held'[x] = 0
                                   /\ excess'[x] <= (held'[x] + resting'[x]) * price'[x]
                                   /\ Share(x)' <= session[s].plan[x]
      <4>1. PICK q \in Nat : q = b * price[x]
        BY <3>6
      <4>2. Share(x)' = (q + worth) - excess'[x] /\ Share(x) = q
        BY <3>7, <3>8, <4>1
      <4>3. (held'[x] + resting'[x]) * price'[x] = q + worth
        BY <1>1, <3>6, <4>1
      <4> QED BY <1>7, <2>3, <3>8, <4>1, <4>2, <4>3
    <3>10. session[s].plan[x] > 0
      BY <1>7, <3>3
    <3> QED BY <1>1, <1>4, <1>6, <2>1, <2>6, <3>2, <3>9, <3>10, SeenPlaced
  <2> QED BY <1>4, <1>5, <2>6, <2>7, <2>8, Guarded
<1> QED BY <1>9, <1>11, <1>12

(* Nothing is held, ordered or approved at first.                         *)
LEMMA PortfolioStarts == ASSUME Init, part = "portfolio"
                         PROVE  PortfolioInv
<1>1. F!Init
  BY DEF Init
<1>2. /\ provider \in Providers /\ mode \in [F!Symbols -> {"OFF", "WATCH", "AUTO"}]
      /\ held = [x \in F!Symbols |-> 0] /\ managed = [x \in F!Symbols |-> 0]
      /\ resting = [x \in F!Symbols |-> 0]
      /\ session = [s \in F!Sessions |-> F!Off]
      /\ owner = None /\ waiting = {} /\ blind = FALSE
      /\ excess = [x \in F!Symbols |-> 0]
  BY <1>1 DEF F!Init
<1>3. price \in [F!Symbols -> Nat \ {0}] /\ risk \in [F!Symbols -> Nat]
  <2>1. PICK b \in Books : price = b.price /\ risk = b.risk
    BY <1>1 DEF F!Init
  <2>2. b \in [price : [F!Symbols -> Nat \ {0}], risk : [F!Symbols -> Nat]]
    BY PortfolioAssumption DEF F!Symbols
  <2> QED BY <2>1, <2>2
<1>4. \A s \in F!Sessions : session[s] = F!Off
  BY <1>2
<1>5. PortfolioType
  <2>1. session \in [F!Sessions -> SessionRow]
    BY <1>2, OffIs
  <2>2. /\ held \in [F!Symbols -> Nat] /\ resting \in [F!Symbols -> Nat]
        /\ excess \in [F!Symbols -> Nat] /\ managed \in [F!Symbols -> Nat]
    BY <1>2
  <2> QED BY <1>2, <1>3, <2>1, <2>2 DEF PortfolioType
<1>6. LocksAreHeld
  BY <1>2 DEF LocksAreHeld
<1>7. \A s \in F!Sessions : F!Approved(s) = {} /\ session[s].sell = {} /\ session[s].pc = "off"
  BY <1>4 DEF F!Approved, F!Off
<1>8. PhasesAreSound
  BY <1>4, <1>7 DEF PhasesAreSound, Checking
<1>9. SeenIsSound
  <2>1. Holding = {}
    BY <1>2 DEF Holding
  <2>2. Cardinality({}) = 0
    BY FS_EmptySet
  <2>3. Ordering = 0
    <3>1. PICK v \in [F!Symbols -> Int] : v = Bound
      BY <1>5, SumsAreInts
    <3>2. \A x \in F!Symbols : v[x] = 0
      <4> TAKE x \in F!Symbols
      <4>1. price[x] \in Nat /\ held[x] = 0 /\ resting[x] = 0 /\ excess[x] = 0
        BY <1>2, <1>3
      <4>2. (held[x] + resting[x]) * price[x] - excess[x] = 0
        BY <4>1
      <4> QED BY <3>1, <4>2 DEF Bound, Share
    <3>3. F!Total(v) = 0
      BY <3>2, TotalOfNothing
    <3> QED BY <1>5, <3>1, <3>3, SumsAreInts
  <2>4. \A s \in F!Sessions : F!Reserved(s) = 0
    <3> TAKE s \in F!Sessions
    <3>1. PICK v \in [F!Symbols -> Int] : v = session[s].plan
      BY <1>4 DEF F!Off
    <3>2. \A x \in F!Symbols : v[x] = 0
      BY <1>4, <3>1 DEF F!Off
    <3>3. F!Total(v) = 0
      BY <3>2, TotalOfNothing
    <3> QED BY <3>1, <3>3 DEF F!Reserved
  <2>5. \A x \in F!Symbols : /\ held[x] = 0 /\ resting[x] = 0
                             /\ excess[x] <= (held[x] + resting[x]) * price[x]
                             /\ 2 * Share(x) <= Equity
    <3> TAKE x \in F!Symbols
    <3>1. price[x] \in Nat /\ held[x] = 0 /\ resting[x] = 0 /\ excess[x] = 0
      BY <1>2, <1>3
    <3>2. (held[x] + resting[x]) * price[x] = 0 /\ Share(x) = 0
      BY <3>1 DEF Share
    <3> QED BY <3>1, <3>2, PortfolioAssumption
  <2>6. 2 * Ordering <= Equity /\ \A s \in F!Sessions : 2 * (Ordering + F!Reserved(s)) <= Equity
    BY <2>3, <2>4, PortfolioAssumption
  <2>7. /\ Cardinality(Holding) <= MaxNew
        /\ \A s \in F!Sessions : Cardinality(Holding) + Cardinality(F!Approved(s)) <= MaxNew
    <3>1. Cardinality(Holding) = 0 /\ \A s \in F!Sessions : Cardinality(F!Approved(s)) = 0
      BY <1>7, <2>1, <2>2
    <3>2. Cardinality(Holding) <= MaxNew
      BY <3>1, PortfolioAssumption
    <3>3. ASSUME NEW s \in F!Sessions
          PROVE  Cardinality(Holding) + Cardinality(F!Approved(s)) <= MaxNew
      BY <3>1, PortfolioAssumption
    <3> QED BY <3>2, <3>3
  <2>8. \A s \in F!Sessions : F!Approved(s) = {}
    BY <1>7
  <2>9. \A s \in F!Sessions : \A x \in F!Symbols : session[s].plan[x] = 0
    BY <1>4 DEF F!Off
  <2>10. EachIsSound
    BY <2>5, <2>9, PortfolioAssumption DEF EachIsSound
  <2> QED BY <2>6, <2>7, <2>8, <2>10 DEF SeenIsSound, OneApproves, CountIsSound, SumIsSound
<1>10. \A x \in F!Symbols : provider # "MT5" => excess[x] = 0
  BY <1>2
<1> QED BY <1>5, <1>6, <1>8, <1>9, <1>10 DEF PortfolioInv

LEMMA PortfolioSteps == ASSUME PortfolioInv, F!Next
                        PROVE  PortfolioInv'
<1>1. ASSUME NEW s \in F!Sessions,
             \/ F!Start(s) \/ F!Refresh(s) \/ F!ReadSlots(s) \/ F!Skip(s) \/ F!Approve(s)
             \/ F!ApproveSell(s)
             \/ F!EndReadiness(s) \/ F!Preflight(s) \/ F!EndPreflight(s) \/ F!End(s)
             \/ F!Claim(s) \/ F!Verify(s) \/ F!Refuse(s) \/ F!Place(s)
      PROVE  PortfolioInv'
  BY <1>1, StartStep, RefreshStep, ReadSlotsStep, SkipStep, ApproveStep, ApproveSellStep, EndReadinessStep,
     PreflightStep, EndPreflightStep, EndStep, ClaimStep, VerifyStep, RefuseStep, PlaceStep
<1>2. ASSUME NEW x \in F!Symbols, F!Fill(x) \/ F!Record(x) \/ F!Close(x) \/ F!StopAuto(x)
      PROVE  PortfolioInv'
  BY <1>2, FillStep, RecordStep, CloseStep, StopAutoStep
<1>3. CASE F!Restart
  BY <1>3, RestartSessions
<1> QED BY <1>1, <1>2, <1>3 DEF F!Next

LEMMA PortfolioStays == ASSUME PortfolioInv, UNCHANGED fVars
                        PROVE  PortfolioInv'
<1>1. /\ session' = session /\ owner' = owner /\ waiting' = waiting
      /\ provider' = provider /\ price' = price /\ risk' = risk /\ mode' = mode
      /\ held' = held /\ managed' = managed /\ resting' = resting /\ excess' = excess /\ blind' = blind
  BY DEF fVars
<1>2. PortfolioType'
  BY <1>1 DEF PortfolioInv, PortfolioType
<1>3. PhasesAreSound' /\ LocksAreHeld'
  BY <1>1 DEF PortfolioInv, PhasesAreSound, LocksAreHeld, F!Off, F!Passed, F!Approved, Checking
<1>4. \A t \in F!Sessions : \A y \in F!Symbols :
        session'[t].plan[y] = session[t].plan[y] \/ session'[t].plan[y] = 0
  BY <1>1
<1>5. blind' \/ SeenIsSound'
  BY <1>1, <1>2, <1>4, SeenStays DEF PortfolioInv
<1>6. \A y \in F!Symbols : provider' # "MT5" => excess'[y] = 0
  BY <1>1 DEF PortfolioInv
<1> QED BY <1>2, <1>3, <1>5, <1>6, Guarded

LEMMA PortfolioGives == ASSUME PortfolioInv
                        PROVE  F!TypeOK /\ F!ExposureWithinLimit /\ F!PositionsWithinLimit /\ F!LockHasOwner
<1>1. F!TypeOK
  <2>1. /\ provider \in Providers /\ mode \in [F!Symbols -> {"OFF", "WATCH", "AUTO"}]
        /\ held \in [F!Symbols -> Nat] /\ managed \in [F!Symbols -> Nat]
        /\ resting \in [F!Symbols -> Nat]
        /\ owner \in F!Sessions \cup {None}
    BY DEF PortfolioInv, PortfolioType
  <2>2. \A s \in F!Sessions :
          /\ session[s].pc \in {"off", "refresh", "slots", "check", "preflight", "execute", "place"}
          /\ session[s].todo \subseteq F!Symbols /\ session[s].sell \subseteq F!Symbols
          /\ session[s].slots \subseteq F!Symbols
          /\ session[s].plan \in [F!Symbols -> Nat]
    <3>1. session \in [F!Sessions -> SessionRow]
      BY DEF PortfolioInv, PortfolioType
    <3> QED BY <3>1, SessionIs DEF PCs
  <2>3. waiting \subseteq F!Sessions \ {owner}
    BY DEF PortfolioInv, PortfolioType, LocksAreHeld
  <2> QED BY <2>1, <2>2, <2>3 DEF F!TypeOK
<1>2. F!ExposureWithinLimit
  <2>1. Ordering = F!Total([x \in F!Symbols |-> F!Exposure(x)])
    BY DEF Ordering, Share, F!Exposure
  <2>2. \A x : Share(x) = F!Exposure(x)
    BY DEF Share, F!Exposure
  <2>3. ASSUME SeenIsSound, provider = "BYBIT"
        PROVE  F!HalfOfEquity
    BY <2>1, <2>3 DEF SeenIsSound, SumIsSound, F!HalfOfEquity
  <2>4. ASSUME SeenIsSound, provider # "BYBIT"
        PROVE  \A x \in F!Symbols : 2 * F!Exposure(x) <= Equity
    BY <2>2, <2>4 DEF SeenIsSound, EachIsSound
  <2>5. blind \/ SeenIsSound
    BY DEF PortfolioInv
  <2> QED BY <2>3, <2>4, <2>5 DEF F!ExposureWithinLimit
<1>3. F!PositionsWithinLimit
  <2>1. F!Cardinality(Holding) = Cardinality(Holding)
    BY SameCount
  <2>2. blind \/ Cardinality(Holding) <= MaxNew
    BY DEF PortfolioInv, SeenIsSound, CountIsSound
  <2> QED BY <2>1, <2>2 DEF F!PositionsWithinLimit, Holding
<1>4. F!LockHasOwner
  BY DEF PortfolioInv, LocksAreHeld, F!LockHasOwner
<1> QED BY <1>1, <1>2, <1>3, <1>4

PortfolioIInv == part = "portfolio" => PortfolioInv

(* What a Bybit profile holds and has ordered stays within half of its equity, and what *)
(* an IBKR or MT5 profile has of one symbol does; the positions stay within the number  *)
(* of an account; with any number of symbols, any prices and risks that stay, and any   *)
(* number of scans, requests and monitors, unless an order was approved past one it     *)
(* could not see or a position it did not count; and the lock of the profile's row is a *)
(* running session's.  That IBKR and MT5 exceed the half is ExposureIsWithinHalf.       *)
THEOREM PortfolioStaysGuarded == Spec => []PortfolioIsGuarded
<1>1. Init => PortfolioIInv
  BY PortfolioStarts DEF PortfolioIInv
<1>2. PortfolioIInv /\ [Next]_vars => PortfolioIInv'
  <2> SUFFICES ASSUME PortfolioIInv, [Next]_vars, part' = "portfolio"
               PROVE  PortfolioInv'
    BY DEF PortfolioIInv
  <2>1. part' = part
    BY DEF Next, vars
  <2>2. PortfolioInv
    BY <2>1 DEF PortfolioIInv
  <2>3. F!Next \/ UNCHANGED fVars
    BY <2>1 DEF Next, vars
  <2> QED BY <2>2, <2>3, PortfolioSteps, PortfolioStays
<1>3. PortfolioIInv => PortfolioIsGuarded
  BY PortfolioGives DEF PortfolioIInv, PortfolioIsGuarded
<1> QED BY <1>1, <1>2, <1>3, PTL DEF Spec

(***************************************************************************)
(* The ledger: what HistoryProofs proves of History holds of its part.     *)
(***************************************************************************)
P == INSTANCE HistoryProofs WITH next <- local, memory <- remembered, job <- review

(* HistoryProofs extends History, and H is an instance of it.              *)
LEMMA SameInit == ASSUME H!Init
                  PROVE  P!Init
  BY DEF H!Init, P!Init

LEMMA SameNext == ASSUME H!Next
                  PROVE  P!Next
  BY DEF H!Next, P!Next, H!Place, P!Place, H!Record, P!Record, H!Fill, P!Fill, H!NextDay, P!NextDay,
         H!StartImport, P!StartImport, H!StartRecovery, P!StartRecovery, H!Save, P!Save,
         H!Abort, P!Abort, H!Executions, P!Executions, H!Proofs, P!Proofs, H!Filled, P!Filled,
         H!IsExit, P!IsExit, H!Proof, P!Proof, H!Carrying, P!Carrying, H!MayImport, P!MayImport,
         H!MayRecover, P!MayRecover, H!Placed, P!Placed, H!Saved, P!Saved, H!Unlocked, P!Unlocked,
         H!Assigned, P!Assigned, H!Evidence, P!Evidence, H!gateway, P!gateway,
         H!Cardinality, P!Cardinality

LEMMA SameLedger == \A seen : H!Ledger(seen) = P!Ledger(seen)
  BY DEF H!Ledger, P!Ledger, H!Live, P!Live, H!Row, P!Row, H!Merged, P!Merged,
         H!WithNative, P!WithNative, H!Saved, P!Saved, H!Imported, P!Imported,
         H!Recovered, P!Recovered, H!Executions, P!Executions, H!Cardinality, P!Cardinality

LEMMA SameProperties ==
    ASSUME P!TypeOK /\ P!NoFillTwice /\ P!NoFillLost /\ P!AssignedOnce
    PROVE  H!TypeOK /\ H!NoFillTwice /\ H!NoFillLost /\ H!AssignedOnce
<1>1. H!TypeOK
  BY DEF H!TypeOK, P!TypeOK, H!Executions, P!Executions
<1>2. H!AssignedOnce
  BY DEF H!AssignedOnce, P!AssignedOnce
<1>3. \A e, seen : H!Counting(e, seen) = P!Counting(e, seen)
  BY SameLedger DEF H!Counting, P!Counting
<1>4. H!Reused <=> P!Reused
  BY DEF H!Reused, P!Reused, H!Placed, P!Placed
<1>5. \A any : H!Cardinality(any) = P!Cardinality(any)
  BY DEF H!Cardinality, P!Cardinality
<1>6. H!NoFillTwice
  BY <1>3, <1>4, <1>5 DEF H!NoFillTwice, P!NoFillTwice
<1>7. \A o, seen : H!Split(o, seen) <=> P!Split(o, seen)
  BY DEF H!Split, P!Split, H!Executions, P!Executions
<1>8. \A o : H!Executions(o) = P!Executions(o)
  BY DEF H!Executions, P!Executions
<1>9. H!NoFillLost
  BY <1>3, <1>4, <1>7, <1>8 DEF H!NoFillLost, P!NoFillLost
<1> QED BY <1>1, <1>2, <1>6, <1>9

LEMMA OrdersAreWellformed == P!Wellformed
<1>1. P!IsFiniteSet(Orders) /\ Orders = 1 .. P!Cardinality(Orders)
  BY LedgerAssumption DEF P!IsFiniteSet, P!Cardinality, IsFiniteSet, Cardinality
<1>2. PICK n : n = Cardinality(Orders)
  OBVIOUS
<1>3. Orders = 1 .. n
  BY <1>2, LedgerAssumption
<1>4. Parts \in [Orders -> Nat \ {0}]
  BY LedgerAssumption DEF Parts
<1>5. EntryOf \in [Orders -> Nat]
  <2>1. \A x \in Exits : x - 1 \in Nat
    BY <1>3, LedgerAssumption
  <2> QED BY <2>1 DEF EntryOf
<1>6. \A x \in Orders : P!IsExit(x) => x \in Exits /\ EntryOf[x] = x - 1
  BY DEF P!IsExit, EntryOf
<1>7. \A x \in Exits : x - 1 \in Orders /\ ~P!IsExit(x - 1)
  BY LedgerAssumption DEF P!IsExit, EntryOf
<1>8. None \notin P!AllParts
  <2>1. ASSUME NEW o \in Orders
        PROVE  P!Executions(o) \subseteq Orders \X (1 .. Several)
    <3>1. Parts[o] \in {1, Several} /\ Several \in Nat \ {0}
      BY LedgerAssumption DEF Parts
    <3>2. 1 .. Parts[o] \subseteq 1 .. Several
      BY <3>1
    <3> QED BY <3>2 DEF P!Executions
  <2> QED BY <2>1, LedgerAssumption DEF P!AllParts
<1> QED BY <1>1, <1>4, <1>5, <1>6, <1>7, <1>8, LedgerAssumption DEF P!Wellformed

LedgerIInv == part = "history" => P!HistoryInv

(* No execution is counted twice and none of an order with a saved fill is missed, and no *)
(* statement execution is given to two actions, with any number of orders in any number   *)
(* of parts and any operators, but for a number used again, a wrong map and a part that   *)
(* the Gateway forgot.                                                                    *)
THEOREM LedgerStaysTrue == Spec => []LedgerIsTrue
<1>1. Init => LedgerIInv
  <2> SUFFICES ASSUME Init
               PROVE  P!HistoryInv
    BY DEF LedgerIInv
  <2>1. P!Init
    BY SameInit DEF Init
  <2> QED BY <2>1, OrdersAreWellformed, P!HistoryStarts
<1>2. LedgerIInv /\ [Next]_vars => LedgerIInv'
  <2> SUFFICES ASSUME LedgerIInv, [Next]_vars, part' = "history"
               PROVE  P!HistoryInv'
    BY DEF LedgerIInv
  <2>1. part' = part
    BY DEF Next, vars
  <2>2. P!HistoryInv
    BY <2>1 DEF LedgerIInv
  <2>3. H!Next \/ UNCHANGED hVars
    BY <2>1 DEF Next, vars
  <2>4. CASE H!Next
    <3>1. P!Next
      BY <2>4, SameNext
    <3> QED BY <2>2, <3>1, OrdersAreWellformed, P!HistorySteps
  <2>5. CASE UNCHANGED hVars
    <3>1. UNCHANGED P!vars
      BY <2>5 DEF hVars, P!vars
    <3> QED BY <2>2, <3>1, P!HistoryIdles
  <2> QED BY <2>3, <2>4, <2>5
<1>3. LedgerIInv => LedgerIsTrue
  <2> SUFFICES ASSUME LedgerIInv, part = "history"
               PROVE  H!TypeOK /\ H!NoFillTwice /\ H!NoFillLost /\ H!AssignedOnce
    BY DEF LedgerIsTrue
  <2>1. P!HistoryInv
    BY DEF LedgerIInv
  <2>2. P!TypeOK /\ P!NoFillTwice /\ P!NoFillLost /\ P!AssignedOnce
    BY <2>1, OrdersAreWellformed, P!HistoryGives
  <2> QED BY <2>2, SameProperties
<1> QED BY <1>1, <1>2, <1>3, PTL DEF Spec
=============================================================================
