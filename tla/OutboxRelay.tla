----------------------------- MODULE OutboxRelay ----------------------------
(***************************************************************************)
(* The transactional outbox and the relay that drains it onto Kafka.       *)
(* Units of work (the use cases of every pod) save an order and insert one *)
(* outbox row per topic in one transaction; each pod runs one OutboxRelay, *)
(* whose pass claims the oldest unpublished rows under a row lock, sends   *)
(* them one by one, marks each, and commits the marks together.            *)
(*                                                                         *)
(* One action is one statement, one WriteMessages call or one commit.      *)
(* A row's id is its place in outbox (BIGSERIAL: taken at the insert, also *)
(* by transactions that are rolled back later).                            *)
(***************************************************************************)
EXTENDS Integers, Sequences, FiniteSets

CONSTANTS
  Keys,         \* network references, the key of every event of an order
  Writers,      \* the goroutines that run units of work, in all pods
  Relays,       \* the relay of each pod
  Stopping,     \* the relays whose pod may be stopped for good
  BatchSize,    \* rows one pass claims at most
  BrokerLoses,  \* TRUE: the broker may lose what it was sent
  NoKey,        \* no network reference
  MaxEvents,    \* bound: units of work that raise an event
  MaxFailures   \* bound: the failures counted below

ASSUME OutboxAssumption ==
  /\ NoKey \notin Keys
  /\ Stopping \subseteq Relays
  /\ BatchSize \in Nat \ {0}
  /\ BrokerLoses \in BOOLEAN
  /\ MaxEvents \in Nat
  /\ MaxFailures \in Nat

VARIABLES
  saved,     \* network_orders: the events whose change of an order is durable
  outbox,    \* outbox_events, by id
  work,      \* the unit of work open on each writer
  raised,    \* how many units of work were begun
  relay,     \* the pass open on each relay
  log,       \* the ids the broker stored, in order
  dropped,   \* the ids the broker was sent and lost
  failures,  \* passes broken off, replies and messages lost
  stopped    \* the relays whose pod was stopped

vars == <<saved, outbox, work, raised, relay, log, dropped, failures, stopped>>

-----------------------------------------------------------------------------
\* wireEventPublisher: the integration topic first, then the analytics one.
Encoders == <<"events", "analytics">>

Topics == {Encoders[i] : i \in 1..Len(Encoders)}

\* open: inserted by a transaction still open; gone: rolled back; pending:
\* committed with published_at NULL.
Row == [key : Keys, topic : Topics, event : Nat,
        status : {"open", "gone", "pending", "published"}]

Work == [key : Keys \cup {NoKey}, event : Nat, left : Seq(Topics)]

NoWork == [key |-> NoKey, event |-> 0, left |-> <<>>]

\* todo is what is still to be sent, oldest first, done what is marked by
\* the open transaction; the pass holds the row locks of both.
Pass == [pc : {"idle", "send", "mark", "record", "commit"},
         todo : SUBSET Nat, done : SUBSET Nat]

NoPass == [pc |-> "idle", todo |-> {}, done |-> {}]

Init ==
  /\ saved = {}
  /\ outbox = <<>>
  /\ work = [w \in Writers |-> NoWork]
  /\ raised = 0
  /\ relay = [p \in Relays |-> NoPass]
  /\ log = <<>>
  /\ dropped = {}
  /\ failures = 0
  /\ stopped = {}

Ids == DOMAIN outbox

Logged(id) == \E i \in DOMAIN log : log[i] = id

Copies(id) == Cardinality({i \in DOMAIN log : log[i] = id})

SameStream(i, j) ==
  outbox[i].key = outbox[j].key /\ outbox[i].topic = outbox[j].topic

\* The rows ids now have status s.
SetStatus(ids, s) ==
  [i \in Ids |-> IF i \in ids THEN [outbox[i] EXCEPT !.status = s]
                 ELSE outbox[i]]

-----------------------------------------------------------------------------
RelaySide == <<relay, log, dropped, failures, stopped>>

\* Mutant: a unit of work does not wait for the row of its order.
BeginUnlocked(w, k) ==
  /\ work[w].key = NoKey
  /\ raised < MaxEvents
  /\ raised' = raised + 1
  /\ work' = [work EXCEPT ![w] =
       [key |-> k, event |-> raised + 1, left |-> Encoders]]
  /\ UNCHANGED <<saved, outbox, RelaySide>>

\* The unit of work begins and Save writes the order: the row of the order
\* is locked until the transaction ends.
Begin(w, k) ==
  /\ work[w].key = NoKey
  /\ \A v \in Writers : work[v].key # k
  /\ raised < MaxEvents
  /\ raised' = raised + 1
  /\ work' = [work EXCEPT ![w] =
       [key |-> k, event |-> raised + 1, left |-> Encoders]]
  /\ UNCHANGED <<saved, outbox, RelaySide>>

\* Mutant: an insert that is not part of the transaction.
EnqueueOutside(w) ==
  /\ work[w].left # <<>>
  /\ outbox' = Append(outbox,
       [key |-> work[w].key, topic |-> Head(work[w].left),
        event |-> work[w].event, status |-> "pending"])
  /\ work' = [work EXCEPT ![w].left = Tail(@)]
  /\ UNCHANGED <<saved, raised, RelaySide>>

\* OutboxPublisher.Publish, one encoder of it: the event is encoded once for
\* this topic and its row inserted, inside the transaction.
Enqueue(w) ==
  /\ work[w].left # <<>>
  /\ outbox' = Append(outbox,
       [key |-> work[w].key, topic |-> Head(work[w].left),
        event |-> work[w].event, status |-> "open"])
  /\ work' = [work EXCEPT ![w].left = Tail(@)]
  /\ UNCHANGED <<saved, raised, RelaySide>>

RowsOf(w) ==
  {i \in Ids : outbox[i].event = work[w].event /\ outbox[i].status = "open"}

CommitWork(w) ==
  /\ work[w].key # NoKey /\ work[w].left = <<>>
  /\ saved' = saved \cup {work[w].event}
  /\ outbox' = SetStatus(RowsOf(w), "pending")
  /\ work' = [work EXCEPT ![w] = NoWork]
  /\ UNCHANGED <<raised, RelaySide>>

\* fn returned an error, the commit failed, or the pod died.
RollbackWork(w) ==
  /\ work[w].key # NoKey
  /\ outbox' = SetStatus(RowsOf(w), "gone")
  /\ work' = [work EXCEPT ![w] = NoWork]
  /\ UNCHANGED <<saved, raised, RelaySide>>

-----------------------------------------------------------------------------
Claimed(p) == relay[p].todo \cup relay[p].done

\* Mutant: a plain SELECT, with no row lock to skip.
ClaimableUnlocked(p) == {i \in Ids : outbox[i].status = "pending"}

\* published_at IS NULL ... FOR UPDATE SKIP LOCKED.
Claimable(p) ==
  {i \in Ids : /\ outbox[i].status = "pending"
               /\ \A q \in Relays \ {p} : i \notin Claimed(q)}

\* ORDER BY id LIMIT batchSize.
OldestFirst(p) ==
  {b \in SUBSET Claimable(p) :
     /\ Cardinality(b) <= BatchSize
     /\ \A i \in b, j \in Claimable(p) : j < i => j \in b
     /\ Cardinality(b) < BatchSize => b = Claimable(p)}

\* A pass that finds nothing to claim publishes nothing.
EmptyPass(p) ==
  /\ relay[p].pc = "idle" /\ p \notin stopped
  /\ Claimable(p) = {}
  /\ UNCHANGED vars

\* claimOutboxRows.
Claim(p) ==
  /\ relay[p].pc = "idle" /\ p \notin stopped
  /\ \E b \in OldestFirst(p) :
       /\ b # {}
       /\ relay' = [relay EXCEPT ![p] =
            [pc |-> "send", todo |-> b, done |-> {}]]
  /\ UNCHANGED <<saved, outbox, work, raised, log, dropped, failures, stopped>>

\* The row the pass is at.
Current(p) ==
  CHOOSE i \in relay[p].todo : \A j \in relay[p].todo : i <= j

Failure == failures < MaxFailures /\ failures' = failures + 1

\* Send returns nil and the broker stored the message.
SendSucceeds(p) ==
  /\ relay[p].pc = "send"
  /\ log' = Append(log, Current(p))
  /\ relay' = [relay EXCEPT ![p].pc = "mark"]
  /\ UNCHANGED <<saved, outbox, work, raised, dropped, failures, stopped>>

\* Send returns nil and the broker lost the message: the writer asks for no
\* acknowledgement (NewPublisher leaves RequiredAcks at RequireNone).
SendDropped(p) ==
  /\ relay[p].pc = "send" /\ BrokerLoses
  /\ Failure
  /\ dropped' = dropped \cup {Current(p)}
  /\ relay' = [relay EXCEPT ![p].pc = "mark"]
  /\ UNCHANGED <<saved, outbox, work, raised, log, stopped>>

\* Mutant: Run returns on the first error.
GiveUp(p) ==
  /\ relay[p].pc = "send"
  /\ relay' = [relay EXCEPT ![p] = NoPass]
  /\ stopped' = stopped \cup {p}
  /\ UNCHANGED <<saved, outbox, work, raised, log, dropped, failures>>

\* Send returns an error and nothing was stored.
SendFails(p) ==
  /\ relay[p].pc = "send"
  /\ relay' = [relay EXCEPT ![p].pc = "record"]
  /\ UNCHANGED <<saved, outbox, work, raised, log, dropped, failures, stopped>>

\* The message was stored and the writer takes it for lost: it sends it
\* again by itself, or Send returns an error.
SendReplyLost(p) ==
  /\ relay[p].pc = "send"
  /\ Failure
  /\ log' = Append(log, Current(p))
  /\ \E pc \in {"send", "record"} : relay' = [relay EXCEPT ![p].pc = pc]
  /\ UNCHANGED <<saved, outbox, work, raised, dropped, stopped>>

\* The UPDATE that sets published_at.
Mark(p) ==
  LET i == Current(p) IN
  /\ relay[p].pc = "mark"
  /\ relay' = [relay EXCEPT ![p] =
       [pc |-> IF @.todo = {i} THEN "commit" ELSE "send",
        todo |-> @.todo \ {i}, done |-> @.done \cup {i}]]
  /\ UNCHANGED <<saved, outbox, work, raised, log, dropped, failures, stopped>>

\* Mutants: the failed row is marked too; the failed row is passed over and
\* the pass goes on.
RecordAsPublished(p) ==
  /\ relay[p].pc = "record"
  /\ outbox' = SetStatus(relay[p].done \cup {Current(p)}, "published")
  /\ relay' = [relay EXCEPT ![p] = NoPass]
  /\ UNCHANGED <<saved, work, raised, log, dropped, failures, stopped>>

SkipFailed(p) ==
  LET i == Current(p) IN
  /\ relay[p].pc = "record"
  /\ relay' = [relay EXCEPT ![p] =
       [pc |-> IF @.todo = {i} THEN "commit" ELSE "send",
        todo |-> @.todo \ {i}, done |-> @.done]]
  /\ UNCHANGED <<saved, outbox, work, raised, log, dropped, failures, stopped>>

\* recordSendFailure notes the error on the failed row (attempts and
\* last_error are left out) and commits the marks of the rows before it.
RecordSendFailure(p) ==
  /\ relay[p].pc = "record"
  /\ outbox' = SetStatus(relay[p].done, "published")
  /\ relay' = [relay EXCEPT ![p] = NoPass]
  /\ UNCHANGED <<saved, work, raised, log, dropped, failures, stopped>>

CommitPass(p) ==
  /\ relay[p].pc = "commit"
  /\ outbox' = SetStatus(relay[p].done, "published")
  /\ relay' = [relay EXCEPT ![p] = NoPass]
  /\ UNCHANGED <<saved, work, raised, log, dropped, failures, stopped>>

\* The UPDATE or the commit fails, or the pod is killed: the transaction is
\* rolled back, its marks and its locks with it.
PassBreaksOff(p) ==
  /\ relay[p].pc # "idle"
  /\ Failure
  /\ relay' = [relay EXCEPT ![p] = NoPass]
  /\ UNCHANGED <<saved, outbox, work, raised, log, dropped, stopped>>

\* SIGTERM: the relay's context is a child of the one the signal cancels,
\* so every statement of the pass from here on fails, its commit included.
Shutdown(p) ==
  /\ p \in Stopping \ stopped
  /\ stopped' = stopped \cup {p}
  /\ relay' = [relay EXCEPT ![p] = NoPass]
  /\ UNCHANGED <<saved, outbox, work, raised, log, dropped, failures>>

-----------------------------------------------------------------------------
Write(w) ==
  \/ \E k \in Keys : Begin(w, k)
  \/ Enqueue(w)
  \/ CommitWork(w)
  \/ RollbackWork(w)

\* A call of the pass that does not depend on the broker.
Step(p) == Mark(p) \/ RecordSendFailure(p) \/ CommitPass(p)

Next ==
  \/ \E w \in Writers : Write(w)
  \/ \E p \in Relays :
       \/ EmptyPass(p)
       \/ Claim(p)
       \/ SendSucceeds(p)
       \/ SendDropped(p)
       \/ SendFails(p)
       \/ SendReplyLost(p)
       \/ Step(p)
       \/ PassBreaksOff(p)
       \/ Shutdown(p)

Spec == Init /\ [][Next]_vars

\* A relay that is not stopped keeps making passes and a pass goes on; the
\* broker takes a message in the end if it is offered again and again.
\* Nothing is assumed of the writers.
Fairness ==
  \A p \in Relays :
    /\ WF_vars(Claim(p))
    /\ WF_vars(SendSucceeds(p) \/ SendFails(p))
    /\ SF_vars(SendSucceeds(p))
    /\ WF_vars(Step(p))

FairSpec == Spec /\ Fairness

-----------------------------------------------------------------------------
\* Every variable keeps its shape: ids, statuses and passes stay well formed.
TypeOK ==
  /\ saved \subseteq Nat
  /\ outbox \in Seq(Row)
  /\ work \in [Writers -> Work]
  /\ raised \in Nat
  /\ relay \in [Relays -> Pass]
  /\ log \in Seq(Nat)
  /\ dropped \subseteq Nat
  /\ failures \in Nat
  /\ stopped \subseteq Relays

\* A published row is on its topic, or was lost by the broker: the relay
\* marks a row only after Send took it (publishBatch), whichever pass fails,
\* breaks off or races.
PublishedWasSent ==
  \A i \in Ids :
    outbox[i].status = "published" => Logged(i) \/ i \in dropped

\* The store and the topics never diverge: nothing is sent of a unit of work
\* that did not commit, and what did commit is queued for every topic.
TopicsMatchStore ==
  /\ \A i \in Ids : Logged(i) => outbox[i].event \in saved
  /\ \A e \in saved, t \in Topics : \E i \in Ids :
       /\ outbox[i].event = e /\ outbox[i].topic = t
       /\ outbox[i].status \in {"pending", "published"}

\* A duplicate has a cause: each copy of a message beyond the first is paid
\* for by a pass that broke off, a lost reply or a stopped pod; two relays
\* alone never send one row twice (SKIP LOCKED).
DuplicatesNeedFailure ==
  \A i \in Ids : Copies(i) <= 1 + failures + Cardinality(stopped)

\* Per-aggregate order on each topic: no event is seen for the first time
\* after a later event of the same order (rows are drained in id order, and
\* ids follow the commits of one order because Save locks its row).
FirstCopiesInOrder ==
  \A i \in DOMAIN log : \A j \in Ids :
    /\ j < log[i] /\ SameStream(j, log[i])
    /\ outbox[j].status \in {"pending", "published"}
    => \E h \in 1..i : log[h] = j

\* The place of i in S in the order that rank gives its members.
Place(S, rank, i) == Cardinality({j \in S : rank[j] <= rank[i]})

\* The events of the rows with an id in S, in that order.
EventsBy(rows, S, rank) ==
  [n \in 1..Cardinality(S) |->
     rows[CHOOSE i \in S : Place(S, rank, i) = n].event]

\* The ids of topic t and key k whose unit of work was committed.
CommittedIds(t, k) ==
  {i \in Ids : /\ outbox[i].topic = t /\ outbox[i].key = k
               /\ outbox[i].status \in {"pending", "published"}}

\* The events of key k that were committed, as topic t is to have them.
History(t, k) == EventsBy(outbox, CommittedIds(t, k), [i \in Ids |-> i])

\* The ids of topic t and key k that are on the log.
SeenIds(t, k) ==
  {i \in Ids : outbox[i].topic = t /\ outbox[i].key = k /\ Logged(i)}

\* Where each of the messages is first.
FirstCopy(messages) ==
  [i \in {messages[n] : n \in DOMAIN messages} |->
     CHOOSE n \in DOMAIN messages :
       messages[n] = i /\ \A m \in 1..(n - 1) : messages[m] # i]

\* The events of key k that topic t has, each where it is seen first.
Seen(t, k) == EventsBy(outbox, SeenIds(t, k), FirstCopy(log))

\* One relay delivers every order's events in order, on both topics: one
\* row per topic, inserted in the transaction of the order, drained by id.
Delivery == INSTANCE OrderedDelivery WITH
  Orders <- Keys,
  Streams <- Topics,
  Events <- 1..MaxEvents,
  history <- [k \in Keys |-> History(Encoders[1], k)],
  seen <- [t \in Topics |-> [k \in Keys |-> Seen(t, k)]]

ImplementsOrderedDelivery == Delivery!DeliverySpec

\* Every committed event is sent in the end, whatever fails, breaks off or is
\* stopped, as long as one relay stays: it is on its topic or the broker lost
\* it.
EveryEventIsSent ==
  <>[](\A i \in Ids :
         outbox[i].status = "pending" => Logged(i) \/ i \in dropped)
=============================================================================
