------------------------- MODULE AnalyticsProjector -------------------------
(***************************************************************************)
(* The analytics projector: one process that replays the analytics topic   *)
(* into the acknowledgement rollup.  An event is fetched, gated by its id  *)
(* (MarkProcessed), applied to the rollup in a transaction that claims the *)
(* id once more, and its offset committed; what cannot be handled goes to  *)
(* the dead-letter topic.  Every start of the process reads under a        *)
(* consumer group of its own, from the earliest offset.                    *)
(*                                                                         *)
(* One action is one call that leaves the process.  A call may fail        *)
(* without effect, or take effect and lose its reply.                      *)
(***************************************************************************)
EXTENDS Integers, Sequences, FiniteSets

CONSTANTS
  EventIds,     \* the CloudEvents ids on the topic
  KindOf,       \* what each of them is
  TimeOf,       \* when each of them occurred
  ReceivedAt,   \* when the order it is about was received, its receivedAt
  ReceiptOf,    \* the event that told of that receipt
  DayLength,    \* 24 hours
  Partitions,   \* partitions of the analytics topic
  Topic,        \* the ids on each, the relay's duplicates included
  NoPartition,  \* no partition
  Faults,       \* the calls that may fail without effect, "fetch" among
                \* them, and "letters" if the broker may lose a dead letter
  Lost,         \* the calls whose reply may be lost
  Restarts,     \* TRUE: the process may be killed
  MaxAttempts,  \* maxHandlerAttempts
  MaxFailures,  \* bound: the failures counted below
  MaxRebalances \* bound: rebalances of the consumer group

\* What the rollup counts of the events, a column for each.
Counters == {"received", "acknowledged", "untranslatable", "infeasible",
             "missed"}

Answers == Counters \ {"received"}

\* acknowledgement_rollup: the counters and the sum of the latencies (their
\* count is the counter of acknowledged orders).
Columns == Counters \cup {"latency"}

\* odd: a rejection for a reason with no counter; garbled: an event whose
\* data cannot be decoded; foreign: a type the projection does not handle;
\* poison: not a CloudEvent.
Kind == Counters \cup {"odd", "garbled", "foreign", "poison"}

Calls == {"mark", "apply", "dead", "commit"}

ASSUME ProjectorAssumption ==
  /\ KindOf \in [EventIds -> Kind]
  /\ Topic \in [Partitions -> Seq(EventIds)]
  /\ NoPartition \notin Partitions
  /\ Faults \subseteq Calls \cup {"fetch", "letters"} /\ Lost \subseteq Calls
  /\ Restarts \in BOOLEAN
  /\ MaxAttempts \in Nat \ {0}
  /\ MaxFailures \in Nat
  /\ MaxRebalances \in Nat

ASSUME EventAssumption ==
  /\ TimeOf \in [EventIds -> Nat \ {0}]
  /\ ReceivedAt \in [EventIds -> Nat]
  /\ ReceiptOf \in [EventIds -> EventIds]
  /\ DayLength \in Nat \ {0}

\* The events of one order have one key, so one partition, and one relay
\* keeps them in order (see OrderedDelivery).
ASSUME OrdersInOrder ==
  \A q \in Partitions : \A n \in 1..Len(Topic[q]) :
    KindOf[Topic[q][n]] \in Answers =>
      /\ KindOf[ReceiptOf[Topic[q][n]]] = "received"
      /\ \E m \in 1..(n - 1) : Topic[q][m] = ReceiptOf[Topic[q][n]]

VARIABLES
  next,       \* the next message this process reads of each partition
  committed,  \* how many messages its group committed of each partition
  handler,    \* the message in hand and the call it is at
  consumed,   \* analytics_consumed_events, the gate of MarkProcessed
  claimed,    \* analytics_processed_events, claimed with the rollup
  rollup,     \* acknowledgement_rollup, by day_bucket
  dead,       \* the ids on the dead-letter topic
  failures,   \* restarts, lost replies of the first gate, and dead letters
              \* that were not written or lost
  rebalances  \* rebalances so far

vars == <<next, committed, handler, consumed, claimed, rollup, dead, failures,
          rebalances>>

-----------------------------------------------------------------------------
\* stopped: Run returned an error and main only logged it.
Handler == [pc : Calls \cup {"fetch", "stopped"},
            partition : Partitions \cup {NoPartition},
            offset : Nat, tries : Nat]

Fetching ==
  [pc |-> "fetch", partition |-> NoPartition, offset |-> 0, tries |-> 0]

Stopped == [Fetching EXCEPT !.pc = "stopped"]

Init ==
  /\ next = [q \in Partitions |-> 1]
  /\ committed = [q \in Partitions |-> 0]
  /\ handler = Fetching
  /\ consumed = {}
  /\ claimed = {}
  /\ rollup = [day \in {} |-> {}]
  /\ dead = {}
  /\ failures = 0
  /\ rebalances = 0

Id == Topic[handler.partition][handler.offset]

Offsets == <<next, committed>>
Stores == <<consumed, claimed, rollup, dead>>

GoTo(pc) == [handler EXCEPT !.pc = pc, !.tries = 0]

\* A failed attempt: once more, or to the dead-letter topic.
Retry ==
  IF handler.tries + 1 < MaxAttempts THEN [handler EXCEPT !.tries = @ + 1]
  ELSE GoTo("dead")

Failure == failures < MaxFailures /\ failures' = failures + 1

\* The call took effect: its reply arrives and the handler goes on as h, or
\* it is lost and the handler takes the call for failed.
Reply(call, h, failed) ==
  handler' = h \/ (call \in Lost /\ handler' = failed)

-----------------------------------------------------------------------------
\* FetchMessage and decodeAnalyticsEvent: a message that is no CloudEvent is
\* dead-lettered at once, a foreign type committed past.
Fetch(q) ==
  /\ handler.pc = "fetch"
  /\ next[q] <= Len(Topic[q])
  /\ next' = [next EXCEPT ![q] = @ + 1]
  /\ handler' =
       [pc |-> CASE KindOf[Topic[q][next[q]]] = "poison" -> "dead"
                 [] KindOf[Topic[q][next[q]]] = "foreign" -> "commit"
                 [] OTHER -> "mark",
        partition |-> q, offset |-> next[q], tries |-> 0]
  /\ UNCHANGED <<committed, Stores, failures, rebalances>>

\* ConsumedEventsRepo.MarkProcessed; an id seen before is committed past.
MarkProcessed ==
  /\ handler.pc = "mark"
  /\ consumed' = consumed \cup {Id}
  /\ \/ /\ handler' = GoTo(IF Id \in consumed THEN "commit" ELSE "apply")
        /\ UNCHANGED failures
     \/ "mark" \in Lost /\ handler' = Retry /\ Failure
  /\ UNCHANGED <<Offsets, claimed, rollup, dead, rebalances>>

MarkFails ==
  /\ handler.pc = "mark" /\ "mark" \in Faults
  /\ handler' = Retry
  /\ UNCHANGED <<Offsets, Stores, failures, rebalances>>

Day(id) == TimeOf[id] - (TimeOf[id] % DayLength)

\* The seconds from the receipt of an order to its acknowledgement, no less
\* than none.
Latency(id) ==
  IF TimeOf[id] < ReceivedAt[id] THEN 0 ELSE TimeOf[id] - ReceivedAt[id]

\* rollupDelta; an odd rejection has nothing to add.
Delta(id) ==
  [c \in Columns |->
     CASE c = KindOf[id] -> 1
       [] c = "latency" /\ KindOf[id] = "acknowledged" -> Latency(id)
       [] OTHER -> 0]

\* Mutant: ON CONFLICT replaces the row of the day.
UpsertReplaces(id) ==
  [d \in DOMAIN rollup \cup {Day(id)} |->
     IF d = Day(id) THEN Delta(id) ELSE rollup[d]]

\* upsertRollup: the first event of a day, an odd one too, inserts its row,
\* every other adds to it.
Upsert(id) ==
  [d \in DOMAIN rollup \cup {Day(id)} |->
     IF d \notin DOMAIN rollup THEN Delta(id)
     ELSE IF d # Day(id) THEN rollup[d]
     ELSE [c \in Columns |-> rollup[d][c] + Delta(id)[c]]]

\* Mutant: the rollup does not ask whether the claim was new.
ApplyAgain ==
  /\ handler.pc = "apply" /\ KindOf[Id] # "garbled"
  /\ claimed' = claimed \cup {Id}
  /\ rollup' = Upsert(Id)
  /\ Reply("apply", GoTo("commit"), Retry)
  /\ UNCHANGED <<Offsets, consumed, dead, failures, rebalances>>

\* PostgresProjection.apply: the claim and the rollup commit together.
Apply ==
  /\ handler.pc = "apply" /\ KindOf[Id] # "garbled"
  /\ claimed' = claimed \cup {Id}
  /\ rollup' = IF Id \in claimed THEN rollup ELSE Upsert(Id)
  /\ Reply("apply", GoTo("commit"), Retry)
  /\ UNCHANGED <<Offsets, consumed, dead, failures, rebalances>>

\* Mutants: the whole handler is retried; there is no end to the retries.
ApplyRetriesHandler ==
  /\ handler.pc = "apply"
  /\ "apply" \in Faults \/ KindOf[Id] = "garbled"
  /\ handler' = IF Retry.pc = "dead" THEN Retry ELSE [Retry EXCEPT !.pc = "mark"]
  /\ UNCHANGED <<Offsets, Stores, failures, rebalances>>

ApplyRetriesForever ==
  /\ handler.pc = "apply"
  /\ "apply" \in Faults \/ KindOf[Id] = "garbled"
  /\ UNCHANGED vars

\* Data that does not decode fails every attempt.
ApplyFails ==
  /\ handler.pc = "apply"
  /\ "apply" \in Faults \/ KindOf[Id] = "garbled"
  /\ handler' = Retry
  /\ UNCHANGED <<Offsets, Stores, failures, rebalances>>

\* dlqPublish.  Without its reply Run returns: the offset stays uncommitted.
DeadLetter ==
  /\ handler.pc = "dead"
  /\ dead' = dead \cup {Id}
  /\ Reply("dead", GoTo("commit"), Stopped)
  /\ UNCHANGED <<Offsets, consumed, claimed, rollup, failures, rebalances>>

\* The dead-letter writer asks for no acknowledgement either.
LetterLost ==
  /\ handler.pc = "dead" /\ "letters" \in Faults
  /\ handler' = GoTo("commit")
  /\ Failure
  /\ UNCHANGED <<Offsets, Stores, rebalances>>

CommitOffset ==
  /\ handler.pc = "commit"
  /\ committed' = [committed EXCEPT ![handler.partition] = handler.offset]
  /\ Reply("commit", Fetching, Stopped)
  /\ UNCHANGED <<next, Stores, failures, rebalances>>

\* Mutant: a failed dead-letter write is only logged.
DeadLetterIgnored ==
  /\ handler.pc \in {"fetch", "dead", "commit"} \cap Faults
  /\ handler' = IF handler.pc = "dead" THEN GoTo("commit") ELSE Stopped
  /\ UNCHANGED <<Offsets, Stores, failures, rebalances>>

\* A failed fetch, dead-letter write or commit ends Run; only the second
\* costs the event that is in hand.
RunReturns ==
  /\ handler.pc \in {"fetch", "dead", "commit"} \cap Faults
  /\ IF handler.pc = "dead" THEN Failure ELSE UNCHANGED failures
  /\ handler' = Stopped
  /\ UNCHANGED <<Offsets, Stores, rebalances>>

\* The group is rebalanced: what is not committed is delivered again.
Rebalance(q) ==
  /\ handler.pc # "stopped"
  /\ next[q] # committed[q] + 1
  /\ rebalances < MaxRebalances
  /\ rebalances' = rebalances + 1
  /\ next' = [next EXCEPT ![q] = committed[q] + 1]
  /\ UNCHANGED <<committed, handler, Stores, failures>>

\* The process is killed or redeployed: a new group (NewUniqueConsumerGroup)
\* replays the topic from its first offset.
Restart ==
  /\ Restarts
  /\ Failure
  /\ handler' = Fetching
  /\ next' = [q \in Partitions |-> 1]
  /\ committed' = [q \in Partitions |-> 0]
  /\ UNCHANGED <<Stores, rebalances>>

-----------------------------------------------------------------------------
\* The consumer waits for messages, or is gone.
Idle ==
  /\ \/ handler.pc = "stopped"
     \/ handler.pc = "fetch" /\ \A q \in Partitions : next[q] > Len(Topic[q])
  /\ UNCHANGED vars

Handle ==
  \/ MarkProcessed
  \/ MarkFails
  \/ Apply
  \/ ApplyFails
  \/ DeadLetter
  \/ CommitOffset

Next ==
  \/ \E q \in Partitions : Fetch(q) \/ Rebalance(q)
  \/ Handle
  \/ LetterLost
  \/ RunReturns
  \/ Restart
  \/ Idle

Spec == Init /\ [][Next]_vars

\* A running consumer keeps fetching, from every partition, and every call
\* it makes comes to an end, one way or the other.
Fairness ==
  /\ \A q \in Partitions : WF_vars(Fetch(q))
  /\ WF_vars(Handle)

FairSpec == Spec /\ Fairness

-----------------------------------------------------------------------------
\* Every variable keeps its shape: counters stay natural, offsets and
\* attempts in range.
TypeOK ==
  /\ next \in [Partitions -> Nat \ {0}]
  /\ committed \in [Partitions -> Nat]
  /\ handler \in Handler
  /\ handler.tries < MaxAttempts
  /\ consumed \subseteq EventIds
  /\ claimed \subseteq EventIds
  /\ rollup \in [DOMAIN rollup -> [Columns -> Nat]]
  /\ dead \subseteq EventIds
  /\ failures \in Nat
  /\ rebalances \in Nat

\* The rollup counts every claimed event exactly once, on its day: replays,
\* duplicates, retries after a lost reply and restarts add nothing (claim and
\* upsertRollup share a transaction).
RollupMatchesClaims ==
  /\ DOMAIN rollup = {Day(id) : id \in claimed}
  /\ \A d \in DOMAIN rollup, c \in Counters :
       rollup[d][c] =
         Cardinality({id \in claimed : Day(id) = d /\ KindOf[id] = c})

InHand == IF handler.partition = NoPartition THEN {} ELSE {Id}

CommittedPast ==
  UNION {{Topic[q][n] : n \in 1..committed[q]} : q \in Partitions}

\* Past the first gate or committed past, and nowhere to be found behind it.
LostIds ==
  {id \in consumed \cup CommittedPast :
     KindOf[id] # "foreign" /\ id \notin claimed \cup dead \cup InHand}

\* The two gates of an event are not one transaction, and still an event is
\* only lost to a crash, a lost reply of the first gate or a dead letter that
\* was not kept, and each costs one event at most: the phases are retried
\* apart (handleMessage), never the handler as a whole.
LossNeedsFailure == Cardinality(LostIds) <= failures

\* An order is not reported as answered before it is reported as received,
\* unless its receipt went to the dead letters: retries, lost replies,
\* rebalances and a consumer that stops keep the order of the topic.  (A
\* crash or a lost dead letter may cost the receipt.)
AnswersFollowReceipts ==
  failures = 0 =>
    \A id \in claimed :
      KindOf[id] \in Answers => ReceiptOf[id] \in claimed \cup dead

\* FreshnessLag's max(occurred_at).
Latest ==
  IF claimed = {} THEN 0
  ELSE CHOOSE t \in {TimeOf[id] : id \in claimed} :
         \A id \in claimed : TimeOf[id] <= t

ReadModel == INSTANCE ReadModel
               WITH seen <- claimed, rows <- rollup, latest <- Latest

\* The analytical database keeps the promise of the store: whatever fails,
\* is sent twice or replayed, an event is applied at once and once.
ImplementsReadModel == ReadModel!ReportSpec

Instants == {0} \cup {TimeOf[id] : id \in EventIds}

\* A report asked for twice never shows less the second time (Query), and at
\* one instant it never looks older the second time (FreshnessLag), unless
\* it was empty at first, which looks as fresh as can be.
ReportsOnlyGrow ==
  [][claimed' # claimed =>
       /\ \A from, to \in Instants :
            LET report == ReadModel!Query(from, to) IN
            \A day \in DOMAIN report : \A column \in Columns :
              /\ day \in DOMAIN report'
              /\ report[day][column] <= report'[day][column]
       /\ Latest # 0 =>
            \A now \in Instants :
              ReadModel!FreshnessLag(now)' <= ReadModel!FreshnessLag(now)]_vars

CaughtUp == \A q \in Partitions : committed[q] = Len(Topic[q])

\* No message blocks the ones behind it, whatever fails: in the end the
\* consumer has committed all of its topic, unless Run has returned.
CatchesUpOrStops == <>[](CaughtUp \/ handler.pc = "stopped")
=============================================================================
