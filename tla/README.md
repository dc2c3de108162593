# network-fulfillment: a TLA+ development

This directory keeps, beside the Go service in `src/`, TLA+ modules of its
protocol with external demand networks, TLC configurations that check them on
small instances, and TLAPS proofs of what holds for every value of the
constants.

network-fulfillment takes orders from an external network, asks
order-management whether the local site can carry them by the ship-by date,
answers the network **once, within a window**, and only then lets the work
onto the floor. What makes that hard is that one order touches three systems
that share no transaction (its own Postgres, order-management, the network),
that all of it is retried, restarted and swept in the background, and that
nothing but the order of the calls keeps the three consistent.

## 1. Inventory

| component | state | operations | talks to |
|---|---|---|---|
| `NetworkOrder` aggregate (`internal/domain/networkorder`) | state, local order link, acknowledge-by deadline | `Receive`, `Acknowledge`, `Reject`, `LinkLocalOrder`, `AcknowledgementOverdue`, `ConfirmShipment` | none (pure) |
| Receive use case (`usecases/receive_network_demand.go`) | one order in flight, on the goroutine's stack | `Execute`: look up, translate, save, raise a hold, cancel or commit, answer, release | repository, unit of work, order-management, network |
| Acknowledgement sweep (`usecases/sweep_acknowledgement_deadlines.go`) | the overdue orders loaded by a pass | `Execute`, `missOne` | repository, order-management |
| Poller (`adapters/inbound/poller`) | watermark, the demands of a pass | `Run`, `pollOnce` | network gateway, receive use case |
| Stub network gateway (`adapters/outbound/network`) | pending demand, answers | `PollDemand`, `SubmitAcknowledgement`, seed at boot | seed file |
| Postgres repository, unit of work, outbox publisher (`adapters/outbound/postgres`) | `network_orders`, `outbox_events` | `Save` (upsert), `FindByRef`, `ListUnanswered`, `Do`, `Publish` | Postgres |
| order-management client (`adapters/outbound/ordermanagement`) | none | `RaiseHeldOrder`, `CancelHeldOrder`, `ReleaseHeldOrder` | order-management over HTTP |
| Circuit breaker and call timeouts (`ordermanagement/breaker.go`, `internal/resilience`) | gobreaker's state, counts and expiry | `Execute` around each of the three calls, `ReadyToTrip`, `CallTimeout` | order-management client |
| In-memory repository (`adapters/outbound/memory`), used without `DATABASE_URL` | the map of orders, the product dictionary | `Save`, `FindByRef`, `ListUnanswered`, `ToSKU` | receive use case, sweep (which share its orders) |
| Outbox relay and Kafka publishers (`postgres/outbox_relay.go`, `outbound/kafka`) | `published_at` marks | claim, send, mark, commit | Postgres, Kafka |
| Analytics projector (`cmd/netfulfil-projector`, `inbound/kafka`, `outbound/analyticsstore`) | consumed ids, claimed ids, daily rollup, consumer offset | fetch, mark, apply, dead-letter, commit | Kafka, analytics Postgres |
| Analytics reports (`analytics/report`, `analyticsstore`) | the rollup rows by day, the latest event | `Query`, `FreshnessLag` | analytics Postgres, or a `MemoryStore` |
| HTTP API, MCP server | none of their own | queries | repository, rollup |
| Composition root (`cmd/netfulfil/main.go`) | background goroutines, readiness, pool, publisher | boot retry, start, ordered shutdown, deferred closes | all of the above |

What is hard in it, and where (the full list, each at its line, is in
`PROJECT.json` under `hazards`):

- **Three stores and no common transaction.** Every call of a unit may fail, or
  succeed and lose its reply; the pod may die between any two.
- **Check, then act.** `FindByRef` and the first `Save` are separate calls; so
  are the sweep's `ListUnanswered`, its loads and its saves. Another pod, or the
  other goroutine of the same pod, acts in between.
- **An upsert that overwrites.** `NetworkOrderRepo.Save` writes the new state
  over whatever the row says.
- **Redelivery.** The stub hands back what was not answered, and everything
  again after a restart.
- **A deadline** that passes while the order is in flight.
- **The pipeline behind the outbox** is at-least-once at two hops and has two
  separate deduplication gates.
- **A breaker with a memory.** What it lets through depends on calls that ended
  long ago, in another window, or were given up by their own caller.
- **Without a database** there is neither a transaction nor a lock: the poller's
  unit and the sweep change the same order in memory, and a failed publish does
  not take a change back.

What would make it correct: the record and the published events never
disagree; the network is told at most one answer and only the answer on
record; nothing reaches the floor before the network was told yes; a refused
order holds no stock; a missed deadline is a real one; the deadline never
moves; every order is settled in the end. Of the parts around it: events leave
the outbox in the order of their commits and are not lost, the rollup counts
each once, the poller's watermark skips no demand, a stop closes nothing
that is in use, the breaker opens on fresh evidence and never stays shut for
want of a probe.

## 2. Modules

| module | what it is | code |
|---|---|---|
| `NetworkOrder` | the aggregate as a record and pure operators: a guard for each precondition, a function for each transition | `domain/networkorder/network_order.go` |
| `NetworkIntake` | the core: poller, receive use case, sweep, stub network, order-management and the Postgres store, on any number of pods | `usecases/*.go`, `poller.go`, `gateway.go`, `planner.go`, `network_order_repo.go`, `unit_of_work.go` |
| `AnswerProtocol` | abstract: what the network is promised of each order | implemented by `NetworkIntake` with one pod |
| `OutboxRelay` | the units that fill the outbox, the relay of each pod, the topics | `outbox_publisher.go`, `outbox_relay.go`, `kafka/publisher.go`, `main.go` |
| `OrderedDelivery` | abstract: what the consumers of a topic are promised | implemented by `OutboxRelay` with one relay |
| `AnalyticsProjector` | the consumer of the analytics topic and its rollup by day | `analytics_consumer.go`, `postgres_projection.go`, `consumed_events_repo.go`, `postgres_report.go` |
| `ReadModel` | abstract: what a projection store promises its reports, as the in-memory store keeps it | `memory_store.go`, `catalogue.go`; implemented by `AnalyticsProjector` |
| `Poller` | the poller's goroutine and its watermark, against a network that honours it | `poller.go` |
| `Host` | one pod's process from boot to end; extends `Poller` with everything that starts and stops it | `main.go`, `readiness.go` |
| `Breaker` | the circuit breaker around order-management and the units that call through it | `resilience/breaker.go`, `deadline.go`, `ordermanagement/breaker.go`, `planner.go` |
| `DevelopmentMode` | the intake without a database: in-memory orders shared by two goroutines, and a publisher that writes two topics itself | `memory.go`, `translation_file.go`, `unit_of_work.go`, `main.go`, `usecases/*.go`, `network_order.go` |
| `MCNetworkIntake`, `MCOutboxRelay`, `MCAnalyticsProjector`, `MCHost`, `MCBreaker`, `MCDevelopmentMode` | instances for TLC | none |
| `NetworkIntakeProofs`, `ReplicaProofs`, `OutboxRelayProofs`, `AnalyticsProjectorProofs`, `HostProofs`, `BreakerProofs`, `DevelopmentModeProofs` | theorems and their proofs | none |
| `SumTheorems` | facts about sums over finite sets, proved from the community modules' definition | none |

The first three parts meet at two interfaces. `NetworkIntake.events` is the sequence
of events committed for each order; `OutboxRelay` takes such commits as its
input and adds what a transaction is made of (row lock, two inserts, commit or
rollback). `OutboxRelay.log`, restricted to the analytics topic, is a `Topic`
of `AnalyticsProjector`, duplicates included. Each part assumes of its
neighbour only what the neighbour's properties give it. `Host` looks at the same
process from the outside: what a sweep or a relay pass does is one step there,
and of a unit it matters only whether the use case took it. `Breaker` refines what
`NetworkIntake` calls a failed call: a unit there is its two calls and nothing
else. `DevelopmentMode` is the other way to wire the same two use cases.

### How a model step corresponds to the code

One action is one call that leaves the process: a transaction, an HTTP call, an
answer to the network, a `WriteMessages`, an offset commit. What a goroutine
does between two such calls nobody else can observe, so it belongs to the call
before it. A call may fail without effect, or take effect and lose its reply;
both are steps of their own (`CallFails`, the second disjunct of `Reply`), and
the constants `Faults` and `Lost` say which calls may. A pod may be killed
between any two steps (`Restart`).

**NetworkIntake.** `unit[p]` is the one `Execute` that pod `p`'s poller has in
flight; its `pc` names the call it makes next: `save` (`saveAndPublishReceived`),
`raise` (`RaiseHeldOrder`), `cancel` (`CancelHeldOrder`, in `reject`), `commit`
(the second unit of work), `submit` (`SubmitAcknowledgement`), `release`
(`ReleaseHeldOrder`). `PollDemand` and `TakeUp`/`PassOver` are `pollOnce`.
`sweep[p]` is a pass of the sweep: `ListUnanswered` reads the clock and the
references, `LoadListed` loads each of them in a query of its own (that is what
`NetworkOrderRepo.ListUnanswered` does), and `MissOne` works on what was
loaded. `holds` is order-management as `planner.go` uses it. `pending` is the
stub's memory: `Restart` fills it again, as `seedStubDemand` does.

**OutboxRelay.** A row's place in `outbox` is its BIGSERIAL id, drawn at the
insert. The row lock that `Save` takes is the guard of `Begin`, `SKIP LOCKED`
is the guard in `Claimable`. A pass keeps its marks in `relay[p].done` until
`CommitPass` or `RecordSendFailure` commits them.

**AnalyticsProjector.** `handler` is the message between `FetchMessage` and
`CommitMessages`. `consumed` and `claimed` are the two tables that gate it.
`RunReturns` ends `Run` at a fetch, a dead-letter write or a commit that fails;
`Restart` starts a new consumer group at the first offset. `Delta` and `Upsert`
are the two halves of `PostgresProjection.Apply*`: the columns an event adds to,
and the row of its day. `ReadModel` does the same under one lock and at once;
the refinement maps the projector's claims to the ids seen and its rollup to the
rows, and everything else it does is a stutter there.

**Poller and Host.** `pass` holds the locals of `pollOnce`: `calling` and
`returning` are `PollDemand` before and after the network read what is
outstanding, `handing` is the loop over the batch, `executing` a unit in the use
case. The stub ignores the watermark, so the network here is the one that
`ports.NetworkGateway` describes: it lists what it accepted *at the watermark or
later* and has no answer for, by a clock that agrees with ours. A network whose
clock is behind ours, or that takes "since" as strictly later, would break
`NothingSkipped`; nothing in `pollOnce` guards against it. In `Host`, `phase` is
where `main` is, `boot` the locals of `retryWithDelay`. Attempts take no time
there, so `boot.waited` is the sum of the delays alone. `pool.Close` waits for
acquired connections: a relay pass holds one to its end, being one transaction,
but a sweep, a request or a unit only from query to query, so `PoolCloses` may
fall into the middle of those. A SIGTERM before `serve`
installs its handler kills the process, as `Ends` does. `select` in `Run` picks
at random when tick and cancellation are both ready: a poll may still start
after the signal.

**Breaker.** `breaker` is gobreaker's state with the counts `ReadyToTrip` reads
and the age of the generation. gobreaker is a library: `Generation`, `Succeeded`
and `Failed` follow its documented behaviour with the settings of
`newBreakerClient`, and an end of a call is counted only in the generation it
began in. `unit` is the poller's unit as far as it concerns order-management:
`raise`, then one of release and cancel (`follow`), each `Call` let through or
refused, each ended by `Succeeds`, `Fails` (at once, or when `waited` reaches
`CallLimit`) or `Cancelled`. `recent`, `inARow` and `refused` are histories the
properties speak of.

**DevelopmentMode.** An action is a call that leaves the process, or one access
to the state of an order: `Acknowledge` is `CheckUnanswered` and then
`StoreAnswer`, and the sweep's `MissChecks` and `MissStores` fall between or
beside them. The two stores are a data race; a state written by both at once is
one of the two or `Torn`, a string of one's pointer and the other's length.
`Publish` is the fan-out over two topics, with a write that fails after it
arrived. `SKUQuantities` and `Translate` are on real lines there, because without
a database, too, what is held must be what was asked for.

### What is abstracted

- Of an order in `NetworkIntake`: lines, SKUs, site and ship-by date. They pass
  through unchanged; what matters of them is whether they translate (`Demand`)
  and whether order-management finds them feasible (a choice of
  `RaiseHeldOrder`). The lines, and how they are translated and summed, are in
  `DevelopmentMode`.
- Of time: one clock in units of the window. `Window = 1` is the 24 h window.
- Of the outbox: encoding, headers, `attempts`, `last_error` (written, never read).
- Of the rollup: the count of latencies, always that of the acknowledged orders.
- Of the breaker: the gauge of its state, written and never read; the volume of
  one window is bounded by `MaxVolume` calls.
- The deployment modelled is the one of the chart: `DATABASE_URL` set,
  `EVENT_PUBLISHER=kafka`, stub gateway. `DevelopmentMode` is the one without a
  database; with the log publisher it is the same without `"publish"` in
  `Faults`.

## 3. Runs

`tlc -config <cfg> <module>` reproduces each. Sizes are distinct states.

| run | instance | what it shows | size |
|---|---|---|---|
| `replicas` | 2 pods, 1 order, 2 local ids, every call failing or losing its reply, 1 restart, clock to 3 | the safety that survives racing replicas: row and outbox agree, the network only hears what is durable, only promised work is released, a recorded refusal freed a hold, a recorded miss is a real one | 1.8 M |
| `single_replica` | 1 pod, an order of each kind (translatable, unknown SKU, malformed), every fault, 1 restart, `Prompt` | one hold and one answer per order, a refused order holds nothing, and the intake implements `AnswerProtocol` | 270 k |
| `settled` | 1 pod, 2 orders, saves and raises fail, raises lose replies, 1 restart | the sweep settles every recorded order in the end | 11 k |
| `healthy` | 1 pod, 2 orders, only saves fail, no restart | every demand is answered, every hold resolved, acknowledged work released | 3 k |
| `orphaned_hold` | `healthy` with a failing cancel, 1 order | **violation**: the hold is never resolved, the sweep cannot see it | |
| `rolling_deploy` | 1 writer, 2 orders, 2 events, relays `old` (which may stop) and `new`, 1 failure, a broker that may lose | no unsent row is marked, topics and store agree, a duplicate has a cause, every committed event is sent | 161 k |
| `one_relay` | 2 writers, 3 events on 2 orders, 1 relay, 1 failure | first copies arrive in the order of the commits; the relay implements `OrderedDelivery` | 300 k |
| `overtaking` | 1 order, 2 relays, no failure | **violation**: a later event of the order is sent first | |
| `projector` | 6 events of every kind on 2 partitions and 2 days, one duplicated, every call failing (fetches too) or losing its reply, 2 failures, 1 rebalance | the rollup counts each claimed event once and implements `ReadModel`, no answer is counted without its receipt unless that was given up, a loss has a cause, nothing but the end of `Run` (a fetch, letter or commit that fails) keeps the consumer from its whole topic | 1.1 M |
| `host` | 1 pod, 2 units of demand, any poll, unit or boot attempt failing, 1 signal or kill | the watermark skips no demand and all of it is handed over, a boot that gives up has outlasted a 10 s reset, a stop closes things after their use, a signalled process ends | 87 k |
| `breaker` | the tuning of the code in units of 10 s: calls of 1, window and cooldown of 3, 5 in a row or more than half of 10 | opens on fresh failures only, never half open without a probe, never in the way of a release or cancel, bounded pressure, hanging calls never open it, recovers | 1.4 M |
| `development` | 3 demands (two products on one SKU, an unknown product, a malformed line), every write and call failing, 1 restart | what is held, published and told agrees in the order of the calls, one hold per process, an answer stands without a lock, every order is answered | 1.2 M |

### Bounds and why they are enough

- *References and local ids.* No two orders share a row, an event list or a
  hold; they meet only in the goroutine that serves them one after another and
  in the supply of local ids. One order therefore shows the races of two pods,
  and two or three show what one order's failure does to the ones behind it.
  Two local ids allow the second hold that a second raise would make.
- *Pods.* Two are what it takes to race; the proofs are for any number.
- *Time.* `Window = 1` keeps three cases apart: inside the window, at the very
  deadline (still in time), past it. `MaxTime` 3 or 4 leaves room for the
  latest demand to run out of its window; `ClockBound` holds the clock back
  while demand is still to come, so an execution never ends before the sweep
  had its chance. The clock stops at `MaxTime`: no property but the sweep's
  depends on it.
- *Restarts and failures.* `MaxRestarts`, `MaxFailures`, `MaxRebalances` bound
  how often, never when. Failures without effect are not counted: they may
  repeat at will, and the liveness runs contain executions where they do.
- *Events and batches.* `BatchSize = 2` is smaller than the outbox (two rows
  per event), so a batch may end in the middle of an event, and several rows of
  one order may fall into one batch or into two.
- *Attempts.* `MaxAttempts = 3` stands for `maxHandlerAttempts` (3 in the code),
  `BootRetries = 5` for `bootRetries`; `DialReset = 10` is the reset its comment
  speaks of.
- *The poller's clock.* In `host`, `MaxTime = 1`: two instants, before and after
  a poll, tell every order of an acceptance and a watermark apart. Two units make
  a batch with a unit that fails before one that succeeds.
- *Stops.* `MaxStops = 1`: one signal, kill or failed listener, at any point, and
  the process that the kubelet starts after it. One request in flight shows what
  waiting for it means.

- *The breaker's clock.* One tick is 10 s, the HTTP client's timeout: a window
  of three ticks is the least in which a hanging call, a window's end and a
  cooldown can fall apart. `MaxVolume = 10` is where the error rate begins to
  count; more calls in a window add to a rate that has been compared already.
- *Days.* Two days and an event at midnight tell a row of the wrong
  day from a row of the right one; `DayLength` is two ticks.
- *Demand lines.* Two lines of one SKU, and an unknown and a non-positive line in
  either order, tell every order of the checks in `translate` apart.

Every run but `development` ends in no deadlock: pollers and sweeps go on for ever, and an empty
pass (`EmptyPass`), a poll of nothing and a consumer with nothing to do (`Idle`)
are steps of the code too. `development` may stop: all demand is answered or
malformed and the clock is at its bound.

## 4. Fairness

Safety runs use `Spec`, with none. Liveness runs use `FairSpec`:

- *Weak fairness of the tickers* (`PollDemand`, `ListUnanswered`, `Claim`,
  `Fetch`): `time.Ticker` loops and `Run` loops. A consumer whose `Run` has
  returned fetches nothing more, and nothing is assumed of it.
- *Weak fairness of the step in flight* (`Step`, `Handle`): every call is made
  under a timeout or a context, so it returns, with success **or** failure. It is
  one formula over all the outcomes; no outcome is promised.
- *Strong fairness of the store* (`TakeUp`, `SaveReceived`, `LoadListed`,
  `MissOne`): a database that is reached again and again answers in the end. Each
  of these is retried by its ticker for ever, so weak fairness, which one failed
  try satisfies, would not do. The listing of a pass has a conjunct of its own
  (`LoadListed(p, r) /\ sweep'[p].listed = {}`): a pass loads one order per query
  and any failure ends it, so a pass must succeed as a whole now and then.
- *Strong fairness of the broker* (`SendSucceeds`): the same, for the relay.
- *Of the process* (`Host`): weakly fair are `main`'s own step, the shutdown
  deadline, the poller's step in flight and the end of a pass or request (all are
  under a timeout or a context); strongly fair are the boot steps, a poll and
  each unit's success, because the kubelet and the ticker try them for ever.
- *Of the breaker*: weakly fair are the clock, a call that is next and its end
  (the client's timeout). That order-management recovers and demand keeps coming
  are premises of `Recovers`, not assumptions.
- *Of the development mode*: weakly fair are the clock, the two tickers and the
  step in flight, whatever its outcome.
- *Nothing* is assumed of order-management, of Kafka without an outbox, of the writers of the outbox, of
  restarts, or of any failure to happen.

`Prompt = TRUE` says that the calls in flight end before the order's own
deadline. Each call is bounded by seconds (10 s HTTP timeout and breaker), the
window is 24 h. Without it a sweep could miss an order whose answer is on its
way, which `replicas` (where `Prompt = FALSE`) allows.

## 5. What is proved

Every theorem is for all values of the constants that satisfy the named
assumptions (`IntakeAssumption`, `OrderAssumption`, `OutboxAssumption`,
`ProjectorAssumption`, `EventAssumption`, `OrdersInOrder`, `PollerAssumption`,
`HostAssumption`, `BreakerAssumption`, `DevelopmentAssumption`): any number of orders, pods, local ids, relays, topics,
partitions and events, any batch size, any set of failing calls, any bound on
restarts and failures.

**NetworkIntake.** `Safe == Shape /\ HoldsOwned /\ HoldsBelong /\ OnRecord` is
inductive.

- `Shape` is `TypeOK` with what a goroutine may carry at each `pc`
  (`UnitsCarry`), what a sweep has loaded (`LoadedUnanswered`) and
  `LocalRequiresAnswer`. `TypeOK` alone is not inductive: a unit writes the
  order it carries.
- `HoldsOwned`: the hold a unit works on belongs to its order, has the status
  its next call expects, and is no other unit's. Without it another pod could
  cancel or release the hold a unit is about to put on record. `HoldsBelong`:
  every hold was raised for some reference.
- `OnRecord` is the conjunction of the properties themselves with
  `UnitsRelyOnRecord`: a unit about to tell the network has its answer's event
  in the outbox, one about to release was heard too. Other pods may overwrite
  the *row* meanwhile but not the *outbox*, which only grows; that is why the
  properties speak of `Recorded`.
- `DeadlineNeverMoves` follows from the upsert leaving the column out, and
  `MissedOnlyAfterDeadline` from a second invariant, `Punctual`: the window of
  what a sweep loaded as overdue has closed by the clock as it is now, because
  the clock only advances and deadlines do not move.

**Replicas** (`ReplicaProofs`), in three layers on top of the invariants above.

- `Within`, for any finite set of pods: of each order, the holds raised and the
  pods that may yet raise one (`Asking`) are together at most the pods, and so
  are the answers told and the pods that may yet tell one (`Answering`). Any pod
  may take a demand up until the order has its row, when nothing is raised or
  told yet; from then on none does, and a raise or an answer uses up the place of
  its pod. It gives `RaisedOncePerReplica` and `ToldOncePerReplica`: the
  most that the lookup without a lock can cost (section 6 shows that it does).
  Its premise is that the pods are finitely many.
- `Once`, for `Pods = {the}`: an order has at most one hold, and it is cancelled
  if a unit refuses the order. The sweep may write the row in between, but it
  never removes one, records no refusal of a unit and, by `LocalRequiresAnswer`,
  has no hold to touch. `OneReplicaRaisesOnce` and `OneReplicaFreesRefused`, two
  of run `single_replica`'s invariants, follow without `Prompt`.
- `Single` adds, under `Prompt`, that the row agrees with what the network was
  told: `OneReplicaAnswersOnce` and the refinement, `OneReplicaKeepsPromises`.
  The heart of it is `OutOfReach`: a unit writes the row of its order only before
  the window closes (`Prompt`) and the sweep only after (`Punctual`), so neither
  overwrites the other although the upsert checks no state.

Both assumptions are needed where they are made: two pods violate
`OneHoldPerOrder` and `OneAnswer` (section 6), and without `Prompt` a sweep that
loaded an order just before its commit records a miss over the acknowledgement,
which `OneAnswer` and `AnswerProtocol` forbid.

**OutboxRelay.** Seven invariants, each used by those after it:

- `Shape` is `TypeOK` with what a unit and a pass may carry; `SentFirst` adds
  `MarksSent` (what a pass is about to mark it has sent) and gives
  `MarkedAfterSending`.
- `Exclusive`: a claimed row is pending and in the batch of one relay only, the
  row locks of `FOR UPDATE SKIP LOCKED`.
- `Store`: a unit's rows become pending with its commit and only then can reach
  a topic (`LogCommitted`, `RowsSaved`, `SavedQueued`); it gives
  `TopicsFollowTheStore`.
- `CopiesPaid`: the copies of a row on its topic are at most the failures and the
  stopped pods, and one more if the row is published or a pass holds it with its
  send behind it (`Paid`). A pass loses a row it has sent only to a failure or a
  stop, which pays for the copy; that is why the bound survives a `Claim` that
  takes a sent row again.
- `UnitsInRow`: the rows of an open unit are the last of their order, because
  the unit holds the lock on the order's row. With the relay's claim being the
  oldest pending rows (`OldestClaimed`) it gives `TurnsKeepOrder`. Its premises
  are `BrokerLoses = FALSE`, since a lost message would be overtaken by the next,
  and `[]TakeTurns`: no two relays are in a pass at once. One relay always takes
  turns (`OneRelayKeepsOrder`), so does any number of replicas whose passes
  happen not to overlap; run `overtaking` shows two whose passes do.

- *The refinement* (`TurnsDeliver`, `OneRelayDelivers`), under the same two
  premises. The
  mapping lists the ids of one order on one topic: `History` those that are
  committed, by id; `Seen` those on the log, by the place of their first copy.
  Commits append to the history because of `UnitsInRow`, by one event and the
  same on both topics because an open unit has one row per topic
  (`OneRowEach`, `SameHistory`). A first copy is the next event of the history
  (`CopyIsNext`): `FirstCopiesInOrder` before the step says that nothing behind
  the row was seen, after the step that everything before it was. A second copy
  moves no first one (`FirstCopyStays`). `Places` is the counting behind it: the
  members of a finite set have the places `1..Cardinality`, one each.

**AnalyticsProjector.** `Shape` is `TypeOK` with what the handler may have in
hand; `Counted` (finitely many claimed events, and the rollup is their number by
kind) gives `RollupIsExact`. `LossesNeedFailures` needs `Abreast` (the reader is
never more than the message in hand ahead of what the group committed, so a
commit skips nothing) and `DebtNeedsFailure`: the events that are reached and
neither projected nor dead-lettered, nor just being so, are no more than the
failures. No step adds more than one such event, and none without a failure.
`DatabaseIsReadModel` is the refinement: `RollupIsExact`'s sums show that the
step that claims an event is `ReadModel!ApplyEvent` of it, and every other step
leaves claims and rollup alone. `ReportsNeverShrink` follows from the same step:
no report loses a row or a count, and `FreshnessLag` only grows by the clock.
`ReceiptsComeFirst` rests on `OrdersInOrder`, an assumption on the topic that
`OneRelayKeepsOrder` justifies for one relay.

**Host.** `WatermarkSkipsNothing` needs `Watermark`: instants are in the past
(`PastOnly`), a pass asked for everything since the watermark it will replace
(`AskedSince`), and what was accepted before the pass began is settled or still
in its batch or hand unless something failed (`BatchCovers`, `OneInHand`). That
is what makes an early read of the clock and a late move of the watermark
enough. `StopClosesAfterUse` needs `StopLine`, what each wait of `serve` leaves
true behind it. `BudgetIsFifteenSeconds` is for `BootRetries = 5`, from a table
of the five attempts (`Backoff`).

**Breaker.** `Inv == TypeOK /\ Course`: where a unit may be in which state of the
breaker. A call is let through a closed breaker or is the one probe of a
half-open one; there is one unit, so nobody else's failure can open the breaker
between a raise and its release. That gives `FollowUpsPass` and `ProbesDecide`
for every tuning. `HangsAreNeverCutOff` needs `Slow`: as long as every call took
its whole limit, the age of a generation is at least the failures counted in it
times the limit. Its premise (`Unhurried`) is that neither `Trip` calls nor half of
`MinVolume` calls fit into a window, as 5 times 10 s are more than 30 s.
`TrippedOnEvidence` needs `CountedIsRecent`: as long as a generation has not
expired, each failure it counts is younger than it and still remembered; its
premise `MajorityIsEvidence` (twice `Trip - 1` is at most `MinVolume`, 8 and 10 in
the code) makes a tripping majority as many failures as a tripping streak.
`PressureIsBounded` is not inductive. `Pressed` is: of the failures of a streak
those younger than the generation at hand are bounded by its count, all of them
by that and one threshold more, and an open breaker, which lets nothing through,
forgets them before its probe (`CooldownOutlastsWindow`, 30 s and 30 s in the code).
A tuning with a shorter cooldown would let probes add up.

**DevelopmentMode.** `Inv == Shape /\ Owned`: the order behind a unit or a miss is
in the map, and the hold a unit has in hand is its order's. `StepsInOrder` is
inductive with `Progress` (what a unit at `submit` or `release` has behind it).
`HoldsNeedRestarts` counts: an order's holds are at most the restarts, and one
more once the process is past raising (`Spent`). `AnswerStands` needs no lock
because of the clock: the sweep touches an order only when its window is over
by a clock that is behind (`InTime`), so a unit that shares an order with it is
late (`SharedIsLate`), and a check of an order that is not late still holds at
the store (`CheckHolds`). `HeldIsWhatWasAsked` has two halves: `AskedFor`, that a
raised hold has the lines `Execute` asked for and only translatable demand is
raised; and `SumByColour`, that quantities summed SKU by SKU and then over the
SKUs are the quantities summed over the lines, whichever products share one. It
needs `IsFiniteSet(Products)`, which the dictionary is.

**Sums** (`SumTheorems`). The sums over failures by age and over lines are the
community modules' `SumFunctionOnSet`, a recursive function over the subsets of
a set. That one exists, adds an element at a time, is a natural number, grows
with its set and may be taken colour by colour, is proved by induction over a
*set* of subsets (`SubsetInduction`), since the library's scheme, which takes a
predicate, cannot be cited.

The type invariants are proved and not run, as are `LocalRequiresAnswer`,
`DeadlineNeverMoves` and `ReportsOnlyGrow`.

**Model-checked only.** All liveness (`FairSpec`), which is out of the prover's
reach: `EveryOrderIsSettled`, `NetworkIsAnswered`, `HoldsAreResolved`,
`AcknowledgedIsReleased`, `EveryEventIsSent`, `CatchesUpOrStops`,
`DemandIsHandedOver`, `SignalledProcessEnds`, `Recovers` and
`EveryOrderIsAnswered`. Every other property of a passing run is a theorem, under
the premises named above.

## 6. Where the code and its documents part

Two runs are counterexamples to a sentence of the repository; `PROJECT.json`
quotes both under `findings`. These were seen too and have no run of their own;
each is reproduced by the change given.

- *A retry does nothing.* `gateway.go:135` keeps demand pending so that a failed
  attempt is retried; `receive_network_demand.go:74` takes the row of the failed
  attempt for a duplicate. `healthy` with `Faults = {"save", "raise"}` violates
  `NetworkIsAnswered`: the order is missed by the sweep and the network is never
  told.
- *Two replicas answer twice.* `network_order.go:41` says that demand is answered
  once; `FindByRef` and the first `Save` are separate calls and the upsert
  overwrites. `single_replica` with two pods violates `OneAnswer` and
  `OneHoldPerOrder`. `values.yaml:94` offers to scale to four replicas
  because they "read/write one consistent store"; one store does not make one
  answer. It can be as many answers and holds as there are replicas, and no more
  (`ToldOncePerReplica`, `RaisedOncePerReplica`).
- *A hanging order-management is never cut off*, contrary to ADR 0004. The HTTP
  client gives up after 10 s (`NewPlanner(…, nil)`), so the 30 s cap of
  `CallTimeout` is never reached, and five such calls do not fit into the
  breaker's 30 s window: `HangingIsNotCutOff`, which is proved. Any status that
  is not 2xx counts as a failure, a refusal of one bad request included.
- *Demand turned away by an open breaker is missed*, not retried: its row is
  there already, as with any failed raise.
- *Without a database a failed publish loses the answer.* `Acknowledge` and
  `Reject` have changed the order in place, so it is no longer NEW: no retry and
  no sweep looks at it again, the network is never told and the hold stays.
  `sweep_acknowledgement_deadlines.go:60` leaves a failed miss "for the next
  pass to retry", which is true of the database only. In `development` this is
  why `EveryOrderIsAnswered` speaks of the map and not of the network.
- *Freshness is not completeness.* `FreshnessLag` is the age of the latest event
  applied, not the distance "the read model trails real time"
  (`postgres_report.go:69`): an event of today hides a lost one of yesterday,
  and an empty model has no lag at all. A window compares the beginnings of
  days, so a `from` at noon leaves that day out and a `to` at noon takes all of
  its own in.
- *A failed release is never retried.* `healthy` with `Faults = {"save",
  "release"}` violates `AcknowledgedIsReleased`: the unit logs the error and
  returns, the network was told yes, and nobody looks at the hold again.
- *SIGTERM cuts a relay pass off.* `main.go:398` and ADR 0003 say that the pass
  in flight finishes; the relay's context is a child of the one the signal
  cancels (`main.go:349`), so the commit of the pass fails too. In the model
  this is `Shutdown`; it costs duplicates, which `DuplicatesNeedFailure` counts
  under `stopped`.
- *The writer asks for no acknowledgement.* `NewPublisher` leaves
  `RequiredAcks` at its zero value, `RequireNone`, while `outbox_relay.go:27`
  marks rows "only after a successful send". With `BrokerLoses = TRUE` a row
  may be marked and its message lost; the relay's properties are stated up to
  `dropped`.
- *A failed dead-letter write ends `Run`*, as does a failed fetch or commit; the
  health endpoint stays up and nothing is projected any more: why `CatchesUpOrStops` has its second disjunct.
- *A crash between the two gates* loses the event, contrary to
  `analytics_consumer.go:109`, and so does a `MarkProcessed` whose reply is lost:
  `analytics_consumer.go:262` says that "an erroring call never marks the event",
  but an `INSERT` may commit and its reply be lost, and the retry then takes the
  event for a duplicate. `projector` has executions of both kinds; to see one,
  give it `Lost = {"mark"}` and check that every event committed past is claimed,
  dead-lettered or foreign. `LossNeedsFailure` bounds what they cost.
- *The boot budget is 15 s, not 31 s.* `main.go:537` adds up 1+2+4+8+16; the loop
  breaks after the fifth attempt, before its delay (`main.go:563`).
  `BudgetIsFifteenSeconds` proves what is true of it; it is still past the 10 s
  reset the budget is for.
- *The pool may close under the sweep.* `main.go:387` says that every goroutine
  has stopped touching the pool by then. Nobody waits for the sweep
  (`main.go:328` keeps no channel for it), and after the deadline nobody waits
  for anyone. `pool.Close` itself waits for the connections in use, so this costs
  a failed pass. `PoolCloses` may fall into a sweep, and `ClosedAfterUse` leaves
  the sweep out: it promises nothing of it.
- *A pass may start after the signal*, contrary to `main.go:383`: the `select` of
  `Run` may pick the tick. Its context is done, so it ends at the first call or
  check that looks at it, without taking up a unit.
- *Readiness has no window.* `main.go:376` wants one in which a probe sees the
  flip before the listener closes; `SetNotReady` is followed by `Shutdown` at
  once.

## 7. What is not modelled, and why

`PROJECT.json` lists every component with its status. Left out for good:

- *HTTP and MCP handlers*, of the service and of the reports: each parses a
  request, runs one query of a repository or a read model that is modelled, and
  renders the result. They keep no state.
- *Migrations, telemetry, configuration and logging*: they run before anything
  is served, or are written and never read.
- *Sites and ship-by dates*, which pass from the network to order-management
  unchanged, and `ConfirmShipment` with `SubmitShipmentConfirmation`, which no
  use case calls.
- *Charts, API documents, the web page and the scripts* are no code of the
  program; they were read for what they promise.

## 8. Plan

The invariants, action properties and refinements of the passing runs are
proved. Left are statements stronger than those runs make:

1. What several replicas promise together, or one that is not prompt: an abstract
   specification weaker than `AnswerProtocol`, in which an answer may be told once
   per replica and a miss may be recorded over it, which `Within` and `Once`
   are the invariants of.
