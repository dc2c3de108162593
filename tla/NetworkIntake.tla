---------------------------- MODULE NetworkIntake ---------------------------
(***************************************************************************)
(* The intake of network demand in the Postgres deployment: every pod runs *)
(* one poller, which feeds the demand of the (stub) network one unit at a  *)
(* time to ReceiveNetworkDemand.Execute, and one acknowledgement sweep;    *)
(* all pods share one network_orders table with its outbox and one         *)
(* order-management.                                                       *)
(*                                                                         *)
(* One action is one call that leaves the process (a transaction, an HTTP  *)
(* call, an answer to the network); everything between two such calls is   *)
(* local to one goroutine and belongs to the call before it.  A call may   *)
(* fail without effect (CallFails) or take effect and lose its reply       *)
(* (Reply), and a pod may be killed between any two calls.                 *)
(***************************************************************************)
EXTENDS NetworkOrder, Sequences

CONSTANTS
  Refs,         \* the demand of the seed file, by network reference
  Demand,       \* what each reference asks for, see DemandKind
  NoRef,        \* no network reference
  Pods,         \* replicas of cmd/netfulfil
  Prompt,       \* TRUE: no unit is still in flight when its window closes
  Faults,       \* the calls of a unit that may fail without effect
  Lost,         \* the calls of a unit whose reply may be lost
  MaxTime,      \* bound: the last instant of the clock
  MaxRestarts   \* bound: how often pods are killed, all together

\* Translatable; naming a product with no mapping; refused by NewLine or
\* Receive (a bad quantity, no lines, no reference).
DemandKind == {"translatable", "unknown", "malformed"}

ASSUME IntakeAssumption ==
  /\ NoRef \notin Refs
  /\ Demand \in [Refs -> DemandKind]
  /\ Prompt \in BOOLEAN
  /\ Faults \subseteq {"save", "raise", "cancel", "commit", "release"}
  /\ Lost \subseteq Faults
  /\ MaxTime \in Nat
  /\ MaxRestarts \in Nat

VARIABLES
  clock,     \* the wall clock every pod reads
  rows,      \* network_orders, NoOrder where there is no row
  events,    \* the outbox: the events of each reference in commit order
  holds,     \* order-management's orders: whose they are and their status
  answers,   \* what the network was told of each reference, in order
  pending,   \* StubGateway.pending, in the memory of each pod
  batch,     \* the demands of the pod's poll pass still to be received
  unit,      \* the ReceiveNetworkDemand.Execute in flight on each pod
  sweep,     \* the SweepAcknowledgementDeadlines.Execute on each pod
  restarts   \* how many times a pod was killed

vars == <<clock, rows, events, holds, answers, pending, batch, unit, sweep,
          restarts>>

-----------------------------------------------------------------------------
Received == [name |-> "Received", local |-> NoLocal, reason |-> "-"]

Acknowledged(l) == [name |-> "Acknowledged", local |-> l, reason |-> "-"]

Rejected(reason) ==
  [name |-> "Rejected", local |-> NoLocal, reason |-> reason]

Reasons ==
  {"UNTRANSLATABLE_SKU", "INFEASIBLE_DEADLINE",
   "ACKNOWLEDGEMENT_DEADLINE_MISSED"}

Event == {Received} \cup {Acknowledged(l) : l \in LocalIds}
           \cup {Rejected(reason) : reason \in Reasons}

\* held stands for an order in order-management with stock reserved for it.
Hold == [ref : Refs \cup {NoRef},
         status : {"free", "held", "released", "cancelled"}]

\* The call a unit makes next, its order in memory and the order it raised.
Unit == [pc : {"idle", "save", "raise", "cancel", "commit", "submit",
               "release"},
         ref : Refs \cup {NoRef},
         order : Order \cup {NoOrder},
         local : LocalIds \cup {NoLocal}]

IdleUnit ==
  [pc |-> "idle", ref |-> NoRef, order |-> NoOrder, local |-> NoLocal]

\* A pass: its clock reading, the references listed and not yet loaded, and
\* the overdue orders loaded and not yet missed.
Sweep == [now : Nat, listed : SUBSET Refs,
          loaded : [Refs -> Order \cup {NoOrder}]]

IdleSweep ==
  [now |-> 0, listed |-> {}, loaded |-> [r \in Refs |-> NoOrder]]

SweepIdle(p) ==
  sweep[p].listed = {} /\ \A r \in Refs : ~Exists(sweep[p].loaded[r])

Init ==
  /\ clock = 0
  /\ rows = [r \in Refs |-> NoOrder]
  /\ events = [r \in Refs |-> <<>>]
  /\ holds = [l \in LocalIds |-> [ref |-> NoRef, status |-> "free"]]
  /\ answers = [r \in Refs |-> <<>>]
  /\ pending = [p \in Pods |-> Refs]
  /\ batch = [p \in Pods |-> {}]
  /\ unit = [p \in Pods |-> IdleUnit]
  /\ sweep = [p \in Pods |-> IdleSweep]
  /\ restarts = 0

-----------------------------------------------------------------------------
\* Mutants: a poll after a restart finds nothing; unanswered orders are
\* taken for new ones.
FindByRefForgets(r) == NoOrder

FindByRefAnswered(r) == IF Unanswered(rows[r]) THEN NoOrder ELSE rows[r]

FindByRef(r) == rows[r]

\* The upsert of NetworkOrderRepo.Save: an existing row only takes the new
\* state and link, whatever they were before.
Upsert(row, o) ==
  IF Exists(row) THEN [row EXCEPT !.state = o.state, !.local = o.local] ELSE o

\* Mutant: two writes back to back, the second may be lost.
SaveThenPublish(r, o, event) ==
  /\ rows' = [rows EXCEPT ![r] = Upsert(@, o)]
  /\ \/ events' = [events EXCEPT ![r] = Append(@, event)]
     \/ UNCHANGED events

\* One unit of work: the row and its event commit together.
SaveAndPublish(r, o, event) ==
  /\ rows' = [rows EXCEPT ![r] = Upsert(@, o)]
  /\ events' = [events EXCEPT ![r] = Append(@, event)]

\* Execute returns, with or without an error: the poller goes on.
Return(p) == unit' = [unit EXCEPT ![p] = IdleUnit]

\* A call took effect; its reply arrives and the unit goes on as u, or the
\* reply is lost and Execute returns the error.
Reply(p, u) ==
  \/ unit' = [unit EXCEPT ![p] = u]
  \/ unit[p].pc \in Lost /\ Return(p)

Stored == <<rows, events>>
Process == <<pending, batch, sweep, restarts>>

\* Mutant: the stub forgets the demand it hands out.
PollDemandDrains(p) ==
  /\ unit[p].pc = "idle" /\ batch[p] = {}
  /\ batch' = [batch EXCEPT ![p] = pending[p]]
  /\ pending' = [pending EXCEPT ![p] = {}]
  /\ UNCHANGED <<clock, Stored, holds, answers, unit, sweep, restarts>>

\* pollOnce: the pass takes everything the network still lists.
PollDemand(p) ==
  /\ unit[p].pc = "idle" /\ batch[p] = {}
  /\ batch' = [batch EXCEPT ![p] = pending[p]]
  /\ UNCHANGED <<clock, Stored, holds, answers, pending, unit, sweep,
                 restarts>>

\* Execute returns before it builds an order: FindByRef found the row of an
\* earlier delivery, or failed, or the demand is malformed.
PassOver(p, r) ==
  /\ unit[p].pc = "idle" /\ r \in batch[p]
  /\ batch' = [batch EXCEPT ![p] = @ \ {r}]
  /\ UNCHANGED <<clock, Stored, holds, answers, pending, unit, sweep,
                 restarts>>

\* FindByRef found nothing: the demand is translated and becomes an order
\* whose window starts now.
TakeUp(p, r) ==
  /\ unit[p].pc = "idle" /\ r \in batch[p]
  /\ ~Exists(FindByRef(r))
  /\ Demand[r] # "malformed"
  /\ batch' = [batch EXCEPT ![p] = @ \ {r}]
  /\ unit' = [unit EXCEPT ![p] =
       [pc |-> "save", ref |-> r, local |-> NoLocal,
        order |-> IF Demand[r] = "translatable"
                  THEN Receive(clock) ELSE ReceiveUntranslatable(clock)]]
  /\ UNCHANGED <<clock, Stored, holds, answers, pending, sweep, restarts>>

\* saveAndPublishReceived.  Untranslatable demand is refused next, with
\* nothing to cancel; the rest is offered to order-management.
SaveReceived(p) ==
  LET u == unit[p] IN
  /\ u.pc = "save"
  /\ SaveAndPublish(u.ref, u.order, Received)
  /\ Reply(p, IF Demand[u.ref] = "translatable"
              THEN [u EXCEPT !.pc = "raise"]
              ELSE [u EXCEPT !.pc = "commit", !.order = Reject(@)])
  /\ UNCHANGED <<clock, holds, answers, Process>>

\* RaiseHeldOrder creates a held order l, feasible or not by the deadline.
RaiseHeldOrder(p) ==
  LET u == unit[p] IN
  /\ u.pc = "raise"
  /\ \E l \in LocalIds :
       /\ holds[l].status = "free"
       /\ holds' = [holds EXCEPT ![l] = [ref |-> u.ref, status |-> "held"]]
       /\ \/ Reply(p, [u EXCEPT !.pc = "cancel", !.local = l])
          \/ /\ Unanswered(u.order) /\ Linkable(Acknowledge(u.order))
             /\ Reply(p, [u EXCEPT !.pc = "commit", !.local = l,
                            !.order = LinkLocalOrder(Acknowledge(@), l)])
  /\ UNCHANGED <<clock, Stored, answers, Process>>

\* Mutant: a failed cancel is ignored.
CancelUnchecked(p) ==
  LET u == unit[p] IN
  /\ u.pc = "cancel"
  /\ \/ holds' = [holds EXCEPT ![u.local].status = "cancelled"]
     \/ UNCHANGED holds
  /\ Reply(p, [u EXCEPT !.pc = "commit", !.order = Reject(@)])
  /\ UNCHANGED <<clock, Stored, answers, Process>>

\* reject frees the hold before it touches the order.
CancelHeldOrder(p) ==
  LET u == unit[p] IN
  /\ u.pc = "cancel"
  /\ Unanswered(u.order)
  /\ holds' = [holds EXCEPT ![u.local].status = "cancelled"]
  /\ Reply(p, [u EXCEPT !.pc = "commit", !.order = Reject(@)])
  /\ UNCHANGED <<clock, Stored, answers, Process>>

AnswerEvent(u) ==
  CASE u.order.state = "ACKNOWLEDGED" -> Acknowledged(u.local)
    [] u.local = NoLocal -> Rejected("UNTRANSLATABLE_SKU")
    [] OTHER -> Rejected("INFEASIBLE_DEADLINE")

\* Mutant: a failed commit is ignored.
CommitUnchecked(p) ==
  LET u == unit[p] IN
  /\ u.pc = "commit"
  /\ SaveAndPublish(u.ref, u.order, AnswerEvent(u)) \/ UNCHANGED Stored
  /\ Reply(p, [u EXCEPT !.pc = "submit"])
  /\ UNCHANGED <<clock, holds, answers, Process>>

\* The answer and its event become durable.
CommitAnswer(p) ==
  LET u == unit[p] IN
  /\ u.pc = "commit"
  /\ SaveAndPublish(u.ref, u.order, AnswerEvent(u))
  /\ Reply(p, [u EXCEPT !.pc = "submit"])
  /\ UNCHANGED <<clock, holds, answers, Process>>

\* SubmitAcknowledgement: the stub records the answer, retires the demand
\* and never fails.
SubmitAcknowledgement(p) ==
  LET u == unit[p] IN
  /\ u.pc = "submit"
  /\ answers' = [answers EXCEPT ![u.ref] = Append(@, u.order.state)]
  /\ pending' = [pending EXCEPT ![p] = @ \ {u.ref}]
  /\ unit' = [unit EXCEPT ![p] =
       IF u.order.state = "ACKNOWLEDGED"
       THEN [u EXCEPT !.pc = "release"] ELSE IdleUnit]
  /\ UNCHANGED <<clock, Stored, holds, batch, sweep, restarts>>

\* Mutants: released before the network is told; a failed release ignored.
ReleaseEarly(p) ==
  /\ unit[p].pc \in {"submit", "release"}
  /\ holds' = [holds EXCEPT ![unit[p].local].status = "released"]
  /\ Return(p)
  /\ UNCHANGED <<clock, Stored, answers, Process>>

ReleaseUnchecked(p) ==
  /\ unit[p].pc = "release"
  /\ \/ holds' = [holds EXCEPT ![unit[p].local].status = "released"]
     \/ UNCHANGED holds
  /\ Return(p)
  /\ UNCHANGED <<clock, Stored, answers, Process>>

\* ReleaseHeldOrder puts the work on the floor, the last step of Execute.
ReleaseHeldOrder(p) ==
  /\ unit[p].pc = "release"
  /\ holds' = [holds EXCEPT ![unit[p].local].status = "released"]
  /\ Return(p)
  /\ UNCHANGED <<clock, Stored, answers, Process>>

\* The call fails without effect (an error, a timeout, an open breaker, a
\* cancelled context) and Execute returns the error.
CallFails(p) ==
  /\ unit[p].pc \in Faults
  /\ Return(p)
  /\ UNCHANGED <<clock, Stored, holds, answers, Process>>

-----------------------------------------------------------------------------
\* A sweep pass reads the clock and lists the unanswered references.
ListUnanswered(p) ==
  LET unanswered == {r \in Refs : Unanswered(rows[r])} IN
  /\ SweepIdle(p)
  /\ unanswered # {}
  /\ sweep' = [sweep EXCEPT ![p].now = clock, ![p].listed = unanswered]
  /\ UNCHANGED <<clock, Stored, holds, answers, pending, batch, unit,
                 restarts>>

\* Each listed order is loaded by a query of its own; the pass will skip the
\* ones that are not overdue (answered since, or still inside the window).
LoadListed(p, r) ==
  /\ r \in sweep[p].listed
  /\ sweep' = [sweep EXCEPT ![p].listed = @ \ {r},
                 ![p].loaded[r] =
                   IF AcknowledgementOverdue(FindByRef(r), sweep[p].now)
                   THEN FindByRef(r) ELSE NoOrder]
  /\ UNCHANGED <<clock, Stored, holds, answers, pending, batch, unit,
                 restarts>>

\* A load fails and ends the pass with nothing missed.
LoadFails(p) ==
  /\ sweep[p].listed # {}
  /\ sweep' = [sweep EXCEPT ![p] = IdleSweep]
  /\ UNCHANGED <<clock, Stored, holds, answers, pending, batch, unit,
                 restarts>>

\* Both ways out of missOne: the pass goes on with the next order.
Passed(p, r) ==
  /\ sweep[p].listed = {} /\ Exists(sweep[p].loaded[r])
  /\ sweep' = [sweep EXCEPT ![p].loaded[r] = NoOrder]

\* missOne frees the hold the order is linked to, if any, and records the
\* miss over whatever the row says by now.  The network is not told.
MissOne(p, r) ==
  LET o == sweep[p].loaded[r] IN
  /\ Passed(p, r)
  /\ Unanswered(o)
  /\ holds' = [l \in LocalIds |->
       IF l = o.local THEN [holds[l] EXCEPT !.status = "cancelled"]
       ELSE holds[l]]
  /\ SaveAndPublish(r, Reject(o), Rejected("ACKNOWLEDGEMENT_DEADLINE_MISSED"))
  /\ UNCHANGED <<clock, answers, pending, batch, unit, restarts>>

MissFails(p, r) ==
  /\ Passed(p, r)
  /\ UNCHANGED <<clock, Stored, holds, answers, pending, batch, unit,
                 restarts>>

-----------------------------------------------------------------------------
\* The process dies and boots again: the stub is seeded anew, nothing else
\* it had in memory survives.
Restart(p) ==
  /\ restarts < MaxRestarts
  /\ restarts' = restarts + 1
  /\ pending' = [pending EXCEPT ![p] = Refs]
  /\ batch' = [batch EXCEPT ![p] = {}]
  /\ unit' = [unit EXCEPT ![p] = IdleUnit]
  /\ sweep' = [sweep EXCEPT ![p] = IdleSweep]
  /\ UNCHANGED <<clock, Stored, holds, answers>>

InFlight(p) == unit[p].pc # "idle"

\* Bound: the clock stops at MaxTime, and while there is demand to come it
\* leaves room for the deadline of that demand to pass.
ClockBound ==
  LET toCome == {r \in Refs : Demand[r] # "malformed" /\ ~Exists(rows[r])} IN
  IF toCome = {} THEN MaxTime ELSE MaxTime - Window - 1

Tick ==
  /\ clock < ClockBound
  /\ Prompt => \A p \in Pods :
       InFlight(p) => clock < unit[p].order.acknowledgeBy
  /\ clock' = clock + 1
  /\ UNCHANGED <<Stored, holds, answers, unit, Process>>

\* The calls of the unit in flight.
Step(p) ==
  \/ SaveReceived(p)
  \/ RaiseHeldOrder(p)
  \/ CancelHeldOrder(p)
  \/ CommitAnswer(p)
  \/ SubmitAcknowledgement(p)
  \/ ReleaseHeldOrder(p)
  \/ CallFails(p)

Next ==
  \/ Tick
  \/ \E p \in Pods :
       \/ PollDemand(p)
       \/ Step(p)
       \/ LoadFails(p)
       \/ ListUnanswered(p)
       \/ Restart(p)
       \/ \E r \in Refs :
            \/ PassOver(p, r)
            \/ TakeUp(p, r)
            \/ LoadListed(p, r)
            \/ MissOne(p, r)
            \/ MissFails(p, r)

Spec == Init /\ [][Next]_vars

\* A pod keeps polling and sweeping (tickers), an answered call is followed
\* by the next one, and an intermittent store is reached in the end: a lookup,
\* the first save, a whole listing and a miss that are possible again and
\* again succeed.  Nothing is assumed of order-management.
Fairness ==
  /\ WF_vars(Tick)
  /\ \A p \in Pods :
       /\ WF_vars(PollDemand(p))
       /\ WF_vars(Step(p))
       /\ SF_vars(SaveReceived(p))
       /\ WF_vars(ListUnanswered(p))
       /\ \A r \in Refs :
            /\ WF_vars(PassOver(p, r))
            /\ SF_vars(TakeUp(p, r))
            /\ SF_vars(LoadListed(p, r))
            /\ SF_vars(LoadListed(p, r) /\ sweep'[p].listed = {})
            /\ SF_vars(MissOne(p, r))

FairSpec == Spec /\ Fairness

-----------------------------------------------------------------------------
\* Every variable keeps its shape: orders, events and holds stay well formed
\* through upserts, appends and restarts.
TypeOK ==
  /\ clock \in Nat
  /\ rows \in [Refs -> Order \cup {NoOrder}]
  /\ events \in [Refs -> Seq(Event)]
  /\ holds \in [LocalIds -> Hold]
  /\ answers \in [Refs -> Seq(State)]
  /\ pending \in [Pods -> SUBSET Refs]
  /\ batch \in [Pods -> SUBSET Refs]
  /\ unit \in [Pods -> Unit]
  /\ sweep \in [Pods -> Sweep]
  /\ restarts \in Nat

Recorded(r, event) ==
  \E i \in 1..Len(events[r]) : events[r][i] = event

Told(r, answer) == \E i \in 1..Len(answers[r]) : answers[r][i] = answer

\* The event an order's row is the outcome of.
Explains(event, o) ==
  CASE event.name = "Received" -> o.state = "NEW" /\ o.local = NoLocal
    [] event.name = "Acknowledged" ->
         o.state = "ACKNOWLEDGED" /\ o.local = event.local
    [] OTHER -> o.state = "REJECTED" /\ o.local = NoLocal

\* The row and the outbox never diverge (transactional outbox): there is a
\* row exactly when there are events, and the row is what the last committed
\* event says, however many pods write it and wherever they die.
StoreMatchesOutbox ==
  \A r \in Refs :
    IF events[r] = <<>> THEN ~Exists(rows[r])
    ELSE Explains(events[r][Len(events[r])], rows[r])

\* The network is never told an answer that is not durably recorded: the
\* commit of acknowledge and reject precedes SubmitAcknowledgement.
ToldOnlyWhatIsRecorded ==
  \A r \in Refs :
    /\ Told(r, "ACKNOWLEDGED") =>
         \E l \in LocalIds : Recorded(r, Acknowledged(l))
    /\ Told(r, "REJECTED") =>
         \E reason \in Reasons : Recorded(r, Rejected(reason))

\* Nothing reaches the floor before every fallible step before it is done:
\* released work belongs to an order the network was told yes, and that very
\* local order is the one on record.
ReleasedOnlyWhenPromised ==
  \A l \in LocalIds : holds[l].status = "released" =>
    /\ Told(holds[l].ref, "ACKNOWLEDGED")
    /\ Recorded(holds[l].ref, Acknowledged(l))

\* A refusal for infeasibility is only recorded once a hold of the order is
\* freed (reject cancels before it saves); with one hold per order it is the
\* one the refusal was given for.
RefusalFreesItsHold ==
  \A r \in Refs : Recorded(r, Rejected("INFEASIBLE_DEADLINE")) =>
    \E l \in LocalIds : holds[l] = [ref |-> r, status |-> "cancelled"]

\* A miss is only ever reported for a window that has really closed, though
\* the sweep works from orders it loaded earlier.
MissedOnlyAfterDeadline ==
  \A r \in Refs :
    Recorded(r, Rejected("ACKNOWLEDGEMENT_DEADLINE_MISSED")) =>
      clock > rows[r].acknowledgeBy

\* The CHECK constraint local_order_requires_answer can never refuse a save:
\* no sequence of upserts links a local order to an unanswered or refused
\* one.  It is also why the sweep never finds a hold to cancel.
LocalRequiresAnswer ==
  \A r \in Refs : rows[r].local # NoLocal => rows[r].state = "ACKNOWLEDGED"

\* The deadline of the answer is fixed at intake: no later save, by any pod,
\* moves the SLA clock the sweep measures.
DeadlineNeverMoves ==
  [][\A r \in Refs : Exists(rows[r]) =>
        rows'[r].acknowledgeBy = rows[r].acknowledgeBy]_rows

\* With one replica: order-management is asked at most once per order, after
\* every crash, failure and redelivery.
OneHoldPerOrder ==
  \A l, m \in LocalIds :
    holds[l].ref = holds[m].ref /\ holds[l].ref # NoRef => l = m

\* With one replica: exactly one answer per order (ErrAlreadyAnswered), also
\* across redelivery after a restart: the network is told at most once, and
\* what it was told is what the record says from then on.
OneAnswer ==
  \A r \in Refs :
    answers[r] # <<>> => answers[r] = <<rows[r].state>>

\* With one replica: once demand is refused inside the window, no stock is
\* held and no work released for it.
RefusedHoldsNoStock ==
  \A r \in Refs, l \in LocalIds :
    /\ \/ Recorded(r, Rejected("INFEASIBLE_DEADLINE"))
       \/ Recorded(r, Rejected("UNTRANSLATABLE_SKU"))
    /\ holds[l].ref = r
    => holds[l].status = "cancelled"

\* One replica implements the protocol promised to the network.
Protocol == INSTANCE AnswerProtocol WITH
  status <- [r \in Refs |-> rows[r].state],
  told <- answers,
  floor <- {r \in Refs : \E l \in LocalIds :
                holds[l] = [ref |-> r, status |-> "released"]}

ImplementsProtocol == Protocol!ProtocolSpec

\* No order stays unanswered on record: whatever fails or dies on the way,
\* the sweep rejects it in the end.
EveryOrderIsSettled ==
  \A r \in Refs : Unanswered(rows[r]) ~> ~Unanswered(rows[r])

WellFormed == {r \in Refs : Demand[r] # "malformed"}

\* The network gets an answer to all well-formed demand: what failed before
\* it was answered is handed back by the next poll and retried.
NetworkIsAnswered == \A r \in WellFormed : <>(answers[r] # <<>>)

\* No hold is left behind: it is released or cancelled in the end.
HoldsAreResolved ==
  \A l \in LocalIds :
    holds[l].status = "held" ~> holds[l].status \in {"released", "cancelled"}

\* An acknowledged order's work reaches the floor in the end.
AcknowledgedIsReleased ==
  \A r \in Refs, l \in LocalIds :
    rows[r].local = l ~> holds[l].status = "released"
=============================================================================
