--------------------------- MODULE DevelopmentMode --------------------------
(***************************************************************************)
(* The intake without a database (no DATABASE_URL): orders live in a map   *)
(* of the process, a unit of work is a save and a publish back to back,    *)
(* and with EVENT_PUBLISHER=kafka each event is written to the integration *)
(* topic and then to the analytics topic.  The map hands out the orders    *)
(* it stores, so the unit of the poller and the sweep change the same      *)
(* order, and nothing locks the order itself.                              *)
(*                                                                         *)
(* One action is one call that leaves the process or one access to the     *)
(* state of a shared order: its check and its store are separate, and two  *)
(* stores at once may leave a state that is neither (a Go string is two    *)
(* words).  A restart forgets every order; the topics and order-management *)
(* remember.                                                               *)
(***************************************************************************)
EXTENDS NetworkOrder, Sequences, FiniteSets, FiniteSetsExt

CONSTANTS
  Refs,         \* the demand of the seed file, by network reference
  NoRef,        \* no network reference
  DemandLines,  \* the lines of each reference: products and quantities
  Dictionary,   \* the product translation: the SKU of each product
  NoSKU,        \* a product the dictionary does not list
  Faults,       \* the calls that may fail: publish, raise, cancel, release
  MaxTime,      \* bound: the last instant of the clock
  MaxRestarts   \* bound: how often the process is restarted

Products == DOMAIN Dictionary

SKUs == {Dictionary[n] : n \in Products} \ {NoSKU}

ASSUME DevelopmentAssumption ==
  /\ NoRef \notin Refs
  /\ LocalIds \subseteq Nat
  /\ IsFiniteSet(Products)
  /\ \A r \in Refs :
       DemandLines[r] \in Seq([product : Products, quantity : Int])
  /\ Faults \subseteq {"publish", "raise", "cancel", "release"}
  /\ MaxTime \in Nat
  /\ MaxRestarts \in Nat

VARIABLES
  clock,     \* the wall clock
  orders,    \* NetworkOrderRepo.orders, NoOrder where the map has none
  written,   \* the events written to each topic, by reference
  holds,     \* order-management's orders: whose, their status and lines
  told,      \* the answers the network was given
  pending,   \* StubGateway.pending
  batch,     \* the demands of the poll pass still to be received
  unit,      \* the ReceiveNetworkDemand.Execute in flight
  sweep,     \* the SweepAcknowledgementDeadlines.Execute in flight
  restarts,  \* how often the process was restarted
  late       \* history: orders whose window closed with their unit in flight

vars == <<clock, orders, written, holds, told, pending, batch, unit, sweep,
          restarts, late>>

-----------------------------------------------------------------------------
\* ToSKU or NewLine answers ErrUnknownProduct; NewLine refuses the quantity.
Unknown(line) == Dictionary[line.product] = NoSKU

NonPositive(line) == line.quantity <= 0

\* translate stops at the first line it cannot take, and what is wrong with
\* that line decides: unknown demand is refused, malformed demand is an error.
Translate(lines) ==
  LET failing == {i \in DOMAIN lines :
                    Unknown(lines[i]) \/ NonPositive(lines[i])} IN
  IF lines = <<>> THEN "malformed"
  ELSE IF failing = {} THEN "translatable"
  ELSE IF Unknown(lines[Min(failing)]) THEN "unknown"
  ELSE "malformed"

LinesOf(sku, lines) ==
  {i \in DOMAIN lines : Dictionary[lines[i].product] = sku}

\* Mutant: the last line of a SKU wins.
LastLineWins(lines) ==
  [s \in SKUs |-> IF LinesOf(s, lines) = {} THEN 0
                  ELSE lines[Max(LinesOf(s, lines))].quantity]

Quantities(lines) == [i \in DOMAIN lines |-> lines[i].quantity]

\* The lines order-management is asked for, summed over the products that
\* share a SKU.
SKUQuantities(lines) ==
  [s \in SKUs |-> SumFunctionOnSet(Quantities(lines), LinesOf(s, lines))]

\* What Execute finds in each reference, and what it asks for.
Kind == [r \in Refs |-> Translate(DemandLines[r])]

Asked == [r \in Refs |-> SKUQuantities(DemandLines[r])]

Received == [name |-> "Received", local |-> NoLocal, reason |-> "-"]

Acknowledged(l) == [name |-> "Acknowledged", local |-> l, reason |-> "-"]

Rejected(reason) ==
  [name |-> "Rejected", local |-> NoLocal, reason |-> reason]

Missed == Rejected("ACKNOWLEDGEMENT_DEADLINE_MISSED")

Answer == {Acknowledged(l) : l \in LocalIds} \cup
          {Rejected("UNTRANSLATABLE_SKU"), Rejected("INFEASIBLE_DEADLINE")}

Event == Answer \cup {Received, Missed}

Topics == {"integration", "analytics"}

\* A state mixed from two stores at once equals none of the states.
Torn == "TORN"

SharedOrder == [state : State \cup {Torn}, local : LocalIds \cup {NoLocal},
                acknowledgeBy : Nat]

NoLines == [s \in SKUs |-> 0]

Hold == [ref : Refs \cup {NoRef},
         status : {"free", "held", "released", "cancelled"},
         lines : {Asked[r] : r \in Refs} \cup {NoLines}]

\* What Execute does next, and the order it raised.
Unit == [pc : {"idle", "announce", "raise", "cancel", "check", "store",
               "link", "publish", "submit", "release"},
         ref : Refs \cup {NoRef},
         local : LocalIds \cup {NoLocal},
         feasible : BOOLEAN]

IdleUnit ==
  [pc |-> "idle", ref |-> NoRef, local |-> NoLocal, feasible |-> FALSE]

\* What missOne does next with the order it is at, and those still to come.
Sweep == [pc : {"list", "link", "cancel", "check", "store", "publish"},
          now : Nat, listed : SUBSET Refs,
          ref : Refs \cup {NoRef}, local : LocalIds \cup {NoLocal}]

IdleSweep ==
  [pc |-> "list", now |-> 0, listed |-> {}, ref |-> NoRef, local |-> NoLocal]

Init ==
  /\ clock = 0
  /\ orders = [r \in Refs |-> NoOrder]
  /\ written = [t \in Topics |-> [r \in Refs |-> {}]]
  /\ holds = [l \in LocalIds |-> [ref |-> NoRef, status |-> "free",
                                  lines |-> NoLines]]
  /\ told = [r \in Refs |-> {}]
  /\ pending = Refs
  /\ batch = {}
  /\ unit = IdleUnit
  /\ sweep = IdleSweep
  /\ restarts = 0
  /\ late = {}

-----------------------------------------------------------------------------
Process == <<pending, batch, restarts, late>>
Outside == <<written, holds, told>>

\* Mutant: an order the sweep may still miss is taken for a new one.
FindByRefAnswered(r) == IF Unanswered(orders[r]) THEN NoOrder ELSE orders[r]

FindByRef(r) == orders[r]

Write(t, r, e, topics) == [topics EXCEPT ![t][r] = @ \cup {e}]

\* fanOutPublisher.Publish: the integration topic, then the analytics topic.
\* A write that reports an error may have reached the broker all the same,
\* and stops the fan-out.
Publish(r, e, failed) ==
  \/ /\ ~failed
     /\ written' = Write("analytics", r, e, Write("integration", r, e, written))
  \/ /\ failed /\ "publish" \in Faults
     /\ \/ UNCHANGED written
        \/ written' = Write("integration", r, e, written)
        \/ written' = Write("analytics", r, e,
                            Write("integration", r, e, written))

\* The state an order is left in by a store of s.  Two stores overlap when
\* both goroutines have passed their check.
StoreState(r, s) ==
  \E stored \in {s}
       \cup (IF unit.pc = "store" /\ sweep.pc = "store" /\ unit.ref = sweep.ref
             THEN {Torn} ELSE {})
       \cup ({orders[r].state} \cap {Torn}) :
    orders' = [orders EXCEPT ![r].state = stored]

Return == unit' = IdleUnit

-----------------------------------------------------------------------------
PollDemand ==
  /\ unit.pc = "idle" /\ batch = {}
  /\ batch' = pending
  /\ UNCHANGED <<clock, orders, Outside, pending, unit, sweep, restarts, late>>

\* Execute returns before it builds an order.
PassOver(r) ==
  /\ unit.pc = "idle" /\ r \in batch
  /\ Exists(FindByRef(r)) \/ Kind[r] = "malformed"
  /\ batch' = batch \ {r}
  /\ UNCHANGED <<clock, orders, Outside, pending, unit, sweep, restarts, late>>

\* The demand becomes an order, and Save puts it into the map.
TakeUp(r) ==
  LET kind == Kind[r] IN
  /\ unit.pc = "idle" /\ r \in batch
  /\ ~Exists(FindByRef(r)) /\ kind # "malformed"
  /\ batch' = batch \ {r}
  /\ orders' = [orders EXCEPT ![r] =
       IF kind = "translatable" THEN Receive(clock)
       ELSE ReceiveUntranslatable(clock)]
  /\ unit' = [unit EXCEPT !.pc = "announce", !.ref = r]
  /\ UNCHANGED <<clock, Outside, pending, sweep, restarts, late>>

\* The second half of saveAndPublishReceived.
PublishReceived ==
  /\ unit.pc = "announce"
  /\ \/ /\ Publish(unit.ref, Received, FALSE)
        /\ unit' = [unit EXCEPT !.pc =
             IF Kind[unit.ref] = "translatable"
             THEN "raise" ELSE "check"]
     \/ Publish(unit.ref, Received, TRUE) /\ Return
  /\ UNCHANGED <<clock, orders, holds, told, sweep, Process>>

\* order-management draws its ids in order.
NextId(l) == \A k \in LocalIds : holds[k].status = "free" <=> k >= l

\* The held order, feasible or not; its reply may be lost.
RaiseHeldOrder ==
  /\ unit.pc = "raise"
  /\ \E l \in LocalIds, feasible \in BOOLEAN :
       /\ NextId(l)
       /\ holds' = [holds EXCEPT ![l] =
            [ref |-> unit.ref, status |-> "held",
             lines |-> Asked[unit.ref]]]
       /\ \/ unit' = [unit EXCEPT !.local = l, !.feasible = feasible,
                        !.pc = IF feasible THEN "check" ELSE "cancel"]
          \/ "raise" \in Faults /\ Return
  /\ UNCHANGED <<clock, orders, written, told, sweep, Process>>

CancelHeldOrder ==
  /\ unit.pc = "cancel"
  /\ holds' = [holds EXCEPT ![unit.local].status = "cancelled"]
  /\ \/ unit' = [unit EXCEPT !.pc = "check"]
     \/ "cancel" \in Faults /\ Return
  /\ UNCHANGED <<clock, orders, written, told, sweep, Process>>

\* Acknowledge or Reject reads the state, or fails with ErrAlreadyAnswered.
CheckUnanswered ==
  /\ unit.pc = "check"
  /\ IF Unanswered(orders[unit.ref])
     THEN unit' = [unit EXCEPT !.pc = "store"] ELSE Return
  /\ UNCHANGED <<clock, orders, Outside, sweep, Process>>

\* Acknowledge or Reject sets the state.
StoreAnswer ==
  LET o == orders[unit.ref] IN
  /\ unit.pc = "store"
  /\ StoreState(unit.ref, IF unit.feasible THEN Acknowledge(o).state
                          ELSE Reject(o).state)
  /\ unit' = [unit EXCEPT !.pc = IF unit.feasible THEN "link" ELSE "publish"]
  /\ UNCHANGED <<clock, Outside, sweep, Process>>

\* LinkLocalOrder, or ErrNotAcknowledged when the sweep was faster.
LinkOrder ==
  /\ unit.pc = "link"
  /\ IF Linkable(orders[unit.ref])
     THEN /\ orders' = [orders EXCEPT ![unit.ref] =
                          LinkLocalOrder(@, unit.local)]
          /\ unit' = [unit EXCEPT !.pc = "publish"]
     ELSE Return /\ UNCHANGED orders
  /\ UNCHANGED <<clock, Outside, sweep, Process>>

AnswerOf(u) ==
  IF u.feasible THEN Acknowledged(u.local)
  ELSE IF u.local = NoLocal THEN Rejected("UNTRANSLATABLE_SKU")
  ELSE Rejected("INFEASIBLE_DEADLINE")

\* Mutant: a failed publish is logged and forgotten.
PublishUnchecked ==
  /\ unit.pc = "publish"
  /\ \E failed \in BOOLEAN : Publish(unit.ref, AnswerOf(unit), failed)
  /\ unit' = [unit EXCEPT !.pc = "submit"]
  /\ UNCHANGED <<clock, orders, holds, told, sweep, Process>>

\* Save leaves the map as it is; Publish may fail after the state was set.
PublishAnswer ==
  /\ unit.pc = "publish"
  /\ \/ /\ Publish(unit.ref, AnswerOf(unit), FALSE)
        /\ unit' = [unit EXCEPT !.pc = "submit"]
     \/ Publish(unit.ref, AnswerOf(unit), TRUE) /\ Return
  /\ UNCHANGED <<clock, orders, holds, told, sweep, Process>>

SubmitAcknowledgement ==
  /\ unit.pc = "submit"
  /\ told' = [told EXCEPT ![unit.ref] = @ \cup {AnswerOf(unit)}]
  /\ pending' = pending \ {unit.ref}
  /\ IF unit.feasible THEN unit' = [unit EXCEPT !.pc = "release"] ELSE Return
  /\ UNCHANGED <<clock, orders, written, holds, batch, sweep, restarts, late>>

ReleaseHeldOrder ==
  /\ unit.pc = "release"
  /\ holds' = [holds EXCEPT ![unit.local].status = "released"]
  /\ Return
  /\ UNCHANGED <<clock, orders, written, told, sweep, Process>>

\* A call to order-management fails without effect.
CallFails ==
  /\ unit.pc \in Faults \cap {"raise", "cancel", "release"}
  /\ Return
  /\ UNCHANGED <<clock, orders, Outside, sweep, Process>>

-----------------------------------------------------------------------------
\* A sweep pass reads the clock and collects the pointers to NEW orders.
ListUnanswered ==
  LET unanswered == {r \in Refs : Unanswered(orders[r])} IN
  /\ sweep.pc = "list" /\ sweep.listed = {}
  /\ unanswered # {}
  /\ sweep' = [sweep EXCEPT !.now = clock, !.listed = unanswered]
  /\ UNCHANGED <<clock, orders, Outside, unit, Process>>

\* The pass goes on with the orders still listed, or ends.
NextOrder(listed) ==
  sweep' = IF listed = {} THEN IdleSweep
           ELSE [IdleSweep EXCEPT !.now = sweep.now, !.listed = listed]

\* The next order of the pass: skipped, or overdue by the pass's clock.
ExamineOrder(r) ==
  /\ sweep.pc = "list" /\ r \in sweep.listed
  /\ IF AcknowledgementOverdue(orders[r], sweep.now)
     THEN sweep' = [sweep EXCEPT !.listed = @ \ {r}, !.pc = "link", !.ref = r]
     ELSE NextOrder(sweep.listed \ {r})
  /\ UNCHANGED <<clock, orders, Outside, unit, Process>>

\* missOne reads the link, and has a hold to free if there is one.
ReadLink ==
  /\ sweep.pc = "link"
  /\ sweep' = [sweep EXCEPT !.local = orders[sweep.ref].local,
                 !.pc = IF orders[sweep.ref].local = NoLocal
                        THEN "check" ELSE "cancel"]
  /\ UNCHANGED <<clock, orders, Outside, unit, Process>>

MissCancelsHold ==
  /\ sweep.pc = "cancel"
  /\ \/ /\ holds' = [holds EXCEPT ![sweep.local].status = "cancelled"]
        /\ sweep' = [sweep EXCEPT !.pc = "check"]
     \/ /\ "cancel" \in Faults
        /\ holds' \in {holds,
                       [holds EXCEPT ![sweep.local].status = "cancelled"]}
        /\ NextOrder(sweep.listed)
  /\ UNCHANGED <<clock, orders, written, told, unit, Process>>

MissChecks ==
  /\ sweep.pc = "check"
  /\ IF Unanswered(orders[sweep.ref])
     THEN sweep' = [sweep EXCEPT !.pc = "store"] ELSE NextOrder(sweep.listed)
  /\ UNCHANGED <<clock, orders, Outside, unit, Process>>

MissStores ==
  /\ sweep.pc = "store"
  /\ StoreState(sweep.ref, Reject(orders[sweep.ref]).state)
  /\ sweep' = [sweep EXCEPT !.pc = "publish"]
  /\ UNCHANGED <<clock, Outside, unit, Process>>

\* A miss whose event could not be written stays REJECTED: no pass lists it
\* again.
MissPublishes ==
  /\ sweep.pc = "publish"
  /\ \E failed \in BOOLEAN : Publish(sweep.ref, Missed, failed)
  /\ NextOrder(sweep.listed)
  /\ UNCHANGED <<clock, orders, holds, told, unit, Process>>

-----------------------------------------------------------------------------
\* Bound: while there is demand to come, the clock leaves room for the
\* deadline of that demand to pass.
LastArrival == MaxTime - Window - 1

\* The process ends and boots again with an empty map and a reseeded stub.
Restart ==
  /\ restarts < MaxRestarts /\ clock <= LastArrival
  /\ restarts' = restarts + 1
  /\ orders' = [r \in Refs |-> NoOrder]
  /\ pending' = Refs
  /\ batch' = {}
  /\ unit' = IdleUnit
  /\ sweep' = IdleSweep
  /\ late' = {}
  /\ UNCHANGED <<clock, Outside>>

ToCome == {r \in Refs : Kind[r] # "malformed" /\ ~Exists(orders[r])}

Tick ==
  /\ clock < IF ToCome = {} THEN MaxTime ELSE LastArrival
  /\ clock' = clock + 1
  /\ late' = late \cup {r \in Refs : /\ unit.ref = r
                                     /\ clock' > orders[r].acknowledgeBy}
  /\ UNCHANGED <<orders, Outside, pending, batch, unit, sweep, restarts>>

Receives == \E r \in Refs : PassOver(r) \/ TakeUp(r)

Step ==
  \/ PublishReceived
  \/ RaiseHeldOrder
  \/ CancelHeldOrder
  \/ CheckUnanswered
  \/ StoreAnswer
  \/ LinkOrder
  \/ PublishAnswer
  \/ SubmitAcknowledgement
  \/ ReleaseHeldOrder
  \/ CallFails

SweepStep ==
  \/ ListUnanswered
  \/ \E r \in Refs : ExamineOrder(r)
  \/ ReadLink
  \/ MissCancelsHold
  \/ MissChecks
  \/ MissStores
  \/ MissPublishes

Next ==
  \/ Tick
  \/ Restart
  \/ PollDemand
  \/ Receives
  \/ Step
  \/ SweepStep

Spec == Init /\ [][Next]_vars

\* The two tickers of serve go on, every call returns, with or without an
\* error, and the clock runs.  Nothing is assumed of Kafka or of
\* order-management.
Fairness ==
  /\ WF_vars(Tick)
  /\ WF_vars(PollDemand)
  /\ WF_vars(Receives)
  /\ WF_vars(Step)
  /\ WF_vars(SweepStep)

FairSpec == Spec /\ Fairness

-----------------------------------------------------------------------------
\* Every variable keeps its shape, whatever the two goroutines do to an
\* order at once.
TypeOK ==
  /\ clock \in Nat
  /\ orders \in [Refs -> SharedOrder \cup {NoOrder}]
  /\ written \in [Topics -> [Refs -> SUBSET Event]]
  /\ holds \in [LocalIds -> Hold]
  /\ told \in [Refs -> SUBSET Answer]
  /\ pending \subseteq Refs
  /\ batch \subseteq Refs
  /\ unit \in Unit
  /\ sweep \in Sweep
  /\ restarts \in 0 .. MaxRestarts
  /\ late \subseteq Refs

\* Stock is only ever held for the whole of a demand: all its units, for
\* products that share a SKU too (translate, SKUQuantities, RaiseHeldOrder).
\* The protocol has no partial acknowledgement.
HeldInFull ==
  \A l \in LocalIds : holds[l].status # "free" =>
    LET lines == DemandLines[holds[l].ref] IN
    /\ SumFunction(holds[l].lines) = SumFunction(Quantities(lines))
    /\ \A i \in DOMAIN lines : lines[i].quantity > 0

\* Without an outbox the order of the calls is all there is.  On each topic
\* the answer of a unit comes after its receipt (only a miss may lack it: an
\* order whose receipt could not be published stays in the map), the
\* analytics topic has nothing that the integration topic misses, the network
\* is told an answer only after both were sent it, and a promise is released
\* only under the order the network was promised.
StepsInOrder ==
  \A r \in Refs :
    /\ \A t \in Topics :
         written[t][r] \cap Answer # {} => Received \in written[t][r]
    /\ written["analytics"][r] \subseteq written["integration"][r]
    /\ told[r] \subseteq written["analytics"][r]
    /\ \A l \in LocalIds :
         holds[l].ref = r /\ holds[l].status = "released" =>
           Acknowledged(l) \in told[r]

\* A process raises one held order for an order, however often a poll hands
\* the demand out; more of them need a restart each.
HoldsNeedRestarts ==
  \A r \in Refs : Cardinality({l \in LocalIds : holds[l].ref = r}) <= restarts + 1

\* An answered order keeps its answer while the process lives, although the
\* sweep and the unit share it, unless its window closed with its unit still
\* in flight.
AnswerStands ==
  [][\A r \in Refs :
       /\ orders[r].state \in {"ACKNOWLEDGED", "REJECTED"}
       /\ restarts' = restarts /\ r \notin late
       => orders'[r].state = orders[r].state]_vars

\* Whatever fails, all demand that can be an order is answered in the map in
\* the end (which is not to say that anybody was told).
EveryOrderIsAnswered ==
  <>[]\A r \in Refs : Kind[r] # "malformed" =>
         Exists(orders[r]) /\ ~Unanswered(orders[r])
=============================================================================
