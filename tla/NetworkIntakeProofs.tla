------------------------- MODULE NetworkIntakeProofs ------------------------
(***************************************************************************)
(* The safety of NetworkIntake, for every number of references, pods,      *)
(* local ids, faults and restarts: the shape of the state, what holds      *)
(* belong to whom, and what is on record.                                  *)
(***************************************************************************)
EXTENDS NetworkIntake, TLAPS

-----------------------------------------------------------------------------
\* The orders the aggregate's methods build are orders.
LEMMA OrderTypes ==
  ASSUME NEW o \in Order, NEW now \in Nat, NEW l \in LocalIds
  PROVE  /\ Receive(now) \in Order
         /\ ReceiveUntranslatable(now) \in Order
         /\ Acknowledge(o) \in Order
         /\ Reject(o) \in Order
         /\ LinkLocalOrder(o, l) \in Order
  BY OrderAssumption
  DEF Order, State, Receive, ReceiveUntranslatable, Acknowledge, Reject, LinkLocalOrder

\* The upsert of an order is an order.
LEMMA UpsertType ==
  ASSUME NEW row \in Order \cup {NoOrder}, NEW o \in Order
  PROVE  Upsert(row, o) \in Order
<1>1. CASE Exists(row)
  <2>1. row \in Order
    BY <1>1 DEF Exists, NoOrder
  <2>2. [row EXCEPT !.state = o.state, !.local = o.local] \in Order
    BY <2>1 DEF Order
  <2> QED BY <1>1, <2>2 DEF Upsert
<1>2. CASE ~Exists(row)
  BY <1>2 DEF Upsert
<1> QED BY <1>1, <1>2

\* A unit of work keeps the table and the outbox well formed.
LEMMA SaveAndPublishType ==
  ASSUME TypeOK, NEW r \in Refs, NEW o \in Order, NEW e \in Event,
         SaveAndPublish(r, o, e)
  PROVE  /\ rows' \in [Refs -> Order \cup {NoOrder}]
         /\ events' \in [Refs -> Seq(Event)]
<1>1. rows' \in [Refs -> Order \cup {NoOrder}]
  <2>1. Upsert(rows[r], o) \in Order
    BY UpsertType DEF TypeOK
  <2>2. rows' = [rows EXCEPT ![r] = Upsert(rows[r], o)]
    BY DEF SaveAndPublish
  <2> QED BY <2>1, <2>2 DEF TypeOK
<1>2. events' \in [Refs -> Seq(Event)]
  <2>1. Append(events[r], e) \in Seq(Event)
    BY DEF TypeOK
  <2>2. events' = [events EXCEPT ![r] = Append(events[r], e)]
    BY DEF SaveAndPublish
  <2> QED BY <2>1, <2>2 DEF TypeOK
<1> QED BY <1>1, <1>2

-----------------------------------------------------------------------------
(***************************************************************************)
(* The shape of the state.  TypeOK is not inductive: a unit saves the      *)
(* order it carries, so the order must be one at every later call, and a   *)
(* row is only ever linked with its acknowledgement because every order a  *)
(* goroutine carries respects the same rule.                               *)
(***************************************************************************)

\* What a unit carries at each of its calls.
Carries(u) ==
  /\ u.pc # "idle" => u.ref \in Refs /\ u.order \in Order
  /\ u.pc \in {"save", "raise"} =>
       /\ u.local = NoLocal
       /\ u.order.state = "NEW" /\ u.order.local = NoLocal
  /\ u.pc = "cancel" =>
       /\ u.local \in LocalIds
       /\ u.order.state = "NEW" /\ u.order.local = NoLocal
  /\ u.pc \in {"commit", "submit"} =>
       \/ /\ u.order.state = "ACKNOWLEDGED" /\ u.order.local = u.local
          /\ u.local \in LocalIds
       \/ u.order.state = "REJECTED" /\ u.order.local = NoLocal
  /\ u.pc = "release" =>
       /\ u.order.state = "ACKNOWLEDGED" /\ u.order.local = u.local
       /\ u.local \in LocalIds

UnitsCarry == \A p \in Pods : Carries(unit[p])

\* The sweep keeps only unanswered orders, and those have no link.
LoadedUnanswered ==
  \A p \in Pods, r \in Refs :
    LET o == sweep[p].loaded[r] IN
    Exists(o) => o \in Order /\ o.state = "NEW" /\ o.local = NoLocal

Shape ==
  /\ TypeOK
  /\ UnitsCarry
  /\ LoadedUnanswered
  /\ LocalRequiresAnswer

\* An idle unit is well formed.
LEMMA IdleCarries == IdleUnit \in Unit /\ Carries(IdleUnit)
  BY DEF IdleUnit, Unit, Carries, NoOrder

\* Replacing one pod's unit by a well formed one keeps the units well formed.
LEMMA ReplaceUnit ==
  ASSUME unit \in [Pods -> Unit], UnitsCarry, NEW p \in Pods,
         NEW u \in Unit, Carries(u), unit' = [unit EXCEPT ![p] = u]
  PROVE  unit' \in [Pods -> Unit] /\ UnitsCarry'
<1>1. unit' \in [Pods -> Unit]
  OBVIOUS
<1>2. \A q \in Pods : unit'[q] = IF q = p THEN u ELSE unit[q]
  OBVIOUS
<1>3. UnitsCarry'
  BY <1>2 DEF UnitsCarry, Carries
<1> QED BY <1>1, <1>3

\* So does the reply to a call, or its loss.
LEMMA ReplyKeepsUnits ==
  ASSUME unit \in [Pods -> Unit], UnitsCarry, NEW p \in Pods,
         NEW u \in Unit, Carries(u), Reply(p, u) \/ Return(p)
  PROVE  unit' \in [Pods -> Unit] /\ UnitsCarry'
<1>1. CASE unit' = [unit EXCEPT ![p] = u]
  BY <1>1, ReplaceUnit
<1>2. CASE unit' = [unit EXCEPT ![p] = IdleUnit]
  BY <1>2, ReplaceUnit, IdleCarries
<1> QED BY <1>1, <1>2 DEF Reply, Return

\* A save respects the CHECK constraint when the order it writes does.
LEMMA SaveKeepsLinks ==
  ASSUME Shape, NEW r \in Refs, NEW o \in Order, NEW e,
         SaveAndPublish(r, o, e),
         o.local # NoLocal => o.state = "ACKNOWLEDGED"
  PROVE  LocalRequiresAnswer'
<1>1. \A s \in Refs : rows'[s] = IF s = r THEN Upsert(rows[r], o) ELSE rows[s]
  BY DEF SaveAndPublish, Shape, TypeOK
<1>2. Upsert(rows[r], o).local = o.local /\ Upsert(rows[r], o).state = o.state
  <2>1. CASE Exists(rows[r])
    <3>1. rows[r] \in Order
      BY <2>1 DEF Shape, TypeOK, Exists, NoOrder
    <3> QED BY <2>1, <3>1 DEF Upsert, Order
  <2>2. CASE ~Exists(rows[r])
    BY <2>2 DEF Upsert
  <2> QED BY <2>1, <2>2
<1> QED BY <1>1, <1>2 DEF LocalRequiresAnswer, Shape

\* The shape holds of a freshly booted deployment...
LEMMA ShapeInit == Init => Shape
<1> SUFFICES ASSUME Init PROVE Shape
  OBVIOUS
<1> USE DEF Init
<1>1. TypeOK
  <2>1. NoOrder \in Order \cup {NoOrder} /\ 0 \in Nat
    OBVIOUS
  <2>2. holds \in [LocalIds -> Hold]
    BY DEF Hold
  <2>3. unit \in [Pods -> Unit]
    BY IdleCarries
  <2>4. sweep \in [Pods -> Sweep]
    BY <2>1 DEF Sweep, IdleSweep
  <2>5. events \in [Refs -> Seq(Event)] /\ answers \in [Refs -> Seq(State)]
    OBVIOUS
  <2> QED BY <2>1, <2>2, <2>3, <2>4, <2>5 DEF TypeOK
<1>2. UnitsCarry
  BY IdleCarries DEF UnitsCarry
<1>3. LoadedUnanswered
  BY DEF LoadedUnanswered, IdleSweep, Exists, NoOrder
<1>4. LocalRequiresAnswer
  BY DEF LocalRequiresAnswer, NoOrder
<1> QED BY <1>1, <1>2, <1>3, <1>4 DEF Shape

\* ...and every step keeps it.
LEMMA ShapeStep == Shape /\ [Next]_vars => Shape'
<1> SUFFICES ASSUME Shape, [Next]_vars PROVE Shape'
  OBVIOUS
<1> USE DEF Shape, Stored, Process
<1>1. CASE UNCHANGED vars
  BY <1>1 DEF vars, TypeOK, UnitsCarry, Carries, LoadedUnanswered,
              LocalRequiresAnswer, Exists
<1>2. CASE Tick
  <2>1. clock' \in Nat
    BY <1>2 DEF Tick, TypeOK
  <2> QED BY <1>2, <2>1 DEF Tick, TypeOK, UnitsCarry, Carries,
             LoadedUnanswered, LocalRequiresAnswer, Exists
<1>3. ASSUME NEW p \in Pods, PollDemand(p) PROVE Shape'
  <2>1. batch' \in [Pods -> SUBSET Refs]
    BY <1>3 DEF PollDemand, TypeOK
  <2> QED BY <1>3, <2>1 DEF PollDemand, TypeOK, UnitsCarry, Carries,
             LoadedUnanswered, LocalRequiresAnswer
<1>4. ASSUME NEW p \in Pods, NEW r \in Refs, PassOver(p, r) PROVE Shape'
  <2>1. batch' \in [Pods -> SUBSET Refs]
    BY <1>4 DEF PassOver, TypeOK
  <2> QED BY <1>4, <2>1 DEF PassOver, TypeOK, UnitsCarry, Carries,
             LoadedUnanswered, LocalRequiresAnswer
<1>5. ASSUME NEW p \in Pods, NEW r \in Refs, TakeUp(p, r) PROVE Shape'
  <2> DEFINE o == IF Demand[r] = "translatable"
                  THEN Receive(clock) ELSE ReceiveUntranslatable(clock)
             u == [pc |-> "save", ref |-> r, local |-> NoLocal, order |-> o]
  <2>1. o \in Order /\ o.state = "NEW" /\ o.local = NoLocal
    BY OrderAssumption
    DEF TypeOK, Order, State, Receive, ReceiveUntranslatable
  <2>2. u \in Unit /\ Carries(u)
    BY <2>1 DEF Unit, Carries
  <2>3. unit' = [unit EXCEPT ![p] = u]
    BY <1>5 DEF TakeUp
  <2> HIDE DEF u
  <2>4. unit' \in [Pods -> Unit] /\ UnitsCarry'
    BY <2>2, <2>3, ReplaceUnit DEF TypeOK
  <2>5. batch' \in [Pods -> SUBSET Refs]
    BY <1>5 DEF TakeUp, TypeOK
  <2> QED BY <1>5, <2>4, <2>5
          DEF TakeUp, TypeOK, LoadedUnanswered, LocalRequiresAnswer
<1>6. ASSUME NEW p \in Pods, SaveReceived(p) PROVE Shape'
  <2> DEFINE u == unit[p]
             v == IF Demand[u.ref] = "translatable"
                  THEN [u EXCEPT !.pc = "raise"]
                  ELSE [u EXCEPT !.pc = "commit", !.order = Reject(u.order)]
  <2>1. /\ u \in Unit /\ u.pc = "save" /\ u.ref \in Refs
        /\ u.order \in Order /\ u.order.local = NoLocal
        /\ u.order.state = "NEW" /\ u.local = NoLocal
    BY <1>6 DEF SaveReceived, TypeOK, UnitsCarry, Carries
  <2>2. SaveAndPublish(u.ref, u.order, Received) /\ Reply(p, v)
    BY <1>6 DEF SaveReceived
  <2>3. v \in Unit /\ Carries(v)
    BY <2>1, OrderTypes DEF Unit, Carries, Reject, Order, State
  <2>4. Received \in Event
    BY DEF Event
  <2> HIDE DEF u, v
  <2>5. unit' \in [Pods -> Unit] /\ UnitsCarry'
    BY <2>2, <2>3, ReplyKeepsUnits DEF TypeOK
  <2>6. LocalRequiresAnswer'
    BY <2>1, <2>2, SaveKeepsLinks
  <2>7. /\ rows' \in [Refs -> Order \cup {NoOrder}]
        /\ events' \in [Refs -> Seq(Event)]
    BY <2>1, <2>2, <2>4, SaveAndPublishType
  <2> QED BY <1>6, <2>5, <2>6, <2>7
          DEF SaveReceived, TypeOK, LoadedUnanswered
<1>7. ASSUME NEW p \in Pods, RaiseHeldOrder(p) PROVE Shape'
  <2> DEFINE u == unit[p]
  <2>1. /\ u \in Unit /\ u.pc = "raise" /\ u.ref \in Refs
        /\ u.order \in Order /\ u.order.local = NoLocal
        /\ u.order.state = "NEW" /\ u.local = NoLocal
    BY <1>7 DEF RaiseHeldOrder, TypeOK, UnitsCarry, Carries
  <2>2. PICK l \in LocalIds :
          /\ holds' = [holds EXCEPT ![l] = [ref |-> u.ref, status |-> "held"]]
          /\ \/ Reply(p, [u EXCEPT !.pc = "cancel", !.local = l])
             \/ Reply(p, [u EXCEPT !.pc = "commit", !.local = l,
                            !.order = LinkLocalOrder(Acknowledge(@), l)])
    BY <1>7 DEF RaiseHeldOrder
  <2>3. holds' \in [LocalIds -> Hold]
    BY <2>1, <2>2 DEF TypeOK, Hold
  <2>4. /\ [u EXCEPT !.pc = "cancel", !.local = l] \in Unit
        /\ Carries([u EXCEPT !.pc = "cancel", !.local = l])
    BY <2>1 DEF Unit, Carries
  <2> DEFINE v == [u EXCEPT !.pc = "commit", !.local = l,
                     !.order = LinkLocalOrder(Acknowledge(@), l)]
  <2>5. v \in Unit /\ Carries(v)
    BY <2>1 DEF Unit, Carries, LinkLocalOrder, Acknowledge, Order, State
  <2>6. unit' \in [Pods -> Unit] /\ UnitsCarry'
    <3> HIDE DEF u, v
    <3> QED BY <2>2, <2>4, <2>5, ReplyKeepsUnits DEF TypeOK, v
  <2> QED BY <1>7, <2>3, <2>6
          DEF RaiseHeldOrder, TypeOK, LoadedUnanswered, LocalRequiresAnswer
<1>8. ASSUME NEW p \in Pods, CancelHeldOrder(p) PROVE Shape'
  <2> DEFINE u == unit[p]
             v == [u EXCEPT !.pc = "commit", !.order = Reject(u.order)]
  <2>1. /\ u \in Unit /\ u.pc = "cancel" /\ u.ref \in Refs
        /\ u.order \in Order /\ u.order.local = NoLocal
        /\ u.local \in LocalIds
    BY <1>8 DEF CancelHeldOrder, TypeOK, UnitsCarry, Carries
  <2>2. v \in Unit /\ Carries(v)
    BY <2>1 DEF Unit, Carries, Reject, Order, State
  <2>3. Reply(p, v)
    BY <1>8 DEF CancelHeldOrder
  <2>4. holds' \in [LocalIds -> Hold]
    BY <1>8, <2>1 DEF CancelHeldOrder, TypeOK, Hold
  <2> HIDE DEF u, v
  <2>5. unit' \in [Pods -> Unit] /\ UnitsCarry'
    BY <2>2, <2>3, ReplyKeepsUnits DEF TypeOK
  <2> QED BY <1>8, <2>4, <2>5
          DEF CancelHeldOrder, TypeOK, LoadedUnanswered, LocalRequiresAnswer
<1>9. ASSUME NEW p \in Pods, CommitAnswer(p) PROVE Shape'
  <2> DEFINE u == unit[p]
             v == [u EXCEPT !.pc = "submit"]
  <2>1. /\ u \in Unit /\ u.pc = "commit" /\ u.ref \in Refs
        /\ u.order \in Order
        /\ \/ /\ u.order.state = "ACKNOWLEDGED" /\ u.local \in LocalIds
              /\ u.order.local = u.local
           \/ u.order.state = "REJECTED" /\ u.order.local = NoLocal
    BY <1>9 DEF CommitAnswer, TypeOK, UnitsCarry, Carries
  <2>2. SaveAndPublish(u.ref, u.order, AnswerEvent(u)) /\ Reply(p, v)
    BY <1>9 DEF CommitAnswer
  <2>3. v \in Unit /\ Carries(v)
    BY <2>1 DEF Unit, Carries
  <2>4. AnswerEvent(u) \in Event
    BY <2>1 DEF AnswerEvent, Event, Reasons
  <2> HIDE DEF u, v
  <2>5. unit' \in [Pods -> Unit] /\ UnitsCarry'
    BY <2>2, <2>3, ReplyKeepsUnits DEF TypeOK
  <2>6. LocalRequiresAnswer'
    BY <2>1, <2>2, SaveKeepsLinks
  <2>7. /\ rows' \in [Refs -> Order \cup {NoOrder}]
        /\ events' \in [Refs -> Seq(Event)]
    BY <2>1, <2>2, <2>4, SaveAndPublishType
  <2> QED BY <1>9, <2>5, <2>6, <2>7
          DEF CommitAnswer, TypeOK, LoadedUnanswered
<1>10. ASSUME NEW p \in Pods, SubmitAcknowledgement(p) PROVE Shape'
  <2> DEFINE u == unit[p]
             v == IF u.order.state = "ACKNOWLEDGED"
                  THEN [u EXCEPT !.pc = "release"] ELSE IdleUnit
  <2>1. /\ u \in Unit /\ Carries(u) /\ u.pc = "submit" /\ u.ref \in Refs
        /\ u.order.state \in State
    BY <1>10 DEF SubmitAcknowledgement, TypeOK, UnitsCarry, Carries, Order
  <2>2. v \in Unit /\ Carries(v)
    BY <2>1, IdleCarries DEF Unit, Carries
  <2>3. unit' = [unit EXCEPT ![p] = v]
    BY <1>10 DEF SubmitAcknowledgement
  <2>4. answers' \in [Refs -> Seq(State)]
    <3>1. Append(answers[u.ref], u.order.state) \in Seq(State)
      BY <2>1 DEF TypeOK
    <3> QED BY <1>10, <2>1, <3>1 DEF SubmitAcknowledgement, TypeOK
  <2>5. pending' \in [Pods -> SUBSET Refs]
    BY <1>10 DEF SubmitAcknowledgement, TypeOK
  <2> HIDE DEF u, v
  <2>6. unit' \in [Pods -> Unit] /\ UnitsCarry'
    BY <2>2, <2>3, ReplaceUnit DEF TypeOK
  <2> QED BY <1>10, <2>4, <2>5, <2>6
          DEF SubmitAcknowledgement, TypeOK, LoadedUnanswered,
              LocalRequiresAnswer
<1>11. ASSUME NEW p \in Pods, ReleaseHeldOrder(p) PROVE Shape'
  <2>1. holds' \in [LocalIds -> Hold]
    BY <1>11 DEF ReleaseHeldOrder, TypeOK, UnitsCarry, Carries, Hold
  <2>2. unit' \in [Pods -> Unit] /\ UnitsCarry'
    BY <1>11, ReplyKeepsUnits, IdleCarries DEF ReleaseHeldOrder, TypeOK
  <2> QED BY <1>11, <2>1, <2>2
          DEF ReleaseHeldOrder, TypeOK, LoadedUnanswered, LocalRequiresAnswer
<1>12. ASSUME NEW p \in Pods, CallFails(p) PROVE Shape'
  <2>1. unit' \in [Pods -> Unit] /\ UnitsCarry'
    BY <1>12, ReplyKeepsUnits, IdleCarries DEF CallFails, TypeOK
  <2> QED BY <1>12, <2>1
          DEF CallFails, TypeOK, LoadedUnanswered, LocalRequiresAnswer
<1>13. ASSUME NEW p \in Pods, ListUnanswered(p) PROVE Shape'
  <2>1. /\ sweep' \in [Pods -> Sweep]
        /\ \A q \in Pods : sweep'[q].loaded = sweep[q].loaded
    BY <1>13 DEF ListUnanswered, TypeOK, Sweep
  <2> QED BY <1>13, <2>1 DEF ListUnanswered, TypeOK, UnitsCarry, Carries,
             LoadedUnanswered, LocalRequiresAnswer
<1>14. ASSUME NEW p \in Pods, NEW r \in Refs, LoadListed(p, r) PROVE Shape'
  <2> DEFINE o == IF AcknowledgementOverdue(rows[r], sweep[p].now)
                  THEN rows[r] ELSE NoOrder
  <2>1. /\ o \in Order \cup {NoOrder}
        /\ Exists(o) => o \in Order /\ o.state = "NEW" /\ o.local = NoLocal
    BY DEF AcknowledgementOverdue, TypeOK, LocalRequiresAnswer, Exists, NoOrder
  <2>2. sweep' = [sweep EXCEPT ![p].listed = @ \ {r}, ![p].loaded[r] = o]
    BY <1>14 DEF LoadListed, FindByRef
  <2> HIDE DEF o
  <2>3. sweep' \in [Pods -> Sweep]
    BY <2>1, <2>2 DEF TypeOK, Sweep
  <2>4. \A q \in Pods, s \in Refs :
          sweep'[q].loaded[s] = IF q = p /\ s = r THEN o ELSE sweep[q].loaded[s]
    BY <2>2 DEF TypeOK, Sweep
  <2>5. LoadedUnanswered'
    BY <2>1, <2>4 DEF LoadedUnanswered
  <2> QED BY <1>14, <2>3, <2>5 DEF LoadListed, TypeOK, UnitsCarry, Carries,
             LocalRequiresAnswer
<1>15. ASSUME NEW p \in Pods, LoadFails(p) PROVE Shape'
  <2>1. IdleSweep \in Sweep
    BY DEF IdleSweep, Sweep
  <2>2. /\ sweep' \in [Pods -> Sweep]
        /\ \A q \in Pods : sweep'[q] = IF q = p THEN IdleSweep ELSE sweep[q]
    BY <1>15, <2>1 DEF LoadFails, TypeOK
  <2>3. LoadedUnanswered'
    BY <2>2 DEF LoadedUnanswered, IdleSweep, Exists, NoOrder
  <2> QED BY <1>15, <2>2, <2>3 DEF LoadFails, TypeOK, UnitsCarry, Carries,
             LocalRequiresAnswer
<1>16. ASSUME NEW p \in Pods, NEW r \in Refs, Passed(p, r)
       PROVE  sweep' \in [Pods -> Sweep] /\ LoadedUnanswered'
  <2>1. sweep' = [sweep EXCEPT ![p].loaded[r] = NoOrder]
    BY <1>16 DEF Passed
  <2>2. sweep' \in [Pods -> Sweep]
    BY <2>1 DEF TypeOK, Sweep
  <2>3. \A q \in Pods, s \in Refs : sweep'[q].loaded[s] =
          IF q = p /\ s = r THEN NoOrder ELSE sweep[q].loaded[s]
    BY <2>1 DEF TypeOK, Sweep
  <2> QED BY <2>2, <2>3 DEF LoadedUnanswered, Exists, NoOrder
<1>17. ASSUME NEW p \in Pods, NEW r \in Refs, MissOne(p, r) PROVE Shape'
  <2> DEFINE o == sweep[p].loaded[r]
             e == Rejected("ACKNOWLEDGEMENT_DEADLINE_MISSED")
  <2>1. o \in Order /\ o.local = NoLocal /\ o.state = "NEW"
    BY <1>17 DEF MissOne, Passed, LoadedUnanswered
  <2>2. /\ Reject(o) \in Order /\ Reject(o).local = NoLocal /\ e \in Event
    BY <2>1 DEF Reject, Order, State, Event, Reasons
  <2>3. SaveAndPublish(r, Reject(o), e)
    BY <1>17 DEF MissOne
  <2>4. holds' = holds
    BY <1>17, <2>1, OrderAssumption DEF MissOne, TypeOK
  <2> HIDE DEF o, e
  <2>5. LocalRequiresAnswer'
    BY <2>2, <2>3, SaveKeepsLinks
  <2>6. /\ rows' \in [Refs -> Order \cup {NoOrder}]
        /\ events' \in [Refs -> Seq(Event)]
    BY <2>2, <2>3, SaveAndPublishType
  <2>7. sweep' \in [Pods -> Sweep] /\ LoadedUnanswered'
    BY <1>16, <1>17 DEF MissOne
  <2> QED BY <1>17, <2>4, <2>5, <2>6, <2>7
          DEF MissOne, TypeOK, UnitsCarry, Carries
<1>18. ASSUME NEW p \in Pods, NEW r \in Refs, MissFails(p, r) PROVE Shape'
  BY <1>16, <1>18 DEF MissFails, TypeOK, UnitsCarry, Carries,
                      LocalRequiresAnswer
<1>19. ASSUME NEW p \in Pods, Restart(p) PROVE Shape'
  <2>1. IdleSweep \in Sweep
    BY DEF IdleSweep, Sweep
  <2>2. /\ sweep' \in [Pods -> Sweep]
        /\ \A q \in Pods : sweep'[q] = IF q = p THEN IdleSweep ELSE sweep[q]
    BY <1>19, <2>1 DEF Restart, TypeOK
  <2>3. LoadedUnanswered'
    BY <2>2 DEF LoadedUnanswered, IdleSweep, Exists, NoOrder
  <2>4. unit' \in [Pods -> Unit] /\ UnitsCarry'
    BY <1>19, ReplaceUnit, IdleCarries DEF Restart, TypeOK
  <2>5. /\ pending' \in [Pods -> SUBSET Refs] /\ batch' \in [Pods -> SUBSET Refs]
        /\ restarts' \in Nat
    BY <1>19 DEF Restart, TypeOK
  <2> QED BY <1>19, <2>2, <2>3, <2>4, <2>5
          DEF Restart, TypeOK, LocalRequiresAnswer
<1> QED BY <1>1, <1>2, <1>3, <1>4, <1>5, <1>6, <1>7, <1>8, <1>9, <1>10,
           <1>11, <1>12, <1>13, <1>14, <1>15, <1>17, <1>18, <1>19
        DEF Next, Step

\* TypeOK for every execution.
THEOREM TypeCorrect == Spec => []TypeOK
<1>1. Init => Shape
  BY ShapeInit
<1>2. Shape /\ [Next]_vars => Shape'
  BY ShapeStep
<1>3. Shape => TypeOK
  BY DEF Shape
<1> QED BY <1>1, <1>2, <1>3, PTL DEF Spec

\* The CHECK constraint of network_orders never refuses a save, and the
\* sweep never loads an order that has a hold to cancel.
THEOREM LinkedOnlyWhenAcknowledged == Spec => []LocalRequiresAnswer
<1>1. Init => Shape
  BY ShapeInit
<1>2. Shape /\ [Next]_vars => Shape'
  BY ShapeStep
<1>3. Shape => LocalRequiresAnswer
  BY DEF Shape
<1> QED BY <1>1, <1>2, <1>3, PTL DEF Spec

-----------------------------------------------------------------------------
(***************************************************************************)
(* Holds.  A unit is the only one to know the local order it raised, and   *)
(* the hold behind it is still reserved until the unit itself cancels or   *)
(* releases it.                                                            *)
(***************************************************************************)

Owned(u) ==
  [ref |-> u.ref,
   status |-> IF u.pc = "cancel" \/ u.order.state = "ACKNOWLEDGED"
              THEN "held" ELSE "cancelled"]

OwnsHold(u) ==
  u.local # NoLocal => u.pc # "idle" /\ holds[u.local] = Owned(u)

HoldsOwned ==
  /\ \A p \in Pods : OwnsHold(unit[p])
  /\ \A p, q \in Pods :
       p # q /\ unit[p].local = unit[q].local => unit[p].local = NoLocal

\* One pod's unit becomes v, and no hold changes but that of l, which no
\* other pod owns.
LEMMA OwnerStep ==
  ASSUME Shape, HoldsOwned, NEW p \in Pods, NEW v \in Unit,
         unit' = [unit EXCEPT ![p] = v],
         NEW l \in LocalIds \cup {NoLocal},
         \A m \in LocalIds : m # l => holds'[m] = holds[m],
         \A q \in Pods : q # p /\ unit[q].local = l => l = NoLocal,
         v.local \in {NoLocal, l},
         v.local # NoLocal => v.pc # "idle" /\ holds'[v.local] = Owned(v)
  PROVE  HoldsOwned'
<1>1. \A q \in Pods : unit'[q] = IF q = p THEN v ELSE unit[q]
  BY DEF Shape, TypeOK
<1>2. \A q \in Pods : unit[q].local \in LocalIds \cup {NoLocal}
  BY DEF Shape, TypeOK, Unit
<1>3. ASSUME NEW q \in Pods PROVE OwnsHold(unit[q])'
  <2>1. CASE q = p
    BY <1>1, <2>1 DEF OwnsHold, Owned
  <2>2. CASE q # p
    <3>1. unit'[q] = unit[q] /\ OwnsHold(unit[q])
      BY <1>1, <2>2 DEF HoldsOwned
    <3>2. unit[q].local # NoLocal =>
            unit[q].local \in LocalIds /\ unit[q].local # l
      BY <1>2, <2>2
    <3> QED BY <3>1, <3>2 DEF OwnsHold, Owned
  <2> QED BY <2>1, <2>2
<1>4. ASSUME NEW q \in Pods, NEW t \in Pods, q # t,
             unit'[q].local = unit'[t].local
      PROVE  unit'[q].local = NoLocal
  BY <1>1, <1>4 DEF HoldsOwned
<1> QED BY <1>3, <1>4 DEF HoldsOwned

\* No other unit owns the hold of p's unit, nor one nobody asked for yet.
LEMMA NotOwned ==
  ASSUME Shape, HoldsOwned, NEW p \in Pods, NEW l \in LocalIds \cup {NoLocal},
         l = unit[p].local \/ (l \in LocalIds /\ holds[l].status = "free")
  PROVE  \A q \in Pods : q # p /\ unit[q].local = l => l = NoLocal
<1> SUFFICES ASSUME NEW q \in Pods, q # p, unit[q].local = l, l # NoLocal
             PROVE  FALSE
  OBVIOUS
<1>1. l # unit[p].local
  BY DEF HoldsOwned
<1>2. holds[l].status = "free" /\ holds[l] = Owned(unit[q])
  BY <1>1 DEF HoldsOwned, OwnsHold
<1> QED BY <1>2 DEF Owned

\* A unit that ends, for whatever reason, leaves the others their holds.
LEMMA ReturnKeepsHolds ==
  ASSUME Shape, HoldsOwned, NEW p \in Pods, Return(p),
         \A m \in LocalIds : m # unit[p].local => holds'[m] = holds[m]
  PROVE  HoldsOwned'
<1>1. unit[p].local \in LocalIds \cup {NoLocal}
  BY DEF Shape, TypeOK, Unit
<1>2. IdleUnit \in Unit /\ IdleUnit.local = NoLocal
  BY IdleCarries DEF IdleUnit
<1>3. unit' = [unit EXCEPT ![p] = IdleUnit]
  BY DEF Return
<1>4. \A q \in Pods :
        q # p /\ unit[q].local = unit[p].local => unit[p].local = NoLocal
  BY <1>1, NotOwned
<1> QED BY <1>1, <1>2, <1>3, <1>4, OwnerStep

\* Nobody owns a hold at boot...
LEMMA HoldsInit == Init => HoldsOwned
  BY DEF Init, HoldsOwned, OwnsHold, IdleUnit

\* ...and every step keeps each hold with the one unit that raised it.
LEMMA HoldsStep == Shape /\ HoldsOwned /\ [Next]_vars => HoldsOwned'
<1> SUFFICES ASSUME Shape, HoldsOwned, [Next]_vars PROVE HoldsOwned'
  OBVIOUS
<1> USE DEF Stored, Process
<1>1. ASSUME UNCHANGED <<unit, holds>> PROVE HoldsOwned'
  BY <1>1 DEF HoldsOwned, OwnsHold, Owned
<1>2. ASSUME NEW p \in Pods, NEW r \in Refs, TakeUp(p, r) PROVE HoldsOwned'
  <2>1. unit'[p] \in Unit
    BY <1>2, ShapeStep DEF Next, Shape, TypeOK
  <2>2. unit' = [unit EXCEPT ![p] = unit'[p]] /\ unit'[p].local = NoLocal
    BY <1>2 DEF TakeUp, Shape, TypeOK
  <2>3. \A m \in LocalIds : holds'[m] = holds[m]
    BY <1>2 DEF TakeUp
  <2> QED BY <2>1, <2>2, <2>3, OwnerStep
<1>3. ASSUME NEW p \in Pods, SaveReceived(p) PROVE HoldsOwned'
  <2>1. unit[p] \in Unit /\ unit[p].local = NoLocal
    BY <1>3 DEF SaveReceived, Shape, TypeOK, UnitsCarry, Carries
  <2>2. holds' = holds
    BY <1>3 DEF SaveReceived
  <2>3. PICK v : unit' = [unit EXCEPT ![p] = v] /\ v.local = NoLocal
    BY <1>3, <2>1 DEF SaveReceived, Reply, Return, IdleUnit, Unit
  <2>4. v \in Unit
    BY <1>3, <2>3, ShapeStep DEF Next, Step, Shape, TypeOK
  <2> QED BY <2>2, <2>3, <2>4, OwnerStep
<1>4. ASSUME NEW p \in Pods, RaiseHeldOrder(p) PROVE HoldsOwned'
  <2> DEFINE u == unit[p]
  <2>1. u \in Unit /\ u.local = NoLocal /\ u.order \in Order
    BY <1>4 DEF RaiseHeldOrder, Shape, TypeOK, UnitsCarry, Carries
  <2>2. PICK l \in LocalIds :
          /\ holds[l].status = "free"
          /\ holds' = [holds EXCEPT ![l] = [ref |-> u.ref, status |-> "held"]]
          /\ \/ Reply(p, [u EXCEPT !.pc = "cancel", !.local = l])
             \/ Reply(p, [u EXCEPT !.pc = "commit", !.local = l,
                            !.order = LinkLocalOrder(Acknowledge(@), l)])
    BY <1>4 DEF RaiseHeldOrder
  <2>3. \A q \in Pods : q # p /\ unit[q].local = l => l = NoLocal
    BY <2>2, NotOwned
  <2>4. /\ \A m \in LocalIds : m # l => holds'[m] = holds[m]
        /\ holds'[l] = [ref |-> u.ref, status |-> "held"]
    BY <2>2 DEF Shape, TypeOK
  <2>5. ASSUME NEW v \in Unit, unit' = [unit EXCEPT ![p] = v],
               v.local = l, v.pc # "idle", Owned(v) = holds'[l]
        PROVE  HoldsOwned'
    <3>1. v.local # NoLocal => v.pc # "idle" /\ holds'[v.local] = Owned(v)
      BY <2>5
    <3>2. l \in LocalIds \cup {NoLocal} /\ v.local \in {NoLocal, l}
      BY <2>5
    <3>3. \A m \in LocalIds : m # l => holds'[m] = holds[m]
      BY <2>4
    <3>4. unit' = [unit EXCEPT ![p] = v]
      BY <2>5
    <3> HIDE DEF u
    <3> QED BY <2>3, <3>1, <3>2, <3>3, <3>4, OwnerStep
  <2>6. CASE unit' = [unit EXCEPT ![p] =
                        [u EXCEPT !.pc = "cancel", !.local = l]]
    <3> DEFINE v == [u EXCEPT !.pc = "cancel", !.local = l]
    <3>1. /\ v \in Unit /\ v.local = l /\ v.pc # "idle"
          /\ Owned(v) = holds'[l]
      BY <2>1, <2>4 DEF Unit, Owned
    <3> HIDE DEF v
    <3> QED BY <2>5, <2>6, <3>1 DEF v
  <2>7. CASE unit' = [unit EXCEPT ![p] =
                        [u EXCEPT !.pc = "commit", !.local = l,
                           !.order = LinkLocalOrder(Acknowledge(@), l)]]
    <3> DEFINE v == [u EXCEPT !.pc = "commit", !.local = l,
                       !.order = LinkLocalOrder(Acknowledge(@), l)]
    <3>1. v.local = l /\ v.pc # "idle" /\ Owned(v) = holds'[l]
      BY <2>1, <2>4 DEF Unit, Owned, LinkLocalOrder, Acknowledge, Order
    <3>2. v \in Unit
      BY <2>1 DEF Unit, LinkLocalOrder, Acknowledge, Order, State
    <3> HIDE DEF v
    <3> QED BY <2>5, <2>7, <3>1, <3>2 DEF v
  <2>8. CASE Return(p)
    <3>1. unit' = [unit EXCEPT ![p] = IdleUnit]
      BY <2>8 DEF Return
    <3>2. IdleUnit \in Unit /\ IdleUnit.local = NoLocal
      BY IdleCarries DEF IdleUnit
    <3> QED BY <2>3, <2>4, <3>1, <3>2, OwnerStep
  <2> QED BY <2>2, <2>6, <2>7, <2>8 DEF Reply
<1>5. ASSUME NEW p \in Pods, CancelHeldOrder(p) PROVE HoldsOwned'
  <2> DEFINE u == unit[p]
             v == [u EXCEPT !.pc = "commit", !.order = Reject(u.order)]
  <2>1. /\ u \in Unit /\ u.pc = "cancel" /\ u.order \in Order
        /\ u.local \in LocalIds
    BY <1>5 DEF CancelHeldOrder, Shape, TypeOK, UnitsCarry, Carries
  <2>2. /\ v \in Unit /\ v.local = u.local /\ v.pc = "commit"
        /\ v.order.state = "REJECTED" /\ v.ref = u.ref
    BY <2>1 DEF Unit, Reject, Order, State
  <2>3. /\ holds[u.local].ref = u.ref /\ u.local # NoLocal
        /\ holds' = [holds EXCEPT ![u.local].status = "cancelled"]
    <3>1. u.local # NoLocal
      BY <2>1, OrderAssumption
    <3>2. holds[u.local] = Owned(u)
      BY <3>1 DEF HoldsOwned, OwnsHold
    <3> QED BY <1>5, <3>1, <3>2 DEF CancelHeldOrder, Owned
  <2>4. /\ \A m \in LocalIds : m # u.local => holds'[m] = holds[m]
        /\ holds'[u.local] = [ref |-> u.ref, status |-> "cancelled"]
    BY <2>1, <2>3 DEF Shape, TypeOK, Hold
  <2>5. Owned(v) = holds'[u.local]
    BY <2>2, <2>4 DEF Owned
  <2>6. Reply(p, v)
    BY <1>5 DEF CancelHeldOrder
  <2> HIDE DEF v
  <2>7. CASE unit' = [unit EXCEPT ![p] = v]
    <3>1. \A q \in Pods : q # p /\ unit[q].local = u.local => u.local = NoLocal
      BY <2>1, NotOwned
    <3>2. v.local # NoLocal => v.pc # "idle" /\ holds'[v.local] = Owned(v)
      BY <2>2, <2>5
    <3>3. v.local \in {NoLocal, u.local}
      BY <2>2
    <3> HIDE DEF u
    <3> QED BY <2>1, <2>2, <2>4, <2>7, <3>1, <3>2, <3>3, OwnerStep
  <2> QED BY <2>4, <2>6, <2>7, ReturnKeepsHolds DEF Reply
<1>6. ASSUME NEW p \in Pods, CommitAnswer(p) PROVE HoldsOwned'
  <2> DEFINE u == unit[p]
             v == [u EXCEPT !.pc = "submit"]
  <2>1. u \in Unit /\ u.pc = "commit" /\ u.local \in LocalIds \cup {NoLocal}
    BY <1>6 DEF CommitAnswer, Shape, TypeOK, Unit
  <2>2. v \in Unit /\ v.local = u.local /\ v.pc = "submit" /\ Owned(v) = Owned(u)
    BY <2>1 DEF Unit, Owned
  <2>3. holds' = holds /\ Reply(p, v)
    BY <1>6 DEF CommitAnswer
  <2>4. u.local # NoLocal => holds'[u.local] = Owned(u)
    BY <2>3 DEF HoldsOwned, OwnsHold
  <2> HIDE DEF v
  <2>5. CASE unit' = [unit EXCEPT ![p] = v]
    <3>1. \A q \in Pods : q # p /\ unit[q].local = u.local => u.local = NoLocal
      BY <2>1, NotOwned
    <3>2. v.local # NoLocal => holds'[v.local] = Owned(v)
      BY <2>2, <2>4
    <3>3. v.pc # "idle" /\ v.local \in {NoLocal, u.local}
      BY <2>2
    <3> HIDE DEF u
    <3> QED BY <2>1, <2>2, <2>3, <2>5, <3>1, <3>2, <3>3, OwnerStep
  <2> QED BY <2>3, <2>5, ReturnKeepsHolds DEF Reply
<1>7. ASSUME NEW p \in Pods, SubmitAcknowledgement(p) PROVE HoldsOwned'
  <2> DEFINE u == unit[p]
             v == [u EXCEPT !.pc = "release"]
  <2>1. u \in Unit /\ u.pc = "submit" /\ u.local \in LocalIds \cup {NoLocal}
    BY <1>7 DEF SubmitAcknowledgement, Shape, TypeOK, Unit
  <2>2. v \in Unit /\ v.local = u.local /\ v.pc = "release" /\ Owned(v) = Owned(u)
    BY <2>1 DEF Unit, Owned
  <2>3. holds' = holds /\ (unit' = [unit EXCEPT ![p] = v] \/ Return(p))
    BY <1>7 DEF SubmitAcknowledgement, Return
  <2>4. u.local # NoLocal => holds'[u.local] = Owned(u)
    BY <2>3 DEF HoldsOwned, OwnsHold
  <2> HIDE DEF v
  <2>5. CASE unit' = [unit EXCEPT ![p] = v]
    <3>1. \A q \in Pods : q # p /\ unit[q].local = u.local => u.local = NoLocal
      BY <2>1, NotOwned
    <3>2. v.local # NoLocal => holds'[v.local] = Owned(v)
      BY <2>2, <2>4
    <3>3. v.pc # "idle" /\ v.local \in {NoLocal, u.local}
      BY <2>2
    <3> HIDE DEF u
    <3> QED BY <2>1, <2>2, <2>3, <2>5, <3>1, <3>2, <3>3, OwnerStep
  <2> QED BY <2>3, <2>5, ReturnKeepsHolds
<1>8. ASSUME NEW p \in Pods, ReleaseHeldOrder(p) PROVE HoldsOwned'
  BY <1>8, ReturnKeepsHolds DEF ReleaseHeldOrder, Shape, TypeOK
<1>9. ASSUME NEW p \in Pods, CallFails(p) PROVE HoldsOwned'
  BY <1>9, ReturnKeepsHolds DEF CallFails
<1>10. ASSUME NEW p \in Pods, Restart(p) PROVE HoldsOwned'
  BY <1>10, ReturnKeepsHolds DEF Restart, Return
<1>11. ASSUME NEW p \in Pods, NEW r \in Refs, MissOne(p, r) PROVE HoldsOwned'
  <2>1. sweep[p].loaded[r].local = NoLocal
    BY <1>11 DEF MissOne, Passed, Shape, LoadedUnanswered
  <2>2. holds' = holds
    BY <1>11, <2>1, OrderAssumption DEF MissOne, Shape, TypeOK
  <2> QED BY <1>1, <1>11, <2>2 DEF MissOne
<1>12. CASE UNCHANGED vars
  BY <1>1, <1>12 DEF vars
<1>13. CASE Tick
  BY <1>1, <1>13 DEF Tick
<1>14. ASSUME NEW p \in Pods, PollDemand(p) \/ LoadFails(p) \/ ListUnanswered(p)
       PROVE  HoldsOwned'
  BY <1>1, <1>14 DEF PollDemand, LoadFails, ListUnanswered
<1>15. ASSUME NEW p \in Pods, NEW r \in Refs,
              PassOver(p, r) \/ LoadListed(p, r) \/ MissFails(p, r)
       PROVE  HoldsOwned'
  BY <1>1, <1>15 DEF PassOver, LoadListed, MissFails
<1> QED BY <1>2, <1>3, <1>4, <1>5, <1>6, <1>7, <1>8, <1>9, <1>10, <1>11,
           <1>12, <1>13, <1>14, <1>15 DEF Next, Step

\* Only demand is ever raised with order-management.
HoldsBelong ==
  \A l \in LocalIds : holds[l].status # "free" => holds[l].ref \in Refs

\* A hold is only ever created by RaiseHeldOrder, for the unit's reference.
LEMMA HoldsBelongStep ==
  Shape /\ HoldsOwned /\ HoldsBelong /\ [Next]_vars => HoldsBelong'
<1> SUFFICES ASSUME Shape, HoldsOwned, HoldsBelong, [Next]_vars
             PROVE  HoldsBelong'
  OBVIOUS
<1> USE DEF Stored, Process
<1>1. ASSUME UNCHANGED holds PROVE HoldsBelong'
  BY <1>1 DEF HoldsBelong
<1>2. ASSUME NEW l \in LocalIds \cup {NoLocal},
             \A m \in LocalIds : m # l => holds'[m] = holds[m],
             l \in LocalIds => holds'[l].ref \in Refs
      PROVE  HoldsBelong'
  BY <1>2 DEF HoldsBelong
<1>3. ASSUME NEW p \in Pods, RaiseHeldOrder(p) PROVE HoldsBelong'
  <2>1. unit[p].ref \in Refs
    BY <1>3 DEF RaiseHeldOrder, Shape, UnitsCarry, Carries
  <2>2. PICK l \in LocalIds : holds' =
          [holds EXCEPT ![l] = [ref |-> unit[p].ref, status |-> "held"]]
    BY <1>3 DEF RaiseHeldOrder
  <2>3. /\ \A m \in LocalIds : m # l => holds'[m] = holds[m]
        /\ holds'[l].ref = unit[p].ref
    BY <2>2 DEF Shape, TypeOK
  <2> QED BY <1>2, <2>1, <2>3
<1>4. ASSUME NEW p \in Pods, CancelHeldOrder(p) \/ ReleaseHeldOrder(p)
      PROVE  HoldsBelong'
  <2> DEFINE u == unit[p]
  <2>1. u.ref \in Refs /\ u.local \in LocalIds
    BY <1>4 DEF CancelHeldOrder, ReleaseHeldOrder, Shape, UnitsCarry, Carries
  <2>2. holds[u.local].ref = u.ref
    <3>1. u.local # NoLocal /\ OwnsHold(u)
      BY <2>1, OrderAssumption DEF HoldsOwned
    <3> QED BY <3>1 DEF OwnsHold, Owned
  <2>3. /\ \A m \in LocalIds : m # u.local => holds'[m] = holds[m]
        /\ holds'[u.local].ref = u.ref
    BY <1>4, <2>1, <2>2
    DEF CancelHeldOrder, ReleaseHeldOrder, Shape, TypeOK, Hold
  <2> HIDE DEF u
  <2> QED BY <1>2, <2>1, <2>3
<1>5. ASSUME NEW p \in Pods, NEW r \in Refs, MissOne(p, r) PROVE HoldsBelong'
  <2>1. sweep[p].loaded[r].local = NoLocal
    BY <1>5 DEF MissOne, Passed, Shape, LoadedUnanswered
  <2>2. holds' = holds
    BY <1>5, <2>1, OrderAssumption DEF MissOne, Shape, TypeOK
  <2> QED BY <1>1, <2>2
<1>6. ASSUME NEW p \in Pods,
             \/ PollDemand(p) \/ SaveReceived(p) \/ CommitAnswer(p)
             \/ SubmitAcknowledgement(p) \/ CallFails(p) \/ LoadFails(p)
             \/ ListUnanswered(p) \/ Restart(p)
      PROVE  HoldsBelong'
  BY <1>1, <1>6 DEF PollDemand, SaveReceived, CommitAnswer,
     SubmitAcknowledgement, CallFails, LoadFails, ListUnanswered, Restart
<1>7. ASSUME NEW p \in Pods, NEW r \in Refs,
             \/ PassOver(p, r) \/ TakeUp(p, r) \/ LoadListed(p, r)
             \/ MissFails(p, r)
      PROVE  HoldsBelong'
  BY <1>1, <1>7 DEF PassOver, TakeUp, LoadListed, MissFails
<1>8. CASE Tick \/ UNCHANGED vars
  BY <1>1, <1>8 DEF Tick, vars
<1> QED BY <1>3, <1>4, <1>5, <1>6, <1>7, <1>8 DEF Next, Step

-----------------------------------------------------------------------------
(***************************************************************************)
(* What is on record.  Between its commit and its answer to the network a  *)
(* unit can rely on its event being in the outbox, because the outbox only *)
(* grows; so it never tells the network, or releases, more than is durable.*)
(***************************************************************************)

\* What a unit relies on at its last two calls.
ReliesOn(u) ==
  /\ u.pc = "submit" => Recorded(u.ref, AnswerEvent(u))
  /\ u.pc = "release" =>
       /\ Told(u.ref, "ACKNOWLEDGED")
       /\ Recorded(u.ref, Acknowledged(u.local))

UnitsRelyOnRecord == \A p \in Pods : ReliesOn(unit[p])

OnRecord ==
  /\ StoreMatchesOutbox
  /\ UnitsRelyOnRecord
  /\ ToldOnlyWhatIsRecorded
  /\ ReleasedOnlyWhenPromised
  /\ RefusalFreesItsHold

\* Histories grow: what is recorded, or told, stays so.
HistoryKept ==
  \A r \in Refs :
    /\ \A e : Recorded(r, e) => Recorded(r, e)'
    /\ \A a : Told(r, a) => Told(r, a)'

\* What Append returns.
LEMMA AppendFacts ==
  ASSUME NEW S, NEW s \in Seq(S), NEW e \in S
  PROVE  /\ Len(Append(s, e)) = Len(s) + 1
         /\ Len(s) \in Nat
         /\ \A i \in 1..Len(s) : Append(s, e)[i] = s[i]
         /\ Append(s, e)[Len(s) + 1] = e
  OBVIOUS

\* A unit of work appends its event and nothing else.
LEMMA OutboxAppended ==
  ASSUME TypeOK, NEW r \in Refs, NEW o, NEW e \in Event, SaveAndPublish(r, o, e)
  PROVE  /\ Recorded(r, e)'
         /\ \A s \in Refs : \A x :
              /\ Recorded(s, x) => Recorded(s, x)'
              /\ Recorded(s, x)' => Recorded(s, x) \/ (s = r /\ x = e)
<1>1. events[r] \in Seq(Event)
  BY DEF TypeOK
<1>2. \A s \in Refs :
        events'[s] = IF s = r THEN Append(events[r], e) ELSE events[s]
  BY DEF SaveAndPublish, TypeOK
<1>3. /\ Len(Append(events[r], e)) = Len(events[r]) + 1
      /\ Len(events[r]) \in Nat
      /\ \A i \in 1..Len(events[r]) : Append(events[r], e)[i] = events[r][i]
      /\ Append(events[r], e)[Len(events[r]) + 1] = e
  BY <1>1, AppendFacts
<1>4. Recorded(r, e)'
  <2>1. events'[r] = Append(events[r], e)
    BY <1>2
  <2>2. Len(events[r]) + 1 \in 1..Len(events'[r])
    BY <1>3, <2>1
  <2>3. events'[r][Len(events[r]) + 1] = e
    BY <1>3, <2>1
  <2> QED BY <2>2, <2>3 DEF Recorded
<1>5. ASSUME NEW s \in Refs, NEW x
      PROVE  /\ Recorded(s, x) => Recorded(s, x)'
             /\ Recorded(s, x)' => Recorded(s, x) \/ (s = r /\ x = e)
  <2>1. CASE s # r
    BY <1>2, <2>1 DEF Recorded
  <2>2. CASE s = r
    <3>1. events'[s] = Append(events[r], e)
      BY <1>2, <2>2
    <3>2. Recorded(s, x) => Recorded(s, x)'
      BY <1>3, <2>2, <3>1 DEF Recorded
    <3>3. ASSUME NEW i \in 1..Len(events'[s]), events'[s][i] = x, x # e
          PROVE  Recorded(s, x)
      BY <1>3, <2>2, <3>1, <3>3 DEF Recorded
    <3> QED BY <2>2, <3>2, <3>3 DEF Recorded
  <2> QED BY <2>1, <2>2
<1> QED BY <1>4, <1>5

\* The outbox says what the row became.
LEMMA SaveMatchesOutbox ==
  ASSUME TypeOK, StoreMatchesOutbox, NEW r \in Refs, NEW o \in Order,
         NEW e \in Event, SaveAndPublish(r, o, e), Explains(e, o)
  PROVE  StoreMatchesOutbox'
<1>1. events[r] \in Seq(Event)
  BY DEF TypeOK
<1>2. \A s \in Refs :
        /\ events'[s] = IF s = r THEN Append(events[r], e) ELSE events[s]
        /\ rows'[s] = IF s = r THEN Upsert(rows[r], o) ELSE rows[s]
  BY DEF SaveAndPublish, TypeOK
<1>3. /\ Append(events[r], e) # <<>>
      /\ Append(events[r], e)[Len(Append(events[r], e))] = e
  BY <1>1
<1>4. Upsert(rows[r], o).state = o.state /\ Upsert(rows[r], o).local = o.local
  <2>1. CASE Exists(rows[r])
    <3>1. rows[r] \in Order
      BY <2>1 DEF TypeOK, Exists, NoOrder
    <3> QED BY <2>1, <3>1 DEF Upsert, Order
  <2>2. CASE ~Exists(rows[r])
    BY <2>2 DEF Upsert
  <2> QED BY <2>1, <2>2
<1>5. Explains(e, Upsert(rows[r], o))
  BY <1>4 DEF Explains
<1> QED BY <1>2, <1>3, <1>5 DEF StoreMatchesOutbox, Explains, Exists

\* Replacing p's unit keeps the others' reliance on the histories.
LEMMA RelyStep ==
  ASSUME Shape, UnitsRelyOnRecord, HistoryKept, NEW p \in Pods, NEW v,
         unit' = [unit EXCEPT ![p] = v], ReliesOn(unit[p])'
  PROVE  UnitsRelyOnRecord'
<1>1. \A q \in Pods : q # p => unit'[q] = unit[q]
  BY DEF Shape, TypeOK
<1>2. \A q \in Pods : unit[q].pc # "idle" => unit[q].ref \in Refs
  BY DEF Shape, UnitsCarry, Carries
<1>3. ASSUME NEW q \in Pods, q # p PROVE ReliesOn(unit[q])'
  <2>1. ReliesOn(unit[q]) /\ unit'[q] = unit[q]
    BY <1>1, <1>3 DEF UnitsRelyOnRecord
  <2>2. unit[q].pc \in {"submit", "release"} => unit[q].ref \in Refs
    BY <1>2
  <2>3. AnswerEvent(unit[q])' = AnswerEvent(unit[q])
    BY <2>1 DEF AnswerEvent
  <2>4. CASE unit[q].pc = "submit"
    BY <2>1, <2>2, <2>3, <2>4 DEF ReliesOn, HistoryKept
  <2>5. CASE unit[q].pc = "release"
    BY <2>1, <2>2, <2>5 DEF ReliesOn, HistoryKept
  <2> QED BY <2>1, <2>4, <2>5 DEF ReliesOn
<1> QED BY <1>3 DEF UnitsRelyOnRecord

\* The network hears one more answer and forgets none.
LEMMA AnswerAppended ==
  ASSUME TypeOK, NEW r \in Refs, NEW a \in State,
         answers' = [answers EXCEPT ![r] = Append(@, a)]
  PROVE  /\ Told(r, a)'
         /\ \A s \in Refs : \A x :
              /\ Told(s, x) => Told(s, x)'
              /\ Told(s, x)' => Told(s, x) \/ (s = r /\ x = a)
<1>1. answers[r] \in Seq(State)
  BY DEF TypeOK
<1>2. \A s \in Refs :
        answers'[s] = IF s = r THEN Append(answers[r], a) ELSE answers[s]
  BY DEF TypeOK
<1>3. /\ Len(Append(answers[r], a)) = Len(answers[r]) + 1
      /\ Len(answers[r]) \in Nat
      /\ \A i \in 1..Len(answers[r]) : Append(answers[r], a)[i] = answers[r][i]
      /\ Append(answers[r], a)[Len(answers[r]) + 1] = a
  BY <1>1, AppendFacts
<1>4. Told(r, a)'
  <2>1. answers'[r] = Append(answers[r], a)
    BY <1>2
  <2>2. Len(answers[r]) + 1 \in 1..Len(answers'[r])
    BY <1>3, <2>1
  <2>3. answers'[r][Len(answers[r]) + 1] = a
    BY <1>3, <2>1
  <2> QED BY <2>2, <2>3 DEF Told
<1>5. ASSUME NEW s \in Refs, NEW x
      PROVE  /\ Told(s, x) => Told(s, x)'
             /\ Told(s, x)' => Told(s, x) \/ (s = r /\ x = a)
  <2>1. CASE s # r
    BY <1>2, <2>1 DEF Told
  <2>2. CASE s = r
    <3>1. answers'[s] = Append(answers[r], a)
      BY <1>2, <2>2
    <3>2. Told(s, x) => Told(s, x)'
      BY <1>3, <2>2, <3>1 DEF Told
    <3>3. ASSUME NEW i \in 1..Len(answers'[s]), answers'[s][i] = x, x # a
          PROVE  Told(s, x)
      BY <1>3, <2>2, <3>1, <3>3 DEF Told
    <3> QED BY <2>2, <3>2, <3>3 DEF Told
  <2> QED BY <2>1, <2>2
<1> QED BY <1>4, <1>5

\* Nothing is on record at boot.
LEMMA OnRecordInit == Init => OnRecord
<1> SUFFICES ASSUME Init PROVE OnRecord
  OBVIOUS
<1>1. \A r \in Refs : \A x : ~Recorded(r, x) /\ ~Told(r, x)
  BY DEF Init, Recorded, Told
<1>2. StoreMatchesOutbox
  BY DEF Init, StoreMatchesOutbox, Exists, NoOrder
<1>3. UnitsRelyOnRecord
  BY DEF Init, UnitsRelyOnRecord, ReliesOn, IdleUnit
<1>4. ReleasedOnlyWhenPromised
  BY DEF Init, ReleasedOnlyWhenPromised
<1> QED BY <1>1, <1>2, <1>3, <1>4
        DEF OnRecord, ToldOnlyWhatIsRecorded, RefusalFreesItsHold

\* A step that only replaces p's unit, by one that relies on nothing.
LEMMA QuietStep ==
  ASSUME Shape, OnRecord, UNCHANGED <<rows, events, answers, holds>>,
         UNCHANGED unit \/ \E p \in Pods : \E v :
           /\ unit' = [unit EXCEPT ![p] = v]
           /\ unit'[p].pc \notin {"submit", "release"}
  PROVE  OnRecord'
<1>1. HistoryKept /\ \A r \in Refs : \A x : Recorded(r, x)' = Recorded(r, x)
  BY DEF HistoryKept, Recorded, Told
<1>2. UnitsRelyOnRecord'
  <2>1. CASE UNCHANGED unit
    BY <2>1 DEF OnRecord, UnitsRelyOnRecord, ReliesOn, Recorded, Told,
                AnswerEvent
  <2>2. ASSUME NEW p \in Pods, NEW v, unit' = [unit EXCEPT ![p] = v],
               unit'[p].pc \notin {"submit", "release"}
        PROVE  UnitsRelyOnRecord'
    <3>1. ReliesOn(unit[p])'
      BY <2>2 DEF ReliesOn
    <3> QED BY <1>1, <2>2, <3>1, RelyStep DEF OnRecord
  <2> QED BY <2>1, <2>2
<1>3. StoreMatchesOutbox'
  BY DEF OnRecord, StoreMatchesOutbox
<1>4. ToldOnlyWhatIsRecorded' /\ ReleasedOnlyWhenPromised' /\ RefusalFreesItsHold'
  BY DEF OnRecord, ToldOnlyWhatIsRecorded, ReleasedOnlyWhenPromised,
         RefusalFreesItsHold, Recorded, Told
<1> QED BY <1>2, <1>3, <1>4 DEF OnRecord

\* A unit of work by p's unit, or by p's sweep.
LEMMA SaveStep ==
  ASSUME Shape, HoldsBelong, OnRecord,
         NEW r \in Refs, NEW o \in Order, NEW e \in Event,
         SaveAndPublish(r, o, e), Explains(e, o), UNCHANGED <<answers, holds>>,
         e = Rejected("INFEASIBLE_DEADLINE") =>
           \E l \in LocalIds : holds[l] = [ref |-> r, status |-> "cancelled"]
  PROVE  /\ HistoryKept
         /\ UnitsRelyOnRecord' => OnRecord'
<1>1. /\ Recorded(r, e)'
      /\ \A s \in Refs : \A x :
           /\ Recorded(s, x) => Recorded(s, x)'
           /\ Recorded(s, x)' => Recorded(s, x) \/ (s = r /\ x = e)
  BY OutboxAppended DEF Shape
<1>2. \A s \in Refs : \A x : Told(s, x)' = Told(s, x)
  BY DEF Told
<1>3. HistoryKept
  BY <1>1, <1>2 DEF HistoryKept
<1>4. StoreMatchesOutbox'
  BY SaveMatchesOutbox DEF Shape, OnRecord
<1>5. ToldOnlyWhatIsRecorded'
  BY <1>1, <1>2 DEF OnRecord, ToldOnlyWhatIsRecorded
<1>6. ReleasedOnlyWhenPromised'
  <2> SUFFICES ASSUME NEW l \in LocalIds, holds[l].status = "released"
               PROVE  /\ Told(holds[l].ref, "ACKNOWLEDGED")'
                      /\ Recorded(holds[l].ref, Acknowledged(l))'
    BY DEF ReleasedOnlyWhenPromised
  <2>1. /\ Told(holds[l].ref, "ACKNOWLEDGED")
        /\ Recorded(holds[l].ref, Acknowledged(l))
    BY DEF OnRecord, ReleasedOnlyWhenPromised
  <2>2. holds[l].ref \in Refs
    BY DEF HoldsBelong
  <2> QED BY <1>1, <1>2, <2>1, <2>2
<1>7. RefusalFreesItsHold'
  BY <1>1 DEF OnRecord, RefusalFreesItsHold
<1> QED BY <1>3, <1>4, <1>5, <1>6, <1>7 DEF OnRecord

\* One hold changes hands; the histories do not change.
LEMMA HoldStep ==
  ASSUME Shape, OnRecord, UNCHANGED <<rows, events, answers>>,
         NEW l \in LocalIds, NEW h,
         \A m \in LocalIds : m # l => holds'[m] = holds[m],
         holds'[l] = h,
         h.status = "released" =>
           Told(h.ref, "ACKNOWLEDGED") /\ Recorded(h.ref, Acknowledged(l)),
         holds[l].status # "cancelled" \/ h = holds[l]
  PROVE  UnitsRelyOnRecord' => OnRecord'
<1>1. \A r, x : Recorded(r, x)' = Recorded(r, x) /\ Told(r, x)' = Told(r, x)
  BY DEF Recorded, Told
<1>2. StoreMatchesOutbox'
  BY DEF OnRecord, StoreMatchesOutbox
<1>3. ToldOnlyWhatIsRecorded'
  BY <1>1 DEF OnRecord, ToldOnlyWhatIsRecorded
<1>4. ReleasedOnlyWhenPromised'
  <2> SUFFICES ASSUME NEW m \in LocalIds, holds'[m].status = "released"
               PROVE  /\ Told(holds'[m].ref, "ACKNOWLEDGED")
                      /\ Recorded(holds'[m].ref, Acknowledged(m))
    BY <1>1 DEF ReleasedOnlyWhenPromised, Told, Recorded
  <2>1. CASE m = l
    BY <2>1
  <2>2. CASE m # l
    BY <2>2 DEF OnRecord, ReleasedOnlyWhenPromised
  <2> QED BY <2>1, <2>2
<1>5. RefusalFreesItsHold'
  <2> SUFFICES ASSUME NEW r \in Refs,
                      Recorded(r, Rejected("INFEASIBLE_DEADLINE"))
               PROVE  \E m \in LocalIds :
                        holds'[m] = [ref |-> r, status |-> "cancelled"]
    BY <1>1 DEF RefusalFreesItsHold
  <2>1. PICK m \in LocalIds : holds[m] = [ref |-> r, status |-> "cancelled"]
    BY DEF OnRecord, RefusalFreesItsHold
  <2>2. holds'[m] = holds[m]
    BY <2>1
  <2> QED BY <2>1, <2>2
<1> QED BY <1>2, <1>3, <1>4, <1>5 DEF OnRecord

\* Every step keeps the record straight: the row with its outbox, the
\* network's answers and the holds behind them with both.
LEMMA OnRecordStep ==
  Shape /\ HoldsOwned /\ HoldsBelong /\ OnRecord /\ [Next]_vars => OnRecord'
<1> SUFFICES ASSUME Shape, HoldsOwned, HoldsBelong, OnRecord, [Next]_vars
             PROVE  OnRecord'
  OBVIOUS
<1> USE DEF Stored, Process
<1>0. /\ unit \in [Pods -> Unit]
      /\ \A p \in Pods : /\ unit[p] \in Unit /\ Carries(unit[p])
                          /\ OwnsHold(unit[p]) /\ ReliesOn(unit[p])
  BY DEF Shape, TypeOK, UnitsCarry, HoldsOwned, OnRecord, UnitsRelyOnRecord
<1>1. ASSUME UNCHANGED <<rows, events, answers, holds, unit>> PROVE OnRecord'
  BY <1>1, QuietStep
<1>2. ASSUME NEW p \in Pods, Return(p),
             UNCHANGED <<rows, events, answers, holds>>
      PROVE  OnRecord'
  <2>1. unit' = [unit EXCEPT ![p] = IdleUnit] /\ unit'[p].pc = "idle"
    BY <1>0, <1>2 DEF Return, IdleUnit
  <2> QED BY <1>2, <2>1, QuietStep
<1>3. ASSUME NEW p \in Pods, NEW r \in Refs, TakeUp(p, r) PROVE OnRecord'
  <2>1. PICK v : unit' = [unit EXCEPT ![p] = v]
    BY <1>3 DEF TakeUp
  <2>2. unit'[p].pc = "save"
    BY <1>0, <1>3 DEF TakeUp
  <2> QED BY <1>3, <2>1, <2>2, QuietStep DEF TakeUp
<1>4. ASSUME NEW p \in Pods, SaveReceived(p) PROVE OnRecord'
  <2> DEFINE u == unit[p]
  <2>1. u.ref \in Refs /\ u.order \in Order /\ u.order.state = "NEW"
        /\ u.order.local = NoLocal
    BY <1>0, <1>4 DEF SaveReceived, Carries
  <2>2. /\ Received \in Event /\ Explains(Received, u.order)
        /\ Received # Rejected("INFEASIBLE_DEADLINE")
    BY <2>1 DEF Event, Received, Rejected, Explains
  <2>3. SaveAndPublish(u.ref, u.order, Received) /\ UNCHANGED <<answers, holds>>
    BY <1>4 DEF SaveReceived
  <2>4. PICK v : /\ unit' = [unit EXCEPT ![p] = v]
                 /\ v.pc \notin {"submit", "release"}
    <3>1. [u EXCEPT !.pc = "raise"].pc = "raise"
      BY <1>0 DEF Unit
    <3>2. [u EXCEPT !.pc = "commit", !.order = Reject(u.order)].pc = "commit"
      BY <1>0 DEF Unit
    <3> QED BY <1>4, <3>1, <3>2 DEF SaveReceived, Reply, Return, IdleUnit
  <2>5. ReliesOn(unit[p])'
    BY <1>0, <2>4 DEF ReliesOn
  <2> HIDE DEF u
  <2>6. HistoryKept /\ (UnitsRelyOnRecord' => OnRecord')
    BY <2>1, <2>2, <2>3, SaveStep
  <2>7. UnitsRelyOnRecord'
    BY <2>4, <2>5, <2>6, RelyStep DEF OnRecord
  <2> QED BY <2>6, <2>7
<1>5. ASSUME NEW p \in Pods, RaiseHeldOrder(p) PROVE OnRecord'
  <2> DEFINE u == unit[p]
  <2>1. PICK l \in LocalIds :
          /\ holds[l].status = "free"
          /\ holds' = [holds EXCEPT ![l] = [ref |-> u.ref, status |-> "held"]]
          /\ \/ Reply(p, [u EXCEPT !.pc = "cancel", !.local = l])
             \/ Reply(p, [u EXCEPT !.pc = "commit", !.local = l,
                            !.order = LinkLocalOrder(Acknowledge(@), l)])
    BY <1>5 DEF RaiseHeldOrder
  <2>2. /\ \A m \in LocalIds : m # l => holds'[m] = holds[m]
        /\ holds'[l] = [ref |-> u.ref, status |-> "held"]
    BY <2>1 DEF Shape, TypeOK
  <2>3. PICK v : /\ unit' = [unit EXCEPT ![p] = v]
                 /\ v.pc \notin {"submit", "release"}
    <3> DEFINE c == [u EXCEPT !.pc = "cancel", !.local = l]
               d == [u EXCEPT !.pc = "commit", !.local = l,
                       !.order = LinkLocalOrder(Acknowledge(@), l)]
    <3>1. c.pc = "cancel" /\ d.pc = "commit" /\ IdleUnit.pc = "idle"
      BY <1>0 DEF Unit, IdleUnit
    <3>2. Reply(p, c) \/ Reply(p, d)
      BY <2>1
    <3> HIDE DEF u, c, d
    <3> QED BY <3>1, <3>2 DEF Reply, Return
  <2>4. ReliesOn(unit[p])'
    BY <1>0, <2>3 DEF ReliesOn
  <2>5. UNCHANGED <<rows, events, answers>>
    BY <1>5 DEF RaiseHeldOrder
  <2>6. HistoryKept
    BY <2>5 DEF HistoryKept, Recorded, Told
  <2>7. UnitsRelyOnRecord'
    BY <2>3, <2>4, <2>6, RelyStep DEF OnRecord
  <2> HIDE DEF u
  <2> QED BY <2>1, <2>2, <2>5, <2>7, HoldStep
<1>6. ASSUME NEW p \in Pods, CancelHeldOrder(p) PROVE OnRecord'
  <2> DEFINE u == unit[p]
             h == [ref |-> u.ref, status |-> "cancelled"]
  <2>1. u.pc = "cancel" /\ u.local \in LocalIds /\ u.local # NoLocal
    BY <1>0, <1>6, OrderAssumption DEF CancelHeldOrder, Carries
  <2>2. holds[u.local] = [ref |-> u.ref, status |-> "held"]
    BY <1>0, <2>1 DEF OwnsHold, Owned
  <2>3. /\ \A m \in LocalIds : m # u.local => holds'[m] = holds[m]
        /\ holds'[u.local] = h
    BY <1>6, <2>1, <2>2 DEF CancelHeldOrder, Shape, TypeOK
  <2>4. PICK v : /\ unit' = [unit EXCEPT ![p] = v]
                 /\ v.pc \notin {"submit", "release"}
    <3>1. [u EXCEPT !.pc = "commit", !.order = Reject(u.order)].pc = "commit"
      BY <1>0 DEF Unit
    <3> QED BY <1>6, <3>1 DEF CancelHeldOrder, Reply, Return, IdleUnit
  <2>5. ReliesOn(unit[p])'
    BY <1>0, <2>4 DEF ReliesOn
  <2>6. UNCHANGED <<rows, events, answers>>
    BY <1>6 DEF CancelHeldOrder
  <2>7. HistoryKept
    BY <2>6 DEF HistoryKept, Recorded, Told
  <2>8. UnitsRelyOnRecord'
    BY <2>4, <2>5, <2>7, RelyStep DEF OnRecord
  <2>9. holds[u.local].status # "cancelled" /\ h.status # "released"
    BY <2>2
  <2> HIDE DEF u, h
  <2> QED BY <2>1, <2>3, <2>6, <2>8, <2>9, HoldStep
<1>7. ASSUME NEW p \in Pods, CommitAnswer(p) PROVE OnRecord'
  <2> DEFINE u == unit[p]
             v == [u EXCEPT !.pc = "submit"]
  <2>1. /\ u.pc = "commit" /\ u.ref \in Refs /\ u.order \in Order
        /\ \/ /\ u.order.state = "ACKNOWLEDGED" /\ u.order.local = u.local
              /\ u.local \in LocalIds /\ u.local # NoLocal
           \/ /\ u.order.state = "REJECTED" /\ u.order.local = NoLocal
              /\ u.local \in LocalIds \cup {NoLocal}
    BY <1>0, <1>7, OrderAssumption DEF CommitAnswer, Carries, Unit
  <2>2. PICK r \in Refs, e \in Event :
          r = u.ref /\ e = AnswerEvent(u) /\ Explains(e, u.order)
    <3>1. CASE u.order.state = "ACKNOWLEDGED"
      <4>1. AnswerEvent(u) = Acknowledged(u.local)
        BY <2>1, <3>1 DEF AnswerEvent
      <4>2. Acknowledged(u.local) \in Event
        BY <2>1, <3>1 DEF Event
      <4>3. Explains(Acknowledged(u.local), u.order)
        BY <2>1, <3>1 DEF Explains, Acknowledged
      <4> QED BY <2>1, <4>1, <4>2, <4>3
    <3>2. CASE u.order.state = "REJECTED"
      <4>1. PICK reason \in Reasons : AnswerEvent(u) = Rejected(reason)
        BY <2>1, <3>2 DEF AnswerEvent, Reasons
      <4>2. Rejected(reason) \in Event
        BY DEF Event
      <4>3. Explains(Rejected(reason), u.order)
        BY <2>1, <3>2 DEF Explains, Rejected
      <4> QED BY <2>1, <4>1, <4>2, <4>3
    <3> QED BY <2>1, <3>1, <3>2
  <2>3. e = Rejected("INFEASIBLE_DEADLINE") =>
          \E l \in LocalIds : holds[l] = [ref |-> r, status |-> "cancelled"]
    <3>1. e = Rejected("INFEASIBLE_DEADLINE") =>
            u.local # NoLocal /\ u.order.state = "REJECTED"
      BY <2>1, <2>2 DEF AnswerEvent, Acknowledged, Rejected
    <3>2. ASSUME u.local # NoLocal, u.order.state = "REJECTED"
          PROVE  holds[u.local] = [ref |-> r, status |-> "cancelled"]
      BY <1>0, <2>1, <2>2, <3>2 DEF OwnsHold, Owned
    <3> QED BY <2>1, <3>1, <3>2
  <2>4. SaveAndPublish(r, u.order, e) /\ UNCHANGED <<answers, holds>>
    BY <1>7, <2>2 DEF CommitAnswer
  <2>5. unit' = [unit EXCEPT ![p] = v] \/ unit' = [unit EXCEPT ![p] = IdleUnit]
    BY <1>7 DEF CommitAnswer, Reply, Return
  <2>6. v.ref = r /\ v.pc = "submit" /\ AnswerEvent(v) = e
    BY <1>0, <2>2 DEF AnswerEvent, Unit
  <2>7. Recorded(r, e)'
    <3> HIDE DEF u
    <3> QED BY <2>4, OutboxAppended DEF Shape
  <2>8. ReliesOn(unit[p])'
    <3>1. CASE unit' = [unit EXCEPT ![p] = v]
      <4>1. unit'[p] = v
        BY <1>0, <3>1
      <4>2. /\ unit'[p].pc = "submit" /\ unit'[p].ref = r
            /\ AnswerEvent(unit[p])' = e
        BY <2>6, <4>1 DEF AnswerEvent
      <4> QED BY <2>7, <4>2 DEF ReliesOn, Recorded
    <3>2. CASE unit' = [unit EXCEPT ![p] = IdleUnit]
      BY <1>0, <3>2 DEF ReliesOn, IdleUnit
    <3> QED BY <2>5, <3>1, <3>2
  <2> HIDE DEF u, v
  <2>9. HistoryKept /\ (UnitsRelyOnRecord' => OnRecord')
    BY <2>1, <2>2, <2>3, <2>4, SaveStep
  <2>10. UnitsRelyOnRecord'
    BY <2>5, <2>8, <2>9, RelyStep DEF OnRecord
  <2> QED BY <2>9, <2>10
<1>8. ASSUME NEW p \in Pods, SubmitAcknowledgement(p) PROVE OnRecord'
  <2> DEFINE u == unit[p]
             v == IF u.order.state = "ACKNOWLEDGED"
                  THEN [u EXCEPT !.pc = "release"] ELSE IdleUnit
  <2>1. /\ u.pc = "submit" /\ u.order \in Order
        /\ u.order.state \in {"ACKNOWLEDGED", "REJECTED"}
        /\ u.order.state = "ACKNOWLEDGED" => u.local \in LocalIds
        /\ u.local \in LocalIds \cup {NoLocal}
        /\ Recorded(u.ref, AnswerEvent(u))
    BY <1>0, <1>8 DEF SubmitAcknowledgement, Carries, ReliesOn, Unit
  <2>2. PICK r \in Refs, a \in State, l \in LocalIds \cup {NoLocal} :
          r = u.ref /\ a = u.order.state /\ l = u.local
    BY <1>0, <1>8, <2>1 DEF SubmitAcknowledgement, Carries, State
  <2>3. /\ answers' = [answers EXCEPT ![r] = Append(@, a)]
        /\ unit' = [unit EXCEPT ![p] = v]
        /\ UNCHANGED <<rows, events, holds>>
    BY <1>8, <2>2 DEF SubmitAcknowledgement
  <2>4. /\ Told(r, a)'
        /\ \A s \in Refs : \A x :
             /\ Told(s, x) => Told(s, x)'
             /\ Told(s, x)' => Told(s, x) \/ (s = r /\ x = a)
    BY <2>3, AnswerAppended DEF Shape
  <2>5. \A s, x : Recorded(s, x)' = Recorded(s, x)
    BY <2>3 DEF Recorded
  <2>6. HistoryKept
    BY <2>4, <2>5 DEF HistoryKept
  <2>7. a = "ACKNOWLEDGED" => l \in LocalIds /\ Recorded(r, Acknowledged(l))
    BY <2>1, <2>2, OrderAssumption DEF AnswerEvent
  <2>8. a = "REJECTED" =>
          \E reason \in Reasons : Recorded(r, Rejected(reason))
    BY <2>1, <2>2 DEF AnswerEvent, Reasons
  <2>9. ReliesOn(unit[p])'
    <3>1. unit'[p] = v
      BY <1>0, <2>3
    <3>2. CASE a = "ACKNOWLEDGED"
      <4>1. /\ unit'[p].pc = "release" /\ unit'[p].ref = r
            /\ unit'[p].local = l
        BY <1>0, <2>2, <3>1, <3>2 DEF Unit
      <4>2. Told(r, "ACKNOWLEDGED")' /\ Recorded(r, Acknowledged(l))'
        BY <2>4, <2>5, <2>7, <3>2
      <4> QED BY <4>1, <4>2 DEF ReliesOn, Told, Recorded
    <3>3. CASE a # "ACKNOWLEDGED"
      BY <2>2, <3>1, <3>3 DEF ReliesOn, IdleUnit
    <3> QED BY <3>2, <3>3
  <2>10. UnitsRelyOnRecord'
    <3> HIDE DEF v
    <3> QED BY <2>3, <2>6, <2>9, RelyStep DEF OnRecord
  <2>11. StoreMatchesOutbox'
    BY <2>3 DEF OnRecord, StoreMatchesOutbox
  <2>12. ToldOnlyWhatIsRecorded'
    <3> SUFFICES ASSUME NEW s \in Refs
          PROVE  /\ Told(s, "ACKNOWLEDGED")' =>
                      \E m \in LocalIds : Recorded(s, Acknowledged(m))
                 /\ Told(s, "REJECTED")' =>
                      \E reason \in Reasons : Recorded(s, Rejected(reason))
      BY <2>5 DEF ToldOnlyWhatIsRecorded
    <3>1. Told(s, "ACKNOWLEDGED")' =>
            Told(s, "ACKNOWLEDGED") \/ (s = r /\ a = "ACKNOWLEDGED")
      BY <2>4
    <3>2. Told(s, "REJECTED")' =>
            Told(s, "REJECTED") \/ (s = r /\ a = "REJECTED")
      BY <2>4
    <3> QED BY <2>7, <2>8, <3>1, <3>2 DEF OnRecord, ToldOnlyWhatIsRecorded
  <2>13. ReleasedOnlyWhenPromised'
    <3> SUFFICES ASSUME NEW m \in LocalIds, NEW s,
                        s = holds[m].ref, holds[m].status = "released"
                 PROVE  Told(s, "ACKNOWLEDGED")' /\ Recorded(s, Acknowledged(m))
      BY <2>3, <2>5 DEF ReleasedOnlyWhenPromised, Told
    <3>1. s \in Refs
      BY DEF HoldsBelong
    <3>2. Told(s, "ACKNOWLEDGED") /\ Recorded(s, Acknowledged(m))
      BY DEF OnRecord, ReleasedOnlyWhenPromised
    <3> QED BY <2>4, <3>1, <3>2
  <2>14. RefusalFreesItsHold'
    BY <2>3, <2>5 DEF OnRecord, RefusalFreesItsHold
  <2> QED BY <2>10, <2>11, <2>12, <2>13, <2>14 DEF OnRecord
<1>9. ASSUME NEW p \in Pods, ReleaseHeldOrder(p) PROVE OnRecord'
  <2> DEFINE u == unit[p]
             h == [ref |-> u.ref, status |-> "released"]
  <2>1. /\ u.pc = "release" /\ u.local \in LocalIds /\ u.local # NoLocal
        /\ u.order.state = "ACKNOWLEDGED"
        /\ Told(u.ref, "ACKNOWLEDGED") /\ Recorded(u.ref, Acknowledged(u.local))
    BY <1>0, <1>9, OrderAssumption DEF ReleaseHeldOrder, Carries, ReliesOn
  <2>2. holds[u.local] = [ref |-> u.ref, status |-> "held"]
    BY <1>0, <2>1 DEF OwnsHold, Owned
  <2>3. /\ \A m \in LocalIds : m # u.local => holds'[m] = holds[m]
        /\ holds'[u.local] = h
    BY <1>9, <2>1, <2>2 DEF ReleaseHeldOrder, Shape, TypeOK
  <2>4. unit' = [unit EXCEPT ![p] = IdleUnit]
        /\ UNCHANGED <<rows, events, answers>>
    BY <1>9 DEF ReleaseHeldOrder, Return
  <2>5. ReliesOn(unit[p])'
    BY <1>0, <2>4 DEF ReliesOn, IdleUnit
  <2>6. HistoryKept
    BY <2>4 DEF HistoryKept, Recorded, Told
  <2>7. UnitsRelyOnRecord'
    BY <2>4, <2>5, <2>6, RelyStep DEF OnRecord
  <2>8. holds[u.local].status # "cancelled" /\ h.ref = u.ref
    BY <2>2
  <2> HIDE DEF u, h
  <2> QED BY <2>1, <2>3, <2>4, <2>7, <2>8, HoldStep
<1>10. ASSUME NEW p \in Pods, NEW r \in Refs, MissOne(p, r) PROVE OnRecord'
  <2> DEFINE o == sweep[p].loaded[r]
             e == Rejected("ACKNOWLEDGEMENT_DEADLINE_MISSED")
  <2>1. o \in Order /\ o.local = NoLocal /\ o.state = "NEW"
    BY <1>10 DEF MissOne, Passed, Shape, LoadedUnanswered
  <2>2. /\ Reject(o) \in Order /\ e \in Event /\ Explains(e, Reject(o))
        /\ e # Rejected("INFEASIBLE_DEADLINE")
    BY <2>1 DEF Reject, Order, State, Event, Reasons, Explains, Rejected
  <2>3. SaveAndPublish(r, Reject(o), e) /\ UNCHANGED <<answers, unit>>
    BY <1>10 DEF MissOne
  <2>4. holds' = holds
    BY <1>10, <2>1, OrderAssumption DEF MissOne, Shape, TypeOK
  <2> HIDE DEF o, e
  <2>5. HistoryKept /\ (UnitsRelyOnRecord' => OnRecord')
    BY <2>2, <2>3, <2>4, SaveStep
  <2>6. unit' = [unit EXCEPT ![p] = unit[p]] /\ unit'[p] = unit[p]
    BY <1>0, <2>3
  <2>7. ReliesOn(unit[p])'
    <3>1. unit[p].pc \in {"submit", "release"} => unit[p].ref \in Refs
      BY <1>0 DEF Carries
    <3> QED BY <1>0, <2>3, <2>5, <3>1 DEF ReliesOn, HistoryKept, AnswerEvent
  <2>8. UnitsRelyOnRecord'
    BY <2>5, <2>6, <2>7, RelyStep DEF OnRecord
  <2> QED BY <2>5, <2>8
<1>11. ASSUME NEW p \in Pods,
              PollDemand(p) \/ LoadFails(p) \/ ListUnanswered(p)
       PROVE  OnRecord'
  BY <1>1, <1>11 DEF PollDemand, LoadFails, ListUnanswered
<1>12. ASSUME NEW p \in Pods, NEW r \in Refs,
              PassOver(p, r) \/ LoadListed(p, r) \/ MissFails(p, r)
       PROVE  OnRecord'
  BY <1>1, <1>12 DEF PassOver, LoadListed, MissFails
<1>13. ASSUME NEW p \in Pods, CallFails(p) \/ Restart(p) PROVE OnRecord'
  BY <1>2, <1>13 DEF CallFails, Restart, Return
<1>14. CASE Tick \/ UNCHANGED vars
  BY <1>1, <1>14 DEF Tick, vars
<1> QED BY <1>3, <1>4, <1>5, <1>6, <1>7, <1>8, <1>9, <1>10, <1>11, <1>12,
           <1>13, <1>14 DEF Next, Step

-----------------------------------------------------------------------------
\* The inductive invariant behind the theorems below.
Safe == Shape /\ HoldsOwned /\ HoldsBelong /\ OnRecord

\* It holds at boot...
LEMMA SafeInit == Init => Safe
<1>1. Init => HoldsBelong
  BY DEF Init, HoldsBelong
<1> QED BY <1>1, ShapeInit, HoldsInit, OnRecordInit DEF Safe

\* ...and always.
LEMMA AlwaysSafe == Spec => []Safe
<1>1. Init => Safe
  BY SafeInit
<1>2. Safe /\ [Next]_vars => Safe'
  BY ShapeStep, HoldsStep, HoldsBelongStep, OnRecordStep DEF Safe
<1> QED BY <1>1, <1>2, PTL DEF Spec

\* The row of an order is what the last event of its outbox says, whoever
\* wrote it and wherever a pod died (SaveAndPublish is one unit of work).
THEOREM RowMatchesOutbox == Spec => []StoreMatchesOutbox
<1>1. Safe => StoreMatchesOutbox
  BY DEF Safe, OnRecord
<1> QED BY <1>1, AlwaysSafe, PTL

\* The network is only told what is durable.
THEOREM TellsOnlyTheRecord == Spec => []ToldOnlyWhatIsRecorded
<1>1. Safe => ToldOnlyWhatIsRecorded
  BY DEF Safe, OnRecord
<1> QED BY <1>1, AlwaysSafe, PTL

\* No work reaches the floor unless the network was told yes and the local
\* order is on record for it.
THEOREM ReleasesOnlyPromises == Spec => []ReleasedOnlyWhenPromised
<1>1. Safe => ReleasedOnlyWhenPromised
  BY DEF Safe, OnRecord
<1> QED BY <1>1, AlwaysSafe, PTL

\* A refusal for infeasibility is on record only when its hold is cancelled.
THEOREM RefusalsFreeTheirHold == Spec => []RefusalFreesItsHold
<1>1. Safe => RefusalFreesItsHold
  BY DEF Safe, OnRecord
<1> QED BY <1>1, AlwaysSafe, PTL

\* No save moves a deadline: the upsert leaves acknowledge_by_utc alone.
THEOREM DeadlinesAreFixed == Spec => DeadlineNeverMoves
<1> DEFINE Kept == \A r \in Refs : Exists(rows[r]) =>
                     rows'[r].acknowledgeBy = rows[r].acknowledgeBy
<1>1. ASSUME Shape, NEW r \in Refs, NEW o, NEW e, SaveAndPublish(r, o, e)
      PROVE  Kept
  <2>1. \A s \in Refs :
          rows'[s] = IF s = r THEN Upsert(rows[r], o) ELSE rows[s]
    BY <1>1 DEF SaveAndPublish, Shape, TypeOK
  <2>2. Exists(rows[r]) =>
          Upsert(rows[r], o).acknowledgeBy = rows[r].acknowledgeBy
    BY <1>1 DEF Upsert, Shape, TypeOK, Order, NoOrder
  <2> QED BY <2>1, <2>2
<1>2. Shape /\ [Next]_vars => [Kept]_rows
  <2> SUFFICES ASSUME Shape, [Next]_vars, rows' # rows PROVE Kept
    OBVIOUS
  <2> USE DEF Stored, Process
  <2>1. CASE \E p \in Pods : SaveReceived(p) \/ CommitAnswer(p)
    <3>1. PICK p \in Pods : SaveReceived(p) \/ CommitAnswer(p)
      BY <2>1
    <3>2. unit[p].ref \in Refs
      BY <3>1 DEF SaveReceived, CommitAnswer, Shape, UnitsCarry, Carries
    <3>3. \E e : SaveAndPublish(unit[p].ref, unit[p].order, e)
      BY <3>1 DEF SaveReceived, CommitAnswer
    <3> QED BY <1>1, <3>2, <3>3
  <2>2. CASE \E p \in Pods, r \in Refs : MissOne(p, r)
    BY <1>1, <2>2 DEF MissOne
  <2> QED BY <2>1, <2>2
      DEF Next, Step, vars, Tick, PollDemand, RaiseHeldOrder, CancelHeldOrder,
          SubmitAcknowledgement, ReleaseHeldOrder, CallFails, LoadFails,
          ListUnanswered, Restart, PassOver, TakeUp, LoadListed, MissFails
<1>3. Spec => []Shape
  BY ShapeInit, ShapeStep, PTL DEF Spec
<1> QED BY <1>2, <1>3, PTL DEF Spec, DeadlineNeverMoves

-----------------------------------------------------------------------------
(***************************************************************************)
(* Misses.  A sweep decides on a clock it read and orders it loaded some   *)
(* time ago; both only ever err on the safe side, since the clock goes on  *)
(* and deadlines do not move.                                              *)
(***************************************************************************)
Missed == Rejected("ACKNOWLEDGEMENT_DEADLINE_MISSED")

WindowClosed(r) == Exists(rows[r]) /\ clock > rows[r].acknowledgeBy

Punctual ==
  /\ \A p \in Pods : sweep[p].now <= clock
  /\ \A p \in Pods, r \in Refs :
       Exists(sweep[p].loaded[r]) => WindowClosed(r)
  /\ \A r \in Refs : Recorded(r, Missed) => WindowClosed(r)

\* A unit of work neither moves a deadline nor removes a row, and appends
\* just its event.
LEMMA SaveKeepsWindow ==
  ASSUME Shape, NEW r \in Refs, NEW o \in Order, NEW e \in Event,
         SaveAndPublish(r, o, e), UNCHANGED clock
  PROVE  /\ \A s \in Refs : WindowClosed(s) => WindowClosed(s)'
         /\ \A s \in Refs : Recorded(s, Missed)' =>
              Recorded(s, Missed) \/ (s = r /\ e = Missed)
<1>1. \A s \in Refs : rows'[s] = IF s = r THEN Upsert(rows[r], o) ELSE rows[s]
  BY DEF SaveAndPublish, Shape, TypeOK
<1>2. ASSUME Exists(rows[r])
      PROVE  /\ Exists(Upsert(rows[r], o))
             /\ Upsert(rows[r], o).acknowledgeBy = rows[r].acknowledgeBy
  <2>1. rows[r] \in Order
    BY <1>2 DEF Exists, Shape, TypeOK, NoOrder
  <2> QED BY <1>2, <2>1 DEF Upsert, Exists, Order, State
<1>3. \A s \in Refs : WindowClosed(s) => WindowClosed(s)'
  BY <1>1, <1>2 DEF WindowClosed
<1>4. \A s \in Refs : Recorded(s, Missed)' =>
        Recorded(s, Missed) \/ (s = r /\ e = Missed)
  BY OutboxAppended DEF Shape, Missed, Rejected
<1> QED BY <1>3, <1>4

\* Every step keeps the sweeps punctual.
LEMMA PunctualStep == Shape /\ Punctual /\ [Next]_vars => Punctual'
<1> SUFFICES ASSUME Shape, Punctual, [Next]_vars PROVE Punctual'
  OBVIOUS
<1> USE DEF Stored, Process
<1>0. /\ clock \in Nat /\ sweep \in [Pods -> Sweep]
      /\ \A p \in Pods, r \in Refs : sweep[p].loaded[r] \in Order \cup {NoOrder}
      /\ \A r \in Refs : rows[r] \in Order \cup {NoOrder}
      /\ \A p \in Pods : sweep[p].now \in Nat
      /\ ~Exists(NoOrder)
  BY DEF Shape, TypeOK, Sweep, Exists, NoOrder
<1>1. ASSUME UNCHANGED <<clock, rows, events>>,
             \A p \in Pods : sweep'[p].now <= clock,
             \A p \in Pods, r \in Refs :
               Exists(sweep'[p].loaded[r]) => WindowClosed(r)
      PROVE  Punctual'
  BY <1>1 DEF Punctual, WindowClosed, Recorded
<1>2. ASSUME UNCHANGED <<clock, rows, events, sweep>> PROVE Punctual'
  BY <1>2 DEF Punctual, WindowClosed, Recorded
<1>3. CASE Tick
  <2>1. clock' = clock + 1 /\ UNCHANGED <<rows, events, sweep>>
    BY <1>3 DEF Tick
  <2>2. \A r \in Refs : WindowClosed(r) => WindowClosed(r)'
    BY <1>0, <2>1 DEF WindowClosed, Order, Exists, NoOrder
  <2> QED BY <1>0, <2>1, <2>2 DEF Punctual, Recorded
<1>4. ASSUME NEW p \in Pods, SaveReceived(p) PROVE Punctual'
  <2>1. unit[p].ref \in Refs /\ unit[p].order \in Order
    BY <1>4 DEF SaveReceived, Shape, UnitsCarry, Carries
  <2>2. Received \in Event /\ Received # Missed
    BY DEF Event, Received, Missed, Rejected
  <2>3. /\ SaveAndPublish(unit[p].ref, unit[p].order, Received)
        /\ UNCHANGED <<clock, sweep>>
    BY <1>4 DEF SaveReceived
  <2> QED BY <2>1, <2>2, <2>3, SaveKeepsWindow DEF Punctual
<1>5. ASSUME NEW p \in Pods, CommitAnswer(p) PROVE Punctual'
  <2>1. /\ unit[p].ref \in Refs /\ unit[p].order \in Order
        /\ unit[p].order.state \in {"ACKNOWLEDGED", "REJECTED"}
        /\ unit[p].order.state = "ACKNOWLEDGED" =>
             unit[p].local \in LocalIds /\ unit[p].local # NoLocal
    BY <1>5, OrderAssumption DEF CommitAnswer, Shape, UnitsCarry, Carries
  <2>2. AnswerEvent(unit[p]) \in Event
    BY <2>1 DEF AnswerEvent, Event, Reasons
  <2>3. AnswerEvent(unit[p]) # Missed
    BY <2>1 DEF AnswerEvent, Acknowledged, Missed, Rejected
  <2>4. /\ SaveAndPublish(unit[p].ref, unit[p].order, AnswerEvent(unit[p]))
        /\ UNCHANGED <<clock, sweep>>
    BY <1>5 DEF CommitAnswer
  <2> QED BY <2>1, <2>2, <2>3, <2>4, SaveKeepsWindow DEF Punctual
<1>6. ASSUME NEW p \in Pods, ListUnanswered(p) PROVE Punctual'
  <2>1. /\ \A q \in Pods : sweep'[q].loaded = sweep[q].loaded
        /\ \A q \in Pods : sweep'[q].now = IF q = p THEN clock ELSE sweep[q].now
    BY <1>0, <1>6 DEF ListUnanswered, Sweep
  <2> QED BY <1>0, <1>1, <1>6, <2>1 DEF ListUnanswered, Punctual
<1>7. ASSUME NEW p \in Pods, NEW r \in Refs, LoadListed(p, r) PROVE Punctual'
  <2> DEFINE o == IF AcknowledgementOverdue(rows[r], sweep[p].now)
                  THEN rows[r] ELSE NoOrder
  <2>1. Exists(o) => WindowClosed(r)
    BY <1>0 DEF AcknowledgementOverdue, WindowClosed, Punctual, Exists, Order,
                NoOrder
  <2>2. sweep' = [sweep EXCEPT ![p].listed = @ \ {r}, ![p].loaded[r] = o]
    BY <1>7 DEF LoadListed, FindByRef
  <2> HIDE DEF o
  <2>3. /\ \A q \in Pods : sweep'[q].now = sweep[q].now
        /\ \A q \in Pods, s \in Refs : sweep'[q].loaded[s] =
             IF q = p /\ s = r THEN o ELSE sweep[q].loaded[s]
    BY <1>0, <2>2 DEF Sweep
  <2>4. \A q \in Pods : sweep'[q].now <= clock
    BY <2>3 DEF Punctual
  <2>5. \A q \in Pods, s \in Refs :
          Exists(sweep'[q].loaded[s]) => WindowClosed(s)
    BY <2>1, <2>3 DEF Punctual
  <2>6. UNCHANGED <<clock, rows, events>>
    BY <1>7 DEF LoadListed
  <2> QED BY <1>1, <2>4, <2>5, <2>6
<1>8. ASSUME NEW p \in Pods, sweep' = [sweep EXCEPT ![p] = IdleSweep],
             UNCHANGED <<clock, rows, events>>
      PROVE  Punctual'
  <2>1. \A q \in Pods : sweep'[q] = IF q = p THEN IdleSweep ELSE sweep[q]
    BY <1>0, <1>8
  <2> QED BY <1>0, <1>1, <1>8, <2>1 DEF IdleSweep, Punctual
<1>9. ASSUME NEW p \in Pods, NEW r \in Refs, Passed(p, r)
      PROVE  /\ \A q \in Pods : sweep'[q].now = sweep[q].now
             /\ \A q \in Pods, s \in Refs :
                  Exists(sweep'[q].loaded[s]) => Exists(sweep[q].loaded[s])
  <2>1. \A q \in Pods, s \in Refs : sweep'[q].loaded[s] =
          IF q = p /\ s = r THEN NoOrder ELSE sweep[q].loaded[s]
    BY <1>0, <1>9 DEF Passed, Sweep
  <2>2. \A q \in Pods : sweep'[q].now = sweep[q].now
    BY <1>0, <1>9 DEF Passed, Sweep
  <2> QED BY <1>0, <2>1, <2>2
<1>10. ASSUME NEW p \in Pods, NEW r \in Refs, MissOne(p, r) PROVE Punctual'
  <2> DEFINE o == sweep[p].loaded[r]
  <2>1. /\ o \in Order /\ Reject(o) \in Order
        /\ WindowClosed(r) /\ Missed \in Event
    BY <1>10 DEF MissOne, Passed, Shape, LoadedUnanswered, Punctual, Reject,
                 Order, State, Missed, Event, Reasons
  <2>2. SaveAndPublish(r, Reject(o), Missed) /\ UNCHANGED clock
    BY <1>10 DEF MissOne, Missed
  <2> HIDE DEF o
  <2>3. /\ \A s \in Refs : WindowClosed(s) => WindowClosed(s)'
        /\ \A s \in Refs : Recorded(s, Missed)' =>
             Recorded(s, Missed) \/ s = r
    BY <2>1, <2>2, SaveKeepsWindow
  <2>4. Passed(p, r)
    BY <1>10 DEF MissOne
  <2> QED BY <1>9, <2>1, <2>2, <2>3, <2>4 DEF Punctual
<1>11. ASSUME NEW p \in Pods, NEW r \in Refs, MissFails(p, r) PROVE Punctual'
  BY <1>1, <1>9, <1>11 DEF MissFails, Punctual
<1>12. ASSUME NEW p \in Pods, LoadFails(p) \/ Restart(p) PROVE Punctual'
  BY <1>8, <1>12 DEF LoadFails, Restart
<1>13. ASSUME NEW p \in Pods,
              \/ PollDemand(p) \/ RaiseHeldOrder(p) \/ CancelHeldOrder(p)
              \/ SubmitAcknowledgement(p) \/ ReleaseHeldOrder(p)
              \/ CallFails(p)
       PROVE  Punctual'
  BY <1>2, <1>13 DEF PollDemand, RaiseHeldOrder, CancelHeldOrder,
     SubmitAcknowledgement, ReleaseHeldOrder, CallFails
<1>14. ASSUME NEW p \in Pods, NEW r \in Refs, PassOver(p, r) \/ TakeUp(p, r)
       PROVE  Punctual'
  BY <1>2, <1>14 DEF PassOver, TakeUp
<1>15. CASE UNCHANGED vars
  BY <1>2, <1>15 DEF vars
<1> QED BY <1>3, <1>4, <1>5, <1>6, <1>7, <1>10, <1>11, <1>12, <1>13, <1>14,
           <1>15 DEF Next, Step

\* No order is on record as missed before its window has closed.
THEOREM MissesAreReal == Spec => []MissedOnlyAfterDeadline
<1>1. Init => Punctual
  BY DEF Init, Punctual, IdleSweep, Recorded, Exists, NoOrder
<1>2. Shape /\ Punctual /\ [Next]_vars => Punctual'
  BY PunctualStep
<1>3. Punctual => MissedOnlyAfterDeadline
  BY DEF Punctual, WindowClosed, Missed, MissedOnlyAfterDeadline
<1> QED BY <1>1, <1>2, <1>3, ShapeInit, ShapeStep, PTL DEF Spec
=============================================================================
