------------------------ MODULE DevelopmentModeProofs ------------------------
(***************************************************************************)
(* Theorems about DevelopmentMode, for any demand, dictionary, faults,     *)
(* window and number of restarts.                                          *)
(***************************************************************************)
EXTENDS DevelopmentMode, SumTheorems

\* What the unit in flight has in hand.
UnitCarries ==
  /\ unit.pc = "idle" => unit = IdleUnit
  /\ unit.pc # "idle" => unit.ref \in Refs
  /\ unit.pc \in {"cancel", "link", "release"} => unit.local \in LocalIds
  /\ unit.pc \in {"link", "release"} => unit.feasible
  /\ unit.feasible => unit.local \in LocalIds

\* What the sweep has in hand.
SweepCarries ==
  /\ sweep.pc # "list" => sweep.ref \in Refs
  /\ sweep.pc = "cancel" => sweep.local \in LocalIds

Shape == TypeOK /\ UnitCarries /\ SweepCarries

\* The order behind a unit or a miss exists, and a hold belongs to the order
\* it was raised for.
Owned ==
  /\ unit.pc # "idle" => Exists(orders[unit.ref])
  /\ sweep.pc # "list" => Exists(orders[sweep.ref])
  /\ unit.local # NoLocal =>
       holds[unit.local].status # "free" /\ holds[unit.local].ref = unit.ref
  /\ \A l \in LocalIds : holds[l].status = "free" => holds[l].ref = NoRef

-----------------------------------------------------------------------------
\* Orders keep their shape, and one that exists goes on to.
LEMMA OrderShape ==
  /\ NoOrder \in [state : State \cup {Torn, "NONE"},
                  local : LocalIds \cup {NoLocal}, acknowledgeBy : Nat]
  /\ ~Exists(NoOrder)
  /\ \A o \in SharedOrder : Exists(o)
BY DEF NoOrder, SharedOrder, Exists, State, Torn

LEMMA ReceiptShape ==
  ASSUME NEW now \in Nat
  PROVE  /\ Receive(now) \in SharedOrder
         /\ ReceiveUntranslatable(now) = Receive(now)
         /\ Receive(now).state = "NEW"
         /\ Receive(now).acknowledgeBy = now + Window
BY OrderAssumption
DEF Receive, ReceiveUntranslatable, SharedOrder, State

\* A store changes the state of its order and nothing else.
LEMMA StoreShape ==
  ASSUME Shape, NEW r \in Refs, Exists(orders[r]), NEW s \in State,
         StoreState(r, s)
  PROVE  /\ orders' \in [Refs -> SharedOrder \cup {NoOrder}]
         /\ \A q \in Refs :
              /\ q # r => orders'[q] = orders[q]
              /\ Exists(orders[q]) => Exists(orders'[q])
              /\ orders'[q].acknowledgeBy = orders[q].acknowledgeBy
              /\ orders'[q].local = orders[q].local
         /\ orders'[r].state \in {s, Torn}
<1>1. orders \in [Refs -> SharedOrder \cup {NoOrder}]
  BY DEF Shape, TypeOK
<1>2. orders[r] \in SharedOrder
  BY <1>1, OrderShape
<1>3. PICK stored \in {s, Torn} :
         orders' = [orders EXCEPT ![r].state = stored]
  BY DEF StoreState
<1>4. orders' = [orders EXCEPT ![r] = [orders[r] EXCEPT !.state = stored]]
  BY <1>1, <1>3
<1>5. [orders[r] EXCEPT !.state = stored] \in SharedOrder
  BY <1>2, <1>3 DEF SharedOrder
<1>6. /\ [orders[r] EXCEPT !.state = stored].acknowledgeBy
           = orders[r].acknowledgeBy
      /\ [orders[r] EXCEPT !.state = stored].local = orders[r].local
      /\ [orders[r] EXCEPT !.state = stored].state = stored
  BY <1>2 DEF SharedOrder
<1> QED  BY <1>1, <1>3, <1>4, <1>5, <1>6, OrderShape

\* A publish only adds its event to the topics, to the integration topic
\* first, and to both when it reports no error.
LEMMA PublishShape ==
  ASSUME TypeOK, NEW r \in Refs, NEW e \in Event, NEW failed \in BOOLEAN,
         Publish(r, e, failed)
  PROVE  /\ written' \in [Topics -> [Refs -> SUBSET Event]]
         /\ \A t \in Topics, q \in Refs :
              /\ written[t][q] \subseteq written'[t][q]
              /\ written'[t][q] \subseteq
                   written[t][q] \cup (IF q = r THEN {e} ELSE {})
         /\ \A t \in Topics : ~failed => e \in written'[t][r]
         /\ e \in written'["analytics"][r] =>
              \/ e \in written["analytics"][r]
              \/ e \in written'["integration"][r]
<1>1. written \in [Topics -> [Refs -> SUBSET Event]]
  BY DEF TypeOK
<1>2. CASE UNCHANGED written /\ failed
  BY <1>1, <1>2
<1>3. CASE written' = Write("integration", r, e, written) /\ failed
  BY <1>1, <1>3 DEF Write, Topics
<1>4. CASE written' = Write("analytics", r, e,
                            Write("integration", r, e, written))
  BY <1>1, <1>4 DEF Write, Topics
<1> QED  BY <1>2, <1>3, <1>4 DEF Publish

\* What the unit publishes and tells is an event of its order.
LEMMA AnswerShape ==
  ASSUME Shape
  PROVE  /\ AnswerOf(unit) \in Answer
         /\ unit.feasible => AnswerOf(unit) = Acknowledged(unit.local)
         /\ Answer \subseteq Event /\ {Received, Missed} \subseteq Event
         /\ Received \notin Answer
         /\ Missed \notin Answer /\ Missed # Received
BY DEF Shape, UnitCarries, AnswerOf, Answer, Event, Acknowledged, Rejected,
       Missed, Received

\* A pass goes on with other orders, or ends.
LEMMA PassShape ==
  ASSUME Shape, NEW listed \in SUBSET Refs, NextOrder(listed)
  PROVE  sweep' \in Sweep /\ sweep'.pc = "list" /\ sweep'.now <= sweep.now
<1>1. sweep.now \in Nat
  BY DEF Shape, TypeOK, Sweep
<1>2. sweep' = IdleSweep
        \/ sweep' = [IdleSweep EXCEPT !.now = sweep.now, !.listed = listed]
  BY DEF NextOrder
<1>3. IdleSweep \in Sweep /\ IdleSweep.pc = "list" /\ IdleSweep.now = 0
  BY DEF Sweep, IdleSweep
<1>4. CASE sweep' = IdleSweep
  BY <1>1, <1>3, <1>4
<1>5. CASE sweep' = [IdleSweep EXCEPT !.now = sweep.now, !.listed = listed]
  <2>1. sweep' = [pc |-> "list", now |-> sweep.now, listed |-> listed,
                  ref |-> NoRef, local |-> NoLocal]
    BY <1>5 DEF IdleSweep
  <2>2. sweep' \in Sweep
    BY <1>1, <2>1 DEF Sweep
  <2>3. sweep'.pc = "list" /\ sweep'.now = sweep.now
    BY <2>1
  <2> QED  BY <1>1, <2>2, <2>3
<1> QED  BY <1>2, <1>4, <1>5

-----------------------------------------------------------------------------
LEMMA ShapeInit == Init => Shape
<1> SUFFICES ASSUME Init PROVE Shape
  OBVIOUS
<1>1. /\ IdleUnit \in Unit /\ IdleUnit.pc = "idle" /\ ~IdleUnit.feasible
      /\ IdleSweep \in Sweep /\ IdleSweep.pc = "list"
  BY DEF IdleUnit, Unit, IdleSweep, Sweep
<1>2. orders \in [Refs -> SharedOrder \cup {NoOrder}]
  BY DEF Init
<1>3. holds \in [LocalIds -> Hold]
  BY DEF Init, Hold
<1>4. 0 \in 0 .. MaxRestarts /\ 0 \in Nat
  BY DevelopmentAssumption
<1> QED
  BY <1>1, <1>2, <1>3, <1>4
  DEF Init, Shape, TypeOK, UnitCarries, SweepCarries

\* One step of the unit keeps the shape.
LEMMA UnitShape ==
  ASSUME Shape, Owned, Step
  PROVE  Shape'
<1> USE DEF Shape
<1>1. /\ TypeOK /\ UnitCarries /\ SweepCarries
      /\ IdleUnit \in Unit /\ IdleUnit.pc = "idle" /\ ~IdleUnit.feasible
  BY DEF IdleUnit, Unit
<1>2. CASE PublishReceived
  <2>1. /\ unit.ref \in Refs /\ unit.pc = "announce"
        /\ \E failed \in BOOLEAN : Publish(unit.ref, Received, failed)
    BY <1>1, <1>2 DEF PublishReceived, UnitCarries
  <2>2. written' \in [Topics -> [Refs -> SUBSET Event]]
    BY <1>1, <2>1, PublishShape, AnswerShape
  <2>3. unit' \in Unit /\ UnitCarries'
    BY <1>1, <1>2, <2>1
    DEF PublishReceived, Return, UnitCarries, Unit, TypeOK
  <2> QED
    BY <1>1, <1>2, <2>2, <2>3
    DEF PublishReceived, Process, TypeOK, SweepCarries
<1>3. CASE RaiseHeldOrder
  <2>1. PICK l \in LocalIds, feasible \in BOOLEAN :
          /\ holds' = [holds EXCEPT ![l] =
               [ref |-> unit.ref, status |-> "held", lines |-> Asked[unit.ref]]]
          /\ \/ unit' = [unit EXCEPT !.local = l, !.feasible = feasible,
                           !.pc = IF feasible THEN "check" ELSE "cancel"]
             \/ Return
    BY <1>3 DEF RaiseHeldOrder
  <2>2. unit.ref \in Refs
    BY <1>1, <1>3 DEF RaiseHeldOrder, UnitCarries
  <2>3. holds' \in [LocalIds -> Hold]
    BY <1>1, <2>1, <2>2 DEF Hold, TypeOK
  <2>4. unit' \in Unit /\ UnitCarries'
    BY <1>1, <2>1, <2>2 DEF Return, UnitCarries, Unit, TypeOK
  <2> QED
    BY <1>1, <1>3, <2>3, <2>4
    DEF RaiseHeldOrder, Process, TypeOK, SweepCarries
<1>4. CASE CancelHeldOrder
  <2>1. unit.ref \in Refs /\ unit.local \in LocalIds
    BY <1>1, <1>4 DEF CancelHeldOrder, UnitCarries
  <2>2. holds' \in [LocalIds -> Hold]
    BY <1>1, <1>4, <2>1 DEF CancelHeldOrder, Hold, TypeOK
  <2>3. unit' \in Unit /\ UnitCarries'
    BY <1>1, <1>4, <2>1
    DEF CancelHeldOrder, Return, UnitCarries, Unit, TypeOK
  <2> QED
    BY <1>1, <1>4, <2>2, <2>3
    DEF CancelHeldOrder, Process, TypeOK, SweepCarries
<1>5. CASE CheckUnanswered
  <2>1. unit' \in Unit /\ UnitCarries'
    BY <1>1, <1>5 DEF CheckUnanswered, Return, UnitCarries, Unit, TypeOK
  <2> QED
    BY <1>1, <1>5, <2>1
    DEF CheckUnanswered, Process, Outside, TypeOK, SweepCarries
<1>6. CASE StoreAnswer
  <2>1. unit.ref \in Refs /\ Exists(orders[unit.ref])
    BY <1>1, <1>6 DEF StoreAnswer, UnitCarries, Owned
  <2>2. orders[unit.ref] \in SharedOrder
    BY <1>1, <2>1, OrderShape DEF TypeOK
  <2>3. /\ Acknowledge(orders[unit.ref]).state \in State
        /\ Reject(orders[unit.ref]).state \in State
    BY <2>2 DEF Acknowledge, Reject, SharedOrder, State
  <2>4. orders' \in [Refs -> SharedOrder \cup {NoOrder}]
    BY <1>1, <1>6, <2>1, <2>3, StoreShape DEF StoreAnswer
  <2>5. unit' \in Unit /\ UnitCarries'
    BY <1>1, <1>6 DEF StoreAnswer, UnitCarries, Unit, TypeOK
  <2> QED
    BY <1>1, <1>6, <2>4, <2>5
    DEF StoreAnswer, Process, Outside, TypeOK, SweepCarries
<1>7. CASE LinkOrder
  <2>1. unit.ref \in Refs /\ unit.local \in LocalIds
    BY <1>1, <1>7 DEF LinkOrder, UnitCarries
  <2>2. orders[unit.ref] \in SharedOrder
    BY <1>1, <1>7, <2>1, OrderShape DEF TypeOK, Owned, LinkOrder
  <2>3. LinkLocalOrder(orders[unit.ref], unit.local) \in SharedOrder
    BY <2>1, <2>2 DEF LinkLocalOrder, SharedOrder
  <2>4. orders' \in [Refs -> SharedOrder \cup {NoOrder}]
    BY <1>1, <1>7, <2>1, <2>3 DEF LinkOrder, TypeOK
  <2>5. unit' \in Unit /\ UnitCarries'
    BY <1>1, <1>7 DEF LinkOrder, Return, UnitCarries, Unit, TypeOK
  <2> QED
    BY <1>1, <1>7, <2>4, <2>5
    DEF LinkOrder, Process, Outside, TypeOK, SweepCarries
<1>8. CASE PublishAnswer
  <2>1. /\ unit.ref \in Refs /\ AnswerOf(unit) \in Event
        /\ \E failed \in BOOLEAN : Publish(unit.ref, AnswerOf(unit), failed)
    BY <1>1, <1>8, AnswerShape DEF PublishAnswer, UnitCarries
  <2>2. written' \in [Topics -> [Refs -> SUBSET Event]]
    BY <1>1, <2>1, PublishShape
  <2>3. unit' \in Unit /\ UnitCarries'
    BY <1>1, <1>8, <2>1 DEF PublishAnswer, Return, UnitCarries, Unit, TypeOK
  <2> QED
    BY <1>1, <1>8, <2>2, <2>3
    DEF PublishAnswer, Process, TypeOK, SweepCarries
<1>9. CASE SubmitAcknowledgement
  <2>1. unit.ref \in Refs /\ AnswerOf(unit) \in Answer
    BY <1>1, <1>9, AnswerShape DEF SubmitAcknowledgement, UnitCarries
  <2>2. told' \in [Refs -> SUBSET Answer] /\ pending' \subseteq Refs
    BY <1>1, <1>9, <2>1 DEF SubmitAcknowledgement, TypeOK
  <2>3. unit' \in Unit /\ UnitCarries'
    BY <1>1, <1>9, <2>1
    DEF SubmitAcknowledgement, Return, UnitCarries, Unit, TypeOK
  <2> QED
    BY <1>1, <1>9, <2>2, <2>3
    DEF SubmitAcknowledgement, TypeOK, SweepCarries
<1>10. CASE ReleaseHeldOrder
  <2>1. unit.local \in LocalIds
    BY <1>1, <1>10 DEF ReleaseHeldOrder, UnitCarries
  <2>2. holds' \in [LocalIds -> Hold]
    BY <1>1, <1>10, <2>1 DEF ReleaseHeldOrder, Hold, TypeOK
  <2> QED
    BY <1>1, <1>10, <2>2
    DEF ReleaseHeldOrder, Return, Process, TypeOK, UnitCarries, SweepCarries
<1>11. CASE CallFails
  BY <1>1, <1>11
  DEF CallFails, Return, Process, Outside, TypeOK, UnitCarries, SweepCarries
<1> QED
  BY <1>2, <1>3, <1>4, <1>5, <1>6, <1>7, <1>8, <1>9, <1>10, <1>11 DEF Step

\* One step of the sweep keeps the shape.
LEMMA SweepShape ==
  ASSUME Shape, Owned, SweepStep
  PROVE  Shape'
<1> USE DEF Shape
<1>1. /\ TypeOK /\ UnitCarries /\ SweepCarries
      /\ sweep \in Sweep /\ sweep.listed \subseteq Refs
  BY DEF TypeOK, Sweep
<1>2. CASE ListUnanswered
  <2>1. sweep' \in Sweep /\ SweepCarries'
    BY <1>1, <1>2 DEF ListUnanswered, SweepCarries, Sweep, TypeOK
  <2> QED
    BY <1>1, <1>2, <2>1
    DEF ListUnanswered, Process, Outside, TypeOK, UnitCarries
<1>3. ASSUME NEW r \in Refs, ExamineOrder(r)
      PROVE  Shape'
  <2>1. CASE AcknowledgementOverdue(orders[r], sweep.now)
    <3>1. sweep' \in Sweep /\ SweepCarries'
      BY <1>1, <1>3, <2>1 DEF ExamineOrder, SweepCarries, Sweep
    <3> QED
      BY <1>1, <1>3, <3>1
      DEF ExamineOrder, Process, Outside, TypeOK, UnitCarries
  <2>2. CASE ~AcknowledgementOverdue(orders[r], sweep.now)
    <3>1. NextOrder(sweep.listed \ {r})
      BY <1>3, <2>2 DEF ExamineOrder
    <3>2. sweep' \in Sweep /\ sweep'.pc = "list"
      BY <1>1, <3>1, PassShape
    <3> QED
      BY <1>1, <1>3, <3>2
      DEF ExamineOrder, Process, Outside, TypeOK, UnitCarries, SweepCarries
  <2> QED  BY <2>1, <2>2
<1>4. CASE ReadLink
  <2>1. sweep.ref \in Refs /\ orders[sweep.ref].local \in LocalIds \cup {NoLocal}
    BY <1>1, <1>4, OrderShape
    DEF ReadLink, SweepCarries, TypeOK, Owned, SharedOrder
  <2>2. sweep' \in Sweep /\ SweepCarries'
    BY <1>1, <1>4, <2>1 DEF ReadLink, SweepCarries, Sweep
  <2> QED
    BY <1>1, <1>4, <2>2 DEF ReadLink, Process, Outside, TypeOK, UnitCarries
<1>5. CASE MissCancelsHold
  <2>1. sweep.ref \in Refs /\ sweep.local \in LocalIds
    BY <1>1, <1>5 DEF MissCancelsHold, SweepCarries
  <2>2. holds' \in [LocalIds -> Hold]
    <3>1. [holds EXCEPT ![sweep.local].status = "cancelled"]
            \in [LocalIds -> Hold]
      BY <1>1, <2>1 DEF Hold, TypeOK
    <3>2. holds' \in
            {holds, [holds EXCEPT ![sweep.local].status = "cancelled"]}
      BY <1>5 DEF MissCancelsHold
    <3> QED  BY <1>1, <3>1, <3>2 DEF TypeOK
  <2>3. sweep' \in Sweep /\ SweepCarries'
    BY <1>1, <1>5, <2>1, PassShape DEF MissCancelsHold, SweepCarries, Sweep
  <2> QED
    BY <1>1, <1>5, <2>2, <2>3
    DEF MissCancelsHold, Process, TypeOK, UnitCarries
<1>6. CASE MissChecks
  <2>1. sweep' \in Sweep /\ SweepCarries'
    BY <1>1, <1>6, PassShape DEF MissChecks, SweepCarries, Sweep
  <2> QED
    BY <1>1, <1>6, <2>1 DEF MissChecks, Process, Outside, TypeOK, UnitCarries
<1>7. CASE MissStores
  <2>1. sweep.ref \in Refs /\ Exists(orders[sweep.ref])
    BY <1>1, <1>7 DEF MissStores, SweepCarries, Owned
  <2>2. orders[sweep.ref] \in SharedOrder
    BY <1>1, <2>1, OrderShape DEF TypeOK
  <2>3. Reject(orders[sweep.ref]).state \in State
    BY <2>2 DEF Reject, SharedOrder, State
  <2>4. orders' \in [Refs -> SharedOrder \cup {NoOrder}]
    BY <1>1, <1>7, <2>1, <2>3, StoreShape DEF MissStores
  <2>5. sweep' \in Sweep /\ SweepCarries'
    BY <1>1, <1>7 DEF MissStores, SweepCarries, Sweep
  <2> QED
    BY <1>1, <1>7, <2>4, <2>5
    DEF MissStores, Process, Outside, TypeOK, UnitCarries
<1>8. CASE MissPublishes
  <2>1. /\ sweep.ref \in Refs
        /\ \E failed \in BOOLEAN : Publish(sweep.ref, Missed, failed)
    BY <1>1, <1>8 DEF MissPublishes, SweepCarries
  <2>2. written' \in [Topics -> [Refs -> SUBSET Event]]
    BY <1>1, <2>1, PublishShape, AnswerShape
  <2>3. sweep' \in Sweep /\ sweep'.pc = "list"
    BY <1>1, <1>8, PassShape DEF MissPublishes
  <2> QED
    BY <1>1, <1>8, <2>2, <2>3
    DEF MissPublishes, Process, TypeOK, UnitCarries, SweepCarries
<1> QED  BY <1>2, <1>3, <1>4, <1>5, <1>6, <1>7, <1>8 DEF SweepStep

-----------------------------------------------------------------------------
\* The unit goes on with its order or is done with it.
LEMMA UnitMoves ==
  ASSUME Shape, Step
  PROVE  /\ unit.pc # "idle" /\ unit.ref \in Refs
         /\ unit' = IdleUnit \/ (unit'.ref = unit.ref /\ unit'.pc # "idle")
         /\ unit'.local \in {unit.local, NoLocal} \/ RaiseHeldOrder
         /\ UNCHANGED <<clock, sweep, batch, restarts, late>>
<1>1. unit \in Unit /\ UnitCarries
  BY DEF Shape, TypeOK
<1>2. ASSUME NEW pc, pc # "idle", unit' = [unit EXCEPT !.pc = pc] \/ Return
      PROVE  /\ unit' = IdleUnit \/ (unit'.ref = unit.ref /\ unit'.pc # "idle")
             /\ unit'.local \in {unit.local, NoLocal}
  BY <1>1, <1>2 DEF Return, Unit, IdleUnit
<1>3. CASE PublishReceived
  <2>1. \E pc \in {"raise", "check"} :
          unit' = [unit EXCEPT !.pc = pc] \/ Return
    BY <1>3 DEF PublishReceived
  <2> QED
    BY <1>1, <1>2, <1>3, <2>1 DEF PublishReceived, Process, UnitCarries
<1>4. CASE CancelHeldOrder \/ PublishAnswer \/ CheckUnanswered \/ LinkOrder
  <2>1. \E pc \in {"check", "submit", "store", "publish"} :
          unit' = [unit EXCEPT !.pc = pc] \/ Return
    BY <1>4
    DEF CancelHeldOrder, PublishAnswer, CheckUnanswered, LinkOrder
  <2> QED
    BY <1>1, <1>2, <1>4, <2>1
    DEF CancelHeldOrder, PublishAnswer, CheckUnanswered, LinkOrder,
        Outside, Process, UnitCarries
<1>5. CASE RaiseHeldOrder
  BY <1>1, <1>5 DEF RaiseHeldOrder, Return, Process, Unit, UnitCarries
<1>6. CASE \/ StoreAnswer \/ SubmitAcknowledgement \/ ReleaseHeldOrder
           \/ CallFails
  BY <1>1, <1>6, DevelopmentAssumption
  DEF StoreAnswer, SubmitAcknowledgement, ReleaseHeldOrder, CallFails,
      Return, Process, Unit, UnitCarries, IdleUnit
<1> QED  BY <1>5, <1>6, <1>3, <1>4 DEF Step

\* The sweep goes on with its order, takes an overdue one, or lists.
LEMMA SweepMoves ==
  ASSUME Shape, SweepStep
  PROVE  /\ \/ sweep'.pc = "list" /\ sweep'.now \in {sweep.now, clock, 0}
            \/ sweep.pc # "list" /\ sweep'.ref = sweep.ref
                 /\ sweep'.now = sweep.now
            \/ /\ sweep'.ref \in Refs /\ sweep'.now = sweep.now
               /\ sweep'.pc = "link"
               /\ AcknowledgementOverdue(orders[sweep'.ref], sweep.now)
         /\ UNCHANGED <<clock, unit, told, pending, batch, restarts, late>>
<1>1. sweep \in Sweep /\ SweepCarries
  BY DEF Shape, TypeOK
<1>2. ASSUME NEW listed, NextOrder(listed)
      PROVE  sweep'.pc = "list" /\ sweep'.now \in {sweep.now, 0}
  BY <1>2 DEF NextOrder, IdleSweep
<1>3. CASE ListUnanswered
  BY <1>1, <1>3 DEF ListUnanswered, Outside, Process, Sweep
<1>4. ASSUME NEW r \in Refs, ExamineOrder(r)
      PROVE  \/ sweep'.pc = "list" /\ sweep'.now \in {sweep.now, 0}
             \/ /\ sweep'.ref \in Refs /\ sweep'.now = sweep.now
                /\ sweep'.pc = "link"
                /\ AcknowledgementOverdue(orders[sweep'.ref], sweep.now)
  BY <1>1, <1>2, <1>4 DEF ExamineOrder, Sweep
<1>5. CASE ReadLink \/ MissStores
  BY <1>1, <1>5 DEF ReadLink, MissStores, Outside, Process, Sweep
<1>6. CASE MissCancelsHold \/ MissChecks \/ MissPublishes
  BY <1>1, <1>2, <1>6
  DEF MissCancelsHold, MissChecks, MissPublishes, Outside, Process, Sweep
<1> QED
  BY <1>3, <1>4, <1>5, <1>6 DEF SweepStep, ExamineOrder, Outside, Process

\* The map keeps its orders and their deadlines.
LEMMA OrdersStay ==
  ASSUME Shape, Owned, Step \/ SweepStep, NEW q \in Refs
  PROVE  /\ Exists(orders[q]) => Exists(orders'[q])
         /\ orders'[q].acknowledgeBy = orders[q].acknowledgeBy
         /\ \/ orders'[q].state = orders[q].state
            \/ StoreAnswer /\ q = unit.ref
            \/ MissStores /\ q = sweep.ref
<1>1. orders \in [Refs -> SharedOrder \cup {NoOrder}]
  BY DEF Shape, TypeOK
<1>2. CASE UNCHANGED orders
  BY <1>2
<1>3. CASE StoreAnswer
  <2>1. unit.ref \in Refs /\ Exists(orders[unit.ref])
    BY <1>3 DEF StoreAnswer, Shape, UnitCarries, Owned
  <2>2. orders[unit.ref] \in SharedOrder
    BY <1>1, <2>1, OrderShape
  <2>3. /\ Acknowledge(orders[unit.ref]).state \in State
        /\ Reject(orders[unit.ref]).state \in State
    BY <2>2 DEF Acknowledge, Reject, SharedOrder, State
  <2> QED  BY <1>3, <2>1, <2>3, StoreShape DEF StoreAnswer
<1>4. CASE LinkOrder
  <2>1. CASE orders' = [orders EXCEPT ![unit.ref] =
                          LinkLocalOrder(@, unit.local)]
    <3>1. unit.ref \in Refs /\ Exists(orders[unit.ref])
      BY <1>4 DEF LinkOrder, Shape, UnitCarries, Owned
    <3>2. orders[unit.ref] \in SharedOrder
      BY <1>1, <3>1, OrderShape
    <3>3. /\ LinkLocalOrder(orders[unit.ref], unit.local).state
               = orders[unit.ref].state
          /\ LinkLocalOrder(orders[unit.ref], unit.local).acknowledgeBy
               = orders[unit.ref].acknowledgeBy
      BY <3>2 DEF LinkLocalOrder, SharedOrder
    <3> QED  BY <1>1, <2>1, <3>1, <3>3 DEF Exists
  <2> QED  BY <1>4, <2>1 DEF LinkOrder
<1>5. CASE MissStores
  <2>1. sweep.ref \in Refs /\ Exists(orders[sweep.ref])
    BY <1>5 DEF MissStores, Shape, SweepCarries, Owned
  <2>2. orders[sweep.ref] \in SharedOrder
    BY <1>1, <2>1, OrderShape
  <2>3. Reject(orders[sweep.ref]).state \in State
    BY <2>2 DEF Reject, SharedOrder, State
  <2> QED  BY <1>5, <2>1, <2>3, StoreShape DEF MissStores
<1> QED
  BY <1>2, <1>3, <1>4, <1>5
  DEF Step, SweepStep, PublishReceived, RaiseHeldOrder, CancelHeldOrder,
      CheckUnanswered, PublishAnswer, SubmitAcknowledgement,
      ReleaseHeldOrder, CallFails, ListUnanswered, ExamineOrder, ReadLink,
      MissCancelsHold, MissChecks, MissPublishes

\* A hold keeps its order and never becomes free again; only the unit raises
\* one, and only its last step releases one.
LEMMA HoldsStay ==
  ASSUME Shape, SweepStep \/ (Step /\ ~RaiseHeldOrder), NEW l \in LocalIds
  PROVE  /\ holds'[l].ref = holds[l].ref
         /\ holds'[l].status = "free" => holds[l].status = "free"
         /\ holds'[l].status = "released" =>
              \/ holds[l].status = "released"
              \/ ReleaseHeldOrder /\ l = unit.local
<1>1. holds \in [LocalIds -> Hold]
  BY DEF Shape, TypeOK
<1>2. holds[l] \in Hold
  BY <1>1
<1>3. CASE UNCHANGED holds
  BY <1>3
<1>4. ASSUME NEW k, NEW s \in {"cancelled", "released"},
             holds' = [holds EXCEPT ![k].status = s]
      PROVE  /\ holds'[l].ref = holds[l].ref
             /\ holds'[l].status = "free" => holds[l].status = "free"
             /\ holds'[l].status = "released" =>
                  holds[l].status = "released" \/ (s = "released" /\ l = k)
  BY <1>1, <1>2, <1>4 DEF Hold
<1>5. CASE CancelHeldOrder
  BY <1>4, <1>5 DEF CancelHeldOrder
<1>6. CASE ReleaseHeldOrder
  BY <1>4, <1>6 DEF ReleaseHeldOrder
<1>7. CASE MissCancelsHold
  BY <1>3, <1>4, <1>7 DEF MissCancelsHold
<1> QED
  BY <1>3, <1>5, <1>6, <1>7
  DEF Step, SweepStep, PublishReceived, CheckUnanswered, StoreAnswer,
      LinkOrder, PublishAnswer, SubmitAcknowledgement, CallFails, Outside,
      ListUnanswered, ExamineOrder, ReadLink, MissChecks, MissStores,
      MissPublishes

\* The order raised is one that was free.
LEMMA RaiseShape ==
  ASSUME Shape, Owned, RaiseHeldOrder
  PROVE  /\ unit.pc = "raise" /\ unit.ref \in Refs /\ unit.ref # NoRef
         /\ \E l \in LocalIds :
              /\ holds[l].ref = NoRef
              /\ unit'.local \in {l, NoLocal}
              /\ \A k \in LocalIds :
                   IF k = l THEN /\ holds'[k].ref = unit.ref
                                 /\ holds'[k].status = "held"
                                 /\ holds'[k].lines = Asked[unit.ref]
                   ELSE holds'[k] = holds[k]
<1>1. holds \in [LocalIds -> Hold] /\ unit \in Unit
  BY DEF Shape, TypeOK
<1>2. unit.pc = "raise" /\ unit.ref \in Refs /\ unit.ref # NoRef
  BY DevelopmentAssumption DEF RaiseHeldOrder, Shape, UnitCarries
<1>3. PICK l \in LocalIds, feasible \in BOOLEAN :
        /\ NextId(l)
        /\ holds' = [holds EXCEPT ![l] =
             [ref |-> unit.ref, status |-> "held", lines |-> Asked[unit.ref]]]
        /\ \/ unit' = [unit EXCEPT !.local = l, !.feasible = feasible,
                         !.pc = IF feasible THEN "check" ELSE "cancel"]
           \/ Return
  BY DEF RaiseHeldOrder
<1>4. holds[l].ref = NoRef
  <2>1. l >= l
    BY <1>3, DevelopmentAssumption
  <2> QED  BY <1>3, <2>1 DEF NextId, Owned
<1>5. unit'.local \in {l, NoLocal}
  <2>1. CASE Return
    BY <2>1 DEF Return, IdleUnit
  <2>2. ASSUME NEW pc,
               unit' = [unit EXCEPT !.local = l, !.feasible = feasible,
                          !.pc = pc]
        PROVE  unit'.local = l
    BY <1>1, <2>2 DEF Unit
  <2> QED  BY <1>3, <2>1, <2>2
<1>6. \A k \in LocalIds :
        IF k = l THEN /\ holds'[k].ref = unit.ref
                      /\ holds'[k].status = "held"
                      /\ holds'[k].lines = Asked[unit.ref]
        ELSE holds'[k] = holds[k]
  BY <1>1, <1>3
<1> QED  BY <1>2, <1>4, <1>5, <1>6

-----------------------------------------------------------------------------
\* A demand that becomes an order had none.
LEMMA TakeUpShape ==
  ASSUME Shape, NEW r \in Refs, TakeUp(r)
  PROVE  /\ orders' = [orders EXCEPT ![r] = Receive(clock)]
         /\ Receive(clock) \in SharedOrder /\ ~Exists(orders[r])
         /\ clock <= Receive(clock).acknowledgeBy
         /\ unit.pc = "idle" /\ unit.local = NoLocal /\ ~unit.feasible
         /\ unit' = [IdleUnit EXCEPT !.pc = "announce", !.ref = r]
         /\ UNCHANGED <<clock, written, holds, told, pending, sweep,
                        restarts, late>>
<1>1. clock \in Nat /\ unit.pc = "idle" /\ unit = IdleUnit
  BY DEF Shape, TypeOK, UnitCarries, TakeUp
<1>2. /\ Receive(clock) \in SharedOrder
      /\ ReceiveUntranslatable(clock) = Receive(clock)
  BY <1>1, ReceiptShape
<1>3. clock <= Receive(clock).acknowledgeBy
  BY <1>1, OrderAssumption, ReceiptShape
<1> QED
  BY <1>1, <1>2, <1>3
  DEF TakeUp, FindByRef, Outside, IdleUnit

LEMMA ShapeStep == Shape /\ Owned /\ [Next]_vars => Shape'
<1> SUFFICES ASSUME Shape, Owned, [Next]_vars PROVE Shape'
  OBVIOUS
<1>1. TypeOK /\ UnitCarries /\ SweepCarries
  BY DEF Shape
<1>2. CASE Tick
  BY <1>1, <1>2
  DEF Tick, Shape, TypeOK, UnitCarries, SweepCarries, Outside
<1>3. CASE Restart
  <2>1. /\ IdleUnit \in Unit /\ IdleUnit.pc = "idle" /\ ~IdleUnit.feasible
        /\ IdleSweep \in Sweep /\ IdleSweep.pc = "list"
    BY DEF IdleUnit, Unit, IdleSweep, Sweep
  <2>2. restarts' \in 0 .. MaxRestarts
    BY <1>1, <1>3, DevelopmentAssumption DEF Restart, TypeOK
  <2>3. orders' \in [Refs -> SharedOrder \cup {NoOrder}]
    BY <1>3 DEF Restart
  <2> QED
    BY <1>1, <1>3, <2>1, <2>2, <2>3
    DEF Restart, Shape, TypeOK, UnitCarries, SweepCarries, Outside
<1>4. CASE PollDemand
  BY <1>1, <1>4
  DEF PollDemand, Shape, TypeOK, UnitCarries, SweepCarries, Outside
<1>5. ASSUME NEW r \in Refs, PassOver(r)
      PROVE  Shape'
  BY <1>1, <1>5
  DEF PassOver, Shape, TypeOK, UnitCarries, SweepCarries, Outside
<1>6. ASSUME NEW r \in Refs, TakeUp(r)
      PROVE  Shape'
  <2>1. orders' \in [Refs -> SharedOrder \cup {NoOrder}]
    BY <1>1, <1>6, TakeUpShape DEF TypeOK
  <2>2. unit' \in Unit /\ UnitCarries'
    BY <1>1, <1>6, TakeUpShape DEF Unit, UnitCarries, IdleUnit
  <2>3. batch' \subseteq Refs
    BY <1>1, <1>6 DEF TakeUp, TypeOK
  <2> QED
    BY <1>1, <1>6, <2>1, <2>2, <2>3, TakeUpShape
    DEF Shape, TypeOK, SweepCarries
<1>7. CASE UNCHANGED vars
  BY <1>1, <1>7 DEF vars, Shape, TypeOK, UnitCarries, SweepCarries
<1> QED
  BY <1>2, <1>3, <1>4, <1>5, <1>6, <1>7, UnitShape, SweepShape
  DEF Next, Receives

LEMMA OwnedInit == Init => Owned
BY DEF Init, Owned, IdleUnit, IdleSweep

LEMMA OwnedStep == Shape /\ Owned /\ [Next]_vars => Owned'
<1> SUFFICES ASSUME Shape, Owned, [Next]_vars PROVE Owned'
  OBVIOUS
<1>1. /\ orders \in [Refs -> SharedOrder \cup {NoOrder}]
      /\ unit \in Unit /\ UnitCarries /\ SweepCarries
      /\ NoLocal \notin LocalIds
  BY OrderAssumption DEF Shape, TypeOK
<1>2. CASE Tick \/ PollDemand \/ UNCHANGED vars
  BY <1>2 DEF Tick, PollDemand, vars, Outside, Owned
<1>3. ASSUME NEW r \in Refs, PassOver(r)
      PROVE  Owned'
  BY <1>3 DEF PassOver, Outside, Owned
<1>4. CASE Restart
  BY <1>4 DEF Restart, Outside, Owned, IdleUnit, IdleSweep
<1>5. ASSUME NEW r \in Refs, TakeUp(r)
      PROVE  Owned'
  <2>1. /\ orders' = [orders EXCEPT ![r] = Receive(clock)]
        /\ Exists(Receive(clock)) /\ UNCHANGED <<holds, sweep>>
        /\ unit'.ref = r /\ unit'.local = NoLocal
    BY <1>5, TakeUpShape, OrderShape DEF IdleUnit
  <2> QED  BY <1>1, <2>1 DEF Owned, SweepCarries
<1>6. CASE Step /\ ~RaiseHeldOrder
  <2>1. /\ unit.pc # "idle" /\ unit.ref \in Refs /\ sweep' = sweep
        /\ unit' = IdleUnit \/ (unit'.ref = unit.ref /\ unit'.pc # "idle")
        /\ unit'.local \in {unit.local, NoLocal}
    BY <1>6, UnitMoves
  <2>2. \A q \in Refs : Exists(orders[q]) => Exists(orders'[q])
    BY <1>6, OrdersStay
  <2>3. \A l \in LocalIds :
          /\ holds'[l].ref = holds[l].ref
          /\ holds'[l].status = "free" => holds[l].status = "free"
    BY <1>6, HoldsStay
  <2>4. unit.local \in LocalIds \cup {NoLocal}
    BY <1>1 DEF Unit
  <2> QED
    BY <1>1, <2>1, <2>2, <2>3, <2>4 DEF Owned, SweepCarries, IdleUnit
<1>7. CASE RaiseHeldOrder
  <2>1. /\ unit.pc # "idle" /\ unit.ref \in Refs /\ sweep' = sweep
        /\ unit' = IdleUnit \/ (unit'.ref = unit.ref /\ unit'.pc # "idle")
    BY <1>7, UnitMoves DEF Step
  <2>2. orders' = orders
    BY <1>7 DEF RaiseHeldOrder
  <2>3. PICK l \in LocalIds :
          /\ holds[l].ref = NoRef
          /\ unit'.local \in {l, NoLocal}
          /\ \A k \in LocalIds :
               IF k = l THEN holds'[k].ref = unit.ref /\ holds'[k].status = "held"
               ELSE holds'[k] = holds[k]
    BY <1>7, RaiseShape
  <2> QED
    BY <1>1, <2>1, <2>2, <2>3 DEF Owned, SweepCarries, IdleUnit
<1>8. CASE SweepStep
  <2>1. /\ UNCHANGED unit
        /\ \/ sweep'.pc = "list"
           \/ sweep.pc # "list" /\ sweep'.ref = sweep.ref
           \/ /\ sweep'.ref \in Refs
              /\ AcknowledgementOverdue(orders[sweep'.ref], sweep.now)
    BY <1>8, SweepMoves
  <2>2. \A q \in Refs : Exists(orders[q]) => Exists(orders'[q])
    BY <1>8, OrdersStay
  <2>3. \A l \in LocalIds :
          /\ holds'[l].ref = holds[l].ref
          /\ holds'[l].status = "free" => holds[l].status = "free"
    BY <1>8, HoldsStay
  <2>4. unit.local \in LocalIds \cup {NoLocal}
    BY <1>1 DEF Unit
  <2>5. sweep'.pc # "list" => Exists(orders'[sweep'.ref])
    BY <1>1, <2>1, <2>2
    DEF Owned, SweepCarries, AcknowledgementOverdue, Exists
  <2> QED  BY <1>1, <2>1, <2>2, <2>3, <2>4, <2>5 DEF Owned, UnitCarries
<1> QED
  BY <1>2, <1>3, <1>4, <1>5, <1>6, <1>7, <1>8 DEF Next, Receives

Inv == Shape /\ Owned

LEMMA InvAlways == Spec => []Inv
<1>1. Init => Inv
  BY ShapeInit, OwnedInit DEF Inv
<1>2. Inv /\ [Next]_vars => Inv'
  BY ShapeStep, OwnedStep DEF Inv
<1> QED  BY <1>1, <1>2, PTL DEF Spec

\* Every variable keeps its shape, whatever the unit and the sweep do to an
\* order at once.
THEOREM TypeCorrect == Spec => []TypeOK
<1>1. Inv => TypeOK
  BY DEF Inv, Shape
<1> QED  BY <1>1, InvAlways, PTL

-----------------------------------------------------------------------------
\* How far the unit is with its calls shows in the topics and at the network.
Progress ==
  /\ unit.pc \notin {"idle", "announce"} =>
       \A t \in Topics : Received \in written[t][unit.ref]
  /\ unit.pc = "submit" =>
       \A t \in Topics : AnswerOf(unit) \in written[t][unit.ref]
  /\ unit.pc = "release" => Acknowledged(unit.local) \in told[unit.ref]

\* The topics only grow, and every event but a receipt is preceded.
Grows ==
  \A t \in Topics, q \in Refs :
    /\ written[t][q] \subseteq written'[t][q]
    /\ told[q] \subseteq told'[q]

LEMMA ProgressInit == Init => Progress /\ StepsInOrder
BY DEF Init, Progress, StepsInOrder, IdleUnit, Topics

\* A publish of e keeps the order of the events on the topics.
LEMMA PublishInOrder ==
  ASSUME Inv, StepsInOrder, NEW r \in Refs, NEW e \in Event,
         NEW failed \in BOOLEAN, Publish(r, e, failed), UNCHANGED <<holds, told>>,
         e \in Answer => \A t \in Topics : Received \in written[t][r]
  PROVE  StepsInOrder' /\ Grows
<1>1. TypeOK /\ Received \notin Answer
  BY AnswerShape DEF Inv, Shape
<1>2. /\ \A t \in Topics, q \in Refs :
           /\ written[t][q] \subseteq written'[t][q]
           /\ written'[t][q] \subseteq
                written[t][q] \cup (IF q = r THEN {e} ELSE {})
      /\ e \in written'["analytics"][r] =>
           \/ e \in written["analytics"][r]
           \/ e \in written'["integration"][r]
  BY <1>1, PublishShape
<1>3. \A t \in Topics, q \in Refs :
        written'[t][q] \cap Answer # {} => Received \in written'[t][q]
  BY <1>2 DEF StepsInOrder
<1>4. \A q \in Refs :
        written'["analytics"][q] \subseteq written'["integration"][q]
  BY <1>2 DEF StepsInOrder, Topics
<1>5. \A q \in Refs : told'[q] \subseteq written'["analytics"][q]
  BY <1>2 DEF StepsInOrder, Topics
<1> QED
  BY <1>2, <1>3, <1>4, <1>5 DEF StepsInOrder, Grows

LEMMA ProgressStep ==
  Inv /\ Inv' /\ Progress /\ StepsInOrder /\ [Next]_vars
    => Progress' /\ StepsInOrder'
<1> SUFFICES ASSUME Inv, Inv', Progress, StepsInOrder, [Next]_vars
             PROVE  Progress' /\ StepsInOrder'
  OBVIOUS
<1>1. /\ Shape /\ Owned /\ TypeOK /\ unit \in Unit /\ UnitCarries
      /\ holds \in [LocalIds -> Hold]
      /\ Received \in Event /\ Missed \in Event /\ Received \notin Answer
      /\ Missed \notin Answer /\ AnswerOf(unit) \in Answer
      /\ Answer \subseteq Event
  BY AnswerShape DEF Inv, Shape, TypeOK
<1>2. CASE UNCHANGED <<written, holds, told, unit>>
  BY <1>2 DEF Progress, StepsInOrder, AnswerOf
<1>3. CASE Restart
  BY <1>3 DEF Restart, Outside, Progress, StepsInOrder, IdleUnit
<1>4. ASSUME NEW r \in Refs, TakeUp(r)
      PROVE  Progress' /\ StepsInOrder'
  <2>1. unit'.pc = "announce" /\ UNCHANGED <<written, holds, told>>
    BY <1>1, <1>4, TakeUpShape DEF IdleUnit
  <2> QED  BY <2>1 DEF Progress, StepsInOrder
<1>5. CASE PublishReceived
  <2>1. /\ unit.ref \in Refs /\ UNCHANGED <<holds, told>>
        /\ \/ Publish(unit.ref, Received, TRUE) /\ unit' = IdleUnit
           \/ /\ Publish(unit.ref, Received, FALSE)
              /\ \E pc \in {"raise", "check"} : unit' = [unit EXCEPT !.pc = pc]
    BY <1>1, <1>5 DEF PublishReceived, Return, UnitCarries
  <2>2. StepsInOrder'
    BY <1>1, <2>1, PublishInOrder
  <2>3. CASE unit' = IdleUnit
    BY <2>2, <2>3 DEF Progress, IdleUnit
  <2>4. ASSUME Publish(unit.ref, Received, FALSE),
               NEW pc \in {"raise", "check"}, unit' = [unit EXCEPT !.pc = pc]
        PROVE  Progress'
    <3>1. unit'.pc = pc /\ unit'.ref = unit.ref
      BY <1>1, <2>4 DEF Unit
    <3>2. \A t \in Topics : Received \in written'[t][unit.ref]
      BY <1>1, <2>1, <2>4, PublishShape
    <3> QED  BY <3>1, <3>2 DEF Progress
  <2> QED  BY <2>1, <2>2, <2>3, <2>4
<1>6. CASE RaiseHeldOrder
  <2>1. /\ unit.pc = "raise" /\ unit.ref \in Refs
        /\ UNCHANGED <<written, told>>
        /\ unit'.pc \in {"check", "cancel", "idle"}
        /\ unit'.ref = unit.ref \/ unit'.pc = "idle"
    <3>1. CASE Return
      BY <1>1, <1>6, <3>1 DEF RaiseHeldOrder, Return, UnitCarries, IdleUnit
    <3>2. ASSUME NEW l, NEW feasible, NEW pc \in {"check", "cancel"},
                 unit' = [unit EXCEPT !.local = l, !.feasible = feasible,
                            !.pc = pc]
          PROVE  unit'.pc = pc /\ unit'.ref = unit.ref
      BY <1>1, <3>2 DEF Unit
    <3> QED  BY <1>1, <1>6, <3>1, <3>2 DEF RaiseHeldOrder, UnitCarries
  <2>2. \A l \in LocalIds :
          holds'[l].status = "released" =>
            holds[l].status = "released" /\ holds'[l].ref = holds[l].ref
    BY <1>1, <1>6, RaiseShape
  <2>3. Progress'
    BY <2>1 DEF Progress
  <2> QED  BY <2>1, <2>2, <2>3 DEF StepsInOrder
<1>7. CASE CancelHeldOrder
  <2>1. /\ unit.pc = "cancel" /\ unit.ref \in Refs
        /\ UNCHANGED <<written, told>>
        /\ unit'.pc \in {"check", "idle"}
        /\ unit'.ref = unit.ref \/ unit'.pc = "idle"
    BY <1>1, <1>7
    DEF CancelHeldOrder, Return, UnitCarries, Unit, IdleUnit
  <2>2. \A l \in LocalIds :
          holds'[l].status = "released" =>
            holds[l].status = "released" /\ holds'[l].ref = holds[l].ref
    BY <1>1, <1>7, HoldsStay
    DEF Step, CancelHeldOrder, RaiseHeldOrder, ReleaseHeldOrder
  <2>3. Progress'
    BY <2>1 DEF Progress
  <2> QED  BY <2>1, <2>2, <2>3 DEF StepsInOrder
<1>8. CASE CheckUnanswered \/ StoreAnswer \/ LinkOrder
  <2>1. /\ unit.pc \in {"check", "store", "link"} /\ unit.ref \in Refs
        /\ UNCHANGED <<written, holds, told>>
        /\ unit'.pc \in {"store", "link", "publish", "idle"}
        /\ unit'.ref = unit.ref \/ unit'.pc = "idle"
    BY <1>1, <1>8
    DEF CheckUnanswered, StoreAnswer, LinkOrder, Outside, Return,
        UnitCarries, Unit, IdleUnit
  <2>2. Progress'
    BY <2>1 DEF Progress
  <2> QED  BY <2>1, <2>2 DEF StepsInOrder
<1>9. CASE PublishAnswer
  <2>1. /\ unit.ref \in Refs /\ unit.pc = "publish"
        /\ UNCHANGED <<holds, told>>
        /\ \E failed \in BOOLEAN :
             /\ Publish(unit.ref, AnswerOf(unit), failed)
             /\ failed => unit' = IdleUnit
             /\ ~failed => unit' = [unit EXCEPT !.pc = "submit"]
    BY <1>1, <1>9 DEF PublishAnswer, Return, UnitCarries
  <2>2. StepsInOrder' /\ Grows
    BY <1>1, <2>1, PublishInOrder DEF Progress
  <2>3. CASE unit' = IdleUnit
    BY <2>2, <2>3 DEF Progress, IdleUnit
  <2>4. CASE unit' = [unit EXCEPT !.pc = "submit"] /\ unit' # IdleUnit
    <3>1. \A t \in Topics : AnswerOf(unit) \in written'[t][unit.ref]
      BY <1>1, <2>1, <2>4, PublishShape
    <3>2. /\ unit'.pc = "submit" /\ unit'.ref = unit.ref
          /\ AnswerOf(unit') = AnswerOf(unit)
      BY <1>1, <2>4 DEF Unit, AnswerOf
    <3>3. \A t \in Topics : Received \in written'[t][unit.ref]
      BY <2>1, <2>2 DEF Progress, Grows
    <3> QED  BY <2>2, <3>1, <3>2, <3>3 DEF Progress
  <2> QED  BY <2>1, <2>2, <2>3, <2>4
<1>10. CASE SubmitAcknowledgement
  <2>1. /\ unit.ref \in Refs /\ unit.pc = "submit"
        /\ UNCHANGED <<holds, written>>
        /\ told' = [told EXCEPT ![unit.ref] = @ \cup {AnswerOf(unit)}]
        /\ told \in [Refs -> SUBSET Answer]
    BY <1>1, <1>10 DEF SubmitAcknowledgement, UnitCarries, TypeOK
  <2>2. /\ \A q \in Refs : told[q] \subseteq told'[q]
        /\ \A q \in Refs : told'[q] \subseteq written["analytics"][q]
    BY <2>1 DEF Progress, StepsInOrder, Topics
  <2>3. StepsInOrder'
    BY <2>1, <2>2 DEF StepsInOrder
  <2>4. CASE unit' = IdleUnit
    BY <2>3, <2>4 DEF Progress, IdleUnit
  <2>5. CASE unit.feasible /\ unit' = [unit EXCEPT !.pc = "release"]
    <3>1. /\ unit'.pc = "release" /\ unit'.ref = unit.ref
          /\ unit'.local = unit.local
          /\ AnswerOf(unit) = Acknowledged(unit.local)
      BY <1>1, <2>5 DEF Unit, AnswerOf
    <3>2. Acknowledged(unit.local) \in told'[unit.ref]
      BY <2>1, <3>1
    <3>3. \A t \in Topics : Received \in written[t][unit.ref]
      BY <2>1 DEF Progress
    <3> QED  BY <2>1, <2>3, <3>1, <3>2, <3>3 DEF Progress
  <2> QED  BY <1>10, <2>4, <2>5 DEF SubmitAcknowledgement, Return
<1>11. CASE ReleaseHeldOrder
  <2>1. /\ unit.pc = "release" /\ unit.ref \in Refs /\ unit.local \in LocalIds
        /\ unit' = IdleUnit /\ UNCHANGED <<written, told>>
    BY <1>1, <1>11 DEF ReleaseHeldOrder, Return, UnitCarries
  <2>2. holds[unit.local].ref = unit.ref
    BY <1>1, <2>1, OrderAssumption DEF Owned
  <2>3. \A l \in LocalIds :
          /\ holds'[l].ref = holds[l].ref
          /\ holds'[l].status = "released" =>
               holds[l].status = "released" \/ l = unit.local
    BY <1>1, <1>11, HoldsStay DEF Step, RaiseHeldOrder, ReleaseHeldOrder
  <2>4. StepsInOrder'
    BY <2>1, <2>2, <2>3 DEF StepsInOrder, Progress
  <2> QED  BY <2>1, <2>4 DEF Progress, IdleUnit
<1>12. CASE CallFails
  BY <1>12 DEF CallFails, Return, Outside, Progress, StepsInOrder, IdleUnit
<1>13. CASE MissCancelsHold
  <2>1. UNCHANGED <<written, told, unit>>
    BY <1>13 DEF MissCancelsHold
  <2>2. CASE ReleaseHeldOrder
    BY <1>1, <1>13, <2>2
    DEF MissCancelsHold, ReleaseHeldOrder, Return, IdleUnit
  <2>3. CASE ~ReleaseHeldOrder
    <3>1. \A l \in LocalIds :
            holds'[l].status = "released" =>
              holds[l].status = "released" /\ holds'[l].ref = holds[l].ref
      BY <1>1, <1>13, <2>3, HoldsStay DEF SweepStep
    <3> QED  BY <2>1, <3>1 DEF Progress, StepsInOrder, AnswerOf
  <2> QED  BY <2>2, <2>3
<1>14. CASE MissPublishes
  <2>1. /\ sweep.ref \in Refs /\ UNCHANGED <<holds, told, unit>>
        /\ \E failed \in BOOLEAN : Publish(sweep.ref, Missed, failed)
    BY <1>1, <1>14 DEF MissPublishes, Shape, SweepCarries
  <2>2. StepsInOrder' /\ Grows
    BY <1>1, <2>1, PublishInOrder
  <2>3. unit.pc # "idle" => unit.ref \in Refs
    BY <1>1 DEF UnitCarries
  <2>4. Progress'
    BY <2>1, <2>2, <2>3 DEF Progress, Grows, AnswerOf
  <2> QED  BY <2>2, <2>4
<1> QED
  BY <1>2, <1>3, <1>4, <1>5, <1>6, <1>7, <1>8, <1>9, <1>10, <1>11, <1>12,
     <1>13, <1>14
  DEF Next, Receives, Step, SweepStep, Tick, PollDemand, PassOver,
      ListUnanswered, ExamineOrder, ReadLink, MissChecks, MissStores,
      Outside, Process, vars

\* Without an outbox and a lock the calls of a unit stay in order: receipt
\* before answer on each topic, integration before analytics, both before the
\* network, and the network before the release.
THEOREM CallsInOrder == Spec => []StepsInOrder
<1>1. Inv /\ Inv' /\ Progress /\ StepsInOrder /\ [Next]_vars
        => (Progress /\ StepsInOrder)'
  BY ProgressStep
<1> QED  BY <1>1, InvAlways, ProgressInit, PTL DEF Spec

-----------------------------------------------------------------------------
HoldsOf(r) == {l \in LocalIds : holds[l].ref = r}

\* 1 once the process cannot raise another order for r.
Spent(r) ==
  IF Exists(orders[r]) /\ ~(unit.ref = r /\ unit.pc \in {"announce", "raise"})
  THEN 1 ELSE 0

Counted ==
  \A r \in Refs : /\ IsFiniteSet(HoldsOf(r))
                  /\ Cardinality(HoldsOf(r)) <= restarts + Spent(r)

LEMMA CountedInit == Init => Counted
<1> SUFFICES ASSUME Init, NEW r \in Refs
             PROVE  /\ IsFiniteSet(HoldsOf(r))
                    /\ Cardinality(HoldsOf(r)) <= restarts + Spent(r)
  BY DEF Counted
<1>1. HoldsOf(r) = {}
  BY DevelopmentAssumption DEF Init, HoldsOf
<1>2. ~Exists(orders[r]) /\ restarts = 0
  BY OrderShape DEF Init
<1> QED  BY <1>1, <1>2, FS_EmptySet DEF Spent

\* A step that raises no order keeps the count.
LEMMA SameHolds ==
  ASSUME Inv, Inv', Counted, NEW r \in Refs,
         \A l \in LocalIds : holds'[l].ref = holds[l].ref,
         restarts' + Spent(r)' >= restarts + Spent(r)
  PROVE  /\ IsFiniteSet(HoldsOf(r)')
         /\ Cardinality(HoldsOf(r)') <= restarts' + Spent(r)'
<1>1. HoldsOf(r)' = HoldsOf(r)
  BY DEF HoldsOf
<1>2. /\ Cardinality(HoldsOf(r)) \in Nat /\ restarts \in Nat /\ restarts' \in Nat
      /\ Spent(r) \in Nat /\ Spent(r)' \in Nat
  BY FS_CardinalityType, DevelopmentAssumption
  DEF Counted, Inv, Shape, TypeOK, Spent
<1> QED  BY <1>1, <1>2 DEF Counted

LEMMA CountedStep == Inv /\ Inv' /\ Counted /\ [Next]_vars => Counted'
<1> SUFFICES ASSUME Inv, Inv', Counted, [Next]_vars, NEW r \in Refs
             PROVE  /\ IsFiniteSet(HoldsOf(r)')
                    /\ Cardinality(HoldsOf(r)') <= restarts' + Spent(r)'
  BY DEF Counted
<1>1. /\ Shape /\ Owned /\ unit \in Unit /\ UnitCarries
      /\ restarts \in Nat /\ restarts' \in Nat
      /\ orders \in [Refs -> SharedOrder \cup {NoOrder}]
      /\ Spent(r) \in {0, 1} /\ Spent(r)' \in {0, 1}
  BY DevelopmentAssumption DEF Inv, Shape, TypeOK, Spent
<1>2. CASE UNCHANGED <<orders, holds, unit, restarts>>
  BY <1>1, <1>2, SameHolds DEF Spent
<1>3. CASE Restart
  BY <1>1, <1>3, SameHolds DEF Restart, Outside
<1>4. ASSUME NEW q \in Refs, TakeUp(q)
      PROVE  /\ UNCHANGED <<holds, restarts>> /\ Spent(r)' >= Spent(r)
  <2>1. /\ orders' = [orders EXCEPT ![q] = Receive(clock)]
        /\ ~Exists(orders[q]) /\ UNCHANGED <<holds, restarts>>
        /\ unit'.ref = q
    BY <1>1, <1>4, TakeUpShape DEF IdleUnit
  <2>2. CASE r = q
    BY <1>1, <2>1, <2>2 DEF Spent
  <2>3. CASE r # q
    BY <1>1, <2>1, <2>3 DEF Spent
  <2> QED  BY <2>1, <2>2, <2>3
<1>5. CASE Step /\ ~RaiseHeldOrder
  <2>1. /\ unit.pc # "idle" /\ restarts' = restarts
        /\ unit' = IdleUnit \/ unit'.ref = unit.ref
    BY <1>1, <1>5, UnitMoves
  <2>2. \A l \in LocalIds : holds'[l].ref = holds[l].ref
    BY <1>1, <1>5, HoldsStay
  <2>3. Exists(orders[r]) => Exists(orders'[r])
    BY <1>1, <1>5, OrdersStay
  <2>4. unit'.pc \in {"announce", "raise"} => unit.pc = "announce"
    <3>1. CASE PublishReceived
      BY <3>1 DEF PublishReceived
    <3>2. CASE Return
      BY <3>2 DEF Return, IdleUnit
    <3>3. ASSUME NEW pc \in {"check", "store", "link", "publish", "submit",
                             "release"},
                 unit' = [unit EXCEPT !.pc = pc]
          PROVE  unit'.pc = pc
      BY <1>1, <3>3 DEF Unit
    <3> QED
      BY <1>5, <3>1, <3>2, <3>3
      DEF Step, CancelHeldOrder, CheckUnanswered, StoreAnswer, LinkOrder,
          PublishAnswer, SubmitAcknowledgement, ReleaseHeldOrder, CallFails
  <2>5. Spent(r)' >= Spent(r)
    BY <1>1, <2>1, <2>3, <2>4 DEF Spent, IdleUnit
  <2> QED  BY <1>1, <2>1, <2>2, <2>5, SameHolds
<1>6. CASE RaiseHeldOrder
  <2>1. PICK l \in LocalIds :
          /\ holds[l].ref = NoRef
          /\ \A k \in LocalIds :
               IF k = l THEN holds'[k].ref = unit.ref /\ holds'[k].status = "held"
               ELSE holds'[k] = holds[k]
    BY <1>1, <1>6, RaiseShape
  <2>2. /\ unit.pc = "raise" /\ unit.ref \in Refs /\ restarts' = restarts
        /\ orders' = orders /\ Exists(orders[unit.ref])
    BY <1>1, <1>6 DEF RaiseHeldOrder, Process, UnitCarries, Owned
  <2>3. unit'.pc \notin {"announce", "raise"}
    <3>1. CASE Return
      BY <3>1 DEF Return, IdleUnit
    <3>2. ASSUME NEW k, NEW feasible, NEW pc \in {"check", "cancel"},
                 unit' = [unit EXCEPT !.local = k, !.feasible = feasible,
                            !.pc = pc]
          PROVE  unit'.pc = pc
      BY <1>1, <3>2 DEF Unit
    <3> QED  BY <1>6, <3>1, <3>2 DEF RaiseHeldOrder
  <2>4. CASE r = unit.ref
    <3>1. Spent(r) = 0 /\ Spent(r)' = 1
      BY <2>2, <2>3, <2>4 DEF Spent
    <3>2. HoldsOf(r)' = HoldsOf(r) \cup {l}
      BY <2>1, <2>4 DEF HoldsOf
    <3>3. /\ IsFiniteSet(HoldsOf(r)) /\ Cardinality(HoldsOf(r)) <= restarts + 0
          /\ Cardinality(HoldsOf(r)) \in Nat
      BY <3>1, FS_CardinalityType DEF Counted
    <3>4. l \notin HoldsOf(r)
      BY <2>1, DevelopmentAssumption DEF HoldsOf
    <3>5. /\ IsFiniteSet(HoldsOf(r)')
          /\ Cardinality(HoldsOf(r)') = Cardinality(HoldsOf(r)) + 1
      BY <3>2, <3>3, <3>4, FS_AddElement
    <3> QED  BY <1>1, <2>2, <3>1, <3>3, <3>5
  <2>5. CASE r # unit.ref
    <3>1. HoldsOf(r)' = HoldsOf(r)
      BY <2>1, <2>5, DevelopmentAssumption DEF HoldsOf
    <3>2. Spent(r)' >= Spent(r)
      BY <1>1, <2>2, <2>3, <2>5 DEF Spent
    <3>3. /\ IsFiniteSet(HoldsOf(r)) /\ Cardinality(HoldsOf(r)) \in Nat
          /\ Cardinality(HoldsOf(r)) <= restarts + Spent(r)
      BY FS_CardinalityType DEF Counted
    <3> QED  BY <1>1, <2>2, <3>1, <3>2, <3>3
  <2> QED  BY <2>4, <2>5
<1>7. CASE SweepStep
  <2>1. UNCHANGED <<unit, restarts>>
    BY <1>1, <1>7, SweepMoves
  <2>2. \A l \in LocalIds : holds'[l].ref = holds[l].ref
    BY <1>1, <1>7, HoldsStay
  <2>3. Exists(orders[r]) => Exists(orders'[r])
    BY <1>1, <1>7, OrdersStay
  <2>4. Spent(r)' >= Spent(r)
    BY <2>1, <2>3 DEF Spent
  <2> QED  BY <1>1, <2>1, <2>2, <2>4, SameHolds
<1> QED
  BY <1>1, <1>2, <1>3, <1>4, <1>5, <1>6, <1>7, SameHolds
  DEF Next, Receives, Tick, PollDemand, PassOver, Outside, vars

\* A process raises one held order for an order at most, whatever it is
\* polled; every further one needs a restart.
THEOREM OneHoldPerProcess == Spec => []HoldsNeedRestarts
<1>1. Inv /\ Counted => HoldsNeedRestarts
  <2> SUFFICES ASSUME Inv, Counted, NEW r \in Refs
               PROVE  Cardinality(HoldsOf(r)) <= restarts + 1
    BY DEF HoldsNeedRestarts, HoldsOf
  <2>1. /\ Cardinality(HoldsOf(r)) \in Nat /\ restarts \in Nat
        /\ Spent(r) \in {0, 1} /\ Cardinality(HoldsOf(r)) <= restarts + Spent(r)
    BY FS_CardinalityType, DevelopmentAssumption
    DEF Counted, Inv, Shape, TypeOK, Spent
  <2> QED  BY <2>1
<1> QED  BY <1>1, InvAlways, CountedInit, CountedStep, PTL DEF Spec

-----------------------------------------------------------------------------
\* The sweep's clock is behind, what it is at is overdue, and a unit whose
\* window has closed is late.
InTime ==
  /\ sweep.now <= clock
  /\ sweep.pc # "list" => sweep.now > orders[sweep.ref].acknowledgeBy
  /\ unit.pc # "idle" /\ clock > orders[unit.ref].acknowledgeBy =>
       unit.ref \in late

\* A check still holds when the state is stored, unless the unit is late.
CheckHolds ==
  /\ unit.pc = "store" /\ unit.ref \notin late =>
       Unanswered(orders[unit.ref])
  /\ sweep.pc = "store" /\ sweep.ref \notin late =>
       Unanswered(orders[sweep.ref])

LEMMA InTimeInit == Init => InTime /\ CheckHolds
BY DEF Init, InTime, CheckHolds, IdleUnit, IdleSweep

LEMMA InTimeStep == Inv /\ Inv' /\ InTime /\ [Next]_vars => InTime'
<1> SUFFICES ASSUME Inv, Inv', InTime, [Next]_vars PROVE InTime'
  OBVIOUS
<1>1. /\ Shape /\ Owned /\ unit \in Unit /\ UnitCarries /\ SweepCarries
      /\ clock \in Nat /\ sweep.now \in Nat
      /\ orders \in [Refs -> SharedOrder \cup {NoOrder}]
  BY DEF Inv, Shape, TypeOK, Sweep
<1>2. \A q \in Refs : orders[q].acknowledgeBy \in Nat
  BY <1>1 DEF SharedOrder, NoOrder
<1>3. CASE UNCHANGED <<clock, orders, unit, sweep, late>>
  BY <1>3 DEF InTime
<1>4. CASE Tick
  BY <1>1, <1>2, <1>4 DEF Tick, InTime, UnitCarries
<1>5. CASE Restart
  BY <1>1, <1>5 DEF Restart, InTime, IdleUnit, IdleSweep
<1>6. ASSUME NEW r \in Refs, TakeUp(r)
      PROVE  InTime'
  <2>1. /\ orders' = [orders EXCEPT ![r] = Receive(clock)]
        /\ Receive(clock) \in SharedOrder /\ ~Exists(orders[r])
        /\ clock <= Receive(clock).acknowledgeBy
        /\ unit'.ref = r /\ UNCHANGED <<clock, sweep, late>>
    BY <1>1, <1>6, TakeUpShape DEF IdleUnit
  <2>2. Receive(clock).acknowledgeBy \in Nat
    BY <2>1 DEF SharedOrder
  <2>3. sweep.pc # "list" => sweep.ref \in Refs /\ sweep.ref # r
    BY <1>1, <2>1 DEF Owned, SweepCarries
  <2> QED  BY <1>1, <2>1, <2>2, <2>3 DEF InTime
<1>7. CASE Step
  <2>1. /\ unit.pc # "idle" /\ unit.ref \in Refs
        /\ unit'.ref = unit.ref \/ unit'.pc = "idle"
        /\ UNCHANGED <<clock, sweep, late>>
    BY <1>1, <1>7, UnitMoves DEF IdleUnit
  <2>2. \A q \in Refs : orders'[q].acknowledgeBy = orders[q].acknowledgeBy
    BY <1>1, <1>7, OrdersStay
  <2> QED  BY <1>1, <2>1, <2>2 DEF InTime, SweepCarries
<1>8. CASE SweepStep
  <2>1. /\ \/ sweep'.pc = "list" /\ sweep'.now \in {sweep.now, clock, 0}
           \/ sweep.pc # "list" /\ sweep'.ref = sweep.ref
                /\ sweep'.now = sweep.now
           \/ /\ sweep'.ref \in Refs /\ sweep'.now = sweep.now
              /\ AcknowledgementOverdue(orders[sweep'.ref], sweep.now)
        /\ UNCHANGED <<clock, unit, late>>
    BY <1>1, <1>8, SweepMoves
  <2>2. \A q \in Refs : orders'[q].acknowledgeBy = orders[q].acknowledgeBy
    BY <1>1, <1>8, OrdersStay
  <2>3. sweep'.now <= clock
    BY <1>1, <2>1 DEF InTime
  <2>4. sweep'.pc # "list" => sweep'.now > orders'[sweep'.ref].acknowledgeBy
    BY <1>1, <2>1, <2>2
    DEF InTime, SweepCarries, AcknowledgementOverdue
  <2>5. unit.pc # "idle" => unit.ref \in Refs
    BY <1>1 DEF UnitCarries
  <2> QED  BY <2>1, <2>2, <2>3, <2>4, <2>5 DEF InTime
<1> QED
  BY <1>3, <1>4, <1>5, <1>6, <1>7, <1>8
  DEF Next, Receives, PollDemand, PassOver, vars

\* When the unit and the sweep are at the same order, the unit is late.
LEMMA SharedIsLate ==
  ASSUME Inv, InTime, unit.pc # "idle", sweep.pc # "list",
         unit.ref = sweep.ref
  PROVE  unit.ref \in late
<1>1. /\ clock \in Nat /\ sweep.now \in Nat /\ unit.ref \in Refs
      /\ orders[unit.ref].acknowledgeBy \in Nat
  BY DEF Inv, Shape, TypeOK, Sweep, UnitCarries, SharedOrder, NoOrder
<1> QED  BY <1>1 DEF InTime

\* Only an order that is NEW, or is late, changes its state.
LEMMA StoresInTime ==
  ASSUME Inv, InTime, CheckHolds, Step \/ SweepStep, NEW q \in Refs,
         q \notin late
  PROVE  orders'[q].state = orders[q].state \/ Unanswered(orders[q])
BY OrdersStay DEF Inv, CheckHolds, StoreAnswer, MissStores

LEMMA CheckHoldsStep ==
  Inv /\ Inv' /\ InTime /\ CheckHolds /\ [Next]_vars => CheckHolds'
<1> SUFFICES ASSUME Inv, Inv', InTime, CheckHolds, [Next]_vars
             PROVE  CheckHolds'
  OBVIOUS
<1>1. /\ Shape /\ Owned /\ unit \in Unit /\ UnitCarries /\ SweepCarries
      /\ sweep \in Sweep
      /\ orders \in [Refs -> SharedOrder \cup {NoOrder}]
  BY DEF Inv, Shape, TypeOK
<1>2. CASE UNCHANGED <<orders, unit, sweep>> /\ late \subseteq late'
  BY <1>2 DEF CheckHolds
<1>3. CASE Restart
  BY <1>3 DEF Restart, CheckHolds, IdleUnit, IdleSweep
<1>4. ASSUME NEW r \in Refs, TakeUp(r)
      PROVE  CheckHolds'
  <2>1. /\ orders' = [orders EXCEPT ![r] = Receive(clock)]
        /\ ~Exists(orders[r]) /\ unit'.pc = "announce"
        /\ UNCHANGED <<sweep, late>>
    BY <1>1, <1>4, TakeUpShape DEF IdleUnit
  <2>2. sweep.pc # "list" => sweep.ref \in Refs /\ sweep.ref # r
    BY <1>1, <2>1 DEF Owned, SweepCarries
  <2> QED  BY <1>1, <2>1, <2>2 DEF CheckHolds
<1>5. CASE Step
  <2>1. /\ unit.pc # "idle" /\ unit.ref \in Refs
        /\ UNCHANGED <<sweep, late>>
    BY <1>1, <1>5, UnitMoves
  <2>2. unit'.pc = "store" =>
          CheckUnanswered /\ unit'.ref = unit.ref /\ Unanswered(orders[unit.ref])
    <3>1. CASE CheckUnanswered
      BY <1>1, <3>1 DEF CheckUnanswered, Return, Unit, IdleUnit
    <3>2. CASE Return
      BY <3>2 DEF Return, IdleUnit
    <3>3. ASSUME NEW pc \in {"raise", "check", "link", "publish", "submit",
                             "release"},
                 unit' = [unit EXCEPT !.pc = pc]
          PROVE  unit'.pc = pc
      BY <1>1, <3>3 DEF Unit
    <3>4. ASSUME NEW k, NEW feasible, NEW pc \in {"check", "cancel"},
                 unit' = [unit EXCEPT !.local = k, !.feasible = feasible,
                            !.pc = pc]
          PROVE  unit'.pc = pc
      BY <1>1, <3>4 DEF Unit
    <3>5. CASE RaiseHeldOrder
      BY <3>2, <3>4, <3>5 DEF RaiseHeldOrder
    <3> QED
      BY <1>5, <3>1, <3>2, <3>3, <3>5
      DEF Step, PublishReceived, CancelHeldOrder, StoreAnswer, LinkOrder,
          PublishAnswer, SubmitAcknowledgement, ReleaseHeldOrder, CallFails
  <2>3. unit'.pc = "store" => orders' = orders
    BY <2>2 DEF CheckUnanswered
  <2>4. sweep.pc = "store" /\ sweep.ref \notin late =>
          orders'[sweep.ref].state = orders[sweep.ref].state
    <3>1. ~(sweep.pc = "store" /\ MissStores)
      BY <1>1, <2>1 DEF MissStores, Sweep
    <3> QED
      BY <1>1, <1>5, <2>1, <3>1, OrdersStay, SharedIsLate
      DEF SweepCarries
  <2> QED  BY <2>1, <2>2, <2>3, <2>4 DEF CheckHolds, Unanswered
<1>6. CASE SweepStep
  <2>1. UNCHANGED <<unit, late>>
    BY <1>1, <1>6, SweepMoves
  <2>2. sweep'.pc = "store" =>
          MissChecks /\ sweep'.ref = sweep.ref /\ Unanswered(orders[sweep.ref])
    <3>1. ASSUME NEW listed, NextOrder(listed)
          PROVE  sweep'.pc = "list"
      BY <3>1 DEF NextOrder, IdleSweep
    <3>2. CASE MissChecks
      BY <1>1, <3>1, <3>2 DEF MissChecks, Sweep
    <3>3. CASE ListUnanswered \/ \E r \in Refs : ExamineOrder(r)
      BY <1>1, <3>1, <3>3 DEF ListUnanswered, ExamineOrder, Sweep
    <3>4. CASE ReadLink \/ MissCancelsHold \/ MissStores \/ MissPublishes
      BY <1>1, <3>1, <3>4
      DEF ReadLink, MissCancelsHold, MissStores, MissPublishes, Sweep
    <3> QED  BY <1>6, <3>2, <3>3, <3>4 DEF SweepStep
  <2>3. sweep'.pc = "store" => orders' = orders
    BY <2>2 DEF MissChecks
  <2>4. unit.pc = "store" /\ unit.ref \notin late =>
          orders'[unit.ref].state = orders[unit.ref].state
    <3>1. ~(unit.pc = "store" /\ StoreAnswer)
      <4> SUFFICES ASSUME unit.pc = "store", StoreAnswer PROVE FALSE
        OBVIOUS
      <4>1. \E pc \in {"link", "publish"} : unit' = [unit EXCEPT !.pc = pc]
        BY DEF StoreAnswer
      <4> QED  BY <1>1, <2>1, <4>1 DEF Unit
    <3> QED
      BY <1>1, <1>6, <3>1, OrdersStay, SharedIsLate
      DEF UnitCarries, MissStores
  <2> QED  BY <2>1, <2>2, <2>3, <2>4 DEF CheckHolds, Unanswered
<1> QED
  BY <1>2, <1>3, <1>4, <1>5, <1>6
  DEF Next, Receives, Tick, PollDemand, PassOver, vars

\* An answered order keeps its answer, although nothing locks it, as long as
\* its unit is done before its window closes.
THEOREM AnswersStand == Spec => AnswerStands
<1>1. Inv /\ InTime /\ CheckHolds /\ [Next]_vars =>
        [\A r \in Refs :
           /\ orders[r].state \in {"ACKNOWLEDGED", "REJECTED"}
           /\ restarts' = restarts /\ r \notin late
           => orders'[r].state = orders[r].state]_vars
  <2> SUFFICES ASSUME Inv, InTime, CheckHolds, [Next]_vars,
                      NEW r \in Refs,
                      orders[r].state \in {"ACKNOWLEDGED", "REJECTED"},
                      restarts' = restarts, r \notin late
               PROVE  orders'[r].state = orders[r].state
    OBVIOUS
  <2>1. /\ Shape /\ restarts \in Nat
        /\ orders \in [Refs -> SharedOrder \cup {NoOrder}]
    BY DevelopmentAssumption DEF Inv, Shape, TypeOK
  <2>2. CASE Step \/ SweepStep
    BY <2>2, StoresInTime DEF Unanswered
  <2>3. ASSUME NEW q \in Refs, TakeUp(q)
        PROVE  orders'[r].state = orders[r].state
    BY <2>1, <2>3, TakeUpShape DEF Exists
  <2>4. CASE Restart
    BY <2>1, <2>4 DEF Restart
  <2> QED
    BY <2>2, <2>3, <2>4
    DEF Next, Receives, Tick, PollDemand, PassOver, vars
<1> QED
  BY <1>1, InvAlways, InTimeInit, InTimeStep, CheckHoldsStep, PTL
  DEF Spec, AnswerStands

-----------------------------------------------------------------------------
(***************************************************************************)
(* What is held.  Only translatable demand reaches the raise, and the      *)
(* lines of such demand all have a SKU, so summed SKU by SKU they are      *)
(* still all there.                                                        *)
(***************************************************************************)

LEMMA SKUsFinite == IsFiniteSet(SKUs)
<1> DEFINE d == [n \in Products |-> Dictionary[n]]
           all == {Dictionary[n] : n \in Products}
<1>1. d \in Surjection(Products, all)
  BY DEF Surjection
<1>2. IsFiniteSet(Products)
  BY DevelopmentAssumption
<1>3. IsFiniteSet(all)
  BY <1>1, <1>2, FS_Surjection
<1>4. SKUs \in SUBSET all
  BY DEF SKUs
<1> QED  BY <1>3, <1>4, FS_Subset

\* The reference counts what is asked of order-management for it.
LEMMA AskedInFull ==
  ASSUME NEW r \in Refs, Kind[r] = "translatable"
  PROVE  /\ SumFunction(Asked[r]) = SumFunction(Quantities(DemandLines[r]))
         /\ \A i \in DOMAIN DemandLines[r] : DemandLines[r][i].quantity > 0
<1> DEFINE lines == DemandLines[r]
           colour == [i \in DOMAIN lines |-> Dictionary[lines[i].product]]
           q == Quantities(lines)
<1>1. lines \in Seq([product : Products, quantity : Int])
  BY DevelopmentAssumption
<1>2. \A i \in DOMAIN lines : ~Unknown(lines[i]) /\ ~NonPositive(lines[i])
  <2>1. Translate(lines) = "translatable"
    BY DEF Kind
  <2> QED  BY <2>1 DEF Translate
<1>3. \A i \in DOMAIN lines :
        lines[i].product \in Products /\ lines[i].quantity \in Int
  <2> HIDE DEF lines
  <2> SUFFICES ASSUME NEW i \in DOMAIN lines
               PROVE  lines[i].product \in Products /\ lines[i].quantity \in Int
    OBVIOUS
  <2> DEFINE row == [product : Products, quantity : Int]
  <2>1. lines \in Seq(row)
    BY <1>1
  <2>2. lines[i] \in row
    <3> HIDE DEF row
    <3> QED  BY <2>1
  <2> QED  BY <2>2
<1>4. \A i \in DOMAIN lines : colour[i] \in SKUs /\ lines[i].quantity > 0
  BY <1>2, <1>3 DEF Unknown, NonPositive, SKUs
<1>5. IsFiniteSet(DOMAIN lines)
  <2> HIDE DEF lines
  <2>1. DOMAIN lines = 1..Len(lines) /\ Len(lines) \in Nat
    BY <1>1
  <2> QED  BY <2>1, FS_Interval
<1>6. \A i \in DOMAIN lines : q[i] \in Int
  BY <1>3 DEF Quantities
<1>7. \A s \in SKUs :
        Asked[r][s] = SumFunctionOnSet(q, {i \in DOMAIN lines : colour[i] = s})
  <2> SUFFICES ASSUME NEW s \in SKUs
               PROVE  Asked[r][s] = SumFunctionOnSet(
                                      q, {i \in DOMAIN lines : colour[i] = s})
    OBVIOUS
  <2>1. LinesOf(s, lines) = {i \in DOMAIN lines : colour[i] = s}
    BY DEF LinesOf
  <2>2. Asked[r][s] = SumFunctionOnSet(q, LinesOf(s, lines))
    BY DEF Asked, SKUQuantities
  <2> QED  BY <2>1, <2>2
<1>8. SumFunctionOnSet(Asked[r], SKUs)
        = SumFunctionOnSet(q, {i \in DOMAIN lines : colour[i] \in SKUs})
  <2> HIDE DEF lines, q, colour
  <2> QED  BY <1>5, <1>6, <1>7, SKUsFinite, SumByColour
<1>9. {i \in DOMAIN lines : colour[i] \in SKUs} = DOMAIN lines
  BY <1>4
<1>10. DOMAIN Asked[r] = SKUs /\ DOMAIN q = DOMAIN lines
  BY DEF Asked, SKUQuantities, Quantities
<1>11. SumFunction(Asked[r]) = SumFunction(q)
  <2> HIDE DEF lines, q, colour
  <2> QED  BY <1>8, <1>9, <1>10 DEF SumFunction
<1> QED  BY <1>4, <1>11

\* A unit raises only what translates, and whatever local order an order is
\* linked with, or the sweep is about to cancel, was raised.
AskedFor ==
  /\ unit.pc = "raise" => Kind[unit.ref] = "translatable"
  /\ \A r \in Refs :
       orders[r].local # NoLocal => holds[orders[r].local].status # "free"
  /\ sweep.pc = "cancel" => holds[sweep.local].status # "free"
  /\ \A l \in LocalIds : holds[l].status # "free" =>
       /\ holds[l].ref \in Refs /\ Kind[holds[l].ref] = "translatable"
       /\ holds[l].lines = Asked[holds[l].ref]

LEMMA AskedForInit == Init => AskedFor
<1>1. NoOrder.local = NoLocal
  BY DEF NoOrder
<1> QED  BY <1>1 DEF Init, AskedFor, IdleUnit, IdleSweep

\* Only a raise takes a free id, and what was raised is not changed.
LEMMA RaisedStays ==
  ASSUME Inv, AskedFor, SweepStep \/ (Step /\ ~RaiseHeldOrder),
         NEW k \in LocalIds
  PROVE  /\ holds[k].status # "free" <=> holds'[k].status # "free"
         /\ holds'[k].ref = holds[k].ref /\ holds'[k].lines = holds[k].lines
<1>1. /\ holds \in [LocalIds -> Hold] /\ NoLocal \notin LocalIds
      /\ UnitCarries /\ SweepCarries /\ Owned
  BY OrderAssumption DEF Inv, Shape, TypeOK
<1>2. ASSUME NEW l \in LocalIds, holds[l].status # "free",
             NEW s \in {"cancelled", "released"},
             holds' = [holds EXCEPT ![l].status = s]
      PROVE  /\ holds[k].status # "free" <=> holds'[k].status # "free"
             /\ holds'[k].ref = holds[k].ref /\ holds'[k].lines = holds[k].lines
  <2>1. holds'[k] = IF k = l THEN [holds[k] EXCEPT !.status = s] ELSE holds[k]
    BY <1>1, <1>2
  <2> QED  BY <1>1, <1>2, <2>1 DEF Hold
<1>3. CASE UNCHANGED holds
  BY <1>3
<1>4. CASE CancelHeldOrder \/ ReleaseHeldOrder
  <2>1. unit.local \in LocalIds /\ holds[unit.local].status # "free"
    BY <1>1, <1>4 DEF CancelHeldOrder, ReleaseHeldOrder, UnitCarries, Owned
  <2> QED  BY <1>2, <1>4, <2>1 DEF CancelHeldOrder, ReleaseHeldOrder
<1>5. CASE MissCancelsHold
  <2>1. sweep.local \in LocalIds /\ holds[sweep.local].status # "free"
    BY <1>1, <1>5 DEF MissCancelsHold, SweepCarries, AskedFor
  <2> QED  BY <1>2, <1>3, <1>5, <2>1 DEF MissCancelsHold
<1> QED
  BY <1>3, <1>4, <1>5
  DEF Step, SweepStep, PublishReceived, CheckUnanswered, StoreAnswer,
      LinkOrder, PublishAnswer, SubmitAcknowledgement, CallFails, Outside,
      ListUnanswered, ExamineOrder, ReadLink, MissChecks, MissStores,
      MissPublishes

\* An order keeps its link, or its unit links it with the order it raised.
LEMMA LinksStay ==
  ASSUME Inv, Step \/ SweepStep, NEW q \in Refs
  PROVE  \/ orders'[q].local = orders[q].local
         \/ q = unit.ref /\ orders'[q].local = unit.local
<1>1. /\ orders \in [Refs -> SharedOrder \cup {NoOrder}]
      /\ Shape /\ Owned /\ UnitCarries /\ SweepCarries
  BY DEF Inv, Shape, TypeOK
<1>2. CASE UNCHANGED orders
  BY <1>2
<1>3. ASSUME NEW r \in Refs, Exists(orders[r]), NEW s \in State,
             StoreState(r, s)
      PROVE  orders'[q].local = orders[q].local
  BY <1>1, <1>3, StoreShape
<1>4. \A r \in Refs : Exists(orders[r]) =>
        /\ orders[r] \in SharedOrder
        /\ Acknowledge(orders[r]).state \in State
        /\ Reject(orders[r]).state \in State
  BY <1>1, OrderShape DEF Acknowledge, Reject, SharedOrder, State
<1>5. CASE StoreAnswer
  <2>1. unit.ref \in Refs /\ Exists(orders[unit.ref])
    BY <1>1, <1>5 DEF StoreAnswer, UnitCarries, Owned
  <2> QED  BY <1>3, <1>4, <1>5, <2>1 DEF StoreAnswer
<1>6. CASE MissStores
  <2>1. sweep.ref \in Refs /\ Exists(orders[sweep.ref])
    BY <1>1, <1>6 DEF MissStores, SweepCarries, Owned
  <2> QED  BY <1>3, <1>4, <1>6, <2>1 DEF MissStores
<1>7. CASE LinkOrder
  <2>1. unit.ref \in Refs /\ orders[unit.ref] \in SharedOrder
    BY <1>1, <1>4, <1>7 DEF LinkOrder, UnitCarries, Owned
  <2>2. LinkLocalOrder(orders[unit.ref], unit.local).local = unit.local
    BY <2>1 DEF LinkLocalOrder, SharedOrder
  <2> QED  BY <1>1, <1>7, <2>1, <2>2 DEF LinkOrder
<1> QED
  BY <1>2, <1>5, <1>6, <1>7
  DEF Step, SweepStep, PublishReceived, RaiseHeldOrder, CancelHeldOrder,
      CheckUnanswered, PublishAnswer, SubmitAcknowledgement,
      ReleaseHeldOrder, CallFails, ListUnanswered, ExamineOrder, ReadLink,
      MissCancelsHold, MissChecks, MissPublishes

LEMMA AskedForStep == Inv /\ AskedFor /\ [Next]_vars => AskedFor'
<1> SUFFICES ASSUME Inv, AskedFor, [Next]_vars PROVE AskedFor'
  OBVIOUS
<1>1. /\ Shape /\ Owned /\ NoLocal \notin LocalIds
      /\ unit \in Unit /\ sweep \in Sweep /\ UnitCarries /\ SweepCarries
      /\ orders \in [Refs -> SharedOrder \cup {NoOrder}]
      /\ holds \in [LocalIds -> Hold]
  BY OrderAssumption DEF Inv, Shape, TypeOK
<1>2. \A r \in Refs : orders[r].local \in LocalIds \cup {NoLocal}
  BY <1>1 DEF SharedOrder, NoOrder
<1>3. CASE UNCHANGED <<orders, holds, unit, sweep>>
  BY <1>3 DEF AskedFor
<1>4. CASE Restart
  <2>1. NoOrder.local = NoLocal
    BY DEF NoOrder
  <2> QED
    BY <1>4, <2>1 DEF Restart, Outside, AskedFor, IdleUnit, IdleSweep
<1>5. ASSUME NEW r \in Refs, TakeUp(r)
      PROVE  AskedFor'
  <2>1. /\ orders' = [orders EXCEPT ![r] = Receive(clock)]
        /\ UNCHANGED <<holds, sweep>> /\ unit'.pc = "announce"
    BY <1>1, <1>5, TakeUpShape DEF IdleUnit
  <2>2. Receive(clock).local = NoLocal
    BY DEF Receive
  <2> QED  BY <1>1, <2>1, <2>2 DEF AskedFor
<1>6. CASE RaiseHeldOrder
  <2>1. PICK l \in LocalIds :
          /\ holds[l].ref = NoRef
          /\ \A k \in LocalIds :
               IF k = l THEN /\ holds'[k].ref = unit.ref
                             /\ holds'[k].status = "held"
                             /\ holds'[k].lines = Asked[unit.ref]
               ELSE holds'[k] = holds[k]
    BY <1>1, <1>6, RaiseShape
  <2>2. unit.ref \in Refs /\ Kind[unit.ref] = "translatable"
    BY <1>1, <1>6, RaiseShape DEF AskedFor
  <2>3. unit'.pc # "raise"
    <3>1. CASE Return
      BY <3>1 DEF Return, IdleUnit
    <3>2. ASSUME NEW k, NEW feasible, NEW pc \in {"check", "cancel"},
                 unit' = [unit EXCEPT !.local = k, !.feasible = feasible,
                            !.pc = pc]
          PROVE  unit'.pc = pc
      BY <1>1, <3>2 DEF Unit
    <3> QED  BY <1>6, <3>1, <3>2 DEF RaiseHeldOrder
  <2>4. \A k \in LocalIds :
          holds[k].status # "free" => holds'[k].status # "free"
    BY <2>1
  <2>5. UNCHANGED <<orders, sweep>>
    BY <1>6 DEF RaiseHeldOrder
  <2> QED
    BY <1>1, <1>2, <2>1, <2>2, <2>3, <2>4, <2>5 DEF AskedFor, SweepCarries
<1>7. ASSUME SweepStep \/ (Step /\ ~RaiseHeldOrder)
      PROVE  AskedFor'
  <2>1. \A k \in LocalIds :
          /\ holds[k].status # "free" <=> holds'[k].status # "free"
          /\ holds'[k].ref = holds[k].ref /\ holds'[k].lines = holds[k].lines
    BY <1>7, RaisedStays
  <2>2. \A q \in Refs : orders'[q].local # NoLocal =>
          /\ orders'[q].local \in LocalIds
          /\ holds[orders'[q].local].status # "free"
    <3>1. unit.local # NoLocal =>
            unit.local \in LocalIds /\ holds[unit.local].status # "free"
      BY <1>1 DEF Unit, Owned
    <3> QED  BY <1>2, <1>7, <3>1, LinksStay DEF AskedFor
  <2>3. unit'.pc = "raise" => Kind[unit'.ref] = "translatable"
    <3>1. CASE SweepStep
      BY <1>1, <3>1, SweepMoves DEF AskedFor
    <3>2. ASSUME NEW pc, pc # "raise",
                 unit' = [unit EXCEPT !.pc = pc] \/ Return
          PROVE  unit'.pc # "raise"
      BY <1>1, <3>2 DEF Unit, Return, IdleUnit
    <3>3. CASE PublishReceived
      <4>1. CASE Kind[unit.ref] = "translatable"
        <5>1. unit' = [unit EXCEPT !.pc = "raise"] \/ Return
          BY <3>3, <4>1 DEF PublishReceived
        <5> QED  BY <1>1, <4>1, <5>1 DEF Unit, Return, IdleUnit
      <4>2. CASE Kind[unit.ref] # "translatable"
        BY <3>2, <3>3, <4>2 DEF PublishReceived
      <4> QED  BY <4>1, <4>2
    <3>4. CASE CancelHeldOrder \/ CheckUnanswered
      BY <3>2, <3>4 DEF CancelHeldOrder, CheckUnanswered
    <3>5. CASE StoreAnswer \/ LinkOrder
      BY <3>2, <3>5 DEF StoreAnswer, LinkOrder
    <3>6. CASE PublishAnswer \/ SubmitAcknowledgement
      BY <3>2, <3>6 DEF PublishAnswer, SubmitAcknowledgement
    <3>7. CASE ReleaseHeldOrder \/ CallFails
      BY <3>2, <3>7 DEF ReleaseHeldOrder, CallFails
    <3> QED
      BY <1>7, <3>1, <3>3, <3>4, <3>5, <3>6, <3>7 DEF Step
  <2>4. sweep'.pc = "cancel" =>
          sweep'.local \in LocalIds /\ holds[sweep'.local].status # "free"
    <3>1. CASE Step
      BY <1>1, <3>1, UnitMoves DEF AskedFor, SweepCarries
    <3>2. ASSUME NEW listed, NextOrder(listed)
          PROVE  sweep'.pc # "cancel"
      BY <3>2 DEF NextOrder, IdleSweep
    <3>3. CASE ReadLink
      <4>1. sweep.ref \in Refs
        BY <1>1, <3>3 DEF ReadLink, SweepCarries
      <4>2. sweep'.pc = "cancel" =>
              /\ sweep'.local = orders[sweep.ref].local
              /\ orders[sweep.ref].local # NoLocal
        BY <1>1, <3>3 DEF ReadLink, Sweep
      <4> QED  BY <1>2, <4>1, <4>2 DEF AskedFor
    <3>4. CASE ListUnanswered \/ \E r \in Refs : ExamineOrder(r)
      BY <1>1, <3>2, <3>4 DEF ListUnanswered, ExamineOrder, Sweep
    <3>5. CASE MissCancelsHold \/ MissChecks \/ MissStores \/ MissPublishes
      BY <1>1, <3>2, <3>5
      DEF MissCancelsHold, MissChecks, MissStores, MissPublishes, Sweep
    <3> QED  BY <1>7, <3>1, <3>3, <3>4, <3>5 DEF SweepStep
  <2> QED  BY <2>1, <2>2, <2>3, <2>4 DEF AskedFor
<1> QED
  BY <1>3, <1>4, <1>5, <1>6, <1>7
  DEF Next, Receives, Tick, PollDemand, PassOver, Outside, vars

\* Stock is only ever held for the whole of a demand: what is asked for sums,
\* SKU by SKU, to the quantities of all its lines, each of them positive.
THEOREM HeldIsWhatWasAsked == Spec => []HeldInFull
<1>1. Inv /\ AskedFor => HeldInFull
  BY AskedInFull DEF AskedFor, HeldInFull
<1> QED  BY <1>1, InvAlways, AskedForInit, AskedForStep, PTL DEF Spec
=============================================================================
