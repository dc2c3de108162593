---------------------------- MODULE NetworkOrder ----------------------------
(***************************************************************************)
(* The NetworkOrder aggregate (internal/domain/networkorder).  An order is *)
(* a record of the three facts the protocol depends on: the state of the   *)
(* answer, the order-management id it is linked to and the deadline of the *)
(* answer.  Lines, site and ship-by date travel with the order unchanged   *)
(* and are left out.  A method that can fail is two operators: the         *)
(* condition under which it succeeds and the order it leaves behind.       *)
(***************************************************************************)
EXTENDS Integers

CONSTANTS
  LocalIds,  \* ids order-management gives to the orders raised with it
  NoLocal,   \* the nil *LocalOrderId
  Window     \* AcknowledgementWindow, in ticks of the clock

ASSUME OrderAssumption == NoLocal \notin LocalIds /\ Window \in Nat

State == {"NEW", "ACKNOWLEDGED", "REJECTED", "CONFIRMED"}

\* What a lookup of an unknown reference returns (nil), kept in the shape of
\* an order so that every row of the table has the same fields.
NoOrder == [state |-> "NONE", local |-> NoLocal, acknowledgeBy |-> 0]

Order == [state : State, local : LocalIds \cup {NoLocal}, acknowledgeBy : Nat]

Exists(o) == o.state # "NONE"

\* Receive and ReceiveUntranslatable differ only in the lines they keep.
Receive(now) ==
  [state |-> "NEW", local |-> NoLocal, acknowledgeBy |-> now + Window]

ReceiveUntranslatable(now) == Receive(now)

\* Acknowledge and Reject succeed only here, else ErrAlreadyAnswered.
Unanswered(o) == o.state = "NEW"

Acknowledge(o) == [o EXCEPT !.state = "ACKNOWLEDGED"]

Reject(o) == [o EXCEPT !.state = "REJECTED"]

\* LinkLocalOrder succeeds only here, else ErrNotAcknowledged or
\* ErrLocalOrderAlreadyLinked.
Linkable(o) == o.state = "ACKNOWLEDGED" /\ o.local = NoLocal

LinkLocalOrder(o, id) == [o EXCEPT !.local = id]

\* Mutants: a miss at the very deadline; the comparison inverted.
OverdueAtDeadline(o, now) == o.state = "NEW" /\ now >= o.acknowledgeBy

OverdueBefore(o, now) == o.state = "NEW" /\ now < o.acknowledgeBy

\* The window has closed (strictly) with the order still unanswered.
AcknowledgementOverdue(o, now) == o.state = "NEW" /\ now > o.acknowledgeBy
=============================================================================
