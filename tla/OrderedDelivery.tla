--------------------------- MODULE OrderedDelivery --------------------------
(***************************************************************************)
(* What the outbox promises the consumers of a topic: of every order they  *)
(* see, duplicates aside, exactly the events that were committed, in the   *)
(* order they were committed, each topic at a pace of its own.             *)
(***************************************************************************)
EXTENDS Naturals, Sequences

CONSTANTS Orders, Streams, Events

VARIABLES
  history,  \* the events committed of each order
  seen      \* the events seen of each order on each topic, duplicates aside

deliveryVars == <<history, seen>>

DeliveryInit ==
  /\ history = [o \in Orders |-> <<>>]
  /\ seen = [s \in Streams |-> [o \in Orders |-> <<>>]]

Commit(o) ==
  /\ \E e \in Events : history' = [history EXCEPT ![o] = Append(@, e)]
  /\ UNCHANGED seen

Deliver(s, o) ==
  LET n == Len(seen[s][o]) + 1 IN
  /\ n <= Len(history[o])
  /\ seen' = [seen EXCEPT ![s][o] = Append(@, history[o][n])]
  /\ UNCHANGED history

DeliveryNext ==
  \E o \in Orders : Commit(o) \/ \E s \in Streams : Deliver(s, o)

DeliverySpec == DeliveryInit /\ [][DeliveryNext]_deliveryVars
=============================================================================
