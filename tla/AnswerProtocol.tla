--------------------------- MODULE AnswerProtocol ---------------------------
(***************************************************************************)
(* What the context promises the network of each order, whatever happens   *)
(* to pods, calls and the deadline: it is put on record before it is       *)
(* answered, the answer on record is final, the network is told that       *)
(* answer and at most once, and work reaches the floor only for an order   *)
(* the network was told yes.                                               *)
(***************************************************************************)
EXTENDS Sequences

CONSTANT Refs

VARIABLES
  status,  \* the answer on record
  told,    \* what the network was told, in order
  floor    \* the orders whose work was released

protocolVars == <<status, told, floor>>

ProtocolInit ==
  /\ status = [r \in Refs |-> "NONE"]
  /\ told = [r \in Refs |-> <<>>]
  /\ floor = {}

Take(r) ==
  /\ status[r] = "NONE"
  /\ status' = [status EXCEPT ![r] = "NEW"]
  /\ UNCHANGED <<told, floor>>

Answer(r) ==
  /\ status[r] = "NEW"
  /\ \E answer \in {"ACKNOWLEDGED", "REJECTED"} :
       status' = [status EXCEPT ![r] = answer]
  /\ UNCHANGED <<told, floor>>

Tell(r) ==
  /\ status[r] \in {"ACKNOWLEDGED", "REJECTED"}
  /\ told[r] = <<>>
  /\ told' = [told EXCEPT ![r] = <<status[r]>>]
  /\ UNCHANGED <<status, floor>>

Release(r) ==
  /\ told[r] = <<"ACKNOWLEDGED">>
  /\ floor' = floor \cup {r}
  /\ UNCHANGED <<status, told>>

ProtocolNext == \E r \in Refs : Take(r) \/ Answer(r) \/ Tell(r) \/ Release(r)

ProtocolSpec == ProtocolInit /\ [][ProtocolNext]_protocolVars
=============================================================================
