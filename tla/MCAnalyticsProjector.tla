------------------------ MODULE MCAnalyticsProjector ------------------------
(***************************************************************************)
(* Instances of AnalyticsProjector for TLC: six events, one of them sent   *)
(* twice by the relay, one that is no CloudEvent, one with data that does  *)
(* not decode, one of a foreign type and one rejection without a counter.  *)
(***************************************************************************)
EXTENDS AnalyticsProjector, TLC

CONSTANTS a, b, c, d, e, f, q1, q2

Mixed ==
  a :> "received" @@ b :> "acknowledged" @@ c :> "poison" @@ d :> "garbled"
    @@ e :> "foreign" @@ f :> "odd"

\* a is of the first day, the rest of the second; b is answered two hours
\* after its receipt.
Times == a :> 1 @@ b :> 3 @@ c :> 3 @@ d :> 3 @@ e :> 3 @@ f :> 2

FirstOrder == [id \in {a, b, c, d, e, f} |-> a]

Receipts == [id \in {a, b, c, d, e, f} |-> 1]

TwoPartitions == q1 :> <<a, b, a, e, f>> @@ q2 :> <<c, d>>
=============================================================================
