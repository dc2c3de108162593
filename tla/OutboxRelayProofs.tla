--------------------------- MODULE OutboxRelayProofs --------------------------
(***************************************************************************)
(* Proofs about OutboxRelay, for any number of orders, writers and relays, *)
(* any batch size, failures and stopped pods: every variable keeps its     *)
(* type, what is marked was sent, the topics and the store agree, each     *)
(* duplicate has a failure behind it; and one relay, or relays whose       *)
(* passes do not overlap, over a broker that keeps its messages deliver    *)
(* the events of each order in order: they implement OrderedDelivery.      *)
(***************************************************************************)
EXTENDS OutboxRelay, FiniteSetTheorems, WellFoundedInduction, TLAPS

USE OutboxAssumption

-----------------------------------------------------------------------------
\* A nonempty set of natural numbers has a least element.
LEMMA Least ==
  ASSUME NEW S \in SUBSET Nat, S # {}
  PROVE  \E i \in S : \A j \in S : i <= j
<1> DEFINE R == {ss \in Nat \X Nat : ss[1] < ss[2]}
<1>1. IsWellFoundedOn(R, Nat)
  BY Zenon, NatLessThanWellFounded DEF OpToRel
<1> HIDE DEF R
<1>2. PICK i \in S : \A j \in S : ~(<<j, i>> \in R)
  BY <1>1, WFMin, Zenon
<1>3. \A j \in S : j < i => <<j, i>> \in R
  BY DEF R
<1>4. \A j \in S : ~(j < i)
  BY <1>2, <1>3, Zenon
<1> QED BY <1>4

\* The row a pass is at is its oldest.
LEMMA CurrentIsOldest ==
  ASSUME NEW p \in Relays, relay[p] \in Pass, relay[p].todo # {}
  PROVE  /\ Current(p) \in relay[p].todo
         /\ \A j \in relay[p].todo : Current(p) <= j
<1>1. \E i \in relay[p].todo : \A j \in relay[p].todo : i <= j
  BY Least DEF Pass
<1> QED BY <1>1 DEF Current

LEMMA TopicFacts == Topics = {"events", "analytics"} /\ Encoders \in Seq(Topics)
  BY DEF Topics, Encoders

\* Setting the status of some rows changes nothing else of the outbox.
LEMMA StatusSet ==
  ASSUME outbox \in Seq(Row), NEW ids,
         NEW s \in {"open", "gone", "pending", "published"},
         outbox' = SetStatus(ids, s)
  PROVE  /\ outbox' \in Seq(Row)
         /\ Ids' = Ids
         /\ \A i \in Ids :
              /\ outbox'[i].key = outbox[i].key
              /\ outbox'[i].topic = outbox[i].topic
              /\ outbox'[i].event = outbox[i].event
              /\ outbox'[i].status = IF i \in ids THEN s ELSE outbox[i].status
<1> DEFINE R(i) == IF i \in ids THEN [outbox[i] EXCEPT !.status = s]
                   ELSE outbox[i]
<1>1. outbox' = [i \in 1..Len(outbox) |-> R(i)] /\ Ids = 1..Len(outbox)
  BY DEF SetStatus, Ids
<1>2. \A i \in Ids : /\ R(i) \in Row
                     /\ R(i).key = outbox[i].key
                     /\ R(i).topic = outbox[i].topic
                     /\ R(i).event = outbox[i].event
                     /\ R(i).status = IF i \in ids THEN s ELSE outbox[i].status
  <2>1. TAKE i \in Ids
  <2>2. outbox[i] \in Row
    BY <1>1
  <2>3. CASE i \in ids
    <3>1. R(i) = [outbox[i] EXCEPT !.status = s]
      BY <2>3
    <3> HIDE DEF R
    <3> QED BY <2>2, <2>3, <3>1 DEF Row
  <2>4. CASE i \notin ids
    BY <2>2, <2>4
  <2> QED BY <2>3, <2>4
<1> HIDE DEF R
<1>3. outbox' \in Seq(Row) /\ DOMAIN outbox' = 1..Len(outbox)
  BY <1>1, <1>2
<1> QED BY <1>1, <1>2, <1>3 DEF Ids

\* An insert draws the next id and leaves the other rows alone.
LEMMA RowInserted ==
  ASSUME outbox \in Seq(Row), NEW row \in Row, outbox' = Append(outbox, row)
  PROVE  /\ outbox' \in Seq(Row)
         /\ Len(outbox) + 1 \notin Ids
         /\ Ids' = Ids \cup {Len(outbox) + 1}
         /\ \A i \in Ids : outbox'[i] = outbox[i] /\ i < Len(outbox) + 1
         /\ outbox'[Len(outbox) + 1] = row
  BY DEF Ids

-----------------------------------------------------------------------------
(***************************************************************************)
(* The shape of the state.  TypeOK is not inductive: a row is inserted     *)
(* under the key of its unit, and a pass sends the oldest of its rows, so  *)
(* it must have one.                                                       *)
(***************************************************************************)
WorkOK == \A w \in Writers : work[w].left # <<>> => work[w].key \in Keys

PassOK ==
  \A p \in Relays :
    /\ Claimed(p) \subseteq Ids
    /\ relay[p].pc \in {"send", "mark", "record"} => relay[p].todo # {}
    /\ relay[p].pc = "idle" => relay[p] = NoPass

Shape == TypeOK /\ WorkOK /\ PassOK

LEMMA NoPassType ==
  /\ NoPass \in Pass /\ NoWork \in Work
  /\ NoPass.pc = "idle" /\ NoPass.todo = {} /\ NoPass.done = {}
  /\ NoWork.key = NoKey /\ NoWork.left = <<>>
  BY DEF NoPass, Pass, NoWork, Work

LEMMA ShapeInit == Init => Shape
  BY NoPassType
  DEF Init, Shape, TypeOK, WorkOK, PassOK, Claimed, NoPass, NoWork

\* A unit's next row is a row.
LEMMA NextRow ==
  ASSUME Shape, NEW w \in Writers, work[w].left # <<>>
  PROVE  /\ [key |-> work[w].key, topic |-> Head(work[w].left),
             event |-> work[w].event, status |-> "open"] \in Row
         /\ work[w].key \in Keys
         /\ Tail(work[w].left) \in Seq(Topics)
<1>1. work[w] \in Work
  BY DEF Shape, TypeOK
<1> QED BY <1>1 DEF Work, Row, Shape, WorkOK

\* An insert, as a unit of work makes it.
LEMMA WorkInserts ==
  ASSUME Shape, NEW w \in Writers, Enqueue(w)
  PROVE  LET new == Len(outbox) + 1 IN
         /\ outbox' \in Seq(Row)
         /\ Ids' = Ids \cup {new} /\ new \notin Ids
         /\ \A i \in Ids : outbox'[i] = outbox[i] /\ i < new
         /\ outbox'[new].key = work[w].key
         /\ outbox'[new].topic = Head(work[w].left)
         /\ outbox'[new].event = work[w].event
         /\ outbox'[new].status = "open"
<1> DEFINE row == [key |-> work[w].key, topic |-> Head(work[w].left),
                   event |-> work[w].event, status |-> "open"]
<1>1. row \in Row /\ outbox' = Append(outbox, row)
  BY NextRow DEF Enqueue
<1>2. /\ row.key = work[w].key /\ row.topic = Head(work[w].left)
      /\ row.event = work[w].event /\ row.status = "open"
  OBVIOUS
<1> HIDE DEF row
<1> QED BY <1>1, <1>2, RowInserted DEF Shape, TypeOK

\* The pass of p becomes v, well formed, over rows it already had or just
\* claimed.
LEMMA PassReplaced ==
  ASSUME Shape, NEW p \in Relays, NEW v \in Pass,
         relay' = [relay EXCEPT ![p] = v],
         v.todo \cup v.done \subseteq Ids', Ids' = Ids,
         v.pc \in {"send", "mark", "record"} => v.todo # {},
         v.pc = "idle" => v = NoPass
  PROVE  relay' \in [Relays -> Pass] /\ PassOK'
<1>1. relay \in [Relays -> Pass]
  BY DEF Shape, TypeOK
<1>2. \A q \in Relays : relay'[q] = IF q = p THEN v ELSE relay[q]
  BY <1>1
<1> QED BY <1>1, <1>2 DEF Shape, PassOK, Claimed

\* What a pass becomes at each call, and the row it is at.
LEMMA PassGoesOn ==
  ASSUME Shape, NEW p \in Relays, relay[p].pc \in {"send", "mark", "record"}
  PROVE  /\ Current(p) \in relay[p].todo
         /\ \A j \in relay[p].todo : Current(p) <= j
         /\ Current(p) \in Ids /\ Ids \subseteq Nat
<1>1. relay[p] \in Pass /\ relay[p].todo # {} /\ Claimed(p) \subseteq Ids
  BY DEF Shape, TypeOK, PassOK
<1> QED BY <1>1, CurrentIsOldest DEF Claimed, Ids, Shape, TypeOK

LEMMA ShapeStep == Shape /\ [Next]_vars => Shape'
<1> SUFFICES ASSUME Shape, [Next]_vars PROVE Shape'
  OBVIOUS
<1>t. TypeOK /\ WorkOK /\ PassOK
  BY DEF Shape
<1>1. ASSUME NEW w \in Writers, NEW k \in Keys, Begin(w, k)
      PROVE  Shape'
  <2>1. [key |-> k, event |-> raised + 1, left |-> Encoders] \in Work
    BY <1>t, TopicFacts DEF Work, TypeOK
  <2> QED BY <1>t, <1>1, <2>1
          DEF Begin, RelaySide, Shape, TypeOK, WorkOK, PassOK, Claimed, Ids
<1>2. ASSUME NEW w \in Writers, Enqueue(w)
      PROVE  Shape'
  <2>1. /\ outbox' \in Seq(Row) /\ Ids \subseteq Ids'
        /\ work[w].key \in Keys /\ Tail(work[w].left) \in Seq(Topics)
    BY <1>t, <1>2, NextRow, RowInserted DEF Enqueue, TypeOK
  <2>2. work' \in [Writers -> Work] /\ WorkOK'
    BY <1>t, <1>2, <2>1 DEF Enqueue, TypeOK, Work, WorkOK
  <2>3. PassOK'
    BY <1>t, <1>2, <2>1 DEF Enqueue, RelaySide, PassOK, Claimed
  <2> QED BY <1>t, <1>2, <2>1, <2>2, <2>3 DEF Enqueue, RelaySide, Shape, TypeOK
<1>3. ASSUME NEW w \in Writers, CommitWork(w) \/ RollbackWork(w)
      PROVE  Shape'
  <2>1. outbox' \in Seq(Row) /\ Ids' = Ids
    BY <1>t, <1>3, StatusSet DEF CommitWork, RollbackWork, TypeOK
  <2>2. work' \in [Writers -> Work] /\ WorkOK'
    <3>1. work' = [work EXCEPT ![w] = NoWork] /\ work \in [Writers -> Work]
      BY <1>t, <1>3 DEF CommitWork, RollbackWork, TypeOK
    <3>2. NoWork \in Work /\ NoWork.left = <<>>
      BY NoPassType DEF NoWork
    <3>3. \A v \in Writers : work'[v] = IF v = w THEN NoWork ELSE work[v]
      BY <3>1
    <3> QED BY <1>t, <3>1, <3>2, <3>3 DEF WorkOK
  <2>3. PassOK'
    BY <1>t, <1>3, <2>1
    DEF CommitWork, RollbackWork, RelaySide, PassOK, Claimed
  <2>4. saved' \subseteq Nat /\ raised' = raised
    BY <1>t, <1>3 DEF CommitWork, RollbackWork, TypeOK, Work
  <2> QED BY <1>t, <1>3, <2>1, <2>2, <2>3, <2>4
          DEF CommitWork, RollbackWork, RelaySide, Shape, TypeOK
<1>4. ASSUME NEW p \in Relays, Claim(p)
      PROVE  Shape'
  <2>1. PICK b \in OldestFirst(p) :
          /\ b # {}
          /\ relay' = [relay EXCEPT ![p] =
               [pc |-> "send", todo |-> b, done |-> {}]]
    BY <1>4 DEF Claim
  <2>2. b \subseteq Ids /\ Ids \subseteq Nat
    BY <1>t, <2>1 DEF OldestFirst, Claimable, Ids, TypeOK
  <2>3. [pc |-> "send", todo |-> b, done |-> {}] \in Pass
    BY <2>2 DEF Pass
  <2>4. relay' \in [Relays -> Pass] /\ PassOK'
    BY <1>4, <2>1, <2>2, <2>3, PassReplaced DEF Claim, Ids
  <2> QED BY <1>t, <1>4, <2>4 DEF Claim, Shape, TypeOK, WorkOK
<1>5. ASSUME NEW p \in Relays,
             \/ SendSucceeds(p) \/ SendDropped(p) \/ SendFails(p)
             \/ SendReplyLost(p)
      PROVE  Shape'
  <2>1. PICK pc \in {"send", "mark", "record"} :
          relay' = [relay EXCEPT ![p].pc = pc]
    BY <1>5 DEF SendSucceeds, SendDropped, SendFails, SendReplyLost
  <2>2. relay[p].pc = "send" /\ outbox' = outbox
    BY <1>5 DEF SendSucceeds, SendDropped, SendFails, SendReplyLost
  <2>3. relay[p] \in Pass /\ relay[p].todo # {} /\ Claimed(p) \subseteq Ids
    BY <1>t, <2>2 DEF TypeOK, PassOK
  <2> DEFINE v == [relay[p] EXCEPT !.pc = pc]
  <2>4. /\ v \in Pass /\ v.pc = pc
        /\ v.todo = relay[p].todo /\ v.done = relay[p].done
    BY <2>3 DEF Pass
  <2>5. relay' = [relay EXCEPT ![p] = v]
    BY <2>1
  <2> HIDE DEF v
  <2>6. relay' \in [Relays -> Pass] /\ PassOK'
    BY <2>2, <2>3, <2>4, <2>5, PassReplaced DEF Claimed, Ids
  <2>7. Current(p) \in Nat
    BY <2>2, PassGoesOn
  <2>8. /\ log' = log \/ log' = Append(log, Current(p))
        /\ dropped' = dropped \/ dropped' = dropped \cup {Current(p)}
        /\ failures' = failures \/ failures' = failures + 1
    BY <1>5
    DEF SendSucceeds, SendDropped, SendFails, SendReplyLost, Failure
  <2>9. log' \in Seq(Nat) /\ dropped' \subseteq Nat /\ failures' \in Nat
    <3>1. log \in Seq(Nat) /\ dropped \subseteq Nat /\ failures \in Nat
      BY <1>t DEF TypeOK
    <3>2. Append(log, Current(p)) \in Seq(Nat)
      BY <2>7, <3>1
    <3>3. log' \in Seq(Nat)
      BY <2>8, <3>1, <3>2
    <3>4. dropped' \subseteq Nat
      BY <2>7, <2>8, <3>1
    <3>5. failures' \in Nat
      BY <2>8, <3>1
    <3> QED BY <3>3, <3>4, <3>5
  <2> QED BY <1>t, <1>5, <2>6, <2>9
          DEF SendSucceeds, SendDropped, SendFails, SendReplyLost,
              Shape, TypeOK, WorkOK
<1>6. ASSUME NEW p \in Relays, Mark(p)
      PROVE  Shape'
  <2> DEFINE i == Current(p)
             v == [pc |-> IF relay[p].todo = {i} THEN "commit" ELSE "send",
                   todo |-> relay[p].todo \ {i},
                   done |-> relay[p].done \cup {i}]
  <2>1. relay[p].pc = "mark" /\ relay' = [relay EXCEPT ![p] = v]
    BY <1>6 DEF Mark
  <2>2. i \in relay[p].todo /\ i \in Ids /\ Ids \subseteq Nat
    BY <2>1, PassGoesOn
  <2>3. relay[p] \in Pass /\ Claimed(p) \subseteq Ids
    BY <1>t DEF TypeOK, PassOK
  <2>4. v \in Pass /\ v.todo \cup v.done \subseteq Ids
    BY <2>2, <2>3 DEF Pass, Claimed
  <2>5. v.pc \in {"send", "mark", "record"} => v.todo # {}
    BY <2>2
  <2>6. v.pc # "idle"
    OBVIOUS
  <2>7. Ids' = Ids
    BY <1>6 DEF Mark, Ids
  <2> HIDE DEF v, i
  <2>8. relay' \in [Relays -> Pass] /\ PassOK'
    BY <2>1, <2>4, <2>5, <2>6, <2>7, PassReplaced
  <2> QED BY <1>t, <1>6, <2>8 DEF Mark, Shape, TypeOK, WorkOK
<1>7. ASSUME NEW p \in Relays,
             \/ RecordSendFailure(p) \/ CommitPass(p) \/ PassBreaksOff(p)
             \/ Shutdown(p)
      PROVE  Shape'
  <2>1. relay' = [relay EXCEPT ![p] = NoPass]
    BY <1>7 DEF RecordSendFailure, CommitPass, PassBreaksOff, Shutdown
  <2>2. outbox' \in Seq(Row) /\ Ids' = Ids
    BY <1>t, <1>7, StatusSet
    DEF RecordSendFailure, CommitPass, PassBreaksOff, Shutdown, TypeOK, Ids
  <2>3. relay' \in [Relays -> Pass] /\ PassOK'
    BY <2>1, <2>2, NoPassType, PassReplaced DEF NoPass
  <2>4. failures' \in Nat /\ stopped' \subseteq Relays
    BY <1>t, <1>7
    DEF RecordSendFailure, CommitPass, PassBreaksOff, Shutdown, Failure, TypeOK
  <2> QED BY <1>t, <1>7, <2>2, <2>3, <2>4
          DEF RecordSendFailure, CommitPass, PassBreaksOff, Shutdown,
              Shape, TypeOK, WorkOK
<1>8. CASE UNCHANGED vars
  BY <1>t, <1>8 DEF vars, Shape, TypeOK, WorkOK, PassOK, Claimed, Ids
<1> QED BY <1>1, <1>2, <1>3, <1>4, <1>5, <1>6, <1>7, <1>8
        DEF Next, Write, Step, EmptyPass

LEMMA AlwaysShape == Spec => []Shape
  BY ShapeInit, ShapeStep, PTL DEF Spec

\* Every variable keeps its type: in particular the key of a row is an
\* order's and a pass never sends from an empty batch.
THEOREM TypeCorrect == Spec => []TypeOK
<1>1. Shape => TypeOK
  BY DEF Shape
<1> QED BY <1>1, AlwaysShape, PTL

-----------------------------------------------------------------------------
(***************************************************************************)
(* What is marked was sent.  A pass marks a row only after Send took it,   *)
(* and its marks become durable later, possibly many calls later.          *)
(***************************************************************************)
Sent(i) == Logged(i) \/ i \in dropped

MarksSent ==
  \A p \in Relays :
    /\ \A i \in relay[p].done : Sent(i)
    /\ relay[p].pc = "mark" => Sent(Current(p))

SentFirst == PublishedWasSent /\ MarksSent

\* A message stored is one id more on the log, and the others stay.
LEMMA LogGrows ==
  ASSUME log \in Seq(Nat), NEW c \in Nat, log' = Append(log, c)
  PROVE  \A i : Logged(i)' <=> Logged(i) \/ i = c
<1>1. /\ DOMAIN log' = DOMAIN log \cup {Len(log) + 1}
      /\ \A n \in DOMAIN log : log'[n] = log[n]
      /\ log'[Len(log) + 1] = c
  OBVIOUS
<1> QED BY <1>1, Zenon DEF Logged

\* What was sent stays sent.
LEMMA SentStays == Shape /\ [Next]_vars => \A i : Sent(i) => Sent(i)'
<1> SUFFICES ASSUME Shape, [Next]_vars PROVE \A i : Sent(i) => Sent(i)'
  OBVIOUS
<1>1. CASE log' = log /\ dropped \subseteq dropped'
  BY <1>1 DEF Sent, Logged
<1>2. ASSUME NEW p \in Relays, SendSucceeds(p) \/ SendReplyLost(p)
      PROVE  \A i : Sent(i) => Sent(i)'
  <2>1. Current(p) \in Nat
    BY <1>2, PassGoesOn DEF SendSucceeds, SendReplyLost
  <2>2. log \in Seq(Nat) /\ log' = Append(log, Current(p)) /\ dropped' = dropped
    BY <1>2 DEF SendSucceeds, SendReplyLost, Shape, TypeOK
  <2>3. \A i : Logged(i) => Logged(i)'
    BY <2>1, <2>2, LogGrows
  <2> QED BY <2>2, <2>3 DEF Sent
<1>3. CASE \E p \in Relays :
             \/ EmptyPass(p) \/ Claim(p) \/ SendDropped(p) \/ SendFails(p)
             \/ Step(p) \/ PassBreaksOff(p) \/ Shutdown(p)
  BY <1>1, <1>3
  DEF EmptyPass, Claim, SendDropped, SendFails, Step, Mark, RecordSendFailure,
      CommitPass, PassBreaksOff, Shutdown, vars
<1>4. CASE (\E w \in Writers : Write(w)) \/ UNCHANGED vars
  BY <1>1, <1>4
  DEF Write, Begin, Enqueue, CommitWork, RollbackWork, RelaySide, vars
<1> QED BY <1>2, <1>3, <1>4 DEF Next

\* The other relays are not disturbed by a step of p.
LEMMA OthersMarksSent ==
  ASSUME Shape, [Next]_vars, MarksSent, NEW p \in Relays, NEW v,
         relay' = [relay EXCEPT ![p] = v],
         \A i \in v.done : Sent(i)',
         v.pc = "mark" => Sent(Current(p))'
  PROVE  MarksSent'
<1>1. \A q \in Relays : relay'[q] = IF q = p THEN v ELSE relay[q]
  BY DEF Shape, TypeOK
<1>2. ASSUME NEW q \in Relays, q # p
      PROVE  /\ \A i \in relay'[q].done : Sent(i)'
             /\ relay'[q].pc = "mark" => Sent(Current(q))'
  <2>1. relay'[q] = relay[q]
    BY <1>1, <1>2
  <2>2. Current(q)' = Current(q)
    BY <2>1 DEF Current
  <2>3. \A i : Sent(i) => Sent(i)'
    BY SentStays
  <2>4. Sent(Current(q)) => Sent(Current(q))'
    BY <2>2, <2>3 DEF Sent, Logged
  <2> QED BY <2>1, <2>3, <2>4 DEF MarksSent
<1>3. /\ \A i \in relay'[p].done : Sent(i)'
      /\ relay'[p].pc = "mark" => Sent(Current(p))'
  BY <1>1
<1> QED BY <1>2, <1>3 DEF MarksSent

LEMMA SentFirstInit == Init => SentFirst
  BY DEF Init, SentFirst, PublishedWasSent, MarksSent, Ids, NoPass

LEMMA SentFirstStep == Shape /\ SentFirst /\ [Next]_vars => SentFirst'
<1> SUFFICES ASSUME Shape, SentFirst, [Next]_vars PROVE SentFirst'
  OBVIOUS
<1>t. TypeOK /\ PublishedWasSent /\ MarksSent
  BY DEF Shape, SentFirst
<1>s. \A i : Sent(i) => Sent(i)'
  BY SentStays
<1>p. ASSUME \A i \in Ids' : outbox'[i].status = "published" =>
               i \in Ids /\ (outbox[i].status = "published" \/ Sent(i))
      PROVE  PublishedWasSent'
  <2>1. \A i \in Ids' : outbox'[i].status = "published" => Sent(i)
    BY <1>p, <1>t DEF PublishedWasSent, Sent
  <2> QED BY <2>1, <1>s DEF PublishedWasSent, Sent
<1>m. ASSUME relay' = relay
      PROVE  MarksSent'
  <2>1. \A q \in Relays : Current(q)' = Current(q)
    BY <1>m DEF Current
  <2> QED BY <1>m, <1>s, <1>t, <2>1 DEF MarksSent, Sent, Logged
<1>1. ASSUME NEW w \in Writers, Write(w)
      PROVE  SentFirst'
  <2>1. relay' = relay
    BY <1>1 DEF Write, Begin, Enqueue, CommitWork, RollbackWork, RelaySide
  <2>2. CASE Begin(w, CHOOSE k \in Keys : Begin(w, k)) \/ outbox' = outbox
    BY <1>p, <1>m, <2>1, <2>2 DEF Begin, SentFirst, Ids
  <2>3. CASE Enqueue(w)
    <3>1. /\ Ids' = Ids \cup {Len(outbox) + 1}
          /\ \A i \in Ids : outbox'[i] = outbox[i]
          /\ outbox'[Len(outbox) + 1].status = "open"
      BY <1>t, <2>3, WorkInserts
    <3> QED BY <1>p, <1>m, <2>1, <3>1 DEF SentFirst
  <2>4. CASE CommitWork(w) \/ RollbackWork(w)
    <3>1. /\ Ids' = Ids
          /\ \A i \in Ids : outbox'[i].status # outbox[i].status =>
                              outbox'[i].status \in {"pending", "gone"}
      BY <1>t, <2>4, StatusSet DEF CommitWork, RollbackWork, TypeOK
    <3> QED BY <1>p, <1>m, <2>1, <3>1 DEF SentFirst
  <2> QED BY <1>1, <2>2, <2>3, <2>4 DEF Write, Begin
<1>2. ASSUME NEW p \in Relays,
             \/ Claim(p) \/ SendFails(p) \/ SendReplyLost(p)
             \/ PassBreaksOff(p) \/ Shutdown(p)
      PROVE  SentFirst'
  <2>1. outbox' = outbox
    BY <1>2 DEF Claim, SendFails, SendReplyLost, PassBreaksOff, Shutdown
  <2>2. PublishedWasSent'
    BY <1>p, <2>1 DEF Ids
  <2>3. PICK v : /\ relay' = [relay EXCEPT ![p] = v]
                 /\ v.done \subseteq relay[p].done /\ v.pc # "mark"
    <3>1. CASE SendFails(p) \/ SendReplyLost(p)
      <4>1. PICK pc \in {"send", "record"} :
              relay' = [relay EXCEPT ![p].pc = pc]
        BY <3>1 DEF SendFails, SendReplyLost
      <4> DEFINE v == [relay[p] EXCEPT !.pc = pc]
      <4>2. relay[p] \in Pass
        BY <1>t DEF TypeOK
      <4>3. v.done = relay[p].done /\ v.pc # "mark"
        BY <4>2 DEF Pass
      <4> QED BY <4>1, <4>3
    <3>2. CASE PassBreaksOff(p) \/ Shutdown(p)
      BY <3>2, NoPassType DEF PassBreaksOff, Shutdown
    <3>3. CASE Claim(p)
      BY <3>3 DEF Claim
    <3> QED BY <1>2, <3>1, <3>2, <3>3
  <2>4. \A i \in v.done : Sent(i)'
    BY <1>s, <1>t, <2>3 DEF MarksSent
  <2>5. MarksSent'
    BY <1>t, <2>3, <2>4, OthersMarksSent
  <2> QED BY <2>2, <2>5 DEF SentFirst
<1>3. ASSUME NEW p \in Relays, SendSucceeds(p) \/ SendDropped(p)
      PROVE  SentFirst'
  <2>1. PublishedWasSent'
    BY <1>3, <1>p DEF SendSucceeds, SendDropped, Ids
  <2> DEFINE v == [relay[p] EXCEPT !.pc = "mark"]
  <2>2. relay[p] \in Pass /\ relay \in [Relays -> Pass]
    BY <1>t DEF TypeOK
  <2>3. relay' = [relay EXCEPT ![p] = v]
    BY <1>3 DEF SendSucceeds, SendDropped
  <2>4. v.done = relay[p].done /\ v.todo = relay[p].todo
    BY <2>2 DEF Pass
  <2> HIDE DEF v
  <2>5. Current(p)' = Current(p)
    BY <2>2, <2>3, <2>4 DEF Current
  <2>6. Current(p) \in Nat
    BY <1>3, PassGoesOn DEF SendSucceeds, SendDropped
  <2>7. Sent(Current(p))'
    <3>1. CASE SendSucceeds(p)
      <4>1. log \in Seq(Nat) /\ log' = Append(log, Current(p))
        BY <1>t, <3>1 DEF SendSucceeds, TypeOK
      <4>2. \A i : i = Current(p) => Logged(i)'
        BY <2>6, <4>1, LogGrows
      <4> QED BY <2>5, <4>2 DEF Sent, Logged
    <3>2. CASE SendDropped(p)
      BY <2>5, <3>2 DEF SendDropped, Sent
    <3> QED BY <1>3, <3>1, <3>2
  <2>8. \A i \in v.done : Sent(i)'
    BY <1>s, <1>t, <2>4 DEF MarksSent
  <2>9. MarksSent'
    BY <1>t, <2>3, <2>7, <2>8, OthersMarksSent
  <2> QED BY <2>1, <2>9 DEF SentFirst
<1>4. ASSUME NEW p \in Relays, Mark(p)
      PROVE  SentFirst'
  <2>1. PublishedWasSent'
    BY <1>4, <1>p DEF Mark, Ids
  <2>2. Sent(Current(p))
    BY <1>4, <1>t DEF Mark, MarksSent
  <2> DEFINE v == [pc |-> IF relay[p].todo = {Current(p)} THEN "commit"
                          ELSE "send",
                   todo |-> relay[p].todo \ {Current(p)},
                   done |-> relay[p].done \cup {Current(p)}]
  <2>3. /\ relay' = [relay EXCEPT ![p] = v]
        /\ v.done = relay[p].done \cup {Current(p)}
        /\ v.pc # "mark"
    BY <1>4 DEF Mark
  <2> HIDE DEF v
  <2>4. \A i \in v.done : Sent(i)'
    BY <1>s, <1>t, <2>2, <2>3 DEF MarksSent
  <2>5. MarksSent'
    BY <1>t, <2>3, <2>4, OthersMarksSent
  <2> QED BY <2>1, <2>5 DEF SentFirst
<1>5. ASSUME NEW p \in Relays, RecordSendFailure(p) \/ CommitPass(p)
      PROVE  SentFirst'
  <2>1. /\ outbox' = SetStatus(relay[p].done, "published")
        /\ relay' = [relay EXCEPT ![p] = NoPass]
    BY <1>5 DEF RecordSendFailure, CommitPass
  <2>2. /\ Ids' = Ids
        /\ \A i \in Ids : outbox'[i].status =
             IF i \in relay[p].done THEN "published" ELSE outbox[i].status
    BY <1>t, <2>1, StatusSet DEF TypeOK
  <2>3. PublishedWasSent'
    BY <1>p, <1>t, <2>2 DEF MarksSent
  <2>4. MarksSent'
    BY <1>t, <2>1, NoPassType, OthersMarksSent
  <2> QED BY <2>3, <2>4 DEF SentFirst
<1>6. CASE UNCHANGED vars
  BY <1>m, <1>p, <1>6 DEF vars, SentFirst, Ids
<1> QED BY <1>1, <1>2, <1>3, <1>4, <1>5, <1>6 DEF Next, Step, EmptyPass

\* A row is only marked once it was sent, whichever relay marks it and
\* whatever broke off before.
THEOREM MarkedAfterSending == Spec => []PublishedWasSent
<1>1. Spec => []SentFirst
  BY AlwaysShape, SentFirstInit, SentFirstStep, PTL DEF Spec
<1>2. SentFirst => PublishedWasSent
  BY DEF SentFirst
<1> QED BY <1>1, <1>2, PTL

-----------------------------------------------------------------------------
(***************************************************************************)
(* Row locks.  FOR UPDATE SKIP LOCKED keeps a row in one pass only, and a  *)
(* row that a pass holds stays pending until that pass ends.               *)
(***************************************************************************)
Exclusive ==
  /\ \A p \in Relays :
       /\ \A i \in Claimed(p) : outbox[i].status = "pending"
       /\ relay[p].todo \cap relay[p].done = {}
  /\ \A p, q \in Relays : p # q => Claimed(p) \cap Claimed(q) = {}

\* p's pass becomes v, over rows that are pending and that no other pass has,
\* and the rows of other passes keep their status.
LEMMA ClaimReplaced ==
  ASSUME Shape, Exclusive, NEW p \in Relays, NEW v,
         relay' = [relay EXCEPT ![p] = v],
         v.todo \cap v.done = {},
         \A i \in v.todo \cup v.done :
           /\ outbox'[i].status = "pending"
           /\ \A q \in Relays \ {p} : i \notin Claimed(q),
         \A q \in Relays \ {p} : \A i \in Claimed(q) :
           outbox'[i].status = "pending"
  PROVE  Exclusive'
<1>1. \A q \in Relays : relay'[q] = IF q = p THEN v ELSE relay[q]
  BY DEF Shape, TypeOK
<1>2. /\ Claimed(p)' = v.todo \cup v.done
      /\ \A q \in Relays \ {p} : Claimed(q)' = Claimed(q)
  BY <1>1 DEF Claimed
<1>3. \A q \in Relays :
        /\ \A i \in Claimed(q)' : outbox'[i].status = "pending"
        /\ relay'[q].todo \cap relay'[q].done = {}
  BY <1>1, <1>2 DEF Exclusive
<1>4. \A q, r \in Relays : q # r => Claimed(q)' \cap Claimed(r)' = {}
  BY <1>2 DEF Exclusive
<1> QED BY <1>3, <1>4 DEF Exclusive

LEMMA ExclusiveInit == Init => Exclusive
  BY NoPassType DEF Init, Exclusive, Claimed

LEMMA ExclusiveStep == Shape /\ Exclusive /\ [Next]_vars => Exclusive'
<1> SUFFICES ASSUME Shape, Exclusive, [Next]_vars PROVE Exclusive'
  OBVIOUS
<1>t. TypeOK /\ PassOK
  BY DEF Shape
<1>u. ASSUME relay' = relay,
             \A i \in Ids : outbox[i].status = "pending" =>
                              outbox'[i].status = "pending"
      PROVE  Exclusive'
  BY <1>t, <1>u DEF Exclusive, Claimed, PassOK
<1>1. ASSUME NEW w \in Writers, Write(w)
      PROVE  Exclusive'
  <2>1. relay' = relay
    BY <1>1 DEF Write, Begin, Enqueue, CommitWork, RollbackWork, RelaySide
  <2>2. CASE \E k \in Keys : Begin(w, k)
    BY <1>u, <2>1, <2>2 DEF Begin
  <2>3. CASE Enqueue(w)
    BY <1>u, <2>1, <2>3, WorkInserts
  <2>4. CASE CommitWork(w) \/ RollbackWork(w)
    <3>1. PICK s \in {"pending", "gone"} : outbox' = SetStatus(RowsOf(w), s)
      BY <2>4 DEF CommitWork, RollbackWork
    <3>2. \A i \in Ids : outbox'[i].status =
                           IF i \in RowsOf(w) THEN s ELSE outbox[i].status
      BY <1>t, <3>1, StatusSet DEF TypeOK
    <3>3. \A i \in RowsOf(w) : outbox[i].status = "open"
      BY DEF RowsOf
    <3> QED BY <1>u, <2>1, <3>2, <3>3
  <2> QED BY <1>1, <2>2, <2>3, <2>4 DEF Write
<1>2. ASSUME NEW p \in Relays, Claim(p)
      PROVE  Exclusive'
  <2>1. PICK b \in OldestFirst(p) :
          relay' = [relay EXCEPT ![p] =
            [pc |-> "send", todo |-> b, done |-> {}]]
    BY <1>2 DEF Claim
  <2>2. outbox' = outbox
    BY <1>2 DEF Claim
  <2>3. \A i \in b : /\ outbox[i].status = "pending"
                     /\ \A q \in Relays \ {p} : i \notin Claimed(q)
    BY <2>1 DEF OldestFirst, Claimable
  <2> QED BY <2>1, <2>2, <2>3, ClaimReplaced DEF Exclusive
<1>3. ASSUME NEW p \in Relays,
             \/ SendSucceeds(p) \/ SendDropped(p) \/ SendFails(p)
             \/ SendReplyLost(p)
      PROVE  Exclusive'
  <2>1. PICK pc \in {"send", "mark", "record"} :
          relay' = [relay EXCEPT ![p].pc = pc]
    BY <1>3 DEF SendSucceeds, SendDropped, SendFails, SendReplyLost
  <2>2. outbox' = outbox
    BY <1>3 DEF SendSucceeds, SendDropped, SendFails, SendReplyLost
  <2> DEFINE v == [relay[p] EXCEPT !.pc = pc]
  <2>3. relay[p] \in Pass
    BY <1>t DEF TypeOK
  <2>4. v.todo = relay[p].todo /\ v.done = relay[p].done
    BY <2>3 DEF Pass
  <2>5. relay' = [relay EXCEPT ![p] = v]
    BY <2>1
  <2> HIDE DEF v
  <2>6. v.todo \cup v.done = Claimed(p) /\ v.todo \cap v.done = {}
    BY <2>4 DEF Claimed, Exclusive
  <2>7. \A i \in Claimed(p) :
          /\ outbox[i].status = "pending"
          /\ \A q \in Relays \ {p} : i \notin Claimed(q)
    BY DEF Exclusive
  <2>8. \A q \in Relays \ {p} : \A i \in Claimed(q) :
          outbox[i].status = "pending"
    BY DEF Exclusive
  <2> QED BY <2>2, <2>5, <2>6, <2>7, <2>8, ClaimReplaced
<1>4. ASSUME NEW p \in Relays, Mark(p)
      PROVE  Exclusive'
  <2> DEFINE i == Current(p)
             v == [pc |-> IF relay[p].todo = {i} THEN "commit" ELSE "send",
                   todo |-> relay[p].todo \ {i},
                   done |-> relay[p].done \cup {i}]
  <2>1. relay' = [relay EXCEPT ![p] = v] /\ outbox' = outbox
    BY <1>4 DEF Mark
  <2>2. i \in relay[p].todo
    BY <1>4, PassGoesOn DEF Mark
  <2>3. v.todo = relay[p].todo \ {i} /\ v.done = relay[p].done \cup {i}
    OBVIOUS
  <2> HIDE DEF v, i
  <2>4. v.todo \cup v.done = Claimed(p) /\ v.todo \cap v.done = {}
    BY <2>2, <2>3 DEF Claimed, Exclusive
  <2>5. \A j \in Claimed(p) :
          /\ outbox[j].status = "pending"
          /\ \A q \in Relays \ {p} : j \notin Claimed(q)
    BY DEF Exclusive
  <2>6. \A q \in Relays \ {p} : \A j \in Claimed(q) :
          outbox[j].status = "pending"
    BY DEF Exclusive
  <2> QED BY <2>1, <2>4, <2>5, <2>6, ClaimReplaced
<1>5. ASSUME NEW p \in Relays,
             \/ RecordSendFailure(p) \/ CommitPass(p) \/ PassBreaksOff(p)
             \/ Shutdown(p)
      PROVE  Exclusive'
  <2>1. /\ relay' = [relay EXCEPT ![p] = NoPass]
        /\ outbox' \in {outbox, SetStatus(relay[p].done, "published")}
    BY <1>5 DEF RecordSendFailure, CommitPass, PassBreaksOff, Shutdown
  <2>2. \A i \in Ids \ relay[p].done : outbox'[i].status = outbox[i].status
    BY <1>t, <2>1, StatusSet DEF TypeOK
  <2>3. ASSUME NEW q \in Relays \ {p}, NEW i \in Claimed(q)
        PROVE  outbox'[i].status = "pending"
    <3>1. i \in Ids \ relay[p].done /\ outbox[i].status = "pending"
      BY <1>t DEF Exclusive, Claimed, PassOK
    <3> QED BY <2>2, <3>1
  <2> QED BY <2>1, <2>3, NoPassType, ClaimReplaced
<1>6. CASE UNCHANGED vars
  BY <1>u, <1>6 DEF vars
<1> QED BY <1>1, <1>2, <1>3, <1>4, <1>5, <1>6 DEF Next, Step, EmptyPass

LEMMA AlwaysExclusive == Spec => []Exclusive
  BY AlwaysShape, ExclusiveInit, ExclusiveStep, PTL DEF Spec

-----------------------------------------------------------------------------
(***************************************************************************)
(* The store and the topics.  A pass only ever changes pending rows to     *)
(* published; a unit of work only its own open rows, all at once, and no   *)
(* two units have the same event.                                          *)
(***************************************************************************)
Committed(i) == outbox[i].status \in {"pending", "published"}

Busy(w) == work[w].key # NoKey

Queued(e, t, statuses) ==
  \E i \in Ids : /\ outbox[i].event = e /\ outbox[i].topic = t
                 /\ outbox[i].status \in statuses

LogCommitted == \A i : Logged(i) => i \in Ids /\ Committed(i)

RowsSaved == \A i \in Ids : Committed(i) => outbox[i].event \in saved

SavedQueued ==
  \A e \in saved, t \in Topics : Queued(e, t, {"pending", "published"})

WorksApart ==
  /\ saved \subseteq 1..raised
  /\ \A w \in Writers :
       Busy(w) => work[w].event \in 1..raised /\ work[w].event \notin saved
  /\ \A v, w \in Writers : v # w /\ Busy(v) /\ Busy(w) =>
       work[v].event # work[w].event /\ work[v].key # work[w].key

\* Of an open unit's event, what is not inserted is still to be.
WorkInserted ==
  \A w \in Writers, t \in Topics : Busy(w) =>
    \/ \E n \in DOMAIN work[w].left : work[w].left[n] = t
    \/ Queued(work[w].event, t, {"open"})

Store ==
  LogCommitted /\ RowsSaved /\ SavedQueued /\ WorksApart /\ WorkInserted

\* What the relays do.
RelayStep(p) ==
  \/ EmptyPass(p) \/ Claim(p) \/ SendSucceeds(p) \/ SendDropped(p)
  \/ SendFails(p) \/ SendReplyLost(p) \/ Step(p) \/ PassBreaksOff(p)
  \/ Shutdown(p)

\* They change no more of a row than its mark.
LEMMA RelayKeepsRows ==
  ASSUME Shape, Exclusive, NEW p \in Relays, RelayStep(p)
  PROVE  /\ UNCHANGED <<saved, work, raised>>
         /\ Ids' = Ids
         /\ \A i \in Ids :
              /\ outbox'[i].key = outbox[i].key
              /\ outbox'[i].topic = outbox[i].topic
              /\ outbox'[i].event = outbox[i].event
              /\ outbox'[i].status = "open" <=> outbox[i].status = "open"
              /\ Committed(i)' <=> Committed(i)
<1>1. UNCHANGED <<saved, work, raised>>
  BY DEF RelayStep, EmptyPass, Claim, SendSucceeds, SendDropped, SendFails,
         SendReplyLost, Step, Mark, RecordSendFailure, CommitPass,
         PassBreaksOff, Shutdown, vars
<1>2. outbox' \in {outbox, SetStatus(relay[p].done, "published")}
  BY DEF RelayStep, EmptyPass, Claim, SendSucceeds, SendDropped, SendFails,
         SendReplyLost, Step, Mark, RecordSendFailure, CommitPass,
         PassBreaksOff, Shutdown, vars
<1>3. CASE outbox' = outbox
  BY <1>1, <1>3 DEF Ids, Committed
<1>4. CASE outbox' = SetStatus(relay[p].done, "published")
  <2>1. \A i \in relay[p].done : outbox[i].status = "pending"
    BY DEF Exclusive, Claimed
  <2>2. /\ Ids' = Ids
        /\ \A i \in Ids :
             /\ outbox'[i].key = outbox[i].key
             /\ outbox'[i].topic = outbox[i].topic
             /\ outbox'[i].event = outbox[i].event
             /\ outbox'[i].status = IF i \in relay[p].done THEN "published"
                                    ELSE outbox[i].status
    BY <1>4, StatusSet DEF Shape, TypeOK
  <2> QED BY <1>1, <2>1, <2>2 DEF Committed
<1> QED BY <1>2, <1>3, <1>4

\* The end of a unit of work gives its open rows, and no others, status s.
LEMMA WorkEnds ==
  ASSUME Shape, NEW w \in Writers, NEW s \in {"pending", "gone"},
         outbox' = SetStatus(RowsOf(w), s)
  PROVE  /\ Ids' = Ids
         /\ \A i \in Ids :
              /\ outbox'[i].key = outbox[i].key
              /\ outbox'[i].topic = outbox[i].topic
              /\ outbox'[i].event = outbox[i].event
              /\ IF outbox[i].status = "open" /\ outbox[i].event = work[w].event
                 THEN outbox'[i].status = s
                 ELSE outbox'[i].status = outbox[i].status
<1>1. /\ Ids' = Ids
      /\ \A i \in Ids :
           /\ outbox'[i].key = outbox[i].key
           /\ outbox'[i].topic = outbox[i].topic
           /\ outbox'[i].event = outbox[i].event
           /\ outbox'[i].status =
                IF i \in RowsOf(w) THEN s ELSE outbox[i].status
  BY StatusSet DEF Shape, TypeOK
<1> QED BY <1>1 DEF RowsOf

LEMMA StoreInit == Init => Store
  BY NoPassType
  DEF Init, Store, LogCommitted, RowsSaved, SavedQueued, WorksApart, Busy,
      WorkInserted, Logged, Ids

\* The relays leave the units of work and the store alone, and log only
\* rows they claimed.
LEMMA StoreRelayStep ==
  ASSUME Shape, Exclusive, Store, NEW p \in Relays, RelayStep(p)
  PROVE  Store'
<1>1. /\ UNCHANGED <<saved, work, raised>>
      /\ Ids' = Ids
      /\ \A i \in Ids :
           /\ outbox'[i].topic = outbox[i].topic
           /\ outbox'[i].event = outbox[i].event
           /\ outbox'[i].status = "open" <=> outbox[i].status = "open"
           /\ Committed(i)' <=> Committed(i)
  BY RelayKeepsRows
<1>2. LogCommitted'
  <2>1. CASE log' = log
    BY <1>1, <2>1 DEF Store, LogCommitted, Logged
  <2>2. CASE SendSucceeds(p) \/ SendReplyLost(p)
    <3>1. /\ Current(p) \in Ids /\ Current(p) \in Nat
          /\ Current(p) \in Claimed(p)
      BY <2>2, PassGoesOn DEF SendSucceeds, SendReplyLost, Claimed
    <3>2. Committed(Current(p))
      BY <3>1 DEF Exclusive, Committed
    <3>3. \A i : Logged(i)' <=> Logged(i) \/ i = Current(p)
      BY <2>2, <3>1, LogGrows
      DEF SendSucceeds, SendReplyLost, Shape, TypeOK
    <3> QED BY <1>1, <3>1, <3>2, <3>3 DEF Store, LogCommitted
  <2>3. log' = log \/ SendSucceeds(p) \/ SendReplyLost(p)
    BY DEF RelayStep, EmptyPass, Claim, SendDropped, SendFails, Step, Mark,
           RecordSendFailure, CommitPass, PassBreaksOff, Shutdown, vars
  <2> QED BY <2>1, <2>2, <2>3
<1>3. RowsSaved' /\ WorksApart'
  BY <1>1 DEF Store, RowsSaved, WorksApart, Busy
<1>4. SavedQueued'
  BY <1>1 DEF Store, SavedQueued, Queued, Committed
<1>5. WorkInserted'
  BY <1>1 DEF Store, WorkInserted, Busy, Queued
<1> QED BY <1>2, <1>3, <1>4, <1>5 DEF Store

LEMMA StoreWriterStep ==
  ASSUME Shape, Store, NEW w \in Writers, Write(w)
  PROVE  Store'
<1>t. /\ TypeOK /\ WorkOK
      /\ LogCommitted /\ RowsSaved /\ SavedQueued /\ WorksApart /\ WorkInserted
  BY DEF Shape, Store
<1>0. log' = log
  BY DEF Write, Begin, Enqueue, CommitWork, RollbackWork, RelaySide
<1>1. ASSUME NEW k \in Keys, Begin(w, k)
      PROVE  Store'
  <2>1. \A v \in Writers : work'[v] =
          IF v = w THEN [key |-> k, event |-> raised + 1, left |-> Encoders]
          ELSE work[v]
    BY <1>t, <1>1 DEF Begin, TypeOK
  <2>2. /\ saved' = saved /\ outbox' = outbox /\ raised' = raised + 1
        /\ \A v \in Writers : work[v].key # k
    BY <1>1 DEF Begin
  <2>3. LogCommitted' /\ RowsSaved' /\ SavedQueued'
    BY <1>t, <1>0, <2>2
    DEF LogCommitted, RowsSaved, SavedQueued, Logged, Queued, Committed, Ids
  <2>4. WorksApart'
    <3>1. 1..raised \subseteq 1..raised' /\ raised + 1 \in 1..raised'
          /\ raised + 1 \notin 1..raised
      BY <1>t, <2>2 DEF TypeOK
    <3> QED BY <1>t, <2>1, <2>2, <3>1 DEF WorksApart, Busy
  <2>5. WorkInserted'
    <3>1. \A t \in Topics : \E n \in DOMAIN Encoders : Encoders[n] = t
      BY DEF Topics, Encoders
    <3> QED BY <1>t, <2>1, <2>2, <3>1 DEF WorkInserted, Busy, Queued, Ids
  <2> QED BY <2>3, <2>4, <2>5 DEF Store
<1>2. CASE Enqueue(w)
  <2> DEFINE new == Len(outbox) + 1
  <2>1. /\ Ids' = Ids \cup {new}
        /\ \A i \in Ids : outbox'[i] = outbox[i]
        /\ outbox'[new].topic = Head(work[w].left)
        /\ outbox'[new].event = work[w].event
        /\ outbox'[new].status = "open"
    BY <1>2, WorkInserts
  <2> HIDE DEF new
  <2>2. /\ saved' = saved /\ raised' = raised /\ work[w].left # <<>>
        /\ work' = [work EXCEPT ![w].left = Tail(@)]
    BY <1>2 DEF Enqueue
  <2>3. work[w] \in Work /\ work \in [Writers -> Work]
    BY <1>t DEF TypeOK
  <2>4. \A v \in Writers :
          /\ work'[v].key = work[v].key /\ work'[v].event = work[v].event
          /\ work'[v].left = IF v = w THEN Tail(work[w].left) ELSE work[v].left
    BY <2>2, <2>3 DEF Work
  <2>5. LogCommitted' /\ RowsSaved'
    BY <1>t, <1>0, <2>1, <2>2
    DEF LogCommitted, RowsSaved, Logged, Committed
  <2>6. \A e, t : /\ Queued(e, t, {"pending", "published"}) =>
                       Queued(e, t, {"pending", "published"})'
                  /\ Queued(e, t, {"open"}) => Queued(e, t, {"open"})'
    BY <2>1 DEF Queued
  <2>7. SavedQueued' /\ WorksApart'
    <3>1. SavedQueued'
      BY <1>t, <2>2, <2>6 DEF SavedQueued
    <3>2. WorksApart'
      BY <1>t, <2>2, <2>4 DEF WorksApart, Busy
    <3> QED BY <3>1, <3>2
  <2>8. ASSUME NEW v \in Writers, NEW t \in Topics, Busy(v)',
               NEW e, e = work[v].event
        PROVE  \/ \E n \in DOMAIN work'[v].left : work'[v].left[n] = t
               \/ Queued(e, t, {"open"})'
    <3>1. \/ \E n \in DOMAIN work[v].left : work[v].left[n] = t
          \/ Queued(e, t, {"open"})
      BY <1>t, <2>4, <2>8 DEF WorkInserted, Busy
    <3>2. CASE v # w \/ Queued(e, t, {"open"})
      BY <2>4, <2>6, <3>1, <3>2
    <3>3. CASE v = w /\ \E n \in DOMAIN work[w].left : work[w].left[n] = t
      <4>1. PICK n \in DOMAIN work[w].left : work[w].left[n] = t
        BY <3>3
      <4>2. work[w].left \in Seq(Topics)
        BY <2>3 DEF Work
      <4>3. CASE n = 1
        <5>1. Head(work[w].left) = t
          BY <2>2, <4>1, <4>2, <4>3
        <5>2. /\ new \in Ids' /\ outbox'[new].topic = t
              /\ outbox'[new].event = e /\ outbox'[new].status = "open"
          BY <2>1, <2>8, <3>3, <5>1
        <5> QED BY <5>2 DEF Queued
      <4>4. CASE n # 1
        <5> DEFINE left == work[w].left
        <5>0. left \in Seq(Topics) /\ left # <<>> /\ left[n] = t
              /\ n \in 1..Len(left) /\ n # 1
          BY <2>2, <4>1, <4>2, <4>4
        <5> HIDE DEF left
        <5>1. n - 1 \in DOMAIN Tail(left) /\ Tail(left)[n - 1] = t
          BY <5>0
        <5> QED BY <2>4, <3>3, <5>1 DEF left
      <4> QED BY <4>3, <4>4
    <3> QED BY <3>1, <3>2, <3>3
  <2>9. WorkInserted'
    BY <2>4, <2>8 DEF WorkInserted, Queued, Busy
  <2> QED BY <2>5, <2>7, <2>9 DEF Store
<1>3. ASSUME CommitWork(w) \/ RollbackWork(w)
      PROVE  Store'
  <2>1. PICK s \in {"pending", "gone"} :
          /\ outbox' = SetStatus(RowsOf(w), s)
          /\ saved' = IF s = "pending" THEN saved \cup {work[w].event}
                      ELSE saved
          /\ s = "pending" => work[w].left = <<>>
    BY <1>3 DEF CommitWork, RollbackWork
  <2>2. /\ work' = [work EXCEPT ![w] = NoWork] /\ raised' = raised /\ Busy(w)
    BY <1>3 DEF CommitWork, RollbackWork, Busy
  <2>3. \A v \in Writers : work'[v] = IF v = w THEN NoWork ELSE work[v]
    BY <1>t, <2>2 DEF TypeOK
  <2>4. /\ Ids' = Ids
        /\ \A i \in Ids :
             /\ outbox'[i].topic = outbox[i].topic
             /\ outbox'[i].event = outbox[i].event
             /\ IF outbox[i].status = "open" /\ outbox[i].event = work[w].event
                THEN outbox'[i].status = s
                ELSE outbox'[i].status = outbox[i].status
    BY <2>1, WorkEnds
  <2>5. LogCommitted' /\ RowsSaved'
    BY <1>t, <1>0, <2>1, <2>4 DEF LogCommitted, RowsSaved, Logged, Committed
  <2>6. \A e, t : /\ Queued(e, t, {"pending", "published"}) =>
                       Queued(e, t, {"pending", "published"})'
                  /\ e # work[w].event /\ Queued(e, t, {"open"}) =>
                       Queued(e, t, {"open"})'
    BY <2>4 DEF Queued
  <2>7. SavedQueued'
    <3>1. ASSUME s = "pending", NEW t \in Topics, NEW e, e = work[w].event
          PROVE  Queued(e, t, {"pending", "published"})'
      <4>1. Queued(e, t, {"open"})
        BY <1>t, <2>1, <2>2, <3>1 DEF WorkInserted
      <4> QED BY <2>4, <3>1, <4>1 DEF Queued
    <3> QED BY <1>t, <2>1, <2>6, <3>1 DEF SavedQueued
  <2>8. WorksApart'
    <3>1. \A v \in Writers : Busy(v)' => v # w /\ Busy(v) /\ work'[v] = work[v]
      BY <1>t, <2>3, NoPassType DEF Busy
    <3>2. saved' \subseteq 1..raised /\ saved' \subseteq saved \cup {work[w].event}
      BY <1>t, <2>1, <2>2 DEF WorksApart
    <3>3. ASSUME NEW v \in Writers, Busy(v)'
          PROVE  work'[v].event \in 1..raised /\ work'[v].event \notin saved'
      <4>1. v # w /\ Busy(v) /\ work'[v] = work[v]
        BY <3>1, <3>3
      <4>2. /\ work[v].event \in 1..raised /\ work[v].event \notin saved
            /\ work[v].event # work[w].event
        BY <1>t, <2>2, <4>1 DEF WorksApart
      <4> QED BY <3>2, <4>1, <4>2
    <3>4. \A u, v \in Writers : u # v /\ Busy(u)' /\ Busy(v)' =>
            work'[u].event # work'[v].event /\ work'[u].key # work'[v].key
      BY <1>t, <3>1 DEF WorksApart
    <3> QED BY <2>2, <3>2, <3>3, <3>4 DEF WorksApart
  <2>9. WorkInserted'
    <3>1. ASSUME NEW v \in Writers, Busy(v)'
          PROVE  v # w /\ Busy(v) /\ work'[v] = work[v]
                 /\ work[v].event # work[w].event
      BY <1>t, <2>2, <2>3, <3>1, NoPassType DEF Busy, WorksApart
    <3> QED BY <1>t, <2>6, <3>1 DEF WorkInserted, Queued
  <2> QED BY <2>5, <2>7, <2>8, <2>9 DEF Store
<1> QED BY <1>1, <1>2, <1>3 DEF Write

LEMMA StoreStep == Shape /\ Exclusive /\ Store /\ [Next]_vars => Store'
<1>1. CASE UNCHANGED vars
  BY <1>1
  DEF vars, Store, LogCommitted, RowsSaved, SavedQueued, WorksApart,
      WorkInserted, Logged, Committed, Busy, Queued, Ids
<1> QED BY <1>1, StoreRelayStep, StoreWriterStep DEF Next, RelayStep

LEMMA AlwaysStore == Spec => []Store
  BY AlwaysShape, AlwaysExclusive, StoreInit, StoreStep, PTL DEF Spec

\* The topics carry nothing of a unit of work that did not commit, and what
\* did commit is queued for every topic: the outbox is transactional.
THEOREM TopicsFollowTheStore == Spec => []TopicsMatchStore
<1>1. Store => TopicsMatchStore
  BY DEF Store, LogCommitted, RowsSaved, SavedQueued, Queued, TopicsMatchStore
<1> QED BY <1>1, AlwaysStore, PTL

-----------------------------------------------------------------------------
(***************************************************************************)
(* Duplicates.  A row that is on its way from Send to its durable mark has *)
(* one copy that no failure pays for; any further copy needs a failure or  *)
(* a stopped pod to bring the row back to a pass without its mark.         *)
(***************************************************************************)
Taken(p, i) ==
  i \in relay[p].done \/ (relay[p].pc = "mark" /\ i = Current(p))

Paid(i) ==
  outbox[i].status = "published" \/ \E p \in Relays : Taken(p, i)

Causes == failures + Cardinality(stopped)

CopiesPaid ==
  /\ IsFiniteSet(stopped)
  /\ \A i \in Ids : Copies(i) <= Causes + (IF Paid(i) THEN 1 ELSE 0)

\* The places of an id in the log are finitely many.
LEMMA CopiesType ==
  ASSUME log \in Seq(Nat)
  PROVE  \A i : /\ IsFiniteSet({n \in DOMAIN log : log[n] = i})
                /\ Copies(i) \in Nat
                /\ ~Logged(i) => Copies(i) = 0
<1> TAKE i
<1>1. IsFiniteSet(1..Len(log)) /\ DOMAIN log = 1..Len(log)
  BY FS_Interval
<1>2. IsFiniteSet({n \in DOMAIN log : log[n] = i})
  BY <1>1, FS_Subset
<1>3. Copies(i) \in Nat
  BY <1>2, FS_CardinalityType DEF Copies
<1>4. ASSUME ~Logged(i) PROVE Copies(i) = 0
  <2>1. {n \in DOMAIN log : log[n] = i} = {}
    BY <1>4 DEF Logged
  <2> QED BY <2>1, FS_EmptySet DEF Copies
<1> QED BY <1>2, <1>3, <1>4

\* Storing a message is one copy more of it, and of no other.
LEMMA OneCopyMore ==
  ASSUME log \in Seq(Nat), NEW c \in Nat, log' = Append(log, c)
  PROVE  \A i : Copies(i)' = IF i = c THEN Copies(i) + 1 ELSE Copies(i)
<1> TAKE i
<1> DEFINE At == {n \in DOMAIN log : log[n] = i}
           After == {n \in DOMAIN log' : log'[n] = i}
           new == Len(log) + 1
<1>1. /\ DOMAIN log' = DOMAIN log \cup {new}
      /\ \A n \in DOMAIN log : log'[n] = log[n]
      /\ log'[new] = c /\ new \notin DOMAIN log
  OBVIOUS
<1>2. IsFiniteSet(At) /\ Copies(i) = Cardinality(At)
  BY CopiesType DEF Copies
<1>3. Copies(i)' = Cardinality(After)
  BY DEF Copies
<1> HIDE DEF new
<1>4. CASE i = c
  <2>1. After = At \cup {new} /\ new \notin At
    BY <1>1, <1>4
  <2> HIDE DEF At, After
  <2> QED BY <1>2, <1>3, <1>4, <2>1, FS_AddElement
<1>5. CASE i # c
  <2>1. After = At
    BY <1>1, <1>5
  <2> HIDE DEF At, After
  <2> QED BY <1>2, <1>3, <1>5, <2>1
<1> QED BY <1>4, <1>5

\* What is paid for stays so when p's pass becomes v, if v keeps the row's
\* mark or makes it durable.
LEMMA PaidStays ==
  ASSUME Shape, NEW p \in Relays, NEW v, relay' = [relay EXCEPT ![p] = v],
         NEW i, Paid(i),
         outbox[i].status = "published" => outbox'[i].status = "published",
         Taken(p, i) => i \in v.done \/ outbox'[i].status = "published"
  PROVE  Paid(i)'
<1>1. \A q \in Relays : relay'[q] = IF q = p THEN v ELSE relay[q]
  BY DEF Shape, TypeOK
<1>2. CASE outbox[i].status = "published"
  BY <1>2 DEF Paid
<1>3. ASSUME NEW q \in Relays, q # p, Taken(q, i)
      PROVE  Paid(i)'
  <2>1. relay'[q] = relay[q] /\ Current(q)' = Current(q)
    BY <1>1, <1>3 DEF Current
  <2>2. Taken(q, i)'
    BY <1>3, <2>1 DEF Taken
  <2> QED BY <2>2 DEF Paid
<1>4. CASE Taken(p, i)
  <2>1. CASE i \in v.done
    <3>1. i \in relay'[p].done
      BY <1>1, <2>1
    <3>2. Taken(p, i)'
      BY <3>1 DEF Taken
    <3> QED BY <3>2 DEF Paid
  <2>2. CASE outbox'[i].status = "published"
    BY <2>2 DEF Paid
  <2> QED BY <1>4, <2>1, <2>2
<1> QED BY <1>2, <1>3, <1>4 DEF Paid

\* The causes are counted.
LEMMA CausesType ==
  ASSUME Shape, IsFiniteSet(stopped)
  PROVE  Causes \in Nat
<1>1. Cardinality(stopped) \in Nat
  BY FS_CardinalityType
<1> QED BY <1>1 DEF Causes, Shape, TypeOK

LEMMA CopiesPaidInit == Init => CopiesPaid
  BY FS_EmptySet DEF Init, CopiesPaid, Ids

\* A step leaves the copies paid for in one of three ways: it adds a cause
\* and at most a copy (<1>a), neither (<1>b), or a copy of a row that was not
\* taken before (<1>5).
LEMMA CopiesPaidStep ==
  Shape /\ Exclusive /\ Store /\ CopiesPaid /\ [Next]_vars => CopiesPaid'
<1> SUFFICES ASSUME Shape, Exclusive, Store, CopiesPaid, [Next]_vars
             PROVE  CopiesPaid'
  OBVIOUS
<1>t. TypeOK /\ PassOK /\ IsFiniteSet(stopped) /\ Causes \in Nat
  BY CausesType DEF Shape, CopiesPaid
<1>c. \A i : Copies(i) \in Nat
  BY <1>t, CopiesType DEF TypeOK
<1>a. ASSUME Ids' = Ids, Causes' = Causes + 1, IsFiniteSet(stopped)',
             \A i \in Ids : \/ Copies(i)' = Copies(i)
                            \/ Copies(i)' = Copies(i) + 1 /\ (Paid(i) => Paid(i)')
      PROVE  CopiesPaid'
  <2>1. ASSUME NEW i \in Ids
        PROVE  Copies(i)' <= Causes' + (IF Paid(i)' THEN 1 ELSE 0)
    <3>1. Copies(i) <= Causes + (IF Paid(i) THEN 1 ELSE 0)
      BY <2>1 DEF CopiesPaid
    <3> QED BY <1>a, <1>c, <1>t, <2>1, <3>1
  <2> QED BY <1>a, <2>1 DEF CopiesPaid
<1>b. ASSUME Ids \subseteq Ids', log' = log, failures' = failures,
             stopped' = stopped, \A i \in Ids : Paid(i) => Paid(i)'
      PROVE  CopiesPaid'
  <2>1. Causes' = Causes /\ \A i : Copies(i)' = Copies(i)
    BY <1>b DEF Causes, Copies
  <2>2. ASSUME NEW i \in Ids'
        PROVE  Copies(i) <= Causes + (IF Paid(i)' THEN 1 ELSE 0)
    <3>1. CASE i \in Ids
      <4>1. Copies(i) <= Causes + (IF Paid(i) THEN 1 ELSE 0)
        BY <3>1 DEF CopiesPaid
      <4> QED BY <1>b, <1>c, <1>t, <3>1, <4>1
    <3>2. CASE i \notin Ids
      <4>1. Copies(i) = 0
        BY <1>t, <3>2, CopiesType DEF Store, LogCommitted, TypeOK
      <4> QED BY <1>t, <4>1
    <3> QED BY <3>1, <3>2
  <2> QED BY <1>b, <1>t, <2>1, <2>2 DEF CopiesPaid
<1>1. ASSUME NEW w \in Writers, Write(w)
      PROVE  CopiesPaid'
  <2>1. UNCHANGED RelaySide
    BY <1>1 DEF Write, Begin, Enqueue, CommitWork, RollbackWork
  <2>2. /\ Ids \subseteq Ids'
        /\ \A i \in Ids : outbox[i].status = "published" =>
                            outbox'[i].status = "published"
    <3>1. CASE \E k \in Keys : Begin(w, k)
      BY <3>1 DEF Begin, Ids
    <3>2. CASE Enqueue(w)
      BY <3>2, WorkInserts
    <3>3. CASE CommitWork(w) \/ RollbackWork(w)
      <4>1. PICK s \in {"pending", "gone"} : outbox' = SetStatus(RowsOf(w), s)
        BY <3>3 DEF CommitWork, RollbackWork
      <4> QED BY <4>1, WorkEnds
    <3> QED BY <1>1, <3>1, <3>2, <3>3 DEF Write
  <2>3. ASSUME NEW i \in Ids, Paid(i)
        PROVE  Paid(i)'
    <3>1. \A p \in Relays : Taken(p, i)' <=> Taken(p, i)
      BY <2>1 DEF RelaySide, Taken, Current
    <3> QED BY <2>2, <2>3, <3>1 DEF Paid
  <2> QED BY <1>b, <2>1, <2>2, <2>3 DEF RelaySide
<1>2. ASSUME NEW p \in Relays, Claim(p) \/ SendFails(p)
      PROVE  CopiesPaid'
  <2>1. /\ outbox' = outbox /\ log' = log /\ failures' = failures
        /\ stopped' = stopped
    BY <1>2 DEF Claim, SendFails
  <2>2. relay[p] \in Pass
    BY <1>t DEF TypeOK
  <2>3. PICK v : relay' = [relay EXCEPT ![p] = v] /\ relay[p].done = v.done
    <3>1. CASE Claim(p)
      <4>1. relay[p].done = {}
        BY <1>t, <3>1, NoPassType DEF Claim, PassOK
      <4> QED BY <3>1, <4>1 DEF Claim
    <3>2. CASE SendFails(p)
      <4> DEFINE v == [relay[p] EXCEPT !.pc = "record"]
      <4>1. relay' = [relay EXCEPT ![p] = v]
        BY <3>2 DEF SendFails
      <4>2. v.done = relay[p].done
        BY <2>2 DEF Pass
      <4> QED BY <4>1, <4>2
    <3> QED BY <1>2, <3>1, <3>2
  <2>4. relay[p].pc # "mark"
    BY <1>2 DEF Claim, SendFails
  <2>5. \A i \in Ids : Paid(i) => Paid(i)'
    BY <2>1, <2>3, <2>4, PaidStays DEF Taken
  <2> QED BY <1>b, <2>1, <2>5 DEF Ids
<1>3. ASSUME NEW p \in Relays, Mark(p)
      PROVE  CopiesPaid'
  <2>1. /\ outbox' = outbox /\ log' = log /\ failures' = failures
        /\ stopped' = stopped
    BY <1>3 DEF Mark
  <2> DEFINE v == [pc |-> IF relay[p].todo = {Current(p)} THEN "commit"
                          ELSE "send",
                   todo |-> relay[p].todo \ {Current(p)},
                   done |-> relay[p].done \cup {Current(p)}]
  <2>2. relay' = [relay EXCEPT ![p] = v]
    BY <1>3 DEF Mark
  <2>3. v.done = relay[p].done \cup {Current(p)}
    OBVIOUS
  <2> HIDE DEF v
  <2>4. \A i \in Ids : Paid(i) => Paid(i)'
    BY <2>1, <2>2, <2>3, PaidStays DEF Taken
  <2> QED BY <1>b, <2>1, <2>4 DEF Ids
<1>4. ASSUME NEW p \in Relays, RecordSendFailure(p) \/ CommitPass(p)
      PROVE  CopiesPaid'
  <2>1. /\ log' = log /\ failures' = failures /\ stopped' = stopped
        /\ outbox' = SetStatus(relay[p].done, "published")
        /\ relay' = [relay EXCEPT ![p] = NoPass]
        /\ relay[p].pc # "mark"
    BY <1>4 DEF RecordSendFailure, CommitPass
  <2>2. /\ Ids' = Ids
        /\ \A i \in Ids : outbox'[i].status =
             IF i \in relay[p].done THEN "published" ELSE outbox[i].status
    BY <1>t, <2>1, StatusSet DEF TypeOK
  <2>3. \A i \in Ids : Paid(i) => Paid(i)'
    BY <2>1, <2>2, PaidStays DEF Taken
  <2> QED BY <1>b, <2>1, <2>2, <2>3
<1>5. ASSUME NEW p \in Relays, SendSucceeds(p)
      PROVE  CopiesPaid'
  <2>0. PICK c : c = Current(p)
    OBVIOUS
  <2> DEFINE v == [relay[p] EXCEPT !.pc = "mark"]
  <2>1. /\ log' = Append(log, c) /\ outbox' = outbox /\ failures' = failures
        /\ stopped' = stopped /\ relay' = [relay EXCEPT ![p] = v]
        /\ relay[p].pc = "send"
    BY <1>5, <2>0 DEF SendSucceeds
  <2>2. c \in relay[p].todo /\ c \in Nat
    BY <2>0, <2>1, PassGoesOn
  <2>3. /\ v.done = relay[p].done /\ v.todo = relay[p].todo /\ v.pc = "mark"
        /\ relay'[p] = v
    <3>1. relay[p] \in Pass /\ relay \in [Relays -> Pass]
      BY <1>t DEF TypeOK
    <3> QED BY <2>1, <3>1 DEF Pass
  <2> HIDE DEF v
  <2>4. Paid(c)'
    <3>1. Current(p)' = c
      BY <2>0, <2>3 DEF Current
    <3>2. Taken(p, c)'
      BY <2>3, <3>1 DEF Taken
    <3> QED BY <3>2 DEF Paid
  <2>5. ~Paid(c)
    <3>1. outbox[c].status # "published"
      BY <2>2 DEF Exclusive, Claimed
    <3>2. ~Taken(p, c)
      BY <2>1, <2>2 DEF Exclusive, Taken
    <3>3. ASSUME NEW q \in Relays, q # p, Taken(q, c)
          PROVE  FALSE
      <4>1. c \notin Claimed(q)
        BY <2>2, <3>3 DEF Exclusive, Claimed
      <4>2. relay[q].pc = "mark" => Current(q) \in relay[q].todo
        BY PassGoesOn
      <4> QED BY <3>3, <4>1, <4>2 DEF Taken, Claimed
    <3> QED BY <3>1, <3>2, <3>3 DEF Paid
  <2>6. \A i \in Ids : Paid(i) => Paid(i)'
    BY <2>1, <2>3, PaidStays DEF Taken
  <2>7. \A i : Copies(i)' = IF i = c THEN Copies(i) + 1 ELSE Copies(i)
    BY <1>t, <2>1, <2>2, OneCopyMore DEF TypeOK
  <2>8. Causes' = Causes /\ Ids' = Ids
    BY <2>1 DEF Causes, Ids
  <2>9. ASSUME NEW i \in Ids
        PROVE  Copies(i)' <= Causes + (IF Paid(i)' THEN 1 ELSE 0)
    <3>1. Copies(i) <= Causes + (IF Paid(i) THEN 1 ELSE 0)
      BY <2>9 DEF CopiesPaid
    <3>2. CASE i = c
      BY <1>c, <1>t, <2>4, <2>5, <2>7, <3>1, <3>2
    <3>3. CASE i # c
      BY <1>c, <1>t, <2>6, <2>7, <2>9, <3>1, <3>3
    <3> QED BY <3>2, <3>3
  <2> QED BY <1>t, <2>1, <2>8, <2>9 DEF CopiesPaid
<1>6. ASSUME NEW p \in Relays, SendReplyLost(p)
      PROVE  CopiesPaid'
  <2>1. /\ log' = Append(log, Current(p)) /\ outbox' = outbox
        /\ failures' = failures + 1 /\ stopped' = stopped
        /\ relay[p].pc = "send"
    BY <1>6 DEF SendReplyLost, Failure
  <2>2. PICK pc : relay' = [relay EXCEPT ![p].pc = pc]
    BY <1>6 DEF SendReplyLost
  <2> DEFINE v == [relay[p] EXCEPT !.pc = pc]
  <2>3. relay' = [relay EXCEPT ![p] = v] /\ v.done = relay[p].done
    <3>1. relay[p] \in Pass
      BY <1>t DEF TypeOK
    <3> QED BY <2>2, <3>1 DEF Pass
  <2> HIDE DEF v
  <2>4. \A i \in Ids : Paid(i) => Paid(i)'
    BY <2>1, <2>3, PaidStays DEF Taken
  <2>5. Current(p) \in Nat
    BY <2>1, PassGoesOn
  <2>6. \A i : Copies(i)' = Copies(i) \/ Copies(i)' = Copies(i) + 1
    BY <1>t, <2>1, <2>5, OneCopyMore DEF TypeOK
  <2>7. Causes' = Causes + 1
    <3>1. Cardinality(stopped) \in Nat /\ failures \in Nat
      BY <1>t, FS_CardinalityType DEF TypeOK
    <3> QED BY <2>1, <3>1 DEF Causes
  <2> QED BY <1>a, <1>t, <2>1, <2>4, <2>6, <2>7 DEF Ids
<1>7. ASSUME NEW p \in Relays,
             SendDropped(p) \/ PassBreaksOff(p) \/ Shutdown(p)
      PROVE  CopiesPaid'
  <2>1. log' = log /\ outbox' = outbox
    BY <1>7 DEF SendDropped, PassBreaksOff, Shutdown
  <2>2. Causes' = Causes + 1 /\ IsFiniteSet(stopped)'
    <3>1. Cardinality(stopped) \in Nat /\ failures \in Nat
      BY <1>t, FS_CardinalityType DEF TypeOK
    <3>2. CASE failures' = failures + 1 /\ stopped' = stopped
      BY <1>t, <3>1, <3>2 DEF Causes
    <3>3. CASE failures' = failures /\ stopped' = stopped \cup {p}
               /\ p \notin stopped
      <4>1. /\ IsFiniteSet(stopped \cup {p})
            /\ Cardinality(stopped \cup {p}) = Cardinality(stopped) + 1
        BY <1>t, <3>3, FS_AddElement
      <4> QED BY <3>1, <3>3, <4>1 DEF Causes
    <3> QED BY <1>7, <3>2, <3>3 DEF SendDropped, PassBreaksOff, Shutdown, Failure
  <2>3. \A i : Copies(i)' = Copies(i)
    BY <2>1 DEF Copies
  <2> QED BY <1>a, <2>1, <2>2, <2>3 DEF Ids
<1>8. CASE UNCHANGED vars
  <2>1. \A i : Paid(i)' <=> Paid(i)
    BY <1>8 DEF vars, Paid, Taken, Current
  <2> QED BY <1>b, <1>8, <2>1 DEF vars, Ids
<1> QED BY <1>1, <1>2, <1>3, <1>4, <1>5, <1>6, <1>7, <1>8
        DEF Next, Step, EmptyPass

\* Every copy of a message beyond the first is paid for by a pass that broke
\* off, a reply or a message that was lost, or a pod that was stopped; any
\* number of relays alone never send a row twice.
THEOREM DuplicatesHaveCauses == Spec => []DuplicatesNeedFailure
<1>1. Shape /\ CopiesPaid => DuplicatesNeedFailure
  <2> SUFFICES ASSUME Shape, CopiesPaid, NEW i \in Ids
               PROVE  Copies(i) <= 1 + failures + Cardinality(stopped)
    BY DEF DuplicatesNeedFailure
  <2>1. /\ Copies(i) \in Nat /\ failures \in Nat
        /\ Cardinality(stopped) \in Nat
    BY CopiesType, FS_CardinalityType DEF Shape, TypeOK, CopiesPaid
  <2>2. Copies(i) <= Causes + (IF Paid(i) THEN 1 ELSE 0)
    BY DEF CopiesPaid
  <2> QED BY <2>1, <2>2 DEF Causes
<1>2. Spec => []CopiesPaid
  BY AlwaysShape, AlwaysExclusive, AlwaysStore, CopiesPaidInit, CopiesPaidStep,
     PTL DEF Spec
<1> QED BY <1>1, <1>2, AlwaysShape, PTL

-----------------------------------------------------------------------------
(***************************************************************************)
(* Order.  Ids are drawn before the commit, so a smaller id can become     *)
(* pending after a larger one was sent; the lock on the row of the order   *)
(* keeps that from happening to two rows of one order.                     *)
(***************************************************************************)
SameKey(i, j) == outbox[i].key = outbox[j].key

\* While a row is open, so is every later row of its order: one unit of work
\* inserted both.
OpenOwned ==
  \A i \in Ids : outbox[i].status = "open" =>
    \E w \in Writers : /\ Busy(w)
                       /\ outbox[i].key = work[w].key
                       /\ outbox[i].event = work[w].event

OpenTogether ==
  \A i, j \in Ids : j < i /\ SameKey(i, j) /\ outbox[j].status = "open" =>
    outbox[i].status = "open" /\ outbox[i].event = outbox[j].event

UnitsInRow == OpenOwned /\ OpenTogether

LEMMA UnitsInRowInit == Init => UnitsInRow
  BY DEF Init, UnitsInRow, OpenOwned, OpenTogether, Ids

LEMMA UnitsInRowStep ==
  Shape /\ Exclusive /\ Store /\ UnitsInRow /\ [Next]_vars => UnitsInRow'
<1> SUFFICES ASSUME Shape, Exclusive, Store, UnitsInRow, [Next]_vars
             PROVE  UnitsInRow'
  OBVIOUS
<1>t. TypeOK /\ WorksApart /\ OpenOwned /\ OpenTogether /\ Ids \subseteq Nat
  BY DEF Shape, TypeOK, Store, UnitsInRow, Ids
<1>1. ASSUME NEW w \in Writers, NEW k \in Keys, Begin(w, k)
      PROVE  UnitsInRow'
  <2>1. outbox' = outbox /\ Ids' = Ids /\ ~Busy(w)
    BY <1>1 DEF Begin, Ids, Busy
  <2>2. \A v \in Writers \ {w} : work'[v] = work[v]
    BY <1>t, <1>1 DEF Begin, TypeOK
  <2>3. \A v \in Writers : Busy(v) => Busy(v)' /\ work'[v] = work[v]
    BY <2>1, <2>2 DEF Busy
  <2>4. OpenOwned'
    BY <1>t, <2>1, <2>3 DEF OpenOwned
  <2> QED BY <1>t, <2>1, <2>4 DEF UnitsInRow, OpenTogether, SameKey
<1>2. ASSUME NEW w \in Writers, Enqueue(w)
      PROVE  UnitsInRow'
  <2>1. PICK new : /\ Ids' = Ids \cup {new} /\ new \notin Ids /\ new \in Nat
                   /\ \A i \in Ids : outbox'[i] = outbox[i] /\ i < new
                   /\ outbox'[new].key = work[w].key
                   /\ outbox'[new].event = work[w].event
                   /\ outbox'[new].status = "open"
    <3>1. Len(outbox) + 1 \in Nat
      BY <1>t DEF TypeOK
    <3> QED BY <1>2, <3>1, WorkInserts
  <2>2. \A v \in Writers :
          /\ work'[v].key = work[v].key /\ work'[v].event = work[v].event
          /\ Busy(v)' <=> Busy(v)
    <3>1. \A v \in Writers : /\ work'[v].key = work[v].key
                             /\ work'[v].event = work[v].event
      BY <1>t, <1>2 DEF Enqueue, TypeOK, Work
    <3> QED BY <3>1 DEF Busy
  <2>3. Busy(w)
    BY <1>2, NextRow DEF Enqueue, Busy
  <2>4. OpenOwned'
    BY <1>t, <2>1, <2>2, <2>3 DEF OpenOwned
  <2>5. ASSUME NEW j \in Ids, outbox[j].status = "open",
               outbox[j].key = work[w].key
        PROVE  outbox[j].event = work[w].event
    BY <1>t, <2>3, <2>5 DEF OpenOwned, WorksApart
  <2>6. ASSUME NEW i \in Ids', NEW j \in Ids', j < i,
               outbox'[i].key = outbox'[j].key, outbox'[j].status = "open"
        PROVE  outbox'[i].status = "open" /\ outbox'[i].event = outbox'[j].event
    <3>0. i \in Ids \/ i = new
      BY <2>1
    <3>1. j \in Ids /\ outbox'[j] = outbox[j]
      <4>1. ~(new < i)
        <5>1. CASE i \in Ids
          <6>1. i \in Nat /\ i < new /\ new \in Nat
            BY <1>t, <2>1, <5>1
          <6> QED BY <6>1
        <5>2. CASE i = new
          BY <2>1, <5>2
        <5> QED BY <3>0, <5>1, <5>2
      <4>2. j # new
        BY <2>6, <4>1
      <4> QED BY <2>1, <4>2
    <3>2. CASE i = new
      BY <2>1, <2>5, <2>6, <3>1, <3>2
    <3>3. CASE i \in Ids
      BY <1>t, <2>1, <2>6, <3>1, <3>3 DEF OpenTogether, SameKey
    <3> QED BY <2>1, <3>2, <3>3
  <2> QED BY <2>4, <2>6 DEF UnitsInRow, OpenTogether, SameKey
<1>3. ASSUME NEW w \in Writers, CommitWork(w) \/ RollbackWork(w)
      PROVE  UnitsInRow'
  <2>1. PICK s \in {"pending", "gone"} :
          /\ outbox' = SetStatus(RowsOf(w), s)
          /\ work' = [work EXCEPT ![w] = NoWork]
    BY <1>3 DEF CommitWork, RollbackWork
  <2>2. \A v \in Writers \ {w} : work'[v] = work[v]
    BY <1>t, <2>1 DEF TypeOK
  <2>3. /\ Ids' = Ids
        /\ \A i \in Ids :
             /\ outbox'[i].key = outbox[i].key
             /\ outbox'[i].event = outbox[i].event
             /\ IF outbox[i].status = "open" /\ outbox[i].event = work[w].event
                THEN outbox'[i].status = s
                ELSE outbox'[i].status = outbox[i].status
    BY <2>1, WorkEnds
  <2>4. \A i \in Ids : outbox'[i].status = "open" <=>
          outbox[i].status = "open" /\ outbox[i].event # work[w].event
    BY <2>3
  <2>5. OpenOwned'
    <3>1. ASSUME NEW i \in Ids, outbox'[i].status = "open"
          PROVE  \E v \in Writers : /\ Busy(v)'
                                    /\ outbox'[i].key = work'[v].key
                                    /\ outbox'[i].event = work'[v].event
      <4>1. PICK v \in Writers : /\ Busy(v)
                                 /\ outbox[i].key = work[v].key
                                 /\ outbox[i].event = work[v].event
        BY <1>t, <2>4, <3>1 DEF OpenOwned
      <4>2. v # w
        BY <2>4, <3>1, <4>1
      <4> QED BY <2>2, <2>3, <4>1, <4>2 DEF Busy
    <3> QED BY <2>3, <3>1 DEF OpenOwned
  <2>6. OpenTogether'
    BY <1>t, <2>3, <2>4 DEF OpenTogether, SameKey
  <2> QED BY <2>5, <2>6 DEF UnitsInRow
<1>4. ASSUME NEW p \in Relays, RelayStep(p)
      PROVE  UnitsInRow'
  <2>1. /\ work' = work /\ Ids' = Ids
        /\ \A i \in Ids :
             /\ outbox'[i].key = outbox[i].key
             /\ outbox'[i].event = outbox[i].event
             /\ outbox'[i].status = "open" <=> outbox[i].status = "open"
    BY <1>4, RelayKeepsRows
  <2> QED BY <1>t, <2>1 DEF UnitsInRow, OpenOwned, OpenTogether, SameKey, Busy
<1>5. CASE UNCHANGED vars
  BY <1>t, <1>5
  DEF vars, UnitsInRow, OpenOwned, OpenTogether, SameKey, Busy, Ids
<1> QED BY <1>1, <1>2, <1>3, <1>4, <1>5 DEF Next, Write, RelayStep

\* So no unit of work commits a row behind a committed one of its order.
LEMMA CommitsInOrder ==
  ASSUME Shape, UnitsInRow, NEW w \in Writers, Write(w),
         NEW i \in Ids, Committed(i),
         NEW j \in Ids', j < i, outbox'[j].key = outbox[i].key, Committed(j)'
  PROVE  j \in Ids /\ Committed(j)
<1>1. CASE \E k \in Keys : Begin(w, k)
  BY <1>1 DEF Begin, Committed, Ids
<1>2. CASE Enqueue(w)
  BY <1>2, WorkInserts DEF Committed
<1>3. CASE CommitWork(w) \/ RollbackWork(w)
  <2>1. PICK s \in {"pending", "gone"} : outbox' = SetStatus(RowsOf(w), s)
    BY <1>3 DEF CommitWork, RollbackWork
  <2>2. /\ Ids' = Ids
        /\ outbox'[j].key = outbox[j].key
        /\ outbox[j].status # "open" => outbox'[j].status = outbox[j].status
    BY <2>1, WorkEnds
  <2>3. outbox[j].status # "open"
    BY <2>2 DEF UnitsInRow, OpenTogether, SameKey, Committed
  <2> QED BY <2>2, <2>3 DEF Committed
<1> QED BY <1>1, <1>2, <1>3 DEF Write

\* A unit of work neither changes the key nor takes back the commit of a row.
LEMMA CommittedStays ==
  ASSUME Shape, NEW w \in Writers, Write(w), NEW i \in Ids, Committed(i)
  PROVE  /\ i \in Ids' /\ Committed(i)'
         /\ outbox'[i].key = outbox[i].key
         /\ outbox'[i].topic = outbox[i].topic
         /\ outbox'[i].status = outbox[i].status
<1>1. CASE \E k \in Keys : Begin(w, k)
  BY <1>1 DEF Begin, Committed, Ids
<1>2. CASE Enqueue(w)
  BY <1>2, WorkInserts DEF Committed
<1>3. CASE CommitWork(w) \/ RollbackWork(w)
  <2>1. PICK s \in {"pending", "gone"} : outbox' = SetStatus(RowsOf(w), s)
    BY <1>3 DEF CommitWork, RollbackWork
  <2> QED BY <2>1, WorkEnds DEF Committed
<1> QED BY <1>1, <1>2, <1>3 DEF Write

\* No two passes overlap: what is said of one relay holds of relays that take
\* turns, as those of a deployment that stops a pod before it starts the next.
TakeTurns ==
  \A p, q \in Relays : relay[p].pc # "idle" /\ relay[q].pc # "idle" => p = q

\* Then no locked row is skipped: what is still to be sent has before it every
\* committed row of its order, in the same pass or published.
OldestClaimed ==
  \A p \in Relays : \A c \in relay[p].todo, j \in Ids :
    j < c /\ SameKey(c, j) /\ Committed(j) =>
      j \in Claimed(p) \/ outbox[j].status = "published"

NothingDropped == dropped = {}

InOrder == OldestClaimed /\ NothingDropped /\ FirstCopiesInOrder

LEMMA InOrderInit == Init => InOrder
  BY NoPassType
  DEF Init, InOrder, OldestClaimed, NothingDropped, FirstCopiesInOrder, Ids

\* A pass claims the oldest rows; it then only gets on with them.
LEMMA OldestClaimedStep ==
  ASSUME Shape, Shape', Exclusive, Store, UnitsInRow, TakeTurns, TakeTurns',
         OldestClaimed, [Next]_vars
  PROVE  OldestClaimed'
<1>t. TypeOK /\ PassOK /\ Ids \subseteq Nat
  BY DEF Shape, TypeOK, Ids
<1>c. \A p \in Relays : \A i \in Claimed(p) : i \in Ids /\ Committed(i)
  BY <1>t DEF Exclusive, Committed, PassOK
\* Only the relay that takes the step can have anything to send.
<1>a. ASSUME NEW p \in Relays, relay[p].pc # "idle" \/ relay'[p].pc # "idle",
             NEW v, relay' = [relay EXCEPT ![p] = v], NEW q \in Relays \ {p}
      PROVE  /\ Claimed(q) = {} /\ relay'[q].todo = {}
  <2>1. relay'[q] = relay[q]
    BY <1>t, <1>a DEF TypeOK
  <2>2. relay[q].pc = "idle"
    BY <1>a, <2>1 DEF TakeTurns
  <2>3. relay[q] = NoPass
    BY <1>t, <2>2 DEF PassOK
  <2> QED BY <2>1, <2>3, NoPassType DEF Claimed
<1>1. ASSUME NEW w \in Writers, Write(w)
      PROVE  OldestClaimed'
  <2>1. relay' = relay
    BY <1>1 DEF Write, Begin, Enqueue, CommitWork, RollbackWork, RelaySide
  <2>2. ASSUME NEW p \in Relays, NEW c \in relay[p].todo, NEW j \in Ids',
               j < c, outbox'[c].key = outbox'[j].key, Committed(j)'
        PROVE  j \in Claimed(p) \/ outbox'[j].status = "published"
    <3>1. c \in Ids /\ Committed(c)
      BY <1>c DEF Claimed
    <3>2. outbox'[c].key = outbox[c].key
      BY <1>1, <3>1, CommittedStays
    <3>3. j \in Ids /\ Committed(j)
      BY <1>1, <2>2, <3>1, <3>2, CommitsInOrder
    <3>4. /\ outbox'[j].key = outbox[j].key
          /\ outbox'[j].status = outbox[j].status
      BY <1>1, <3>3, CommittedStays
    <3> QED BY <2>2, <3>2, <3>3, <3>4 DEF OldestClaimed, SameKey
  <2> QED BY <2>1, <2>2 DEF OldestClaimed, SameKey, Claimed
<1>2. ASSUME NEW p \in Relays, Claim(p)
      PROVE  OldestClaimed'
  <2>1. PICK b \in OldestFirst(p) :
          relay' = [relay EXCEPT ![p] =
            [pc |-> "send", todo |-> b, done |-> {}]]
    BY <1>2 DEF Claim
  <2>2. outbox' = outbox
    BY <1>2 DEF Claim
  <2>3. /\ relay'[p].pc = "send"
        /\ relay'[p].todo = b /\ relay'[p].done = {}
        /\ Claimed(p)' = b
    BY <1>t, <2>1 DEF TypeOK, Claimed
  <2>4. \A q \in Relays \ {p} : Claimed(q) = {} /\ relay'[q].todo = {}
    BY <1>a, <2>1, <2>3
  <2>5. Claimable(p) = {i \in Ids : outbox[i].status = "pending"}
    BY <2>4 DEF Claimable
  <2>6. ASSUME NEW c \in b, NEW j \in Ids, j < c, Committed(j)
        PROVE  j \in b \/ outbox[j].status = "published"
    BY <2>1, <2>5, <2>6 DEF OldestFirst, Committed
  <2> QED BY <2>2, <2>3, <2>4, <2>6 DEF OldestClaimed, Committed, Ids
<1>3. ASSUME NEW p \in Relays,
             \/ SendSucceeds(p) \/ SendDropped(p) \/ SendFails(p)
             \/ SendReplyLost(p) \/ Mark(p)
      PROVE  OldestClaimed'
  <2>1. outbox' = outbox /\ relay[p].pc # "idle"
    BY <1>3 DEF SendSucceeds, SendDropped, SendFails, SendReplyLost, Mark
  <2>2. /\ relay'[p].todo \subseteq relay[p].todo
        /\ Claimed(p)' = Claimed(p)
        /\ \E v : relay' = [relay EXCEPT ![p] = v]
    <3>1. relay[p] \in Pass /\ relay \in [Relays -> Pass]
      BY <1>t DEF TypeOK
    <3>2. CASE Mark(p)
      <4>1. Current(p) \in relay[p].todo
        BY <3>2, PassGoesOn DEF Mark
      <4>2. /\ relay'[p].todo = relay[p].todo \ {Current(p)}
            /\ relay'[p].done = relay[p].done \cup {Current(p)}
        BY <3>1, <3>2 DEF Mark
      <4>3. \E v : relay' = [relay EXCEPT ![p] = v]
        BY <3>2 DEF Mark
      <4> QED BY <4>1, <4>2, <4>3 DEF Claimed
    <3>3. CASE SendSucceeds(p) \/ SendDropped(p) \/ SendFails(p)
                 \/ SendReplyLost(p)
      <4>1. PICK pc : relay' = [relay EXCEPT ![p].pc = pc]
        BY <3>3 DEF SendSucceeds, SendDropped, SendFails, SendReplyLost
      <4>2. /\ relay'[p].todo = relay[p].todo
            /\ relay'[p].done = relay[p].done
        BY <3>1, <4>1 DEF Pass
      <4> QED BY <4>1, <4>2 DEF Claimed
    <3> QED BY <1>3, <3>2, <3>3
  <2>3. \A q \in Relays \ {p} : relay'[q].todo = {}
    BY <1>a, <2>1, <2>2
  <2> QED BY <2>1, <2>2, <2>3 DEF OldestClaimed, SameKey, Committed, Ids
<1>4. ASSUME NEW p \in Relays,
             \/ RecordSendFailure(p) \/ CommitPass(p) \/ PassBreaksOff(p)
             \/ Shutdown(p)
      PROVE  OldestClaimed'
  <2>1. relay' = [relay EXCEPT ![p] = NoPass]
    BY <1>4 DEF RecordSendFailure, CommitPass, PassBreaksOff, Shutdown
  <2>2. relay'[p].todo = {}
    BY <1>t, <2>1, NoPassType DEF TypeOK
  <2>3. CASE relay[p].pc # "idle"
    <3>1. \A q \in Relays \ {p} : relay'[q].todo = {}
      BY <1>a, <2>1, <2>3
    <3> QED BY <2>2, <3>1 DEF OldestClaimed
  \* A relay stopped between two passes: nothing else changes.
  <2>4. CASE relay[p].pc = "idle"
    <3>1. Shutdown(p) /\ relay' = relay
      BY <1>t, <1>4, <2>1, <2>4
      DEF RecordSendFailure, CommitPass, PassBreaksOff, PassOK, TypeOK
    <3> QED BY <3>1
            DEF Shutdown, OldestClaimed, SameKey, Committed, Claimed, Ids
  <2> QED BY <2>3, <2>4
<1>5. CASE UNCHANGED vars
  BY <1>5 DEF vars, OldestClaimed, SameKey, Committed, Claimed, Ids
<1> QED BY <1>1, <1>2, <1>3, <1>4, <1>5 DEF Next, Step, EmptyPass

\* What one relay sends next has all of its order's earlier events before it.
LEMMA FirstCopiesStep ==
  ASSUME Shape, Exclusive, Store, SentFirst, UnitsInRow, InOrder, [Next]_vars
  PROVE  FirstCopiesInOrder'
<1>t. TypeOK /\ log \in Seq(Nat) /\ Ids \subseteq Nat
  BY DEF Shape, TypeOK, Ids
<1>l. \A n \in DOMAIN log : log[n] \in Ids /\ Committed(log[n])
  BY DEF Store, LogCommitted, Logged
<1>f. \A n \in DOMAIN log, j \in Ids :
        j < log[n] /\ SameStream(j, log[n]) /\ Committed(j) =>
          \E h \in 1..n : log[h] = j
  BY DEF InOrder, FirstCopiesInOrder, Committed
<1>1. ASSUME NEW w \in Writers, Write(w)
      PROVE  FirstCopiesInOrder'
  <2>1. log' = log
    BY <1>1 DEF Write, Begin, Enqueue, CommitWork, RollbackWork, RelaySide
  <2>2. ASSUME NEW n \in DOMAIN log, NEW j \in Ids', j < log[n],
               SameStream(j, log[n])', Committed(j)'
        PROVE  \E h \in 1..n : log[h] = j
    <3>1. PICK i \in Ids : i = log[n] /\ Committed(i)
      BY <1>l
    <3>2. /\ outbox'[i].key = outbox[i].key
          /\ outbox'[i].topic = outbox[i].topic
      BY <1>1, <3>1, CommittedStays
    <3>3. outbox'[j].key = outbox'[i].key /\ outbox'[j].topic = outbox'[i].topic
      BY <2>1, <2>2, <3>1 DEF SameStream
    <3>4. j \in Ids /\ Committed(j)
      BY <1>1, <2>2, <3>1, <3>2, <3>3, CommitsInOrder
    <3>5. /\ outbox'[j].key = outbox[j].key
          /\ outbox'[j].topic = outbox[j].topic
      BY <1>1, <3>4, CommittedStays
    <3> QED BY <1>f, <2>2, <3>1, <3>2, <3>3, <3>4, <3>5 DEF SameStream
  <2> QED BY <2>1, <2>2 DEF FirstCopiesInOrder, Committed
<1>2. ASSUME NEW p \in Relays, RelayStep(p)
      PROVE  FirstCopiesInOrder'
  <2>1. /\ Ids' = Ids
        /\ \A i \in Ids : /\ outbox'[i].key = outbox[i].key
                          /\ outbox'[i].topic = outbox[i].topic
                          /\ Committed(i)' <=> Committed(i)
    BY <1>2, RelayKeepsRows
  <2>2. CASE log' = log
    BY <1>f, <1>l, <2>1, <2>2 DEF FirstCopiesInOrder, SameStream, Committed
  <2>3. CASE SendSucceeds(p) \/ SendReplyLost(p)
    <3>1. PICK c : c = Current(p)
      OBVIOUS
    <3>2. /\ c \in relay[p].todo /\ c \in Ids /\ c \in Nat
          /\ \A j \in relay[p].todo : c <= j
      BY <2>3, <3>1, PassGoesOn DEF SendSucceeds, SendReplyLost
    <3>3. log' = Append(log, c)
      BY <2>3, <3>1 DEF SendSucceeds, SendReplyLost
    <3>4. /\ DOMAIN log' = DOMAIN log \cup {Len(log) + 1}
          /\ \A n \in DOMAIN log : log'[n] = log[n] /\ n \in Nat
                                   /\ n <= Len(log)
          /\ log'[Len(log) + 1] = c /\ Len(log) \in Nat
      BY <1>t, <3>2, <3>3
    <3>5. ASSUME NEW j \in Ids, j < c, SameStream(j, c), Committed(j)
          PROVE  \E h \in DOMAIN log : log[h] = j
      <4>1. j \in Claimed(p) \/ outbox[j].status = "published"
        BY <3>2, <3>5 DEF InOrder, OldestClaimed, SameStream, SameKey
      <4>2. j \notin relay[p].todo
        BY <1>t, <3>2, <3>5
      <4>3. Sent(j)
        BY <3>5, <4>1, <4>2
        DEF Claimed, SentFirst, PublishedWasSent, MarksSent, Sent
      <4> QED BY <4>3 DEF Sent, Logged, InOrder, NothingDropped
    <3>6. ASSUME NEW n \in DOMAIN log', NEW j \in Ids, j < log'[n],
                 SameStream(j, log'[n]), Committed(j)
          PROVE  \E h \in 1..n : log'[h] = j
      <4>1. CASE n \in DOMAIN log
        <5>1. PICK h \in 1..n : log[h] = j
          BY <1>f, <3>4, <3>6, <4>1
        <5>2. h \in DOMAIN log
          BY <3>4, <4>1
        <5> QED BY <3>4, <5>1, <5>2
      <4>2. CASE n = Len(log) + 1
        <5>1. PICK h \in DOMAIN log : log[h] = j
          BY <3>4, <3>5, <3>6, <4>2
        <5>2. h \in 1..n
          BY <3>4, <4>2
        <5> QED BY <3>4, <5>1, <5>2
      <4> QED BY <3>4, <4>1, <4>2
    <3>7. \A n \in DOMAIN log' : log'[n] \in Ids
      BY <1>l, <3>2, <3>4
    <3> QED BY <2>1, <3>6, <3>7 DEF FirstCopiesInOrder, SameStream, Committed
  <2>4. log' = log \/ SendSucceeds(p) \/ SendReplyLost(p)
    BY <1>2
    DEF RelayStep, EmptyPass, Claim, SendDropped, SendFails, Step, Mark,
        RecordSendFailure, CommitPass, PassBreaksOff, Shutdown, vars
  <2> QED BY <2>2, <2>3, <2>4
<1>3. CASE UNCHANGED vars
  BY <1>f, <1>3 DEF vars, FirstCopiesInOrder, SameStream, Committed, Ids
<1> QED BY <1>1, <1>2, <1>3 DEF Next, RelayStep

LEMMA NothingDroppedStep ==
  ASSUME BrokerLoses = FALSE, NothingDropped, [Next]_vars
  PROVE  NothingDropped'
  BY DEF Next, Write, Begin, Enqueue, CommitWork, RollbackWork, RelaySide,
         EmptyPass, Claim, SendSucceeds, SendDropped, SendFails,
         SendReplyLost, Step, Mark, RecordSendFailure, CommitPass,
         PassBreaksOff, Shutdown, vars, NothingDropped

LEMMA AlwaysUnitsInRow == Spec => []UnitsInRow
  BY AlwaysShape, AlwaysExclusive, AlwaysStore, UnitsInRowInit, UnitsInRowStep,
     PTL DEF Spec

LEMMA AlwaysInOrder ==
  ASSUME BrokerLoses = FALSE
  PROVE  Spec /\ []TakeTurns => []InOrder
<1>1. Shape /\ Shape' /\ Exclusive /\ Store /\ SentFirst /\ UnitsInRow
        /\ TakeTurns /\ TakeTurns' /\ InOrder /\ [Next]_vars => InOrder'
  BY OldestClaimedStep, NothingDroppedStep, FirstCopiesStep DEF InOrder
<1>2. Spec => []SentFirst
  BY AlwaysShape, SentFirstInit, SentFirstStep, PTL DEF Spec
<1> QED BY <1>1, <1>2, AlwaysUnitsInRow, AlwaysShape, AlwaysExclusive,
           AlwaysStore, InOrderInit, PTL DEF Spec

\* Relays that take turns over a broker that keeps its messages show every
\* order's events for the first time in the order of their commits, on each
\* topic, whatever fails, is sent again, breaks off or is stopped: only passes
\* that overlap can reorder them.
THEOREM TurnsKeepOrder ==
  ASSUME BrokerLoses = FALSE
  PROVE  Spec /\ []TakeTurns => []FirstCopiesInOrder
<1>1. InOrder => FirstCopiesInOrder
  BY DEF InOrder
<1> QED BY <1>1, AlwaysInOrder, PTL

\* One relay always does.
LEMMA OneRelayTakesTurns ==
  ASSUME NEW the, Relays = {the}
  PROVE  TakeTurns
  BY DEF TakeTurns

\* One relay over a broker that keeps its messages shows every order's events
\* for the first time in the order of their commits, on each topic, whatever
\* fails, is sent again or breaks off.
THEOREM OneRelayKeepsOrder ==
  ASSUME NEW the, Relays = {the}, BrokerLoses = FALSE
  PROVE  Spec => []FirstCopiesInOrder
<1>1. TakeTurns
  BY OneRelayTakesTurns
<1> QED BY <1>1, TurnsKeepOrder, PTL

-----------------------------------------------------------------------------
(***************************************************************************)
(* Refinement of OrderedDelivery.  Each member of a finite set has a place *)
(* of its own in the order of a rank, and all the places are taken; a new  *)
(* member of a greater rank takes the next one.                            *)
(***************************************************************************)
LEMMA SameLength ==
  ASSUME NEW m \in Nat, NEW n \in Nat, 1..m = 1..n
  PROVE  m = n
<1>1. ASSUME NEW a \in Nat, NEW b \in Nat, a < b
      PROVE  1..a # 1..b
  <2>1. b \in 1..b /\ b \notin 1..a
    BY <1>1
  <2> QED  BY <2>1
<1> QED  BY <1>1

Ranks(S, rank) ==
  /\ \A i \in S : rank[i] \in Nat
  /\ \A i, j \in S : rank[i] = rank[j] => i = j

LEMMA Places ==
  ASSUME NEW S, IsFiniteSet(S), NEW rank, Ranks(S, rank)
  PROVE  /\ Cardinality(S) \in Nat
         /\ \A i \in S : Place(S, rank, i) \in 1..Cardinality(S)
         /\ \A i, j \in S : Place(S, rank, i) = Place(S, rank, j) => i = j
         /\ \A n \in 1..Cardinality(S) : \E i \in S : Place(S, rank, i) = n
<1> DEFINE UpTo(i) == {j \in S : rank[j] <= rank[i]}
           place == [i \in S |-> Cardinality(UpTo(i))]
<1>1. \A i \in S : Place(S, rank, i) = place[i]
  BY DEF Place
<1>2. Cardinality(S) \in Nat
  BY FS_CardinalityType
<1>3. \A i \in S : /\ i \in UpTo(i) /\ IsFiniteSet(UpTo(i))
                   /\ Cardinality(UpTo(i)) \in 1..Cardinality(S)
  <2> SUFFICES ASSUME NEW i \in S
               PROVE  /\ i \in UpTo(i) /\ IsFiniteSet(UpTo(i))
                      /\ Cardinality(UpTo(i)) \in 1..Cardinality(S)
    OBVIOUS
  <2>1. i \in UpTo(i)
    BY DEF Ranks
  <2>2. UpTo(i) \in SUBSET S
    OBVIOUS
  <2> HIDE DEF UpTo
  <2>3. /\ IsFiniteSet(UpTo(i)) /\ Cardinality(UpTo(i)) \in Nat
        /\ Cardinality(UpTo(i)) <= Cardinality(S)
    BY <2>2, FS_Subset, FS_CardinalityType
  <2>4. Cardinality(UpTo(i)) # 0
    BY <2>1, <2>3, FS_EmptySet
  <2> QED  BY <1>2, <2>1, <2>3, <2>4
<1>4. \A i, j \in S : rank[i] < rank[j] => place[i] # place[j]
  <2> SUFFICES ASSUME NEW i \in S, NEW j \in S, rank[i] < rank[j],
                      place[i] = place[j]
               PROVE  FALSE
    OBVIOUS
  <2>1. UpTo(i) \in SUBSET UpTo(j) /\ j \notin UpTo(i)
    BY DEF Ranks
  <2>2. Cardinality(UpTo(i)) = Cardinality(UpTo(j))
    OBVIOUS
  <2> HIDE DEF UpTo, place
  <2> QED  BY <1>3, <2>1, <2>2, FS_Subset
<1>5. \A i, j \in S : place[i] = place[j] => i = j
  <2> SUFFICES ASSUME NEW i \in S, NEW j \in S, place[i] = place[j], i # j
               PROVE  FALSE
    OBVIOUS
  <2>1. rank[i] < rank[j] \/ rank[j] < rank[i]
    BY DEF Ranks
  <2> HIDE DEF place
  <2> QED  BY <1>4, <2>1
<1>6. place \in Injection(S, 1..Cardinality(S))
  <2>1. place \in [S -> 1..Cardinality(S)]
    BY <1>3
  <2> HIDE DEF place
  <2> QED  BY <1>5, <2>1 DEF Injection, IsInjective
<1>7. /\ IsFiniteSet(1..Cardinality(S))
      /\ Cardinality(1..Cardinality(S)) = Cardinality(S)
  BY <1>2, FS_Interval
<1> HIDE DEF place
<1>8. place \in Surjection(S, 1..Cardinality(S))
  BY <1>6, <1>7, FS_Injection
<1>9. \A n \in 1..Cardinality(S) : \E i \in S : place[i] = n
  BY <1>8 DEF Surjection
<1>10. \A i \in S : place[i] \in 1..Cardinality(S)
  BY <1>6 DEF Injection
<1> QED  BY <1>1, <1>2, <1>5, <1>9, <1>10

\* The event at a place is that of the row that has it.
LEMMA EventsAt ==
  ASSUME NEW rows, NEW S, IsFiniteSet(S), NEW rank, Ranks(S, rank)
  PROVE  /\ DOMAIN EventsBy(rows, S, rank) = 1..Cardinality(S)
         /\ \A i \in S :
              EventsBy(rows, S, rank)[Place(S, rank, i)] = rows[i].event
<1> DEFINE at(n) == CHOOSE i \in S : Place(S, rank, i) = n
<1>1. EventsBy(rows, S, rank) = [n \in 1..Cardinality(S) |-> rows[at(n)].event]
  BY DEF EventsBy
<1>2. \A i \in S : at(Place(S, rank, i)) = i
  BY Places
<1> HIDE DEF at
<1> QED  BY <1>1, <1>2, Places

\* A list of events is as long as the set it lists.
LEMMA EventsLength ==
  ASSUME NEW rows, NEW S, IsFiniteSet(S), NEW rank, Ranks(S, rank),
         \A i \in S : rows[i].event \in Nat
  PROVE  /\ EventsBy(rows, S, rank) \in Seq(Nat)
         /\ Len(EventsBy(rows, S, rank)) = Cardinality(S)
         /\ Cardinality(S) \in Nat
<1> DEFINE list == EventsBy(rows, S, rank)
           N == Cardinality(S)
<1>1. N \in Nat /\ \A n \in 1..N : \E i \in S : Place(S, rank, i) = n
  BY Places
<1>2. DOMAIN list = 1..N /\ \A i \in S : list[Place(S, rank, i)] = rows[i].event
  BY EventsAt
<1>3. list = [n \in 1..N |-> list[n]]
  BY DEF EventsBy
<1> HIDE DEF list, N
<1>4. \A n \in 1..N : list[n] \in Nat
  BY <1>1, <1>2
<1>5. list \in [1..N -> Nat]
  BY <1>3, <1>4
<1>6. list \in Seq(Nat)
  BY <1>1, <1>5
<1>7. DOMAIN list = 1..Len(list) /\ Len(list) \in Nat
  BY <1>6
<1>8. Len(list) = N
  BY <1>1, <1>2, <1>7, SameLength
<1> QED  BY <1>1, <1>6, <1>8 DEF list, N

\* They are the same for ranks that agree and rows of the same events.
LEMMA EventsSame ==
  ASSUME NEW rows, NEW later, NEW S, NEW rank, NEW newRank
  PROVE  /\ IsFiniteSet(S) /\ Ranks(S, rank)
         /\ \A i \in S : newRank[i] = rank[i]
         /\ \A i \in S : later[i].event = rows[i].event
         => EventsBy(later, S, newRank) = EventsBy(rows, S, rank)
<1> SUFFICES ASSUME IsFiniteSet(S), Ranks(S, rank),
                    \A i \in S : newRank[i] = rank[i],
                    \A i \in S : later[i].event = rows[i].event
             PROVE  EventsBy(later, S, newRank) = EventsBy(rows, S, rank)
  OBVIOUS
<1>1. Ranks(S, newRank)
  BY DEF Ranks
<1>2. ASSUME NEW i \in S
      PROVE  Place(S, newRank, i) = Place(S, rank, i)
  <2>1. {j \in S : newRank[j] <= newRank[i]} = {j \in S : rank[j] <= rank[i]}
    OBVIOUS
  <2> QED  BY <2>1 DEF Place
<1>3. \A i \in S :
        EventsBy(later, S, newRank)[Place(S, rank, i)]
          = EventsBy(rows, S, rank)[Place(S, rank, i)]
  <2> SUFFICES ASSUME NEW i \in S
               PROVE  EventsBy(later, S, newRank)[Place(S, rank, i)]
                        = EventsBy(rows, S, rank)[Place(S, rank, i)]
    OBVIOUS
  <2>1. EventsBy(later, S, newRank)[Place(S, newRank, i)] = later[i].event
    BY <1>1, EventsAt
  <2>2. EventsBy(rows, S, rank)[Place(S, rank, i)] = rows[i].event
    BY EventsAt
  <2> QED  BY <1>2, <2>1, <2>2
<1>4. \A n \in 1..Cardinality(S) :
        EventsBy(later, S, newRank)[n] = EventsBy(rows, S, rank)[n]
  BY <1>3, Places
<1>5. /\ EventsBy(later, S, newRank)
           = [n \in 1..Cardinality(S) |-> EventsBy(later, S, newRank)[n]]
      /\ EventsBy(rows, S, rank)
           = [n \in 1..Cardinality(S) |-> EventsBy(rows, S, rank)[n]]
  BY DEF EventsBy
<1> QED  BY <1>4, <1>5, Zenon

\* So nothing changes if only the rest of a row does.
LEMMA EventsKept ==
  ASSUME NEW rows, NEW later, NEW S, IsFiniteSet(S), NEW rank, Ranks(S, rank),
         \A i \in S : later[i].event = rows[i].event
  PROVE  EventsBy(later, S, rank) = EventsBy(rows, S, rank)
<1>1. \A newRank : (\A i \in S : newRank[i] = rank[i]) =>
        EventsBy(later, S, newRank) = EventsBy(rows, S, rank)
  BY EventsSame
<1> QED  BY <1>1

\* A row of a greater rank comes last.
LEMMA EventsAppend ==
  ASSUME NEW rows, NEW later, NEW S, NEW rank, NEW newRank, NEW x, NEW T,
         NEW e
  PROVE  /\ IsFiniteSet(S) /\ Ranks(S, rank)
         /\ \A i \in S : newRank[i] = rank[i]
         /\ \A i \in S : later[i].event = rows[i].event /\ rows[i].event \in Nat
         /\ x \notin S /\ newRank[x] \in Nat
         /\ \A i \in S : newRank[i] < newRank[x]
         /\ T = S \cup {x} /\ e = later[x].event
         => EventsBy(later, T, newRank) = Append(EventsBy(rows, S, rank), e)
<1> SUFFICES ASSUME IsFiniteSet(S), Ranks(S, rank),
                    \A i \in S : newRank[i] = rank[i],
                    \A i \in S : later[i].event = rows[i].event
                                 /\ rows[i].event \in Nat,
                    x \notin S, newRank[x] \in Nat,
                    \A i \in S : newRank[i] < newRank[x],
                    T = S \cup {x}, e = later[x].event
             PROVE  EventsBy(later, T, newRank)
                      = Append(EventsBy(rows, S, rank), e)
  OBVIOUS
<1> DEFINE old == EventsBy(rows, S, rank)
           new == EventsBy(later, T, newRank)
           N == Cardinality(S)
<1>1. /\ IsFiniteSet(T) /\ Cardinality(T) = N + 1
      /\ Ranks(T, newRank) /\ N \in Nat
  <2>1. IsFiniteSet(T) /\ Cardinality(T) = N + 1
    <3>1. IsFiniteSet(S \cup {x}) /\ Cardinality(S \cup {x}) = N + 1
      BY FS_AddElement
    <3> QED  BY <3>1
  <2>2. Ranks(T, newRank)
    BY DEF Ranks
  <2>3. N \in Nat
    BY FS_CardinalityType
  <2> QED  BY <2>1, <2>2, <2>3
<1>2. ASSUME NEW i \in S
      PROVE  Place(T, newRank, i) = Place(S, rank, i)
  <2>1. {j \in T : newRank[j] <= newRank[i]} = {j \in S : rank[j] <= rank[i]}
    BY DEF Ranks
  <2> QED  BY <2>1 DEF Place
<1>3. Place(T, newRank, x) = N + 1
  <2>1. {j \in T : newRank[j] <= newRank[x]} = T
    BY DEF Ranks
  <2> QED  BY <1>1, <2>1 DEF Place
<1>4. DOMAIN old = 1..N /\ \A i \in S : old[Place(S, rank, i)] = rows[i].event
  BY EventsAt
<1>5. /\ DOMAIN new = 1..(N + 1)
      /\ \A i \in T : new[Place(T, newRank, i)] = later[i].event
  <2>1. /\ DOMAIN EventsBy(later, T, newRank) = 1..Cardinality(T)
        /\ \A i \in T : EventsBy(later, T, newRank)[Place(T, newRank, i)]
                          = later[i].event
    <3>1. IsFiniteSet(T) /\ Ranks(T, newRank)
      BY <1>1
    <3>2. DOMAIN EventsBy(later, T, newRank) = 1..Cardinality(T)
      BY <3>1, EventsAt
    <3>3. ASSUME NEW i \in T
          PROVE  EventsBy(later, T, newRank)[Place(T, newRank, i)]
                   = later[i].event
      BY <3>1, EventsAt
    <3> QED  BY <3>2, <3>3
  <2> QED  BY <1>1, <2>1
<1>6. \A n \in 1..N : \E i \in S : Place(S, rank, i) = n
  BY Places
<1>7. old = [n \in 1..N |-> old[n]] /\ new = [n \in 1..(N + 1) |-> new[n]]
  BY <1>1 DEF EventsBy
<1>8. \A n \in 1..N : new[n] = old[n] /\ old[n] \in Nat
  <2> SUFFICES ASSUME NEW n \in 1..N
               PROVE  new[n] = old[n] /\ old[n] \in Nat
    OBVIOUS
  <2>1. PICK i \in S : Place(S, rank, i) = n
    BY <1>6
  <2>2. i \in T /\ Place(T, newRank, i) = n
    BY <1>2, <2>1
  <2> HIDE DEF old, new
  <2> QED  BY <1>4, <1>5, <2>1, <2>2
<1>9. new[N + 1] = later[x].event
  <2>1. x \in T
    OBVIOUS
  <2> HIDE DEF new
  <2> QED  BY <1>3, <1>5, <2>1
<1> HIDE DEF old, new, N
<1>10. old \in Seq(Nat) /\ Len(old) = N
  BY EventsLength DEF old, N
<1>11. new = Append(old, later[x].event)
  <2>1. Append(old, later[x].event)
          = [n \in 1..(N + 1) |-> IF n = N + 1 THEN later[x].event ELSE old[n]]
    BY <1>1, <1>10
  <2>2. \A n \in 1..(N + 1) :
          new[n] = IF n = N + 1 THEN later[x].event ELSE old[n]
    BY <1>1, <1>8, <1>9
  <2> QED  BY <1>7, <2>1, <2>2, Zenon
<1> QED  BY <1>11 DEF old, new

\* The first copy of a message is the first.
LEMMA FirstCopyAt ==
  ASSUME NEW messages \in Seq(Nat), NEW n \in DOMAIN messages
  PROVE  /\ FirstCopy(messages)[messages[n]] \in DOMAIN messages
         /\ messages[FirstCopy(messages)[messages[n]]] = messages[n]
         /\ FirstCopy(messages)[messages[n]] <= n
<1> DEFINE i == messages[n]
           at == {m \in DOMAIN messages : messages[m] = i}
           P(m) == messages[m] = i /\ \A h \in 1..(m - 1) : messages[h] # i
<1>1. DOMAIN messages = 1..Len(messages) /\ Len(messages) \in Nat
  OBVIOUS
<1>2. at \in SUBSET Nat /\ n \in at
  BY <1>1
<1>3. PICK first \in at : \A m \in at : first <= m
  BY <1>2, Least
<1>4. first \in DOMAIN messages /\ P(first)
  BY <1>1, <1>3
<1>5. FirstCopy(messages)[i] = CHOOSE m \in DOMAIN messages : P(m)
  BY DEF FirstCopy
<1>6. FirstCopy(messages)[i] \in DOMAIN messages /\ P(FirstCopy(messages)[i])
  <2> HIDE DEF P
  <2> QED  BY <1>4, <1>5
<1>7. ~(n < FirstCopy(messages)[i])
  BY <1>1, <1>6
<1> QED  BY <1>1, <1>6, <1>7

\* A message more leaves the first copies of the others where they were.
LEMMA FirstCopyStays ==
  ASSUME NEW messages \in Seq(Nat), NEW c \in Nat
  PROVE  /\ \A n \in DOMAIN messages :
              FirstCopy(Append(messages, c))[messages[n]]
                = FirstCopy(messages)[messages[n]]
         /\ (\A n \in DOMAIN messages : messages[n] # c) =>
              FirstCopy(Append(messages, c))[c] = Len(messages) + 1
<1> DEFINE more == Append(messages, c)
<1>1. /\ more \in Seq(Nat) /\ Len(messages) \in Nat
      /\ DOMAIN messages = 1..Len(messages)
      /\ DOMAIN more = 1..(Len(messages) + 1)
      /\ \A n \in DOMAIN messages : more[n] = messages[n]
      /\ more[Len(messages) + 1] = c
  OBVIOUS
<1> HIDE DEF more
<1>2. ASSUME NEW n \in DOMAIN messages
      PROVE  FirstCopy(more)[messages[n]] = FirstCopy(messages)[messages[n]]
  <2> DEFINE f == FirstCopy(messages)[messages[n]]
             g == FirstCopy(more)[messages[n]]
  <2>1. f \in DOMAIN messages /\ messages[f] = messages[n] /\ f <= n
    BY FirstCopyAt
  <2>2. f \in DOMAIN more /\ more[f] = messages[n]
    BY <1>1, <2>1
  <2>3. g \in DOMAIN more /\ more[g] = messages[n] /\ g <= f
    <3>1. /\ FirstCopy(more)[more[f]] \in DOMAIN more
          /\ more[FirstCopy(more)[more[f]]] = more[f]
          /\ FirstCopy(more)[more[f]] <= f
      BY <1>1, <2>2, FirstCopyAt
    <3> QED  BY <2>2, <3>1
  <2> HIDE DEF f, g
  <2>4. g \in DOMAIN messages /\ messages[g] = messages[n]
    BY <1>1, <2>1, <2>3
  <2>5. f <= g
    BY <2>4, FirstCopyAt DEF f
  <2> QED  BY <1>1, <2>1, <2>3, <2>5 DEF f, g
<1>3. ASSUME \A n \in DOMAIN messages : messages[n] # c
      PROVE  FirstCopy(more)[c] = Len(messages) + 1
  <2>1. /\ FirstCopy(more)[c] \in DOMAIN more
        /\ more[FirstCopy(more)[c]] = c
    BY <1>1, FirstCopyAt
  <2> QED  BY <1>1, <1>3, <2>1
<1> QED  BY <1>2, <1>3 DEF more

-----------------------------------------------------------------------------
(***************************************************************************)
(* An open unit has one row for each topic it was enqueued for, so that a  *)
(* commit is one event more, the same one, in the history of each topic.   *)
(***************************************************************************)
OneRowEach ==
  /\ raised <= MaxEvents
  /\ \A i, j \in Ids :
       /\ outbox[i].status = "open" /\ outbox[j].status = "open"
       /\ outbox[i].event = outbox[j].event
       /\ outbox[i].topic = outbox[j].topic
       => i = j
  /\ \A w \in Writers : Busy(w) =>
       /\ \A m, n \in DOMAIN work[w].left :
            work[w].left[m] = work[w].left[n] => m = n
       /\ \A n \in DOMAIN work[w].left, i \in Ids :
            outbox[i].status = "open" /\ outbox[i].event = work[w].event
            => outbox[i].topic # work[w].left[n]

SameHistory ==
  \A t \in Topics, k \in Keys : History(t, k) = History(Encoders[1], k)

LEMMA OneRowEachInit == Init => OneRowEach /\ SameHistory
<1> SUFFICES ASSUME Init PROVE OneRowEach /\ SameHistory
  OBVIOUS
<1>1. Ids = {} /\ \A w \in Writers : ~Busy(w)
  BY NoPassType DEF Init, Ids, Busy
<1>2. OneRowEach
  BY <1>1 DEF Init, OneRowEach
<1>3. \A t, k : CommittedIds(t, k) = {}
  BY <1>1 DEF CommittedIds
<1>4. SameHistory
  BY <1>3 DEF SameHistory, History
<1> QED  BY <1>2, <1>4

LEMMA OneRowEachStep ==
  ASSUME Shape, Exclusive, Store, UnitsInRow, OneRowEach, [Next]_vars
  PROVE  OneRowEach'
<1>t. /\ TypeOK /\ WorksApart /\ OpenOwned /\ raised \in Nat
      /\ raised <= MaxEvents
  BY DEF Shape, TypeOK, Store, UnitsInRow, OneRowEach
<1>u. ASSUME raised' = raised, work' = work, Ids' = Ids,
             \A i \in Ids :
               /\ outbox'[i].topic = outbox[i].topic
               /\ outbox'[i].event = outbox[i].event
               /\ outbox'[i].status = "open" => outbox[i].status = "open"
      PROVE  OneRowEach'
  BY <1>u DEF OneRowEach, Busy
<1>1. ASSUME NEW w \in Writers, NEW k \in Keys, Begin(w, k)
      PROVE  OneRowEach'
  <2>1. /\ outbox' = outbox /\ Ids' = Ids /\ raised' = raised + 1
        /\ raised' <= MaxEvents
    BY <1>t, <1>1 DEF Begin, Ids
  <2>2. \A v \in Writers : work'[v] =
          IF v = w THEN [key |-> k, event |-> raised + 1, left |-> Encoders]
          ELSE work[v]
    BY <1>t, <1>1 DEF Begin, TypeOK
  <2>3. \A i \in Ids : outbox[i].status = "open" =>
          outbox[i].event # raised + 1
    BY <1>t DEF OpenOwned, WorksApart
  <2>4. \A m, n \in DOMAIN Encoders : Encoders[m] = Encoders[n] => m = n
    BY DEF Encoders
  <2> QED  BY <1>t, <2>1, <2>2, <2>3, <2>4 DEF OneRowEach, Busy
<1>2. ASSUME NEW w \in Writers, Enqueue(w)
      PROVE  OneRowEach'
  <2> DEFINE left == work[w].left
  <2>1. PICK new : /\ Ids' = Ids \cup {new} /\ new \notin Ids
                   /\ \A i \in Ids : outbox'[i] = outbox[i]
                   /\ outbox'[new].topic = Head(left)
                   /\ outbox'[new].event = work[w].event
                   /\ outbox'[new].status = "open"
    BY <1>2, WorkInserts
  <2>2. \A v \in Writers :
          /\ work'[v].event = work[v].event
          /\ work'[v].left = IF v = w THEN Tail(left) ELSE work[v].left
          /\ Busy(v)' <=> Busy(v)
    <3>1. \A v \in Writers :
            /\ work'[v].key = work[v].key /\ work'[v].event = work[v].event
            /\ work'[v].left = IF v = w THEN Tail(left) ELSE work[v].left
      BY <1>t, <1>2 DEF Enqueue, TypeOK, Work
    <3> QED  BY <3>1 DEF Busy
  <2>3. Busy(w) /\ raised' = raised
    BY <1>2, NextRow DEF Enqueue, Busy
  <2>4. /\ 1 \in DOMAIN left /\ Head(left) = left[1]
        /\ \A n \in DOMAIN Tail(left) :
             /\ n + 1 \in DOMAIN left /\ Tail(left)[n] = left[n + 1]
             /\ n + 1 # 1 /\ n \in Nat
    <3>1. left \in Seq(Topics) /\ left # <<>>
      BY <1>t, <1>2 DEF Enqueue, TypeOK, Work
    <3> HIDE DEF left
    <3> QED  BY <3>1
  <2>5. /\ \A m, n \in DOMAIN left : left[m] = left[n] => m = n
        /\ \A n \in DOMAIN left, i \in Ids :
             outbox[i].status = "open" /\ outbox[i].event = work[w].event
             => outbox[i].topic # left[n]
    BY <2>3 DEF OneRowEach
  <2>6. \A v \in Writers \ {w} : Busy(v) => work[v].event # work[w].event
    BY <1>t, <2>3 DEF WorksApart
  <2> HIDE DEF left
  <2>7. \A i, j \in Ids' :
          /\ outbox'[i].status = "open" /\ outbox'[j].status = "open"
          /\ outbox'[i].event = outbox'[j].event
          /\ outbox'[i].topic = outbox'[j].topic
          => i = j
    BY <2>1, <2>4, <2>5 DEF OneRowEach
  <2>8. ASSUME NEW v \in Writers, Busy(v)'
        PROVE  /\ \A m, n \in DOMAIN work'[v].left :
                    work'[v].left[m] = work'[v].left[n] => m = n
               /\ \A n \in DOMAIN work'[v].left, i \in Ids' :
                    /\ outbox'[i].status = "open"
                    /\ outbox'[i].event = work'[v].event
                    => outbox'[i].topic # work'[v].left[n]
    <3>1. CASE v = w
      <4>1. work'[v].left = Tail(left) /\ work'[v].event = work[w].event
        BY <2>2, <3>1
      <4>2. \A m, n \in DOMAIN Tail(left) :
              Tail(left)[m] = Tail(left)[n] => m = n
        BY <2>4, <2>5
      <4>3. ASSUME NEW n \in DOMAIN Tail(left), NEW i \in Ids',
                   outbox'[i].status = "open",
                   outbox'[i].event = work[w].event
            PROVE  outbox'[i].topic # Tail(left)[n]
        <5>1. n + 1 \in DOMAIN left /\ Tail(left)[n] = left[n + 1] /\ n + 1 # 1
          BY <2>4
        <5>2. CASE i = new
          BY <2>1, <2>4, <2>5, <5>1, <5>2
        <5>3. CASE i \in Ids
          BY <2>1, <2>5, <4>3, <5>1, <5>3
        <5> QED  BY <2>1, <5>2, <5>3
      <4> QED  BY <4>1, <4>2, <4>3
    <3>2. CASE v # w
      BY <2>1, <2>2, <2>6, <2>8, <3>2 DEF OneRowEach
    <3> QED  BY <3>1, <3>2
  <2> QED  BY <1>t, <2>3, <2>7, <2>8 DEF OneRowEach
<1>3. ASSUME NEW w \in Writers, CommitWork(w) \/ RollbackWork(w)
      PROVE  OneRowEach'
  <2>1. PICK s \in {"pending", "gone"} :
          /\ outbox' = SetStatus(RowsOf(w), s)
          /\ work' = [work EXCEPT ![w] = NoWork]
    BY <1>3 DEF CommitWork, RollbackWork
  <2>2. \A v \in Writers : Busy(v)' => Busy(v) /\ work'[v] = work[v]
    BY <1>t, <2>1, NoPassType DEF TypeOK, Busy
  <2>3. /\ Ids' = Ids
        /\ \A i \in Ids :
             /\ outbox'[i].topic = outbox[i].topic
             /\ outbox'[i].event = outbox[i].event
             /\ outbox'[i].status = "open" => outbox[i].status = "open"
    BY <2>1, WorkEnds
  <2>4. raised' = raised
    BY <1>3 DEF CommitWork, RollbackWork
  <2> QED  BY <2>2, <2>3, <2>4 DEF OneRowEach
<1>4. ASSUME NEW p \in Relays, RelayStep(p)
      PROVE  OneRowEach'
  BY <1>4, <1>u, RelayKeepsRows
<1>5. CASE UNCHANGED vars
  BY <1>5, <1>u DEF vars, Ids
<1> QED  BY <1>1, <1>2, <1>3, <1>4, <1>5 DEF Next, Write, RelayStep

\* Ids are finitely many and rank the rows; the place of the first copy
\* ranks those that were sent.
LEMMA IdsRank ==
  ASSUME Shape, NEW S \in SUBSET Ids
  PROVE  /\ IsFiniteSet(S) /\ Ranks(S, [i \in Ids |-> i])
         /\ \A i \in S : outbox[i].event \in Nat
<1>1. Ids = 1..Len(outbox) /\ Len(outbox) \in Nat /\ outbox \in Seq(Row)
  BY DEF Shape, TypeOK, Ids
<1>2. IsFiniteSet(S)
  <2>1. IsFiniteSet(1..Len(outbox))
    BY <1>1, FS_Interval
  <2> QED  BY <1>1, <2>1, FS_Subset
<1>3. \A i \in S : outbox[i] \in Row
  BY <1>1
<1> QED  BY <1>1, <1>2, <1>3 DEF Ranks, Row

LEMMA FirstCopyRanks ==
  ASSUME log \in Seq(Nat), NEW S, \A i \in S : Logged(i)
  PROVE  /\ Ranks(S, FirstCopy(log))
         /\ \A i \in S : FirstCopy(log)[i] \in DOMAIN log
<1>1. \A i \in S : FirstCopy(log)[i] \in DOMAIN log
                   /\ log[FirstCopy(log)[i]] = i
  BY FirstCopyAt DEF Logged
<1>2. DOMAIN log \in SUBSET Nat
  OBVIOUS
<1> QED  BY <1>1, <1>2 DEF Ranks

\* A step that commits nothing leaves the histories alone.
LEMMA HistoryStays ==
  ASSUME Shape, Ids \subseteq Ids',
         \A i \in Ids : /\ outbox'[i].key = outbox[i].key
                        /\ outbox'[i].topic = outbox[i].topic
                        /\ outbox'[i].event = outbox[i].event
                        /\ Committed(i)' <=> Committed(i),
         \A i \in Ids' \ Ids : ~Committed(i)',
         NEW t, NEW k
  PROVE  History(t, k)' = History(t, k)
<1> DEFINE S == CommittedIds(t, k)
           rank == [i \in Ids |-> i]
           newRank == [i \in Ids' |-> i]
<1>1. CommittedIds(t, k)' = S
  BY DEF CommittedIds, Committed
<1>2. S \in SUBSET Ids
  BY DEF CommittedIds
<1>3. /\ IsFiniteSet(S) /\ Ranks(S, rank)
      /\ \A i \in S : newRank[i] = rank[i] /\ outbox'[i].event = outbox[i].event
  BY <1>2, IdsRank
<1>4. History(t, k) = EventsBy(outbox, S, rank)
  BY DEF History
<1>5. History(t, k)' = EventsBy(outbox', S, newRank)
  BY <1>1 DEF History
<1> HIDE DEF S, rank, newRank
<1> QED  BY <1>3, <1>4, <1>5, EventsSame

\* A step that sends nothing leaves what is seen alone.
LEMMA SeenStays ==
  ASSUME Shape, Store, Ids \subseteq Ids', log' = log,
         \A i \in Ids : /\ outbox'[i].key = outbox[i].key
                        /\ outbox'[i].topic = outbox[i].topic
                        /\ outbox'[i].event = outbox[i].event,
         NEW t, NEW k
  PROVE  Seen(t, k)' = Seen(t, k)
<1> DEFINE S == SeenIds(t, k)
           rank == FirstCopy(log)
<1>1. SeenIds(t, k)' = S
  <2>1. \A i : Logged(i)' <=> Logged(i)
    BY DEF Logged
  <2>2. \A i : Logged(i) => i \in Ids
    BY DEF Store, LogCommitted
  <2> QED  BY <2>1, <2>2 DEF SeenIds
<1>2. S \in SUBSET Ids /\ \A i \in S : Logged(i)
  BY DEF SeenIds
<1>3. /\ IsFiniteSet(S) /\ Ranks(S, rank)
      /\ \A i \in S : outbox'[i].event = outbox[i].event
  BY <1>2, IdsRank, FirstCopyRanks DEF Shape, TypeOK
<1>4. Seen(t, k) = EventsBy(outbox, S, rank)
  BY DEF Seen
<1>5. Seen(t, k)' = EventsBy(outbox', S, rank)
  BY <1>1 DEF Seen
<1> HIDE DEF S, rank
<1> QED  BY <1>3, <1>4, <1>5, EventsKept

\* A commit is the unit's event, at the end of its order's history.
LEMMA CommitAppends ==
  ASSUME Shape, Store, UnitsInRow, OneRowEach,
         NEW w \in Writers, CommitWork(w), NEW t \in Topics, NEW k \in Keys
  PROVE  History(t, k)' =
           IF k = work[w].key THEN Append(History(t, k), work[w].event)
           ELSE History(t, k)
<1> DEFINE S == CommittedIds(t, k)
           rank == [i \in Ids |-> i]
<1>1. Busy(w) /\ work[w].left = <<>> /\ outbox' = SetStatus(RowsOf(w), "pending")
  BY DEF CommitWork, Busy
<1>2. /\ Ids' = Ids /\ Ids \subseteq Nat
      /\ \A i \in Ids :
           /\ outbox'[i].key = outbox[i].key
           /\ outbox'[i].topic = outbox[i].topic
           /\ outbox'[i].event = outbox[i].event
           /\ IF outbox[i].status = "open" /\ outbox[i].event = work[w].event
              THEN outbox'[i].status = "pending"
              ELSE outbox'[i].status = outbox[i].status
  BY <1>1, WorkEnds DEF Shape, TypeOK, Ids
<1>3. PICK x \in Ids : /\ outbox[x].event = work[w].event
                       /\ outbox[x].topic = t /\ outbox[x].status = "open"
  BY <1>1 DEF Store, WorkInserted, Queued
<1>4. ASSUME NEW i \in Ids, outbox[i].status = "open",
             outbox[i].event = work[w].event
      PROVE  /\ outbox[i].key = work[w].key
             /\ outbox[i].topic = t => i = x
  <2>1. outbox[i].key = work[w].key
    BY <1>1, <1>4 DEF UnitsInRow, OpenOwned, Store, WorksApart
  <2>2. outbox[i].topic = t => i = x
    BY <1>3, <1>4 DEF OneRowEach
  <2> QED  BY <2>1, <2>2
<1>5. CommittedIds(t, k)' = IF k = work[w].key THEN S \cup {x} ELSE S
  BY <1>2, <1>3, <1>4 DEF CommittedIds
<1>6. S \in SUBSET Ids
  BY DEF CommittedIds
<1>7. /\ IsFiniteSet(S) /\ Ranks(S, rank)
      /\ \A i \in S : outbox[i].event \in Nat
      /\ \A i \in S : outbox'[i].event = outbox[i].event
  BY <1>2, <1>6, IdsRank
<1>8. x \notin S /\ rank[x] = x /\ x \in Nat
  BY <1>2, <1>3 DEF CommittedIds
<1>9. ASSUME k = work[w].key, NEW i \in S
      PROVE  rank[i] < rank[x]
  <2>1. i \in Ids /\ Committed(i) /\ outbox[i].key = outbox[x].key /\ i # x
    BY <1>3, <1>4, <1>8, <1>9 DEF CommittedIds, Committed
  <2>2. ~(x < i)
    BY <1>3, <2>1 DEF UnitsInRow, OpenTogether, SameKey, Committed
  <2> QED  BY <1>2, <1>8, <2>1, <2>2
<1>10. History(t, k) = EventsBy(outbox, S, rank)
  BY DEF History
<1>11. History(t, k)' = EventsBy(outbox', CommittedIds(t, k)', rank)
  BY <1>2 DEF History
<1>12. outbox'[x].event = work[w].event
  BY <1>2, <1>3
<1> HIDE DEF S, rank
<1>13. CASE k = work[w].key
  <2>1. EventsBy(outbox', S \cup {x}, rank)
          = Append(EventsBy(outbox, S, rank), outbox'[x].event)
    <3>1. \A i \in S : rank[i] < rank[x]
      BY <1>9, <1>13
    <3>2. x \notin S /\ rank[x] \in Nat
      BY <1>8
    <3>3. \A i \in S : rank[i] = rank[i]
      OBVIOUS
    <3>4. \A i \in S : /\ outbox'[i].event = outbox[i].event
                        /\ outbox[i].event \in Nat
      BY <1>7
    <3> QED  BY <1>7, <3>1, <3>2, <3>3, <3>4, EventsAppend
  <2> QED  BY <1>5, <1>10, <1>11, <1>12, <1>13, <2>1
<1>14. CASE k # work[w].key
  <2>1. EventsBy(outbox', S, rank) = EventsBy(outbox, S, rank)
    BY <1>7, EventsKept
  <2> QED  BY <1>5, <1>10, <1>11, <1>14, <2>1
<1> QED  BY <1>13, <1>14

\* Only a commit changes the histories.
LEMMA HistoryKept ==
  ASSUME Shape, Exclusive, [Next]_vars, \A w \in Writers : ~CommitWork(w),
         NEW t, NEW k
  PROVE  History(t, k)' = History(t, k)
<1>u. ASSUME Ids \subseteq Ids', \A i \in Ids' \ Ids : outbox'[i].status = "open",
             \A i \in Ids : /\ outbox'[i].key = outbox[i].key
                            /\ outbox'[i].topic = outbox[i].topic
                            /\ outbox'[i].event = outbox[i].event
                            /\ Committed(i)' <=> Committed(i)
      PROVE  History(t, k)' = History(t, k)
  BY <1>u, HistoryStays DEF Committed
<1>1. ASSUME NEW w \in Writers, NEW k1 \in Keys, Begin(w, k1)
      PROVE  History(t, k)' = History(t, k)
  BY <1>1, <1>u DEF Begin, Ids, Committed
<1>2. ASSUME NEW w \in Writers, Enqueue(w)
      PROVE  History(t, k)' = History(t, k)
  BY <1>2, <1>u, WorkInserts DEF Committed
<1>3. ASSUME NEW w \in Writers, RollbackWork(w)
      PROVE  History(t, k)' = History(t, k)
  BY <1>3, <1>u, WorkEnds DEF RollbackWork, Committed
<1>4. ASSUME NEW p \in Relays, RelayStep(p)
      PROVE  History(t, k)' = History(t, k)
  BY <1>4, <1>u, RelayKeepsRows
<1>5. CASE UNCHANGED vars
  BY <1>5, <1>u DEF vars, Ids, Committed
<1> QED  BY <1>1, <1>2, <1>3, <1>4, <1>5 DEF Next, Write, RelayStep

LEMMA SameHistoryStep ==
  ASSUME Shape, Exclusive, Store, UnitsInRow, OneRowEach, SameHistory,
         [Next]_vars
  PROVE  SameHistory'
<1>1. Encoders[1] \in Topics
  BY DEF Topics, Encoders
<1>2. ASSUME NEW w \in Writers, CommitWork(w), NEW t \in Topics, NEW k \in Keys
      PROVE  History(t, k)' = History(Encoders[1], k)'
  <2>1. History(t, k) = History(Encoders[1], k)
    BY DEF SameHistory
  <2>2. \A u \in Topics : History(u, k)' =
          IF k = work[w].key THEN Append(History(u, k), work[w].event)
          ELSE History(u, k)
    BY <1>2, CommitAppends
  <2> QED  BY <1>1, <2>1, <2>2
<1>3. ASSUME \A w \in Writers : ~CommitWork(w)
      PROVE  SameHistory'
  BY <1>3, HistoryKept DEF SameHistory, Encoders
<1>4. (\E w \in Writers : CommitWork(w)) => SameHistory'
  <2>1. Encoders' = Encoders
    BY DEF Encoders
  <2> QED  BY <1>2, <2>1 DEF SameHistory
<1> QED  BY <1>3, <1>4

\* Nothing is seen but by a copy stored.
LEMMA SeenKept ==
  ASSUME Shape, Exclusive, Store, [Next]_vars, log' = log, NEW t, NEW k
  PROVE  Seen(t, k)' = Seen(t, k)
<1>1. ASSUME NEW w \in Writers, NEW k1 \in Keys, Begin(w, k1)
      PROVE  Seen(t, k)' = Seen(t, k)
  BY <1>1, SeenStays DEF Begin, Ids
<1>2. ASSUME NEW w \in Writers, Enqueue(w)
      PROVE  Seen(t, k)' = Seen(t, k)
  BY <1>2, SeenStays, WorkInserts
<1>3. ASSUME NEW w \in Writers, CommitWork(w) \/ RollbackWork(w)
      PROVE  Seen(t, k)' = Seen(t, k)
  <2>1. PICK s \in {"pending", "gone"} : outbox' = SetStatus(RowsOf(w), s)
    BY <1>3 DEF CommitWork, RollbackWork
  <2> QED  BY <2>1, SeenStays, WorkEnds
<1>4. ASSUME NEW p \in Relays, RelayStep(p)
      PROVE  Seen(t, k)' = Seen(t, k)
  BY <1>4, SeenStays, RelayKeepsRows
<1>5. CASE UNCHANGED vars
  BY <1>5, SeenStays DEF vars, Ids
<1> QED  BY <1>1, <1>2, <1>3, <1>4, <1>5 DEF Next, Write, RelayStep

\* Nor is another copy of what was seen, or one for another topic or order.
LEMMA CopyUnseen ==
  ASSUME Shape, Store, NEW c \in Ids, log' = Append(log, c), outbox' = outbox,
         NEW t, NEW k,
         Logged(c) \/ outbox[c].topic # t \/ outbox[c].key # k
  PROVE  Seen(t, k)' = Seen(t, k)
<1> DEFINE S == SeenIds(t, k)
           rank == FirstCopy(log)
           newRank == FirstCopy(Append(log, c))
<1>1. log \in Seq(Nat) /\ c \in Nat
  BY DEF Shape, TypeOK, Ids
<1>2. \A i : Logged(i)' <=> Logged(i) \/ i = c
  BY <1>1 DEF Logged
<1>3. SeenIds(t, k)' = S
  BY <1>2 DEF SeenIds, Ids
<1>4. S \in SUBSET Ids /\ \A i \in S : Logged(i)
  BY DEF SeenIds
<1>5. IsFiniteSet(S) /\ Ranks(S, rank)
  BY <1>1, <1>4, IdsRank, FirstCopyRanks
<1>6. \A i \in S : newRank[i] = rank[i] /\ outbox'[i].event = outbox[i].event
  BY <1>1, <1>4, FirstCopyStays DEF Logged
<1>7. Seen(t, k) = EventsBy(outbox, S, rank)
  BY DEF Seen
<1>8. Seen(t, k)' = EventsBy(outbox', S, newRank)
  BY <1>3 DEF Seen
<1> HIDE DEF S, rank, newRank
<1>9. EventsBy(outbox', S, newRank) = EventsBy(outbox, S, rank)
  BY <1>5, <1>6, EventsSame
<1> QED  BY <1>7, <1>8, <1>9

\* A first copy is one event more for its order, on its topic.
LEMMA CopySeen ==
  ASSUME Shape, Store, NEW c \in Ids, log' = Append(log, c), outbox' = outbox,
         ~Logged(c), NEW t, NEW k, outbox[c].topic = t, outbox[c].key = k
  PROVE  Seen(t, k)' = Append(Seen(t, k), outbox[c].event)
<1> DEFINE S == SeenIds(t, k)
           rank == FirstCopy(log)
           newRank == FirstCopy(Append(log, c))
<1>1. log \in Seq(Nat) /\ c \in Nat
  BY DEF Shape, TypeOK, Ids
<1>2. \A i : Logged(i)' <=> Logged(i) \/ i = c
  BY <1>1 DEF Logged
<1>3. SeenIds(t, k)' = S \cup {c} /\ c \notin S
  BY <1>2 DEF SeenIds, Ids
<1>4. S \in SUBSET Ids /\ \A i \in S : Logged(i)
  BY DEF SeenIds
<1>5. /\ IsFiniteSet(S) /\ Ranks(S, rank)
      /\ \A i \in S : outbox[i].event \in Nat /\ rank[i] \in DOMAIN log
  BY <1>1, <1>4, IdsRank, FirstCopyRanks
<1>6. \A i \in S : newRank[i] = rank[i]
  BY <1>1, <1>4, FirstCopyStays DEF Logged
<1>7. newRank[c] = Len(log) + 1
  BY <1>1, FirstCopyStays DEF Logged
<1>8. Seen(t, k) = EventsBy(outbox, S, rank)
  BY DEF Seen
<1>9. Seen(t, k)' = EventsBy(outbox', S \cup {c}, newRank)
  BY <1>3 DEF Seen
<1> HIDE DEF S, rank, newRank
<1>10. newRank[c] \in Nat /\ \A i \in S : newRank[i] < newRank[c]
  BY <1>1, <1>5, <1>6, <1>7
<1>11. \A i \in S : /\ outbox[i].event = outbox[i].event
                     /\ outbox[i].event \in Nat
  BY <1>5
<1>12. EventsBy(outbox, S \cup {c}, newRank)
         = Append(EventsBy(outbox, S, rank), outbox[c].event)
  BY <1>3, <1>5, <1>6, <1>10, <1>11, EventsAppend
<1> QED  BY <1>8, <1>9, <1>12

\* It is the next event of the history: exactly the committed rows before it
\* were seen.
LEMMA CopyIsNext ==
  ASSUME Shape, Store, FirstCopiesInOrder, FirstCopiesInOrder',
         NEW c \in Ids, Committed(c), ~Logged(c),
         log' = Append(log, c), outbox' = outbox,
         NEW t, NEW k, outbox[c].topic = t, outbox[c].key = k
  PROVE  /\ Len(Seen(t, k)) + 1 <= Len(History(t, k))
         /\ History(t, k)[Len(Seen(t, k)) + 1] = outbox[c].event
<1> DEFINE S == SeenIds(t, k)
           H == CommittedIds(t, k)
           id == [i \in Ids |-> i]
<1>1. log \in Seq(Nat) /\ c \in Nat /\ Ids \subseteq Nat
  BY DEF Shape, TypeOK, Ids
<1>2. c \in H /\ c \notin S /\ H \subseteq Ids /\ S \subseteq Ids
  BY DEF CommittedIds, SeenIds, Committed
<1>3. ASSUME NEW j \in S
      PROVE  j \in H /\ j < c
  <2>1. j \in Ids /\ Logged(j) /\ SameStream(c, j) /\ j \in H
    BY DEF SeenIds, Store, LogCommitted, SameStream, CommittedIds, Committed
  <2>2. PICK n \in DOMAIN log : log[n] = j
    BY <2>1 DEF Logged
  <2>3. ~(c < j)
    <3>1. \A h \in 1..n : h \in DOMAIN log
      BY <1>1
    <3> QED  BY <2>1, <2>2, <3>1 DEF FirstCopiesInOrder, Committed, Logged
  <2> QED  BY <1>1, <1>2, <2>1, <2>3
<1>4. ASSUME NEW j \in H, j < c
      PROVE  j \in S
  <2>1. /\ DOMAIN log' = 1..(Len(log) + 1) /\ log'[Len(log) + 1] = c
        /\ Len(log) \in Nat /\ DOMAIN log = 1..Len(log)
        /\ \A h \in DOMAIN log : log'[h] = log[h]
    BY <1>1
  <2>2. /\ j \in Ids' /\ SameStream(j, c)'
        /\ outbox'[j].status \in {"pending", "published"}
    BY DEF CommittedIds, SameStream, Ids
  <2>3. PICK h \in 1..(Len(log) + 1) : log'[h] = j
    BY <1>4, <2>1, <2>2 DEF FirstCopiesInOrder
  <2>4. h \in DOMAIN log
    BY <1>1, <1>4, <2>1, <2>3
  <2> QED  BY <2>1, <2>3, <2>4 DEF CommittedIds, SeenIds, Logged
<1>5. {j \in H : id[j] <= id[c]} = S \cup {c}
  <2>1. \A j \in H : id[j] = j /\ j \in Nat
    BY <1>1, <1>2
  <2> HIDE DEF S, H, id
  <2>2. ASSUME NEW j \in H, id[j] <= id[c]
        PROVE  j \in S \cup {c}
    BY <1>2, <1>4, <2>1, <2>2
  <2>3. ASSUME NEW j \in S \cup {c}
        PROVE  j \in H /\ id[j] <= id[c]
    BY <1>2, <1>3, <2>1
  <2> QED  BY <2>2, <2>3
<1>6. /\ IsFiniteSet(S) /\ Ranks(S, FirstCopy(log))
      /\ IsFiniteSet(H) /\ Ranks(H, id)
      /\ \A i \in S \cup H : outbox[i].event \in Nat
  <2>1. \A i \in S : Logged(i)
    BY DEF SeenIds
  <2> QED  BY <1>1, <1>2, <2>1, IdsRank, FirstCopyRanks
<1>7. Seen(t, k) = EventsBy(outbox, S, FirstCopy(log))
  BY DEF Seen
<1>8. History(t, k) = EventsBy(outbox, H, id)
  BY DEF History
<1> HIDE DEF S, H, id
<1>9. Place(H, id, c) = Cardinality(S) + 1
  BY <1>2, <1>5, <1>6, FS_AddElement DEF Place
<1>10. Len(Seen(t, k)) = Cardinality(S)
  BY <1>6, <1>7, EventsLength
<1>11. Len(History(t, k)) = Cardinality(H)
  BY <1>6, <1>8, EventsLength
<1>12. /\ Place(H, id, c) \in 1..Cardinality(H)
       /\ History(t, k)[Place(H, id, c)] = outbox[c].event
  BY <1>2, <1>6, <1>8, Places, EventsAt
<1> QED  BY <1>9, <1>10, <1>11, <1>12

\* Relays that take turns over a broker that keeps its messages deliver: of
\* each order each topic has, duplicates aside, the events committed of it, all
\* of them up to some point, in the order of their commits, the other topic's
\* too.
THEOREM TurnsDeliver ==
  ASSUME BrokerLoses = FALSE
  PROVE  Spec /\ []TakeTurns => ImplementsOrderedDelivery
<1> DEFINE Known == /\ Shape /\ Exclusive /\ Store /\ UnitsInRow /\ InOrder
                    /\ OneRowEach /\ SameHistory
           H == [k \in Keys |-> History(Encoders[1], k)]
           D == [t \in Topics |-> [k \in Keys |-> Seen(t, k)]]
<1>1. Encoders[1] \in Topics
  BY DEF Topics, Encoders
<1>2. Init => Delivery!DeliveryInit
  <2> SUFFICES ASSUME Init PROVE Delivery!DeliveryInit
    OBVIOUS
  <2>1. \A rank : EventsBy(outbox, {}, rank) = <<>>
    BY FS_EmptySet DEF EventsBy
  <2>2. Ids = {}
    BY DEF Init, Ids
  <2>3. \A t, k : CommittedIds(t, k) = {} /\ SeenIds(t, k) = {}
    BY <2>2 DEF CommittedIds, SeenIds
  <2>4. \A t, k : History(t, k) = <<>> /\ Seen(t, k) = <<>>
    BY <2>1, <2>3 DEF History, Seen
  <2> QED  BY <2>4 DEF Delivery!DeliveryInit
<1>3. ASSUME Known, Known', [Next]_vars
      PROVE  [Delivery!DeliveryNext]_(Delivery!deliveryVars)
  <2>1. ASSUME NEW w \in Writers, CommitWork(w)
        PROVE  Delivery!DeliveryNext
    <3>1. PICK o \in Keys, e \in 1..MaxEvents :
            o = work[w].key /\ e = work[w].event
      <4>1. work[w] \in Work /\ Busy(w)
        BY <1>3, <2>1 DEF Shape, TypeOK, CommitWork, Busy
      <4>2. work[w].event \in 1..raised /\ raised <= MaxEvents
        BY <1>3, <4>1 DEF Store, WorksApart, OneRowEach
      <4> QED  BY <1>3, <4>1, <4>2 DEF Work, Busy, Shape, TypeOK
    <3>2. log' = log
      BY <2>1 DEF CommitWork, RelaySide
    <3>3. D' = D
      BY <1>3, <3>2, SeenKept
    <3>4. \A k \in Keys : History(Encoders[1], k)' =
            IF k = o THEN Append(History(Encoders[1], k), e)
            ELSE History(Encoders[1], k)
      BY <1>1, <1>3, <2>1, <3>1, CommitAppends
    <3>5. H' = [H EXCEPT ![o] = Append(@, e)]
      BY <3>4
    <3>6. Delivery!Commit(o)
      BY <3>3, <3>5 DEF Delivery!Commit
    <3> QED  BY <3>6 DEF Delivery!DeliveryNext
  <2>2. ASSUME \A w \in Writers : ~CommitWork(w)
        PROVE  H' = H
    <3>1. \A k \in Keys : History(Encoders[1], k)' = History(Encoders[1], k)
      BY <1>3, <2>2, HistoryKept
    <3> QED  BY <3>1
  <2>3. ASSUME \A w \in Writers : ~CommitWork(w), log' = log
        PROVE  UNCHANGED Delivery!deliveryVars
    <3>1. D' = D
      BY <1>3, <2>3, SeenKept
    <3> QED  BY <2>2, <2>3, <3>1 DEF Delivery!deliveryVars
  <2>4. ASSUME NEW p \in Relays, SendSucceeds(p) \/ SendReplyLost(p)
        PROVE  [Delivery!DeliveryNext]_(Delivery!deliveryVars)
    <3>1. PICK c : c = Current(p)
      OBVIOUS
    <3>2. /\ relay[p].pc = "send" /\ log' = Append(log, c)
          /\ outbox' = outbox /\ work' = work
      BY <2>4, <3>1 DEF SendSucceeds, SendReplyLost
    <3>3. c \in relay[p].todo /\ c \in Ids
      BY <1>3, <3>1, <3>2, PassGoesOn
    <3>4. Committed(c)
      BY <1>3, <3>3 DEF Exclusive, Claimed, Committed
    <3>5. \A w \in Writers : ~CommitWork(w)
      <4> SUFFICES ASSUME NEW w \in Writers, CommitWork(w) PROVE FALSE
        OBVIOUS
      <4>1. work'[w] = NoWork /\ work[w].key # NoKey
        BY <1>3 DEF CommitWork, Shape, TypeOK
      <4> QED  BY <3>2, <4>1, NoPassType
    <3>6. H' = H
      BY <2>2, <3>5
    <3>7. CASE Logged(c)
      <4>1. D' = D
        BY <1>3, <3>2, <3>3, <3>7, CopyUnseen
      <4> QED  BY <3>6, <4>1 DEF Delivery!deliveryVars
    <3>8. CASE ~Logged(c)
      <4>1. PICK s \in Topics, o \in Keys :
              outbox[c].topic = s /\ outbox[c].key = o
        <5>1. outbox[c] \in Row
          BY <1>3, <3>3 DEF Shape, TypeOK, Ids
        <5> QED  BY <5>1 DEF Row
      <4>2. \A t \in Topics, k \in Keys : Seen(t, k)' =
              IF t = s /\ k = o THEN Append(Seen(s, o), outbox[c].event)
              ELSE Seen(t, k)
        BY <1>3, <3>2, <3>3, <3>8, <4>1, CopyUnseen, CopySeen
      <4>3. /\ Len(Seen(s, o)) + 1 <= Len(History(s, o))
            /\ History(s, o)[Len(Seen(s, o)) + 1] = outbox[c].event
        BY <1>3, <3>2, <3>3, <3>4, <3>8, <4>1, CopyIsNext DEF InOrder
      <4>4. History(s, o) = H[o] /\ Seen(s, o) = D[s][o]
        BY <1>3, <4>1 DEF SameHistory
      <4>5. D' = [D EXCEPT ![s][o] = Append(@, outbox[c].event)]
        BY <4>1, <4>2
      <4> HIDE DEF H, D
      <4>6. /\ Len(D[s][o]) + 1 <= Len(H[o])
            /\ D' = [D EXCEPT ![s][o] = Append(@, H[o][Len(D[s][o]) + 1])]
        BY <4>3, <4>4, <4>5
      <4>7. Delivery!Deliver(s, o)
        BY <3>6, <4>6 DEF Delivery!Deliver, H, D
      <4> QED  BY <4>1, <4>7 DEF Delivery!DeliveryNext
    <3> QED  BY <3>7, <3>8
  <2>5. \/ log' = log
        \/ \E p \in Relays : SendSucceeds(p) \/ SendReplyLost(p)
    BY <1>3
    DEF Next, Write, Begin, Enqueue, CommitWork, RollbackWork, RelaySide,
        EmptyPass, Claim, SendDropped, SendFails, Step, Mark,
        RecordSendFailure, CommitPass, PassBreaksOff, Shutdown, vars
  <2> QED  BY <2>1, <2>3, <2>4, <2>5
<1>4. Spec /\ []TakeTurns => []Known
  <2>1. Spec => []OneRowEach
    BY AlwaysShape, AlwaysExclusive, AlwaysStore, AlwaysUnitsInRow,
       OneRowEachInit, OneRowEachStep, PTL DEF Spec
  <2>2. Spec => []SameHistory
    BY <2>1, AlwaysShape, AlwaysExclusive, AlwaysStore, AlwaysUnitsInRow,
       OneRowEachInit, SameHistoryStep, PTL DEF Spec
  <2> QED  BY <2>1, <2>2, AlwaysShape, AlwaysExclusive, AlwaysStore,
              AlwaysUnitsInRow, AlwaysInOrder, PTL
<1> HIDE DEF Known
<1> QED  BY <1>2, <1>3, <1>4, PTL
         DEF Spec, ImplementsOrderedDelivery, Delivery!DeliverySpec

\* One relay delivers, whatever fails, is sent again or breaks off.
THEOREM OneRelayDelivers ==
  ASSUME NEW the, Relays = {the}, BrokerLoses = FALSE
  PROVE  Spec => ImplementsOrderedDelivery
<1>1. TakeTurns
  BY OneRelayTakesTurns
<1> QED BY <1>1, TurnsDeliver, PTL
=============================================================================
