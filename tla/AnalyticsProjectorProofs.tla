---------------------- MODULE AnalyticsProjectorProofs ----------------------
(***************************************************************************)
(* Proofs about AnalyticsProjector, for any topic, any faults and any      *)
(* number of restarts and rebalances: every variable keeps its type, the   *)
(* rollup counts each claimed event once, each failure loses at most one   *)
(* event, no answer is counted before its receipt, and the database        *)
(* implements the read model.                                              *)
(***************************************************************************)
EXTENDS AnalyticsProjector, FiniteSetTheorems, TLAPS

USE ProjectorAssumption DEF Calls

-----------------------------------------------------------------------------
\* A handler with a call to make has a message of the topic in hand.
Good(h) ==
  /\ h \in Handler
  /\ h.tries < MaxAttempts
  /\ IF h.pc \in Calls
     THEN h.partition \in Partitions /\ h.offset \in 1..Len(Topic[h.partition])
     ELSE h \in {Fetching, Stopped}

Shape == TypeOK /\ Good(handler)

\* Between calls the handler may wait or be gone.
LEMMA RestingIsGood == Good(Fetching) /\ Good(Stopped)
  BY DEF Good, Handler, Fetching, Stopped

\* The message in hand is an event of the topic.
LEMMA IdType ==
  ASSUME Shape, handler.pc \in Calls
  PROVE  Id \in EventIds /\ KindOf[Id] \in Kind
  BY DEF Shape, Good, Id

\* The handler goes on to another call, or tries again, with the message it
\* has.
LEMMA HandlerGoesOn ==
  ASSUME Shape, handler.pc \in Calls, NEW pc \in Calls
  PROVE  /\ Good(GoTo(pc)) /\ GoTo(pc).pc = pc
         /\ GoTo(pc).partition = handler.partition
         /\ GoTo(pc).offset = handler.offset
         /\ Good(Retry) /\ Retry.pc \in {handler.pc, "dead"}
         /\ Retry.partition = handler.partition
         /\ Retry.offset = handler.offset
<1>1. /\ handler \in Handler /\ handler.tries < MaxAttempts
      /\ handler.partition \in Partitions
      /\ handler.offset \in 1..Len(Topic[handler.partition])
  BY DEF Shape, Good
<1>2. ASSUME NEW h \in Handler, h.tries < MaxAttempts, h.pc \in Calls,
             h.partition = handler.partition, h.offset = handler.offset
      PROVE  Good(h)
  BY <1>1, <1>2 DEF Good
<1>3. ASSUME NEW c \in Calls
      PROVE  /\ GoTo(c) \in Handler /\ GoTo(c).tries = 0
             /\ GoTo(c).pc = c
             /\ GoTo(c).partition = handler.partition
             /\ GoTo(c).offset = handler.offset
  BY <1>1 DEF GoTo, Handler
<1>4. ASSUME NEW c \in Calls PROVE Good(GoTo(c))
  BY <1>2, <1>3
<1>5. CASE handler.tries + 1 < MaxAttempts
  <2> DEFINE again == [handler EXCEPT !.tries = @ + 1]
  <2>1. /\ again \in Handler /\ again.tries < MaxAttempts
        /\ again.pc = handler.pc
        /\ again.partition = handler.partition
        /\ again.offset = handler.offset
    BY <1>1, <1>5 DEF Handler
  <2>2. Good(again)
    <3> HIDE DEF again
    <3> QED BY <1>2, <2>1
  <2>3. Retry = again
    BY <1>5 DEF Retry
  <2> QED BY <1>3, <1>4, <2>1, <2>2, <2>3
<1>6. CASE ~(handler.tries + 1 < MaxAttempts)
  <2>1. Retry = GoTo("dead")
    BY <1>6 DEF Retry
  <2> QED BY <1>3, <1>4, <2>1
<1> QED BY <1>5, <1>6

LEMMA ShapeInit == Init => Shape
  BY RestingIsGood DEF Init, Shape, TypeOK, Good, Handler, Fetching, Counters

\* What an event adds to a row is natural.
LEMMA DeltaType ==
  ASSUME NEW id \in EventIds
  PROVE  Delta(id) \in [Columns -> Nat]
<1>1. Latency(id) \in Nat
  BY EventAssumption DEF Latency
<1> QED BY <1>1 DEF Delta, Columns

LEMMA UpsertType ==
  ASSUME rollup \in [DOMAIN rollup -> [Columns -> Nat]], NEW id \in EventIds
  PROVE  /\ DOMAIN Upsert(id) = DOMAIN rollup \cup {Day(id)}
         /\ Upsert(id) \in [DOMAIN Upsert(id) -> [Columns -> Nat]]
<1>1. DOMAIN Upsert(id) = DOMAIN rollup \cup {Day(id)}
  BY DEF Upsert
<1>2. ASSUME NEW d \in DOMAIN rollup \cup {Day(id)}
      PROVE  Upsert(id)[d] \in [Columns -> Nat]
  <2>1. CASE d \notin DOMAIN rollup
    BY <2>1, DeltaType DEF Upsert
  <2>2. CASE d \in DOMAIN rollup /\ d # Day(id)
    BY <2>2 DEF Upsert
  <2>3. CASE d \in DOMAIN rollup /\ d = Day(id)
    <3>1. Upsert(id)[d] = [c \in Columns |-> rollup[d][c] + Delta(id)[c]]
      BY <2>3 DEF Upsert
    <3>2. \A c \in Columns : rollup[d][c] \in Nat /\ Delta(id)[c] \in Nat
      BY <2>3, DeltaType
    <3> QED BY <3>1, <3>2
  <2> QED BY <2>1, <2>2, <2>3
<1> QED BY <1>1, <1>2 DEF Upsert

-----------------------------------------------------------------------------
LEMMA ShapeStep == Shape /\ [Next]_vars => Shape'
<1> SUFFICES ASSUME Shape, [Next]_vars PROVE Shape'
  OBVIOUS
<1> USE DEF Offsets, Stores
<1>0. SUFFICES Good(handler') /\ TypeOK'
  BY DEF Shape, Good, Handler, Fetching, Stopped
<1>g. \A h : Good(h) => h \in Handler /\ h.tries < MaxAttempts
  BY DEF Good
<1>1. ASSUME NEW q \in Partitions, Fetch(q) PROVE Good(handler') /\ TypeOK'
  <2>1. /\ next[q] \in 1..Len(Topic[q])
        /\ Topic[q][next[q]] \in EventIds
    BY <1>1 DEF Shape, TypeOK, Fetch
  <2>2. handler' \in Handler /\ handler'.tries = 0
    BY <1>1, <2>1 DEF Fetch, Handler
  <2>3. /\ handler'.pc \in Calls
        /\ handler'.partition = q /\ handler'.offset = next[q]
    BY <1>1 DEF Fetch
  <2>4. Good(handler')
    BY <2>1, <2>2, <2>3 DEF Good
  <2> QED BY <1>1, <2>2, <2>4 DEF Shape, TypeOK, Fetch
<1>2. ASSUME NEW q \in Partitions, Rebalance(q)
      PROVE  Good(handler') /\ TypeOK'
  BY <1>2 DEF Shape, TypeOK, Rebalance
<1>3. CASE MarkProcessed
  <2>1. handler.pc \in Calls
    BY <1>3 DEF MarkProcessed
  <2>2. Good(handler') /\ failures' \in Nat
    BY <1>3, <2>1, HandlerGoesOn DEF MarkProcessed, Failure, Shape, TypeOK
  <2> QED BY <1>3, <1>g, <2>1, <2>2, IdType DEF Shape, TypeOK, MarkProcessed
<1>4. CASE MarkFails
  <2>1. Good(handler')
    BY <1>4, HandlerGoesOn DEF MarkFails
  <2> QED BY <1>4, <1>g, <2>1 DEF Shape, TypeOK, MarkFails
<1>5. CASE Apply
  <2>1. handler.pc \in Calls
    BY <1>5 DEF Apply
  <2>2. Good(handler')
    BY <1>5, <2>1, HandlerGoesOn DEF Apply, Reply
  <2>3. rollup' \in [DOMAIN rollup' -> [Columns -> Nat]]
    BY <1>5, <2>1, UpsertType, IdType DEF Apply, Shape, TypeOK
  <2> QED BY <1>5, <1>g, <2>1, <2>2, <2>3, IdType DEF Shape, TypeOK, Apply
<1>6. CASE ApplyFails
  <2>1. Good(handler')
    BY <1>6, HandlerGoesOn DEF ApplyFails
  <2> QED BY <1>6, <1>g, <2>1 DEF Shape, TypeOK, ApplyFails
<1>7. CASE DeadLetter
  <2>1. handler.pc \in Calls
    BY <1>7 DEF DeadLetter
  <2>2. Good(handler')
    BY <1>7, <2>1, HandlerGoesOn, RestingIsGood DEF DeadLetter, Reply
  <2> QED BY <1>7, <1>g, <2>1, <2>2, IdType DEF Shape, TypeOK, DeadLetter
<1>8. CASE CommitOffset
  <2>1. /\ handler.partition \in Partitions /\ handler.offset \in Nat
    BY <1>8 DEF CommitOffset, Shape, Good
  <2>2. Good(handler')
    BY <1>8, RestingIsGood DEF CommitOffset, Reply
  <2> QED BY <1>8, <1>g, <2>1, <2>2 DEF Shape, TypeOK, CommitOffset
<1>9. CASE LetterLost
  <2>1. Good(handler')
    BY <1>9, HandlerGoesOn DEF LetterLost
  <2> QED BY <1>9, <1>g, <2>1 DEF Shape, TypeOK, LetterLost, Failure
<1>10. CASE RunReturns
  BY <1>10, <1>g, RestingIsGood DEF Shape, TypeOK, RunReturns, Failure
<1>11. CASE Restart
  BY <1>11, <1>g, RestingIsGood DEF Shape, TypeOK, Restart, Failure
<1>12. CASE UNCHANGED vars
  BY <1>12 DEF Shape, TypeOK, Good, vars
<1> QED
  BY <1>1, <1>2, <1>3, <1>4, <1>5, <1>6, <1>7, <1>8, <1>9, <1>10, <1>11,
     <1>12 DEF Next, Handle, Idle

LEMMA AlwaysShape == Spec => []Shape
  BY ShapeInit, ShapeStep, PTL DEF Spec

\* Every variable keeps its shape, whatever is on the topic and whatever
\* fails: no attempt beyond maxHandlerAttempts, no offset or counter below
\* its range.
THEOREM TypeCorrect == Spec => []TypeOK
<1>1. Shape => TypeOK
  BY DEF Shape
<1> QED BY <1>1, AlwaysShape, PTL

-----------------------------------------------------------------------------
Claims(d, c) == {id \in claimed : Day(id) = d /\ KindOf[id] = c}

Counted == IsFiniteSet(claimed) /\ RollupMatchesClaims

\* A claim that is new adds itself to the claims of one day and kind, and
\* the rollup moves with it.
LEMMA CountedApply == Shape /\ Counted /\ Apply => Counted'
<1> SUFFICES ASSUME Shape, Counted, Apply PROVE Counted'
  OBVIOUS
<1> USE DEF Counted, RollupMatchesClaims
<1>1. /\ claimed' = claimed \cup {Id}
      /\ rollup' = IF Id \in claimed THEN rollup ELSE Upsert(Id)
      /\ rollup \in [DOMAIN rollup -> [Columns -> Nat]]
      /\ Id \in EventIds /\ KindOf[Id] \in Kind
  BY IdType DEF Apply, Shape, TypeOK
<1>2. IsFiniteSet(claimed')
  BY <1>1, FS_AddElement
<1>3. CASE Id \in claimed
  <2>1. claimed' = claimed /\ rollup' = rollup
    BY <1>1, <1>3
  <2> QED BY <1>2, <2>1
<1>4. CASE Id \notin claimed
  <2>0. rollup' = Upsert(Id) /\ DOMAIN rollup' = DOMAIN rollup \cup {Day(Id)}
    BY <1>1, <1>4, UpsertType
  <2>1. DOMAIN rollup' = {Day(id) : id \in claimed'}
    BY <1>1, <2>0
  <2> SUFFICES ASSUME NEW d \in DOMAIN rollup', NEW c \in Counters
               PROVE  rollup'[d][c] =
                 Cardinality({id \in claimed' : Day(id) = d /\ KindOf[id] = c})
    BY <1>2, <2>1
  <2> DEFINE one == IF Day(Id) = d /\ KindOf[Id] = c THEN 1 ELSE 0
  <2>2. /\ IsFiniteSet(Claims(d, c)) /\ Id \notin Claims(d, c)
        /\ Cardinality(Claims(d, c)) \in Nat
    <3>1. Claims(d, c) \in SUBSET claimed
      BY DEF Claims
    <3>2. IsFiniteSet(Claims(d, c))
      BY <3>1, FS_Subset
    <3> QED BY <1>4, <3>1, <3>2, FS_CardinalityType
  <2>3. Delta(Id)[c] = IF KindOf[Id] = c THEN 1 ELSE 0
    BY DEF Delta, Columns, Counters
  <2>4. rollup'[d][c] = Cardinality(Claims(d, c)) + one
    <3>1. CASE d \in DOMAIN rollup
      <4>1. rollup[d][c] = Cardinality(Claims(d, c))
        BY <3>1 DEF Claims
      <4>2. CASE d = Day(Id)
        <5>1. rollup'[d] = [x \in Columns |-> rollup[d][x] + Delta(Id)[x]]
          BY <2>0, <3>1, <4>2 DEF Upsert
        <5>2. rollup'[d][c] = rollup[d][c] + Delta(Id)[c]
          BY <5>1 DEF Columns
        <5> QED BY <2>3, <4>1, <4>2, <5>2
      <4>3. CASE d # Day(Id)
        BY <2>0, <2>2, <3>1, <4>1, <4>3 DEF Upsert
      <4> QED BY <4>2, <4>3
    <3>2. CASE d \notin DOMAIN rollup
      <4>1. d = Day(Id) /\ rollup'[d] = Delta(Id)
        BY <2>0, <3>2 DEF Upsert
      <4>2. Claims(d, c) = {}
        BY <3>2 DEF Claims
      <4>3. Cardinality(Claims(d, c)) = 0
        BY <4>2, FS_EmptySet
      <4> QED BY <2>3, <4>1, <4>3
    <3> QED BY <3>1, <3>2
  <2>5. CASE Day(Id) = d /\ KindOf[Id] = c
    <3>1. {id \in claimed' : Day(id) = d /\ KindOf[id] = c}
            = Claims(d, c) \cup {Id}
      BY <1>1, <2>5 DEF Claims
    <3>2. Cardinality(Claims(d, c) \cup {Id}) = Cardinality(Claims(d, c)) + 1
      BY <2>2, FS_AddElement
    <3> QED BY <2>4, <2>5, <3>1, <3>2
  <2>6. CASE ~(Day(Id) = d /\ KindOf[Id] = c)
    <3>1. {id \in claimed' : Day(id) = d /\ KindOf[id] = c} = Claims(d, c)
      BY <1>1, <2>6 DEF Claims
    <3>2. rollup'[d][c] = Cardinality(Claims(d, c))
      BY <2>2, <2>4, <2>6
    <3> QED BY <3>1, <3>2
  <2> QED BY <2>5, <2>6
<1> QED BY <1>3, <1>4

\* Only Apply changes what is claimed and counted.
LEMMA OnlyApplyCounts ==
  [Next]_vars => Apply \/ UNCHANGED <<claimed, rollup>>
  BY DEF Next, Handle, Idle, vars, Stores, Fetch, Rebalance, MarkProcessed,
     MarkFails, ApplyFails, DeadLetter, CommitOffset, LetterLost,
     RunReturns, Restart

\* The rollup counts every claimed event exactly once (PostgresProjection's
\* claim and upsertRollup share a transaction), through replays, retries and
\* restarts of any number.
THEOREM RollupIsExact == Spec => []RollupMatchesClaims
<1>1. Init => Counted
  <2> SUFFICES ASSUME Init PROVE Counted
    OBVIOUS
  <2> QED BY FS_EmptySet DEF Init, Counted, RollupMatchesClaims
<1>2. Shape /\ Counted /\ [Next]_vars => Counted'
  <2> SUFFICES ASSUME Shape, Counted, [Next]_vars PROVE Counted'
    OBVIOUS
  <2>1. CASE Apply
    BY <2>1, CountedApply
  <2>2. CASE UNCHANGED <<claimed, rollup>>
    BY <2>2 DEF Counted, RollupMatchesClaims
  <2> QED BY <2>1, <2>2, OnlyApplyCounts
<1>3. Counted => RollupMatchesClaims
  BY DEF Counted
<1> QED BY <1>1, <1>2, <1>3, AlwaysShape, PTL DEF Spec

-----------------------------------------------------------------------------
\* Where the reader is: never more than one message ahead of what the group
\* committed, the one in hand.
Abreast ==
  /\ \A q \in Partitions : committed[q] <= next[q]
  /\ handler.pc = "fetch" =>
       \A q \in Partitions : next[q] <= committed[q] + 1
  /\ handler.pc \in Calls =>
       /\ committed[handler.partition] <= handler.offset
       /\ handler.offset <= committed[handler.partition] + 1
       /\ handler.offset <= next[handler.partition]
       /\ next[handler.partition] <= handler.offset + 1
       /\ \A q \in Partitions \ {handler.partition} :
            next[q] <= committed[q] + 1

\* The handler keeps its message, or waits no more for one.
LEMMA AbreastGoesOn ==
  ASSUME Shape, Abreast, handler.pc \in Calls, UNCHANGED Offsets,
         \/ handler'.pc \in Calls /\ handler'.partition = handler.partition
              /\ handler'.offset = handler.offset
         \/ handler' = Stopped
  PROVE  Abreast'
  BY DEF Abreast, Offsets, Stopped, Fetching

LEMMA AbreastInit == Init => Abreast
  BY DEF Init, Abreast, Fetching

LEMMA AbreastStep == Shape /\ Abreast /\ [Next]_vars => Abreast'
<1> SUFFICES ASSUME Shape, Abreast, [Next]_vars PROVE Abreast'
  OBVIOUS
<1>t. /\ next \in [Partitions -> Nat \ {0}]
      /\ committed \in [Partitions -> Nat]
  BY DEF Shape, TypeOK
<1>1. ASSUME NEW p \in Partitions, Fetch(p) PROVE Abreast'
  <2>1. /\ handler.pc = "fetch"
        /\ next' = [next EXCEPT ![p] = @ + 1]
        /\ handler'.pc \in Calls
        /\ handler'.partition = p /\ handler'.offset = next[p]
        /\ committed' = committed
    BY <1>1 DEF Fetch
  <2>2. \A q \in Partitions :
          committed[q] <= next[q] /\ next[q] <= committed[q] + 1
    BY <2>1 DEF Abreast
  <2>3. handler'.pc # "fetch"
    BY <2>1
  <2> QED BY <1>t, <2>1, <2>2, <2>3 DEF Abreast
<1>2. ASSUME NEW p \in Partitions, Rebalance(p) PROVE Abreast'
  <2>1. /\ next' = [next EXCEPT ![p] = committed[p] + 1]
        /\ committed' = committed /\ handler' = handler
    BY <1>2 DEF Rebalance
  <2>2. handler.pc \in Calls =>
          handler.partition \in Partitions /\ handler.offset \in Nat
    BY DEF Shape, Good
  <2> QED BY <1>t, <2>1, <2>2 DEF Abreast
<1>3. CASE MarkProcessed
  BY <1>3, HandlerGoesOn, AbreastGoesOn DEF MarkProcessed, Shape, Good
<1>4. CASE MarkFails
  BY <1>4, HandlerGoesOn, AbreastGoesOn DEF MarkFails, Shape, Good
<1>5. CASE Apply
  BY <1>5, HandlerGoesOn, AbreastGoesOn DEF Apply, Reply
<1>6. CASE ApplyFails
  BY <1>6, HandlerGoesOn, AbreastGoesOn DEF ApplyFails
<1>7. CASE DeadLetter
  BY <1>7, HandlerGoesOn, AbreastGoesOn DEF DeadLetter, Reply
<1>8. CASE CommitOffset
  <2>1. /\ handler.pc \in Calls
        /\ committed' = [committed EXCEPT ![handler.partition] =
                           handler.offset]
        /\ next' = next /\ handler' \in {Fetching, Stopped}
    BY <1>8 DEF CommitOffset, Reply
  <2>2. handler.partition \in Partitions /\ handler.offset \in Nat
    BY <2>1 DEF Shape, Good
  <2>3. handler'.pc \notin Calls
    BY <2>1 DEF Fetching, Stopped
  <2> QED BY <1>t, <2>1, <2>2, <2>3 DEF Abreast
<1>9. CASE LetterLost
  BY <1>9, HandlerGoesOn, AbreastGoesOn DEF LetterLost
<1>10. CASE RunReturns
  <2>1. CASE handler.pc = "fetch"
    BY <1>10, <2>1 DEF RunReturns, Offsets, Abreast, Stopped, Fetching
  <2>2. CASE handler.pc # "fetch"
    BY <1>10, <2>2, AbreastGoesOn DEF RunReturns
  <2> QED BY <2>1, <2>2
<1>11. CASE Restart
  BY <1>11 DEF Restart, Abreast, Fetching
<1>12. CASE UNCHANGED vars
  BY <1>12 DEF Abreast, vars
<1> QED
  BY <1>1, <1>2, <1>3, <1>4, <1>5, <1>6, <1>7, <1>8, <1>9, <1>10, <1>11,
     <1>12 DEF Next, Handle, Idle

-----------------------------------------------------------------------------
\* What a failure so far has cost or may cost: events marked or committed
\* past, or about to be, that are neither projected nor dead-lettered, and
\* that the handler is not just applying or dead-lettering.
Reached ==
  consumed \cup CommittedPast \cup IF handler.pc = "commit" THEN {Id} ELSE {}

Debt ==
  {id \in Reached :
     /\ KindOf[id] # "foreign"
     /\ id \notin claimed \cup dead
     /\ ~(handler.pc \in {"apply", "dead"} /\ id = Id)}

DebtNeedsFailure == IsFiniteSet(Debt) /\ Cardinality(Debt) <= failures

\* A subset, and a subset of one element more.
LEMMA SmallerSet ==
  ASSUME NEW S, IsFiniteSet(S), NEW T, T \subseteq S
  PROVE  /\ IsFiniteSet(T) /\ Cardinality(T) \in Nat
         /\ Cardinality(S) \in Nat /\ Cardinality(T) <= Cardinality(S)
<1>1. IsFiniteSet(T) /\ Cardinality(T) <= Cardinality(S)
  BY FS_Subset
<1> QED BY <1>1, FS_CardinalityType

LEMMA OneMore ==
  ASSUME NEW S, IsFiniteSet(S), NEW x, NEW T, T \subseteq S \cup {x}
  PROVE  /\ IsFiniteSet(T) /\ Cardinality(T) \in Nat
         /\ Cardinality(S) \in Nat /\ Cardinality(T) <= Cardinality(S) + 1
<1> DEFINE U == S \cup {x}
<1>1. /\ IsFiniteSet(U)
      /\ Cardinality(U) = IF x \in S THEN Cardinality(S) ELSE Cardinality(S) + 1
  BY FS_AddElement
<1>2. Cardinality(S) \in Nat
  BY FS_CardinalityType
<1>3. /\ IsFiniteSet(T) /\ Cardinality(T) \in Nat
      /\ Cardinality(U) \in Nat /\ Cardinality(T) <= Cardinality(U)
  BY <1>1, SmallerSet
<1> QED BY <1>1, <1>2, <1>3

\* A step that adds nothing to the debt, or one event and a failure.
LEMMA DebtStep ==
  ASSUME Shape, DebtNeedsFailure,
         \/ Debt' \subseteq Debt /\ failures' = failures
         \/ /\ \E id : Debt' \subseteq Debt \cup {id}
            /\ failures' = failures + 1
  PROVE  DebtNeedsFailure'
<1> USE DEF DebtNeedsFailure
<1>f. failures \in Nat
  BY DEF Shape, TypeOK
<1>1. CASE Debt' \subseteq Debt /\ failures' = failures
  <2>1. /\ IsFiniteSet(Debt') /\ Cardinality(Debt') \in Nat
        /\ Cardinality(Debt) \in Nat
        /\ Cardinality(Debt') <= Cardinality(Debt)
    BY <1>1, SmallerSet
  <2> QED BY <1>f, <1>1, <2>1
<1>2. ASSUME NEW id, Debt' \subseteq Debt \cup {id}, failures' = failures + 1
      PROVE  DebtNeedsFailure'
  <2>1. /\ IsFiniteSet(Debt') /\ Cardinality(Debt') \in Nat
        /\ Cardinality(Debt) \in Nat
        /\ Cardinality(Debt') <= Cardinality(Debt) + 1
    BY <1>2, OneMore
  <2> QED BY <1>f, <1>2, <2>1
<1> QED BY <1>1, <1>2

\* The handler keeps its message, so Id is the same event after the step.
LEMMA SameId ==
  ASSUME handler'.partition = handler.partition,
         handler'.offset = handler.offset
  PROVE  Id' = Id
  BY DEF Id

\* Committing an offset adds the message in hand, and none beside it, to what
\* is committed past.
LEMMA CommitAddsOne ==
  ASSUME Shape, Abreast, CommitOffset
  PROVE  CommittedPast' \subseteq CommittedPast \cup {Id}
<1> DEFINE q == handler.partition
<1>1. /\ handler.pc = "commit"
      /\ committed' = [committed EXCEPT ![q] = handler.offset]
      /\ committed \in [Partitions -> Nat]
      /\ q \in Partitions /\ handler.offset \in Nat
      /\ handler.offset <= committed[q] + 1
  BY DEF CommitOffset, Shape, TypeOK, Good, Abreast
<1>2. SUFFICES ASSUME NEW r \in Partitions, NEW n \in 1..committed'[r]
               PROVE  Topic[r][n] \in CommittedPast \cup {Id}
  BY DEF CommittedPast
<1>3. CASE r = q /\ n = handler.offset
  BY <1>3 DEF Id
<1>4. CASE ~(r = q /\ n = handler.offset)
  <2>1. n \in 1..committed[r]
    BY <1>1, <1>4
  <2> QED BY <2>1 DEF CommittedPast
<1> QED BY <1>3, <1>4

LEMMA DebtInit == Init => DebtNeedsFailure
<1> SUFFICES ASSUME Init PROVE DebtNeedsFailure
  OBVIOUS
<1>1. CommittedPast = {}
  BY DEF Init, CommittedPast
<1>2. Debt = {}
  BY <1>1 DEF Init, Debt, Reached, Fetching
<1> QED BY <1>2, FS_EmptySet DEF Init, DebtNeedsFailure

LEMMA DebtNext ==
  Shape /\ Abreast /\ DebtNeedsFailure /\ [Next]_vars => DebtNeedsFailure'
<1> SUFFICES ASSUME Shape, Abreast, DebtNeedsFailure, [Next]_vars
             PROVE  DebtNeedsFailure'
  OBVIOUS
<1>1. SUFFICES \/ Debt' \subseteq Debt /\ failures' = failures
               \/ /\ \E id : Debt' \subseteq Debt \cup {id}
                  /\ failures' = failures + 1
  BY DebtStep
<1> USE DEF Debt, Reached, Offsets, Stores
<1>2. ASSUME NEW q \in Partitions, Fetch(q)
      PROVE  Debt' \subseteq Debt /\ failures' = failures
  <2>1. /\ handler.pc = "fetch"
        /\ handler'.partition = q /\ handler'.offset = next[q]
        /\ handler'.pc = "commit" => KindOf[Topic[q][next[q]]] = "foreign"
    BY <1>2 DEF Fetch
  <2>2. Id' = Topic[q][next[q]]
    BY <2>1 DEF Id
  <2>3. CommittedPast' = CommittedPast
    BY <1>2 DEF Fetch, CommittedPast
  <2> QED BY <1>2, <2>1, <2>2, <2>3 DEF Fetch
<1>3. ASSUME NEW q \in Partitions, Rebalance(q)
      PROVE  Debt' \subseteq Debt /\ failures' = failures
  <2>1. CommittedPast' = CommittedPast /\ Id' = Id
    BY <1>3 DEF Rebalance, CommittedPast, Id
  <2> QED BY <1>3, <2>1 DEF Rebalance
<1>c. ASSUME UNCHANGED Offsets PROVE CommittedPast' = CommittedPast
  BY <1>c DEF CommittedPast
<1>4. CASE MarkProcessed
  <2>1. /\ handler.pc = "mark" /\ handler.pc \in Calls
        /\ consumed' = consumed \cup {Id}
        /\ UNCHANGED <<Offsets, claimed, rollup, dead, rebalances>>
    BY <1>4 DEF MarkProcessed
  <2>2. CASE /\ handler' = GoTo(IF Id \in consumed THEN "commit" ELSE "apply")
             /\ UNCHANGED failures
    <3>1. /\ handler'.pc = IF Id \in consumed THEN "commit" ELSE "apply"
          /\ Id' = Id
      BY <2>1, <2>2, HandlerGoesOn, SameId
    <3>2. Debt' \subseteq Debt
      BY <1>c, <2>1, <3>1
    <3> QED BY <2>2, <3>2
  <2>3. CASE "mark" \in Lost /\ handler' = Retry /\ Failure
    <3>1. handler'.pc \in {"mark", "dead"} /\ Id' = Id
      BY <2>1, <2>3, HandlerGoesOn, SameId
    <3>2. Debt' \subseteq Debt \cup {Id}
      BY <1>c, <2>1, <3>1
    <3> QED BY <2>3, <3>2 DEF Failure
  <2> QED BY <1>4, <2>2, <2>3 DEF MarkProcessed
<1>5. CASE MarkFails
  <2>1. handler.pc = "mark" /\ handler'.pc \in {"mark", "dead"} /\ Id' = Id
    BY <1>5, HandlerGoesOn, SameId DEF MarkFails
  <2> QED BY <1>5, <1>c, <2>1 DEF MarkFails
<1>6. CASE Apply
  <2>1. /\ handler.pc = "apply" /\ handler'.pc \in Calls /\ Id' = Id
        /\ claimed' = claimed \cup {Id}
    BY <1>6, HandlerGoesOn, SameId DEF Apply, Reply
  <2> QED BY <1>6, <1>c, <2>1 DEF Apply
<1>7. CASE ApplyFails
  <2>1. handler.pc = "apply" /\ handler'.pc \in {"apply", "dead"} /\ Id' = Id
    BY <1>7, HandlerGoesOn, SameId DEF ApplyFails
  <2> QED BY <1>7, <1>c, <2>1 DEF ApplyFails
<1>8. CASE DeadLetter
  <2>1. handler.pc = "dead" /\ dead' = dead \cup {Id}
    BY <1>8 DEF DeadLetter
  <2>2. \/ handler'.pc = "commit" /\ Id' = Id
        \/ handler'.pc = "stopped"
    BY <1>8, HandlerGoesOn, SameId DEF DeadLetter, Reply, Stopped, Fetching
  <2> QED BY <1>8, <1>c, <2>1, <2>2 DEF DeadLetter
<1>9. CASE CommitOffset
  <2>1. /\ handler.pc = "commit"
        /\ handler'.pc \notin Calls
    BY <1>9 DEF CommitOffset, Reply, Fetching, Stopped
  <2> QED BY <1>9, <2>1, CommitAddsOne DEF CommitOffset
<1>10. CASE LetterLost
  <2>1. handler.pc = "dead" /\ handler'.pc = "commit" /\ Id' = Id
    BY <1>10, HandlerGoesOn, SameId DEF LetterLost
  <2>2. Debt' \subseteq Debt \cup {Id}
    BY <1>10, <1>c, <2>1 DEF LetterLost
  <2> QED BY <1>10, <2>2 DEF LetterLost, Failure
<1>11. CASE RunReturns
  <2>1. handler'.pc = "stopped"
    BY <1>11 DEF RunReturns, Stopped, Fetching
  <2>2. CASE handler.pc = "dead"
    <3>1. Debt' \subseteq Debt \cup {Id}
      BY <1>11, <1>c, <2>1, <2>2 DEF RunReturns
    <3> QED BY <1>11, <2>2, <3>1 DEF RunReturns, Failure
  <2>3. CASE handler.pc # "dead"
    <3>1. Debt' \subseteq Debt
      BY <1>11, <1>c, <2>1, <2>3 DEF RunReturns
    <3> QED BY <1>11, <2>3, <3>1 DEF RunReturns
  <2> QED BY <2>2, <2>3
<1>12. CASE Restart
  <2>1. CommittedPast' = {}
    BY <1>12 DEF Restart, CommittedPast
  <2>2. handler'.pc = "fetch"
    BY <1>12 DEF Restart, Fetching
  <2>3. Debt' \subseteq Debt \cup {Id}
    BY <1>12, <2>1, <2>2 DEF Restart
  <2> QED BY <1>12, <2>3 DEF Restart, Failure
<1>13. CASE UNCHANGED vars
  <2>1. CommittedPast' = CommittedPast /\ Id' = Id
    BY <1>13 DEF vars, CommittedPast, Id
  <2> QED BY <1>13, <2>1 DEF vars
<1> QED
  BY <1>2, <1>3, <1>4, <1>5, <1>6, <1>7, <1>8, <1>9, <1>10, <1>11, <1>12,
     <1>13 DEF Next, Handle, Idle

\* An event is lost only to a failure between its two gates (a crash, a lost
\* reply of MarkProcessed, a dead letter that was not kept), and each failure
\* loses at most one: whatever the topic, however often it is replayed.
THEOREM LossesNeedFailures == Spec => []LossNeedsFailure
<1>1. Shape /\ DebtNeedsFailure => LossNeedsFailure
  <2> SUFFICES ASSUME Shape, DebtNeedsFailure PROVE LossNeedsFailure
    OBVIOUS
  <2>1. handler.pc \in Calls => InHand = {Id}
    BY DEF Shape, Good, InHand
  <2>2. LostIds \subseteq Debt
    BY <2>1 DEF LostIds, Debt, Reached
  <2>3. /\ Cardinality(LostIds) \in Nat /\ Cardinality(Debt) \in Nat
        /\ Cardinality(LostIds) <= Cardinality(Debt)
    BY <2>2, SmallerSet DEF DebtNeedsFailure
  <2> QED BY <2>3 DEF LossNeedsFailure, DebtNeedsFailure, Shape, TypeOK
<1>2. Spec => []Abreast
  BY AbreastInit, AbreastStep, AlwaysShape, PTL DEF Spec
<1> QED
  BY <1>1, <1>2, DebtInit, DebtNext, AlwaysShape, PTL DEF Spec

-----------------------------------------------------------------------------
\* What the handler is at an answer of, an earlier message has told of, which
\* is behind the reader.
LEMMA ReceiptIsPassed ==
  ASSUME Shape, Abreast, handler.pc \in Calls, KindOf[Id] \in Answers
  PROVE  ReceiptOf[Id] \in CommittedPast /\ KindOf[ReceiptOf[Id]] = "received"
<1> DEFINE q == handler.partition
<1>1. /\ q \in Partitions /\ handler.offset \in 1..Len(Topic[q])
      /\ handler.offset <= committed[q] + 1
      /\ committed[q] \in Nat
  <2>1. committed \in [Partitions -> Nat]
    BY DEF Shape, TypeOK
  <2>2. q \in Partitions /\ handler.offset \in 1..Len(Topic[q])
    BY DEF Shape, Good
  <2> QED BY <2>1, <2>2 DEF Abreast
<1>2. PICK m \in 1..(handler.offset - 1) : Topic[q][m] = ReceiptOf[Id]
  <2>1. Id = Topic[q][handler.offset]
    BY DEF Id
  <2>2. KindOf[Topic[q][handler.offset]] \in Answers
    BY <2>1
  <2>3. \E m \in 1..(handler.offset - 1) :
          Topic[q][m] = ReceiptOf[Topic[q][handler.offset]]
    <3>1. ASSUME NEW p \in Partitions, NEW n \in 1..Len(Topic[p]),
                 KindOf[Topic[p][n]] \in Answers
          PROVE  \E m \in 1..(n - 1) : Topic[p][m] = ReceiptOf[Topic[p][n]]
      BY <3>1, OrdersInOrder
    <3> HIDE DEF q
    <3> QED BY <1>1, <2>2, <3>1
  <2> QED BY <2>1, <2>3
<1>3. m \in 1..committed[q]
  BY <1>1, <1>2
<1> QED BY <1>1, <1>2, <1>3, OrdersInOrder DEF CommittedPast, Id

LEMMA AnswersStep ==
  Shape /\ Abreast /\ DebtNeedsFailure /\ AnswersFollowReceipts /\ [Next]_vars
    => AnswersFollowReceipts'
<1> SUFFICES ASSUME Shape, Abreast, DebtNeedsFailure, AnswersFollowReceipts,
                    [Next]_vars, failures' = 0, NEW id \in claimed',
                    KindOf[id] \in Answers
             PROVE  ReceiptOf[id] \in claimed' \cup dead'
  BY DEF AnswersFollowReceipts
<1>1. /\ failures = 0
      /\ claimed \subseteq claimed' /\ dead \subseteq dead'
  BY DEF Next, Handle, Idle, vars, Stores, Fetch, Rebalance, MarkProcessed,
     MarkFails, Apply, ApplyFails, DeadLetter, CommitOffset, LetterLost,
     RunReturns, Restart, Failure, Shape, TypeOK
<1>2. CASE id \in claimed
  BY <1>1, <1>2 DEF AnswersFollowReceipts
<1>3. CASE id \notin claimed
  <2>1. Apply /\ id = Id
    BY <1>3, OnlyApplyCounts DEF Apply
  <2>2. ReceiptOf[Id] \in CommittedPast /\ KindOf[ReceiptOf[Id]] = "received"
    BY <2>1, ReceiptIsPassed DEF Apply
  <2>3. Debt = {}
    <3>1. IsFiniteSet(Debt) /\ Cardinality(Debt) \in Nat
          /\ Cardinality(Debt) <= 0
      BY <1>1, FS_CardinalityType DEF DebtNeedsFailure
    <3> QED BY <3>1, FS_EmptySet
  <2>4. ReceiptOf[Id] # Id
    BY <2>1, <2>2 DEF Answers
  <2>5. ReceiptOf[Id] \in claimed \cup dead
    BY <2>2, <2>3, <2>4 DEF Debt, Reached
  <2> QED BY <1>1, <2>1, <2>5
<1> QED BY <1>2, <1>3

\* A report never shows the answer to an order without its receipt, unless
\* the receipt is a dead letter, as long as no crash and no lost letter cost
\* one: the reader passes the messages of a partition in their order.
THEOREM ReceiptsComeFirst == Spec => []AnswersFollowReceipts
<1>1. Init => AnswersFollowReceipts
  BY DEF Init, AnswersFollowReceipts
<1>2. Spec => []Abreast
  BY AbreastInit, AbreastStep, AlwaysShape, PTL DEF Spec
<1>3. Spec => []DebtNeedsFailure
  BY <1>2, DebtInit, DebtNext, AlwaysShape, PTL DEF Spec
<1> QED BY <1>1, <1>2, <1>3, AnswersStep, AlwaysShape, PTL DEF Spec

-----------------------------------------------------------------------------
\* One of the claimed events is the latest.
LatestExists ==
  claimed = {} \/ \E last \in claimed : \A id \in claimed : TimeOf[id] <= TimeOf[last]

LEMMA LatestIs ==
  ASSUME claimed \subseteq EventIds, NEW last \in claimed,
         \A id \in claimed : TimeOf[id] <= TimeOf[last]
  PROVE  Latest = TimeOf[last]
<1> DEFINE times == {TimeOf[id] : id \in claimed}
           Top(t) == \A id \in claimed : TimeOf[id] <= t
<1>t. \A id \in claimed : TimeOf[id] \in Nat
  BY EventAssumption
<1>1. TimeOf[last] \in times /\ Top(TimeOf[last])
  OBVIOUS
<1>2. \A t \in times : Top(t) => t = TimeOf[last]
  <2>1. ASSUME NEW id \in claimed, Top(TimeOf[id])
        PROVE  TimeOf[id] = TimeOf[last]
    <3>1. TimeOf[id] <= TimeOf[last] /\ TimeOf[last] <= TimeOf[id]
      BY <2>1
    <3> QED BY <1>t, <3>1
  <2> QED BY <2>1
<1>3. Latest = CHOOSE t \in times : Top(t)
  BY DEF Latest
<1> QED BY <1>1, <1>2, <1>3

LEMMA LatestType ==
  ASSUME Shape, LatestExists
  PROVE  Latest \in Nat
<1>1. claimed \subseteq EventIds
  BY DEF Shape, TypeOK
<1>2. CASE claimed = {}
  BY <1>2 DEF Latest
<1>3. CASE claimed # {}
  <2>1. PICK last \in claimed : \A id \in claimed : TimeOf[id] <= TimeOf[last]
    BY <1>3 DEF LatestExists
  <2> QED BY <1>1, <2>1, LatestIs, EventAssumption
<1> QED BY <1>2, <1>3

\* A new claim: it is the latest now, or the latest stays.
LEMMA LatestStep ==
  ASSUME Shape, LatestExists, NEW new \in EventIds,
         claimed' = claimed \cup {new}
  PROVE  /\ LatestExists'
         /\ Latest' = IF Latest < TimeOf[new] THEN TimeOf[new] ELSE Latest
<1>t. /\ claimed \subseteq EventIds
      /\ TimeOf[new] \in Nat \ {0}
      /\ \A id \in claimed \cup claimed' : TimeOf[id] \in Nat
  BY EventAssumption DEF Shape, TypeOK
<1>l. ASSUME NEW last \in claimed',
             \A id \in claimed' : TimeOf[id] <= TimeOf[last]
      PROVE  Latest' = TimeOf[last] /\ LatestExists'
  <2> DEFINE times == {TimeOf[id] : id \in claimed'}
             Top(t) == \A id \in claimed' : TimeOf[id] <= t
  <2>1. TimeOf[last] \in times /\ Top(TimeOf[last])
    BY <1>l
  <2>2. \A t \in times : Top(t) => t = TimeOf[last]
    <3>1. ASSUME NEW id \in claimed', Top(TimeOf[id])
          PROVE  TimeOf[id] = TimeOf[last]
      <4>1. TimeOf[id] <= TimeOf[last] /\ TimeOf[last] <= TimeOf[id]
        BY <1>l, <3>1
      <4> QED BY <1>t, <4>1
    <3> QED BY <3>1
  <2>3. Latest' = CHOOSE t \in times : Top(t)
    BY DEF Latest
  <2> QED BY <1>l, <2>1, <2>2, <2>3 DEF LatestExists
<1>1. CASE claimed = {}
  <2>1. Latest = 0
    BY <1>1 DEF Latest
  <2>2. new \in claimed' /\ \A id \in claimed' : TimeOf[id] <= TimeOf[new]
    BY <1>1, <1>t
  <2> QED BY <1>l, <1>t, <2>1, <2>2
<1>2. CASE claimed # {}
  <2>1. PICK last \in claimed : \A id \in claimed : TimeOf[id] <= TimeOf[last]
    BY <1>2 DEF LatestExists
  <2>2. Latest = TimeOf[last]
    BY <1>t, <2>1, LatestIs
  <2>3. TimeOf[last] \in Nat /\ \A id \in claimed : TimeOf[id] \in Nat
    BY <1>t, <2>1
  <2>4. CASE TimeOf[last] < TimeOf[new]
    <3>1. \A id \in claimed' : TimeOf[id] <= TimeOf[new]
      BY <1>t, <2>1, <2>3, <2>4
    <3> QED BY <1>l, <2>2, <2>4, <3>1
  <2>5. CASE ~(TimeOf[last] < TimeOf[new])
    <3>1. \A id \in claimed' : TimeOf[id] <= TimeOf[last]
      BY <1>t, <2>1, <2>3, <2>5
    <3> QED BY <1>l, <2>1, <2>2, <2>5, <3>1
  <2> QED BY <2>4, <2>5
<1> QED BY <1>1, <1>2

\* An upsert is what the read model does to its rows.
LEMMA UpsertAdds ==
  ASSUME Shape, NEW id \in EventIds
  PROVE  Upsert(id) =
           [day \in DOMAIN rollup \cup {ReadModel!DayBucket(TimeOf[id])} |->
              IF day = ReadModel!DayBucket(TimeOf[id])
              THEN [column \in ReadModel!Columns |->
                      ReadModel!RowOf(day)[column] + ReadModel!Adds(id, column)]
              ELSE rollup[day]]
<1> DEFINE D == DOMAIN rollup \cup {Day(id)}
           row(day) == [column \in Columns |->
                   ReadModel!RowOf(day)[column] + ReadModel!Adds(id, column)]
<1>1. /\ ReadModel!DayBucket(TimeOf[id]) = Day(id)
      /\ ReadModel!Columns = Columns
  BY DEF ReadModel!DayBucket, Day, ReadModel!Columns, Columns, Counters
<1>2. ASSUME NEW c \in Columns PROVE ReadModel!Adds(id, c) = Delta(id)[c]
  <2>1. ReadModel!Latency(id) = Latency(id)
    <3>1. TimeOf[id] \in Nat /\ ReceivedAt[id] \in Nat
      BY EventAssumption
    <3>2. TimeOf[id] = ReceivedAt[id] => TimeOf[id] - ReceivedAt[id] = 0
      BY <3>1
    <3> QED BY <3>1, <3>2 DEF ReadModel!Latency, Latency
  <2>2. CASE c = "latency"
    <3>1. KindOf[id] # "latency"
      BY DEF Kind, Counters
    <3> QED BY <2>1, <2>2, <3>1 DEF ReadModel!Adds, Delta
  <2>3. CASE c # "latency"
    BY <2>3 DEF ReadModel!Adds, Delta
  <2> QED BY <2>2, <2>3
<1>3. ASSUME NEW day \in D
      PROVE  Upsert(id)[day] = IF day = Day(id) THEN row(day) ELSE rollup[day]
  <2>1. CASE day \notin DOMAIN rollup
    <3>1. day = Day(id) /\ Upsert(id)[day] = Delta(id)
      BY <2>1 DEF Upsert
    <3>2. \A c \in Columns : row(day)[c] = Delta(id)[c]
      BY <1>1, <1>2, <2>1, DeltaType DEF ReadModel!RowOf
    <3> QED BY <3>1, <3>2, DeltaType
  <2>2. CASE day \in DOMAIN rollup /\ day = Day(id)
    <3>1. Upsert(id)[day] = [c \in Columns |-> rollup[day][c] + Delta(id)[c]]
      BY <2>2 DEF Upsert
    <3>2. ReadModel!RowOf(day) = rollup[day]
      BY <2>2 DEF ReadModel!RowOf
    <3> QED BY <1>2, <2>2, <3>1, <3>2
  <2>3. CASE day \in DOMAIN rollup /\ day # Day(id)
    BY <2>3 DEF Upsert
  <2> QED BY <2>1, <2>2, <2>3
<1>4. Upsert(id) = [day \in D |-> Upsert(id)[day]]
  BY DEF Upsert
<1> QED BY <1>1, <1>3, <1>4

\* The analytical database implements the read model the ports promise, for
\* every topic, whatever fails: retries, duplicates, rebalances and restarts
\* are stutters of it, and every other step of it applies one event, at once.
THEOREM DatabaseIsReadModel == Spec => ImplementsReadModel
<1>1. Init => ReadModel!ReportInit /\ LatestExists
  BY DEF Init, ReadModel!ReportInit, Latest, LatestExists
<1>2. Shape /\ LatestExists /\ [Next]_vars
        => LatestExists' /\ [ReadModel!ReportNext]_(ReadModel!rvars)
  <2> SUFFICES ASSUME Shape, LatestExists, [Next]_vars
               PROVE  LatestExists' /\ [ReadModel!ReportNext]_(ReadModel!rvars)
    OBVIOUS
  <2>1. CASE UNCHANGED <<claimed, rollup>>
    BY <2>1 DEF LatestExists, Latest, ReadModel!rvars
  <2>2. CASE Apply /\ Id \notin claimed
    <3>1. /\ Id \in EventIds
          /\ claimed' = claimed \cup {Id} /\ rollup' = Upsert(Id)
      BY <2>2, IdType DEF Apply
    <3>2. /\ LatestExists'
          /\ Latest' = IF Latest < TimeOf[Id] THEN TimeOf[Id] ELSE Latest
      BY <3>1, LatestStep
    <3>3. ReadModel!ApplyEvent(Id)
      BY <2>2, <3>1, <3>2, UpsertAdds DEF ReadModel!ApplyEvent
    <3> QED BY <3>1, <3>2, <3>3 DEF ReadModel!ReportNext
  <2>3. CASE Apply /\ Id \in claimed
    <3>1. UNCHANGED <<claimed, rollup>>
      BY <2>3 DEF Apply
    <3> QED BY <2>1, <3>1
  <2> QED BY <2>1, <2>2, <2>3, OnlyApplyCounts
<1> QED
  BY <1>1, <1>2, AlwaysShape, PTL
  DEF Spec, ImplementsReadModel, ReadModel!ReportSpec

\* An upsert takes no row away and lowers no column.
LEMMA UpsertGrows ==
  ASSUME Shape, NEW id \in EventIds, NEW day \in DOMAIN rollup,
         NEW column \in Columns
  PROVE  /\ day \in DOMAIN Upsert(id)
         /\ rollup[day][column] <= Upsert(id)[day][column]
<1>1. rollup[day][column] \in Nat /\ Delta(id)[column] \in Nat
  BY DeltaType DEF Shape, TypeOK
<1>2. day \in DOMAIN Upsert(id)
  BY DEF Upsert
<1>3. Upsert(id)[day][column]
        \in {rollup[day][column], rollup[day][column] + Delta(id)[column]}
  BY DEF Upsert
<1> QED BY <1>1, <1>2, <1>3

\* The later the latest event, the less the lag.
LEMMA LaterIsFresher ==
  \A now, early, late \in Nat :
    early <= late => (IF now < late THEN 0 ELSE now - late)
                       <= (IF now < early THEN 0 ELSE now - early)
  OBVIOUS

\* For every topic and whatever fails, a report never shrinks and the read
\* model never looks older than it did.
THEOREM ReportsNeverShrink == Spec => ReportsOnlyGrow
<1> DEFINE Grow(from, to) ==
             LET report == ReadModel!Query(from, to) IN
             \A day \in DOMAIN report : \A column \in Columns :
               /\ day \in DOMAIN report'
               /\ report[day][column] <= report'[day][column]
           Fresher ==
             Latest # 0 =>
               \A now \in Instants :
                 ReadModel!FreshnessLag(now)' <= ReadModel!FreshnessLag(now)
           Grown == claimed' # claimed =>
                      (\A from, to \in Instants : Grow(from, to)) /\ Fresher
<1>1. Init => LatestExists
  BY DEF Init, LatestExists
<1>2. Shape /\ LatestExists /\ [Next]_vars => LatestExists' /\ Grown
  <2> SUFFICES ASSUME Shape, LatestExists, [Next]_vars
               PROVE  LatestExists' /\ Grown
    OBVIOUS
  <2>1. CASE UNCHANGED <<claimed, rollup>>
    BY <2>1 DEF LatestExists
  <2>2. CASE Apply /\ Id \notin claimed
    <3>1. /\ Id \in EventIds
          /\ claimed' = claimed \cup {Id} /\ rollup' = Upsert(Id)
      BY <2>2, IdType DEF Apply
    <3>2. /\ LatestExists'
          /\ Latest' = IF Latest < TimeOf[Id] THEN TimeOf[Id] ELSE Latest
      BY <3>1, LatestStep
    <3>3. ASSUME NEW from \in Instants, NEW to \in Instants
          PROVE  Grow(from, to)
      <4> DEFINE report == ReadModel!Query(from, to)
      <4>1. ASSUME NEW day \in DOMAIN report, NEW column \in Columns
            PROVE  /\ day \in DOMAIN report'
                   /\ report[day][column] <= report'[day][column]
        <5>1. day \in DOMAIN rollup /\ from <= day /\ day < to
          BY <4>1 DEF ReadModel!Query
        <5>2. /\ day \in DOMAIN rollup'
              /\ rollup[day][column] <= rollup'[day][column]
          BY <3>1, <4>1, <5>1, UpsertGrows
        <5>3. report[day] = rollup[day]
          BY <5>1 DEF ReadModel!Query
        <5>4. day \in DOMAIN report' /\ report'[day] = rollup'[day]
          BY <5>1, <5>2 DEF ReadModel!Query
        <5> QED BY <5>2, <5>3, <5>4
      <4> QED BY <4>1
    <3>4. Fresher
      <4>1. Latest \in Nat
        BY LatestType
      <4>2. TimeOf[Id] \in Nat /\ Latest' \in Nat /\ Latest <= Latest'
        BY <3>1, <3>2, <4>1, EventAssumption
      <4>3. ASSUME Latest # 0, NEW now \in Instants
            PROVE  ReadModel!FreshnessLag(now)' <= ReadModel!FreshnessLag(now)
        <5>1. now \in Nat
          BY EventAssumption DEF Instants
        <5>2. ReadModel!FreshnessLag(now)
                = IF now < Latest THEN 0 ELSE now - Latest
          BY <4>3 DEF ReadModel!FreshnessLag
        <5>3. ReadModel!FreshnessLag(now)'
                = IF now < Latest' THEN 0 ELSE now - Latest'
          BY <4>1, <4>2, <4>3 DEF ReadModel!FreshnessLag
        <5>4. (IF now < Latest' THEN 0 ELSE now - Latest')
                <= (IF now < Latest THEN 0 ELSE now - Latest)
          BY <4>1, <4>2, <5>1, LaterIsFresher, Zenon
        <5> QED BY <5>2, <5>3, <5>4, Zenon
      <4>4. CASE Latest = 0
        BY <4>4
      <4>5. CASE Latest # 0
        BY <4>3, <4>5
      <4> QED BY <4>4, <4>5
    <3> QED BY <3>2, <3>3, <3>4
  <2>3. CASE Apply /\ Id \in claimed
    <3>1. UNCHANGED <<claimed, rollup>>
      BY <2>3 DEF Apply
    <3> QED BY <2>1, <3>1
  <2> QED BY <2>1, <2>2, <2>3, OnlyApplyCounts
<1>3. Grown => [claimed' # claimed =>
         /\ \A from, to \in Instants :
              LET report == ReadModel!Query(from, to) IN
              \A day \in DOMAIN report : \A column \in Columns :
                /\ day \in DOMAIN report'
                /\ report[day][column] <= report'[day][column]
         /\ Latest # 0 =>
              \A now \in Instants :
                ReadModel!FreshnessLag(now)' <= ReadModel!FreshnessLag(now)]_vars
  OBVIOUS
<1> QED
  BY <1>1, <1>2, <1>3, AlwaysShape, PTL DEF Spec, ReportsOnlyGrow
=============================================================================
