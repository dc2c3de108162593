---------------------------- MODULE BreakerProofs ---------------------------
(***************************************************************************)
(* Theorems about Breaker, for every time limit, window, cooldown and      *)
(* threshold.                                                              *)
(***************************************************************************)
EXTENDS Breaker, SumTheorems

\* Where a unit may be in which state of the breaker: a call is let through a
\* closed breaker, or is the one probe of a half-open one.
Course ==
  /\ unit \in {"follow", "following"} => breaker.state = "closed"
  /\ unit = "raising" => breaker.state # "open"
  /\ breaker.state = "half-open" =>
       breaker.counts.requests = 1 /\ (InFlight \/ cancelled)

Inv == TypeOK /\ Course

Breakers == [state : States, counts : Counts, age : Nat]

-----------------------------------------------------------------------------
\* gobreaker's own steps keep the shape of a breaker.
LEMMA GenerationShape ==
  ASSUME NEW s \in States
  PROVE  /\ Generation(s) \in Breakers
         /\ Generation(s).state = s
         /\ Generation(s).counts = NoCounts
BY DEF Generation, Breakers, NoCounts, Counts

LEMMA CurrentShape ==
  ASSUME NEW b \in Breakers
  PROVE  /\ Current(b) \in Breakers
         /\ b.state = "closed" => Current(b).state = "closed"
         /\ b.state = "half-open" => Current(b) = b
         /\ Current(b).state = "half-open" =>
              \/ Current(b) = b
              \/ Current(b).counts = NoCounts
BY GenerationShape DEF Current, Breakers, States

LEMMA SucceededShape ==
  ASSUME NEW b \in Breakers, b.state # "open"
  PROVE  Succeeded(b) \in Breakers /\ Succeeded(b).state = "closed"
<1>1. CASE b.state = "half-open"
  BY <1>1, GenerationShape DEF Succeeded, States
<1>2. CASE b.state = "closed"
  BY <1>2 DEF Succeeded, Breakers, Counts
<1> QED  BY <1>1, <1>2 DEF Breakers, States

LEMMA FailedShape ==
  ASSUME NEW b \in Breakers
  PROVE  /\ Failed(b) \in Breakers
         /\ b.state # "open" => Failed(b).state \in {"closed", "open"}
<1> DEFINE counts == OneMoreFailure(b.counts)
<1>1. counts \in Counts
  BY DEF OneMoreFailure, Breakers, Counts
<1>2. [b EXCEPT !.counts = counts] \in Breakers
  BY <1>1 DEF Breakers
<1>3. [b EXCEPT !.counts = counts].state = b.state
  BY DEF Breakers
<1>4. CASE b.state = "half-open" \/ ReadyToTrip(counts)
  BY <1>4, GenerationShape DEF Failed, States
<1>5. CASE ~(b.state = "half-open" \/ ReadyToTrip(counts))
  BY <1>5, <1>2, <1>3 DEF Failed, States, Breakers
<1> QED  BY <1>4, <1>5

\* The end of a call that was let through, and after it no half-open breaker
\* is left but one whose probe was cancelled.
LEMMA AfterRequestShape ==
  ASSUME NEW b \in Breakers, NEW outcome \in {"success", "failure", "cancelled"},
         b.state # "open"
  PROVE  /\ AfterRequest(b, outcome) \in Breakers
         /\ outcome = "success" => AfterRequest(b, outcome).state = "closed"
         /\ AfterRequest(b, outcome).state = "half-open" =>
              outcome = "cancelled" /\ AfterRequest(b, outcome) = b
<1>1. CASE Current(b) # b
  <2>1. b.state = "closed" /\ Current(b).state = "closed"
    BY <1>1, CurrentShape DEF Breakers, States
  <2> QED  BY <1>1, <2>1, CurrentShape DEF AfterRequest
<1>2. CASE Current(b) = b /\ outcome = "success"
  BY <1>2, SucceededShape DEF AfterRequest
<1>3. CASE Current(b) = b /\ outcome = "failure"
  BY <1>3, FailedShape DEF AfterRequest
<1>4. CASE Current(b) = b /\ outcome = "cancelled"
  BY <1>4 DEF AfterRequest
<1> QED  BY <1>1, <1>2, <1>3, <1>4

-----------------------------------------------------------------------------
LEMMA BagShapes ==
  ASSUME NEW bag \in [Ages -> Nat]
  PROVE  /\ [bag EXCEPT ![0] = @ + 1] \in [Ages -> Nat]
         /\ Older(bag) \in [Ages -> Nat]
<1>1. [bag EXCEPT ![0] = @ + 1] \in [Ages -> Nat]
  BY BreakerAssumption DEF Ages
<1>2. ASSUME NEW a \in Ages
      PROVE  (IF a = 0 THEN 0 ELSE bag[a - 1]) \in Nat
  <2>1. CASE a # 0
    <3>1. a - 1 \in Ages
      BY <2>1, BreakerAssumption DEF Ages
    <3> QED  BY <2>1, <3>1
  <2> QED  BY <2>1
<1> QED  BY <1>1, <1>2 DEF Older

LEMMA NothingShape == Nothing \in [Ages -> Nat]
BY DEF Nothing

LEMMA InitInv == Init => Inv
<1> SUFFICES ASSUME Init PROVE Inv
  OBVIOUS
<1>1. breaker \in Breakers /\ breaker.state = "closed"
  BY GenerationShape DEF Init, States
<1>2. recent \in [Ages -> Nat] /\ inARow \in [Ages -> Nat]
  BY NothingShape DEF Init
<1>3. waited \in 0..CallLimit
  BY BreakerAssumption DEF Init
<1>4. TypeOK
  BY <1>1, <1>2, <1>3 DEF Init, TypeOK, Breakers
<1>5. Course
  BY <1>1 DEF Init, Course
<1> QED  BY <1>4, <1>5 DEF Inv

\* The call of a unit is turned away, and the unit ends, or let through by a
\* breaker that is closed, or half open with this call as its probe.
LEMMA CallCases ==
  ASSUME Inv, Call
  PROVE  /\ breaker' \in Breakers
         /\ \/ /\ unit' = "idle"
               /\ breaker'.state = "half-open" =>
                    breaker'.counts.requests = 1 /\ cancelled
            \/ /\ unit' = "raising" \/ (unit = "follow" /\ unit' = "following")
               /\ breaker'.state # "open"
               /\ unit' = "following" => breaker'.state = "closed"
               /\ breaker'.state = "half-open" => breaker'.counts.requests = 1
<1> DEFINE b == Current(breaker)
<1> USE DEF Inv, TypeOK, Course
<1>1. b \in Breakers
  BY CurrentShape DEF Breakers
<1>2. CASE Refuses(b)
  <2>1. breaker' = b /\ unit' = "idle"
    BY <1>2 DEF Call
  <2>2. ASSUME b.state = "half-open"
        PROVE  b.counts.requests = 1 /\ cancelled
    <3>1. b.counts.requests # 0
      BY <1>1, <1>2, <2>2 DEF Refuses, Breakers, Counts
    <3>2. b = breaker
      BY <2>2, <3>1, CurrentShape DEF Breakers, NoCounts
    <3> QED  BY <2>2, <3>2 DEF Call, InFlight
  <2> QED  BY <1>1, <2>1, <2>2
<1>3. CASE ~Refuses(b)
  <2>1. /\ breaker' = [b EXCEPT !.counts.requests = @ + 1]
        /\ unit' = IF unit = "raise" THEN "raising" ELSE "following"
        /\ unit \in {"raise", "follow"}
    BY <1>3 DEF Call
  <2>2. b.counts.requests \in Nat /\ b.counts \in Counts
    BY <1>1 DEF Breakers, Counts
  <2>3. [b.counts EXCEPT !.requests = @ + 1] \in Counts
    BY <2>2 DEF Counts
  <2>4. breaker' \in Breakers /\ breaker'.state = b.state
    BY <1>1, <2>1, <2>3 DEF Breakers
  <2>5. breaker'.counts.requests = b.counts.requests + 1
    BY <1>1, <2>1, <2>2 DEF Breakers, Counts
  <2>6. b.state # "open" /\ (b.state = "half-open" => b.counts.requests = 0)
    BY <1>1, <1>3, <2>2 DEF Refuses
  <2>7. unit = "follow" => b.state = "closed"
    BY CurrentShape DEF Breakers
  <2> QED  BY <2>1, <2>4, <2>5, <2>6, <2>7
<1> QED  BY <1>2, <1>3

LEMMA CallKeepsInv == Inv /\ Call => Inv'
<1> SUFFICES ASSUME Inv, Call PROVE Inv'
  OBVIOUS
<1>1. /\ breaker' \in Breakers
      /\ unit' \in {"idle", "raising", "following"}
  BY CallCases
<1>2. TypeOK'
  BY <1>1 DEF Inv, TypeOK, Call, History, Breakers
<1>3. Course'
  BY CallCases DEF Course, InFlight, Inv, Call
<1> QED  BY <1>2, <1>3 DEF Inv

LEMMA AnswerKeepsInv == Inv /\ Answer => Inv'
<1> SUFFICES ASSUME Inv, Answer PROVE Inv'
  OBVIOUS
<1>1. PICK outcome \in {"success", "failure", "cancelled"} :
         Ends(outcome) /\ (outcome = "cancelled" => cancelled)
  BY DEF Answer, Succeeds, Fails, Cancelled
<1>2. /\ breaker \in Breakers
      /\ breaker.state # "open"
  BY <1>1 DEF Inv, TypeOK, Course, Ends, InFlight, Breakers, States
<1>3. breaker' = AfterRequest(breaker, outcome)
  BY <1>1 DEF Ends
<1>4. /\ breaker' \in Breakers
      /\ outcome = "success" => breaker'.state = "closed"
      /\ breaker'.state = "half-open" =>
           outcome = "cancelled" /\ breaker' = breaker
  BY <1>2, <1>3, AfterRequestShape
<1>5. unit' \in {"idle", "follow"} /\ (unit' = "follow" => outcome = "success")
  BY <1>1 DEF Ends
<1>6. recent' \in [Ages -> Nat] /\ inARow' \in [Ages -> Nat]
       /\ refused' \in BOOLEAN
  BY BagShapes, NothingShape
  DEF Answer, Succeeds, Fails, Cancelled, History, Inv, TypeOK
<1>7. TypeOK'
  BY <1>1, <1>4, <1>5, <1>6, BreakerAssumption
  DEF Inv, TypeOK, Ends, Breakers
<1>8. Course'
  BY <1>1, <1>4, <1>5 DEF Inv, Course, Ends, InFlight
<1> QED  BY <1>7, <1>8 DEF Inv

LEMMA TickKeepsInv == Inv /\ Tick => Inv'
<1> SUFFICES ASSUME Inv, Tick PROVE Inv'
  OBVIOUS
<1>1. /\ breaker' \in Breakers
      /\ breaker'.state = breaker.state
      /\ breaker'.counts = breaker.counts
  BY DEF Tick, Inv, TypeOK, Breakers
<1>2. waited' \in 0..CallLimit
  BY BreakerAssumption DEF Tick, WithinLimit, Inv, TypeOK
<1>3. TypeOK'
  BY <1>1, <1>2, BagShapes DEF Tick, Inv, TypeOK, Breakers
<1>4. Course'
  BY <1>1 DEF Tick, Inv, Course, InFlight
<1> QED  BY <1>3, <1>4 DEF Inv

LEMMA StepKeepsInv == Inv /\ [Next]_vars => Inv'
<1> SUFFICES ASSUME Inv, [Next]_vars PROVE Inv'
  OBVIOUS
<1>1. CASE TakeUp
  BY <1>1 DEF TakeUp, Inv, TypeOK, Course, InFlight, History
<1>2. CASE GiveUp
  BY <1>2 DEF GiveUp, Inv, TypeOK, Course, InFlight, History
<1>3. CASE Call
  BY <1>3, CallKeepsInv
<1>4. CASE Answer
  BY <1>4, AnswerKeepsInv
<1>5. CASE Stop
  BY <1>5 DEF Stop, Inv, TypeOK, Course, InFlight, History
<1>6. CASE Tick
  BY <1>6, TickKeepsInv
<1>7. CASE UNCHANGED vars
  BY <1>7 DEF vars, Inv, TypeOK, Course, InFlight
<1> QED  BY <1>1, <1>2, <1>3, <1>4, <1>5, <1>6, <1>7 DEF Next

LEMMA AlwaysInv == Spec => []Inv
<1>1. Init => Inv
  BY InitInv
<1>2. Inv /\ [Next]_vars => Inv'
  BY StepKeepsInv
<1> QED  BY <1>1, <1>2, PTL DEF Spec

-----------------------------------------------------------------------------
\* The breaker, the unit in hand and the histories keep their types, whatever
\* the limits and thresholds.
THEOREM TypeCorrect == Spec => []TypeOK
<1>1. Inv => TypeOK
  BY DEF Inv
<1> QED  BY <1>1, AlwaysInv, PTL

\* The release or cancel after a successful raise is never turned away:
\* behind that raise the breaker is closed, and only its unit could change
\* that.
THEOREM FollowUpsPass == Spec => []FollowUpIsAttempted
<1>1. Inv => FollowUpIsAttempted
  <2> SUFFICES ASSUME Inv, unit = "follow" PROVE ~Refuses(Current(breaker))
    BY DEF FollowUpIsAttempted
  <2>1. Current(breaker).state = "closed"
    BY CurrentShape DEF Inv, TypeOK, Course, Breakers
  <2> QED  BY <2>1 DEF Refuses
<1> QED  BY <1>1, AlwaysInv, PTL

\* A half-open breaker always has its probe under way, so it is always left
\* again, until the process is stopped.
THEOREM ProbesDecide == Spec => []HalfOpenIsProbing
<1>1. Inv => HalfOpenIsProbing
  BY DEF Inv, Course, HalfOpenIsProbing
<1> QED  BY <1>1, AlwaysInv, PTL

-----------------------------------------------------------------------------
\* While every failure takes the whole time limit, the failures of a window
\* take no more than its age.
Slow ==
  ~refused =>
    /\ breaker.state = "closed"
    /\ breaker.counts.consecutive <= breaker.counts.failures
    /\ ~InFlight => waited = 0
    /\ breaker.age <= Interval =>
         breaker.counts.failures * CallLimit + waited <= breaker.age

\* A window is too short for the failures of ReadyToTrip.
Unhurried ==
  /\ Interval < Trip * CallLimit
  /\ 2 * Interval <= MinVolume * CallLimit

LEMMA Products ==
  ASSUME NEW m \in Nat, NEW n \in Nat, NEW c \in Nat
  PROVE  /\ m * c \in Nat
         /\ (m + 1) * c = m * c + c
         /\ m >= n => m * c >= n * c
         /\ (2 * m) * c = 2 * (m * c)
<1>1. m * c \in Nat /\ (m + 1) * c = m * c + c /\ (2 * m) * c = 2 * (m * c)
  OBVIOUS
<1>2. ASSUME m >= n PROVE m * c >= n * c
  <2>1. m - n \in Nat /\ m = n + (m - n)
    BY <1>2
  <2>2. m * c = n * c + (m - n) * c
    BY <2>1
  <2>3. (m - n) * c \in Nat /\ n * c \in Nat
    BY <2>1
  <2> QED  BY <2>2, <2>3
<1> QED  BY <1>1, <1>2

\* A new window starts with nothing counted.
LEMMA SlowAfresh ==
  ASSUME breaker' = Generation("closed"), waited' = 0
  PROVE  Slow'
<1>1. /\ breaker'.state = "closed" /\ breaker'.age = 0
      /\ breaker'.counts.failures = 0 /\ breaker'.counts.consecutive = 0
  BY DEF Generation, NoCounts
<1>2. 0 * CallLimit = 0
  BY BreakerAssumption
<1> QED  BY <1>1, <1>2 DEF Slow

LEMMA SlowFailure ==
  ASSUME Unhurried, Inv, Slow, Fails, ~refused'
  PROVE  Slow'
<1> DEFINE b == breaker
           f == b.counts.failures
           counts == OneMoreFailure(b.counts)
<1>1. /\ ~refused /\ waited = CallLimit /\ Ends("failure")
      /\ b \in Breakers /\ b.state = "closed"
      /\ b.counts.consecutive <= f
      /\ b.age <= Interval => f * CallLimit + waited <= b.age
  <2>1. refused \in BOOLEAN /\ waited \in 0..CallLimit /\ b \in Breakers
    BY DEF Inv, TypeOK, Breakers
  <2>2. refused' = (refused \/ waited < CallLimit) /\ Ends("failure")
    BY DEF Fails
  <2>3. ~refused /\ ~(waited < CallLimit)
    BY <2>2
  <2>4. waited = CallLimit
    BY <2>1, <2>3, BreakerAssumption
  <2> QED  BY <2>1, <2>2, <2>3, <2>4 DEF Slow
<1>2. waited' = 0 /\ breaker' = AfterRequest(b, "failure")
  BY <1>1 DEF Ends
<1>3. CASE b.age > Interval
  <2>1. Current(b) = Generation("closed") /\ Current(b) # b
    BY <1>1, <1>3, BreakerAssumption DEF Current, Generation, Breakers
  <2>2. breaker' = Generation("closed")
    BY <1>2, <2>1 DEF AfterRequest
  <2> QED  BY <1>2, <2>2, SlowAfresh
<1>4. CASE ~(b.age > Interval)
  <2>1. Current(b) = b
    BY <1>1, <1>4 DEF Current
  <2>2. breaker' = Failed(b)
    BY <1>2, <2>1 DEF AfterRequest
  <2>3. /\ f \in Nat /\ b.counts.requests \in Nat
        /\ b.counts.consecutive \in Nat /\ b.age \in Nat
    BY <1>1 DEF Breakers, Counts
  <2>4. (f + 1) * CallLimit <= b.age /\ b.age <= Interval
    <3>1. f * CallLimit + CallLimit <= b.age
      BY <1>1, <1>4, <2>3, BreakerAssumption
    <3>2. (f + 1) * CallLimit = f * CallLimit + CallLimit
      BY <2>3, Products, BreakerAssumption
    <3> QED  BY <1>4, <2>3, <3>1, <3>2, BreakerAssumption
  <2>5. f + 1 < Trip
    <3>1. f + 1 >= Trip => (f + 1) * CallLimit >= Trip * CallLimit
      BY <2>3, Products, BreakerAssumption
    <3>2. (f + 1) * CallLimit \in Nat /\ Trip * CallLimit \in Nat
      BY <2>3, Products, BreakerAssumption
    <3> QED  BY <2>3, <2>4, <3>1, <3>2, BreakerAssumption DEF Unhurried
  <2>6. ~(2 * (f + 1) > MinVolume)
    <3>1. SUFFICES ASSUME 2 * (f + 1) >= MinVolume + 1 PROVE FALSE
      BY <2>3, BreakerAssumption
    <3>2. (2 * (f + 1)) * CallLimit >= (MinVolume + 1) * CallLimit
      BY <2>3, <3>1, Products, BreakerAssumption
    <3>3. (2 * (f + 1)) * CallLimit = 2 * ((f + 1) * CallLimit)
      BY <2>3, Products, BreakerAssumption
    <3>4. (MinVolume + 1) * CallLimit = MinVolume * CallLimit + CallLimit
      BY Products, BreakerAssumption
    <3>5. (f + 1) * CallLimit \in Nat /\ MinVolume * CallLimit \in Nat
      BY <2>3, Products, BreakerAssumption
    <3> QED  BY <2>3, <2>4, <3>2, <3>3, <3>4, <3>5, BreakerAssumption
             DEF Unhurried
  <2>7. /\ counts.requests = b.counts.requests
        /\ counts.failures = f + 1
        /\ counts.consecutive = b.counts.consecutive + 1
    BY DEF OneMoreFailure
  <2>8. ~ReadyToTrip(counts)
    BY <1>1, <2>3, <2>5, <2>6, <2>7, BreakerAssumption DEF ReadyToTrip
  <2>9. breaker' = [b EXCEPT !.counts = counts]
    BY <1>1, <2>2, <2>8 DEF Failed
  <2>10. /\ breaker'.state = "closed" /\ breaker'.age = b.age
         /\ breaker'.counts = counts
    BY <1>1, <2>9 DEF Breakers
  <2> QED  BY <1>1, <1>2, <2>3, <2>4, <2>7, <2>10, BreakerAssumption DEF Slow
<1> QED  BY <1>3, <1>4

LEMMA SlowStep == Unhurried /\ Inv /\ Slow /\ [Next]_vars => Slow'
<1> SUFFICES ASSUME Unhurried, Inv, Slow, [Next]_vars, ~refused' PROVE Slow'
  BY DEF Slow
<1>1. CASE Fails
  BY <1>1, SlowFailure
<1>2. CASE Succeeds \/ Cancelled
  <2>1. ~refused /\ waited' = 0 /\ breaker.state = "closed"
         /\ breaker \in Breakers
    BY <1>2 DEF Succeeds, Cancelled, Ends, Slow, Inv, TypeOK, Breakers, History
  <2>2. CASE breaker' = Generation("closed")
    BY <2>1, <2>2, SlowAfresh
  <2>3. CASE breaker' = [breaker EXCEPT !.counts.consecutive = 0]
    <3>1. /\ breaker'.state = "closed" /\ breaker'.age = breaker.age
          /\ breaker'.counts.failures = breaker.counts.failures
          /\ breaker'.counts.consecutive = 0
      BY <2>1, <2>3 DEF Breakers, Counts
    <3>2. waited \in Nat /\ breaker.counts.failures \in Nat
           /\ breaker.age \in Nat
      BY <2>1, BreakerAssumption DEF Inv, TypeOK, Breakers, Counts
    <3>3. breaker.counts.failures * CallLimit \in Nat
      BY <3>2, Products, BreakerAssumption
    <3> QED  BY <2>1, <3>1, <3>2, <3>3, BreakerAssumption DEF Slow
  <2>4. CASE breaker' = breaker
    <3>1. waited \in Nat /\ breaker.counts.failures \in Nat
           /\ breaker.age \in Nat
      BY <2>1, BreakerAssumption DEF Inv, TypeOK, Breakers, Counts
    <3>2. breaker.counts.failures * CallLimit \in Nat
      BY <3>1, Products, BreakerAssumption
    <3> QED  BY <2>1, <2>4, <3>1, <3>2 DEF Slow
  <2>5. \/ breaker' = AfterRequest(breaker, "success")
        \/ breaker' = AfterRequest(breaker, "cancelled")
    BY <1>2 DEF Succeeds, Cancelled, Ends
  <2>6. Current(breaker) \in {breaker, Generation("closed")}
    BY <2>1 DEF Current
  <2> QED
    BY <2>1, <2>2, <2>3, <2>4, <2>5, <2>6 DEF AfterRequest, Succeeded
<1>3. CASE Call
  <2> DEFINE b == Current(breaker)
  <2>1. /\ ~refused /\ breaker.state = "closed" /\ breaker \in Breakers
        /\ waited = 0 /\ waited' = 0
    BY <1>3 DEF Call, History, Slow, Inv, TypeOK, Breakers, InFlight
  <2>2. b \in Breakers /\ b.state = "closed"
    BY <2>1, CurrentShape
  <2>3. breaker' = [b EXCEPT !.counts.requests = @ + 1]
    BY <1>3, <2>2 DEF Call, Refuses
  <2>4. /\ breaker'.state = "closed" /\ breaker'.age = b.age
        /\ breaker'.counts.failures = b.counts.failures
        /\ breaker'.counts.consecutive = b.counts.consecutive
    BY <2>2, <2>3 DEF Breakers, Counts
  <2>5. CASE b = breaker
    BY <2>1, <2>4, <2>5 DEF Slow
  <2>6. CASE b = Generation("closed")
    BY <2>1, <2>4, <2>6, BreakerAssumption DEF Slow, Generation, NoCounts
  <2> QED  BY <2>1, <2>5, <2>6 DEF Current
<1>4. CASE Tick
  <2>1. /\ ~refused /\ breaker.state = "closed" /\ breaker \in Breakers
        /\ waited \in Nat /\ breaker.counts.failures \in Nat
        /\ breaker.age \in Nat
    BY <1>4, BreakerAssumption DEF Tick, Slow, Inv, TypeOK, Breakers, Counts
  <2>2. breaker.counts.failures * CallLimit \in Nat
    BY <2>1, Products, BreakerAssumption
  <2>3. InFlight' = InFlight
    BY <1>4 DEF Tick, InFlight
  <2>4. waited' = IF InFlight THEN waited + 1 ELSE waited
    BY <1>4 DEF Tick
  <2>5. CASE Current(breaker) = breaker
    <3>1. breaker' = [breaker EXCEPT !.age = @ + 1]
      BY <1>4, <2>1, <2>5 DEF Tick
    <3>2. /\ breaker'.state = "closed" /\ breaker'.age = breaker.age + 1
          /\ breaker'.counts = breaker.counts
      BY <2>1, <3>1 DEF Breakers
    <3> QED
      BY <2>1, <2>2, <2>3, <2>4, <3>2, BreakerAssumption DEF Slow
  <2>6. CASE Current(breaker) # breaker
    <3>1. breaker' = breaker
      BY <1>4, <2>6 DEF Tick
    <3>2. breaker.age > Interval
      BY <2>1, <2>6 DEF Current
    <3> QED
      BY <2>1, <2>3, <2>4, <3>1, <3>2, BreakerAssumption DEF Slow
  <2> QED  BY <2>5, <2>6
<1>5. CASE TakeUp \/ GiveUp \/ Stop \/ UNCHANGED vars
  BY <1>5 DEF TakeUp, GiveUp, Stop, vars, History, Slow, InFlight
<1> QED  BY <1>1, <1>2, <1>3, <1>4, <1>5 DEF Next, Answer

\* With windows and thresholds like the code's (30 s and five failures of 10 s
\* each) an order-management that only hangs never opens the breaker.
THEOREM HangsAreNeverCutOff ==
  ASSUME Unhurried
  PROVE  Spec => []HangingIsNotCutOff
<1>1. Init => Slow
  BY BreakerAssumption
  DEF Init, Slow, Generation, NoCounts, InFlight
<1>2. Unhurried /\ Inv /\ Slow /\ [Next]_vars => Slow'
  BY SlowStep
<1>3. Slow => HangingIsNotCutOff
  BY DEF Slow, HangingIsNotCutOff
<1>4. Unhurried => []Unhurried
  BY PTL DEF Unhurried
<1> QED  BY <1>1, <1>2, <1>3, Unhurried, AlwaysInv, PTL DEF Spec

-----------------------------------------------------------------------------
(***************************************************************************)
(* Failures by age.  A generation of the breaker begins n ticks ago: the   *)
(* failures in it are the ones younger than n, but for those of the very   *)
(* tick it began in.                                                       *)
(***************************************************************************)
Younger(bag, n) == SumFunctionOnSet(bag, {a \in Ages : a < n})

LEMMA AgesFinite == IsFiniteSet(Ages) /\ 0 \in Ages
BY FS_Interval, BreakerAssumption DEF Ages

LEMMA TotalOnAges ==
  ASSUME NEW bag \in [Ages -> Nat]
  PROVE  Total(bag) = SumFunctionOnSet(bag, Ages)
BY Zenon DEF Total, SumFunction

LEMMA YoungerFacts ==
  ASSUME NEW bag \in [Ages -> Nat], NEW n \in Nat
  PROVE  /\ Total(bag) \in Nat
         /\ Younger(bag, n) \in Nat
         /\ Younger(bag, n) <= Total(bag)
         /\ n > Interval => Younger(bag, n) = Total(bag)
         /\ Younger(bag, 0) = 0
<1> DEFINE Y == {a \in Ages : a < n}
<1>1. \A a \in Ages : bag[a] \in Nat
  OBVIOUS
<1>2. Y \in SUBSET Ages /\ IsFiniteSet(Y)
  BY AgesFinite, FS_Subset
<1>3. SumFunctionOnSet(bag, Ages) \in Nat
  BY <1>1, AgesFinite, SumNat
<1>4. SumFunctionOnSet(bag, Y) \in Nat
  BY <1>1, <1>2, SumNat
<1>5. SumFunctionOnSet(bag, Y) <= SumFunctionOnSet(bag, Ages)
  BY <1>1, <1>2, AgesFinite, SumPart
<1>6. n > Interval => Y = Ages
  BY BreakerAssumption DEF Ages
<1>7. {a \in Ages : a < 0} = {}
  BY BreakerAssumption DEF Ages
<1>8. Younger(bag, 0) = 0
  BY <1>7, SumEmpty DEF Younger
<1> QED  BY <1>3, <1>4, <1>5, <1>6, <1>8, TotalOnAges DEF Younger

LEMMA NothingCounts ==
  ASSUME NEW n \in Nat
  PROVE  Total(Nothing) = 0 /\ Younger(Nothing, n) = 0
<1>1. \A a \in Ages : Nothing[a] = 0
  BY DEF Nothing
<1>2. SumFunctionOnSet(Nothing, Ages) = 0
  BY <1>1, AgesFinite, SumZero
<1>3. Total(Nothing) = 0
  BY <1>2, NothingShape, TotalOnAges
<1>4. Younger(Nothing, n) \in Nat /\ Younger(Nothing, n) <= Total(Nothing)
  BY NothingShape, YoungerFacts
<1> QED  BY <1>3, <1>4

\* One failure more, just now.
LEMMA FailureCounts ==
  ASSUME NEW bag \in [Ages -> Nat], NEW n \in Nat
  PROVE  /\ Total([bag EXCEPT ![0] = @ + 1]) = Total(bag) + 1
         /\ Younger([bag EXCEPT ![0] = @ + 1], n)
              = IF n = 0 THEN 0 ELSE Younger(bag, n) + 1
<1> DEFINE more == [bag EXCEPT ![0] = @ + 1]
           Y == {a \in Ages : a < n}
<1>1. /\ more \in [Ages -> Nat]
      /\ more[0] = bag[0] + 1
      /\ \A a \in Ages \ {0} : more[a] = bag[a]
      /\ \A a \in Ages : bag[a] \in Int /\ more[a] \in Int
  BY BagShapes, AgesFinite
<1>2. bag[0] \in Int
  BY AgesFinite
<1> HIDE DEF more
<1>3. SumFunctionOnSet(more, Ages) = SumFunctionOnSet(bag, Ages) + 1
  <2>1. SumFunctionOnSet(more, Ages)
          = SumFunctionOnSet(bag, Ages) + (more[0] - bag[0])
    BY <1>1, AgesFinite, SumChange
  <2> QED  BY <1>1, <1>2, <2>1
<1>4. CASE n = 0
  BY <1>1, <1>3, <1>4, TotalOnAges, YoungerFacts DEF more
<1>5. CASE n # 0
  <2>1. 0 \in Y /\ Y \in SUBSET Ages /\ IsFiniteSet(Y)
    BY <1>5, AgesFinite, FS_Subset
  <2>2. SumFunctionOnSet(more, Y)
          = SumFunctionOnSet(bag, Y) + (more[0] - bag[0])
    <3> HIDE DEF Y
    <3>1. /\ \A a \in Y : bag[a] \in Int /\ more[a] \in Int
          /\ \A a \in Y \ {0} : more[a] = bag[a]
      BY <1>1, <2>1
    <3> QED  BY <2>1, <3>1, SumChange
  <2>3. Younger(more, n) = Younger(bag, n) + 1
    BY <1>1, <1>2, <2>2 DEF Younger
  <2> QED  BY <1>1, <1>3, <1>5, <2>3, TotalOnAges DEF more
<1> QED  BY <1>4, <1>5

\* A tick of the clock.
LEMMA OlderCounts ==
  ASSUME NEW bag \in [Ages -> Nat], NEW n \in Nat
  PROVE  /\ Total(Older(bag)) <= Total(bag)
         /\ n <= Interval => Younger(Older(bag), n + 1) = Younger(bag, n)
<1>1. ASSUME NEW k \in Nat, k <= Interval
      PROVE  SumFunctionOnSet(Older(bag), 0..k) = SumFunctionOnSet(bag, 0..k-1)
  <2>1. /\ \A a \in 0..k : bag[a] \in Int
        /\ Older(bag)[0] = 0
        /\ \A a \in 1..k : Older(bag)[a] = bag[a - 1]
    BY <1>1, BreakerAssumption DEF Older, Ages
  <2> QED  BY <2>1, SumShift
<1>2. Total(Older(bag)) <= Total(bag)
  <2>1. SumFunctionOnSet(Older(bag), Ages)
          = SumFunctionOnSet(bag, 0..Interval-1)
    BY <1>1, BreakerAssumption DEF Ages
  <2>2. 0..Interval-1 \in SUBSET Ages
    BY BreakerAssumption DEF Ages
  <2>3. SumFunctionOnSet(bag, 0..Interval-1) <= SumFunctionOnSet(bag, Ages)
    <3>1. \A a \in Ages : bag[a] \in Nat
      OBVIOUS
    <3> QED  BY <2>2, <3>1, AgesFinite, SumPart
  <2> QED  BY <2>1, <2>3, BagShapes, TotalOnAges
<1>3. ASSUME n <= Interval
      PROVE  Younger(Older(bag), n + 1) = Younger(bag, n)
  <2>1. {a \in Ages : a < n + 1} = 0..n /\ {a \in Ages : a < n} = 0..n-1
    BY <1>3, BreakerAssumption DEF Ages
  <2> QED  BY <1>1, <1>3, <2>1 DEF Younger
<1> QED  BY <1>2, <1>3

\* gobreaker rolls an expired generation over, and nothing else.
LEMMA CurrentCases ==
  ASSUME NEW b
  PROVE  \/ Current(b) = b
         \/ /\ b.state = "closed" /\ b.age > Interval
            /\ Current(b) = Generation("closed")
         \/ /\ b.state = "open" /\ b.age > Cooldown
            /\ Current(b) = Generation("half-open")
BY DEF Current

\* A call lets the breaker roll over and counts a request, no failure.
LEMMA CallEffect ==
  ASSUME Inv, Call
  PROVE  /\ breaker'.state = Current(breaker).state
         /\ breaker'.age = Current(breaker).age
         /\ breaker'.counts.failures = Current(breaker).counts.failures
         /\ breaker'.counts.consecutive = Current(breaker).counts.consecutive
         /\ recent' = recent /\ inARow' = inARow
<1>1. Current(breaker) \in Breakers
  BY CurrentShape DEF Inv, TypeOK, Breakers
<1>2. \/ breaker' = Current(breaker)
      \/ breaker' = [Current(breaker) EXCEPT !.counts.requests = @ + 1]
  BY DEF Call
<1> QED  BY <1>1, <1>2 DEF Call, History, Breakers, Counts

\* The end of a call, by what the breaker it finds was doing.
LEMMA EndEffect ==
  ASSUME Inv, NEW outcome \in {"success", "failure", "cancelled"}, Ends(outcome)
  PROVE  /\ breaker \in Breakers
         /\ \/ /\ breaker.state = "closed" /\ breaker.age > Interval
               /\ breaker' = Generation("closed")
            \/ /\ breaker.state \in {"closed", "half-open"}
               /\ breaker.state = "closed" => breaker.age <= Interval
               /\ breaker' = CASE outcome = "success" -> Succeeded(breaker)
                              [] outcome = "failure" -> Failed(breaker)
                              [] OTHER -> breaker
<1>1. breaker \in Breakers /\ breaker.state \in {"closed", "half-open"}
  BY DEF Inv, TypeOK, Course, Ends, InFlight, Breakers, States
<1>2. breaker' = AfterRequest(breaker, outcome)
  BY DEF Ends
<1>3. CASE breaker.state = "closed" /\ breaker.age > Interval
  <2>1. Current(breaker) = Generation("closed")
    BY <1>3 DEF Current
  <2>2. Current(breaker).age = 0
    BY <2>1 DEF Generation
  <2>3. Current(breaker) # breaker
    BY <1>3, <2>2, BreakerAssumption
  <2> QED  BY <1>1, <1>2, <1>3, <2>1, <2>3 DEF AfterRequest
<1>4. CASE ~(breaker.state = "closed" /\ breaker.age > Interval)
  <2>1. Current(breaker) = breaker
    BY <1>1, <1>4, CurrentCases
  <2>2. breaker.state = "closed" => breaker.age <= Interval
    BY <1>1, <1>4, BreakerAssumption DEF Breakers
  <2> QED  BY <1>1, <1>2, <2>1, <2>2 DEF AfterRequest
<1> QED  BY <1>3, <1>4

\* What a success and a failure make of the counts.
LEMMA SucceededEffect ==
  ASSUME NEW b \in Breakers, b.state \in {"closed", "half-open"}
  PROVE  /\ Succeeded(b).state = "closed"
         /\ Succeeded(b).counts.consecutive = 0
         /\ \/ Succeeded(b).age = 0 /\ Succeeded(b).counts.failures = 0
            \/ /\ b.state = "closed" /\ Succeeded(b).age = b.age
               /\ Succeeded(b).counts.failures = b.counts.failures
BY DEF Succeeded, Generation, NoCounts, Breakers, Counts

LEMMA FailedEffect ==
  ASSUME NEW b \in Breakers, b.state \in {"closed", "half-open"}
  PROVE  \/ /\ Failed(b) = Generation("open")
            /\ \/ b.state = "half-open"
               \/ b.counts.consecutive + 1 >= Trip
               \/ 2 * (b.counts.failures + 1) > MinVolume
         \/ /\ b.state = "closed" /\ Failed(b).state = "closed"
            /\ Failed(b).age = b.age
            /\ b.counts.consecutive + 1 < Trip
            /\ Failed(b).counts.consecutive = b.counts.consecutive + 1
            /\ Failed(b).counts.failures = b.counts.failures + 1
<1> DEFINE counts == OneMoreFailure(b.counts)
<1>1. /\ counts.requests = b.counts.requests
      /\ counts.failures = b.counts.failures + 1
      /\ counts.consecutive = b.counts.consecutive + 1
  BY DEF OneMoreFailure
<1>2. /\ b.counts.requests \in Nat /\ b.counts.failures \in Nat
      /\ b.counts.consecutive \in Nat
  BY DEF Breakers, Counts
<1>3. CASE b.state = "half-open" \/ ReadyToTrip(counts)
  <2>1. Failed(b) = Generation("open")
    BY <1>3 DEF Failed
  <2>2. ReadyToTrip(counts) => \/ b.counts.consecutive + 1 >= Trip
                              \/ 2 * (b.counts.failures + 1) > MinVolume
    BY <1>1, <1>2, BreakerAssumption DEF ReadyToTrip
  <2> QED  BY <1>3, <2>1, <2>2
<1>4. CASE ~(b.state = "half-open" \/ ReadyToTrip(counts))
  <2>1. Failed(b) = [b EXCEPT !.counts = counts]
    BY <1>4 DEF Failed
  <2>2. /\ Failed(b).state = b.state /\ Failed(b).age = b.age
        /\ Failed(b).counts = counts
    BY <2>1 DEF Breakers
  <2>3. b.counts.consecutive + 1 < Trip
    BY <1>1, <1>2, <1>4, BreakerAssumption DEF ReadyToTrip
  <2> QED  BY <1>1, <1>4, <2>2, <2>3
<1> QED  BY <1>3, <1>4

\* The clock moves a generation on until it has expired.
LEMMA TickEffect ==
  ASSUME Inv, Tick
  PROVE  /\ breaker \in Breakers
         /\ breaker'.state = breaker.state /\ breaker'.counts = breaker.counts
         /\ \/ breaker'.age = breaker.age + 1
            \/ breaker'.age = breaker.age /\ breaker.state = "half-open"
            \/ /\ breaker'.age = breaker.age /\ breaker.state = "closed"
               /\ breaker.age > Interval
            \/ /\ breaker'.age = breaker.age /\ breaker.state = "open"
               /\ breaker.age > Cooldown
<1>1. breaker \in Breakers
  BY DEF Inv, TypeOK, Breakers
<1>2. CASE breaker' = breaker /\ breaker.state = "half-open"
  BY <1>1, <1>2
<1>3. CASE breaker' = breaker /\ Current(breaker) # breaker
  BY <1>1, <1>3, CurrentCases
<1>4. CASE breaker' = [breaker EXCEPT !.age = @ + 1]
  BY <1>1, <1>4 DEF Breakers
<1> QED  BY <1>2, <1>3, <1>4 DEF Tick

-----------------------------------------------------------------------------
(***************************************************************************)
(* What the breaker counts in a window did happen in it: the failures of a *)
(* generation that has not expired are all younger than the generation.    *)
(***************************************************************************)
CountedIsRecent ==
  breaker.state = "closed" =>
    /\ breaker.counts.consecutive <= breaker.counts.failures
    /\ breaker.age <= Interval =>
         breaker.counts.failures <= Younger(recent, breaker.age + 1)

\* The majority of the smallest volume is at least as many failures as trip
\* the breaker in a row.
MajorityIsEvidence == 2 * (Trip - 1) <= MinVolume

LEMMA CountsAfresh ==
  ASSUME TypeOK', breaker'.state = "closed" => breaker'.counts = NoCounts
  PROVE  CountedIsRecent'
<1>1. Younger(recent, breaker.age + 1)' \in Nat
  <2>1. recent' \in [Ages -> Nat] /\ breaker'.age + 1 \in Nat
    BY DEF TypeOK
  <2> QED  BY <2>1, YoungerFacts DEF Younger
<1> QED  BY <1>1 DEF CountedIsRecent, NoCounts

LEMMA CountedStep == Inv /\ Inv' /\ CountedIsRecent /\ [Next]_vars => CountedIsRecent'
<1> SUFFICES ASSUME Inv, Inv', CountedIsRecent, [Next]_vars
             PROVE  CountedIsRecent'
  OBVIOUS
<1>0. /\ recent \in [Ages -> Nat] /\ breaker \in Breakers
      /\ breaker.age \in Nat /\ breaker.counts.failures \in Nat
      /\ breaker.counts.consecutive \in Nat
  BY DEF Inv, TypeOK, Breakers, Counts
<1>1. CASE Call
  <2>1. CASE Current(breaker) = breaker
    BY <1>1, <2>1, CallEffect DEF CountedIsRecent, Younger
  <2>2. CASE Current(breaker) # breaker
    <3>1. /\ Current(breaker).counts.failures = 0
          /\ Current(breaker).counts.consecutive = 0
      BY <2>2, CurrentCases DEF Generation, NoCounts
    <3>2. Younger(recent, breaker.age + 1)' \in Nat
      <4>1. recent' \in [Ages -> Nat] /\ breaker'.age + 1 \in Nat
        BY DEF Inv, TypeOK
      <4> QED  BY <4>1, YoungerFacts DEF Younger
    <3> QED  BY <1>1, <3>1, <3>2, CallEffect DEF CountedIsRecent
  <2> QED  BY <2>1, <2>2
<1>2. CASE Fails
  <2>1. Ends("failure") /\ recent' = [recent EXCEPT ![0] = @ + 1]
    BY <1>2 DEF Fails
  <2>2. CASE breaker' \in {Generation("closed"), Generation("open")}
    <3>1. breaker'.counts = NoCounts
      BY <2>2 DEF Generation
    <3> QED  BY <3>1, CountsAfresh DEF Inv
  <2>3. CASE /\ breaker.state = "closed" /\ breaker.age <= Interval
             /\ breaker'.state = "closed" /\ breaker'.age = breaker.age
             /\ breaker'.counts.consecutive = breaker.counts.consecutive + 1
             /\ breaker'.counts.failures = breaker.counts.failures + 1
    <3>1. Younger(recent', breaker.age + 1) = Younger(recent, breaker.age + 1) + 1
      <4>1. breaker.age + 1 \in Nat /\ breaker.age + 1 # 0
        BY <1>0
      <4> QED  BY <1>0, <2>1, <4>1, FailureCounts
    <3>2. Younger(recent, breaker.age + 1) \in Nat
      BY <1>0, YoungerFacts
    <3>3. breaker.counts.failures <= Younger(recent, breaker.age + 1)
      BY <2>3 DEF CountedIsRecent
    <3>4. Younger(recent, breaker.age + 1)' = Younger(recent', breaker.age + 1)
      BY <2>3 DEF Younger
    <3> QED  BY <1>0, <2>3, <3>1, <3>2, <3>3, <3>4 DEF CountedIsRecent
  <2> QED  BY <2>1, <2>2, <2>3, EndEffect, FailedEffect
<1>3. CASE Succeeds
  <2>1. Ends("success") /\ recent' = recent
    BY <1>3 DEF Succeeds
  <2>2. CASE breaker' = Generation("closed")
    <3>1. breaker'.counts = NoCounts
      BY <2>2 DEF Generation
    <3> QED  BY <3>1, CountsAfresh DEF Inv
  <2>3. CASE breaker' = Succeeded(breaker) /\ breaker.state \in {"closed", "half-open"}
    <3>1. Younger(recent, breaker.age + 1)' \in Nat
      <4>1. recent' \in [Ages -> Nat] /\ breaker'.age + 1 \in Nat
        BY DEF Inv, TypeOK
      <4> QED  BY <4>1, YoungerFacts DEF Younger
    <3>2. /\ breaker'.counts.consecutive = 0
          /\ \/ breaker'.counts.failures = 0
             \/ /\ breaker.state = "closed" /\ breaker'.age = breaker.age
                /\ breaker'.counts.failures = breaker.counts.failures
      BY <1>0, <2>3, SucceededEffect
    <3>3. CASE breaker'.counts.failures = 0
      BY <3>1, <3>2, <3>3 DEF CountedIsRecent
    <3>4. CASE /\ breaker.state = "closed" /\ breaker'.age = breaker.age
               /\ breaker'.counts.failures = breaker.counts.failures
      BY <1>0, <2>1, <3>2, <3>4 DEF CountedIsRecent, Younger
    <3> QED  BY <3>2, <3>3, <3>4
  <2> QED  BY <2>1, <2>2, <2>3, EndEffect
<1>4. CASE Cancelled
  <2>1. Ends("cancelled") /\ recent' = recent
    BY <1>4 DEF Cancelled, History
  <2>2. CASE breaker' = Generation("closed")
    <3>1. breaker'.counts = NoCounts
      BY <2>2 DEF Generation
    <3> QED  BY <3>1, CountsAfresh DEF Inv
  <2>3. CASE breaker' = breaker
    BY <2>1, <2>3 DEF CountedIsRecent, Younger
  <2> QED  BY <2>1, <2>2, <2>3, EndEffect
<1>5. CASE Tick
  <2>1. recent' = Older(recent)
    BY <1>5 DEF Tick
  <2>2. CASE breaker.state = "closed" /\ breaker'.age = breaker.age + 1
             /\ breaker'.age <= Interval
    <3>1. Younger(Older(recent), breaker.age + 1 + 1)
            = Younger(recent, breaker.age + 1)
      BY <1>0, <2>2, OlderCounts, BreakerAssumption
    <3>2. Younger(recent, breaker.age + 1)'
            = Younger(Older(recent), breaker.age + 1 + 1)
      BY <2>1, <2>2 DEF Younger
    <3> QED
      BY <1>0, <1>5, <2>2, <3>1, <3>2, TickEffect, BreakerAssumption
      DEF CountedIsRecent
  <2>3. CASE ~(breaker.state = "closed" /\ breaker'.age <= Interval)
    BY <1>0, <1>5, <2>3, TickEffect DEF CountedIsRecent
  <2> QED  BY <1>0, <1>5, <2>2, <2>3, TickEffect, BreakerAssumption
<1>6. CASE TakeUp \/ GiveUp \/ Stop \/ UNCHANGED vars
  BY <1>6 DEF TakeUp, GiveUp, Stop, vars, History, CountedIsRecent, Younger
<1> QED  BY <1>1, <1>2, <1>3, <1>4, <1>5, <1>6 DEF Next, Answer

LEMMA AlwaysCounted == Spec => [](Inv /\ CountedIsRecent)
<1>1. Init => CountedIsRecent
  <2> SUFFICES ASSUME Init PROVE CountedIsRecent
    OBVIOUS
  <2>1. Younger(Nothing, breaker.age + 1) = 0
    BY NothingCounts DEF Init, Generation
  <2> QED  BY <2>1 DEF Init, Generation, NoCounts, CountedIsRecent
<1>2. Inv /\ Inv' /\ CountedIsRecent /\ [Next]_vars => CountedIsRecent'
  BY CountedStep
<1> QED  BY <1>1, <1>2, AlwaysInv, PTL DEF Spec

\* The breaker trips on failures of the window it counts them in: when it
\* opens, at least Trip calls failed within one interval, whatever was counted
\* or forgotten before.
THEOREM TrippedOnEvidence ==
  ASSUME MajorityIsEvidence
  PROVE  Spec => TripsOnFreshEvidence
<1>1. ASSUME Inv, CountedIsRecent, [Next]_vars,
             breaker.state = "closed", breaker'.state = "open"
      PROVE  Total(recent') >= Trip
  <2> DEFINE f == breaker.counts.failures
             n == breaker.age + 1
  <2>0. /\ recent \in [Ages -> Nat] /\ breaker \in Breakers
        /\ breaker.age \in Nat /\ f \in Nat /\ n \in Nat
        /\ breaker.counts.consecutive \in Nat
    BY <1>1 DEF Inv, TypeOK, Breakers, Counts
  <2>1. Fails
    <3>1. ~Call
      BY <1>1, <2>0, CallEffect, CurrentShape
    <3>2. ~Succeeds
      BY <1>1, <2>0, EndEffect, SucceededEffect DEF Succeeds, Generation
    <3>3. ~Cancelled
      BY <1>1, EndEffect DEF Cancelled, Generation
    <3>4. ~Tick
      BY <1>1, TickEffect
    <3> QED
      BY <1>1, <3>1, <3>2, <3>3, <3>4
      DEF Next, Answer, TakeUp, GiveUp, Stop, vars
  <2>2. /\ breaker.age <= Interval /\ breaker' = Failed(breaker)
        /\ recent' = [recent EXCEPT ![0] = @ + 1]
    <3>1. Generation("closed").state = "closed"
      BY DEF Generation
    <3> QED  BY <1>1, <2>1, <3>1, EndEffect DEF Fails
  <2>3. f + 1 >= Trip
    <3>1. \/ breaker.counts.consecutive + 1 >= Trip
          \/ 2 * (f + 1) > MinVolume
      BY <1>1, <2>0, <2>2, FailedEffect
    <3>2. breaker.counts.consecutive <= f
      BY <1>1 DEF CountedIsRecent
    <3> QED
      BY <2>0, <3>1, <3>2, MajorityIsEvidence, BreakerAssumption
      DEF MajorityIsEvidence
  <2>4. f <= Younger(recent, n)
    BY <1>1, <2>2 DEF CountedIsRecent
  <2>5. /\ Younger(recent, n) <= Total(recent)
        /\ Younger(recent, n) \in Nat /\ Total(recent) \in Nat
        /\ Total(recent') = Total(recent) + 1
    <3> HIDE DEF n
    <3> QED  BY <2>0, <2>2, YoungerFacts, FailureCounts
  <2> QED  BY <2>0, <2>3, <2>4, <2>5, BreakerAssumption
<1>2. Inv /\ CountedIsRecent /\ [Next]_vars
        => [breaker.state = "closed" /\ breaker'.state = "open"
              => Total(recent') >= Trip]_vars
  BY <1>1
<1> QED  BY <1>2, AlwaysCounted, PTL DEF Spec, TripsOnFreshEvidence

-----------------------------------------------------------------------------
(***************************************************************************)
(* The failures of a streak that are still remembered are those of the     *)
(* generation at hand, at most one of the tick it began in, and those of   *)
(* the generation before, too few to trip it: PressureIsBounded is not     *)
(* inductive, but what is younger than the generation is bounded by what   *)
(* it counted, and everything older is forgotten when it expires.  An      *)
(* open breaker lets no call through, and outlasts what it remembers.      *)
(***************************************************************************)
Pressed ==
  /\ breaker.state = "closed" =>
       /\ breaker.counts.consecutive < Trip
       /\ Younger(inARow, breaker.age) <= breaker.counts.consecutive
       /\ Total(inARow) <= breaker.counts.consecutive + Trip
  /\ breaker.state = "open" =>
       /\ Younger(inARow, breaker.age) = 0
       /\ Total(inARow) <= 2 * Trip
  /\ breaker.state = "half-open" => Total(inARow) = 0

\* A failure is forgotten before an open breaker lets its next call through.
CooldownOutlastsWindow == Interval <= Cooldown

\* A generation of the breaker that begins with a given number of failures.
LEMMA PressedAfresh ==
  ASSUME TypeOK', NEW s \in States, breaker' = Generation(s),
         s = "closed" => Total(inARow') <= Trip,
         s = "open" => Total(inARow') <= 2 * Trip,
         s = "half-open" => Total(inARow') = 0
  PROVE  Pressed'
<1>1. Younger(inARow', 0) = 0
  BY YoungerFacts DEF TypeOK
<1>2. breaker'.state = s /\ breaker'.age = 0 /\ breaker'.counts.consecutive = 0
  BY DEF Generation, NoCounts
<1>3. Younger(inARow, breaker.age)' = 0 /\ Total(inARow)' = Total(inARow')
  BY <1>1, <1>2 DEF Younger, Total
<1> QED  BY <1>2, <1>3, BreakerAssumption DEF Pressed

LEMMA PressedStep ==
  ASSUME CooldownOutlastsWindow, Inv, Inv', Pressed, [Next]_vars
  PROVE  Pressed'
<1>0. /\ inARow \in [Ages -> Nat] /\ breaker \in Breakers
      /\ inARow' \in [Ages -> Nat] /\ TypeOK'
      /\ breaker.age \in Nat /\ breaker.counts.consecutive \in Nat
      /\ Younger(inARow, breaker.age) \in Nat /\ Total(inARow) \in Nat
      /\ breaker.age > Interval => Younger(inARow, breaker.age) = Total(inARow)
  <2>1. /\ inARow \in [Ages -> Nat] /\ breaker \in Breakers
        /\ inARow' \in [Ages -> Nat] /\ TypeOK'
        /\ breaker.age \in Nat /\ breaker.counts.consecutive \in Nat
    BY DEF Inv, TypeOK, Breakers, Counts
  <2> QED  BY <2>1, YoungerFacts
<1>1. CASE Call
  <2>1. CASE Current(breaker) = breaker
    BY <1>1, <2>1, CallEffect DEF Pressed, Younger, Total
  <2>2. CASE Current(breaker) # breaker
    <3>1. /\ breaker'.age = 0 /\ breaker'.counts.consecutive = 0
          /\ \/ breaker.state = "closed" /\ breaker'.state = "closed"
             \/ breaker.state = "open" /\ breaker'.state = "half-open"
          /\ breaker.age > Interval
      BY <1>0, <1>1, <2>2, CallEffect, CurrentCases, BreakerAssumption
      DEF Generation, NoCounts, CooldownOutlastsWindow
    <3>2. Younger(inARow', 0) = 0
      BY <1>0, YoungerFacts
    <3>3. Younger(inARow, breaker.age)' = 0 /\ Total(inARow)' = Total(inARow)
      BY <1>1, <3>1, <3>2, CallEffect DEF Younger, Total
    <3> QED  BY <1>0, <3>1, <3>3, BreakerAssumption DEF Pressed
  <2> QED  BY <2>1, <2>2
<1>2. CASE Fails
  <2>1. Ends("failure") /\ inARow' = [inARow EXCEPT ![0] = @ + 1]
    BY <1>2 DEF Fails
  <2>2. /\ Total(inARow') = Total(inARow) + 1
        /\ Younger(inARow', breaker.age) =
              IF breaker.age = 0 THEN 0 ELSE Younger(inARow, breaker.age) + 1
    BY <1>0, <2>1, FailureCounts
  <2>3. CASE /\ breaker.state = "closed" /\ breaker.age > Interval
             /\ breaker' = Generation("closed")
    <3>1. Total(inARow') <= Trip
      BY <1>0, <2>2, <2>3, BreakerAssumption DEF Pressed
    <3> QED  BY <1>0, <2>3, <3>1, PressedAfresh DEF States
  <2>4. CASE /\ breaker.state \in {"closed", "half-open"}
             /\ breaker' = Generation("open")
    <3>1. Total(inARow') <= 2 * Trip
      BY <1>0, <2>2, <2>4, BreakerAssumption DEF Pressed
    <3> QED  BY <1>0, <2>4, <3>1, PressedAfresh DEF States
  <2>5. CASE /\ breaker.state = "closed"
             /\ breaker'.state = "closed" /\ breaker'.age = breaker.age
             /\ breaker.counts.consecutive + 1 < Trip
             /\ breaker'.counts.consecutive = breaker.counts.consecutive + 1
    <3>1. /\ Younger(inARow, breaker.age)' = Younger(inARow', breaker.age)
          /\ Total(inARow)' = Total(inARow) + 1
      BY <2>2, <2>5 DEF Younger, Total
    <3> QED  BY <1>0, <2>2, <2>5, <3>1, BreakerAssumption DEF Pressed
  <2> QED  BY <2>1, <2>3, <2>4, <2>5, EndEffect, FailedEffect
<1>3. CASE Succeeds
  <2>1. Ends("success") /\ inARow' = Nothing
    BY <1>3 DEF Succeeds
  <2>2. breaker'.state = "closed" /\ breaker'.counts.consecutive = 0
    BY <2>1, EndEffect, SucceededEffect DEF Generation, NoCounts
  <2>3. Total(Nothing) = 0 /\ \A n \in Nat : Younger(Nothing, n) = 0
    BY NothingCounts
  <2>4. breaker'.age \in Nat
    BY <1>0 DEF TypeOK
  <2>5. Total(inARow)' = 0 /\ Younger(inARow, breaker.age)' = 0
    BY <2>1, <2>3, <2>4 DEF Younger, Total
  <2> QED  BY <2>2, <2>5, BreakerAssumption DEF Pressed
<1>4. CASE Cancelled
  <2>1. Ends("cancelled") /\ inARow' = inARow
    BY <1>4 DEF Cancelled, History
  <2>2. CASE /\ breaker.state = "closed" /\ breaker.age > Interval
             /\ breaker' = Generation("closed")
    <3>1. Total(inARow') <= Trip
      BY <1>0, <2>1, <2>2, BreakerAssumption DEF Pressed
    <3> QED  BY <1>0, <2>2, <3>1, PressedAfresh DEF States
  <2>3. CASE breaker' = breaker
    BY <2>1, <2>3 DEF Pressed, Younger, Total
  <2> QED  BY <2>1, <2>2, <2>3, EndEffect
<1>5. CASE Tick
  <2>1. /\ inARow' = Older(inARow)
        /\ breaker'.state = breaker.state /\ breaker'.counts = breaker.counts
    BY <1>5, TickEffect DEF Tick
  <2>2. /\ Total(inARow') \in Nat /\ Total(inARow') <= Total(inARow)
        /\ Total(inARow)' = Total(inARow')
    BY <1>0, <2>1, OlderCounts, YoungerFacts DEF Total
  <2>3. breaker.state # "half-open"
           => Younger(inARow, breaker.age)' <= Younger(inARow, breaker.age)
    <3>1. CASE breaker.age > Interval
      <4>1. Younger(inARow, breaker.age)' <= Total(inARow')
        <5>1. breaker'.age \in Nat
          BY <1>0 DEF TypeOK
        <5>2. Younger(inARow', breaker'.age) <= Total(inARow')
          BY <1>0, <5>1, YoungerFacts
        <5> QED  BY <5>2 DEF Younger
      <4>2. Younger(inARow, breaker.age)' \in Nat
        <5>1. breaker'.age \in Nat
          BY <1>0 DEF TypeOK
        <5> QED  BY <1>0, <5>1, YoungerFacts DEF Younger
      <4> QED  BY <1>0, <2>2, <3>1, <4>1, <4>2
    <3>2. CASE breaker.age <= Interval /\ breaker.state # "half-open"
      <4>1. breaker'.age = breaker.age + 1
        BY <1>0, <1>5, <3>2, TickEffect, BreakerAssumption
        DEF CooldownOutlastsWindow
      <4>2. Younger(Older(inARow), breaker.age + 1) = Younger(inARow, breaker.age)
        BY <1>0, <3>2, OlderCounts
      <4>3. Younger(inARow, breaker.age)' = Younger(inARow, breaker.age)
        BY <2>1, <4>1, <4>2 DEF Younger
      <4> QED  BY <1>0, <4>3
    <3> QED  BY <1>0, <3>1, <3>2, BreakerAssumption
  <2>4. Younger(inARow, breaker.age)' \in Nat
    <3>1. breaker'.age \in Nat
      BY <1>0 DEF TypeOK
    <3> QED  BY <1>0, <3>1, YoungerFacts DEF Younger
  <2> QED
    BY <1>0, <2>1, <2>2, <2>3, <2>4, BreakerAssumption DEF Pressed
<1>6. CASE TakeUp \/ GiveUp \/ Stop \/ UNCHANGED vars
  BY <1>6
  DEF TakeUp, GiveUp, Stop, vars, History, Pressed, Younger, Total
<1> QED  BY <1>1, <1>2, <1>3, <1>4, <1>5, <1>6 DEF Next, Answer

\* However an order-management that is down is asked, by windows that expire
\* in the middle of a streak or by probes, the failures remembered of one
\* streak never exceed two windows' worth.
THEOREM PressureStaysBounded ==
  ASSUME CooldownOutlastsWindow
  PROVE  Spec => []PressureIsBounded
<1>1. Init => Pressed
  <2> SUFFICES ASSUME Init PROVE Pressed
    OBVIOUS
  <2>1. Total(inARow) = 0 /\ Younger(inARow, 0) = 0
    BY NothingCounts DEF Init
  <2> QED
    BY <2>1, BreakerAssumption DEF Init, Generation, NoCounts, Pressed
<1>2. Inv /\ Inv' /\ Pressed /\ [Next]_vars => Pressed'
  BY PressedStep
<1>3. Inv /\ Pressed => PressureIsBounded
  <2> SUFFICES ASSUME Inv, Pressed PROVE Total(inARow) <= 2 * Trip
    BY DEF PressureIsBounded
  <2>1. /\ breaker.state \in States /\ breaker.counts.consecutive \in Nat
        /\ Total(inARow) \in Nat
    BY YoungerFacts DEF Inv, TypeOK, Counts
  <2> QED  BY <2>1, BreakerAssumption DEF Pressed, States
<1> QED  BY <1>1, <1>2, <1>3, AlwaysInv, PTL DEF Spec
=============================================================================
