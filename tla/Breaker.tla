------------------------------- MODULE Breaker ------------------------------
(***************************************************************************)
(* The circuit breaker in front of order-management.                       *)
(*                                                                         *)
(* BreakerClient passes the three calls of a unit of demand through one    *)
(* gobreaker: the raise, and after a successful raise the release or the   *)
(* cancel that follows it.  Only the poller's goroutine makes such calls,  *)
(* one unit after another (the sweep finds no hold to cancel, see          *)
(* LocalRequiresAnswer in NetworkIntake), so at most one call is under     *)
(* way.  Time is counted in units of the HTTP client's timeout.            *)
(***************************************************************************)
EXTENDS Integers, Functions

CONSTANTS
  CallLimit,    \* the longest a call takes, see NewPlanner and CallTimeout
  Interval,     \* DefaultInterval
  Cooldown,     \* DefaultTimeout, as the breaker's Timeout
  Trip,         \* the consecutive failures of ReadyToTrip
  MinVolume,    \* minRequestVolumeForErrorRate
  MaxVolume     \* bound: the calls counted in one window

ASSUME BreakerAssumption ==
  /\ CallLimit \in Nat \ {0}
  /\ Interval \in Nat \ {0}
  /\ Cooldown \in Nat \ {0}
  /\ Trip \in Nat \ {0}
  /\ MinVolume \in Nat \ {0}
  /\ MaxVolume \in Nat

VARIABLES
  breaker,    \* gobreaker.CircuitBreaker
  unit,       \* where the unit of demand in hand is
  waited,     \* how long its call has been under way
  cancelled,  \* the context of the poller is done
  recent,     \* history: failed calls by the time since they failed
  inARow,     \* history: those of them with no success after them
  refused     \* history: a call has failed before its time was up

vars == <<breaker, unit, waited, cancelled, recent, inARow, refused>>
History == <<recent, inARow, refused>>

States == {"closed", "open", "half-open"}

\* gobreaker.Counts, as far as ReadyToTrip reads it.
Counts == [requests : Nat, failures : Nat, consecutive : Nat]

NoCounts == [requests |-> 0, failures |-> 0, consecutive |-> 0]

\* Every change of state and every new window starts a generation, with
\* nothing counted; its age runs to the expiry.
Generation(s) == [state |-> s, counts |-> NoCounts, age |-> 0]

Ages == 0..Interval

Nothing == [a \in Ages |-> 0]

Init ==
  /\ breaker = Generation("closed")
  /\ unit = "idle"
  /\ waited = 0
  /\ cancelled = FALSE
  /\ recent = Nothing
  /\ inARow = Nothing
  /\ refused = FALSE

-----------------------------------------------------------------------------
\* Mutant: one failure too many.
TripsLate(counts) ==
  \/ counts.consecutive > Trip
  \/ counts.requests >= MinVolume /\ 2 * counts.failures > counts.requests

ReadyToTrip(counts) ==
  \/ counts.consecutive >= Trip
  \/ counts.requests >= MinVolume /\ 2 * counts.failures > counts.requests

\* Mutant: closed windows do not end.
WindowNeverEnds(b) ==
  IF b.state = "open" /\ b.age > Cooldown THEN Generation("half-open") ELSE b

\* gobreaker looks at the expiry of a generation when a call begins or ends.
Current(b) ==
  CASE b.state = "closed" /\ b.age > Interval -> Generation("closed")
    [] b.state = "open" /\ b.age > Cooldown -> Generation("half-open")
    [] OTHER -> b

\* DefaultMaxRequests probes, one, are let through a half-open breaker.
Refuses(b) ==
  \/ b.state = "open"
  \/ b.state = "half-open" /\ b.counts.requests >= 1

Succeeded(b) ==
  IF b.state = "half-open" THEN Generation("closed")
  ELSE [b EXCEPT !.counts.consecutive = 0]

OneMoreFailure(c) ==
  [requests |-> c.requests,
   failures |-> c.failures + 1, consecutive |-> c.consecutive + 1]

Failed(b) ==
  LET counts == OneMoreFailure(b.counts)
  IN  IF b.state = "half-open" \/ ReadyToTrip(counts) THEN Generation("open")
      ELSE [b EXCEPT !.counts = counts]

\* Mutant: a cancelled call counts as a failure.
NothingExcluded(b, outcome) ==
  IF Current(b) # b THEN Current(b)
  ELSE IF outcome = "success" THEN Succeeded(b) ELSE Failed(b)

\* Mutant: a call that ran out of time is not counted either.
TimeoutsExcluded(b, outcome) ==
  IF Current(b) # b THEN Current(b)
  ELSE CASE outcome = "success" -> Succeeded(b)
         [] outcome = "failure" /\ waited < CallLimit -> Failed(b)
         [] OTHER -> b

\* The end of a call.  One begun in an earlier generation tells nothing of
\* this one; one given up by its caller (IsExcluded) tells nothing at all.
AfterRequest(b, outcome) ==
  IF Current(b) # b THEN Current(b)
  ELSE CASE outcome = "success" -> Succeeded(b)
         [] outcome = "failure" -> Failed(b)
         [] OTHER -> b

-----------------------------------------------------------------------------
\* The poller takes up demand; its first call is the raise.
TakeUp ==
  /\ unit = "idle" /\ ~cancelled
  /\ unit' = "raise"
  /\ UNCHANGED <<breaker, waited, cancelled, History>>

\* Between its two calls a unit may fail elsewhere, and ends.
GiveUp ==
  /\ unit = "follow"
  /\ unit' = "idle"
  /\ UNCHANGED <<breaker, waited, cancelled, History>>

\* Mutant: the raise goes around the breaker.
RaiseUnguarded ==
  LET b == Current(breaker) IN
  /\ unit \in {"raise", "follow"}
  /\ IF unit = "follow" /\ Refuses(b)
       THEN unit' = "idle" /\ breaker' = b
       ELSE /\ b.counts.requests < MaxVolume
            /\ unit' = IF unit = "raise" THEN "raising" ELSE "following"
            /\ breaker' = [b EXCEPT !.counts.requests = @ + 1]
  /\ UNCHANGED <<waited, cancelled, History>>

\* Execute lets the call through or refuses it with ErrCircuitOpen, which
\* ends the unit.
Call ==
  LET b == Current(breaker) IN
  /\ unit \in {"raise", "follow"}
  /\ IF Refuses(b)
       THEN unit' = "idle" /\ breaker' = b
       ELSE /\ b.counts.requests < MaxVolume
            /\ unit' = IF unit = "raise" THEN "raising" ELSE "following"
            /\ breaker' = [b EXCEPT !.counts.requests = @ + 1]
  /\ UNCHANGED <<waited, cancelled, History>>

InFlight == unit \in {"raising", "following"}

\* A successful raise is followed by the release or the cancel; any error
\* ends the unit.
Ends(outcome) ==
  /\ InFlight
  /\ breaker' = AfterRequest(breaker, outcome)
  /\ unit' = IF unit = "raising" /\ outcome = "success"
             THEN "follow" ELSE "idle"
  /\ waited' = 0
  /\ UNCHANGED cancelled

Succeeds ==
  /\ Ends("success")
  /\ inARow' = Nothing
  /\ UNCHANGED <<recent, refused>>

\* A refusal may come at once; a call that hangs fails when its time is up.
Fails ==
  /\ Ends("failure")
  /\ recent' = [recent EXCEPT ![0] = @ + 1]
  /\ inARow' = [inARow EXCEPT ![0] = @ + 1]
  /\ refused' = (refused \/ waited < CallLimit)

\* context.Canceled, once the process is being stopped.
Cancelled ==
  /\ cancelled
  /\ Ends("cancelled")
  /\ UNCHANGED History

Stop ==
  /\ ~cancelled
  /\ cancelled' = TRUE
  /\ UNCHANGED <<breaker, unit, waited, History>>

-----------------------------------------------------------------------------
Older(bag) == [a \in Ages |-> IF a = 0 THEN 0 ELSE bag[a - 1]]

\* A call under way never outlasts its limit: the HTTP client's ten seconds,
\* shorter than the cap of CallTimeout.
WithinLimit == InFlight => waited < CallLimit

\* Time passes.  A half-open breaker has no expiry.
Tick ==
  /\ WithinLimit
  /\ waited' = IF InFlight THEN waited + 1 ELSE waited
  /\ breaker' = IF breaker.state = "half-open" \/ Current(breaker) # breaker
                THEN breaker ELSE [breaker EXCEPT !.age = @ + 1]
  /\ recent' = Older(recent)
  /\ inARow' = Older(inARow)
  /\ UNCHANGED <<unit, cancelled, refused>>

Answer == Succeeds \/ Fails \/ Cancelled

Next ==
  \/ TakeUp
  \/ GiveUp
  \/ Call
  \/ Answer
  \/ Stop
  \/ Tick

Spec == Init /\ [][Next]_vars

\* The clock runs, a call comes to its end and a unit goes on.
Fairness == WF_vars(Tick) /\ WF_vars(Call) /\ WF_vars(Answer)

FairSpec == Spec /\ Fairness

-----------------------------------------------------------------------------
\* Every variable keeps its shape: the counts stay natural, a call within its
\* limit.
TypeOK ==
  /\ breaker \in [state : States, counts : Counts, age : Nat]
  /\ unit \in {"idle", "raise", "raising", "follow", "following"}
  /\ waited \in 0..CallLimit
  /\ cancelled \in BOOLEAN
  /\ recent \in [Ages -> Nat]
  /\ inARow \in [Ages -> Nat]
  /\ refused \in BOOLEAN

\* What order-management was asked to hold it is also asked to release or
\* cancel: after a successful raise the breaker never turns the next call of
\* the unit away, whatever happened before and however long the commit
\* between the two takes.  An acknowledged order is not kept from the floor,
\* and a refused one does not keep its stock, for the breaker's sake.
FollowUpIsAttempted == unit = "follow" => ~Refuses(Current(breaker))

\* A half-open breaker turns everyone away but its probe, and has no expiry:
\* without a probe under way it would stay so for ever.  Only a cancelled
\* probe, at the end of the process, leaves it like that.
HalfOpenIsProbing ==
  breaker.state = "half-open" => InFlight \/ cancelled

Total(bag) == SumFunction(bag)

\* The breaker opens on fresh evidence only (the window of DefaultInterval):
\* at least as many calls as ReadyToTrip asks for failed within one interval,
\* none of them given up by its own caller.
TripsOnFreshEvidence ==
  [][breaker.state = "closed" /\ breaker'.state = "open"
       => Total(recent') >= Trip]_vars

\* While order-management answers nothing, its failures do not pile up: in any
\* interval it is asked no more than two windows' worth of times, over
\* windows that end in the middle of a streak and half-open probes.
PressureIsBounded == Total(inARow) <= 2 * Trip

\* The limit of what the breaker does: calls that hang until their timeout
\* are too slow for five of them to fall into one window, so an
\* order-management that only hangs is never cut off.
HangingIsNotCutOff == breaker.state # "closed" => refused

\* Once order-management answers again for good, and demand keeps coming,
\* the breaker closes and stays closed.
Recovers ==
  (<>[][~Fails]_vars /\ []<>(unit = "raise"))
    => <>[](breaker.state = "closed")
=============================================================================
