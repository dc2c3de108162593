------------------------------- MODULE Poller -------------------------------
(***************************************************************************)
(* The poller's watermark, against a network that honours it.              *)
(*                                                                         *)
(* pollOnce asks the gateway for the demand accepted since the watermark,  *)
(* hands each unit to the use case, and moves the watermark only after a   *)
(* pass in which nothing failed.  The stub gateway ignores the watermark   *)
(* (NetworkIntake models that deployment); this module is about the        *)
(* contract of ports.NetworkGateway, where a watermark moved too far loses *)
(* an order.  Host runs the poller inside its process.                     *)
(***************************************************************************)
EXTENDS Naturals

CONSTANTS
  Demands,     \* units of demand the network may accept
  MaxTime      \* bound of the clock

ASSUME PollerAssumption == MaxTime \in Nat

VARIABLES
  now,         \* the clock, ours and the network's
  acceptedAt,  \* when the network accepted each unit
  settled,     \* units the use case took, or the network has an answer for
  since,       \* Poller.since: the watermark of the next poll
  pass,        \* the locals of pollOnce
  poller,      \* the goroutine that runs Poller.Run
  cancelled    \* the context the poller runs under is done

networkVars == <<now, acceptedAt, settled>>
pollerVars == <<networkVars, since, pass, poller, cancelled>>

\* Not accepted yet: later than any instant of the clock.
Never == MaxTime + 1

Instants == 0..MaxTime

Pass == [pc : {"idle", "calling", "returning", "handing", "executing"},
         asked : Instants, started : Instants,
         todo : SUBSET Demands, inHand : SUBSET Demands, failed : BOOLEAN]

NoPass == [pc |-> "idle", asked |-> 0, started |-> 0,
           todo |-> {}, inHand |-> {}, failed |-> FALSE]

\* Config.Since is left at its zero value: a process asks for everything.
ColdStart == 0

PollerInit ==
  /\ now = 0
  /\ acceptedAt = [d \in Demands |-> Never]
  /\ settled = {}
  /\ since = ColdStart
  /\ pass = NoPass
  /\ poller = "off"
  /\ cancelled = FALSE

-----------------------------------------------------------------------------
\* The network.

Tick ==
  /\ now < MaxTime
  /\ now' = now + 1
  /\ UNCHANGED <<acceptedAt, settled, since, pass, poller, cancelled>>

Accept(d) ==
  /\ acceptedAt[d] = Never
  /\ acceptedAt' = [acceptedAt EXCEPT ![d] = now]
  /\ UNCHANGED <<now, settled, since, pass, poller, cancelled>>

\* What the network still considers outstanding of the demand it accepted at
\* the given instant or later.
Outstanding(t) ==
  {d \in Demands : acceptedAt[d] \in t..MaxTime /\ d \notin settled}

-----------------------------------------------------------------------------
\* pollOnce.

\* What the watermark moves to: pollStartedAt, read before the call, so that
\* demand accepted during the call is not behind it.
ReadAfterTheCall == now    \* the mutant of PollStartedAt

PollStartedAt == pass.started

\* Nothing failed in the batch, its last unit included.
LastUnitPassed(ok) == ok    \* the mutant of NothingFailed

NothingFailed(ok) == ~pass.failed /\ ok

\* Both reads come before the call.  Run selects between the
\* ticker and the done context at random, so a pass may still start after
\* the context is done.
StartPass ==
  /\ poller = "running"
  /\ pass = NoPass
  /\ pass' = [NoPass EXCEPT !.pc = "calling", !.asked = since, !.started = now]
  /\ UNCHANGED <<networkVars, since, poller, cancelled>>

\* The network answers the call with what is outstanding at that moment; the
\* reply is still under way.
PollIsServed ==
  /\ pass.pc = "calling"
  /\ pass' = [pass EXCEPT !.pc = "returning", !.todo = Outstanding(pass.asked)]
  /\ UNCHANGED <<networkVars, since, poller, cancelled>>

\* The call fails, whether the network served it or not.
PollFails ==
  /\ pass.pc = "returning"
  /\ pass' = NoPass
  /\ UNCHANGED <<networkVars, since, poller, cancelled>>

\* With no demand the pass is over and the watermark moves to its start.
PollReturns ==
  /\ pass.pc = "returning"
  /\ IF pass.todo = {}
       THEN since' = PollStartedAt /\ pass' = NoPass
       ELSE pass' = [pass EXCEPT !.pc = "handing"] /\ UNCHANGED since
  /\ UNCHANGED <<networkVars, poller, cancelled>>

TakeUnit(d) ==
  /\ pass.pc = "handing"
  /\ d \in pass.todo
  /\ ~cancelled
  /\ pass' = [pass EXCEPT !.pc = "executing", !.inHand = {d},
                          !.todo = @ \ {d}]
  /\ UNCHANGED <<networkVars, since, poller, cancelled>>

Abandon ==
  /\ pass.pc = "handing"
  /\ cancelled
  /\ pass' = NoPass
  /\ UNCHANGED <<networkVars, since, poller, cancelled>>

\* Execute returns.  Without an error the unit is settled; with one it may be
\* too (a release that fails after the network has its answer).  After the
\* last unit of the batch the watermark moves if nothing failed.
UnitReturns(d, ok) ==
  LET last == pass.todo = {} IN
  /\ pass.pc = "executing"
  /\ d \in pass.inHand
  /\ \/ settled' = settled \cup {d}
     \/ ~ok /\ UNCHANGED settled
  /\ since' = IF last /\ NothingFailed(ok) THEN PollStartedAt ELSE since
  /\ pass' = IF last THEN NoPass
             ELSE [pass EXCEPT !.pc = "handing", !.inHand = {},
                               !.failed = ~NothingFailed(ok)]
  /\ UNCHANGED <<now, acceptedAt, poller, cancelled>>

\* Run returns once it sees that its context is done.
PollerExits ==
  /\ poller = "running"
  /\ pass = NoPass
  /\ cancelled
  /\ poller' = "done"
  /\ UNCHANGED <<networkVars, since, pass, cancelled>>

NetworkStep == Tick \/ \E d \in Demands : Accept(d)

PollStep ==
  \/ PollIsServed
  \/ PollFails
  \/ PollReturns
  \/ \E d \in Demands : TakeUnit(d)
  \/ Abandon
  \/ \E d \in Demands, ok \in BOOLEAN : UnitReturns(d, ok)

PollerStep == StartPass \/ PollStep \/ PollerExits

-----------------------------------------------------------------------------
PollerTypeOK ==
  /\ now \in Instants
  /\ acceptedAt \in [Demands -> Instants \cup {Never}]
  /\ settled \subseteq Demands
  /\ since \in Instants
  /\ pass \in Pass
  /\ poller \in {"off", "running", "done"}
  /\ cancelled \in BOOLEAN

\* The watermark loses nothing: of the demand accepted before it, which the
\* network will not list again, every unit was taken by the use case or
\* answered, whatever arrived during a poll, failed or was abandoned in the
\* middle of a batch.
NothingSkipped ==
  \A d \in Demands : acceptedAt[d] < since => d \in settled

\* Demand the network accepted reaches the use case in the end, over
\* restarts, failed polls and failed units.
DemandIsHandedOver ==
  \A d \in Demands :
    (acceptedAt[d] # Never) ~> d \in settled
=============================================================================
