----------------------------- MODULE HostProofs -----------------------------
(***************************************************************************)
(* Theorems about the process of a pod and the poller in it: its types,    *)
(* the watermark that skips nothing, the order in which a stop closes      *)
(* things, and the budget of the boot retries.                             *)
(***************************************************************************)
EXTENDS Host, TLAPS

\* The steps of Host that leave the poller and the network as they are.
HostOnly ==
  \/ Migrate \/ AttemptFails
  \/ Alive /\ Goroutine
  \/ SetNotReady \/ CloseListener \/ Drained \/ RelayAwaited
  \/ PollerAwaited \/ PoolCloses
  \/ Expire \/ Ends

LEMMA HostOnlyFrame == HostOnly => UNCHANGED pollerVars
  BY DEF HostOnly, Migrate, AttemptFails, Goroutine, PassStarts, RequestArrives,
         Returns, SweepReturns, RelayReturns, RequestEnds, SetNotReady,
         CloseListener, Drained, RelayAwaited, PollerAwaited, PoolCloses,
         Expire, Ends

\* Every step is the network's, the poller's, one of three that start or
\* stop the poller, or leaves the poller alone.
LEMMA NextCases ==
  Next \/ UNCHANGED vars =>
    \/ NetworkStep /\ UNCHANGED hostVars
    \/ Alive /\ PollerStep /\ UNCHANGED hostVars
    \/ Serve
    \/ Signal
    \/ Restart
    \/ HostOnly
    \/ UNCHANGED vars
  BY DEF Next, MainStep, HostOnly

-----------------------------------------------------------------------------
(***************************************************************************)
(* Types.                                                                  *)
(***************************************************************************)
NumbersOK ==
  /\ boot \in RetryLocals
  /\ requests \in 0..MaxRequests
  /\ stops \in 0..MaxStops

FlagsOK ==
  /\ ready \in BOOLEAN
  /\ listening \in BOOLEAN
  /\ expired \in BOOLEAN

PlacesOK ==
  /\ phase \in Booting \cup {"serving"} \cup Stopping \cup Over
  /\ sweep \in {"off", "idle", "passing", "done"}
  /\ relay \in {"off", "idle", "passing", "done"}
  /\ pool \in {"none", "open", "closing", "closed"}
  /\ publisher \in {"none", "open", "closed"}

HostTypeOK == NumbersOK /\ FlagsOK /\ PlacesOK

LEMMA TypeOKParts == TypeOK <=> PollerTypeOK /\ HostTypeOK
  BY DEF TypeOK, HostTypeOK, NumbersOK, FlagsOK, PlacesOK

LEMMA FreshTypes == NoPass \in Pass /\ FirstAttempt \in RetryLocals
  BY PollerAssumption, HostAssumption
     DEF NoPass, Pass, Instants, FirstAttempt, RetryLocals

LEMMA TypeInit == Init => TypeOK
<1> SUFFICES ASSUME Init PROVE TypeOK
  OBVIOUS
<1>1. pass \in Pass /\ settled \subseteq Demands
  BY FreshTypes DEF Init, PollerInit
<1>2. now \in Instants /\ since \in Instants
  BY PollerAssumption DEF Init, PollerInit, Instants, ColdStart
<1>3. acceptedAt \in [Demands -> Instants \cup {Never}]
  BY DEF Init, PollerInit
<1>4. poller \in {"off", "running", "done"} /\ cancelled \in BOOLEAN
  BY DEF Init, PollerInit
<1>5. PollerTypeOK
  BY <1>1, <1>2, <1>3, <1>4 DEF PollerTypeOK
<1>6. NumbersOK
  BY HostAssumption, FreshTypes DEF Init, NumbersOK
<1>7. FlagsOK /\ PlacesOK
  BY DEF Init, FlagsOK, PlacesOK, Booting
<1> QED BY <1>5, <1>6, <1>7, TypeOKParts DEF HostTypeOK

LEMMA PollerTypeStep ==
  ASSUME PollerTypeOK, NetworkStep \/ PollerStep
  PROVE  PollerTypeOK'
<1> USE PollerAssumption, FreshTypes DEF Instants
<1>1. CASE Tick
  BY <1>1 DEF Tick, PollerTypeOK
<1>2. ASSUME NEW d \in Demands, Accept(d) PROVE PollerTypeOK'
  BY <1>2 DEF Accept, PollerTypeOK
<1>3. CASE StartPass
  BY <1>3 DEF StartPass, PollerTypeOK, Pass, networkVars
<1>4. CASE PollIsServed
  <2>1. Outstanding(pass.asked) \subseteq Demands
    BY DEF Outstanding
  <2> QED BY <1>4, <2>1 DEF PollIsServed, PollerTypeOK, Pass, networkVars
<1>5. CASE PollFails
  BY <1>5 DEF PollFails, PollerTypeOK, networkVars
<1>6. CASE PollReturns
  <2>1. since' \in Instants
    BY <1>6 DEF PollReturns, PollStartedAt, PollerTypeOK, Pass
  <2>2. pass' \in Pass
    BY <1>6 DEF PollReturns, PollStartedAt, PollerTypeOK, Pass
  <2> QED BY <1>6, <2>1, <2>2 DEF PollReturns, PollStartedAt, PollerTypeOK, networkVars
<1>7. ASSUME NEW d \in Demands, TakeUnit(d) PROVE PollerTypeOK'
  BY <1>7 DEF TakeUnit, PollerTypeOK, Pass, networkVars
<1>8. CASE Abandon
  BY <1>8 DEF Abandon, PollerTypeOK, networkVars
<1>9. ASSUME NEW d \in Demands, NEW ok \in BOOLEAN, UnitReturns(d, ok)
      PROVE  PollerTypeOK'
  <2>1. since' \in Instants
    BY <1>9 DEF UnitReturns, NothingFailed, PollStartedAt, PollerTypeOK, Pass
  <2>2. pass.failed \in BOOLEAN
    BY DEF PollerTypeOK, Pass
  <2>3. pass' \in Pass
    BY <1>9, <2>2 DEF UnitReturns, NothingFailed, PollStartedAt, PollerTypeOK, Pass
  <2>4. settled' \subseteq Demands
    BY <1>9 DEF UnitReturns, NothingFailed, PollStartedAt, PollerTypeOK
  <2> QED BY <1>9, <2>1, <2>3, <2>4 DEF UnitReturns, NothingFailed, PollStartedAt, PollerTypeOK
<1>10. CASE PollerExits
  BY <1>10 DEF PollerExits, PollerTypeOK, networkVars
<1> QED BY <1>1, <1>2, <1>3, <1>4, <1>5, <1>6, <1>7, <1>8, <1>9, <1>10
        DEF NetworkStep, PollerStep, PollStep

LEMMA HostTypeStep ==
  ASSUME HostTypeOK, HostOnly
  PROVE  HostTypeOK'
<1>t. NumbersOK /\ FlagsOK /\ PlacesOK
  BY DEF HostTypeOK
<1>0. CASE Migrate
  <2>1. NumbersOK'
    BY <1>0, <1>t, FreshTypes DEF Migrate, NumbersOK
  <2>2. FlagsOK' /\ PlacesOK'
    BY <1>0, <1>t DEF Migrate, FlagsOK, PlacesOK, Booting
  <2> QED BY <2>1, <2>2 DEF HostTypeOK
<1>1. CASE AttemptFails
  <2>1. NumbersOK'
    BY <1>1, <1>t, HostAssumption
       DEF AttemptFails, LastAttempt, NumbersOK, RetryLocals
  <2>2. FlagsOK'
    BY <1>1, <1>t DEF AttemptFails, FlagsOK
  <2>3. PlacesOK'
    BY <1>1, <1>t DEF AttemptFails, PlacesOK, Over
  <2> QED BY <2>1, <2>2, <2>3 DEF HostTypeOK
<1>2. CASE PassStarts \/ SweepReturns \/ RelayReturns
  BY <1>2, <1>t DEF PassStarts, SweepReturns, RelayReturns,
                    HostTypeOK, NumbersOK, FlagsOK, PlacesOK
<1>3. CASE RequestArrives \/ RequestEnds
  <2>1. NumbersOK'
    BY <1>3, <1>t, HostAssumption DEF RequestArrives, RequestEnds, NumbersOK
  <2>2. FlagsOK' /\ PlacesOK'
    BY <1>3, <1>t DEF RequestArrives, RequestEnds, FlagsOK, PlacesOK
  <2> QED BY <2>1, <2>2 DEF HostTypeOK
<1>4. CASE SetNotReady \/ CloseListener \/ Drained \/ RelayAwaited
           \/ PollerAwaited \/ PoolCloses \/ Expire
  <2>1. NumbersOK' /\ FlagsOK'
    BY <1>4, <1>t
       DEF SetNotReady, CloseListener, Drained, RelayAwaited, PollerAwaited,
           PoolCloses, Expire, NumbersOK, FlagsOK
  <2>2. PlacesOK'
    BY <1>4, <1>t
       DEF SetNotReady, CloseListener, Drained, RelayAwaited, PollerAwaited,
           PoolCloses, Expire, PlacesOK, Stopping, Over
  <2> QED BY <2>1, <2>2 DEF HostTypeOK
<1>5. CASE Ends
  <2>1. NumbersOK'
    BY <1>5, <1>t, HostAssumption DEF Ends, NumbersOK
  <2>2. FlagsOK' /\ PlacesOK'
    BY <1>5, <1>t DEF Ends, FlagsOK, PlacesOK, Over
  <2> QED BY <2>1, <2>2 DEF HostTypeOK
<1> QED BY <1>0, <1>1, <1>2, <1>3, <1>4, <1>5
        DEF HostOnly, Goroutine, Returns

LEMMA TypeStep == TypeOK /\ [Next]_vars => TypeOK'
<1> SUFFICES ASSUME TypeOK, [Next]_vars PROVE PollerTypeOK' /\ HostTypeOK'
  BY DEF TypeOK, HostTypeOK, NumbersOK, FlagsOK, PlacesOK
<1>t. PollerTypeOK /\ HostTypeOK /\ NumbersOK /\ FlagsOK /\ PlacesOK
  BY TypeOKParts DEF HostTypeOK
<1>f. ASSUME UNCHANGED hostVars PROVE HostTypeOK'
  BY <1>t, <1>f DEF hostVars, HostTypeOK, NumbersOK, FlagsOK, PlacesOK
<1>p. ASSUME UNCHANGED pollerVars PROVE PollerTypeOK'
  BY <1>t, <1>p DEF pollerVars, networkVars, PollerTypeOK
<1>1. CASE NetworkStep /\ UNCHANGED hostVars
  BY <1>1, <1>t, <1>f, PollerTypeStep
<1>2. CASE Alive /\ PollerStep /\ UNCHANGED hostVars
  BY <1>2, <1>t, <1>f, PollerTypeStep
<1>3. CASE Serve
  <2>1. PollerTypeOK'
    BY <1>3, <1>t DEF Serve, PollerTypeOK, networkVars
  <2>2. NumbersOK'
    BY <1>3, <1>t, FreshTypes DEF Serve, NumbersOK
  <2>3. FlagsOK' /\ PlacesOK'
    BY <1>3, <1>t DEF Serve, FlagsOK, PlacesOK
  <2> QED BY <2>1, <2>2, <2>3 DEF HostTypeOK
<1>4. CASE Signal
  <2>1. PollerTypeOK'
    BY <1>4, <1>t DEF Signal, PollerTypeOK, networkVars
  <2>2. NumbersOK'
    BY <1>4, <1>t, HostAssumption DEF Signal, NumbersOK
  <2>3. FlagsOK' /\ PlacesOK'
    BY <1>4, <1>t DEF Signal, FlagsOK, PlacesOK
  <2> QED BY <2>1, <2>2, <2>3 DEF HostTypeOK
<1>5. CASE Restart
  <2>1. since' \in Instants
    BY <1>5, PollerAssumption DEF Restart, ColdStart, Instants
  <2>2. pass' \in Pass
    BY <1>5, FreshTypes DEF Restart
  <2>3. PollerTypeOK'
    BY <1>5, <1>t, <2>1, <2>2 DEF Restart, PollerTypeOK, networkVars
  <2>4. NumbersOK'
    BY <1>5, <1>t, FreshTypes, HostAssumption DEF Restart, NumbersOK
  <2>5. FlagsOK' /\ PlacesOK'
    BY <1>5 DEF Restart, FlagsOK, PlacesOK, Booting
  <2> QED BY <2>3, <2>4, <2>5 DEF HostTypeOK
<1>6. CASE HostOnly
  BY <1>6, <1>t, <1>p, HostOnlyFrame, HostTypeStep
<1>7. CASE UNCHANGED vars
  BY <1>7, <1>f, <1>p DEF vars
<1> QED BY <1>1, <1>2, <1>3, <1>4, <1>5, <1>6, <1>7, NextCases

\* Every variable of the process and the poller keeps its type: in particular
\* no attempt is made beyond bootRetries.
THEOREM TypeCorrect == Spec => []TypeOK
  BY TypeInit, TypeStep, PTL DEF Spec

-----------------------------------------------------------------------------
(***************************************************************************)
(* The watermark.  Reaches(w) says that what was accepted before w and is  *)
(* not settled is in the pass's hands.  It holds of the watermark with     *)
(* nothing in hand, and of the start of a pass once the call was served,   *)
(* unless something failed.                                                *)
(***************************************************************************)
Served == pass.pc \in {"returning", "handing", "executing"}

\* The clock is past everything that happened.
PastOnly ==
  /\ since <= now
  /\ pass.started <= now
  /\ \A d \in Demands : acceptedAt[d] <= now \/ acceptedAt[d] = Never

\* The pass asked for everything from the watermark on.
AskedSince == pass # NoPass => pass.asked = since

\* What the call was served, nothing having failed, settles what remains of
\* the demand accepted before the pass started.
BatchCovers ==
  Served /\ ~pass.failed =>
    \A d \in Demands :
      acceptedAt[d] < pass.started => d \in settled \cup pass.todo \cup pass.inHand

\* A unit is in hand only while it is executed, and then it is the only one;
\* nothing fails before the first.
OneInHand ==
  /\ pass.pc \in {"calling", "returning"} => ~pass.failed
  /\ pass.pc # "executing" => pass.inHand = {}
  /\ \A c, d \in pass.inHand : c = d

Watermark == PastOnly /\ AskedSince /\ BatchCovers /\ OneInHand /\ NothingSkipped

\* The fields of the record of a pass that has not begun.
LEMMA NoPassFields ==
  /\ NoPass.pc = "idle" /\ NoPass.started = 0
  /\ NoPass.todo = {} /\ NoPass.inHand = {} /\ ~NoPass.failed
  BY DEF NoPass

LEMMA WatermarkInit == Init => Watermark
<1> SUFFICES ASSUME Init PROVE Watermark
  OBVIOUS
<1>1. /\ now = 0 /\ since = 0 /\ pass = NoPass
      /\ \A d \in Demands : acceptedAt[d] = Never
  BY DEF Init, PollerInit, ColdStart
<1>2. PastOnly
  BY <1>1, NoPassFields DEF PastOnly
<1>3. AskedSince /\ OneInHand
  BY <1>1, NoPassFields DEF AskedSince, OneInHand
<1>4. BatchCovers
  BY <1>1, NoPassFields DEF BatchCovers, Served
<1>5. NothingSkipped
  BY <1>1, PollerAssumption DEF NothingSkipped, Never
<1> QED BY <1>2, <1>3, <1>4, <1>5 DEF Watermark

\* Ending a pass without moving the watermark, or starting over from zero,
\* keeps it.
LEMMA WatermarkReset ==
  ASSUME PollerTypeOK, Watermark, pass' = NoPass, UNCHANGED networkVars,
         since' = since \/ since' = 0
  PROVE  Watermark'
<1>1. /\ now' = now /\ acceptedAt' = acceptedAt /\ settled' = settled
      /\ now \in Nat /\ since \in Nat
      /\ \A d \in Demands : acceptedAt[d] \in Nat
  BY PollerAssumption DEF networkVars, PollerTypeOK, Instants, Never
<1>2. PastOnly'
  BY <1>1, NoPassFields DEF Watermark, PastOnly, Never
<1>3. AskedSince' /\ OneInHand' /\ BatchCovers'
  BY NoPassFields DEF AskedSince, OneInHand, BatchCovers, Served
<1>4. NothingSkipped'
  BY <1>1 DEF Watermark, NothingSkipped
<1> QED BY <1>2, <1>3, <1>4 DEF Watermark

\* So does moving it to the start of a served pass in which nothing failed
\* and which has nothing left.
LEMMA WatermarkMoves ==
  ASSUME PollerTypeOK, PastOnly, pass' = NoPass, since' = pass.started,
         now' = now, acceptedAt' = acceptedAt,
         \A d \in Demands : acceptedAt[d] < pass.started => d \in settled'
  PROVE  Watermark'
<1>1. /\ now \in Nat /\ pass.started \in Nat
      /\ \A d \in Demands : acceptedAt[d] \in Nat
  BY PollerAssumption DEF PollerTypeOK, Instants, Never, Pass
<1>2. PastOnly'
  BY <1>1, NoPassFields DEF PastOnly, Never
<1>3. AskedSince' /\ OneInHand' /\ BatchCovers'
  BY NoPassFields DEF AskedSince, OneInHand, BatchCovers, Served
<1>4. NothingSkipped'
  BY DEF NothingSkipped
<1> QED BY <1>2, <1>3, <1>4 DEF Watermark

LEMMA WatermarkNetwork ==
  ASSUME PollerTypeOK, Watermark, NetworkStep
  PROVE  Watermark'
<1>t. /\ now \in Nat /\ since \in Nat /\ MaxTime \in Nat
      /\ pass \in Pass /\ pass.started \in Nat
      /\ \A d \in Demands : acceptedAt[d] \in Nat
  BY PollerAssumption DEF PollerTypeOK, Instants, Never, Pass
<1>w. PastOnly /\ AskedSince /\ BatchCovers /\ OneInHand /\ NothingSkipped
  BY DEF Watermark
<1>1. CASE Tick
  <2>1. PastOnly'
    BY <1>1, <1>t, <1>w DEF Tick, PastOnly, Never
  <2> QED BY <1>1, <1>w, <2>1
          DEF Tick, Watermark, AskedSince, BatchCovers, Served, OneInHand,
              NothingSkipped
<1>2. ASSUME NEW d \in Demands, Accept(d) PROVE Watermark'
  <2>1. /\ acceptedAt'[d] = now
        /\ \A c \in Demands : c # d => acceptedAt'[c] = acceptedAt[c]
        /\ UNCHANGED <<now, settled, since, pass>>
    BY <1>2 DEF Accept, PollerTypeOK
  <2>2. PastOnly'
    BY <2>1, <1>t, <1>w DEF PastOnly, Never
  <2>3. AskedSince' /\ OneInHand'
    BY <2>1, <1>w DEF AskedSince, OneInHand
  <2>4. ~(now < pass.started) /\ ~(now < since)
    BY <1>t, <1>w DEF PastOnly
  <2>5. BatchCovers'
    BY <2>1, <2>4, <1>w DEF BatchCovers, Served
  <2>6. NothingSkipped'
    BY <2>1, <2>4, <1>w DEF NothingSkipped
  <2> QED BY <2>2, <2>3, <2>5, <2>6 DEF Watermark
<1> QED BY <1>1, <1>2 DEF NetworkStep

LEMMA WatermarkPoller ==
  ASSUME PollerTypeOK, Watermark, PollerStep
  PROVE  Watermark'
<1>t. /\ now \in Nat /\ since \in Nat /\ MaxTime \in Nat
      /\ pass \in Pass /\ pass.started \in Nat /\ pass.asked \in Nat
      /\ \A d \in Demands : acceptedAt[d] \in Instants \cup {Never}
      /\ \A d \in Demands : acceptedAt[d] \in Nat
      /\ NoPass \in Pass
  BY PollerAssumption, FreshTypes DEF PollerTypeOK, Instants, Never, Pass
<1>w. PastOnly /\ AskedSince /\ BatchCovers /\ OneInHand /\ NothingSkipped
  BY DEF Watermark
<1>1. CASE StartPass
  <2>1. /\ UNCHANGED <<now, acceptedAt, settled, since>>
        /\ pass'.pc = "calling" /\ pass'.asked = since /\ pass'.started = now
        /\ pass'.inHand = {} /\ ~pass'.failed
    BY <1>1, <1>t, NoPassFields DEF StartPass, networkVars, Pass
  <2>2. PastOnly'
    BY <2>1, <1>t, <1>w DEF PastOnly
  <2>3. AskedSince' /\ OneInHand' /\ BatchCovers'
    BY <2>1 DEF AskedSince, OneInHand, BatchCovers, Served
  <2> QED BY <2>1, <2>2, <2>3, <1>w DEF Watermark, NothingSkipped
<1>2. CASE PollIsServed
  <2>1. /\ UNCHANGED <<now, acceptedAt, settled, since>>
        /\ pass'.pc = "returning" /\ pass'.asked = pass.asked
        /\ pass'.started = pass.started /\ pass'.inHand = pass.inHand
        /\ pass'.todo = Outstanding(pass.asked)
        /\ pass.pc = "calling" /\ pass'.failed = pass.failed
    BY <1>2, <1>t DEF PollIsServed, networkVars, Pass
  <2>2. pass.asked = since /\ pass.inHand = {} /\ ~pass.failed
    BY <2>1, <1>w, NoPassFields DEF AskedSince, OneInHand
  <2>3. ASSUME NEW d \in Demands, acceptedAt[d] < pass.started
        PROVE  d \in settled \cup Outstanding(since)
    <3>1. CASE acceptedAt[d] < since
      BY <3>1, <1>w DEF NothingSkipped
    <3>2. CASE ~(acceptedAt[d] < since)
      <4>1. acceptedAt[d] \in since..MaxTime
        BY <3>2, <2>3, <1>t, <1>w DEF PastOnly, Instants, Never, PollerTypeOK
      <4> QED BY <4>1 DEF Outstanding
    <3> QED BY <3>1, <3>2
  <2>4. PastOnly'
    BY <2>1, <1>w DEF PastOnly
  <2>5. AskedSince' /\ OneInHand'
    BY <2>1, <2>2 DEF AskedSince, OneInHand
  <2>6. BatchCovers'
    BY <2>1, <2>2, <2>3 DEF BatchCovers
  <2> QED BY <2>1, <2>4, <2>5, <2>6, <1>w DEF Watermark, NothingSkipped
<1>3. CASE PollFails \/ Abandon
  BY <1>3, WatermarkReset DEF PollFails, Abandon, networkVars
<1>4. CASE PollReturns
  <2>1. CASE pass.todo = {}
    <3>1. /\ pass' = NoPass /\ since' = pass.started
          /\ UNCHANGED <<now, acceptedAt, settled>>
          /\ pass.pc = "returning"
      BY <1>4, <2>1 DEF PollReturns, PollStartedAt, networkVars
    <3>2. pass.inHand = {}
      BY <3>1, <1>w DEF OneInHand
    <3>3. ~pass.failed
      BY <3>1, <1>w DEF OneInHand
    <3> QED BY <3>1, <3>2, <3>3, <2>1, <1>w, WatermarkMoves
            DEF BatchCovers, Served
  <2>2. CASE pass.todo # {}
    <3>1. /\ UNCHANGED <<now, acceptedAt, settled, since>>
          /\ pass'.pc = "handing" /\ pass.pc = "returning"
          /\ pass'.asked = pass.asked /\ pass'.started = pass.started
          /\ pass'.todo = pass.todo /\ pass'.inHand = pass.inHand
          /\ pass'.failed = pass.failed
      BY <1>4, <2>2, <1>t DEF PollReturns, PollStartedAt, networkVars, Pass
    <3>2. pass # NoPass
      BY <3>1, NoPassFields
    <3> QED BY <3>1, <3>2, <1>w
            DEF Watermark, PastOnly, AskedSince, OneInHand, BatchCovers,
                Served, NothingSkipped
  <2> QED BY <2>1, <2>2
<1>5. ASSUME NEW d \in Demands, TakeUnit(d) PROVE Watermark'
  <2>1. /\ UNCHANGED <<now, acceptedAt, settled, since>>
        /\ pass'.pc = "executing" /\ pass.pc = "handing"
        /\ pass'.asked = pass.asked /\ pass'.started = pass.started
        /\ pass'.todo = pass.todo \ {d} /\ pass'.inHand = {d}
        /\ pass'.failed = pass.failed
    BY <1>5, <1>t DEF TakeUnit, networkVars, Pass
  <2>2. pass # NoPass
    BY <2>1, NoPassFields
  <2>3. PastOnly' /\ AskedSince' /\ OneInHand'
    BY <2>1, <2>2, <1>w DEF PastOnly, AskedSince, OneInHand
  <2>4. pass.inHand = {}
    BY <2>1, <1>w DEF OneInHand
  <2>5. BatchCovers'
    BY <2>1, <2>4, <1>w DEF BatchCovers, Served
  <2> QED BY <2>1, <2>3, <2>5, <1>w DEF Watermark, NothingSkipped
<1>6. ASSUME NEW d \in Demands, NEW ok \in BOOLEAN, UnitReturns(d, ok)
      PROVE  Watermark'
  <2>1. /\ UNCHANGED <<now, acceptedAt>>
        /\ settled \subseteq settled'
        /\ ok => d \in settled'
        /\ pass.pc = "executing" /\ d \in pass.inHand
    BY <1>6 DEF UnitReturns, NothingFailed, PollStartedAt
  <2>2. \A c \in pass.inHand : c = d
    BY <2>1, <1>w DEF OneInHand
  <2>3. pass # NoPass
    BY <2>1, NoPassFields
  <2>4. pass.failed \in BOOLEAN
    BY <1>t DEF Pass
  <2>5. CASE pass.todo = {} /\ ~pass.failed /\ ok
    <3>1. pass' = NoPass /\ since' = pass.started
      BY <1>6, <2>5 DEF UnitReturns, NothingFailed, PollStartedAt
    <3>2. \A c \in Demands : acceptedAt[c] < pass.started => c \in settled'
      BY <2>1, <2>2, <2>5, <1>w DEF BatchCovers, Served
    <3> QED BY <2>1, <3>1, <3>2, <1>w, WatermarkMoves
  <2>6. CASE pass.todo = {} /\ (pass.failed \/ ~ok)
    <3>1. pass' = NoPass /\ since' = since
      BY <1>6, <2>6 DEF UnitReturns, NothingFailed, PollStartedAt
    <3>2. PastOnly'
      BY <2>1, <3>1, <1>t, <1>w, NoPassFields DEF PastOnly
    <3>3. AskedSince' /\ OneInHand' /\ BatchCovers'
      BY <3>1, NoPassFields DEF AskedSince, OneInHand, BatchCovers, Served
    <3> QED BY <2>1, <3>1, <3>2, <3>3, <1>w DEF Watermark, NothingSkipped
  <2>7. CASE pass.todo # {}
    <3>1. /\ since' = since
          /\ pass'.pc = "handing" /\ pass'.inHand = {}
          /\ pass'.asked = pass.asked /\ pass'.started = pass.started
          /\ pass'.todo = pass.todo
          /\ pass'.failed = (pass.failed \/ ~ok)
      BY <1>6, <2>7, <1>t DEF UnitReturns, NothingFailed, PollStartedAt, Pass
    <3>2. PastOnly' /\ AskedSince' /\ OneInHand'
      BY <2>1, <2>3, <3>1, <1>w DEF PastOnly, AskedSince, OneInHand
    <3>3. BatchCovers'
      BY <2>1, <2>2, <3>1, <1>w DEF BatchCovers, Served
    <3> QED BY <2>1, <3>1, <3>2, <3>3, <1>w DEF Watermark, NothingSkipped
  <2> QED BY <2>4, <2>5, <2>6, <2>7
<1>7. CASE PollerExits
  BY <1>7, <1>w DEF PollerExits, networkVars, Watermark, PastOnly, AskedSince,
                    OneInHand, BatchCovers, Served, NothingSkipped
<1> QED BY <1>1, <1>2, <1>3, <1>4, <1>5, <1>6, <1>7 DEF PollerStep, PollStep

LEMMA WatermarkStep == TypeOK /\ Watermark /\ [Next]_vars => Watermark'
<1> SUFFICES ASSUME TypeOK, Watermark, [Next]_vars PROVE Watermark'
  OBVIOUS
<1>t. PollerTypeOK
  BY TypeOKParts
<1>1. ASSUME UNCHANGED <<networkVars, since, pass>> PROVE Watermark'
  BY <1>1 DEF networkVars, Watermark, PastOnly, AskedSince, OneInHand,
              BatchCovers, Served, NothingSkipped
<1>2. CASE NetworkStep
  BY <1>2, <1>t, WatermarkNetwork
<1>3. CASE PollerStep
  BY <1>3, <1>t, WatermarkPoller
<1>4. CASE Serve \/ Signal
  BY <1>4, <1>1 DEF Serve, Signal
<1>5. CASE Restart
  BY <1>5, <1>t, WatermarkReset DEF Restart, ColdStart, networkVars
<1>6. CASE HostOnly \/ UNCHANGED vars
  BY <1>6, <1>1, HostOnlyFrame DEF vars, pollerVars
<1> QED BY <1>2, <1>3, <1>4, <1>5, <1>6, NextCases

\* The watermark never moves past demand the use case did not take, whatever
\* arrives during a poll, fails, is abandoned at a stop or lost in a crash.
THEOREM WatermarkSkipsNothing == Spec => []NothingSkipped
<1>1. Watermark => NothingSkipped
  BY DEF Watermark
<1> QED BY <1>1, TypeInit, TypeStep, WatermarkInit, WatermarkStep, PTL DEF Spec

-----------------------------------------------------------------------------
(***************************************************************************)
(* The stop.  Each wait of serve leaves behind it something that stays     *)
(* true until the process ends.                                            *)
(***************************************************************************)
Drawn == {"awaitingRelay", "awaitingPoller", "closing", "stopped"}

StopLine ==
  /\ phase \in {"notReady", "draining"} \cup Drawn => ~ready
  /\ phase \in {"draining"} \cup Drawn => ~listening
  /\ phase \in Drawn => expired \/ requests = 0
  /\ phase \in {"awaitingPoller", "closing", "stopped"} => expired \/ relay = "done"
  /\ phase \in {"closing", "stopped"} => expired \/ poller = "done"
  /\ phase = "closing" => pool = "closing"
  /\ phase = "stopped" => ~RelayConnected

LEMMA StopLineInit == Init => StopLine
  BY DEF Init, StopLine, Drawn

LEMMA StopLineStep == StopLine /\ [Next]_vars => StopLine'
<1> SUFFICES ASSUME StopLine, [Next]_vars PROVE StopLine'
  OBVIOUS
<1> USE DEF StopLine, Drawn
<1>1. CASE NetworkStep /\ UNCHANGED hostVars
  BY <1>1 DEF NetworkStep, Tick, Accept, hostVars, RelayConnected
<1>2. CASE Alive /\ PollerStep /\ UNCHANGED hostVars
  <2>1. phase \notin {"stopped"}
    BY <1>2 DEF Alive, Over
  <2>2. poller = "done" => poller' = "done"
    BY <1>2 DEF PollerStep, PollStep, StartPass, PollIsServed, PollFails,
                PollReturns, TakeUnit, Abandon, UnitReturns, PollerExits
  <2> QED BY <1>2, <2>1, <2>2 DEF hostVars
<1>3. CASE Serve
  BY <1>3 DEF Serve
<1>4. CASE Signal
  BY <1>4 DEF Signal
<1>5. CASE Restart
  BY <1>5 DEF Restart
<1>6. CASE HostOnly
  <2>0. UNCHANGED <<poller, pass>>
    BY <1>6, HostOnlyFrame DEF pollerVars
  <2>1. CASE Migrate \/ AttemptFails
    BY <2>1 DEF Migrate, AttemptFails, Booting
  <2>2. CASE Alive /\ Goroutine
    BY <2>0, <2>2
       DEF Alive, Over, Goroutine, PassStarts, RequestArrives, Returns,
           SweepReturns, RelayReturns, RequestEnds
  <2>3. CASE SetNotReady \/ CloseListener \/ Drained \/ RelayAwaited
    BY <2>0, <2>3 DEF SetNotReady, CloseListener, Drained, RelayAwaited
  <2>4. CASE PollerAwaited \/ PoolCloses
    BY <2>0, <2>4 DEF PollerAwaited, PoolCloses, RelayConnected
  <2>5. CASE Expire \/ Ends
    BY <2>0, <2>5 DEF Expire, Ends
  <2> QED BY <1>6, <2>1, <2>2, <2>3, <2>4, <2>5 DEF HostOnly
<1>7. CASE UNCHANGED vars
  BY <1>7 DEF vars, hostVars, pollerVars, RelayConnected
<1> QED BY <1>1, <1>2, <1>3, <1>4, <1>5, <1>6, <1>7, NextCases

\* serve waits for what it says it waits for: when main's deferred calls close
\* the publisher and the pool, the pod has said it is not ready, no request
\* can come in, relay, poller and requests are done or the deadline is, and the
\* pool is not gone under a transaction of the relay.
THEOREM StopClosesAfterUse == Spec => []ClosedAfterUse
<1>1. StopLine => ClosedAfterUse
  BY DEF StopLine, Drawn, ClosedAfterUse
<1> QED BY <1>1, StopLineInit, StopLineStep, PTL DEF Spec

-----------------------------------------------------------------------------
(***************************************************************************)
(* The boot retries.                                                       *)
(***************************************************************************)
Backoff ==
  \/ boot.attempt = 1 /\ boot.delay = 1 /\ boot.waited = 0
  \/ boot.attempt = 2 /\ boot.delay = 2 /\ boot.waited = 1
  \/ boot.attempt = 3 /\ boot.delay = 4 /\ boot.waited = 3
  \/ boot.attempt = 4 /\ boot.delay = 8 /\ boot.waited = 7
  \/ boot.attempt = 5 /\ boot.delay = 16 /\ boot.waited = 15

Budget == Backoff /\ (phase = "gaveUp" => boot.attempt = BootRetries)

\* With the five attempts of the code a process that gives up has waited
\* fifteen seconds (not the 31 of the comment), which outlasts any reset of
\* the first dials up to that long.
THEOREM BudgetIsFifteenSeconds ==
  ASSUME BootRetries = 5, DialReset <= 15
  PROVE  Spec => []OutlastsDialReset
<1>1. Init => Budget
  BY DEF Init, FirstAttempt, Budget, Backoff
<1>2. TypeOK /\ Budget /\ [Next]_vars => Budget'
  <2> SUFFICES ASSUME Budget, [Next]_vars PROVE Budget'
    OBVIOUS
  <2> USE DEF Budget
  <2>1. ASSUME UNCHANGED boot, phase' = "gaveUp" => phase = "gaveUp"
        PROVE  Budget'
    BY <2>1 DEF Backoff
  <2>2. CASE AttemptFails
    BY <2>2 DEF AttemptFails, LastAttempt, Backoff
  <2>3. CASE Migrate \/ Serve \/ Restart
    BY <2>3 DEF Migrate, Serve, Restart, FirstAttempt, Backoff
  <2>4. CASE UNCHANGED hostVars
    BY <2>1, <2>4 DEF hostVars
  <2>5. CASE Signal
    BY <2>1, <2>5 DEF Signal
  <2>6. CASE HostOnly /\ ~AttemptFails /\ ~Migrate
    BY <2>1, <2>6
       DEF HostOnly, Goroutine, PassStarts, RequestArrives, Returns,
           SweepReturns, RelayReturns, RequestEnds, SetNotReady,
           CloseListener, Drained, RelayAwaited, PollerAwaited, PoolCloses,
           Expire, Ends
  <2>7. UNCHANGED vars => UNCHANGED hostVars
    BY DEF vars
  <2> QED BY <2>2, <2>3, <2>4, <2>5, <2>6, <2>7, NextCases
<1>3. TypeOK /\ Budget => OutlastsDialReset
  BY HostAssumption DEF Budget, Backoff, OutlastsDialReset
<1> QED BY <1>1, <1>2, <1>3, TypeInit, TypeStep, PTL DEF Spec
=============================================================================
