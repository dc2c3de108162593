-------------------------------- MODULE Host --------------------------------
(***************************************************************************)
(* The composition root: one pod's process from its boot to its end.       *)
(*                                                                         *)
(* main boots (migrations and the first ping, each under retry), starts    *)
(* the sweep, the poller, the relay and the HTTP server, and on SIGTERM    *)
(* takes them down in order under one deadline before it closes what they  *)
(* use.  The process may also be killed at any point, and the kubelet      *)
(* starts a process that ended again.  The poller is the module Poller;    *)
(* of sweep and relay it matters here only whether a pass is under way.    *)
(***************************************************************************)
EXTENDS Poller

CONSTANTS
  BootRetries,    \* bootRetries
  DialReset,      \* seconds during which a new pod's first dials are reset
  MaxRequests,    \* bound of the HTTP requests in flight
  MaxStops        \* bound of the signals, kills and failed listeners

ASSUME HostAssumption ==
  /\ BootRetries \in Nat \ {0}
  /\ DialReset \in Nat
  /\ MaxRequests \in Nat
  /\ MaxStops \in Nat

VARIABLES
  phase,       \* where main is
  boot,        \* the locals of retryWithDelay, and what it has waited
  ready,       \* Readiness
  listening,   \* the HTTP server accepts connections
  requests,    \* HTTP requests in flight
  sweep,       \* the goroutine of runSweep
  relay,       \* the goroutine of OutboxRelay.Run
  pool,        \* the pgx pool
  publisher,   \* the Kafka writers
  expired,     \* shutdownCtx is done
  stops        \* signals, kills and failed listeners so far

hostVars == <<phase, boot, ready, listening, requests, sweep, relay, pool,
              publisher, expired, stops>>
vars == <<pollerVars, hostVars>>

Booting == {"migrating", "pinging"}
Stopping == {"notReady", "draining", "awaitingRelay", "awaitingPoller", "closing"}
Over == {"gaveUp", "exited", "stopped", "killed"}

RetryLocals ==
  [attempt : 1..BootRetries, delay : Nat \ {0}, waited : Nat]

FirstAttempt == [attempt |-> 1, delay |-> 1, waited |-> 0]

Init ==
  /\ PollerInit
  /\ phase = "migrating"
  /\ boot = FirstAttempt
  /\ ready = TRUE
  /\ listening = FALSE
  /\ requests = 0
  /\ sweep = "off"
  /\ relay = "off"
  /\ pool = "none"
  /\ publisher = "none"
  /\ expired = FALSE
  /\ stops = 0

Alive == phase \notin Over

-----------------------------------------------------------------------------
\* Boot.  An attempt takes no time here, so waited is the least the process
\* has waited for the database.
Migrate ==
  /\ phase = "migrating"
  /\ boot' = FirstAttempt
  /\ pool' = "open"
  /\ phase' = "pinging"
  /\ UNCHANGED <<pollerVars, ready, listening, requests, sweep, relay,
                 publisher, expired, stops>>

\* The ping succeeds, main wires the rest and serve starts the goroutines.
\* The sweep waits for its first tick; the poller and the relay do not.
Serve ==
  /\ phase = "pinging"
  /\ boot' = FirstAttempt
  /\ publisher' = "open"
  /\ sweep' = "idle"
  /\ poller' = "running"
  /\ relay' = "idle"
  /\ listening' = TRUE
  /\ phase' = "serving"
  /\ UNCHANGED <<networkVars, since, pass, cancelled, ready, requests, pool,
                 expired, stops>>

\* Mutant: one attempt too few.
AttemptBeforeTheLast == boot.attempt + 1 = BootRetries

LastAttempt == boot.attempt = BootRetries

AttemptFails ==
  /\ phase \in Booting
  /\ IF LastAttempt
       THEN /\ phase' = "gaveUp"
            /\ pool' = IF pool = "open" THEN "closed" ELSE pool
            /\ UNCHANGED boot
       ELSE /\ boot' = [attempt |-> boot.attempt + 1,
                        delay |-> 2 * boot.delay,
                        waited |-> boot.waited + boot.delay]
            /\ UNCHANGED <<phase, pool>>
  /\ UNCHANGED <<pollerVars, ready, listening, requests, sweep, relay,
                 publisher, expired, stops>>

-----------------------------------------------------------------------------
\* What runs beside the poller.  A pass that starts after the signal fails at
\* its first query and changes nothing.
PassStarts ==
  /\ ~cancelled
  /\ \/ /\ sweep = "idle"
        /\ sweep' = "passing"
        /\ UNCHANGED relay
     \/ /\ relay = "idle"
        /\ relay' = "passing"
        /\ UNCHANGED sweep
  /\ UNCHANGED <<pollerVars, phase, boot, ready, listening, requests, pool,
                 publisher, expired, stops>>

SweepReturns ==
  /\ sweep = "passing" \/ (sweep = "idle" /\ cancelled)
  /\ sweep' = IF cancelled THEN "done" ELSE "idle"
  /\ UNCHANGED <<pollerVars, phase, boot, ready, listening, requests, relay,
                 pool, publisher, expired, stops>>

RelayReturns ==
  /\ relay = "passing" \/ (relay = "idle" /\ cancelled)
  /\ relay' = IF cancelled THEN "done" ELSE "idle"
  /\ UNCHANGED <<pollerVars, phase, boot, ready, listening, requests, sweep,
                 pool, publisher, expired, stops>>

RequestArrives ==
  /\ listening
  /\ requests < MaxRequests
  /\ requests' = requests + 1
  /\ UNCHANGED <<pollerVars, phase, boot, ready, listening, sweep, relay,
                 pool, publisher, expired, stops>>

RequestEnds ==
  /\ requests > 0
  /\ requests' = requests - 1
  /\ UNCHANGED <<pollerVars, phase, boot, ready, listening, sweep, relay,
                 pool, publisher, expired, stops>>

-----------------------------------------------------------------------------
\* SIGTERM ends the context of the sweep, the poller and the relay at once.
\* Before serve installs its handler the signal just kills the process.
Signal ==
  /\ phase = "serving"
  /\ ~cancelled
  /\ stops < MaxStops
  /\ stops' = stops + 1
  /\ cancelled' = TRUE
  /\ UNCHANGED <<networkVars, since, pass, poller, phase, boot, ready,
                 listening, requests, sweep, relay, pool, publisher, expired>>

SetNotReady ==
  /\ phase = "serving"
  /\ cancelled
  /\ ready' = FALSE
  /\ phase' = "notReady"
  /\ UNCHANGED <<pollerVars, boot, listening, requests, sweep, relay, pool,
                 publisher, expired, stops>>

\* srv.Shutdown closes the listener, then waits for the requests.
CloseListener ==
  /\ phase = "notReady"
  /\ listening' = FALSE
  /\ phase' = "draining"
  /\ UNCHANGED <<pollerVars, boot, ready, requests, sweep, relay, pool,
                 publisher, expired, stops>>

Expire ==
  /\ phase \in {"draining", "awaitingRelay", "awaitingPoller"}
  /\ ~expired
  /\ expired' = TRUE
  /\ UNCHANGED <<pollerVars, phase, boot, ready, listening, requests, sweep,
                 relay, pool, publisher, stops>>

Drained ==
  /\ phase = "draining"
  /\ requests = 0 \/ expired
  /\ phase' = "awaitingRelay"
  /\ UNCHANGED <<pollerVars, boot, ready, listening, requests, sweep, relay,
                 pool, publisher, expired, stops>>

\* The mutant of RelayAwaited.
RelayOnlyAskedToStop ==
  /\ phase = "awaitingRelay"
  /\ phase' = "awaitingPoller"
  /\ UNCHANGED <<pollerVars, boot, ready, listening, requests, sweep, relay,
                 pool, publisher, expired, stops>>

RelayAwaited ==
  /\ phase = "awaitingRelay"
  /\ relay = "done" \/ expired
  /\ phase' = "awaitingPoller"
  /\ UNCHANGED <<pollerVars, boot, ready, listening, requests, sweep, relay,
                 pool, publisher, expired, stops>>

\* The mutant of PollerAwaited.
PollerAwaitedForEver ==
  /\ phase = "awaitingPoller"
  /\ poller = "done"
  /\ publisher' = "closed"
  /\ pool' = "closing"
  /\ phase' = "closing"
  /\ UNCHANGED <<pollerVars, boot, ready, listening, requests, sweep, relay,
                 expired, stops>>

\* serve returns and main's deferred calls run: first the publisher is
\* closed, then the pool, whose Close stops handing out connections.
PollerAwaited ==
  /\ phase = "awaitingPoller"
  /\ poller = "done" \/ expired
  /\ publisher' = "closed"
  /\ pool' = "closing"
  /\ phase' = "closing"
  /\ UNCHANGED <<pollerVars, boot, ready, listening, requests, sweep, relay,
                 expired, stops>>

\* A pass of the relay is one transaction and holds its connection to the
\* end.  A sweep, a request or a unit has one only from query to query.
RelayConnected == relay = "passing"

\* pool.Close waits for every connection to be given back.  Whatever is
\* between two queries finds the pool closed at the next.
PoolCloses ==
  /\ phase = "closing"
  /\ ~RelayConnected
  /\ pool' = "closed"
  /\ phase' = "stopped"
  /\ UNCHANGED <<pollerVars, boot, ready, listening, requests, sweep, relay,
                 publisher, expired, stops>>

-----------------------------------------------------------------------------
\* The process ends at once, with whatever it was doing: the kubelet's
\* SIGKILL, a crash, or os.Exit(1) when the server cannot listen.
Ends ==
  /\ Alive
  /\ stops < MaxStops
  /\ stops' = stops + 1
  /\ \/ phase' = "killed"
     \/ listening /\ phase' = "exited"
  /\ UNCHANGED <<pollerVars, boot, ready, listening, requests, sweep, relay,
                 pool, publisher, expired>>

\* The kubelet starts the container again; what was in memory is gone.
Restart ==
  /\ ~Alive
  /\ phase' = "migrating"
  /\ boot' = FirstAttempt
  /\ ready' = TRUE
  /\ listening' = FALSE
  /\ requests' = 0
  /\ sweep' = "off"
  /\ relay' = "off"
  /\ pool' = "none"
  /\ publisher' = "none"
  /\ expired' = FALSE
  /\ since' = ColdStart
  /\ pass' = NoPass
  /\ poller' = "off"
  /\ cancelled' = FALSE
  /\ UNCHANGED <<networkVars, stops>>

\* What main does next; it is one goroutine.
MainStep ==
  \/ Migrate \/ Serve \/ AttemptFails
  \/ SetNotReady \/ CloseListener \/ Drained \/ RelayAwaited
  \/ PollerAwaited \/ PoolCloses
  \/ Restart

\* A pass or a request that is under way comes to its end.
Returns == SweepReturns \/ RelayReturns \/ RequestEnds

Goroutine == PassStarts \/ RequestArrives \/ Returns

Next ==
  \/ NetworkStep /\ UNCHANGED hostVars
  \/ Alive /\ PollerStep /\ UNCHANGED hostVars
  \/ Alive /\ Goroutine
  \/ Signal
  \/ MainStep
  \/ Expire
  \/ Ends

Spec == Init /\ [][Next]_vars

Live(A) == Alive /\ A /\ UNCHANGED hostVars

\* Every call returns, the tickers tick, the deadline comes and the kubelet
\* starts the container again (weak).  The database, the network and the use
\* case for each unit succeed now and then if they are tried for ever (strong).
Fairness ==
  /\ WF_vars(MainStep)
  /\ WF_vars(Expire)
  /\ WF_vars(Live(StartPass \/ PollStep))
  /\ WF_vars(Alive /\ Returns)
  /\ SF_vars(Migrate) /\ SF_vars(Serve)
  /\ SF_vars(Live(PollReturns))
  /\ \A d \in Demands : SF_vars(Live(UnitReturns(d, TRUE)))

FairSpec == Spec /\ Fairness

-----------------------------------------------------------------------------
TypeOK ==
  /\ PollerTypeOK
  /\ phase \in Booting \cup {"serving"} \cup Stopping \cup Over
  /\ boot \in RetryLocals
  /\ ready \in BOOLEAN
  /\ listening \in BOOLEAN
  /\ requests \in 0..MaxRequests
  /\ sweep \in {"off", "idle", "passing", "done"}
  /\ relay \in {"off", "idle", "passing", "done"}
  /\ pool \in {"none", "open", "closing", "closed"}
  /\ publisher \in {"none", "open", "closed"}
  /\ expired \in BOOLEAN
  /\ stops \in 0..MaxStops

\* A process only gives up after it has waited out the reset of a new pod's
\* first dials (bootRetries and its comment).
OutlastsDialReset == phase = "gaveUp" => boot.waited >= DialReset

\* What a graceful stop closes is out of use: neither relay nor poller is
\* running unless the deadline passed, no request can come in, the pod had
\* said that it is not ready; and even after the deadline the pool is gone
\* only once the relay's transaction is over.  (The sweep may run on.)
ClosedAfterUse ==
  phase \in {"closing", "stopped"} =>
    /\ ~listening /\ ~ready
    /\ expired \/ (relay = "done" /\ poller = "done" /\ requests = 0)
    /\ pool = "closed" => ~RelayConnected

\* A signalled process ends.
SignalledProcessEnds == cancelled ~> ~Alive
=============================================================================
