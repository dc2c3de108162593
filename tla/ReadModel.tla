------------------------------ MODULE ReadModel -----------------------------
(***************************************************************************)
(* What the analytics store promises (the ports ProjectionStore and        *)
(* ReportStore, as MemoryStore keeps them): an event is applied at once    *)
(* and once, to the row of the day it occurred on, and a report is a       *)
(* selection of these rows.                                                *)
(***************************************************************************)
EXTENDS Integers

CONSTANTS
  EventIds,    \* the ids of the events
  KindOf,      \* what each of them is
  TimeOf,      \* when each of them occurred
  ReceivedAt,  \* when the order it is about was received
  DayLength    \* 24 hours

VARIABLES
  seen,    \* the ids applied so far
  rows,    \* a row for each day with an event
  latest   \* when the latest applied event occurred, 0 for none

rvars == <<seen, rows, latest>>

ReportInit ==
  /\ seen = {}
  /\ rows = [day \in {} |-> {}]
  /\ latest = 0

\* The columns of report.Row; AcknowledgementLatencyCount always equals
\* OrdersAcknowledged.
Columns == {"received", "acknowledged", "untranslatable", "infeasible",
            "missed", "latency"}

DayBucket(at) == at - (at % DayLength)

\* A clock that was put back gives no negative latency.
Latency(id) ==
  IF ReceivedAt[id] < TimeOf[id] THEN TimeOf[id] - ReceivedAt[id] ELSE 0

\* What one event adds to a column.
Adds(id, column) ==
  IF column = "latency"
    THEN IF KindOf[id] = "acknowledged" THEN Latency(id) ELSE 0
    ELSE IF KindOf[id] = column THEN 1 ELSE 0

\* The row of a day, created empty on first use.
RowOf(day) ==
  IF day \in DOMAIN rows THEN rows[day] ELSE [column \in Columns |-> 0]

\* A duplicate changes nothing; a rejection for an unknown reason leaves its
\* row as it is.
ApplyEvent(id) ==
  LET today == DayBucket(TimeOf[id]) IN
  /\ id \notin seen
  /\ seen' = seen \cup {id}
  /\ rows' = [day \in DOMAIN rows \cup {today} |->
                IF day = today
                THEN [column \in Columns |->
                        RowOf(day)[column] + Adds(id, column)]
                ELSE rows[day]]
  /\ latest' = IF latest < TimeOf[id] THEN TimeOf[id] ELSE latest

ReportNext == \E id \in EventIds : ApplyEvent(id)

ReportSpec == ReportInit /\ [][ReportNext]_rvars

-----------------------------------------------------------------------------
\* The rows whose day begins in [from, to).
Query(from, to) ==
  [day \in {d \in DOMAIN rows : from <= d /\ d < to} |-> rows[day]]

\* How far the read model is behind, by its latest event; never negative.
FreshnessLag(now) ==
  IF latest = 0 \/ now < latest THEN 0 ELSE now - latest
=============================================================================
