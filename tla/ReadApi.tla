------------------------------ MODULE ReadApi ------------------------------
(***************************************************************************)
(* What the pages read: the telemetry of an organisation's clusters, one   *)
(* incident and one scan, and the answers that the GET handlers of         *)
(* services/api give about them.                                           *)
(*                                                                         *)
(* Every answer is a window of recent telemetry, and every handler has its *)
(* own.  Time is therefore the class of a cluster's last sample, between   *)
(* the limits that some reader draws.  A cluster runs one service on its   *)
(* GPUs; its collector ships both or neither.                              *)
(***************************************************************************)
EXTENDS Naturals, FiniteSets

CONSTANTS Clusters

ASSUME ClustersAssumption == Clusters # {} /\ IsFiniteSet(Clusters)

VARIABLES
    age,      \* per cluster, the class of its last sample
    over,     \* clusters whose service is over its target
    incident, \* the status of the incident, or none
    records   \* the scan: none, its row stored while it is in memory, or ended,
              \* with its findings stored or refused

worldVars == <<age, over, incident, records>>

\* Classes: under two minutes old; in the engine's window (signals.go:22); in
\* the overview's five minutes (store.go:84); in the fleet's ten
\* (clusters.go:126); in the day of the freshness query and of the settings
\* (store.go:69, config_api.go:65); no more.
Fresh == 0
InEngine == 1
InOverview == 2
InFleet == 3
InDay == 4
Beyond == 5
Ages == Fresh..Beyond

Within(limit) == {c \in Clusters : age[c] <= limit}
Statuses == {"none", "open", "acknowledged", "suppressed", "resolved"}

Has(set) == IF set = {} THEN "none" ELSE "some"

(***************************************************************************)
(* The answers: a value, or a set where the rest is up to what is measured. *)
(***************************************************************************)
\* GET /v1/dashboard asks for the GPUs, the incidents and the freshness.
Gpus == Has(Within(InOverview))

Listed == {"open", "acknowledged"}
Correlations == IF incident \in Listed THEN "some" ELSE "none"

\* lastTelemetryAt: of the cluster heard last, whichever it is.
Freshness ==
    IF Within(InDay) = {} THEN "null"
    ELSE IF Within(Fresh) = {} THEN "old" ELSE "fresh"

\* GET /v1/inference, from the signals of the engine.
Services == Within(InEngine)
Inference ==
    IF Services = {} THEN "none"
    ELSE IF over = {} THEN "within" ELSE "over"

\* The same with its recommendations: a service that is idle, or far within its
\* target, is advised about; a busy one over it is not.
Advised ==
    IF Services = {} THEN {"none"}
    ELSE IF over = {} THEN {"within", "within, advised"} ELSE {"over", "over, advised"}

\* GET /v1/headroom: the same services, whatever their curve is worth.
Headroom == Has(Services)

\* GET /v1/clusters.
Inventory == Has(Within(InFleet))

\* GET /v1/config: "listed from telemetry, not a registry", of a whole day.
Config == Has(Within(InDay))

\* Mutant: one incident is looked up in the list.
CorrelationListed == IF incident \in Listed THEN incident ELSE "none"

\* GET /v1/correlations/{id} also opens what the list no longer shows.
Correlation == incident

\* GET /v1/audit, and /v1/audit/verify of the whole chain (AuditLedger).
Over == {"ended", "half"}
Ledger == IF records \in Over THEN "some" ELSE "none"
Verification == "intact"

\* GET /v1/scans says whether the operating system scanned is still supported.
ScanList == IF records = "empty" THEN {"none"} ELSE {"some", "unsupported"}

\* GET /v1/scans/{id}, of a scan that found something: the list is empty while it
\* is in memory, and when the findings could not be stored.
Findings == IF records = "ended" THEN "some" ELSE "none"

(***************************************************************************)
(* What is true while they are asked, each by the reach of its handler.    *)
(***************************************************************************)
If(condition, fact) == IF condition THEN {fact} ELSE {}

Facts ==
    {<<"over", c>> : c \in over}
    \cup {<<"service", c>> : c \in Services}
    \cup {<<"GPU", c>> : c \in Within(InOverview)}
    \cup {<<"cluster", c>> : c \in Within(InFleet)}
    \cup {<<"heard", c>> : c \in Within(InDay)}
    \cup If(Within(Fresh) = {}, <<"silence", "everywhere">>)
    \cup If(incident \in Listed, <<"listed", "incident">>)
    \cup If(incident # "none", <<"known", "incident">>)
    \cup If(records # "empty", <<"scan", "stored">>)
    \cup If(records = "ended", <<"finding", "stored">>)
    \cup If(records \in Over, <<"entry", "stored">>)

(***************************************************************************)
(* The world.                                                              *)
(***************************************************************************)
WorldInit ==
    /\ age \in [Clusters -> Ages]
    /\ over \in SUBSET Services
    /\ incident \in Statuses
    /\ records \in {"empty", "stored"} \cup Over

\* The collector of a cluster reports.  A service enters the engine's window,
\* within its target or over it, when a minute of it has settled.
Report(c) ==
    /\ age' = [age EXCEPT ![c] = Fresh]
    /\ over' \in {over \cup {c}, over \ {c}}
    /\ UNCHANGED <<incident, records>>

\* A little time: samples reach the next class, or nearly.
Tick ==
    /\ age' \in {a \in [Clusters -> Ages] : \A c \in Clusters : a[c] \in {age[c], age[c] + 1}}
    /\ age' # age
    /\ over' = {c \in over : age'[c] <= InEngine}
    /\ UNCHANGED <<incident, records>>

\* The engine opens the incident for a service over its target, and closes it
\* when there is none (CorrelationEngine has how).
Detect ==
    /\ over # {} /\ incident \in {"none", "resolved"}
    /\ incident' = "open"
    /\ UNCHANGED <<age, over, records>>

Recover ==
    /\ over = {} /\ incident = "open"
    /\ incident' = "resolved"
    /\ UNCHANGED <<age, over, records>>

\* POST /v1/correlations/{id}/status.
Decisions == {"open", "acknowledged", "suppressed"}
SetStatus(next) ==
    /\ next \in Decisions /\ incident # "none"
    /\ incident' = next
    /\ UNCHANGED <<age, over, records>>

\* The scan ends: row and findings, then ledger and memory (Scanner has how).
Scan ==
    /\ records \notin Over
    /\ records' \in IF records = "empty" THEN {"stored"} ELSE Over
    /\ UNCHANGED <<age, over, incident>>

WorldStep == Tick \/ Detect \/ Recover \/ Scan \/ \E c \in Clusters : Report(c)

WorldTypeOK ==
    /\ age \in [Clusters -> Ages]
    /\ over \in SUBSET Services
    /\ incident \in Statuses
    /\ records \in {"empty", "stored"} \cup Over
=============================================================================
