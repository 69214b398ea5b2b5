------------------------------- MODULE Pages -------------------------------
(***************************************************************************)
(* The pages of the web application (app/.../page.tsx) as a reader meets   *)
(* them: server components that ask the API several questions, each        *)
(* answered at a moment of its own, and say something of every answer --   *)
(* above all where a list is empty.  What they say is a set of claims;     *)
(* what a panel lays out of a list that is not empty is left out.          *)
(***************************************************************************)
EXTENDS Sequences, ReadApi

CONSTANTS
    MaxMoves,   \* bound: what happens elsewhere while a page loads
    MaxFailures \* bound: reads of one load that fail

VARIABLES
    page,     \* the page that is loaded or shown, or none
    moves,    \* what has happened elsewhere since it was asked for
    failures, \* reads of it that failed
    held      \* history: the facts that have been true ever since

pageVars == <<page, moves, failures, held>>
vars == <<worldVars, pageVars>>

\* What a page reads, in rounds: the next is asked for when the last has come.
Rounds ==
    [dashboard |-> <<{"gpus", "inference", "inventory", "headroom"}, {"trends"}>>,
     ai |-> <<{"inference"}>>,
     clusters |-> <<{"inventory"}>>,
     audit |-> <<{"ledger", "verification"}>>,
     correlation |-> <<{"correlation"}, {"evidence"}>>,
     security |-> <<{"scans"}, {"findings"}>>,
     settings |-> <<{"config", "team"}>>]
Names == DOMAIN Rounds

\* GET /v1/dashboard is one read of six queries, one after the other; those of its
\* services, which no claim rests on, are one step.
Chain == [gpus |-> "services", services |-> "correlations",
          correlations |-> "activity", activity |-> "freshness"]
Then(source) == IF source \in DOMAIN Chain THEN {Chain[source]} ELSE {}

Sources ==
    (UNION {Rounds[n][1] : n \in Names}) \cup {Chain[s] : s \in DOMAIN Chain}
    \cup {"trends", "evidence", "findings"}

AnswerOf(source) ==
    CASE source = "gpus"         -> Gpus
      [] source = "inference"    -> Inference
      [] source = "correlations" -> Correlations
      [] source = "activity"     -> Ledger
      [] source = "freshness"    -> Freshness
      [] source = "inventory"    -> Inventory
      [] source = "headroom"     -> Headroom
      [] source = "correlation"  -> Correlation
      [] source = "ledger"       -> Ledger
      [] source = "verification" -> Verification
      [] source = "findings"     -> Findings
      [] source = "config"       -> Config
      [] OTHER                   -> "some"   \* a series, the team: no claim rests on it

\* Only the AI page looks at the recommendations.
AnswersOf(source) ==
    CASE source = "inference" /\ page.name = "ai" -> Advised
      [] source = "scans"                         -> ScanList
      [] OTHER                                    -> {AnswerOf(source)}

NoPage == [name |-> "none", round |-> 0, asked |-> {}, got |-> [s \in Sources |-> "unread"]]

Init ==
    /\ WorldInit
    /\ page = NoPage /\ moves = 0 /\ failures = 0 /\ held = {}

Asked(name) == [NoPage EXCEPT !.name = name, !.round = 1, !.asked = Rounds[name][1]]

\* The first read that says there is nothing to go on with.
Stops ==
    \/ page.name = "correlation" /\ page.got["correlation"] \in {"none", "failed"}
    \/ page.name = "security" /\ page.got["scans"] \in {"none", "failed"}

Loaded == page.asked = {}
Last == page.round = Len(Rounds[page.name]) \/ Stops
Shown == page.name # "none" /\ Loaded /\ Last

(***************************************************************************)
(* Loading.                                                                *)
(***************************************************************************)
Ask(name) ==
    /\ page = NoPage
    /\ page' = Asked(name) /\ held' = Facts
    /\ UNCHANGED <<worldVars, moves, failures>>

Read(source) ==
    /\ source \in page.asked
    /\ \E answer \in AnswersOf(source) :
          page' = [page EXCEPT !.asked = (@ \ {source}) \cup Then(source),
                               !.got[source] = answer]
    /\ UNCHANGED <<worldVars, moves, failures, held>>

\* The API cannot be reached, answers an error or breaks the contract.  Of the
\* queries of the dashboard only the activity and the freshness may fail alone.
Breaks(source) == IF source \in {"activity"} THEN Then(source) ELSE {}

\* How a read fails.  A verification may be refused; of the configuration the
\* clusters may be lost, by a query whose error is dropped.
Failures(source) ==
    {"failed"} \cup (CASE source = "verification" -> {"refused"}
                      [] source = "config"       -> {"lost"}
                      [] OTHER                   -> {})

ReadFails(source) ==
    /\ source \in page.asked /\ failures < MaxFailures
    /\ failures' = failures + 1
    /\ \E how \in Failures(source) :
          page' = [page EXCEPT !.asked = (@ \ {source}) \cup Breaks(source),
                               !.got[source] = how]
    /\ UNCHANGED <<worldVars, moves, held>>

\* A read that finds the session ended leaves the page for the sign-in.
Leaves ==
    /\ page # NoPage
    /\ page' = NoPage /\ moves' = 0 /\ failures' = 0 /\ held' = {}
    /\ UNCHANGED worldVars

NextRound ==
    /\ page # NoPage /\ Loaded /\ ~Last
    /\ page' = [page EXCEPT !.round = @ + 1, !.asked = Rounds[page.name][page.round + 1]]
    /\ UNCHANGED <<worldVars, moves, failures, held>>

Move ==
    /\ page # NoPage /\ ~Shown /\ moves < MaxMoves
    /\ WorldStep
    /\ moves' = moves + 1
    /\ held' = held \cap Facts'
    /\ UNCHANGED <<page, failures>>

(***************************************************************************)
(* What the pages say.                                                     *)
(***************************************************************************)
Got(source) == page.got[source]
Empty(source) == Got(source) \in {"none", "failed"}

\* Mutant: nothing is shown where there is no time to show.
BannerIfHeard == IF Got("freshness") = "old" THEN {"stale"} ELSE {}

\* TelemetryStatus: an API that could not tell gives no time either.
Banner ==
    CASE Got("freshness") = "fresh" -> {}
      [] Got("freshness") = "old"   -> {"stale"}
      [] OTHER                      -> {"no telemetry yet"}

Breaching == Got("inference") = "over"

\* The empty list of incidents, next to the tile that counts the models.
Quiet == {"no incidents"} \cup (IF Breaching THEN {} ELSE {"all within"})

Tiles == IF Breaching THEN {} ELSE {"all within"}

Incidents == IF Got("correlations") = "none" THEN Quiet ELSE {}
InferenceServices == IF Empty("inference") THEN {"no services"} ELSE {}
GpuFleet == IF Got("gpus") = "none" THEN {"no GPUs"} ELSE {}
FleetCost == IF Empty("inventory") THEN {"no inventory"} ELSE {}
HeadroomPanel == IF Empty("headroom") THEN {"no headroom"} ELSE {}
ActivityFeed == IF Empty("activity") THEN {"no activity"} ELSE {}

Dashboard ==
    Banner \cup Tiles \cup Incidents \cup InferenceServices \cup GpuFleet
    \cup FleetCost \cup HeadroomPanel \cup ActivityFeed

DashboardPage ==
    IF "failed" \in {Got("gpus"), Got("services"), Got("correlations")}
    THEN {"unavailable"} ELSE Dashboard

\* A page of one list says that it could not be read.
ListOr(source, claim) ==
    CASE Got(source) = "failed" -> {"unavailable"}
      [] Got(source) = "none"   -> {claim}
      [] OTHER                  -> {}

\* The empty list of recommendations: "Every model is inside its SLO".
Advice == IF Got("inference") \in {"none", "within", "over"} THEN {"nothing to advise"} ELSE {}
\* The table of the models marks the time of one that is over its target.
Table == IF Got("inference") \in {"over", "over, advised"} THEN {"over target"} ELSE {}
AIPage == ListOr("inference", "no services") \cup Table \cup Advice

Fleet == IF Got("inventory") = "none" THEN {"no clusters"} ELSE {}
ClustersPage == IF Got("inventory") = "failed" THEN {"unavailable"} ELSE Fleet

CorrelationPage == ListOr("correlation", "not found")

\* One that throws takes the other with it; a verification that was refused
\* only takes its headline.
AuditPage ==
    IF "failed" \in {Got("ledger"), Got("verification")} THEN {"unavailable"}
    ELSE (IF Got("ledger") = "none" THEN {"no entries"} ELSE {})
         \cup (IF Got("verification") = "intact" THEN {"intact"} ELSE {})

\* Of an operating system that is not supported an empty list is no good news.
NoRows == Empty("findings")
SecurityPage ==
    ListOr("scans", "no scans")
    \cup (IF Got("scans") = "some" /\ NoRows THEN {"no findings"} ELSE {})

SettingsPage ==
    CASE Got("config") = "failed"           -> {"unavailable"}
      [] Got("config") \in {"none", "lost"} -> {"no clusters connected"}
      [] OTHER                              -> {}

PageOf(name) ==
    CASE name = "dashboard"   -> DashboardPage
      [] name = "ai"          -> AIPage
      [] name = "clusters"    -> ClustersPage
      [] name = "audit"       -> AuditPage
      [] name = "correlation" -> CorrelationPage
      [] name = "settings"    -> SettingsPage
      [] OTHER                -> SecurityPage

Says == IF Shown THEN PageOf(page.name) ELSE {}

(***************************************************************************)
(* Deciding on an incident: CorrelationActions and its server action.      *)
(***************************************************************************)
Buttons ==
    IF page.name = "correlation" /\ Shown /\ Got("correlation") \in Statuses \ {"none"}
    THEN (IF Got("correlation") = "open" THEN {"acknowledged"} ELSE {"open"})
         \cup ({"suppressed"} \ {Got("correlation")})
    ELSE {}

\* The status is set and the page rendered again.
Press(next) ==
    /\ next \in Buttons /\ moves < MaxMoves
    /\ SetStatus(next)
    /\ page' = Asked("correlation") /\ moves' = moves + 1 /\ held' = Facts'
    /\ UNCHANGED failures

\* The answer is an error, whether or not the row was written.
PressFails(next) ==
    /\ next \in Buttons /\ failures < MaxFailures /\ moves < MaxMoves
    /\ SetStatus(next) \/ UNCHANGED worldVars
    /\ failures' = failures + 1 /\ moves' = moves + 1 /\ held' = held \cap Facts'
    /\ UNCHANGED page

Next ==
    \/ \E name \in Names : Ask(name)
    \/ \E source \in Sources : Read(source) \/ ReadFails(source)
    \/ NextRound
    \/ Leaves
    \/ Move
    \/ \E next \in Decisions : Press(next) \/ PressFails(next)

Spec == Init /\ [][Next]_vars

TypeOK ==
    /\ WorldTypeOK
    /\ page.name \in Names \cup {"none"}
    /\ page.asked \subseteq Sources
    /\ moves \in 0..MaxMoves /\ failures \in 0..MaxFailures

\* Which facts a claim denies, and the read it rests on.
Denies ==
    [claim \in {"all within", "no incidents", "no services", "no GPUs", "no inventory",
                "no headroom", "no activity", "no clusters", "no telemetry yet",
                "not found", "no entries", "no scans", "no findings",
                "no clusters connected"} |->
        CASE claim = "all within"       -> [fact |-> "over", of |-> "inference"]
          [] claim = "no incidents"     -> [fact |-> "listed", of |-> "correlations"]
          [] claim = "no services"      -> [fact |-> "service", of |-> "inference"]
          [] claim = "no GPUs"          -> [fact |-> "GPU", of |-> "gpus"]
          [] claim = "no inventory"     -> [fact |-> "cluster", of |-> "inventory"]
          [] claim = "no headroom"      -> [fact |-> "service", of |-> "headroom"]
          [] claim = "no activity"      -> [fact |-> "entry", of |-> "activity"]
          [] claim = "no clusters"      -> [fact |-> "cluster", of |-> "inventory"]
          [] claim = "no telemetry yet" -> [fact |-> "heard", of |-> "freshness"]
          [] claim = "not found"        -> [fact |-> "known", of |-> "correlation"]
          [] claim = "no entries"       -> [fact |-> "entry", of |-> "ledger"]
          [] claim = "no scans"         -> [fact |-> "scan", of |-> "scans"]
          [] claim = "no clusters connected" -> [fact |-> "heard", of |-> "config"]
          [] OTHER                      -> [fact |-> "finding", of |-> "findings"]]

\* Where an empty list stands for what could not be read: the panels beside the
\* main read of the dashboard, the findings of a scan, the clusters of the
\* settings.
Unread(claim) ==
    Got(Denies[claim].of) \in CASE page.name \in {"dashboard", "security"} -> {"failed"}
                                [] page.name = "settings"                -> {"lost"}
                                [] OTHER                                 -> {}

\* A page that says there is nothing, or nothing wrong, does not deny what was
\* the case from the moment it was asked for until it was shown -- a service
\* over its target, an incident on the list, a cluster, a finding, an entry --
\* but where it was unread.  The reads are answered at different moments, others
\* of them fail, and a page mixes them; for each claim there is one that it
\* rests on.  The AI page, whose "Every model is inside its SLO" (ai/page.tsx:85)
\* stands for a list without advice, marks in its table (:56) what that denies.
NothingMeansNothing ==
    /\ \A claim \in Says \cap DOMAIN Denies :
          Unread(claim) \/ \A f \in held : f[1] # Denies[claim].fact
    /\ "nothing to advise" \in Says /\ (\E f \in held : f[1] = "over") =>
          "over target" \in Says

\* "It arrived and stopped [...] a frozen snapshot that still looks healthy,
\* which is the single most dangerous way an observability tool can fail"
\* (telemetry-status.tsx:19): a dashboard loaded while every cluster was silent
\* carries a banner, whatever else failed and however long the silence is.
SilenceIsShown ==
    /\ page.name = "dashboard" /\ Shown /\ "unavailable" \notin Says
    /\ <<"silence", "everywhere">> \in held
    => Says \cap {"stale", "no telemetry yet"} # {}
=============================================================================
