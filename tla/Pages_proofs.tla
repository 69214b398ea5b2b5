---------------------------- MODULE Pages_proofs ----------------------------
(***************************************************************************)
(* Proofs about Pages, for every set of clusters, however much happens     *)
(* while a page loads and whichever of its reads fail.                     *)
(***************************************************************************)
EXTENDS Pages, TLAPS

(***************************************************************************)
(* The inductive invariant.                                                *)
(***************************************************************************)
\* Some fact of this kind has been true since the page was asked for.
Held(kind) == \E f \in held : f[1] = kind

\* What is to be denied is still so.
HeldIsTrue == held \subseteq Facts

\* An answer that says there is none came at a moment when there was none.
AnswersDeny ==
    /\ Got("inference") \in {"none", "within"} => ~Held("over")
    /\ Got("inference") = "none" => ~Held("service")
    /\ Got("headroom") = "none" => ~Held("service")
    /\ Got("correlations") = "none" => ~Held("listed")
    /\ Got("gpus") = "none" => ~Held("GPU")
    /\ Got("inventory") = "none" => ~Held("cluster")
    /\ Got("activity") = "none" => ~Held("entry")
    /\ Got("ledger") = "none" => ~Held("entry")
    /\ Got("freshness") = "null" => ~Held("heard")
    /\ Got("config") = "none" => ~Held("heard")
    /\ Got("correlation") = "none" => ~Held("known")
    /\ Got("scans") = "none" => ~Held("scan")
    /\ Got("findings") = "none" => ~Held("finding")
    /\ Got("freshness") = "fresh" => <<"silence", "everywhere">> \notin held

\* A read that a claim of the dashboard rests on is made before it is shown.
Comes(source) == source \in page.asked \/ Got(source) # "unread"
Answered(source) == Got(source) \notin {"unread", "failed"}
DashboardReads ==
    page.name = "dashboard" =>
        /\ Comes("inference") /\ Comes("gpus")
        /\ Answered("gpus") => Comes("services")
        /\ Answered("services") => Comes("correlations")
        /\ Answered("correlations") => Comes("activity")
        /\ Got("activity") # "unread" => Comes("freshness")

PageType ==
    /\ page = [name |-> page.name, round |-> page.round, asked |-> page.asked,
               got |-> [s \in Sources |-> page.got[s]]]
    /\ page.name \in Names \cup {"none"}
    /\ page.asked \subseteq Sources
    /\ page.name = "none" => page = NoPage
    /\ page.name \in Names => page.round \in 1..Len(Rounds[page.name])
    /\ page.name # "ai" => Got("inference") \in {"unread", "failed", "none", "within", "over"}
    /\ Got("freshness") \in {"unread", "failed", "null", "old", "fresh"}

Inv == WorldTypeOK /\ PageType /\ HeldIsTrue /\ AnswersDeny /\ DashboardReads

(***************************************************************************)
(* The world.                                                              *)
(***************************************************************************)
LEMMA WorldTypes == WorldInit => WorldTypeOK
  BY DEF WorldInit, WorldTypeOK

LEMMA ReportType == ASSUME WorldTypeOK, NEW c \in Clusters, Report(c) PROVE WorldTypeOK'
  <1>1. age' \in [Clusters -> Ages]
    BY DEF WorldTypeOK, Report, Ages, Fresh, Beyond
  <1>2. over' \in SUBSET Services'
    <2>. SUFFICES ASSUME NEW x \in over' PROVE x \in Services'
      OBVIOUS
    <2>1. CASE x = c
      BY <2>1 DEF WorldTypeOK, Report, Ages, Fresh, Beyond, InEngine, Services, Within
    <2>2. CASE x # c
      <3>1. x \in over
        BY <2>2 DEF Report
      <3>. QED BY <3>1, <2>2 DEF WorldTypeOK, Report, InEngine, Services, Within
    <2>. QED BY <2>1, <2>2
  <1>. QED BY <1>1, <1>2 DEF WorldTypeOK, Report

LEMMA TickType == WorldTypeOK /\ Tick => WorldTypeOK'
  <1>. SUFFICES ASSUME WorldTypeOK, Tick PROVE WorldTypeOK'
    OBVIOUS
  <1>1. age' \in [Clusters -> Ages]
    BY DEF Tick
  <1>2. over' \in SUBSET Services'
    BY DEF WorldTypeOK, Tick, Services, Within
  <1>. QED BY <1>1, <1>2 DEF WorldTypeOK, Tick

LEMMA WorldStepType == WorldTypeOK /\ WorldStep => WorldTypeOK'
  <1>. SUFFICES ASSUME WorldTypeOK, WorldStep PROVE WorldTypeOK'
    OBVIOUS
  <1>1. CASE Tick
    BY <1>1, TickType
  <1>2. CASE \E c \in Clusters : Report(c)
    BY <1>2, ReportType
  <1>3. CASE Detect \/ Recover \/ Scan
    BY <1>3 DEF WorldTypeOK, Detect, Recover, Scan, Services, Within, Statuses, Over
  <1>. QED BY <1>1, <1>2, <1>3 DEF WorldStep

LEMMA SetStatusType == ASSUME WorldTypeOK, NEW next \in Decisions, SetStatus(next) PROVE WorldTypeOK'
  BY DEF WorldTypeOK, SetStatus, Decisions, Services, Within, Statuses

(***************************************************************************)
(* The sources.                                                            *)
(***************************************************************************)
ClaimSources == {"gpus", "inference", "inventory", "headroom", "trends", "ledger",
    "verification", "correlation", "evidence", "scans", "findings", "config", "team",
    "services", "correlations", "activity", "freshness"}

LEMMA NamesAre ==
    Names = {"dashboard", "ai", "clusters", "audit", "correlation", "security", "settings"}
  BY DEF Names, Rounds

LEMMA FirstRounds ==
    /\ Rounds["dashboard"][1] = {"gpus", "inference", "inventory", "headroom"}
    /\ Rounds["ai"][1] = {"inference"}
    /\ Rounds["clusters"][1] = {"inventory"}
    /\ Rounds["audit"][1] = {"ledger", "verification"}
    /\ Rounds["correlation"][1] = {"correlation"}
    /\ Rounds["security"][1] = {"scans"}
    /\ Rounds["settings"][1] = {"config", "team"}
  BY DEF Rounds

LEMMA SecondRounds ==
    ASSUME NEW name \in Names, NEW round \in 1..Len(Rounds[name]), round # Len(Rounds[name])
    PROVE  round = 1 /\ Len(Rounds[name]) = 2
           /\ Rounds[name][2] \in {{"trends"}, {"evidence"}, {"findings"}}
  <1>1. /\ Len(Rounds["dashboard"]) = 2 /\ Rounds["dashboard"][2] = {"trends"}
        /\ Len(Rounds["ai"]) = 1
        /\ Len(Rounds["clusters"]) = 1
        /\ Len(Rounds["audit"]) = 1
        /\ Len(Rounds["correlation"]) = 2 /\ Rounds["correlation"][2] = {"evidence"}
        /\ Len(Rounds["security"]) = 2 /\ Rounds["security"][2] = {"findings"}
        /\ Len(Rounds["settings"]) = 1
    BY DEF Rounds
  <1>2. Len(Rounds[name]) \in {1, 2} /\ round \in Nat /\ 1 <= round /\ round <= Len(Rounds[name])
    BY <1>1, NamesAre
  <1>3. round = 1 /\ Len(Rounds[name]) = 2
    <2>. DEFINE n == Len(Rounds[name])
    <2>1. n \in {1, 2} /\ round \in Nat /\ 1 <= round /\ round <= n /\ round # n
      BY <1>2
    <2>. HIDE DEF n
    <2>2. round = 1 /\ n = 2
      BY <2>1
    <2>. QED BY <2>2 DEF n
  <1>4. name \in {"dashboard", "correlation", "security"}
    BY <1>1, <1>3, NamesAre
  <1>. QED BY <1>1, <1>3, <1>4

LEMMA SomeRounds == \A name \in Names : 1 \in 1..Len(Rounds[name])
  BY NamesAre DEF Rounds

LEMMA ChainIs ==
    /\ DOMAIN Chain = {"gpus", "services", "correlations", "activity"}
    /\ Chain["gpus"] = "services"
    /\ Chain["services"] = "correlations"
    /\ Chain["correlations"] = "activity"
    /\ Chain["activity"] = "freshness"
  BY DEF Chain

LEMMA SourcesAre == Sources = ClaimSources
  <1>1. {Chain[s] : s \in DOMAIN Chain} = {"services", "correlations", "activity", "freshness"}
    BY ChainIs
  <1>2. Sources \subseteq ClaimSources
    <2>. SUFFICES ASSUME NEW n \in Names, NEW x \in Rounds[n][1] PROVE x \in ClaimSources
      BY <1>1 DEF Sources, ClaimSources
    <2>. QED BY NamesAre, FirstRounds DEF ClaimSources
  <1>3. ClaimSources \subseteq Sources
    BY <1>1, NamesAre, FirstRounds DEF Sources, ClaimSources
  <1>. QED BY <1>2, <1>3

(***************************************************************************)
(* What is answered is so when it is answered.                             *)
(***************************************************************************)
LEMMA FactsOfAKind ==
    ASSUME NEW f \in Facts
    PROVE  /\ f[1] = "over" => over # {}
           /\ f[1] = "service" => Services # {}
           /\ f[1] = "GPU" => Within(InOverview) # {}
           /\ f[1] = "cluster" => Within(InFleet) # {}
           /\ f[1] = "heard" => Within(InDay) # {}
           /\ f[1] = "silence" => Within(Fresh) = {}
           /\ f[1] = "listed" => incident \in Listed
           /\ f[1] = "known" => incident # "none"
           /\ f[1] = "scan" => records # "empty"
           /\ f[1] = "finding" => records = "ended"
           /\ f[1] = "entry" => records \in Over
  <1>1. CASE \E c \in over : f = <<"over", c>>
    BY <1>1
  <1>2. CASE \E c \in Services : f = <<"service", c>>
    BY <1>2
  <1>3. CASE \E c \in Within(InOverview) : f = <<"GPU", c>>
    BY <1>3
  <1>4. CASE \E c \in Within(InFleet) : f = <<"cluster", c>>
    BY <1>4
  <1>5. CASE \E c \in Within(InDay) : f = <<"heard", c>>
    BY <1>5
  <1>6. CASE Within(Fresh) = {} /\ f = <<"silence", "everywhere">>
    BY <1>6
  <1>7. CASE incident \in Listed /\ f = <<"listed", "incident">>
    BY <1>7
  <1>8. CASE incident # "none" /\ f = <<"known", "incident">>
    BY <1>8
  <1>9. CASE records # "empty" /\ f = <<"scan", "stored">>
    BY <1>9
  <1>10. CASE records = "ended" /\ f = <<"finding", "stored">>
    BY <1>10
  <1>11. CASE records \in Over /\ f = <<"entry", "stored">>
    BY <1>11
  <1>. QED
    BY <1>1, <1>2, <1>3, <1>4, <1>5, <1>6, <1>7, <1>8, <1>9, <1>10, <1>11
       DEF Facts, If

LEMMA AnswersAreTrue ==
    ASSUME WorldTypeOK, HeldIsTrue
    PROVE  /\ Inference \in {"none", "within"} => ~Held("over")
           /\ Inference = "none" => ~Held("service")
           /\ Headroom = "none" => ~Held("service")
           /\ Correlations = "none" => ~Held("listed")
           /\ Gpus = "none" => ~Held("GPU")
           /\ Inventory = "none" => ~Held("cluster")
           /\ Ledger = "none" => ~Held("entry")
           /\ Freshness = "null" => ~Held("heard")
           /\ Config = "none" => ~Held("heard")
           /\ Correlation = "none" => ~Held("known")
           /\ "none" \in ScanList => ~Held("scan")
           /\ Findings = "none" => ~Held("finding")
           /\ Freshness = "fresh" => <<"silence", "everywhere">> \notin held
           /\ Inference \in {"none", "within", "over"}
           /\ Freshness \in {"null", "old", "fresh"}
  <1>1. \A f \in held : f \in Facts
    BY DEF HeldIsTrue
  <1>2. over \subseteq Services
    BY DEF WorldTypeOK
  <1>3. Inference \in {"none", "within", "over"}
        /\ (Inference \in {"none", "within"} => over = {})
        /\ (Inference = "none" => Services = {})
    BY <1>2 DEF Inference
  <1>4. /\ Headroom = "none" => Services = {}
        /\ Gpus = "none" => Within(InOverview) = {}
        /\ Inventory = "none" => Within(InFleet) = {}
        /\ Config = "none" => Within(InDay) = {}
    BY DEF Headroom, Gpus, Inventory, Config, Has
  <1>5. /\ Correlations = "none" => incident \notin Listed
        /\ Correlation = "none" => incident = "none"
        /\ Ledger = "none" => records \notin Over
        /\ "none" \in ScanList => records = "empty"
        /\ Findings = "none" => records # "ended"
    BY DEF Correlations, Correlation, Ledger, ScanList, Findings
  <1>6. /\ Freshness \in {"null", "old", "fresh"}
        /\ Freshness = "null" => Within(InDay) = {}
        /\ Freshness = "fresh" => Within(Fresh) # {}
    BY DEF Freshness
  <1>7. Freshness = "fresh" => <<"silence", "everywhere">> \notin held
    <2>. SUFFICES ASSUME <<"silence", "everywhere">> \in held PROVE Within(Fresh) = {}
      BY <1>6
    <2>. DEFINE f == <<"silence", "everywhere">>
    <2>1. f \in Facts /\ f[1] = "silence"
      BY <1>1
    <2>. QED BY <2>1, FactsOfAKind
  <1>. QED BY <1>1, <1>3, <1>4, <1>5, <1>6, <1>7, FactsOfAKind DEF Held

LEMMA Dispatch ==
    /\ AnswersOf("gpus") = {Gpus}
    /\ AnswersOf("correlations") = {Correlations}
    /\ AnswersOf("activity") = {Ledger}
    /\ AnswersOf("freshness") = {Freshness}
    /\ AnswersOf("inference") = IF page.name = "ai" THEN Advised ELSE {Inference}
    /\ AnswersOf("inventory") = {Inventory}
    /\ AnswersOf("headroom") = {Headroom}
    /\ AnswersOf("correlation") = {Correlation}
    /\ AnswersOf("ledger") = {Ledger}
    /\ AnswersOf("scans") = ScanList
    /\ AnswersOf("findings") = {Findings}
    /\ AnswersOf("config") = {Config}
  BY DEF AnswersOf, AnswerOf

\* With the advice or without, nothing is over its target where it is not said.
LEMMA AdvisedIsInference ==
    /\ "none" \in Advised => Inference = "none"
    /\ "within" \in Advised => Inference = "within"
    /\ \A answer \in Advised : answer # "unread"
  BY DEF Advised, Inference

(***************************************************************************)
(* The steps.                                                              *)
(***************************************************************************)
\* A page asked for anew has no answers.
LEMMA AskedAnew ==
    ASSUME NEW name \in Names, WorldTypeOK', page' = Asked(name), held' = Facts'
    PROVE  Inv'
  <1>1. page' = [name |-> name, round |-> 1, asked |-> Rounds[name][1],
                 got |-> [s \in Sources |-> "unread"]]
    BY DEF Asked, NoPage
  <1>2. \A s \in ClaimSources : Got(s)' = "unread"
    BY <1>1, SourcesAre DEF Got
  <1>3. PageType'
    <2>1. Rounds[name][1] \subseteq Sources
      BY DEF Sources
    <2>2. [s \in Sources |-> page'.got[s]] = page'.got
      BY <1>1
    <2>3. name # "none"
      BY NamesAre
    <2>. QED BY <1>1, <1>2, <2>1, <2>2, <2>3, SomeRounds DEF PageType, ClaimSources
  <1>4. HeldIsTrue'
    BY DEF HeldIsTrue
  <1>5. AnswersDeny'
    BY <1>2 DEF AnswersDeny, ClaimSources
  <1>6. DashboardReads'
    BY <1>1, <1>2, FirstRounds DEF DashboardReads, Comes, Answered, ClaimSources
  <1>. QED BY <1>3, <1>4, <1>5, <1>6 DEF Inv

\* No page: nothing asked for, nothing held.
LEMMA NothingAsked ==
    ASSUME WorldTypeOK', page' = NoPage, held' = {}
    PROVE  Inv'
  <1>1. \A s \in ClaimSources : Got(s)' = "unread"
    BY SourcesAre DEF Got, NoPage
  <1>2. PageType'
    <2>1. [s \in Sources |-> page'.got[s]] = page'.got
      BY DEF NoPage
    <2>2. page'.name \notin Names
      BY NamesAre DEF NoPage
    <2>. QED BY <1>1, <2>1, <2>2 DEF PageType, NoPage, ClaimSources
  <1>3. HeldIsTrue' /\ AnswersDeny'
    BY <1>1 DEF HeldIsTrue, AnswersDeny, ClaimSources
  <1>4. DashboardReads'
    BY NamesAre DEF DashboardReads, NoPage
  <1>. QED BY <1>2, <1>3, <1>4 DEF Inv

\* The world moves on under a page.
LEMMA WorldMoves ==
    ASSUME Inv, WorldTypeOK', page' = page, held' = held \cap Facts'
    PROVE  Inv'
  <1>1. \A kind : Held(kind)' => Held(kind)
    BY DEF Held
  <1>2. AnswersDeny'
    BY <1>1 DEF Inv, AnswersDeny, Got
  <1>3. PageType' /\ HeldIsTrue' /\ DashboardReads'
    BY DEF Inv, PageType, HeldIsTrue, DashboardReads, Comes, Answered, Got
  <1>. QED BY <1>2, <1>3 DEF Inv

LEMMA AnAnswerIsRead ==
    ASSUME WorldTypeOK, NEW source \in Sources, NEW answer \in AnswersOf(source)
    PROVE  answer # "unread"
  <1>1. /\ Gpus # "unread" /\ Headroom # "unread" /\ Inventory # "unread" /\ Config # "unread"
        /\ Correlations # "unread" /\ Ledger # "unread" /\ Freshness # "unread"
        /\ Inference # "unread" /\ Verification # "unread" /\ Findings # "unread"
    BY DEF Gpus, Headroom, Inventory, Config, Has, Correlations, Ledger, Freshness, Inference,
           Verification, Findings
  <1>2. Correlation # "unread"
    BY DEF WorldTypeOK, Correlation, Statuses
  <1>3. AnswerOf(source) # "unread"
    BY <1>1, <1>2 DEF AnswerOf
  <1>4. \A a \in ScanList : a # "unread"
    BY DEF ScanList
  <1>. QED BY <1>3, <1>4, AdvisedIsInference DEF AnswersOf

\* One read comes back, with an answer or with an error.
LEMMA OneComesBack ==
    ASSUME Inv, UNCHANGED worldVars, held' = held,
           NEW source \in page.asked, NEW answer, NEW more \in SUBSET Sources,
           page' = [page EXCEPT !.asked = (@ \ {source}) \cup more, !.got[source] = answer],
           answer \in AnswersOf(source) \/ answer \in Failures(source),
           source \in DOMAIN Chain /\ (answer # "failed" \/ source = "activity")
               => Chain[source] \in more
    PROVE  Inv'
  <1>. DEFINE got == [page.got EXCEPT ![source] = answer]
  <1>1. source \in Sources
    BY DEF Inv, PageType
  <1>2. page' = [name |-> page.name, round |-> page.round,
                 asked |-> (page.asked \ {source}) \cup more, got |-> got]
    <2>1. page = [name |-> page.name, round |-> page.round, asked |-> page.asked,
                  got |-> page.got]
      BY DEF Inv, PageType
    <2>. QED BY <2>1
  <1>3. DOMAIN page.got = Sources /\ page.got = [s \in Sources |-> page.got[s]]
    BY DEF Inv, PageType
  <1>4. /\ Got(source)' = answer
        /\ \A s \in Sources \ {source} : Got(s)' = Got(s)
    BY <1>1, <1>2, <1>3 DEF Got
  <1>5. answer # "unread"
    <2>1. \A how \in Failures(source) : how # "unread"
      BY DEF Failures
    <2>. QED BY <1>1, <2>1, AnAnswerIsRead DEF Inv
  <1>6. /\ Failures(source) \cap {"none", "within", "fresh", "null"} = {}
        /\ source \in {"inference", "freshness"} => Failures(source) = {"failed"}
    BY DEF Failures
  <1>7. PageType'
    <2>1. page.name # "ai" => Got("inference")' \in {"unread", "failed", "none", "within", "over"}
      BY <1>4, <1>6, SourcesAre, AnswersAreTrue, Dispatch DEF Inv, PageType, ClaimSources
    <2>2. Got("freshness")' \in {"unread", "failed", "null", "old", "fresh"}
      BY <1>4, <1>6, SourcesAre, AnswersAreTrue, Dispatch DEF Inv, PageType, ClaimSources
    <2>3. [s \in Sources |-> page'.got[s]] = page'.got
      BY <1>2, <1>3
    <2>4. page'.asked \subseteq Sources
      BY <1>2 DEF Inv, PageType
    <2>5. page.name # "none"
      BY DEF Inv, PageType, NoPage
    <2>. QED BY <1>2, <2>1, <2>3, <2>4, <2>5, <2>2 DEF Inv, PageType
  <1>8. Facts' = Facts
    BY DEF worldVars, Facts, Services, Within, If
  <1>9. HeldIsTrue' /\ WorldTypeOK'
    BY <1>8 DEF Inv, HeldIsTrue, WorldTypeOK, worldVars, Services, Within
  <1>10. \A kind : Held(kind)' <=> Held(kind)
    BY DEF Held
  <1>11. AnswersDeny'
    BY <1>4, <1>6, <1>10, SourcesAre, AnswersAreTrue, Dispatch, AdvisedIsInference
       DEF Inv, AnswersDeny, ClaimSources
  <1>12. DashboardReads'
    <2>. SUFFICES ASSUME page.name = "dashboard" PROVE DashboardReads'
      BY <1>2 DEF DashboardReads
    <2>1. \A s \in Sources : Comes(s) => Comes(s)'
      BY <1>2, <1>4, <1>5 DEF Comes
    <2>2. \A s : s \in more => Comes(s)'
      BY <1>2 DEF Comes
    <2>3. Comes("inference")' /\ Comes("gpus")'
      BY <2>1, SourcesAre DEF Inv, DashboardReads, ClaimSources
    <2>4. Answered("gpus")' => Comes("services")'
      BY <1>4, <2>1, ChainIs, <2>2, SourcesAre DEF Inv, DashboardReads, Answered, ClaimSources
    <2>5. Answered("services")' => Comes("correlations")'
      BY <1>4, <2>1, ChainIs, <2>2, SourcesAre DEF Inv, DashboardReads, Answered, ClaimSources
    <2>6. Answered("correlations")' => Comes("activity")'
      BY <1>4, <2>1, ChainIs, <2>2, SourcesAre DEF Inv, DashboardReads, Answered, ClaimSources
    <2>7. Got("activity")' # "unread" => Comes("freshness")'
      BY <1>4, <2>1, ChainIs, <2>2, SourcesAre DEF Inv, DashboardReads, ClaimSources
    <2>. QED BY <2>3, <2>4, <2>6, <2>7, <2>5 DEF DashboardReads
  <1>. QED BY <1>7, <1>9, <1>11, <1>12 DEF Inv

LEMMA NextInv == Inv /\ [Next]_vars => Inv'
  <1>. SUFFICES ASSUME Inv, [Next]_vars PROVE Inv'
    OBVIOUS
  <1>world. UNCHANGED worldVars => WorldTypeOK' /\ Facts' = Facts
    BY DEF Inv, WorldTypeOK, worldVars, Facts, Services, Within, If
  <1>1. ASSUME NEW name \in Names, Ask(name) PROVE Inv'
    BY <1>1, <1>world, AskedAnew DEF Ask
  <1>2. ASSUME NEW source \in Sources, Read(source) PROVE Inv'
    <2>1. Then(source) \in SUBSET Sources
      BY SourcesAre DEF Then, Chain, ClaimSources
    <2>2. source \in DOMAIN Chain => Chain[source] \in Then(source)
      BY DEF Then
    <2>3. PICK answer \in AnswersOf(source) :
              page' = [page EXCEPT !.asked = (@ \ {source}) \cup Then(source),
                                   !.got[source] = answer]
      BY <1>2 DEF Read
    <2>4. source \in page.asked /\ held' = held /\ UNCHANGED worldVars
      BY <1>2 DEF Read
    <2>. HIDE DEF Then
    <2>. QED BY <2>1, <2>2, <2>3, <2>4, OneComesBack
  <1>3. ASSUME NEW source \in Sources, ReadFails(source) PROVE Inv'
    <2>1. Breaks(source) \in SUBSET Sources
      BY SourcesAre DEF Breaks, Then, Chain, ClaimSources
    <2>2. PICK how \in Failures(source) :
              page' = [page EXCEPT !.asked = (@ \ {source}) \cup Breaks(source),
                                   !.got[source] = how]
      BY <1>3 DEF ReadFails
    <2>3. source \in DOMAIN Chain /\ (how # "failed" \/ source = "activity")
              => Chain[source] \in Breaks(source)
      <3>1. source \in DOMAIN Chain => how = "failed"
        BY <2>2 DEF Failures, Chain
      <3>. QED BY <3>1 DEF Breaks, Then
    <2>4. source \in page.asked /\ held' = held /\ UNCHANGED worldVars
      BY <1>3 DEF ReadFails
    <2>. QED BY <2>1, <2>2, <2>3, <2>4, OneComesBack
  <1>4. CASE NextRound
    <2>1. /\ UNCHANGED worldVars /\ held' = held /\ page # NoPage /\ page.asked = {}
          /\ page.round # Len(Rounds[page.name])
          /\ page' = [page EXCEPT !.round = @ + 1, !.asked = Rounds[page.name][page.round + 1]]
      BY <1>4 DEF NextRound, Loaded, Last
    <2>2. page.name \in Names
      BY <2>1 DEF Inv, PageType
    <2>3. page.round = 1 /\ Len(Rounds[page.name]) = 2 /\ Rounds[page.name][2] \subseteq Sources
      <3>1. page.round \in 1..Len(Rounds[page.name])
        BY <2>2 DEF Inv, PageType
      <3>. QED BY <2>1, <2>2, <3>1, SecondRounds, SourcesAre DEF ClaimSources
    <2>4. page' = [name |-> page.name, round |-> 2, asked |-> Rounds[page.name][2],
                   got |-> page.got]
      <3>1. page = [name |-> page.name, round |-> page.round, asked |-> page.asked,
                    got |-> page.got]
        BY DEF Inv, PageType
      <3>2. page.round + 1 = 2
        BY <2>3
      <3>. QED BY <2>1, <3>1, <3>2
    <2>5. page'.got = page.got /\ page'.name = page.name /\ page'.round = 2
          /\ page'.asked = Rounds[page.name][2]
      BY <2>4
    <2>6. PageType'
      <3>1. [s \in Sources |-> page.got[s]] = page.got
        BY DEF Inv, PageType
      <3>2. page' = [name |-> page'.name, round |-> page'.round, asked |-> page'.asked,
                     got |-> [s \in Sources |-> page'.got[s]]]
        BY <2>4, <2>5, <3>1
      <3>3. page'.name # "none"
        BY <2>2, <2>5, NamesAre
      <3>4. 2 \in 1..Len(Rounds[page.name])
        BY <2>3
      <3>. QED BY <2>3, <2>5, <3>2, <3>3, <3>4 DEF Inv, PageType, Got
    <2>7. AnswersDeny' /\ HeldIsTrue' /\ WorldTypeOK'
      BY <1>world, <2>1, <2>5 DEF Inv, AnswersDeny, HeldIsTrue, Held, Got
    <2>8. DashboardReads'
      BY <2>1, <2>5 DEF Inv, DashboardReads, Comes, Answered, Got
    <2>. QED BY <2>6, <2>7, <2>8 DEF Inv
  <1>5. CASE Leaves
    BY <1>5, <1>world, NothingAsked DEF Leaves
  <1>6. CASE Move
    BY <1>6, WorldStepType, WorldMoves DEF Move, Inv
  <1>7. ASSUME NEW next \in Decisions, Press(next) PROVE Inv'
    BY <1>7, SetStatusType, AskedAnew, NamesAre DEF Press, Inv
  <1>8. ASSUME NEW next \in Decisions, PressFails(next) PROVE Inv'
    BY <1>8, <1>world, SetStatusType, WorldMoves DEF PressFails, Inv
  <1>9. CASE UNCHANGED vars
    BY <1>9, <1>world, WorldMoves DEF vars, pageVars, Inv, HeldIsTrue
  <1>. QED BY <1>1, <1>2, <1>3, <1>4, <1>5, <1>6, <1>7, <1>8, <1>9 DEF Next

(***************************************************************************)
(* The theorems.                                                           *)
(***************************************************************************)
LEMMA InitInv == Init => Inv
  <1>. SUFFICES ASSUME Init PROVE Inv
    OBVIOUS
  <1>1. \A s \in ClaimSources : Got(s) = "unread"
    BY SourcesAre DEF Init, Got, NoPage
  <1>2. PageType
    <2>1. [s \in Sources |-> page.got[s]] = page.got
      BY DEF Init, NoPage
    <2>2. page.name \notin Names
      BY NamesAre DEF Init, NoPage
    <2>. QED BY <1>1, <2>1, <2>2 DEF Init, PageType, NoPage, ClaimSources
  <1>3. HeldIsTrue /\ AnswersDeny /\ DashboardReads
    BY <1>1, NamesAre DEF Init, NoPage, HeldIsTrue, AnswersDeny, DashboardReads, ClaimSources
  <1>. QED BY <1>2, <1>3, WorldTypes DEF Init, Inv

LEMMA Invariance == Spec => []Inv
  BY InitInv, NextInv, PTL DEF Spec

\* A dashboard that is not "unavailable" has read what its claims rest on.
LEMMA DashboardHasRead ==
    ASSUME Inv, Shown, page.name = "dashboard", "unavailable" \notin DashboardPage
    PROVE  Got("inference") # "unread" /\ Got("freshness") # "unread"
           /\ DashboardPage = Dashboard
  <1>1. "failed" \notin {Got("gpus"), Got("services"), Got("correlations")}
    BY DEF DashboardPage
  <1>2. page.asked = {}
    BY DEF Shown, Loaded
  <1>. QED BY <1>1, <1>2 DEF Inv, DashboardReads, Comes, Answered, DashboardPage

\* A source whose answer excludes the facts of a kind.
Excludes(source, fact) ==
    \/ fact = "over" /\ source = "inference" /\ Got(source) \in {"none", "within"}
    \/ fact = "heard" /\ source = "freshness" /\ Got(source) = "null"
    \/ Got(source) = "none" /\
           \/ fact = "service" /\ source \in {"inference", "headroom"}
           \/ fact = "listed" /\ source = "correlations"
           \/ fact = "GPU" /\ source = "gpus"
           \/ fact = "cluster" /\ source = "inventory"
           \/ fact = "entry" /\ source \in {"activity", "ledger"}
           \/ fact = "heard" /\ source = "config"
           \/ fact = "known" /\ source = "correlation"
           \/ fact = "scan" /\ source = "scans"
           \/ fact = "finding" /\ source = "findings"

LEMMA EveryClaim ==
    ASSUME Inv, NEW claim, claim \in Says, claim \in DOMAIN Denies,
           ~Unread(claim)
    PROVE  Excludes(Denies[claim].of, Denies[claim].fact)
  <1>. DEFINE Is(fact, of) == Denies[claim].fact = fact /\ Denies[claim].of = of
  <1>1. /\ claim = "all within" => Is("over", "inference")
        /\ claim = "no incidents" => Is("listed", "correlations")
        /\ claim = "no services" => Is("service", "inference")
        /\ claim = "no GPUs" => Is("GPU", "gpus")
        /\ claim = "no inventory" => Is("cluster", "inventory")
        /\ claim = "no headroom" => Is("service", "headroom")
        /\ claim = "no activity" => Is("entry", "activity")
        /\ claim = "no clusters" => Is("cluster", "inventory")
        /\ claim = "no telemetry yet" => Is("heard", "freshness")
        /\ claim = "not found" => Is("known", "correlation")
        /\ claim = "no entries" => Is("entry", "ledger")
        /\ claim = "no scans" => Is("scan", "scans")
        /\ claim = "no clusters connected" => Is("heard", "config")
        /\ claim = "no findings" => Is("finding", "findings")
    BY DEF Denies
  <1>2. Shown /\ Says = PageOf(page.name)
    BY DEF Says
  <1>3. page.name \in Names
    BY <1>2 DEF Inv, PageType, Shown
  <1>4. claim \notin {"unavailable", "stale", "intact", "nothing to advise", "over target"}
    BY DEF Denies
  <1>5. CASE page.name = "dashboard"
    <2>1. claim \in DashboardPage
      BY <1>2, <1>5 DEF PageOf
    <2>2. Got("inference") # "unread" /\ Got("freshness") # "unread" /\ claim \in Dashboard
      <3>1. "unavailable" \notin DashboardPage
        BY <1>4, <2>1 DEF DashboardPage, Dashboard, Banner, Tiles, Incidents, Quiet,
           InferenceServices, GpuFleet, FleetCost, HeadroomPanel, ActivityFeed
      <3>. QED BY <1>2, <1>5, <2>1, <3>1, DashboardHasRead
    <2>3. /\ Got("inference") \in {"failed", "none", "within", "over"}
          /\ Got("freshness") \in {"failed", "null", "old", "fresh"}
      BY <1>5, <2>2 DEF Inv, PageType
    <2>4. Got(Denies[claim].of) # "failed"
      BY <1>5 DEF Unread
    <2>5. CASE claim \in Banner
      BY <1>1, <1>4, <2>3, <2>5, <2>4 DEF Excludes, Banner
    <2>6. CASE claim \in Tiles
      BY <1>1, <2>3, <2>6, <2>4 DEF Excludes, Tiles, Breaching
    <2>7. CASE claim \in Incidents
      BY <1>1, <2>3, <2>7, <2>4 DEF Excludes, Incidents, Quiet, Breaching
    <2>8. CASE claim \in InferenceServices \cup GpuFleet
      BY <1>1, <2>8, <2>4 DEF Excludes, InferenceServices, GpuFleet, Empty
    <2>9. CASE claim \in FleetCost \cup HeadroomPanel \cup ActivityFeed
      BY <1>1, <2>9, <2>4 DEF Excludes, FleetCost, HeadroomPanel, ActivityFeed, Empty
    <2>. QED BY <2>2, <2>5, <2>6, <2>7, <2>8, <2>9 DEF Dashboard
  <1>6. CASE page.name = "ai"
    <2>1. claim = "no services" /\ Got("inference") = "none"
      BY <1>2, <1>4, <1>6 DEF PageOf, AIPage, ListOr, Table, Advice
    <2>. QED BY <1>1, <2>1 DEF Excludes
  <1>7. CASE page.name = "clusters"
    <2>1. claim = "no clusters" /\ Got("inventory") = "none"
      BY <1>2, <1>4, <1>7 DEF PageOf, ClustersPage, Fleet
    <2>. QED BY <1>1, <2>1 DEF Excludes
  <1>8. CASE page.name = "audit"
    <2>1. claim = "no entries" /\ Got("ledger") = "none"
      BY <1>2, <1>4, <1>8 DEF PageOf, AuditPage
    <2>. QED BY <1>1, <2>1 DEF Excludes
  <1>9. CASE page.name = "correlation"
    <2>1. claim = "not found" /\ Got("correlation") = "none"
      BY <1>2, <1>4, <1>9 DEF PageOf, CorrelationPage, ListOr
    <2>. QED BY <1>1, <2>1 DEF Excludes
  <1>10. CASE page.name = "settings"
    <2>1. claim = "no clusters connected" /\ Got("config") \in {"none", "lost"}
      BY <1>2, <1>4, <1>10 DEF PageOf, SettingsPage
    <2>2. Got("config") # "lost"
      BY <1>1, <1>10, <2>1 DEF Unread
    <2>. QED BY <1>1, <2>1, <2>2 DEF Excludes
  <1>11. CASE page.name = "security"
    <2>1. \/ claim = "no scans" /\ Got("scans") = "none"
          \/ claim = "no findings" /\ Got("findings") \in {"none", "failed"}
      BY <1>2, <1>4, <1>11 DEF PageOf, SecurityPage, NoRows, Empty, ListOr
    <2>2. Got(Denies[claim].of) # "failed"
      BY <1>11 DEF Unread
    <2>. QED BY <1>1, <2>1, <2>2 DEF Excludes
  <1>. QED BY <1>3, <1>5, <1>6, <1>7, <1>8, <1>9, <1>10, <1>11, NamesAre

\* Only the AI page advises, of models that it has read.
LEMMA AdviceIsRead ==
    ASSUME Inv, "nothing to advise" \in Says
    PROVE  page.name = "ai" /\ Says = AIPage /\ Got("inference") \in {"none", "within", "over"}
  <1>1. Says = PageOf(page.name)
    BY DEF Says
  <1>2. page.name = "ai"
    BY <1>1 DEF PageOf, DashboardPage, Dashboard, Banner, Tiles, Incidents, Quiet,
       InferenceServices, GpuFleet, FleetCost, HeadroomPanel, ActivityFeed, ClustersPage,
       Fleet, AuditPage, CorrelationPage, ListOr, SettingsPage, SecurityPage
  <1>3. Says = AIPage
    BY <1>1, <1>2 DEF PageOf
  <1>4. "nothing to advise" \in Advice
    BY <1>3 DEF AIPage, ListOr, Table
  <1>. QED BY <1>2, <1>3, <1>4 DEF Advice

LEMMA InvNothing == Inv => NothingMeansNothing
  <1>. SUFFICES ASSUME Inv PROVE NothingMeansNothing
    OBVIOUS
  <1>1. ASSUME NEW claim \in Says \cap DOMAIN Denies, ~Unread(claim)
        PROVE  ~Held(Denies[claim].fact)
    <2>1. Excludes(Denies[claim].of, Denies[claim].fact)
      BY <1>1, EveryClaim
    <2>. QED BY <2>1 DEF Inv, AnswersDeny, Excludes
  <1>2. ASSUME "nothing to advise" \in Says, Held("over") PROVE "over target" \in Says
    <2>1. Got("inference") = "over" /\ Says = AIPage
      BY <1>2, AdviceIsRead DEF Inv, AnswersDeny
    <2>. QED BY <2>1 DEF AIPage, Table
  <1>. QED BY <1>1, <1>2 DEF NothingMeansNothing, Held

LEMMA InvSilence == Inv => SilenceIsShown
  <1>. SUFFICES ASSUME Inv, page.name = "dashboard", Shown, "unavailable" \notin Says,
                       <<"silence", "everywhere">> \in held
                PROVE  Says \cap {"stale", "no telemetry yet"} # {}
    BY DEF SilenceIsShown
  <1>1. Says = DashboardPage
    BY DEF Says, PageOf
  <1>2. DashboardPage = Dashboard
    BY <1>1, DashboardHasRead
  <1>3. Got("freshness") # "fresh"
    BY DEF Inv, AnswersDeny
  <1>4. Banner \cap {"stale", "no telemetry yet"} # {}
    BY <1>3 DEF Banner
  <1>. QED BY <1>1, <1>2, <1>4 DEF Dashboard

\* For every set of clusters and however much the world moves while a page loads:
\* what a page says there is none of, there was a moment with none of it, where
\* the read that the claim rests on was answered; that another read failed makes
\* no claim untrue (app/page.tsx and its siblings, over the windows of the GET
\* handlers).
THEOREM NothingIsDeniedInVain == Spec => []NothingMeansNothing
  BY Invariance, InvNothing, PTL

\* Likewise a dashboard that is shown while no cluster has been heard for two
\* minutes says so (components/telemetry-status.tsx).
THEOREM SilenceAlwaysShows == Spec => []SilenceIsShown
  BY Invariance, InvSilence, PTL
=============================================================================
