-------------------------- MODULE CorrelationEngine --------------------------
(***************************************************************************)
(* One organisation's detection loop (src/services/api/engine.go), the     *)
(* correlations table it shares with the people on call, and the pages it  *)
(* sends.  Ticks of one organisation never overlap (sweep waits for every  *)
(* worker), so the engine is one process; each person changing a           *)
(* correlation's status through POST /v1/correlations/{id}/status is       *)
(* another.  They meet only in the table.                                  *)
(*                                                                         *)
(* The table is a ReplacingMergeTree versioned by UpdatedAt and read with  *)
(* FINAL: of all the rows written for an id the one stamped last is        *)
(* visible, whatever order they landed in.  A write is stamped by the API  *)
(* before it is sent, so three moments are kept apart: reading, stamping   *)
(* and landing.  Stamps are modelled by their order alone: "earlier"       *)
(* relates two writes in flight for the same id, and a write is "beaten"   *)
(* once one stamped after it has landed.  The HTTP client gives a write up *)
(* after ten seconds, and the process may die with one sent: the store may *)
(* still execute what nobody waits for, at any later time.                 *)
(***************************************************************************)
EXTENDS Naturals, FiniteSets

CONSTANTS
    Services,               \* (cluster, model) pairs, the unit pages are deduplicated on
    Kinds,                  \* causes a rule can name
    Verdicts,               \* what Correlate can return for a breaching service
    Operators,              \* people who change a correlation's status
    Slots,                  \* abandoned writes that may be pending at once
    Faults,                 \* what may go wrong: a subset of FaultKinds
    MissesBeforeResolve     \* ticks of absence before a correlation is closed

Severities == {"warning", "critical"}
FaultKinds == {"read",      \* correlationStatuses fails
               "post",      \* no destination accepts the page
               "insert",    \* the batch of detections is not written
               "lateinsert",\* the batch is given up, and written later
               "status",    \* setStatus fails and nothing is written
               "latestatus",\* setStatus is given up, and written later
               "unacked",   \* setStatus is written but reported as failed
               "restart"}   \* the API process restarts

ASSUME VerdictAssumption == Verdicts \subseteq [kind : Kinds, severity : Severities]
ASSUME FaultAssumption == Faults \subseteq FaultKinds
ASSUME MissesAssumption == MissesBeforeResolve \in Nat \ {0}
ASSUME WriterAssumption == "engine" \notin Operators \cup Slots /\ Operators \cap Slots = {}

Ids == Services \X Kinds
Writers == Operators \cup {"engine"}
Hands == Writers \cup Slots
Decisions == {"acknowledged", "suppressed"}

\* The columns of a correlations row the engine reads back.  The zero value of
\* correlationState, which a lookup of an unknown id returns, stands for no row.
Row == [status : Decisions \cup {"", "open", "resolved"},
        notified : Severities \cup {"none"}]
NoRow == [status |-> "", notified |-> "none"]
Healthy == [kind |-> "none", severity |-> "none"]

VARIABLES
    store,      \* the visible row of each id
    earlier,    \* per id, pairs of writes in flight: the first was stamped before the second
    beaten,     \* per id, writers whose write in flight has already lost
    late,       \* the rows of each abandoned write the store has yet to execute
    rmw,        \* per writer, its setStatus call in progress
    pc,         \* where the engine's tick stands
    signals,    \* verdict on each service in the latest collection of signals
    todo,       \* services of this tick still to be diagnosed
    existing,   \* the statuses this tick has read
    pagedFor,   \* highest severity already paged for each service, as this tick sees it
    found,      \* rows this tick will insert, stamped when diagnosed
    toResolve,  \* ids this tick still has to close
    misses      \* engine.misses, in memory

\* What the properties remember; no action of the code reads these.
VARIABLES
    told,       \* per id, the highest severity delivered since it was last closed,
                \* and whether a page was delivered that was no escalation for its service
    absent,     \* per id, consecutive ticks that did not detect it
    held        \* ids under a human decision since before the last tick began

tableVars == <<store, earlier, beaten, late>>
tickVars == <<pc, signals, todo, existing, pagedFor, found, toResolve, misses>>
historyVars == <<told, absent, held>>
vars == <<tableVars, rmw, tickVars, historyVars>>

Idle == [step |-> "idle", id |-> <<>>, row |-> NoRow]
NotTold == [severity |-> "none", repeated |-> FALSE]

SeverityOrder == [none |-> 0, warning |-> 1, critical |-> 2]

AtMost(n) == IF n > MissesBeforeResolve THEN MissesBeforeResolve ELSE n

(***************************************************************************)
(* Pure decisions of the tick.                                             *)
(***************************************************************************)

\* Mutants of the decisions below: "suppressed" forgotten; "resolved" carried on.
StatusWithoutSuppressed(previous) ==
    IF previous = "acknowledged" THEN previous ELSE "open"
StatusCarriedOn(previous) ==
    IF previous = "" THEN "open" ELSE previous

\* Only a human's decision survives a re-detection.
StatusForDetection(previous) ==
    IF previous \in Decisions THEN previous ELSE "open"

\* Mutants: the record is never cleared; the wrong column is carried forward.
RememberedForever(row) == row.notified
RememberedStatus(row) == row.status

\* A reopened correlation forgets the page of the incident that ended.
Remembered(row) ==
    IF row.status = "resolved" THEN "none" ELSE row.notified

\* Mutant: an equal severity counts as an escalation.
ShouldNotifyAgain(status, severity, notified) ==
    /\ status = "open"
    /\ SeverityOrder[severity] >= SeverityOrder[notified]

ShouldNotify(status, severity, notified) ==
    /\ status = "open"
    /\ \/ notified = "none"
       \/ SeverityOrder[severity] > SeverityOrder[notified]

\* Mutant: closed correlations count too.
PagedForServiceEver(rows, s) ==
    LET paged == {rows[i].notified : i \in {j \in Ids : j[1] = s}}
    IN  IF "critical" \in paged THEN "critical"
        ELSE IF "warning" \in paged THEN "warning" ELSE "none"

\* Highest severity paged for a service across its open correlations.
PagedForService(rows, s) ==
    LET paged == {rows[i].notified : i \in {j \in Ids : j[1] = s /\ rows[j].status = "open"}}
    IN  IF "critical" \in paged THEN "critical"
        ELSE IF "warning" \in paged THEN "warning" ELSE "none"

(***************************************************************************)
(* The table.                                                              *)
(***************************************************************************)

Live == {i \in Ids : found[i].status # ""}
Pending(k) == {i \in Ids : late[k][i].status # ""}

\* Writers with a stamped write for i in flight.
InFlight(i) ==
    {w \in Writers : rmw[w].step = "stamped" /\ rmw[w].id = i}
        \cup {w \in {"engine"} : i \in Live}
        \cup {k \in Slots : i \in Pending(k)}

\* The engine stamps a fresh write for i: everything in flight is older.
Stamp(i, w) ==
    /\ earlier' = [earlier EXCEPT ![i] = @ \cup (InFlight(i) \X {w})]
    /\ UNCHANGED <<store, beaten, late>>

Without(pairs, w) == {p \in pairs : p[1] # w /\ p[2] # w}

\* The writes of w for the ids in I land; row[i] becomes visible unless a write
\* stamped later is there already.
Land(I, w, row) ==
    /\ store' = [i \in Ids |-> IF i \in I /\ w \notin beaten[i] THEN row[i] ELSE store[i]]
    /\ beaten' = [i \in Ids |->
                    IF i \in I
                    THEN (beaten[i] \cup {v \in Hands : <<v, w>> \in earlier[i]}) \ {w}
                    ELSE beaten[i]]
    /\ earlier' = [i \in Ids |-> IF i \in I THEN Without(earlier[i], w) ELSE earlier[i]]

\* The writes of w for the ids in I never land.
Drop(I, w) ==
    /\ beaten' = [i \in Ids |-> IF i \in I THEN beaten[i] \ {w} ELSE beaten[i]]
    /\ earlier' = [i \in Ids |-> IF i \in I THEN Without(earlier[i], w) ELSE earlier[i]]
    /\ UNCHANGED <<store, late>>

Passed(x, w, k) == IF x = w THEN k ELSE x

\* The writes of w for the ids in I are given up but not lost: they keep their
\* stamps and stay in flight, in slot k.
Abandon(I, w, row, k) ==
    /\ Pending(k) = {}
    /\ late' = [late EXCEPT ![k] = [i \in Ids |-> IF i \in I THEN row[i] ELSE NoRow]]
    /\ beaten' = [i \in Ids |->
                    IF i \in I THEN {Passed(v, w, k) : v \in beaten[i]} ELSE beaten[i]]
    /\ earlier' = [i \in Ids |->
                    IF i \in I
                    THEN {<<Passed(p[1], w, k), Passed(p[2], w, k)>> : p \in earlier[i]}
                    ELSE earlier[i]]
    /\ UNCHANGED store

(***************************************************************************)
(* The tick.                                                               *)
(***************************************************************************)

Init ==
    /\ store = [i \in Ids |-> NoRow]
    /\ earlier = [i \in Ids |-> {}]
    /\ beaten = [i \in Ids |-> {}]
    /\ late = [k \in Slots |-> [i \in Ids |-> NoRow]]
    /\ rmw = [w \in Writers |-> Idle]
    /\ pc = "idle"
    /\ signals = [s \in Services |-> Healthy]
    /\ todo = {}
    /\ existing = [i \in Ids |-> NoRow]
    /\ pagedFor = [s \in Services |-> "none"]
    /\ found = [i \in Ids |-> NoRow]
    /\ toResolve = {}
    /\ misses = [i \in Ids |-> 0]
    /\ told = [i \in Ids |-> NotTold]
    /\ absent = [i \in Ids |-> 0]
    /\ held = {}

\* Decisions in the table, unless a later row for the same id is still to be
\* executed: that id has been changed already.
Decided ==
    {i \in Ids :
        /\ store[i].status \in Decisions
        /\ \A k \in Slots : i \in Pending(k) /\ k \notin beaten[i] =>
                late[k][i].status = store[i].status}

\* Collect the signals, then read the statuses.  A failed collection ends the
\* tick with nothing changed; a failed read of the statuses does not end it.
TickBegin ==
    /\ pc = "idle"
    /\ signals' \in [Services -> Verdicts \cup {Healthy}]
    /\ \/ existing' = store
       \/ "read" \in Faults /\ existing' = [i \in Ids |-> NoRow]
    /\ pagedFor' = [s \in Services |-> PagedForService(existing', s)]
    /\ todo' = {s \in Services : signals'[s] # Healthy}
    /\ held' = Decided
    /\ pc' = "detect"
    /\ UNCHANGED <<tableVars, rmw, found, toResolve, misses, told, absent>>

\* Somebody has been told of service s at that severity, by a correlation that
\* has not been closed since.
Heard(s, severity) ==
    \E i \in Ids : i[1] = s /\ SeverityOrder[told[i].severity] >= SeverityOrder[severity]

\* What somebody has been told of i once a page has been delivered.
Tell(i, severity) ==
    [severity |-> IF SeverityOrder[severity] > SeverityOrder[told[i].severity]
                  THEN severity ELSE told[i].severity,
     repeated |-> told[i].repeated \/ Heard(i[1], severity)]

\* Diagnose one breaching service, and page if that is news.
Detect(s) ==
    LET sev == signals[s].severity
        i == <<s, signals[s].kind>>
        prev == existing[i]
        status == StatusForDetection(prev.status)
        news == ShouldNotify(status, sev, pagedFor[s])
    IN  /\ pc = "detect"
        /\ s \in todo
        /\ \E delivered \in BOOLEAN :
              /\ delivered => news
              /\ news /\ ~delivered => "post" \in Faults
              /\ found' = [found EXCEPT ![i] =
                    [status |-> status,
                     notified |-> IF delivered THEN sev ELSE Remembered(prev)]]
              /\ pagedFor' = IF delivered THEN [pagedFor EXCEPT ![s] = sev] ELSE pagedFor
              /\ told' = IF delivered THEN [told EXCEPT ![i] = Tell(i, sev)] ELSE told
        /\ Stamp(i, "engine")
        /\ todo' = todo \ {s}
        /\ UNCHANGED <<rmw, pc, signals, existing, toResolve, misses, absent, held>>

\* Mutants: a detection does not reset the counter; the branches are swapped.
CountOfAllMisses(i) == IF i \in Live THEN misses[i] ELSE AtMost(misses[i] + 1)
CountOfDetections(i) == IF i \in Live THEN AtMost(misses[i] + 1) ELSE 0

\* miss and forget.  The counter is only ever compared with missesBeforeResolve,
\* so it is capped there.
ConsecutiveMisses(i) == IF i \in Live THEN 0 ELSE AtMost(misses[i] + 1)

\* Count the misses of every correlation read as open and not detected, and
\* pick those that have been gone long enough.
CountMisses ==
    LET open == {i \in Ids : existing[i].status = "open"}
    IN  /\ pc = "detect"
        /\ todo = {}
        /\ misses' = [i \in Ids |-> IF i \in open THEN ConsecutiveMisses(i) ELSE misses[i]]
        /\ toResolve' = {i \in open \ Live : ConsecutiveMisses(i) = MissesBeforeResolve}
        /\ absent' = [i \in Ids |-> IF i \in Live THEN 0 ELSE AtMost(absent[i] + 1)]
        /\ pc' = "close"
        /\ UNCHANGED <<tableVars, rmw, signals, todo, existing, pagedFor, found, told, held>>

\* Write what was found, in one insert, and end the tick.
TickEnd ==
    /\ pc = "close"
    /\ toResolve = {}
    /\ rmw["engine"].step = "idle"
    /\ \/ Land(Live, "engine", found) /\ late' = late
       \/ Live # {} /\ "insert" \in Faults /\ Drop(Live, "engine")
       \/ /\ Live # {}
          /\ "lateinsert" \in Faults
          /\ \E k \in Slots : Abandon(Live, "engine", found, k)
    /\ pc' = "idle"
    /\ existing' = [i \in Ids |-> NoRow]
    /\ pagedFor' = [s \in Services |-> "none"]
    /\ found' = [i \in Ids |-> NoRow]
    /\ UNCHANGED <<rmw, signals, todo, toResolve, misses, told, absent, held>>

(***************************************************************************)
(* setStatus: read the visible row, stamp a copy of it with the new        *)
(* status, insert the copy.  The engine calls it to resolve, the status    *)
(* endpoint to record a decision.                                          *)
(***************************************************************************)

StatusRead(w, i, status) ==
    /\ rmw[w].step = "idle"
    /\ store[i].status # ""
    /\ rmw' = [rmw EXCEPT ![w] = [step |-> "read", id |-> i,
                                  row |-> [store[i] EXCEPT !.status = status]]]
    /\ UNCHANGED <<tableVars, pc, signals, todo, existing, pagedFor, found, misses, told, absent>>

\* The engine closes one correlation.
ResolveRead(i) ==
    /\ pc = "close"
    /\ i \in toResolve
    /\ toResolve' = toResolve \ {i}
    /\ StatusRead("engine", i, "resolved")
    /\ UNCHANGED held

\* A person acknowledges, suppresses or reopens a correlation.
DecisionRead(h, i) ==
    /\ \E status \in Decisions \cup {"open"} : StatusRead(h, i, status)
    /\ UNCHANGED <<toResolve, held>>

StatusStamp(w) ==
    /\ rmw[w].step = "read"
    /\ rmw' = [rmw EXCEPT ![w].step = "stamped"]
    /\ Stamp(rmw[w].id, w)
    /\ UNCHANGED <<tickVars, historyVars>>

\* The copy lands.  The engine forgets the misses of what it has resolved,
\* unless the insert was reported to it as failed.
StatusWrite(w) ==
    LET i == rmw[w].id
    IN  /\ rmw[w].step = "stamped"
        /\ Land({i}, w, [j \in Ids |-> rmw[w].row])
        /\ late' = late
        /\ rmw' = [rmw EXCEPT ![w] = Idle]
        /\ \/ misses' = IF w = "engine" THEN [misses EXCEPT ![i] = 0] ELSE misses
           \/ "unacked" \in Faults /\ misses' = misses
        /\ told' = IF w = "engine" /\ w \notin beaten[i]
                   THEN [told EXCEPT ![i] = NotTold] ELSE told
        /\ held' = IF w = "engine" THEN held ELSE held \ {i}
        /\ UNCHANGED <<pc, signals, todo, existing, pagedFor, found, toResolve, absent>>

\* The read or the insert fails: nothing is written, the misses are kept.
StatusFail(w) ==
    /\ "status" \in Faults
    /\ rmw[w].step # "idle"
    /\ IF rmw[w].step = "stamped" THEN Drop({rmw[w].id}, w) ELSE UNCHANGED tableVars
    /\ rmw' = [rmw EXCEPT ![w] = Idle]
    /\ UNCHANGED <<tickVars, historyVars>>

\* The insert is given up after ten seconds, and executed later: the caller
\* treats it as failed.
StatusAbandon(w) ==
    LET i == rmw[w].id
    IN  /\ "latestatus" \in Faults
        /\ rmw[w].step = "stamped"
        /\ \E k \in Slots : Abandon({i}, w, [j \in Ids |-> rmw[w].row], k)
        /\ rmw' = [rmw EXCEPT ![w] = Idle]
        /\ held' = IF w = "engine" THEN held ELSE held \ {i}
        /\ UNCHANGED <<tickVars, told, absent>>

\* The store executes a write nobody waits for.
LateLands(k) ==
    /\ Pending(k) # {}
    /\ Land(Pending(k), k, late[k])
    /\ late' = [late EXCEPT ![k] = [i \in Ids |-> NoRow]]
    /\ told' = [i \in Ids |->
                  IF late[k][i].status = "resolved" /\ k \notin beaten[i]
                  THEN NotTold ELSE told[i]]
    /\ UNCHANGED <<rmw, tickVars, absent, held>>

\* The API process restarts: the tick, the requests in flight and the miss
\* counters are gone, the table stays, and so does what the store has been sent
\* (a write cut off by the restart is one abandoned just before it).
Restart ==
    /\ "restart" \in Faults
    /\ pc' = "idle"
    /\ todo' = {}
    /\ existing' = [i \in Ids |-> NoRow]
    /\ pagedFor' = [s \in Services |-> "none"]
    /\ found' = [i \in Ids |-> NoRow]
    /\ toResolve' = {}
    /\ misses' = [i \in Ids |-> 0]
    /\ rmw' = [w \in Writers |-> Idle]
    /\ earlier' = [i \in Ids |-> earlier[i] \cap (Slots \X Slots)]
    /\ beaten' = [i \in Ids |-> beaten[i] \cap Slots]
    /\ UNCHANGED <<store, late, signals, told, absent, held>>

EngineStep ==
    \/ TickBegin
    \/ \E s \in Services : Detect(s)
    \/ CountMisses
    \/ \E i \in Ids : ResolveRead(i)
    \/ StatusStamp("engine")
    \/ StatusWrite("engine")
    \/ StatusFail("engine")
    \/ StatusAbandon("engine")
    \/ TickEnd

OperatorStep(h) ==
    \/ \E i \in Ids : DecisionRead(h, i)
    \/ StatusStamp(h)
    \/ StatusWrite(h)
    \/ StatusFail(h)
    \/ StatusAbandon(h)

Next ==
    \/ EngineStep
    \/ \E h \in Operators : OperatorStep(h)
    \/ \E k \in Slots : LateLands(k)
    \/ Restart

Spec == Init /\ [][Next]_vars

\* The ticker goroutine keeps running, and activeOrgs goes on listing the
\* organisation because it sends telemetry; a destination, or the store, that is
\* tried again and again accepts some day.  Nobody has to act on a correlation.
Delivers(s) == Detect(s) /\ found'[<<s, signals[s].kind>>].notified = signals[s].severity

Closing(i) == rmw["engine"].id = i

Fairness ==
    /\ WF_vars(EngineStep)
    /\ \A s \in Services : SF_vars(Delivers(s))
    /\ \A i \in Ids : SF_vars(Closing(i) /\ StatusStamp("engine"))
    /\ \A i \in Ids : SF_vars(Closing(i) /\ StatusWrite("engine"))

FairSpec == Spec /\ Fairness

(***************************************************************************)
(* Properties.                                                             *)
(***************************************************************************)

\* Every variable has its type; what is in flight concerns the ids it should.
TypeOK ==
    /\ store \in [Ids -> Row]
    /\ earlier \in [Ids -> SUBSET (Hands \X Hands)]
    /\ beaten \in [Ids -> SUBSET Hands]
    /\ late \in [Slots -> [Ids -> Row]]
    /\ rmw \in [Writers -> {Idle} \cup [step : {"read", "stamped"}, id : Ids, row : Row]]
    /\ pc \in {"idle", "detect", "close"}
    /\ signals \in [Services -> Verdicts \cup {Healthy}]
    /\ todo \in SUBSET {s \in Services : signals[s] # Healthy}
    /\ existing \in [Ids -> Row]
    /\ pagedFor \in [Services -> Severities \cup {"none"}]
    /\ found \in [Ids -> Row]
    /\ toResolve \in SUBSET IF pc = "close" THEN Ids \ Live ELSE {}
    /\ misses \in [Ids -> 0 .. MissesBeforeResolve]
    /\ told \in [Ids -> [severity : Severities \cup {"none"}, repeated : BOOLEAN]]
    /\ absent \in [Ids -> 0 .. MissesBeforeResolve]
    /\ held \in SUBSET Ids

\* notify.go, rules 1 and 2, with the service as the unit (notifyKey): a service
\* is paged again only at a higher severity, or after the correlation that
\* carried the earlier page was closed.
OncePerService == \A i \in Ids : ~told[i].repeated

\* What an open row says somebody has been told was really delivered, since
\* the correlation was last closed: the record of an incident that ended never
\* suppresses the page of the next one (tick, the reopened case).
NotifiedIsEarned ==
    \A i \in Ids :
        store[i].status = "open" /\ store[i].notified # "none" =>
            SeverityOrder[told[i].severity] >= SeverityOrder[store[i].notified]

\* engine.misses: a correlation is closed only after it has been absent for
\* missesBeforeResolve ticks in a row.
ResolveNeedsConsecutiveMisses ==
    [][\A i \in Ids :
          store[i].status # "resolved" /\ store'[i].status = "resolved" =>
              absent[i] = MissesBeforeResolve]_vars

HumanWrote(i) ==
    \E h \in Operators : rmw[h].step = "stamped" /\ rmw[h].id = i /\ rmw'[h].step = "idle"

\* A decision that was in the table before a tick began, with nothing stamped
\* after it still to come, is not undone by that tick, not even by a write of its
\* that the store executes after it has ended: only a person changes it (tick,
\* "a user's decision outranks the engine's").
DecisionStands ==
    [][\A i \in held : store'[i].status # store[i].status => HumanWrote(i)]_vars

\* What is no longer diagnosed does not stay open (tick, "Close what is no
\* longer happening").
AbsentIsClosed ==
    \A i \in Ids :
        <>[](signals[i[1]].kind # i[2]) => <>[](store[i].status # "open")

\* A diagnosis that stays is listed, however often it was closed before
\* (statusForDetection).
RecurrenceIsListed ==
    \A s \in Services : \A v \in Verdicts :
        <>[](signals[s] = v) => <>[](store[<<s, v.kind>>].status = "open")

\* A diagnosis that stays ends with somebody told of that service at that
\* severity, through whichever of its hypotheses.
BreachIsPaged ==
    \A s \in Services : \A v \in Verdicts :
        <>[](signals[s] = v) =>
            <>[](\E k \in Kinds :
                    /\ store[<<s, k>>].status = "open"
                    /\ store[<<s, k>>].notified # "none"
                    /\ SeverityOrder[store[<<s, k>>].notified] >= SeverityOrder[v.severity])
=============================================================================
