------------------------------- MODULE Scanner -------------------------------
(***************************************************************************)
(* The scanner of the API (services/api/scan.go): a scan is accepted with  *)
(* an id, runs in a goroutine that outlives its request, queues for the    *)
(* one Trivy, and is persisted in two inserts and a ledger entry.  Until   *)
(* its goroutine ends the id is in memory; after that only in the store.   *)
(*                                                                         *)
(* A scan stands for its target as well.  What Trivy reports of a target   *)
(* is abstracted to its verdict: vulnerabilities matched, none matched, or *)
(* none matched on a system that no longer gets advisories.                *)
(***************************************************************************)
EXTENDS FiniteSets

CONSTANTS
    Scans,      \* the scans that may be asked for, each of a target of its own
    Faults      \* what may go wrong

FaultKinds == {"trivy", "store", "audit", "restart", "sameMilli",
               "call", "action", "poll"}

ASSUME FaultsAssumption == Faults \subseteq FaultKinds

VARIABLES
    job,        \* per scan: where its goroutine is, its id and its result
    running,    \* s.running: the ids in memory
    trivy,      \* s.execMu: the scans that hold it, none or one
    rows,       \* orchestr8.scans
    findings,   \* orchestr8.scan_findings: which scans' lists, under which id
    ledger,     \* the scans' entries in the audit ledger
    lost        \* inserts that reported an error, or never answered: each may
                \* be executed at any later time, or never

scannerVars == <<job, running, trivy, rows, findings, ledger, lost>>

Whys == {"", "trivy", "unparsed"}
Verdicts == {"matched", "clean", "unwatched"}
NoResult == [outcome |-> "ok", why |-> "", verdict |-> "clean"]
NewJob(s) == [at |-> "new", id |-> s, result |-> NoResult]

Results == [outcome : {"ok", "failed"}, why : Whys, verdict : Verdicts]
Places == {"new", "queued", "trivy", "row", "findings", "end", "done", "killed"}
Jobs == [at : Places, id : Scans, result : Results]
Rows == [id : Scans, scan : Scans, outcome : {"ok", "failed"}, verdict : Verdicts]
Entries == [scan : Scans, what : {"allowed", "failed"}]

\* An insert is named by the place of the goroutine that makes it.
Inserts == [scan : Scans, at : {"row", "findings", "end"}]
Insert(s) == [scan |-> s, at |-> job[s].at]
Refused(s) == \E i \in lost : i.scan = s

Active(s) == job[s].at \notin {"new", "done", "killed"}

ScannerInit ==
    /\ job = [s \in Scans |-> NewJob(s)]
    /\ running = {}
    /\ trivy = {}
    /\ rows = {} /\ findings = {} /\ ledger = {} /\ lost = {}

Goes(s, place) == job' = [job EXCEPT ![s].at = place]
Ends(s, place, result) ==
    job' = [job EXCEPT ![s].at = place, ![s].result = result]
\* Mutant: an error of Trivy is kept, but the outcome is not set.
FailedAsOk(why) == [NoResult EXCEPT !.why = why]

Failed(why) == [NoResult EXCEPT !.outcome = "failed", !.why = why]

\* The id is the millisecond of the request: two of one millisecond share it.
IdsFor(s) ==
    {s} \cup (IF "sameMilli" \in Faults
              THEN {job[o].id : o \in {x \in Scans \ {s} : job[x].at # "new"}}
              ELSE {})

Start(s, id) ==
    /\ job[s].at = "new"
    /\ id \in IdsFor(s)
    /\ running' = running \cup {id}
    /\ job' = [job EXCEPT ![s].at = "queued", ![s].id = id]
    /\ UNCHANGED <<trivy, rows, findings, ledger, lost>>

TakeTrivy(s) ==
    /\ job[s].at = "queued" /\ trivy = {}
    /\ trivy' = {s}
    /\ Goes(s, "trivy")
    /\ UNCHANGED <<running, rows, findings, ledger, lost>>

\* Trivy fails, or the four minutes are over: they began with the goroutine,
\* before the lock, so that a scan that queued for them never runs at all.
TrivyFails(s) ==
    /\ job[s].at = "trivy"
    /\ trivy' = {}
    /\ Ends(s, "row", Failed("trivy"))
    /\ UNCHANGED <<running, rows, findings, ledger, lost>>

\* Both passes.  The second, for the bill of materials, may fail: the scan
\* stands without it.  An output that cannot be parsed is a failed scan.
TrivyPasses(s) ==
    /\ job[s].at = "trivy"
    /\ trivy' = {}
    /\ \/ \E v \in Verdicts : Ends(s, "row", [NoResult EXCEPT !.verdict = v])
       \/ "trivy" \in Faults /\ Ends(s, "row", Failed("unparsed"))
    /\ UNCHANGED <<running, rows, findings, ledger, lost>>

RowOf(s) == [id |-> job[s].id, scan |-> s, outcome |-> job[s].result.outcome,
             verdict |-> job[s].result.verdict]

\* Mutant: the findings are never written.
AfterRowEnd(s) == "end"

AfterRow(s) == IF job[s].result.verdict = "matched" THEN "findings" ELSE "end"

InsertRow(s) ==
    /\ job[s].at = "row"
    /\ rows' = rows \cup {RowOf(s)}
    /\ Goes(s, AfterRow(s))
    /\ UNCHANGED <<running, trivy, findings, ledger, lost>>

\* Without its row a scan has no findings either.
RowFails(s) ==
    /\ job[s].at = "row" /\ "store" \in Faults
    /\ lost' = lost \cup {Insert(s)}
    /\ Goes(s, "end")
    /\ UNCHANGED <<running, trivy, rows, findings, ledger>>

FindingsOf(s) == [id |-> job[s].id, scan |-> s]

InsertFindings(s) ==
    /\ job[s].at = "findings"
    /\ findings' = findings \cup {FindingsOf(s)}
    /\ Goes(s, "end")
    /\ UNCHANGED <<running, trivy, rows, ledger, lost>>

FindingsFail(s) ==
    /\ job[s].at = "findings" /\ "store" \in Faults
    /\ lost' = lost \cup {Insert(s)}
    /\ Goes(s, "end")
    /\ UNCHANGED <<running, trivy, rows, findings, ledger>>

\* A failure of Trivy is audited even when its row could not be written, a
\* result only when it was, an output that could not be parsed never.
Audited(s) == \/ job[s].result.why = "trivy"
              \/ job[s].result.why = "" /\ ~Refused(s)

EntryOf(s) ==
    [scan |-> s, what |-> IF job[s].result.why = "trivy" THEN "failed" ELSE "allowed"]

\* The append, and whether its error, if any, is dropped (scan.go:217, :301).
Appends(s) ==
    \/ /\ ledger' = IF Audited(s) THEN ledger \cup {EntryOf(s)} ELSE ledger
       /\ UNCHANGED lost
    \/ /\ Audited(s) /\ "audit" \in Faults
       /\ lost' = lost \cup {Insert(s)}
       /\ UNCHANGED ledger

\* Mutant: the deferred unmark is missing.
EndStillMarked(s) ==
    /\ job[s].at = "end"
    /\ Appends(s)
    /\ Goes(s, "done")
    /\ UNCHANGED <<running, trivy, rows, findings>>

\* The append and the deferred unmark.
End(s) ==
    /\ job[s].at = "end"
    /\ Appends(s)
    /\ running' = running \ {job[s].id}
    /\ Goes(s, "done")
    /\ UNCHANGED <<trivy, rows, findings>>

Inserting(s) == \/ job[s].at \in {"row", "findings"}
                \/ job[s].at = "end" /\ Audited(s)

\* The process is replaced: goroutines, lock and map are gone.  An insert
\* already on its way may still arrive.
Restart ==
    /\ "restart" \in Faults
    /\ \E s \in Scans : Active(s)
    /\ running' = {}
    /\ trivy' = {}
    /\ job' = [s \in Scans |-> IF Active(s) THEN [job[s] EXCEPT !.at = "killed"]
                                            ELSE job[s]]
    /\ lost' = lost \cup {Insert(s) : s \in {x \in Scans : Inserting(x)}}
    /\ UNCHANGED <<rows, findings, ledger>>

\* ClickHouse executes an insert whose caller no longer waits for it.
LateInsert(i) ==
    /\ \/ /\ i.at = "row"
          /\ rows' = rows \cup {RowOf(i.scan)}
          /\ UNCHANGED <<findings, ledger>>
       \/ /\ i.at = "findings"
          /\ findings' = findings \cup {FindingsOf(i.scan)}
          /\ UNCHANGED <<rows, ledger>>
       \/ /\ i.at = "end"
          /\ ledger' = ledger \cup {EntryOf(i.scan)}
          /\ UNCHANGED <<rows, findings>>
    /\ UNCHANGED <<job, running, trivy, lost>>

Work(s) ==
    \/ TakeTrivy(s) \/ TrivyFails(s) \/ TrivyPasses(s)
    \/ InsertRow(s) \/ RowFails(s)
    \/ InsertFindings(s) \/ FindingsFail(s)
    \/ End(s)

(***************************************************************************)
(* GET /v1/scans/{id}: memory first, and the store only for an id that is  *)
(* not in memory.  "gone" is the 404.                                      *)
(***************************************************************************)
RunningAnswer == [status |-> "running", list |-> "empty", scans |-> {}]
GoneAnswer == [RunningAnswer EXCEPT !.status = "gone"]

\* Mutant: only the scan that Trivy works on is known.
InMemoryWithTrivy(id) == \E s \in trivy : job[s].id = id

InMemory(id) == id \in running

FindingsFor(id) == {f \in findings : f.id = id}

\* The list a reader is given under a row's name: its findings, or none, with
\* the row's word on whether the system still gets advisories.
ListFor(r) ==
    IF FindingsFor(r.id) # {} THEN "findings"
    ELSE IF r.verdict = "unwatched" THEN "unwatched"
    ELSE "empty"

StoredAnswers(id) ==
    IF \A r \in rows : r.id # id THEN {GoneAnswer}
    ELSE {[status |-> r.outcome, list |-> ListFor(r),
           scans |-> {r.scan} \cup {f.scan : f \in FindingsFor(id)}]
            : r \in {x \in rows : x.id = id}}

ScannerTypeOK ==
    /\ job \in [Scans -> Jobs]
    /\ running \subseteq Scans
    /\ trivy \subseteq Scans
    /\ rows \subseteq Rows
    /\ findings \subseteq [id : Scans, scan : Scans]
    /\ ledger \subseteq Entries
    /\ lost \subseteq Inserts
=============================================================================
