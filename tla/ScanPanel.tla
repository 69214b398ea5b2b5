------------------------------ MODULE ScanPanel ------------------------------
(***************************************************************************)
(* The scanner and the scan panel of the web application                   *)
(* (components/security-scan.tsx through app/scan-actions.ts and           *)
(* lib/api/scans.ts), which asks for a scan and polls it.  Answers may     *)
(* come late, in any order, or not at all.                                 *)
(***************************************************************************)
EXTENDS Naturals, Scanner

CONSTANT MaxPolls   \* bound: polls of the panel in flight at once

VARIABLES
    run,        \* the panel's run, or none
    error,      \* the panel's error, "" when there is none
    call,       \* its startScanAction in flight, or none
    polls       \* its pollScanActions in flight

panelVars == <<run, error, call, polls>>
vars == <<scannerVars, panelVars>>

None == [none |-> TRUE]
NoId == "no id"

\* setRun({id: "", status: "running", ...}): asked is the target shown above it.
Asked(s) == [asked |-> s, id |-> NoId, status |-> "running", list |-> "empty",
             scans |-> {}]

Running == run # None /\ run.status = "running"
PollingId == IF Running THEN run.id ELSE NoId

Init ==
    /\ ScannerInit
    /\ run = None /\ error = "" /\ call = None /\ polls = {}

ScannerStep ==
    /\ \/ \E s \in Scans : Work(s)
       \/ Restart
       \/ \E i \in lost : LateInsert(i)
    /\ UNCHANGED panelVars

\* Somebody else's scan, or one whose panel was left before the API had it.
OtherStart(s) ==
    /\ call # None => call.scan # s
    /\ \E id \in Scans : Start(s, id)
    /\ UNCHANGED panelVars

(***************************************************************************)
(* Starting.                                                               *)
(***************************************************************************)
Press(s) ==
    /\ ~Running /\ call = None
    /\ job[s].at = "new"
    /\ run' = Asked(s)
    /\ error' = ""
    /\ call' = [scan |-> s, at |-> "sent"]
    /\ UNCHANGED <<scannerVars, polls>>

Accept ==
    /\ call # None /\ call.at = "sent"
    /\ \E id \in Scans : Start(call.scan, id)
    /\ call' = [call EXCEPT !.at = "accepted"]
    /\ UNCHANGED <<run, error, polls>>

StartAnswered ==
    /\ call # None /\ call.at = "accepted"
    /\ run' = IF run = None THEN None ELSE [run EXCEPT !.id = job[call.scan].id]
    /\ call' = None
    /\ UNCHANGED <<scannerVars, error, polls>>

\* The API is unreachable, slower than eight seconds, or answers no id; it may
\* have accepted the scan all the same.
StartFailed ==
    /\ "call" \in Faults
    /\ call # None
    /\ run' = None
    /\ error' = "start"
    /\ call' = None
    /\ UNCHANGED <<scannerVars, polls>>

\* The action itself throws: nothing after the await is executed.
StartThrows ==
    /\ "action" \in Faults
    /\ call # None
    /\ call' = None
    /\ UNCHANGED <<scannerVars, run, error, polls>>

(***************************************************************************)
(* Polling: every two seconds, whether or not the last poll has answered.  *)
(***************************************************************************)
Poll ==
    /\ PollingId # NoId
    /\ Cardinality(polls) < MaxPolls
    /\ LET p == [id |-> PollingId, at |-> "sent", answer |-> RunningAnswer]
       IN  p \notin polls /\ polls' = polls \cup {p}
    /\ UNCHANGED <<scannerVars, run, error, call>>

Becomes(p, q) ==
    /\ polls' = (polls \ {p}) \cup {q}
    /\ UNCHANGED <<scannerVars, run, error, call>>

Answered(p, a) == Becomes(p, [p EXCEPT !.at = "answered", !.answer = a])

PollMemory(p) ==
    /\ p.at = "sent"
    /\ IF InMemory(p.id) THEN Answered(p, RunningAnswer)
                         ELSE Becomes(p, [p EXCEPT !.at = "missed"])

PollStore(p) ==
    /\ p.at = "missed"
    /\ \E a \in StoredAnswers(p.id) : Answered(p, a)

\* Mutant: an answer counts while anything runs.
LiveWhileRunning(p) == Running

\* The effect of an id is live until the id it polls changes.
Live(p) == PollingId = p.id

Dropped(why) == run' = None /\ error' = why

Progress(a) == run' = [run EXCEPT !.status = a.status, !.list = a.list, !.scans = a.scans]
               /\ UNCHANGED error

\* Mutant: a 404 is shown as a result.
PollAnsweredGone(p) ==
    /\ p.at = "answered"
    /\ polls' = polls \ {p}
    /\ IF Live(p) THEN Progress(p.answer) ELSE UNCHANGED <<run, error>>
    /\ UNCHANGED <<scannerVars, call>>

PollAnswered(p) ==
    /\ p.at = "answered"
    /\ polls' = polls \ {p}
    /\ IF ~Live(p) THEN UNCHANGED <<run, error>>
       ELSE IF p.answer = GoneAnswer THEN Dropped("gone")
       ELSE Progress(p.answer)
    /\ UNCHANGED <<scannerVars, call>>

\* A poll that is answered with an error ends the run for the panel.
PollFails(p) ==
    /\ "poll" \in Faults
    /\ p.at # "answered"
    /\ polls' = polls \ {p}
    /\ IF Live(p) THEN Dropped("error") ELSE UNCHANGED <<run, error>>
    /\ UNCHANGED <<scannerVars, call>>

\* The action itself throws: nothing catches it (security-scan.tsx:153-161), and
\* the interval goes on.
PollThrows(p) ==
    /\ "action" \in Faults
    /\ polls' = polls \ {p}
    /\ UNCHANGED <<scannerVars, run, error, call>>

\* Another page mounts another panel; answers to this one go nowhere.
Leave ==
    /\ run # None \/ error # "" \/ call # None
    /\ run' = None /\ error' = "" /\ call' = None /\ polls' = {}
    /\ UNCHANGED <<scannerVars>>

PollStep(p) ==
    PollMemory(p) \/ PollStore(p) \/ PollFails(p) \/ PollThrows(p) \/ PollAnswered(p)

Next ==
    \/ ScannerStep
    \/ \E s \in Scans : OtherStart(s) \/ Press(s)
    \/ Accept \/ StartAnswered \/ StartFailed \/ StartThrows
    \/ Poll \/ \E p \in polls : PollStep(p)
    \/ Leave

Spec == Init /\ [][Next]_vars

\* Goroutines, Trivy's deadline, requests and the interval take their turns;
\* nobody has to press or leave.  A poll that is made again and again does not
\* throw every time.
Fairness ==
    /\ \A s \in Scans : WF_vars(Work(s) /\ UNCHANGED panelVars)
    /\ WF_vars(Accept \/ StartAnswered \/ StartFailed)
    /\ WF_vars(Poll)
    /\ SF_vars(\E p \in polls : PollMemory(p))
    /\ SF_vars(\E p \in polls : PollStore(p))
    /\ SF_vars(\E p \in polls : PollAnswered(p))

FairSpec == Spec /\ Fairness

(***************************************************************************)
(* What the panel says.                                                    *)
(***************************************************************************)
PanelSays ==
    IF Running THEN "scanning"
    ELSE IF run = None THEN IF error # "" THEN "could not run" ELSE "nothing"
    ELSE IF run.status = "failed" THEN "scanner failed"
    ELSE IF run.list = "findings" THEN "findings"
    ELSE IF run.list = "unwatched" THEN "nothing is watching"
    ELSE "no known vulnerabilities"

TypeOK ==
    /\ ScannerTypeOK
    /\ call # None => call \in [scan : Scans, at : {"sent", "accepted"}]
    /\ \A p \in polls : p.id \in Scans /\ p.at \in {"sent", "missed", "answered"}
    /\ run # None => /\ run.asked \in Scans
                     /\ run.id \in Scans \cup {NoId}
                     /\ run.status \in {"running", "ok", "failed"}
    /\ error \in {"", "start", "gone", "error"}

Stored(s) ==
    /\ RowOf(s) \in rows
    /\ job[s].result.verdict = "matched" => FindingsOf(s) \in findings

Shared(s) == \E o \in Scans \ {s} :
    job[s].at # "new" /\ job[o].at # "new" /\ job[o].id = job[s].id

\* "No known vulnerabilities" (security-scan.tsx:412) is said only of a target
\* that Trivy did read and whose system is still watched.  If it matched
\* something all the same, the list was not written: an insert of that scan was
\* refused or cut off by a restart.  A scan that shares its id is exempt.
CleanPanelIsClean ==
    PanelSays = "no known vulnerabilities" /\ ~Shared(run.asked) =>
        /\ job[run.asked].result.why = ""
        /\ \/ job[run.asked].result.verdict = "clean"
           \/ job[run.asked].result.verdict = "matched" /\ Refused(run.asked)

\* The result under a target's name is that target's, whatever answers of
\* earlier runs are still on their way (security-scan.tsx:149-167).
ResultIsOwn ==
    run # None /\ ~Running => run.scans = {run.asked} \/ Shared(run.asked)

\* "No such scan - the server restarted" (handlers_phase3.go:277-283) is told a
\* panel only of a scan that a restart killed or whose row was not written:
\* never of one on its way from memory to the store.
GoneIsGone ==
    [][error # "gone" /\ error' = "gone" =>
           \/ job[run.asked].at = "killed"
           \/ Refused(run.asked)
           \/ Shared(run.asked)]_vars

\* The store and the ledger agree on a scan.  One whose goroutine ended and none
\* of whose inserts was refused is in the store, whole: its row, and its findings
\* if Trivy matched any; and in the ledger, unless Trivy's output could not be
\* parsed (scan.go:242-251).  Whatever was refused or arrived late, the ledger
\* says "allowed" only of a scan that is stored whole, and "failed" only of one
\* that Trivy failed.
EndedIsRecorded ==
    /\ \A s \in Scans :
          job[s].at = "done" /\ ~Refused(s) =>
              /\ Stored(s)
              /\ job[s].result.why # "unparsed" => EntryOf(s) \in ledger
    /\ \A e \in ledger :
          IF e.what = "allowed" THEN job[e.scan].result.why = "" /\ Stored(e.scan)
                                ELSE job[e.scan].result.why = "trivy"

\* The panel stops spinning, except after a startScanAction that threw: polls
\* that are late, are lost or throw do not keep it (security-scan.tsx:149-167).
SpinnerStops == Running ~> (~Running \/ (run.id = NoId /\ call = None))
=============================================================================
