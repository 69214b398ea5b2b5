-------------------------------- MODULE GitOps --------------------------------
(***************************************************************************)
(* The deployer of the API (services/api/deploy.go, the deployments        *)
(* handlers of handlers_phase3.go): a request is checked, passes or is     *)
(* refused at the gate, and is committed by a row of git commands in the   *)
(* one working tree, which all requests share.  A scan's finding is        *)
(* remediated by the same row of commands, without check or gate.          *)
(*                                                                         *)
(* A manifest is its image, whatever else a deploy changes in it.  Main    *)
(* itself does not move: merging a branch is left to people and Argo CD.   *)
(***************************************************************************)
EXTENDS Naturals

CONSTANTS
    Deploys,    \* deploys that may be asked for, each with a branch of its own
    Apps,       \* manifests
    Images,
    Inputs,     \* what may be asked for: an image for an app
    OnMain,     \* the images main deploys
    Faults,     \* what may go wrong
    MaxFaults   \* how often

FaultKinds == {"git", "audit", "cancel", "restart", "call"}

ASSUME InputsAssumption == Inputs \subseteq [app : Apps, image : Images]
ASSUME MainAssumption == OnMain \in [Apps -> Images]
ASSUME BranchesAssumption == "main" \notin Deploys
ASSUME FaultsAssumption == Faults \subseteq FaultKinds /\ MaxFaults \in Nat

VARIABLES
    job,        \* per deploy: its request, its preflight and where Apply is
    head,       \* the branch that is checked out
    tips,       \* per branch: the manifests of its last commit
    index,      \* the manifests staged
    work,       \* the manifests in the working tree
    ledger,     \* audit entries: of which deploy, what
    refused,    \* entries whose append reported an error, or never answered:
                \* each may be written at any later time, or never
    disturbed,  \* history: two deploys met in the tree, one was cut short there,
                \* or main could not be checked out again
    failed,     \* history: another git command failed, or the file was not written
    faults      \* history: how often something went wrong

repoVars == <<head, tips, index, work>>
auditVars == <<ledger, refused>>
gitVars == <<job, repoVars, auditVars, disturbed, failed, faults>>

NoCommit == [branch |-> "none"]
NoInput == [app |-> "none"]
NewJob == [at |-> "new", kind |-> "deploy", input |-> NoInput, commit |-> NoCommit, cancelled |-> FALSE,
           result |-> "none"]
Begun(kind, asked, at, result) ==
    [NewJob EXCEPT !.kind = kind, !.input = asked, !.at = at, !.result = result]

\* Steps of Apply in the working tree, in their order.
InTree == {"write", "add", "commit", "rev-parse", "restore"}
Busy(d) == job[d].at \in InTree
Others(d) == {o \in Deploys \ {d} : Busy(o)}

GitInit ==
    /\ job = [d \in Deploys |-> NewJob]
    /\ head = "main"
    /\ tips = [b \in Deploys \cup {"main"} |-> OnMain]
    /\ index = OnMain /\ work = OnMain
    /\ ledger = {} /\ refused = {}
    /\ disturbed = FALSE /\ failed = FALSE /\ faults = 0

Fault(kind) == kind \in Faults /\ faults < MaxFaults /\ faults' = faults + 1

(***************************************************************************)
(* The audit ledger, whose errors are dropped.                             *)
(***************************************************************************)
Entries(d, whats) == {[deploy |-> d, what |-> w] : w \in whats}

Records(d, whats) ==
    \/ /\ ledger' = ledger \cup Entries(d, whats)
       /\ UNCHANGED <<refused, faults>>
    \/ \E some \in SUBSET whats \ {{}} :
           /\ Fault("audit")
           /\ ledger' = ledger \cup Entries(d, whats \ some)
           /\ refused' = refused \cup Entries(d, some)

\* What Apply's caller records of it: of a remediation that failed, nothing.
Outcome(d) ==
    IF job[d].kind = "remediate" /\ job[d].result = "failed" THEN {} ELSE {job[d].result}

\* An append on its way when its request is over, or its process ends.
CutOff(d) == IF job[d].at = "audit" THEN Entries(d, Outcome(d)) ELSE {}

Lands(e) ==
    /\ ledger' = ledger \cup {e}
    /\ UNCHANGED <<job, repoVars, refused, disturbed, failed, faults>>

(***************************************************************************)
(* POST /v1/deployments: preflight, the gate, and Apply.  Whether a check  *)
(* blocks is up to memory, correlations and scans, which change all the    *)
(* time.                                                                   *)
(***************************************************************************)
Request(d, input, approved, blocked) ==
    /\ job[d].at = "new"
    /\ LET stopped == blocked /\ ~approved
       IN  /\ job' = [job EXCEPT ![d] = Begun("deploy", input,
                                               IF stopped THEN "done" ELSE "apply",
                                               IF stopped THEN "blocked" ELSE "none")]
           /\ Records(d, {"request"} \cup (IF stopped THEN {"blocked"} ELSE {})
                           \cup (IF blocked /\ approved THEN {"override"} ELSE {}))
    /\ UNCHANGED <<repoVars, disturbed, failed>>

\* POST /v1/scans/{id}/remediate: straight to Apply, approved by nobody.
Remediate(d, input) ==
    /\ job[d].at = "new"
    /\ job' = [job EXCEPT ![d] = Begun("remediate", input, "apply", "none")]
    /\ UNCHANGED <<repoVars, auditVars, disturbed, failed, faults>>

Goes(d, at) == job' = [job EXCEPT ![d].at = at]
Fails(d, at) == job' = [job EXCEPT ![d].at = at, ![d].result = "failed"]

\* Mutant: git branch instead of git checkout -b.
BranchOnly(d) ==
    /\ job[d].at = "apply" /\ ~job[d].cancelled
    /\ tips' = [tips EXCEPT ![d] = tips[head]]
    /\ disturbed' = (disturbed \/ Others(d) # {})
    /\ Goes(d, "write")
    /\ UNCHANGED <<head, index, work, auditVars, failed, faults>>

\* checkout -b: the new branch starts at HEAD, changes in the tree are kept.
Branch(d) ==
    /\ job[d].at = "apply" /\ ~job[d].cancelled
    /\ tips' = [tips EXCEPT ![d] = tips[head]]
    /\ head' = d
    /\ disturbed' = (disturbed \/ Others(d) # {})
    /\ Goes(d, "write")
    /\ UNCHANGED <<index, work, auditVars, failed, faults>>

\* The manifest was read before the branch was made: only its image changes.
Write(d) ==
    /\ job[d].at = "write"
    /\ work' = [work EXCEPT ![job[d].input.app] = job[d].input.image]
    /\ Goes(d, "add")
    /\ UNCHANGED <<head, tips, index, auditVars, disturbed, failed, faults>>

\* add -A: everything in the tree, whoever wrote it.
Add(d) ==
    /\ job[d].at = "add" /\ ~job[d].cancelled
    /\ index' = work
    /\ Goes(d, "commit")
    /\ UNCHANGED <<head, tips, work, auditVars, disturbed, failed, faults>>

\* To whatever branch is checked out; with nothing to commit it fails.
Commit(d) ==
    /\ job[d].at = "commit" /\ ~job[d].cancelled
    /\ IF index = tips[head]
       THEN Fails(d, "restore") /\ UNCHANGED tips
       ELSE /\ tips' = [tips EXCEPT ![head] = index]
            /\ job' = [job EXCEPT ![d].at = "rev-parse",
                                  ![d].commit = [branch |-> head, tree |-> index]]
    /\ UNCHANGED <<head, index, work, auditVars, disturbed, failed, faults>>

\* Mutant: main is not checked out again after a deploy that went well.
RevParseStays(d) ==
    /\ job[d].at = "rev-parse" /\ ~job[d].cancelled
    /\ job' = [job EXCEPT ![d].at = "audit", ![d].result = "allowed"]
    /\ UNCHANGED <<repoVars, auditVars, disturbed, failed, faults>>

RevParse(d) ==
    /\ job[d].at = "rev-parse" /\ ~job[d].cancelled
    /\ job' = [job EXCEPT ![d].at = "restore", ![d].result = "allowed"]
    /\ UNCHANGED <<repoVars, auditVars, disturbed, failed, faults>>

\* checkout main keeps what it need not touch, and refuses to overwrite what is
\* not committed.
Clean(a) == work[a] = tips[head][a] /\ index[a] = tips[head][a]
Moves(a) == OnMain[a] \notin {tips[head][a], index[a]}
MayReturn == \A a \in Apps : Moves(a) => Clean(a)
Returned(tree) == [a \in Apps |-> IF Moves(a) THEN OnMain[a] ELSE tree[a]]

\* Its error is ignored, as is that of a request that is over.
Restore(d) ==
    /\ job[d].at = "restore"
    /\ IF MayReturn /\ ~job[d].cancelled
       THEN head' = "main" /\ index' = Returned(index) /\ work' = Returned(work)
       ELSE UNCHANGED <<head, index, work>>
    /\ Goes(d, "audit")
    /\ UNCHANGED <<tips, auditVars, disturbed, failed, faults>>

\* Mutant: an Apply that failed is recorded as one that went well.
AuditAllowed(d) ==
    /\ job[d].at = "audit"
    /\ IF job[d].cancelled THEN UNCHANGED <<auditVars, faults>> ELSE Records(d, {"allowed"})
    /\ Goes(d, "done")
    /\ UNCHANGED <<repoVars, disturbed, failed>>

\* The append of a request that is over is not even tried.
Audit(d) ==
    /\ job[d].at = "audit"
    /\ IF job[d].cancelled THEN UNCHANGED <<auditVars, faults>> ELSE Records(d, Outcome(d))
    /\ Goes(d, "done")
    /\ UNCHANGED <<repoVars, disturbed, failed>>

(***************************************************************************)
(* Failures.                                                               *)
(***************************************************************************)
\* A command fails, or is not run because the request is over.
GitFails(d) ==
    /\ (job[d].cancelled /\ UNCHANGED faults) \/ Fault("git")
    /\ \/ /\ job[d].at = "apply"
          /\ Fails(d, "audit")
          /\ UNCHANGED <<disturbed, failed>>
       \/ /\ job[d].at \in InTree \ {"restore"}
          /\ Fails(d, "restore")
          /\ failed' = TRUE
          /\ UNCHANGED disturbed
       \/ /\ job[d].at = "restore"
          /\ Goes(d, "audit")
          /\ disturbed' = TRUE
          /\ UNCHANGED failed
    /\ UNCHANGED <<repoVars, auditVars>>

\* The request is over, its caller gone: no command starts any more.
Over(d) ==
    /\ job[d].at \notin {"new", "done", "killed"} /\ ~job[d].cancelled
    /\ job' = [job EXCEPT ![d].cancelled = TRUE]
    /\ refused' = refused \cup CutOff(d)
    /\ disturbed' = (disturbed \/ Busy(d))

Cancel(d) ==
    /\ Fault("cancel")
    /\ Over(d)
    /\ UNCHANGED <<repoVars, ledger, failed>>

Restart ==
    /\ Fault("restart")
    /\ \E d \in Deploys : job[d].at \notin {"new", "done", "killed"}
    /\ job' = [d \in Deploys |-> IF job[d].at \in {"new", "done", "killed"} THEN job[d]
                                 ELSE [job[d] EXCEPT !.at = "killed"]]
    /\ refused' = refused \cup UNION {CutOff(d) : d \in Deploys}
    /\ disturbed' = (disturbed \/ \E d \in Deploys : Busy(d))
    /\ UNCHANGED <<repoVars, ledger, failed>>

Apply(d) ==
    \/ Branch(d) \/ Write(d) \/ Add(d) \/ Commit(d) \/ RevParse(d) \/ Restore(d)
    \/ Audit(d) \/ GitFails(d)

GitTypeOK ==
    /\ \A d \in Deploys :
           /\ job[d].at \in {"new", "apply", "audit", "done", "killed"} \cup InTree
           /\ job[d].at # "new" => job[d].input \in Inputs
           /\ job[d].commit # NoCommit => job[d].commit.tree \in [Apps -> Images]
    /\ head \in Deploys \cup {"main"}
    /\ tips \in [Deploys \cup {"main"} -> [Apps -> Images]]
    /\ index \in [Apps -> Images] /\ work \in [Apps -> Images]
    /\ faults \in 0..MaxFaults
=============================================================================
