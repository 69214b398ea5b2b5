----------------------------- MODULE DeployDialog -----------------------------
(***************************************************************************)
(* The deployer and the deploy dialog of the web application               *)
(* (components/deploy-dialog.tsx through app/deploy-actions.ts and         *)
(* lib/api/deploy.ts).  Its inputs can be edited, and the dialog closed    *)
(* and opened again, while a call is on its way.                           *)
(***************************************************************************)
EXTENDS GitOps

CONSTANTS
    DialogInputs,   \* what is asked for in the dialog
    FirstInput      \* the input it opens with

ASSUME DialogAssumption == DialogInputs \subseteq Inputs /\ FirstInput \in DialogInputs

VARIABLES
    input,      \* app, image and the rest
    pf,         \* the preflight shown, and whether it blocks
    done,       \* the deploy shown as committed
    call        \* the one call in flight: busy

dialogVars == <<input, pf, done, call>>
vars == <<gitVars, dialogVars>>

None == [none |-> TRUE]
NoDeploy == "no deploy"

Init ==
    /\ GitInit
    /\ input = FirstInput
    /\ pf = None /\ done = NoDeploy /\ call = None

Reset == pf' = None /\ done' = NoDeploy

\* Opened, for the first time or after it was closed: whatever was in flight
\* still is.
Open ==
    /\ Reset
    /\ UNCHANGED <<gitVars, input, call>>

\* Also while a call is in flight: nothing disables the fields.
Edit ==
    /\ done = NoDeploy
    /\ input' \in DialogInputs \ {input}
    /\ Reset
    /\ UNCHANGED <<gitVars, call>>

Calls(kind, approved) ==
    call' = [kind |-> kind, input |-> input, approved |-> approved, at |-> "sent",
             deploy |-> NoDeploy, blocked |-> FALSE]

Check ==
    /\ done = NoDeploy /\ pf = None /\ call = None
    /\ Calls("preflight", FALSE)
    /\ done' = NoDeploy
    /\ UNCHANGED <<gitVars, input, pf>>

\* Commit when nothing blocks, or override what does.
Deploy ==
    /\ done = NoDeploy /\ pf # None /\ call = None
    /\ Calls("deploy", pf.blocked)
    /\ UNCHANGED <<gitVars, input, pf, done>>

ServePreflight ==
    /\ call # None /\ call.kind = "preflight" /\ call.at = "sent"
    /\ \E blocked \in BOOLEAN :
           call' = [call EXCEPT !.at = "answered", !.blocked = blocked]
    /\ UNCHANGED <<gitVars, input, pf, done>>

ServeDeploy ==
    /\ call # None /\ call.kind = "deploy" /\ call.at = "sent"
    /\ \E d \in Deploys, blocked \in BOOLEAN :
           /\ Request(d, call.input, call.approved, blocked)
           /\ call' = [call EXCEPT !.at = "served", !.deploy = d]
    /\ UNCHANGED <<input, pf, done>>

\* Nothing ties an answer to the inputs on the screen (deploy-dialog.tsx:68-73).
Shown(blocked) == [blocked |-> blocked]

PreflightAnswered ==
    /\ call # None /\ call.kind = "preflight" /\ call.at = "answered"
    /\ pf' = Shown(call.blocked)
    /\ call' = None
    /\ UNCHANGED <<gitVars, input, done>>

\* Mutant: any answer but a 412 is taken for a deployment.
DeployAnsweredAnyhow ==
    /\ call # None /\ call.at = "served"
    /\ job[call.deploy].at = "done"
    /\ IF job[call.deploy].result = "blocked"
       THEN pf' = Shown(TRUE) /\ UNCHANGED done
       ELSE done' = call.deploy /\ UNCHANGED pf
    /\ call' = None
    /\ UNCHANGED <<gitVars, input>>

\* A 412 brings the reasons with it.
DeployAnswered ==
    /\ call # None /\ call.at = "served"
    /\ job[call.deploy].at = "done"
    /\ CASE job[call.deploy].result = "allowed" ->
                done' = call.deploy /\ UNCHANGED pf
         [] job[call.deploy].result = "blocked" ->
                pf' = Shown(TRUE) /\ UNCHANGED done
         [] OTHER -> UNCHANGED <<pf, done>>
    /\ call' = None
    /\ UNCHANGED <<gitVars, input>>

Waited(d) == call # None /\ call.deploy = d

\* The API is unreachable or slower than eight seconds; if it already serves a
\* deploy it sees sooner or later, or never, that its caller is gone.
CallFails ==
    /\ call # None
    /\ Fault("call")
    /\ call' = None
    /\ \/ UNCHANGED <<job, refused, disturbed>>
       \/ \E d \in Deploys : Waited(d) /\ Over(d)
    /\ UNCHANGED <<repoVars, ledger, failed, input, pf, done>>

ApiRestarts ==
    /\ Restart
    /\ call' = IF \E d \in Deploys : Waited(d) /\ job'[d].at = "killed" THEN None ELSE call
    /\ UNCHANGED <<input, pf, done>>

\* A request whose caller still waits for it is not over.
GitStep ==
    /\ \/ \E d \in Deploys : Apply(d) \/ (~Waited(d) /\ Cancel(d))
       \/ \E e \in refused : Lands(e)
    /\ UNCHANGED dialogVars

\* Somebody else's deploy or remediation, asked for without a dialog.
OtherDeploy ==
    /\ \E d \in Deploys, i \in Inputs :
           \/ \E approved, blocked \in BOOLEAN : Request(d, i, approved, blocked)
           \/ Remediate(d, i)
    /\ UNCHANGED dialogVars

Next ==
    \/ Open \/ Edit \/ Check \/ Deploy
    \/ ServePreflight \/ ServeDeploy \/ PreflightAnswered \/ DeployAnswered \/ CallFails
    \/ ApiRestarts \/ GitStep \/ OtherDeploy

Spec == Init /\ [][Next]_vars

TypeOK ==
    /\ GitTypeOK
    /\ input \in DialogInputs
    /\ pf # None => pf \in [blocked : BOOLEAN]
    /\ done # NoDeploy => done \in Deploys /\ job[done].commit # NoCommit
    /\ call # None => call.input \in DialogInputs

\* The tree is on main whenever no deploy is in it, and clean there unless a
\* command failed (deploy.go:257-311): wherever a deploy gives up, it finds its way
\* back through what it left staged or unstaged.  Exempt: two deploys met in the
\* tree, one was cut short in it, or the return itself failed.
RepoRests ==
    disturbed \/ (\E d \in Deploys : Busy(d))
        \/ (head = "main" /\ (failed \/ (index = OnMain /\ work = OnMain)))

\* What a deploy reports as committed is on its own branch, and is main with the
\* image that was asked for and nothing of an earlier deploy (deploy.go:257-311).
\* Exempt as above, and once a command failed: what it left in the tree goes
\* into the next commit.
CommitIsRequest ==
    \A d \in Deploys : job[d].result = "allowed" /\ ~disturbed /\ ~failed =>
        LET i == job[d].input
        IN  /\ job[d].commit = [branch |-> d, tree |-> [OnMain EXCEPT ![i.app] = i.image]]
            /\ tips[d] = job[d].commit.tree

\* The ledger and git agree on deploys (handlers_phase3.go:58-86, :244-255).  One
\* that is in the ledger as committed did commit, and its branch still has the
\* image that was asked for, unless deploys met or something failed; whatever
\* appends were refused, cut off or late.  One that ended and had committed is
\* there, unless its append was refused, its request was over before it, or
\* rev-parse failed after its commit.
LedgerMatchesGit ==
    \A d \in Deploys :
        LET entry == [deploy |-> d, what |-> "allowed"]
        IN  /\ entry \in ledger =>
                  /\ job[d].commit # NoCommit
                  /\ disturbed \/ failed \/ tips[d][job[d].input.app] = job[d].input.image
            /\ job[d].at = "done" /\ ~job[d].cancelled /\ job[d].commit # NoCommit =>
                  entry \in ledger \cup refused \/ failed
=============================================================================
