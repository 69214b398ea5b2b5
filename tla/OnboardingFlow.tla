--------------------------- MODULE OnboardingFlow ---------------------------
(***************************************************************************)
(* Connecting a cluster: the steps of the web application                  *)
(* (components/onboarding-flow.tsx through lib/api/onboarding.ts), the     *)
(* status the API answers them with (services/api/onboarding.go), and the  *)
(* target that the last step saves in the SloStore.                        *)
(*                                                                         *)
(* Of the three components the status reports, the inference engine only   *)
(* adds a row, and is left out.                                            *)
(***************************************************************************)
EXTENDS SloStore

CONSTANTS
    Polls,      \* bound: status requests in flight at once
    MaxFailures \* bound: queries and requests that fail

ASSUME FailuresAssumption == MaxFailures \in Nat

VARIABLES
    registered, \* the cluster and a token for it are in the control plane
    arriving,   \* components with samples in the last three minutes
    step,       \* the step shown; past the last one the flow has been left
    call,       \* the request a button waits for: none, connect or save
    signal,     \* whether the last status that landed has a signal to show
    polls,      \* status requests in flight: the next query, what was seen
    failures    \* history: how much failed

flowVars == <<step, call, signal, polls>>
worldVars == <<registered, arriving>>
vars == <<storeVars, worldVars, flowVars, failures>>

\* STEPS.
Name == 0
Collector == 1
FirstSignal == 2
Target == 3
Left == 4

NoPoll == [next |-> 0, seen |-> {}]
Asked == [next |-> 1, seen |-> {}]
\* What may arrive: GPU samples are samples too.
Arrivals == {{}, {"collector"}, {"collector", "dcgm"}}
Queries == <<"collector", "dcgm">>

Init ==
    /\ StoreInit
    /\ registered = FALSE /\ arriving = {}
    /\ step = Name /\ call = "none" /\ signal = FALSE
    /\ polls = [p \in Polls |-> NoPoll]
    /\ failures = 0

Failing == failures < MaxFailures /\ failures' = failures + 1

\* The chart is installed, an exporter added, an agent stops: whatever the
\* operator does to a cluster whose token was issued.
Telemetry ==
    /\ registered
    /\ arriving' \in Arrivals \ {arriving}
    /\ UNCHANGED <<storeVars, registered, flowVars, failures>>

(***************************************************************************)
(* Naming the cluster.                                                     *)
(***************************************************************************)
Begin ==
    /\ step = Name /\ call = "none"
    /\ call' = "connect"
    /\ UNCHANGED <<storeVars, worldVars, step, signal, polls, failures>>

\* POST /v1/onboarding/connect: one transaction, repeated at will.
Connected ==
    /\ call = "connect"
    /\ registered' = TRUE
    /\ call' = "none" /\ step' = Collector
    /\ UNCHANGED <<storeVars, arriving, signal, polls, failures>>

ConnectFails ==
    /\ call = "connect" /\ Failing
    /\ registered' \in {registered, TRUE}
    /\ call' = "none"
    /\ UNCHANGED <<storeVars, arriving, step, signal, polls>>

(***************************************************************************)
(* Waiting: every four seconds, whether or not the last poll has answered. *)
(***************************************************************************)
\* Mutant: a poll that fails ends the interval.
PollUntilFailure(p) ==
    /\ step = Collector /\ failures = 0
    /\ polls[p] = NoPoll
    /\ polls' = [polls EXCEPT ![p] = Asked]
    /\ UNCHANGED <<storeVars, worldVars, step, call, signal, failures>>

Poll(p) ==
    /\ step = Collector
    /\ polls[p] = NoPoll
    /\ polls' = [polls EXCEPT ![p] = Asked]
    /\ UNCHANGED <<storeVars, worldVars, step, call, signal, failures>>

Asking(p) == polls[p].next \in DOMAIN Queries

Sees(p, seen) ==
    /\ Asking(p)
    /\ polls' = [polls EXCEPT ![p] = [next |-> @.next + 1, seen |-> @.seen \cup seen]]
    /\ UNCHANGED <<storeVars, worldVars, step, call, signal>>

\* The queries of one status run one after the other.
Query(p) == Sees(p, {Queries[polls[p].next]} \cap arriving) /\ UNCHANGED failures

\* A query whose error is dropped looks like a component that is not there.
QueryFails(p) == Failing /\ Sees(p, {})

HasSignal(seen) == "dcgm" \in seen
IsConnected(seen) == HasSignal(seen) /\ "collector" \in seen

Done(p) == polls[p] # NoPoll /\ ~Asking(p)

\* Mutant: a connected status always leads to the first signal.
PollAnsweredAnywhere(p) ==
    /\ Done(p)
    /\ polls' = [polls EXCEPT ![p] = NoPoll]
    /\ signal' = HasSignal(polls[p].seen)
    /\ step' = IF IsConnected(polls[p].seen) THEN FirstSignal ELSE step
    /\ UNCHANGED <<storeVars, worldVars, call, failures>>

PollAnswered(p) ==
    /\ Done(p)
    /\ polls' = [polls EXCEPT ![p] = NoPoll]
    /\ signal' = HasSignal(polls[p].seen)
    /\ step' = IF IsConnected(polls[p].seen) /\ step = Collector THEN FirstSignal ELSE step
    /\ UNCHANGED <<storeVars, worldVars, call, failures>>

PollFails(p) ==
    /\ polls[p] # NoPoll
    /\ Failing
    /\ polls' = [polls EXCEPT ![p] = NoPoll]
    /\ UNCHANGED <<storeVars, worldVars, step, call, signal>>

\* The step is shown, and has its button, only while the last status has a
\* signal to show.
Continue ==
    /\ step = FirstSignal /\ signal
    /\ step' = Target
    /\ UNCHANGED <<storeVars, worldVars, call, signal, polls, failures>>

(***************************************************************************)
(* Setting a target.                                                       *)
(***************************************************************************)
Finish(t) ==
    /\ step = Target /\ call = "none"
    /\ UpsertBegin(t)
    /\ call' = "save"
    /\ UNCHANGED <<worldVars, step, signal, polls, failures>>

Saved ==
    /\ call = "save"
    /\ UpsertEnd
    /\ call' = "none" /\ step' = Left
    /\ UNCHANGED <<worldVars, signal, polls, failures>>

\* Refused, or done without its answer arriving, or still under way when the
\* request is given up.
SaveFails ==
    /\ call = "save" /\ Failing
    /\ UpsertFails \/ UpsertEnd \/ UNCHANGED storeVars
    /\ call' = "none"
    /\ UNCHANGED <<worldVars, step, signal, polls>>

\* The flow is opened again, or the page reloaded: it remembers nothing.
Open ==
    /\ call = "none" /\ step # Name
    /\ step' = Name /\ signal' = FALSE
    /\ polls' = [p \in Polls |-> NoPoll]
    /\ UNCHANGED <<storeVars, worldVars, call, failures>>

StoreStep ==
    /\ \/ UpsertRename \/ HandEdit
       \/ call # "save" /\ (UpsertEnd \/ UpsertFails)
       \/ \E r \in Readers : ReaderStep(r)
    /\ UNCHANGED <<worldVars, flowVars, failures>>

PollStep(p) == Poll(p) \/ Query(p) \/ QueryFails(p) \/ PollAnswered(p) \/ PollFails(p)

Next ==
    \/ Telemetry
    \/ Begin \/ Connected \/ ConnectFails
    \/ \E p \in Polls : PollStep(p)
    \/ Continue
    \/ \E t \in Targets : Finish(t)
    \/ Saved \/ SaveFails
    \/ Open
    \/ StoreStep

Spec == Init /\ [][Next]_vars

\* The interval and the requests take their turns; nobody has to press.
Fairness == \A p \in Polls : WF_vars(Poll(p) \/ Query(p) \/ PollAnswered(p))

FairSpec == Spec /\ Fairness

TypeOK ==
    /\ StoreTypeOK
    /\ registered \in BOOLEAN
    /\ arriving \in Arrivals
    /\ step \in Name..Left
    /\ call \in {"none", "connect", "save"}
    /\ signal \in BOOLEAN
    /\ polls \in [Polls -> [next : 0..3, seen : SUBSET {"collector", "dcgm"}]]
    /\ failures \in 0..MaxFailures

\* A status that lands late never takes the operator back to a step already
\* done (onboarding-flow.tsx:82); only opening the flow again does.
NeverBack == [][step' >= step \/ Open]_vars

\* "It moves on as soon as the first GPU reports" (onboarding-flow.tsx:183):
\* while GPU samples keep arriving the operator is not left waiting.
MovesOn == <>[](IsConnected(arriving)) => []<>(step # Collector)
=============================================================================
