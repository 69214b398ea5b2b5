# Orchestr8 in TLA+

Orchestr8 watches inference services that run on GPUs. Collectors in customers'
clusters send telemetry through a gateway into ClickHouse; every thirty seconds
a detection engine looks at each organisation's services, names a cause for
those outside their SLO, pages people, and keeps the list of open correlations;
scans, GitOps deploys, invitations and an audit ledger surround it. The backend
is one Go program, `src/services/api`; people meet it through a web application,
`src/apps/web`, whose server components and server actions call it.

This directory holds TLA+ modules for the parts whose behaviour depends on the
order in which things happen, the TLC configurations that check them on small
instances, and proofs, checked by TLAPS, of what holds for instances of any
size. `PROJECT.json` maps each definition to the lines it models and lists the
runs, the mutants that show that a property can fail, the findings, the hazards
and the theorems.

To check: `tlc -config <run>.cfg <module>` with the module named for the run
below; `tlapm <module>` for each of the modules named `..._proofs`.

## 1. Inventory

Paths are under `src/services/api`, or `src/apps/web` for those of the web
application.

**Detection engine** (`engine.go`, the status endpoint in `main.go`).
State: the table `correlations`, one visible row per (cluster, model, cause),
versioned by `UpdatedAt`; `engine.misses`, in memory. Operations: `tick` for one
organisation, `sweep` over organisations with four workers, `setStatus` for
people and for the engine. A tick reads the statuses once, at its start, decides
on the basis of that copy, calls `setStatus` for what it closes and inserts what
it found at its end; a person's `setStatus` is a read, a stamp and an insert at
any moment in between. Hard: stale copies, a page sent before the row that
records it, writes that land out of order or long after they were given up,
counters in memory against rows in a store. Correct when: a person's decision
stands; a service is paged once at a severity, and again on escalation; nothing
flaps; what has gone is closed and what returns is listed and paged.

**Correlation rules** (`correlate.go`) and **signal collection**
(`signals.go`). No state of their own. Six queries are joined into one bundle
per service, rules in priority order turn it into a verdict with evidence. Hard:
three of the queries may fail unnoticed; identifiers are unique only within a
cluster; rules decline on conditions other rules do not look at. Correct when:
what the evidence says is so, and the blamed card is the service's own.

**Notifier** (`notify.go`). State: the destinations file, reloaded by
modification time. Posts to every destination that wants the severity, and
appends each result to the ledger. Correct when a page nobody accepted is tried
again and one somebody accepted is not.

**Audit ledger** (`audit.go`). State: the table `audit_log`, a hash chain per
organisation; a mutex. `Append` reads the head and inserts the entry after it,
called by handlers and by the engine at once; `Verify` recomputes a chain. Hard:
a second process, an insert that outlives its client, expiry. Correct when the
rows of an organisation are one unbroken chain and `Verify` says exactly that.

**Scanner** (`scan.go`, `handlers_phase3.go`) and the **scan panel**
(`components/security-scan.tsx`, `app/scan-actions.ts`, `lib/api/scans.ts`).
State: jobs in flight in memory, the Trivy lock, two tables; the panel's run and
error. A job outlives its request and is polled every two seconds, whether or
not the last poll has answered; its time limit runs while it waits for the lock;
its result is written in two inserts, then audited, then its id leaves memory.
Hard: a poll looks in memory and then in the store while the job moves from one
to the other; answers for a run the panel no longer shows; two jobs of one
millisecond. Correct when a job that ended is recorded, the panel shows the
result of the scan it names, "no known vulnerabilities" is said of a target that
was read, and the spinner stops.

**GitOps deployer** (`deploy.go`, `handlers_phase3.go`) and the **deploy
dialog** (`components/deploy-dialog.tsx`, `app/deploy-actions.ts`,
`lib/api/deploy.ts`). State: a git working tree shared by all requests; the
dialog's inputs, the checks it shows, what it reports as committed. `Preflight`
checks, `Apply` branches, writes, commits and returns to main, all on the
request's context; the remediation of a scan's finding calls `Apply` as well,
without the gate. Hard: a second request in the same tree; a command that fails,
or is not run because its request is over; entries that are refused or written
late; inputs edited while a check is under way. Correct when a commit is main
with the one image asked for, on a branch of its own, the tree rests on main,
and the ledger says committed exactly of what committed.

**Ingest gateway** (`ingest.go`, `otlp.go`, `rejections.go`). State: a ring of
32 refusals. Correct when no batch passes that is not its token's, an outage is
never reported as a bad token, and onboarding explains only what it can
attribute.

**Control plane and invitations** (`control.go`, `invitations.go`, `org.go`,
`src/services/control/migrations`) and **sign-in, accounts and team**
(`auth.ts`, `middleware.ts`, `lib/auth`, `lib/api/fetch.ts`, the sign-in,
welcome, invitation and settings pages). State: Postgres tables of
organisations, users, memberships, sessions, invitations; a cookie. The web
application writes some of these tables itself, the API others, all in
transactions that read before they write. Hard: READ COMMITTED, two tabs of one
person, a link that is accepted while it is revoked or superseded; and three
judges of a request (the middleware sees a cookie, the API a session, the page
an organisation) that redirect to each other. Correct when a link is used once,
by its addressee, for a role its inviter may grant; a person is in one
organisation; the setup token makes one owner; and every page arrives.

**SLO store** (`slo.go`) and **onboarding** (`onboarding.go`,
`components/onboarding-flow.tsx`, `lib/api/onboarding.ts`). State: a JSON file
that people edit and `Upsert` rewrites, a copy in memory with a modification
time; the wizard's step and the last status. Hard: reloads stat and read without
the lock that `Upsert` holds; statuses land late. Correct when a copy that will
not be read again is the file's, the wizard never goes back and moves on when
telemetry is there.

**Read API** (`store.go`, `clusters.go`, `inference.go`, `config_api.go`,
`headroom.go`) and the **pages** (`app/*/page.tsx`, `components`,
`lib/api/pages.ts` and its siblings). No state: each handler answers from a
window of recent telemetry, each with a window of its own, and a page asks
several of them at different moments. Hard: which of an empty list, a failed
read and a silent fleet a reader is looking at. Correct when "there is none", or
"all is well", is said only where there was a moment when it was so, and silence
is shown.

**Schema migration** (`migrate.go`, `schema.sql`), the **headroom** arithmetic,
the **simulator** (`src/services/devkit`), the collector's configuration,
charts, contracts and scripts complete the system.

How they interact: the gateway and collector fill the telemetry tables that
`collectSignals` and the read API read; the tick calls `Correlate`, the notifier
and the correlations table; the notifier, the scanner, the deployer and the
invitation handlers all call `Append` on one `auditLog`; the deployer's
preflight reads correlations and scans; the tick, the dashboard and the settings
take thresholds from the SLO store; every page goes through `apiFetch`, which
turns a 401 into a redirect.

## 2. Modules

| module | models |
| --- | --- |
| `CorrelationEngine` | one organisation's engine, the people who decide, and the table between them |
| `CorrelateRules` | the rules as operators on a bundle of signals |
| `Diagnosis` | `collectSignals` and `Correlate` over any telemetry |
| `AppendOnlyLog` | the abstract promise of `Append` |
| `AuditLedger` | `Append` step by step, `Verify`; shown to implement `AppendOnlyLog` |
| `Scanner` | scan jobs, the Trivy lock, the inserts, the answers to a poll |
| `ScanPanel` | the panel that starts and polls, over `Scanner` |
| `GitOps` | deploy requests and git commands in one working tree |
| `DeployDialog` | the dialog that checks and deploys, over `GitOps` |
| `Accounts` | the transactions on users, organisations, memberships and invitations |
| `SignInFlow` | pages, forms, redirects and sessions, over `Accounts` |
| `SloStore` | the threshold file, its copy, reload and `Upsert` |
| `OnboardingFlow` | the wizard, its polls and the target it saves, over `SloStore` |
| `ReadApi` | telemetry by age, one incident, one scan, and what the GET handlers answer |
| `Pages` | what each page reads, in which rounds, and what it says, over `ReadApi` |
| `MC...` | values for the constants |
| `..._proofs` | theorems and their proofs |

### CorrelationEngine

`Services` are (cluster, model) pairs and an id is a service and a cause, which
is what `stableID` is built from. `Verdicts` is what `Correlate` may return.

| in the model | in the code |
| --- | --- |
| `TickBegin` | `collectSignals`, `correlationStatuses`, `pagedForService` |
| `Detect(s)` | one turn of the loop over `signals`: status, reopening, paging, `notifyState` |
| `CountMisses` | `miss` and `forget` over `existing`, which ids are due to be closed |
| `ResolveRead`, `DecisionRead` | `setStatus` up to the row it read, by the engine and by the endpoint |
| `StatusStamp`, `StatusWrite`, `StatusFail` | the rest of `setStatus`: `UpdatedAt`, the insert, its failure |
| `StatusAbandon` | the insert of `setStatus` is given up after the client's ten seconds |
| `TickEnd` | `insertCorrelations`: it lands, fails, or is given up |
| `LateLands` | ClickHouse executes a write nobody waits for |
| `Restart` | the process ends; the table and what it has been sent are left |

The table. `ReplacingMergeTree(UpdatedAt)` read with `FINAL` shows, per id, the
row stamped last, whatever order rows landed in, and the API stamps a row before
it sends it. Only the order of stamps matters, so none is kept: `earlier[i]`
relates two writes in flight for `i` of which the first was stamped first, and a
write is put in `beaten[i]` when one stamped after it lands. A write in `beaten`
changes nothing when it lands. Two stamps in one millisecond are not modelled.

The HTTP client gives every insert ten seconds (`store.go:26`), and a restart
may come when one has been sent. The store may execute it all the same, at any
later time, with the stamp it was given when it was made. `Abandon` puts such a
write into one of `Slots` with its place in `earlier` and `beaten`, and
`late[k]` are its rows. A write cut off by a restart is one abandoned just
before it.

The misses are counted for all ids in one step and the closes follow: in the
code the two alternate, but nothing reads the counters in between. The counter
is compared only with `missesBeforeResolve`, and is capped there.

Three history variables serve the properties: `told`, the highest severity
delivered for an id since it was closed, and whether a page of it repeated one
of the same service; `absent`, for how many ticks in a row it was not detected;
`held`, the ids under a decision since before this tick.

Failures are a constant, `Faults`, so that a run and a theorem can say which of
them a property survives: `read` (the statuses cannot be read, the tick goes on
with none), `post` (nobody accepts the page), `insert` (the findings are not
written), `lateinsert` (they are written after they were given up), `status` (a
`setStatus` fails), `latestatus` (it is written after it was given up),
`unacked` (it is written and reported as failed), `restart`. A tick that exceeds
its 20 s budget, or whose rules panic, is one whose remaining calls fail. A
failed collection of signals ends the tick before anything happens and is a
stutter.

Left out: the sweep over several organisations, in which ticks of one never
overlap because `sweep` waits for its workers; and the notifier's destinations,
whose outcome is one Boolean, as `len(delivered) > 0` is in the code.

### CorrelateRules and Diagnosis

A bundle of signals is a record of the cards bound to a service, which of them
throttle, report XIDs or are full, and p95, load and cache. Cards come back in
no particular order, so a rule that takes the first may take any: it returns the
set of verdicts it may reach. What a verdict tells its reader is a set of
claims, one for each sentence of its evidence that the telemetry can contradict;
`True` says when a claim holds of a service.

A behaviour of `Diagnosis` is one examination: `Init` takes any telemetry,
`CollectSignals` joins it, by the keys the code joins it on, with any of the
queries in `MayFail` lost, and `Diagnose` applies the rules. Thresholds are
compared in integers without division (`rate * 100 >= base * 135`). p95 is given
as within the SLO, over it, or over 1.25 times the SLO; a card's memory as at
least 95% used or not; all cards are of one GPU model. Windows, the histogram
quantile, confidence figures and wording are not modelled.

### AuditLedger

A caller waits, holds the mutex, has read the head, and inserts or fails; each
`Return` unlocks, as `defer` does. The hash covers the whole entry and no two
calls hash the same content, so the number of the call stands for it. A process
is one `auditLog` with its mutex; `ProcessOf` says where a caller runs. Faults:
`read`, `insert`, `late` (the client gives up, the database may still execute
the insert), `restart`, `ttl` (the table's oldest rows expire). `Verify` reads
the rows by Seq, in any order where two have one number, and `Walk` checks one
after the other as the loop does, up to the first that does not fit.

`AppendOnlyLog` is what a caller may expect: a list per organisation, each call
adding its entry at one moment while it runs, or not at all. The refinement maps
row number k to element k of the list.

### Scanner and ScanPanel

A scan stands for its target. `Start` is the accepted POST, `TakeTrivy` the
lock, `TrivyFails` and `TrivyPasses` the command with its deadline (which also
fires in the queue), `InsertRow` and `InsertFindings` the two inserts of
`persist`, `End` the append to the ledger, whose error is dropped
(`scan.go:217`, `:301`), and the moment the id leaves memory; `Audited` says
which scans have an entry. `lost` are the inserts, of row, findings or entry,
that reported an error or were cut off by a restart: `LateInsert` may execute
each of them at any later time. With the fault `sameMilli` an id may be that of
another scan; the other faults are `trivy`, `store`, `audit`, `restart`, `call`
(a start that is answered with an error or not in time), `poll` (the same of a
poll), `action` (a server action that throws).

The panel's `run` is `None` or has an id, which it gets when `startScanAction`
answers; `call` and `polls` are what is in flight. A poll is two steps, memory
(`PollMemory`) and store (`PollStore`), between which the job moves. React's
effect is the guard `Live`: an answer counts while the panel still polls that
id. A poll that is answered with an error ends the run (`PollFails`). One that
throws is caught by nothing (`PollThrows`), but the poll was made by an interval
(`components/security-scan.tsx:162`) which goes on, so the panel polls again; a
start that throws (`StartThrows`) leaves a run without an id, for which there is
no interval. `Leave` unmounts the panel. `OtherStart` is any other starter.
`PanelSays` is what the sheet shows.

### GitOps and DeployDialog

A manifest is its image. `head`, `tips`, `index` and `work` are git's; `Branch`,
`Write`, `Add`, `Commit`, `RevParse`, `Restore` are `Apply`'s commands in order,
with git's own rules: a checkout keeps what it need not touch and refuses to
overwrite what is not committed, a commit of nothing fails, `add -A` takes what
others wrote. `Write` writes the manifest as read before the branch was made.
`Request` is the deploy handler up to the gate, `Remediate` the handler that
calls `Apply` at once and records nothing when that fails. `cancelled` is a
request whose context is over: no command starts any more, and neither does the
checkout of main. `GitFails` is one command that fails, the checkout of main
among them, whose error is ignored (`deploy.go:280`). The ledger's errors are
ignored too: an entry that was refused, or cut off, is in `refused` and may land
at any later time (`Lands`). Two history variables: `disturbed`, two deploys met
in the tree, one was cut short there, or main could not be checked out again;
`failed`, another command failed.

The dialog has one call in flight (`busy` disables its buttons, not its inputs).
Whether a check blocks is an input, chosen anew each time. Its answer is shown
whatever the inputs are by then, and what the dialog asks for with it is
approved as it says.

### Accounts and SignInFlow

A transaction is held by the tab whose request opened it, and each of its
statements is an action that sees what is committed when it starts; a row lock,
a table lock or an uncommitted unique key is a guard. `Commit` and `Abort` end
it. `since` is `created_at`, the transaction's start; `until` is history. A
person is in the organisation of the earliest membership, as `membershipOf`
orders them.

In `SignInFlow` a tab loads a page hop by hop: `Middleware` sees the cookie,
`ApiPage` is `requireIdentity`'s verdict on the session, `Refused` what
`apiFetch` does of a 401, each a moment after the other. `link` on the sign-in
page is its `callbackUrl`: an invitation, or the page the middleware stopped.
Single sign-on follows it, the password form does not. `hops` is history. Forms
become requests, answered after their transaction.

### SloStore and OnboardingFlow

`Stat`, `Read`, `Install` and `Answer` are one `reload` and `All` by one reader:
the first two without the lock. `UpsertBegin` takes the lock and reads,
`UpsertRename` replaces the file, `UpsertEnd` sets the copy and forgets its
modification time. `HandEdit` is anybody's editor, and may leave the file
broken. The thresholds of single models are one flag, `models`: the file lists
them or has lost them, which happens when `Upsert` goes on from a file it cannot
parse. Two writes may fall into one tick of the file's clock; `alone` is
history, and says that the present one did not.

`signal` is whether the last status that landed has one to show, on which the
second step's button depends. A save may be refused, done without its answer, or
still under way when its request is given up (`SaveFails`). A status is two
queries, one after the other (`Query`), and lands (`PollAnswered`) when the last
has answered; several may be in flight. `Telemetry` is the operator's cluster
and is not in the repository.

### ReadApi and Pages

Time is the age class of a cluster's last sample: under two minutes, and in the
windows of the engine, the overview (five minutes), the fleet (ten) and the
freshness query (a day), or older. `Tick` lets any clusters age by a class,
`Report` makes one fresh. What a handler answers is an operator on this state,
or a set where the rest is up to measurement: `Advised`, for one, because a busy
service over its target gets no recommendation. A scan may be in the store with
its row alone (`"half"`), and of a system that is no longer supported. `Facts`
is what is true while pages are asked.

A page is its rounds of reads, each answered at a moment of its own (`Read`), or
failing (`ReadFails`). `GET /v1/dashboard` is one read of six queries, one after
the other: `Chain`, in which the two of the services, on which no claim rests,
are one step. `held` is history, the facts true ever since the page was asked
for. `Says` is the set of claims the page makes: above all its empty states,
since those are what a reader may take for health. `Advice` is the empty list of
recommendations and `Table` the mark in the table of models beside it. `Unread`
says where an empty list stands for a read that failed. `Buttons`, `Press` and
`PressFails` are `CorrelationActions`.

Left out of `Pages`: what else a panel lays out of a list that is not empty,
series, throttling marks, and the minute a service needs to
settle in the engine's window. The age in the banner is computed when the page
is rendered and does not tick.

## 3. Runs

| run | module | checks |
| --- | --- | --- |
| `engine_faults` | MCCorrelationEngine | `TypeOK`, `NotifiedIsEarned` under every fault but a close executed late |
| `engine_people` | MCCorrelationEngine | `DecisionStands` with one person, failures, restarts and writes executed late |
| `engine_live` | MCCorrelationEngine | `OncePerService`, `ResolveNeedsConsecutiveMisses`, and the three liveness properties while pages and closes fail |
| `diagnosis_evidence` | MCDiagnosis | `TypeOK`, `EvidenceIsTrue`, `XidOutranks`, `BlameIsLocal` in a fleet with a cloned UUID, baseline and gauges failing |
| `audit_chain` | MCAuditLedger | `TypeOK`, `ChainIntact`, refinement of `AppendOnlyLog`, `AppendReturns` in one process |
| `audit_shared` | MCAuditLedger | `VerifyIsExact`, `LaterCallsComeAfter` in two processes under every fault |
| `scan_flow` | MCScanPanel | `TypeOK`, `CleanPanelIsClean`, `ResultIsOwn`, `EndedIsRecorded`, `GoneIsGone`, `SpinnerStops` for a panel and another starter under every fault but a shared id |
| `accounts` | MCSignInFlow | `TypeOK`, `SecondJoinOverlaps`, `MembershipIsInvited`, `OneOwnerByToken`, `LinksAreFinal`, `ArrivesSoon` for two people with three tabs |
| `deploy` | MCDeployDialog | `TypeOK`, `RepoRests`, `CommitIsRequest`, `LedgerMatchesGit` for a dialog and other callers under one fault |
| `onboarding` | MCOnboardingFlow | `ConfirmedIsCurrent`, `NeverBack`, `MovesOn` with queued polls, failures, broken files |
| `pages` | MCPages | `NothingMeansNothing`, `SilenceIsShown` for seven pages while the world moves and a read fails |

These pass. One more shows where the code does not do what is said of it:

* `accounts_two_orgs` (`OneOrganisation`): "Someone signing in twice quickly must
  not end up owning two organisations, so an existing membership wins over the
  form." (`lib/auth/org.ts:92`), and `invitations.go:429` speaks of one
  organisation per account. Both look for a membership in a transaction that locks
  nothing and is not serialisable. In the run one person has two tabs on the
  welcome page: both registrations look before either has committed, and both
  commit. `SecondJoinOverlaps`, of the run `accounts`, is what is left of the
  rule: only transactions that overlap can break it.

### Observations without a run

While modelling, more was met that a reader of the code should know. What a
passing run could not say because of one of these is named with it.

*Engine.* After one failed read of the statuses a tick reopens, and pages, what
a person had acknowledged (`engine.go:169`, under a comment, `:163`, that says
it must not; `DecisionStands` is checked and proved from readable statuses). A
decision that lands while a tick is under way is overwritten by the status that
tick had read (`DecisionStands` is about decisions older than the tick). Misses
from before an acknowledgement are still counted after it and close a reopened
correlation early (`engine.go:243`). When the hypothesis that was paged is
closed as superseded, its page no longer counts for the service and the next
hypothesis pages again, at the same severity (`engine.go:177`), although the
comment at `:337` promises one page for such a revision: `OncePerService`
forbids only what repeats a page of a correlation not closed since. A lost
insert loses the record of a page, which is then sent again (`OncePerService` is
checked without the faults `insert` and `lateinsert`). A close that is executed
long after it was given up may close what has come back meanwhile, and leave it
a record that nobody earned (`NotifiedIsEarned` is checked without
`latestatus`).

*Rules and signals.* The fallback says that no card throttles and that load did
not change without looking (`correlate.go:207`). Baseline and gauges are looked
up by model name alone, whichever cluster they are of (`signals.go:293`,
`:297`). The thermal verdict excludes a rise in traffic also when there is no
baseline. A failed XID query hides a hardware fault (`XidOutranks` is checked
without it).

*Ledger.* An insert executed after its client gave up takes the number of the
entry that follows (`audit.go:125`; `ChainIntact` is checked without it).

*Scanner.* Two scans of one millisecond share an id: the first to end takes both
out of memory, and the panel of one may show the other's result (`scan.go:100`;
the properties exempt it). A row that cannot be written is only logged, and its
panel is told that the server restarted. A row whose findings could not be
written is one without vulnerabilities (`scan.go:390`), of which the panel says
that Trivy "found nothing" (`components/security-scan.tsx:414`):
`CleanPanelIsClean` says that nothing else brings this about. A scan whose
output cannot be parsed has no entry in the ledger (`scan.go:242`), although
`handlers_phase3.go:17` says that every action has one, including the failures,
and the errors of all appends are dropped: `EndedIsRecorded` exempts the former
and says what the latter leave. A `startScanAction` that throws leaves the panel
spinning with no id (`SpinnerStops` exempts it).

*Deployer.* A late preflight stands beside inputs edited meanwhile
(`components/deploy-dialog.tsx:70`), with the button that overrides it, so that
what blocks an input may be overridden by somebody who has not seen it, although
`lib/api/deploy.ts:58` means reasons to be overridden deliberately; and an
override approves whatever blocks by the time it arrives. No property is about
this: the code does nothing that would forbid it. A cancelled request, or a
checkout of main that fails, strands the tree on a branch (`deploy.go:280`,
against the comment at `:301`), from which the next deploy starts; two requests
that meet commit each other's changes (`deploy.go:277`). `RepoRests` and
`CommitIsRequest` are about trees in which none of this happened. A remediation
that fails is not in the ledger (`handlers_phase3.go:249`, against `:17`), nor
is an entry that was refused: `LedgerMatchesGit` says what the ledger is worth
all the same.

*Accounts.* With registration closed, single sign-on refuses people who were
invited and have no membership yet, although `lib/auth/org.ts:33` names them as
let in. A second click on an accepted link is a 404 although
`invitations.go:419` means to accept idempotently. The password form forgets
where its reader came from, although `components/accept-invite.tsx:32` promises
"You will come straight back here". The settings page says that no
authentication is configured, whatever is.

*Thresholds and onboarding.* `Upsert` over a file it cannot parse drops every
listed threshold (`slo.go:150`). Of two writes in one tick of the file's clock
the second may never be read (`slo.go:64`; `ConfirmedIsCurrent` exempts them). A
reader that was slow may put an older copy back for one request after a save. A
late status without a first signal takes the one that is shown away, and the
step is then blank, without a button (`components/onboarding-flow.tsx:81`,
`:188`). The target that the last step saves, of which it says that "Every alert
and every correlation compares against this number"
(`components/onboarding-flow.tsx:222`), is read by nobody but the answer that
echoes it: a model the file does not list is compared with a constant
(`signals.go:303`, `store.go:271`, `config_api.go:82`). The file is one for all
organisations.

*Pages.* Freshness is that of the cluster heard last, so one that dies while
another reports disappears without a banner. In an outage the models leave the
dashboard after three minutes, and "all within" is then said of none; GPUs
follow after five, clusters after ten, and the engine closes the incidents. A
failed read of clusters, headroom or inference reads "none reporting" on the
dashboard, with "all within" when it was inference
(`app/dashboard/page.tsx:193`), and failed findings read "no findings" on the
security page: `Unread` names these places, and `NothingMeansNothing` is about
what was read. An empty list of recommendations says "Every model is inside its
SLO" (`app/ai/page.tsx:85`), but a busy model over its target gets no
recommendation (`inference.go:119`), so that the sentence may be false: the
property says that the table above it then marks the model (`:55`). "No
telemetry yet" is also said when the freshness query fails, or after a day. The
settings list clusters heard within a day under a comment that excludes stopped
ones (`config_api.go:53`), and call them none when the query fails. A
verification that times out takes the whole ledger page with it. "The engine
will keep this decision" is also shown for a resolved incident
(`components/correlation-actions.tsx:66`).

### Bounds

One service with two causes, of which one has both severities, is the least that
has revision of a diagnosis and escalation; the services share nothing but the
table, in which each has its own ids. `MissesBeforeResolve` is the code's 3, and
2 where a person's interleavings multiply the states. One person suffices for
`DecisionStands`: the proof covers any number. Two causes at once for one
service do not occur, `Correlate` returns one. One slot is one abandoned write
pending at a time, of the engine or of the person, which the writes of later
ticks overtake; the proofs cover any number.

`diagnosis_evidence` takes request rates on and beside the thresholds of 20 and
35 percent around a baseline of 100, a baseline that is missing or zero, clocks
with and without throttling and cache usage on both sides of 85.

`MaxCalls = 4` calls of `Append` by two callers make two rounds of each: enough
for a late insert to meet the next entry, a fork to be followed by another
entry, and a chain to lose its beginning and go on.

Two scans: one queues behind the other, or is asked for after it;
`MaxPolls = 2` is one answer late behind another. Faults are not counted. Shared
ids are left to the proofs: with every other fault they are too many states, and
the properties exempt the two scans that share one.

Two people, three tabs and two links: one deployment to claim, one person who
may found and join at once in two tabs, a link that is superseded by the other.
`Visits` and `Offers` bound what a person types into the address bar and which
role is offered, `Founders` who may own the deployment before; `MaxJoins = 2`
transactions that may end in a membership make every pair meet, and `MaxEnds`
is one session that ends under its pages. The run reaches six redirects; the
seven that `ArrivesSoon` allows take a tab that also asks for the dashboard
before its reader has a cookie, which `Visits` leaves out of the instance.

Two deploys, each from the dialog, from elsewhere or a remediation, of one
manifest or two, to an image that is new or main's own, and `MaxFaults = 1`: one
failing command, one refused append, one cancelled request, one failed call or
one restart, at any place. Deploys are symmetric.

`MaxWrites = 3` modification times of the threshold file: shipped, saved or
edited, and one more between a reader's stat, read and install, each of them
with further writes in the same tick of the clock. One reader, two polls, one
failure.

Two clusters: one silent while the other reports. `MaxMoves = 2` changes of the
world while one page loads, `MaxFailures = 1`. Ages are all the classes that any
handler tells apart, and every combination is an initial state.

Deadlock is not checked where a system may stop: the ledger's calls are bounded,
`Diagnosis` is one examination, scans and deploys are bounded, and a wizard, a
tab or a page on screen with nobody acting has nothing left to do.

### Fairness

`engine_live`: the engine keeps taking steps (a ticker in a goroutine; `tick`
returns on every path), which is weak fairness of `EngineStep` as a whole. That
is so of an organisation that sends telemetry: `activeOrgs` lists those that did
in the last 30 minutes, and one that falls silent is examined for 30 minutes
more, in which its services are absent and its correlations are closed, unless
every close fails until it is no longer listed; those stay open. Pages
and closes are tried again tick after tick, and are assumed to succeed some day:
strong fairness of a successful delivery per service, and of stamping and
landing the close per id. People are never assumed to act. Without a destination
that accepts, `BreachIsPaged` fails, and it should.

`audit_chain`: a call that holds the mutex goes on (weak fairness), and Go's
mutex, which hands itself to a waiter that has starved, lets every waiter in
(strong fairness of `Lock`).

`scan_flow`: goroutines, Trivy's deadline, the start and the interval take their
turns (weak fairness of each). The interval goes on whether or not polls answer
or throw. A poll may throw at any place, but one that is made again and again
does not throw every time: strong fairness of its look in memory, its look in
the store and its answer. Nobody has to press or leave, and no fault has to
happen or to stop otherwise.

`onboarding`: the interval and the requests of each poll take their turns, weak
fairness of asking and answering together. Failures are bounded, and `MovesOn`
is about telemetry that arrives for good.

The other runs have no liveness property and state no fairness.


## 4. Proofs

Each `..._proofs` module proves, for every value of the constants, properties
that the runs check on a small instance. The argument has the same form
everywhere: an inductive invariant, kept by each action on its own, of which the
property is a consequence.

| theorem | assumes | shows |
| --- | --- | --- |
| `CorrelationEngine_proofs` | | |
| `TypeCorrect` | | `TypeOK` |
| `DecisionsSurvive` | the statuses can be read | `DecisionStands` |
| `NotificationEarned` | nobody decides, no close is executed late | `NotifiedIsEarned` |
| `ClosedOnlyAfterMisses` | nobody decides, statuses can be read, closes that are reported as failed are not executed | `ResolveNeedsConsecutiveMisses` |
| `PagedOncePerService` | nobody decides, no failed read, no lost or late insert, no restart | `OncePerService` |
| `AuditLedger_proofs` | | |
| `TypeCorrect` | | `TypeOK` |
| `ChainNeverBreaks` | one process, no late insert, no expiry | `ChainIntact` |
| `OrderFollowsTime` | | `LaterCallsComeAfter` |
| `AppendIsAtomic` | one process, no late insert, no expiry | `KeepsPromise` |
| `VerifySpeaksTrue` | | `VerifyIsExact` |
| `SignInFlow_proofs` | | |
| `TypeCorrect` | | `TypeOK` |
| `ClaimedOnce` | | `OneOwnerByToken` |
| `JoinsOverlap` | | `SecondJoinOverlaps` |
| `NobodyWalksIn` | | `MembershipIsInvited` |
| `LinksStayFinal` | | `LinksAreFinal` |
| `ArrivesInTime` | | `ArrivesSoon` |
| `DeployDialog_proofs` | | |
| `TypeCorrect` | | `TypeOK` |
| `TreeComesBack` | | `RepoRests` |
| `CommitsAsAsked` | | `CommitIsRequest` |
| `LedgerSpeaksTrue` | | `LedgerMatchesGit` |
| `OnboardingFlow_proofs` | | |
| `TypeCorrect` | | `TypeOK` |
| `CopyIsCurrent` | | `ConfirmedIsCurrent` |
| `StepsOnlyForward` | | `NeverBack` |
| `Pages_proofs` | | |
| `NothingIsDeniedInVain` | | `NothingMeansNothing` |
| `SilenceAlwaysShows` | | `SilenceIsShown` |
| `ScanPanel_proofs` | | |
| `TypeCorrect` | | `TypeOK` |
| `CleanIsClean` | | `CleanPanelIsClean` |
| `ShownIsOwn` | | `ResultIsOwn` |
| `EndedIsKept` | | `EndedIsRecorded` |
| `GoneIsRight` | | `GoneIsGone` |
| `Diagnosis_proofs` | | |
| `TypeCorrect` | | `TypeOK` |
| `BlameStaysLocal` | | `BlameIsLocal` |
| `CardEvidence` | | what `EvidenceIsTrue` says of cards |
| `Evidence` | one service per model, the XID query is answered | `EvidenceIsTrue` |
| `XidIsNamed` | the XID query is answered | `XidOutranks` |

What a theorem assumes of the environment is what the observations above call
for. Beside that there are the assumptions on constants, named in the modules
that declare them: bounds are natural numbers, callers have a process and tabs a
person, the manifests on main are of the images there are, rates and levels are
natural numbers, and a service has one baseline at most, since its query groups
by cluster and model. Two keep a name that
stands for nothing apart from the names there are: no deploy is called "main",
because a branch is named after its deploy and the code prefixes it with
`orchestr8/`; and no organisation has the slug "no org".

**Engine.** `Phases` says what the engine holds in each phase of a tick; every
other invariant needs it. `DecisionStands` is not inductive: a tick's findings
and the engine's own close are in flight while a person writes. `HeldInv` adds
what they carry: for an id that is held, what was read, what was found, what is
to be closed and what was given up and may still be executed all agree with the
decision, or have been overtaken by it. `MissInv` relates the counter in memory
with `absent`: the counter never exceeds it, and whatever is on its way to be
closed has been absent long enough. `EarnedInv` carries `NotifiedIsEarned` from
the table to every copy of a row under way, in a slot too. `OnceInv` says that
what was told of an id is what its visible row, or the row about to replace it,
has on record, and that no service still to be diagnosed counts as paged at less
than an open row of it says; `TellBound` and `DetectOnce` draw from it that no
page repeats one.

**Ledger.** `ChainInv` adds to the chain that one caller at most is past the
mutex and that the entry it holds follows the head; `OrderInv` extends the order
of entries to those abandoned or not yet inserted, and `CallsDiffer` says that
no two of them are of one call. For the refinement `Numbered` says that an
organisation's rows are finitely many and numbered 1 to their count without a
gap, and that the entry in hand has the next number. An insert is then the
abstract commit, a call is a begin, every way to fail abandons, and the lock and
the read of the head are stutters.

`VerifyIsExact` needs no invariant but types and a finite log; it is a fact
about `Verify` and any finite set of rows. The walk is written as a function of
the place it has reached (`WalkIsFold`), and by the least place that would be
otherwise (`WFMin`, since induction over an operator is not to be had)
`WalkKnows` shows that it is intact there exactly if every row so far is
numbered by its place and linked to the one before. `LinkedIsChain` says that a
sequence of all rows that is so linked is what `IsChain` calls a chain, and
`OrderExists` that there is such a sequence to answer with.

**Accounts.** None of the four properties of accounts is inductive, because each
commit trusts what its transaction read. `TabInv` says what each tab's
transaction knows and what its locks keep true: a row that is held is still
pending and says what the transaction copied from it; who invites may still
grant, since memberships are never taken away; whoever is joining belonged
nowhere when the transaction began, or to what was committed since; and the
table lock means that no password is there. `PairInv` says what two transactions
never share: a row lock, the table lock, a new link. `LinksInv` extends
"somebody could grant it" to links that nobody has accepted yet. `OthersKeep` is
the lemma that all commits need: what one writes leaves the knowledge of every
other transaction true. `FirstOf` is a least element, which exists by induction
on the naturals (`LeastOf`), and `PagesFit` says that an invitation page has an
invitation.

`ArrivesSoon` follows from a rank. `Ahead` is the number of redirects between a
tab and a page if no session ends; it depends on whether the reader has a
session and an organisation. A redirect taken lowers it by one, a session or a
membership that comes never raises it, and a session that ends raises it by
three at most. `HopsInv` says that the redirects taken and those ahead are never
more than four and three for each session that has ended.

**Deploys.** `Progress` says for each deploy, by its place in `Apply`, what it
has to show: the entry in the ledger or among those that may still land
(`Books`), the commit, the result. `Rough` and `Stage` say what head, index,
branch and working tree are at each command of the one deploy that works in an
undisturbed tree; `TreeInv` adds that there is one at most, and that with none
the tree rests on main. `CleanReturn` is the fact about git: a checkout of main
from a clean tree leaves main's files; `BareReturn` says that main can be
checked out from a branch on which nothing was committed, whatever a failed
command left staged or unstaged. `DialogInv` and `ShownInv` are the forms of
what the dialog holds, and that what it shows as committed has a commit, which
no later step takes away (`CommitsStay`).

**Thresholds.** `StampsAreTrue` says of every reader, between its stat, its read
and its install, what the stamp it carries means: a copy that bears the file's
present modification time is the file, if that was written alone in its tick of
the clock. `CallsOfTheStep` says which call can be in
flight at which step of the wizard.

**Pages.** `HeldIsTrue` and `AnswersDeny` relate what has been true since the
page was asked for with the answers it has: no answer denies a fact that has
been true all along. `AdviceIsRead` carries that to the advice page: where
nothing is advised the models were read, and where a service was over its target
all the while the table says so. `DashboardReads` follows the rounds: what a
claim of the dashboard rests on has been read before the claim can be shown.

**Scans.** `ScannerInv` says of each scan, by its place in the goroutine, what
the store, the ledger and memory have of it, or which of its inserts were lost
(`JobInv`, `StoreInv`, `RecordInv`, `MemoryInv`): an insert that is executed
late is one its scan's goroutine did make, so that its row, findings or entry
are true whenever they come. `PanelInv` says the same of everything that carries
an answer: a poll between its two reads has seen a scan settled, a poll on its
way back says what was true of every scan of its id, the run on screen what was
true of its own. `ConclusionsStay` is the lemma all of it needs: what may be
concluded of a scan once it is settled (done, killed, refused or shared) stays
concluded, whatever the goroutines, a restart or another starter do next
(`Onward`), so an answer may arrive as late as it likes.

**Rules.** After the join, `Faithful` says of each service what its signals are:
its cards those it is bound to in its own cluster, those that throttle, err or
are full exactly the ones that do (of those that err maybe none, if the XID
query was lost). `FirstRule` turns the order of the rules into what a verdict of
each says of those before it, and a lemma for each rule says what it has looked
at. The claims about cards need nothing else (`CardEvidence`). Load and cache
are joined by the model's name alone: `KvOfOne` and `OwnLoad` show that this is
the service's own where no other service has the model, which is why `Evidence`
assumes it; where two have, the observation above stands.

Model-checked only: the liveness properties (`AbsentIsClosed`,
`RecurrenceIsListed`, `BreachIsPaged`, `AppendReturns`, `SpinnerStops`,
`MovesOn`). They rest on fairness, hence on `ENABLED`, which the installed
provers do not handle. Every invariant and every other action property of the
passing runs is stated by one of the theorems.

## 5. Not modelled

* The sweep over several organisations and the notifier's several destinations:
  an organisation's ticks share nothing but the map of misses, whose ids are of
  one organisation's services, and what a tick does with a delivery is one
  Boolean; composing them multiplies the states without a new interleaving in
  one organisation.
* Ingest: the gateway's checks are a sequence of refusals of one request with no
  state but the ring of 32 refusals, which only changes a sentence of onboarding.
* Schema migration: one statement after another at start, each of which may be
  repeated.
* Headroom, the histogram quantile, confidence figures and slugs: arithmetic on
  reals and text, in which no order of events matters.
* The simulator, the collector's configuration, charts, contracts and scripts:
  they have no state of the program.
* The web application's shell: toasts, navigation, landing and edge pages, maps,
  charts, styles and the component library render what they are given.
* Of the pages: what else a panel lays out of a list that is not empty, and
  series; of the accounts: rotation of ingest tokens, and which of its
  two names the cookie has; of the thresholds: an `Upsert` for one model, which
  the wizard does not send.
