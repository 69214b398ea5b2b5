------------------------ MODULE DeployDialog_proofs ------------------------
(***************************************************************************)
(* Proofs about DeployDialog, for every set of deploys, manifests, images  *)
(* and faults, however often these occur.                                  *)
(***************************************************************************)
EXTENDS DeployDialog, TLAPS

(***************************************************************************)
(* The inductive invariant.                                                *)
(***************************************************************************)
Branches == Deploys \cup {"main"}
Trees == [Apps -> Images]
Commits == [branch : Branches, tree : Trees]
Places == {"new", "apply", "audit", "done", "killed"} \cup InTree
Results == {"none", "blocked", "allowed", "failed"}
Jobs == [at : Places, kind : {"deploy", "remediate"}, input : Inputs \cup {NoInput}, commit : Commits \cup {NoCommit},
         cancelled : BOOLEAN, result : Results]

GitTypes ==
    /\ job \in [Deploys -> Jobs]
    /\ \A d \in Deploys : job[d].at # "new" => job[d].input \in Inputs
    /\ head \in Branches
    /\ tips \in [Branches -> Trees]
    /\ index \in Trees /\ work \in Trees

\* What a deploy asks of the manifests.
Wanted(d) == [OnMain EXCEPT ![job[d].input.app] = job[d].input.image]
Entry(d) == [deploy |-> d, what |-> "allowed"]

\* What is in the ledger, or may still come to be.
Books == ledger \cup refused

\* How far a deploy is and what it has to show for it.
Progress(d) ==
    /\ Entry(d) \in Books =>
           job[d].at \in {"audit", "done", "killed"} /\ job[d].result = "allowed"
    /\ job[d].result = "allowed" => job[d].commit # NoCommit
    /\ job[d].at \in {"new", "apply", "write", "add", "commit"} =>
           job[d].commit = NoCommit /\ job[d].result = "none"
    /\ job[d].at = "rev-parse" => job[d].commit # NoCommit /\ job[d].result = "none"
    /\ job[d].at \in {"restore", "audit"} => job[d].result \in {"allowed", "failed"}
    /\ job[d].at \in {"restore", "audit"} /\ job[d].result = "failed" =>
           job[d].commit = NoCommit \/ failed
    /\ job[d].at = "done" /\ ~job[d].cancelled /\ job[d].commit # NoCommit =>
           Entry(d) \in Books \/ failed

LedgerInv == \A d \in Deploys : Progress(d)

\* The tree while one deploy, undisturbed, works in it: how it can be left
\* whatever failed, and what it is when nothing did.
Rough(d) ==
    /\ job[d].at \in {"write", "add"} => tips[d] = OnMain
    /\ job[d].at = "commit" => tips[d] = OnMain /\ index = work
    /\ job[d].at = "rev-parse" => index = tips[d] /\ work = tips[d]
    /\ job[d].at = "restore" => tips[d] = OnMain \/ (index = tips[d] /\ work = tips[d])

Stage(d) ==
    /\ job[d].at \in {"write", "add"} => tips[d] = OnMain /\ index = OnMain
    /\ job[d].at = "write" => work = OnMain
    /\ job[d].at = "add" => work = Wanted(d)
    /\ job[d].at = "commit" => tips[d] = OnMain /\ index = Wanted(d) /\ work = Wanted(d)
    /\ job[d].at = "rev-parse" =>
           /\ tips[d] = Wanted(d)
           /\ job[d].commit = [branch |-> d, tree |-> Wanted(d)]
    /\ job[d].at \in {"rev-parse", "restore"} => index = tips[d] /\ work = tips[d]

Atrest == index = OnMain /\ work = OnMain
Kept(d) ==
    job[d].result = "allowed" =>
        job[d].commit = [branch |-> d, tree |-> Wanted(d)] /\ tips[d] = Wanted(d)

TreeInv ==
    ~disturbed =>
        /\ tips["main"] = OnMain
        /\ \A d, e \in Deploys : Busy(d) /\ Busy(e) => d = e
        /\ \A d \in Deploys : Busy(d) =>
               ~job[d].cancelled /\ head = d /\ Rough(d) /\ (failed \/ Stage(d))
        /\ (\A d \in Deploys : ~Busy(d)) => head = "main" /\ (failed \/ Atrest)
        /\ failed \/ \A d \in Deploys : Kept(d)

Inv == GitTypes /\ LedgerInv /\ TreeInv

LEMMA CommitsDiffer == \A c \in Commits : c # NoCommit
  BY DEF Commits, NoCommit

LEMMA InputTypes == \A i \in Inputs : i \in [app : Apps, image : Images]
  BY InputsAssumption

\* Undoing a deploy that has committed, or had nothing to commit.
LEMMA CleanReturn ==
    ASSUME GitTypes, index = tips[head], work = tips[head]
    PROVE  MayReturn /\ Returned(index) = OnMain /\ Returned(work) = OnMain
  <1>1. index \in Trees /\ work \in Trees /\ OnMain \in Trees
    BY MainAssumption DEF GitTypes, Trees
  <1>2. MayReturn
    BY DEF MayReturn, Clean
  <1>3. \A a \in Apps : Moves(a) \/ OnMain[a] = index[a]
    BY DEF Moves
  <1>. QED BY <1>1, <1>2, <1>3 DEF Returned, Trees

LEMMA BareReturn ==
    ASSUME GitTypes, tips[head] = OnMain
    PROVE  MayReturn
  BY DEF MayReturn, Moves

\* An append, refused or not, is in the books.
LEMMA RecordsBook ==
    ASSUME NEW d, NEW whats, Records(d, whats)
    PROVE  Books' = Books \cup Entries(d, whats)
  BY DEF Records, Books, Entries

\* Books that have nothing new of a deploy.
LEMMA ProgressStays ==
    ASSUME NEW d, Progress(d), job'[d] = job[d], failed => failed',
           Entry(d) \in Books' <=> Entry(d) \in Books
    PROVE  Progress(d)'
  BY DEF Progress, Entry

(***************************************************************************)
(* One deploy moves.                                                       *)
(***************************************************************************)
\* A job some of whose fields change.
Ended(j, at, result) == [j EXCEPT !.at = at, !.result = result]
Committed(j, at, commit) == [j EXCEPT !.at = at, !.commit = commit]

LEMMA JobMoves ==
    ASSUME NEW j \in Jobs, NEW at \in Places, NEW k, k = [j EXCEPT !.at = at]
    PROVE  /\ k.at = at /\ k.input = j.input /\ k.commit = j.commit
           /\ k.cancelled = j.cancelled /\ k.result = j.result
           /\ k \in Jobs
  BY DEF Jobs

LEMMA JobEnds ==
    ASSUME NEW j \in Jobs, NEW at \in Places, NEW result \in Results
    PROVE  LET k == Ended(j, at, result) IN
           /\ k.at = at /\ k.input = j.input /\ k.commit = j.commit
           /\ k.cancelled = j.cancelled /\ k.result = result
           /\ k \in Jobs
  BY DEF Jobs, Ended

LEMMA JobCommits ==
    ASSUME NEW j \in Jobs, NEW at \in Places, NEW commit \in Commits
    PROVE  LET k == Committed(j, at, commit) IN
           /\ k.at = at /\ k.input = j.input /\ k.commit = commit
           /\ k.cancelled = j.cancelled /\ k.result = j.result
           /\ k \in Jobs
  BY DEF Jobs, Committed

LEMMA JobIsOver ==
    ASSUME NEW j \in Jobs, NEW k, k = [j EXCEPT !.cancelled = TRUE]
    PROVE  /\ k.at = j.at /\ k.input = j.input /\ k.commit = j.commit
           /\ k.cancelled = TRUE /\ k.result = j.result
           /\ k \in Jobs
  BY DEF Jobs

LEMMA JobBegins ==
    ASSUME NEW kind \in {"deploy", "remediate"}, NEW asked \in Inputs,
           NEW at \in Places, NEW result \in Results
    PROVE  Begun(kind, asked, at, result) \in Jobs
  BY DEF Jobs, Begun, NewJob

\* The jobs, when some fields of that of one deploy change.
LEMMA OneMoves ==
    ASSUME GitTypes, NEW d \in Deploys, NEW at \in Places,
           job' = [job EXCEPT ![d].at = at]
    PROVE  /\ \A e \in Deploys \ {d} : job'[e] = job[e]
           /\ job'[d].at = at /\ job'[d].input = job[d].input
           /\ job'[d].commit = job[d].commit /\ job'[d].cancelled = job[d].cancelled
           /\ job'[d].result = job[d].result
           /\ job' \in [Deploys -> Jobs]
  <1>1. /\ job'[d] = [job[d] EXCEPT !.at = at]
        /\ \A e \in Deploys \ {d} : job'[e] = job[e]
        /\ job'[d] \in Jobs => job' \in [Deploys -> Jobs]
    BY DEF GitTypes
  <1>2. job[d] \in Jobs
    BY DEF GitTypes
  <1>. QED BY <1>1, <1>2, JobMoves

LEMMA OneEnds ==
    ASSUME GitTypes, NEW d \in Deploys, NEW at \in Places, NEW result \in Results,
           job' = [job EXCEPT ![d] = job'[d]], job'[d] = Ended(job[d], at, result)
    PROVE  /\ \A e \in Deploys \ {d} : job'[e] = job[e]
           /\ job'[d].at = at /\ job'[d].input = job[d].input
           /\ job'[d].commit = job[d].commit /\ job'[d].cancelled = job[d].cancelled
           /\ job'[d].result = result
           /\ job' \in [Deploys -> Jobs]
  <1>1. /\ \A e \in Deploys \ {d} : job'[e] = job[e]
        /\ job'[d] \in Jobs => job' \in [Deploys -> Jobs]
    BY DEF GitTypes
  <1>2. job[d] \in Jobs
    BY DEF GitTypes
  <1>3. /\ job'[d].at = at /\ job'[d].input = job[d].input /\ job'[d].commit = job[d].commit
        /\ job'[d].cancelled = job[d].cancelled /\ job'[d].result = result
        /\ job'[d] \in Jobs
    BY <1>1, <1>2, JobEnds
  <1>. QED BY <1>1, <1>3

LEMMA OneCommits ==
    ASSUME GitTypes, NEW d \in Deploys, NEW at \in Places, NEW commit \in Commits,
           job' = [job EXCEPT ![d] = job'[d]], job'[d] = Committed(job[d], at, commit)
    PROVE  /\ \A e \in Deploys \ {d} : job'[e] = job[e]
           /\ job'[d].at = at /\ job'[d].input = job[d].input
           /\ job'[d].commit = commit /\ job'[d].cancelled = job[d].cancelled
           /\ job'[d].result = job[d].result
           /\ job' \in [Deploys -> Jobs]
  <1>1. /\ \A e \in Deploys \ {d} : job'[e] = job[e]
        /\ job'[d] \in Jobs => job' \in [Deploys -> Jobs]
    BY DEF GitTypes
  <1>2. job[d] \in Jobs
    BY DEF GitTypes
  <1>3. /\ job'[d].at = at /\ job'[d].input = job[d].input /\ job'[d].commit = commit
        /\ job'[d].cancelled = job[d].cancelled /\ job'[d].result = job[d].result
        /\ job'[d] \in Jobs
    BY <1>1, <1>2, JobCommits
  <1>. QED BY <1>1, <1>3

LEMMA OneIsOver ==
    ASSUME GitTypes, NEW d \in Deploys,
           job' = [job EXCEPT ![d].cancelled = TRUE]
    PROVE  /\ \A e \in Deploys \ {d} : job'[e] = job[e]
           /\ job'[d].at = job[d].at /\ job'[d].input = job[d].input
           /\ job'[d].commit = job[d].commit /\ job'[d].cancelled = TRUE
           /\ job'[d].result = job[d].result
           /\ job' \in [Deploys -> Jobs]
  <1>1. /\ job'[d] = [job[d] EXCEPT !.cancelled = TRUE]
        /\ \A e \in Deploys \ {d} : job'[e] = job[e]
        /\ job'[d] \in Jobs => job' \in [Deploys -> Jobs]
    BY DEF GitTypes
  <1>2. job[d] \in Jobs
    BY DEF GitTypes
  <1>. QED BY <1>1, <1>2, JobIsOver

LEMMA OneBegins ==
    ASSUME GitTypes, NEW d \in Deploys, NEW kind \in {"deploy", "remediate"},
           NEW asked \in Inputs, NEW at \in Places, NEW result \in Results,
           job' = [job EXCEPT ![d] = Begun(kind, asked, at, result)]
    PROVE  /\ \A e \in Deploys \ {d} : job'[e] = job[e]
           /\ job'[d].at = at /\ job'[d].input = asked
           /\ job'[d].commit = NoCommit /\ job'[d].cancelled = FALSE
           /\ job'[d].result = result
           /\ job' \in [Deploys -> Jobs]
  <1>1. /\ job'[d] = Begun(kind, asked, at, result)
        /\ \A e \in Deploys \ {d} : job'[e] = job[e]
        /\ job'[d] \in Jobs => job' \in [Deploys -> Jobs]
    BY DEF GitTypes
  <1>2. job'[d] \in Jobs
    BY <1>1, JobBegins
  <1>3. /\ job'[d].at = at /\ job'[d].input = asked /\ job'[d].result = result
        /\ job'[d].commit = NoCommit /\ job'[d].cancelled = FALSE
    BY <1>1 DEF Begun, NewJob
  <1>. QED BY <1>1, <1>2, <1>3

\* What is asked of a deploy does not change while it moves.
LEMMA WantedStays ==
    ASSUME NEW d \in Deploys, job'[d].input = job[d].input
    PROVE  Wanted(d)' = Wanted(d)
  BY DEF Wanted

LEMMA WantedIsTree ==
    ASSUME GitTypes, NEW d \in Deploys, job[d].at # "new"
    PROVE  Wanted(d) \in Trees
  BY MainAssumption, InputTypes DEF GitTypes, Wanted, Trees

(***************************************************************************)
(* The steps of a deploy.                                                  *)
(***************************************************************************)
LEMMA BeginInv ==
    ASSUME Inv, NEW d \in Deploys, job[d].at = "new", NEW kind \in {"deploy", "remediate"},
           NEW asked \in Inputs, NEW at \in {"done", "apply"}, NEW result \in {"none", "blocked"},
           at = "apply" => result = "none",
           job' = [job EXCEPT ![d] = Begun(kind, asked, at, result)],
           UNCHANGED <<head, tips, index, work, disturbed, failed>>,
           \A e \in Deploys : Entry(e) \in Books' <=> Entry(e) \in Books
    PROVE  Inv'
  <1>1. /\ \A e \in Deploys \ {d} : job'[e] = job[e]
        /\ job'[d].at = at /\ job'[d].input = asked
        /\ job'[d].commit = NoCommit /\ job'[d].cancelled = FALSE
        /\ job'[d].result = result
        /\ job' \in [Deploys -> Jobs]
    <2>1. at \in Places /\ result \in Results
      BY DEF Places, Results
    <2>. QED BY <2>1, OneBegins DEF Inv
  <1>2. GitTypes'
    BY <1>1 DEF Inv, GitTypes, Places
  <1>3. LedgerInv'
    <2>1. Entry(d) \notin Books
      BY DEF Inv, LedgerInv, Progress
    <2>2. Entry(d)' = Entry(d) /\ Entry(d) \notin Books'
      BY <2>1 DEF Entry
    <2>3. Progress(d)'
      BY <1>1, <2>2 DEF Progress
    <2>4. ASSUME NEW e \in Deploys \ {d} PROVE Progress(e)'
      BY <1>1, ProgressStays DEF Inv, LedgerInv
    <2>. QED BY <2>3, <2>4 DEF LedgerInv
  <1>4. TreeInv'
    <2>1. ~Busy(d) /\ ~Busy(d)'
      BY <1>1 DEF Busy, InTree
    <2>2. \A e \in Deploys \ {d} : Busy(e)' <=> Busy(e)
      BY <1>1 DEF Busy
    <2>3. \A e \in Deploys \ {d} : /\ Rough(e)' <=> Rough(e)
                                   /\ Stage(e)' <=> Stage(e)
                                   /\ Kept(e)' <=> Kept(e)
      BY <1>1 DEF Rough, Stage, Kept, Wanted
    <2>4. Kept(d)'
      BY <1>1 DEF Kept
    <2>. QED BY <1>1, <2>1, <2>2, <2>3, <2>4 DEF Inv, TreeInv, Atrest
  <1>. QED BY <1>2, <1>3, <1>4 DEF Inv

LEMMA RequestInv ==
    ASSUME Inv, NEW d \in Deploys, NEW asked \in Inputs,
           NEW approved, NEW blocked,
           Request(d, asked, approved, blocked)
    PROVE  Inv'
  <1>. DEFINE at == IF blocked /\ ~approved THEN "done" ELSE "apply"
              result == IF blocked /\ ~approved THEN "blocked" ELSE "none"
              whats == {"request"} \cup (IF blocked /\ ~approved THEN {"blocked"} ELSE {})
                          \cup (IF blocked /\ approved THEN {"override"} ELSE {})
  <1>1. /\ job' = [job EXCEPT ![d] = Begun("deploy", asked, at, result)]
        /\ Records(d, whats) /\ job[d].at = "new"
        /\ UNCHANGED <<head, tips, index, work, disturbed, failed>>
    BY DEF Request, repoVars
  <1>2. at \in {"done", "apply"} /\ result \in {"none", "blocked"}
        /\ (at = "apply" => result = "none") /\ "allowed" \notin whats
    OBVIOUS
  <1>. HIDE DEF at, result, whats
  <1>3. \A e \in Deploys : Entry(e) \in Books' <=> Entry(e) \in Books
    BY <1>1, <1>2, RecordsBook DEF Entries, Entry
  <1>. QED BY <1>1, <1>2, <1>3, BeginInv

LEMMA RemediateInv ==
    ASSUME Inv, NEW d \in Deploys, NEW asked \in Inputs, Remediate(d, asked)
    PROVE  Inv'
  <1>1. job' = [job EXCEPT ![d] = Begun("remediate", asked, "apply", "none")]
    BY DEF Remediate
  <1>2. /\ job[d].at = "new" /\ Books' = Books
        /\ UNCHANGED <<head, tips, index, work, disturbed, failed>>
    BY DEF Remediate, repoVars, auditVars, Books
  <1>. QED BY <1>1, <1>2, BeginInv

LEMMA BranchInv == ASSUME Inv, NEW d \in Deploys, Branch(d) PROVE Inv'
  <1>1. /\ \A e \in Deploys \ {d} : job'[e] = job[e]
        /\ job'[d].at = "write" /\ job'[d].input = job[d].input
        /\ job'[d].commit = job[d].commit /\ job'[d].cancelled = job[d].cancelled
        /\ job'[d].result = job[d].result
        /\ job' \in [Deploys -> Jobs]
    BY OneMoves DEF Branch, Goes, Inv, Places, InTree
  <1>2. /\ job[d].at = "apply" /\ ~job[d].cancelled
        /\ tips' = [tips EXCEPT ![d] = tips[head]] /\ head' = d
        /\ disturbed' = (disturbed \/ Others(d) # {})
        /\ UNCHANGED <<index, work, failed>> /\ Books' = Books
    BY DEF Branch, auditVars, Books
  <1>3. GitTypes'
    BY <1>1, <1>2 DEF Inv, GitTypes, Branches
  <1>4. LedgerInv'
    BY <1>1, <1>2 DEF Inv, LedgerInv, Progress, Entry
  <1>5. TreeInv'
    <2>. SUFFICES ASSUME ~disturbed' PROVE TreeInv'
      BY DEF TreeInv
    <2>1. ~disturbed /\ Others(d) = {}
      BY <1>2
    <2>2. \A e \in Deploys : ~Busy(e)
      BY <1>2, <2>1 DEF Others, Busy, InTree
    <2>3. head = "main" /\ (failed \/ Atrest) /\ tips["main"] = OnMain /\ d # "main"
      BY <2>1, <2>2, BranchesAssumption DEF Inv, TreeInv
    <2>4. tips'[d] = OnMain /\ tips'["main"] = OnMain
          /\ \A e \in Deploys \ {d} : tips'[e] = tips[e]
      BY <1>2, <2>3 DEF Inv, GitTypes, Branches
    <2>5. \A e \in Deploys : Busy(e)' <=> e = d
      BY <1>1, <2>2 DEF Busy, InTree
    <2>6. Rough(d)' /\ (failed' \/ Stage(d)')
      BY <1>1, <1>2, <2>3, <2>4 DEF Rough, Stage, Atrest
    <2>7. \A e \in Deploys \ {d} : Kept(e)' <=> Kept(e)
      BY <1>1, <2>4 DEF Kept, Wanted
    <2>8. Kept(d)'
      BY <1>1, <1>2 DEF Kept, Inv, LedgerInv, Progress
    <2>. QED BY <1>1, <1>2, <2>1, <2>4, <2>5, <2>6, <2>7, <2>8 DEF Inv, TreeInv
  <1>. QED BY <1>3, <1>4, <1>5 DEF Inv

LEMMA WriteInv == ASSUME Inv, NEW d \in Deploys, Write(d) PROVE Inv'
  <1>1. /\ \A e \in Deploys \ {d} : job'[e] = job[e]
        /\ job'[d].at = "add" /\ job'[d].input = job[d].input
        /\ job'[d].commit = job[d].commit /\ job'[d].cancelled = job[d].cancelled
        /\ job'[d].result = job[d].result
        /\ job' \in [Deploys -> Jobs]
    BY OneMoves DEF Write, Goes, Inv, Places, InTree
  <1>2. /\ job[d].at = "write"
        /\ work' = [work EXCEPT ![job[d].input.app] = job[d].input.image]
        /\ UNCHANGED <<head, tips, index, disturbed, failed>> /\ Books' = Books
    BY DEF Write, auditVars, Books
  <1>3. GitTypes'
    <2>1. job[d].input \in Inputs
      BY <1>2 DEF Inv, GitTypes
    <2>2. work' \in Trees
      BY <1>2, <2>1, InputTypes DEF Inv, GitTypes, Trees
    <2>. QED BY <1>1, <1>2, <2>1, <2>2 DEF Inv, GitTypes
  <1>4. LedgerInv'
    BY <1>1, <1>2 DEF Inv, LedgerInv, Progress, Entry
  <1>5. TreeInv'
    <2>. SUFFICES ASSUME ~disturbed PROVE TreeInv'
      BY <1>2 DEF TreeInv
    <2>1. \A e \in Deploys : Busy(e)' <=> Busy(e)
      BY <1>1, <1>2 DEF Busy, InTree
    <2>2. Busy(d)
      BY <1>2 DEF Busy, InTree
    <2>3. Rough(d)' /\ (failed' \/ Stage(d)')
      BY <1>1, <1>2, <2>2 DEF Inv, TreeInv, Rough, Stage, Wanted
    <2>4. \A e \in Deploys \ {d} : Kept(e)' <=> Kept(e)
      BY <1>1, <1>2 DEF Kept, Wanted
    <2>5. Kept(d)'
      BY <1>1, <1>2 DEF Kept, Inv, LedgerInv, Progress
    <2>. QED BY <1>1, <1>2, <2>1, <2>2, <2>3, <2>4, <2>5 DEF Inv, TreeInv
  <1>. QED BY <1>3, <1>4, <1>5 DEF Inv

LEMMA AddInv == ASSUME Inv, NEW d \in Deploys, Add(d) PROVE Inv'
  <1>1. /\ \A e \in Deploys \ {d} : job'[e] = job[e]
        /\ job'[d].at = "commit" /\ job'[d].input = job[d].input
        /\ job'[d].commit = job[d].commit /\ job'[d].cancelled = job[d].cancelled
        /\ job'[d].result = job[d].result
        /\ job' \in [Deploys -> Jobs]
    BY OneMoves DEF Add, Goes, Inv, Places, InTree
  <1>2. /\ job[d].at = "add" /\ index' = work
        /\ UNCHANGED <<head, tips, work, disturbed, failed>> /\ Books' = Books
    BY DEF Add, auditVars, Books
  <1>3. GitTypes'
    BY <1>1, <1>2 DEF Inv, GitTypes
  <1>4. LedgerInv'
    BY <1>1, <1>2 DEF Inv, LedgerInv, Progress, Entry
  <1>5. TreeInv'
    <2>. SUFFICES ASSUME ~disturbed PROVE TreeInv'
      BY <1>2 DEF TreeInv
    <2>1. \A e \in Deploys : Busy(e)' <=> Busy(e)
      BY <1>1, <1>2 DEF Busy, InTree
    <2>2. Busy(d)
      BY <1>2 DEF Busy, InTree
    <2>3. Rough(d)' /\ (failed' \/ Stage(d)')
      BY <1>1, <1>2, <2>2 DEF Inv, TreeInv, Rough, Stage, Wanted
    <2>4. \A e \in Deploys \ {d} : Kept(e)' <=> Kept(e)
      BY <1>1, <1>2 DEF Kept, Wanted
    <2>5. Kept(d)'
      BY <1>1, <1>2 DEF Kept, Inv, LedgerInv, Progress
    <2>. QED BY <1>1, <1>2, <2>1, <2>2, <2>3, <2>4, <2>5 DEF Inv, TreeInv
  <1>. QED BY <1>3, <1>4, <1>5 DEF Inv

LEMMA CommitInv == ASSUME Inv, NEW d \in Deploys, Commit(d) PROVE Inv'
  <1>. DEFINE empty == index = tips[head]
              new == [branch |-> head, tree |-> index]
  <1>1. /\ \A e \in Deploys \ {d} : job'[e] = job[e]
        /\ job'[d].input = job[d].input /\ job'[d].cancelled = job[d].cancelled
        /\ job' \in [Deploys -> Jobs]
        /\ empty => job'[d].at = "restore" /\ job'[d].result = "failed"
                    /\ job'[d].commit = job[d].commit
        /\ ~empty => job'[d].at = "rev-parse" /\ job'[d].result = job[d].result
                     /\ job'[d].commit = new
    <2>1. empty => job' = [job EXCEPT ![d].at = "restore", ![d].result = "failed"]
      BY DEF Commit, Fails
    <2>2. ~empty => job' = [job EXCEPT ![d].at = "rev-parse", ![d].commit = new]
      BY DEF Commit
    <2>3. new \in Commits
      BY DEF Inv, GitTypes, Commits
    <2>. HIDE DEF empty, new
    <2>3a. job \in [Deploys -> Jobs]
      BY DEF Inv, GitTypes
    <2>4. CASE empty
      <3>1. job' = [job EXCEPT ![d] = job'[d]] /\ job'[d] = Ended(job[d], "restore", "failed")
        BY <2>1, <2>3a, <2>4 DEF Ended
      <3>2. "restore" \in Places /\ "failed" \in Results
        BY DEF Places, InTree, Results
      <3>. QED BY <2>4, <3>1, <3>2, OneEnds DEF Inv
    <2>5. CASE ~empty
      <3>1. job' = [job EXCEPT ![d] = job'[d]] /\ job'[d] = Committed(job[d], "rev-parse", new)
        BY <2>2, <2>3a, <2>5 DEF Committed
      <3>2. "rev-parse" \in Places
        BY DEF Places, InTree
      <3>. QED BY <2>3, <2>5, <3>1, <3>2, OneCommits DEF Inv
    <2>. QED BY <2>4, <2>5
  <1>2. /\ job[d].at = "commit"
        /\ tips' = IF empty THEN tips ELSE [tips EXCEPT ![head] = index]
        /\ UNCHANGED <<head, index, work, disturbed, failed>> /\ Books' = Books
    BY DEF Commit, auditVars, Books
  <1>3. GitTypes'
    BY <1>1, <1>2 DEF Inv, GitTypes
  <1>4. LedgerInv'
    <2>1. new # NoCommit
      BY CommitsDiffer DEF Inv, GitTypes, Commits
    <2>2. Progress(d)'
      BY <1>1, <1>2, <2>1 DEF Inv, LedgerInv, Progress, Entry
    <2>3. \A e \in Deploys \ {d} : Progress(e)'
      BY <1>1, <1>2 DEF Inv, LedgerInv, Progress, Entry
    <2>. QED BY <2>2, <2>3 DEF LedgerInv
  <1>5. TreeInv'
    <2>. SUFFICES ASSUME ~disturbed PROVE TreeInv'
      BY <1>2 DEF TreeInv
    <2>1. \A e \in Deploys : Busy(e)' <=> Busy(e)
      BY <1>1, <1>2 DEF Busy, InTree
    <2>2. Busy(d)
      BY <1>2 DEF Busy, InTree
    <2>3. /\ head = d /\ tips[d] = OnMain /\ index = work /\ d # "main"
          /\ failed \/ index = Wanted(d)
      BY <1>2, <2>2, BranchesAssumption DEF Inv, TreeInv, Rough, Stage
    <2>4. Wanted(d)' = Wanted(d)
      BY <1>1, WantedStays
    <2>5. tips'[d] = index /\ (empty => tips'[d] = OnMain) /\ \A b \in Branches \ {d} : tips'[b] = tips[b]
      BY <1>2, <2>3 DEF Inv, GitTypes, Branches
    <2>6. Rough(d)' /\ (failed' \/ Stage(d)')
      BY <1>1, <1>2, <2>3, <2>4, <2>5 DEF Rough, Stage
    <2>7. \A e \in Deploys \ {d} : Kept(e)' <=> Kept(e)
      BY <1>1, <2>5 DEF Kept, Wanted, Branches
    <2>8. Kept(d)'
      BY <1>1, <1>2 DEF Kept, Inv, LedgerInv, Progress
    <2>9. tips'["main"] = OnMain
      BY <2>3, <2>5 DEF Inv, TreeInv, Branches
    <2>. QED BY <1>1, <1>2, <2>1, <2>2, <2>6, <2>7, <2>8, <2>9 DEF Inv, TreeInv
  <1>. QED BY <1>3, <1>4, <1>5 DEF Inv

LEMMA RevParseInv == ASSUME Inv, NEW d \in Deploys, RevParse(d) PROVE Inv'
  <1>1. /\ \A e \in Deploys \ {d} : job'[e] = job[e]
        /\ job'[d].at = "restore" /\ job'[d].input = job[d].input
        /\ job'[d].commit = job[d].commit /\ job'[d].cancelled = job[d].cancelled
        /\ job'[d].result = "allowed"
        /\ job' \in [Deploys -> Jobs]
    <2>1. job' = [job EXCEPT ![d] = job'[d]] /\ job'[d] = Ended(job[d], "restore", "allowed")
      <3>1. job' = [job EXCEPT ![d].at = "restore", ![d].result = "allowed"]
        BY DEF RevParse
      <3>2. job \in [Deploys -> Jobs]
        BY DEF Inv, GitTypes
      <3>. QED BY <3>1, <3>2 DEF Ended
    <2>2. "restore" \in Places /\ "allowed" \in Results
      BY DEF Places, InTree, Results
    <2>. QED BY <2>1, <2>2, OneEnds DEF Inv
  <1>2. /\ job[d].at = "rev-parse" /\ Books' = Books
        /\ UNCHANGED <<head, tips, index, work, disturbed, failed>>
    BY DEF RevParse, repoVars, auditVars, Books
  <1>3. GitTypes'
    BY <1>1, <1>2 DEF Inv, GitTypes
  <1>4. LedgerInv'
    BY <1>1, <1>2 DEF Inv, LedgerInv, Progress, Entry
  <1>5. TreeInv'
    <2>. SUFFICES ASSUME ~disturbed PROVE TreeInv'
      BY <1>2 DEF TreeInv
    <2>1. \A e \in Deploys : Busy(e)' <=> Busy(e)
      BY <1>1, <1>2 DEF Busy, InTree
    <2>2. Busy(d)
      BY <1>2 DEF Busy, InTree
    <2>3. Rough(d)' /\ (failed' \/ (Stage(d)' /\ Kept(d)'))
      BY <1>1, <1>2, <2>2 DEF Inv, TreeInv, Rough, Stage, Kept, Wanted
    <2>4. \A e \in Deploys \ {d} : Kept(e)' <=> Kept(e)
      BY <1>1, <1>2 DEF Kept, Wanted
    <2>. QED BY <1>1, <1>2, <2>1, <2>2, <2>3, <2>4 DEF Inv, TreeInv
  <1>. QED BY <1>3, <1>4, <1>5 DEF Inv

LEMMA RestoreInv == ASSUME Inv, NEW d \in Deploys, Restore(d) PROVE Inv'
  <1>. DEFINE returns == MayReturn /\ ~job[d].cancelled
  <1>1. /\ \A e \in Deploys \ {d} : job'[e] = job[e]
        /\ job'[d].at = "audit" /\ job'[d].input = job[d].input
        /\ job'[d].commit = job[d].commit /\ job'[d].cancelled = job[d].cancelled
        /\ job'[d].result = job[d].result
        /\ job' \in [Deploys -> Jobs]
    BY OneMoves DEF Restore, Goes, Inv, Places
  <1>2. job[d].at = "restore" /\ UNCHANGED <<tips, disturbed, failed>> /\ Books' = Books
    BY DEF Restore, auditVars, Books
  <1>3. /\ returns => head' = "main" /\ index' = Returned(index) /\ work' = Returned(work)
        /\ ~returns => UNCHANGED <<head, index, work>>
    BY DEF Restore
  <1>4. GitTypes'
    <2>1. \A tree \in Trees : Returned(tree) \in Trees
      BY MainAssumption DEF Returned, Trees
    <2>2. index' \in Trees /\ work' \in Trees /\ head' \in Branches
      BY <1>3, <2>1 DEF Inv, GitTypes, Branches
    <2>. QED BY <1>1, <1>2, <2>2 DEF Inv, GitTypes
  <1>5. LedgerInv'
    <2>1. Progress(d)'
      BY <1>1, <1>2 DEF Inv, LedgerInv, Progress, Entry
    <2>2. \A e \in Deploys \ {d} : Progress(e)'
      BY <1>1, <1>2 DEF Inv, LedgerInv, Progress, Entry
    <2>. QED BY <2>1, <2>2 DEF LedgerInv
  <1>6. TreeInv'
    <2>. SUFFICES ASSUME ~disturbed PROVE TreeInv'
      BY <1>2 DEF TreeInv
    <2>1. Busy(d)
      BY <1>2 DEF Busy, InTree
    <2>2. /\ head = d /\ ~job[d].cancelled
          /\ tips[head] = OnMain \/ (index = tips[head] /\ work = tips[head])
          /\ failed \/ (index = tips[head] /\ work = tips[head])
      BY <1>2, <2>1 DEF Inv, TreeInv, Rough, Stage
    <2>3. head' = "main" /\ (failed' \/ Atrest')
      BY <1>2, <1>3, <2>2, CleanReturn, BareReturn DEF Inv, Atrest
    <2>4. \A e \in Deploys : ~Busy(e)'
      BY <1>1, <2>1 DEF Inv, TreeInv, Busy, InTree
    <2>5. \A e \in Deploys \ {d} : Kept(e)' <=> Kept(e)
      BY <1>1, <1>2 DEF Kept, Wanted
    <2>6. failed' \/ Kept(d)'
      BY <1>1, <1>2 DEF Inv, TreeInv, Kept, Wanted
    <2>. QED BY <1>1, <1>2, <2>3, <2>4, <2>5, <2>6 DEF Inv, TreeInv
  <1>. QED BY <1>4, <1>5, <1>6 DEF Inv

LEMMA AuditInv == ASSUME Inv, NEW d \in Deploys, Audit(d) PROVE Inv'
  <1>1. /\ \A e \in Deploys \ {d} : job'[e] = job[e]
        /\ job'[d].at = "done" /\ job'[d].input = job[d].input
        /\ job'[d].commit = job[d].commit /\ job'[d].cancelled = job[d].cancelled
        /\ job'[d].result = job[d].result
        /\ job' \in [Deploys -> Jobs]
    BY OneMoves DEF Audit, Goes, Inv, Places
  <1>2. job[d].at = "audit" /\ UNCHANGED <<head, tips, index, work, disturbed, failed>>
    BY DEF Audit, repoVars
  <1>3. Books' = IF job[d].cancelled THEN Books ELSE Books \cup Entries(d, Outcome(d))
    BY RecordsBook DEF Audit, auditVars, Books
  <1>3a. /\ \A e \in Deploys : Entry(e)' = Entry(e)
         /\ \A e \in Deploys \ {d} : Entry(e) \in Books' <=> Entry(e) \in Books
         /\ Entry(d) \in Books' => Entry(d) \in Books \/ job[d].result = "allowed"
         /\ ~job[d].cancelled /\ job[d].result = "allowed" => Entry(d) \in Books'
         /\ Books \subseteq Books'
    BY <1>3 DEF Entry, Entries, Outcome
  <1>4. GitTypes'
    BY <1>1, <1>2 DEF Inv, GitTypes
  <1>5. LedgerInv'
    <2>1. Progress(d)'
      BY <1>1, <1>2, <1>3a DEF Inv, LedgerInv, Progress
    <2>2. ASSUME NEW e \in Deploys \ {d} PROVE Progress(e)'
      BY <1>1, <1>2, <1>3a, ProgressStays DEF Inv, LedgerInv
    <2>. QED BY <2>1, <2>2 DEF LedgerInv
  <1>6. TreeInv'
    <2>1. \A e \in Deploys : Busy(e)' <=> Busy(e)
      BY <1>1, <1>2 DEF Busy, InTree
    <2>2. \A e \in Deploys : (Rough(e) => Rough(e)') /\ (Stage(e) => Stage(e)')
      BY <1>1, <1>2 DEF Rough, Stage, Wanted
    <2>3. \A e \in Deploys : Kept(e) => Kept(e)'
      BY <1>1, <1>2 DEF Kept, Wanted
    <2>. QED BY <1>1, <1>2, <2>1, <2>2, <2>3 DEF Inv, TreeInv, Atrest
  <1>. QED BY <1>4, <1>5, <1>6 DEF Inv

LEMMA GitFailsInv == ASSUME Inv, NEW d \in Deploys, GitFails(d) PROVE Inv'
  <1>. DEFINE at == IF job[d].at \in {"apply", "restore"} THEN "audit" ELSE "restore"
              result == IF job[d].at = "restore" THEN job[d].result ELSE "failed"
  <1>1. /\ \A e \in Deploys \ {d} : job'[e] = job[e]
        /\ job'[d].at = at /\ job'[d].input = job[d].input
        /\ job'[d].commit = job[d].commit /\ job'[d].cancelled = job[d].cancelled
        /\ job'[d].result = result
        /\ job' \in [Deploys -> Jobs]
    <2>1. CASE job[d].at = "restore"
      <3>1. Goes(d, "audit")
        BY <2>1 DEF GitFails
      <3>. QED BY <2>1, <3>1, OneMoves DEF Goes, Inv, Places
    <2>2. CASE job[d].at # "restore"
      <3>1. job' = [job EXCEPT ![d] = job'[d]] /\ job'[d] = Ended(job[d], at, "failed")
        <4>1. job' = [job EXCEPT ![d].at = at, ![d].result = "failed"]
          BY <2>2 DEF GitFails, Fails, InTree
        <4>2. job \in [Deploys -> Jobs]
          BY DEF Inv, GitTypes
        <4>. HIDE DEF at
        <4>. QED BY <4>1, <4>2 DEF Ended
      <3>2. at \in Places /\ "failed" \in Results /\ result = "failed"
        BY <2>2 DEF Places, InTree, Results
      <3>. HIDE DEF at, result
      <3>. QED BY <3>1, <3>2, OneEnds DEF Inv
    <2>. QED BY <2>1, <2>2
  <1>2. /\ UNCHANGED <<head, tips, index, work>> /\ Books' = Books
        /\ \/ job[d].at = "apply" /\ disturbed' = disturbed /\ failed' = failed
           \/ job[d].at = "restore" /\ disturbed' /\ failed' = failed
           \/ /\ job[d].at \in {"write", "add", "commit", "rev-parse"}
              /\ disturbed' = disturbed /\ failed'
    BY DEF GitFails, repoVars, auditVars, Books, InTree
  <1>3. GitTypes'
    BY <1>1, <1>2 DEF Inv, GitTypes
  <1>4. LedgerInv'
    <2>1. Progress(d)'
      BY <1>1, <1>2 DEF Inv, LedgerInv, Progress, Entry
    <2>2. ASSUME NEW e \in Deploys \ {d} PROVE Progress(e)'
      BY <1>1, <1>2, ProgressStays DEF Inv, LedgerInv
    <2>. QED BY <2>1, <2>2 DEF LedgerInv
  <1>5. TreeInv'
    <2>. SUFFICES ASSUME ~disturbed' PROVE TreeInv'
      BY DEF TreeInv
    <2>1. ~disturbed /\ job[d].at # "restore"
      BY <1>2
    <2>2. \A e \in Deploys \ {d} : /\ Rough(e) => Rough(e)'
                                   /\ Stage(e) => Stage(e)'
                                   /\ Kept(e) => Kept(e)'
      BY <1>1, <1>2 DEF Rough, Stage, Kept, Wanted
    <2>3. \A e \in Deploys : Busy(e)' <=> Busy(e)
      BY <1>1, <1>2, <2>1 DEF Busy, InTree
    <2>4. CASE job[d].at = "apply"
      <3>1. ~Busy(d) /\ Kept(d)' /\ failed' = failed
        BY <1>1, <1>2, <2>4 DEF Busy, InTree, Kept
      <3>. QED BY <1>1, <1>2, <2>1, <2>2, <2>3, <3>1 DEF Inv, TreeInv, Atrest
    <2>5. CASE job[d].at \in {"write", "add", "commit", "rev-parse"}
      <3>1. Busy(d) /\ failed'
        BY <1>2, <2>5 DEF Busy, InTree
      <3>2. Rough(d)'
        BY <1>1, <1>2, <2>1, <2>5, <3>1 DEF Inv, TreeInv, Rough
      <3>. QED BY <1>1, <1>2, <2>1, <2>2, <2>3, <3>1, <3>2 DEF Inv, TreeInv
    <2>. QED BY <1>2, <2>1, <2>4, <2>5
  <1>. QED BY <1>3, <1>4, <1>5 DEF Inv

\* What is cut off is of deploys that committed, if it says so.
LEMMA CutOffBook ==
    ASSUME NEW d, NEW e, Entry(e) \in CutOff(d)
    PROVE  e = d /\ job[d].at = "audit" /\ job[d].result = "allowed"
  BY DEF CutOff, Entries, Entry, Outcome

LEMMA OverInv ==
    ASSUME Inv, NEW d \in Deploys, Over(d), UNCHANGED <<repoVars, ledger, failed>>
    PROVE  Inv'
  <1>1. /\ \A e \in Deploys \ {d} : job'[e] = job[e]
        /\ job'[d].at = job[d].at /\ job'[d].input = job[d].input
        /\ job'[d].commit = job[d].commit /\ job'[d].cancelled = TRUE
        /\ job'[d].result = job[d].result
        /\ job' \in [Deploys -> Jobs]
    BY OneIsOver DEF Over, Inv
  <1>2. /\ UNCHANGED <<head, tips, index, work, failed>>
        /\ disturbed' = (disturbed \/ Busy(d))
        /\ Books' = Books \cup CutOff(d)
    BY DEF Over, repoVars, Books
  <1>2a. /\ \A e \in Deploys : Entry(e)' = Entry(e)
         /\ \A e \in Deploys \ {d} : Entry(e) \in Books' <=> Entry(e) \in Books
         /\ Entry(d) \in Books' => Entry(d) \in Books
                                      \/ (job[d].at = "audit" /\ job[d].result = "allowed")
    BY <1>2, CutOffBook DEF Entry
  <1>3. GitTypes'
    BY <1>1, <1>2 DEF Inv, GitTypes
  <1>4. LedgerInv'
    <2>1. Progress(d)'
      BY <1>1, <1>2, <1>2a DEF Inv, LedgerInv, Progress
    <2>2. \A e \in Deploys \ {d} : Progress(e)'
      BY <1>1, <1>2, <1>2a, ProgressStays DEF Inv, LedgerInv
    <2>. QED BY <2>1, <2>2 DEF LedgerInv
  <1>5. TreeInv'
    <2>. SUFFICES ASSUME ~disturbed' PROVE TreeInv'
      BY DEF TreeInv
    <2>1. ~disturbed /\ ~Busy(d)
      BY <1>2
    <2>2. \A e \in Deploys : Busy(e)' <=> Busy(e)
      BY <1>1 DEF Busy
    <2>3. \A e \in Deploys \ {d} : /\ Rough(e) => Rough(e)'
                                   /\ Stage(e) => Stage(e)'
                                   /\ Kept(e) => Kept(e)'
      BY <1>1, <1>2 DEF Rough, Stage, Kept, Wanted
    <2>4. Kept(d) => Kept(d)'
      BY <1>1, <1>2 DEF Kept, Wanted
    <2>. QED BY <1>1, <1>2, <2>1, <2>2, <2>3, <2>4 DEF Inv, TreeInv, Atrest
  <1>. QED BY <1>3, <1>4, <1>5 DEF Inv

LEMMA RestartInv == ASSUME Inv, Restart PROVE Inv'
  <1>. DEFINE stays(d) == job[d].at \in {"new", "done", "killed"}
  <1>1. ASSUME NEW d \in Deploys
        PROVE  /\ stays(d) => job'[d] = job[d]
               /\ ~stays(d) => job'[d].at = "killed" /\ job'[d].input = job[d].input
                               /\ job'[d].commit = job[d].commit
                               /\ job'[d].cancelled = job[d].cancelled
                               /\ job'[d].result = job[d].result
               /\ job'[d] \in Jobs
    <2>1. job[d] \in Jobs
      BY DEF Inv, GitTypes
    <2>2. job'[d] = IF stays(d) THEN job[d] ELSE [job[d] EXCEPT !.at = "killed"]
      BY DEF Restart
    <2>3. "killed" \in Places
      BY DEF Places
    <2>. QED BY <2>1, <2>2, <2>3, JobMoves
  <1>2. /\ UNCHANGED <<head, tips, index, work, failed>>
        /\ disturbed' = (disturbed \/ \E d \in Deploys : Busy(d))
        /\ Books' = Books \cup UNION {CutOff(d) : d \in Deploys}
    BY DEF Restart, repoVars, Books
  <1>2a. ASSUME NEW d \in Deploys
         PROVE  /\ Entry(d)' = Entry(d) /\ Books \subseteq Books'
                /\ Entry(d) \in Books' => Entry(d) \in Books
                                             \/ (job[d].at = "audit" /\ job[d].result = "allowed")
    BY <1>2, CutOffBook DEF Entry
  <1>3. job' \in [Deploys -> Jobs]
    <2>1. job' = [d \in Deploys |-> job'[d]]
      BY DEF Restart
    <2>. QED BY <1>1, <2>1
  <1>4. GitTypes'
    BY <1>1, <1>2, <1>3 DEF Inv, GitTypes
  <1>5. LedgerInv'
    <2>. SUFFICES ASSUME NEW d \in Deploys PROVE Progress(d)'
      BY DEF LedgerInv
    <2>2. Progress(d)
      BY DEF Inv, LedgerInv
    <2>3. CASE stays(d)
      BY <1>1, <1>2, <1>2a, <2>2, <2>3, ProgressStays
    <2>4. CASE ~stays(d)
      BY <1>1, <1>2, <1>2a, <2>2, <2>4 DEF Progress
    <2>. QED BY <2>3, <2>4
  <1>6. TreeInv'
    <2>. SUFFICES ASSUME ~disturbed' PROVE TreeInv'
      BY DEF TreeInv
    <2>1. ~disturbed /\ \A d \in Deploys : ~Busy(d)
      BY <1>2
    <2>2. \A d \in Deploys : ~Busy(d)'
      BY <1>1, <2>1 DEF Busy, InTree
    <2>3. \A d \in Deploys : Kept(d) => Kept(d)'
      BY <1>1, <1>2 DEF Kept, Wanted
    <2>. QED BY <1>2, <2>1, <2>2, <2>3 DEF Inv, TreeInv, Atrest
  <1>. QED BY <1>4, <1>5, <1>6 DEF Inv

LEMMA GitStutter ==
    ASSUME Inv, UNCHANGED <<job, repoVars, disturbed, failed>>, Books' = Books
    PROVE  Inv'
  <1>1. GitTypes'
    BY DEF Inv, GitTypes, repoVars
  <1>2. LedgerInv'
    BY DEF Inv, LedgerInv, Progress, Entry
  <1>3. TreeInv'
    <2>1. \A d \in Deploys : /\ Busy(d)' <=> Busy(d)
                             /\ Rough(d) => Rough(d)'
                             /\ Stage(d) => Stage(d)'
                             /\ Kept(d) => Kept(d)'
      BY DEF Busy, Rough, Stage, Kept, Wanted, repoVars
    <2>. QED BY <2>1 DEF Inv, TreeInv, Atrest, repoVars
  <1>. QED BY <1>1, <1>2, <1>3 DEF Inv

LEMMA ApplyInv == ASSUME Inv, NEW d \in Deploys, Apply(d) PROVE Inv'
  BY BranchInv, WriteInv, AddInv, CommitInv, RevParseInv, RestoreInv, AuditInv, GitFailsInv
     DEF Apply

(***************************************************************************)
(* The dialog.                                                             *)
(***************************************************************************)
DialogInv ==
    /\ input \in DialogInputs
    /\ call # None =>
           /\ call = [kind |-> call.kind, input |-> call.input, approved |-> call.approved,
                      at |-> call.at, deploy |-> call.deploy, blocked |-> call.blocked]
           /\ call.input \in DialogInputs

LEMMA NextDialog == DialogInv /\ [Next]_vars => DialogInv'
  <1>. SUFFICES ASSUME DialogInv, [Next]_vars PROVE DialogInv'
    OBVIOUS
  <1>1. CASE Open
    BY <1>1 DEF Open, Reset, DialogInv
  <1>2. CASE Edit
    BY <1>2 DEF Edit, Reset, DialogInv
  <1>3. CASE Check
    BY <1>3 DEF Check, Calls, DialogInv
  <1>4. CASE Deploy
    BY <1>4 DEF Deploy, Calls, DialogInv
  <1>5. CASE ServePreflight
    <2>1. PICK blocked \in BOOLEAN : call' = [call EXCEPT !.at = "answered", !.blocked = blocked]
      BY <1>5 DEF ServePreflight
    <2>2. call # None /\ UNCHANGED <<input, pf>>
      BY <1>5 DEF ServePreflight
    <2>3. call' = [kind |-> call.kind, input |-> call.input, approved |-> call.approved,
                   at |-> "answered", deploy |-> call.deploy, blocked |-> blocked]
      BY <2>1, <2>2 DEF DialogInv
    <2>. QED BY <2>2, <2>3 DEF DialogInv
  <1>6. CASE ServeDeploy
    <2>1. PICK d \in Deploys : call' = [call EXCEPT !.at = "served", !.deploy = d]
      BY <1>6 DEF ServeDeploy
    <2>2. call # None /\ UNCHANGED <<input, pf>>
      BY <1>6 DEF ServeDeploy
    <2>3. call' = [kind |-> call.kind, input |-> call.input, approved |-> call.approved,
                   at |-> "served", deploy |-> d, blocked |-> call.blocked]
      BY <2>1, <2>2 DEF DialogInv
    <2>. QED BY <2>2, <2>3 DEF DialogInv
  <1>7. CASE PreflightAnswered
    BY <1>7 DEF PreflightAnswered, Shown, DialogInv
  <1>8. CASE DeployAnswered
    <2>1. pf' \in {pf, Shown(TRUE)} /\ call' = None /\ call # None /\ input' = input
      BY <1>8 DEF DeployAnswered
    <2>. QED BY <2>1 DEF Shown, DialogInv
  <1>9. CASE CallFails
    BY <1>9 DEF CallFails, DialogInv
  <1>10. CASE ApiRestarts
    <2>1. call' \in {None, call} /\ UNCHANGED <<input, pf>>
      BY <1>10 DEF ApiRestarts
    <2>. QED BY <2>1 DEF DialogInv
  <1>11. CASE GitStep \/ OtherDeploy \/ UNCHANGED vars
    BY <1>11 DEF GitStep, OtherDeploy, vars, dialogVars, DialogInv
  <1>. QED
    BY <1>1, <1>2, <1>3, <1>4, <1>5, <1>6, <1>7, <1>8, <1>9, <1>10, <1>11 DEF Next

LEMMA NextInv == DialogInv /\ Inv /\ [Next]_vars => Inv'
  <1>. SUFFICES ASSUME DialogInv, Inv, [Next]_vars PROVE Inv'
    OBVIOUS
  <1>1. CASE Open \/ Edit \/ Check \/ Deploy \/ ServePreflight \/ PreflightAnswered
             \/ DeployAnswered \/ UNCHANGED vars
    BY <1>1, GitStutter DEF Open, Edit, Check, Deploy, ServePreflight, PreflightAnswered,
       DeployAnswered, vars, gitVars, auditVars, Books
  <1>2. CASE ServeDeploy
    <2>1. PICK d \in Deploys, blocked \in BOOLEAN :
              Request(d, call.input, call.approved, blocked)
      BY <1>2 DEF ServeDeploy
    <2>2. call.input \in Inputs
      BY <1>2, DialogAssumption DEF ServeDeploy, DialogInv
    <2>. QED BY <2>1, <2>2, RequestInv
  <1>3. CASE CallFails
    <2>1. UNCHANGED <<repoVars, ledger, failed>>
      BY <1>3 DEF CallFails
    <2>2. CASE UNCHANGED <<job, refused, disturbed>>
      BY <2>1, <2>2, GitStutter DEF Books
    <2>3. ASSUME NEW d \in Deploys, Over(d) PROVE Inv'
      BY <2>1, <2>3, OverInv
    <2>. QED BY <1>3, <2>2, <2>3 DEF CallFails
  <1>4. CASE ApiRestarts
    BY <1>4, RestartInv DEF ApiRestarts
  <1>5. CASE GitStep
    <2>1. ASSUME NEW d \in Deploys, Apply(d) PROVE Inv'
      BY <2>1, ApplyInv
    <2>2. ASSUME NEW d \in Deploys, Cancel(d) PROVE Inv'
      BY <2>2, OverInv DEF Cancel
    <2>3. ASSUME NEW e \in refused, Lands(e) PROVE Inv'
      BY <2>3, GitStutter DEF Lands, Books
    <2>. QED BY <1>5, <2>1, <2>2, <2>3 DEF GitStep
  <1>6. CASE OtherDeploy
    BY <1>6, RequestInv, RemediateInv DEF OtherDeploy
  <1>. QED BY <1>1, <1>2, <1>3, <1>4, <1>5, <1>6 DEF Next

LEMMA InitInv == Init => DialogInv /\ Inv
  <1>. SUFFICES ASSUME Init PROVE DialogInv /\ Inv
    OBVIOUS
  <1>1. DialogInv
    BY DialogAssumption DEF Init, DialogInv
  <1>2. \A d \in Deploys : job[d] = NewJob
    BY DEF Init, GitInit
  <1>2a. NewJob.at = "new" /\ NewJob.commit = NoCommit /\ NewJob.result = "none"
    BY DEF NewJob
  <1>3. GitTypes
    <2>1. NewJob \in Jobs
      BY DEF NewJob, Jobs, Places, Results
    <2>2. job \in [Deploys -> Jobs]
      BY <2>1 DEF Init, GitInit
    <2>3. \A d \in Deploys : job[d].at = "new"
      BY <1>2, <1>2a
    <2>. QED BY <2>2, <2>3, MainAssumption DEF Init, GitInit, GitTypes, Branches, Trees
  <1>4. LedgerInv
    BY <1>2, <1>2a DEF Init, GitInit, LedgerInv, Progress, Books
  <1>5. TreeInv
    BY <1>2, <1>2a DEF Init, GitInit, TreeInv, Busy, InTree, Atrest, Kept
  <1>. QED BY <1>1, <1>3, <1>4, <1>5 DEF Inv

LEMMA Invariance == Spec => [](DialogInv /\ Inv)
  BY InitInv, NextInv, NextDialog, PTL DEF Spec

(***************************************************************************)
(* What is shown.                                                          *)
(***************************************************************************)
\* No step takes a commit back.
CommitsStay == \A e \in Deploys : job[e].commit # NoCommit => job'[e].commit # NoCommit

LEMMA FailsStay ==
    ASSUME GitTypes, NEW d \in Deploys, NEW at \in Places, Fails(d, at)
    PROVE  CommitsStay
  <1>1. job' = [job EXCEPT ![d] = job'[d]] /\ job'[d] = Ended(job[d], at, "failed")
    BY DEF Fails, Ended, GitTypes
  <1>. QED BY <1>1, OneEnds DEF CommitsStay, Results

LEMMA RequestStays ==
    ASSUME Inv, NEW d \in Deploys, NEW i \in Inputs, NEW approved, NEW blocked,
           Request(d, i, approved, blocked)
    PROVE  CommitsStay
  <1>1. job[d].at = "new" /\ \A e \in Deploys \ {d} : job'[e] = job[e]
    BY DEF Request, Inv, GitTypes
  <1>2. job[d].commit = NoCommit
    BY <1>1 DEF Inv, LedgerInv, Progress
  <1>. QED BY <1>1, <1>2 DEF CommitsStay

LEMMA RemediateStays ==
    ASSUME Inv, NEW d \in Deploys, NEW i \in Inputs, Remediate(d, i)
    PROVE  CommitsStay
  <1>1. job[d].at = "new" /\ \A e \in Deploys \ {d} : job'[e] = job[e]
    BY DEF Remediate, Inv, GitTypes
  <1>2. job[d].commit = NoCommit
    BY <1>1 DEF Inv, LedgerInv, Progress
  <1>. QED BY <1>1, <1>2 DEF CommitsStay

LEMMA GoesStay ==
    ASSUME GitTypes, NEW d \in Deploys, NEW at \in Places, Goes(d, at)
    PROVE  CommitsStay
  BY OneMoves DEF Goes, CommitsStay

LEMMA ApplyStays == ASSUME Inv, NEW d \in Deploys, Apply(d) PROVE CommitsStay
  <1>1. CASE Branch(d) \/ Write(d) \/ Add(d) \/ Restore(d) \/ Audit(d)
    BY <1>1, GoesStay DEF Branch, Write, Add, Restore, Audit, Inv, Places, InTree
  <1>2. CASE GitFails(d)
    BY <1>2, FailsStay, GoesStay DEF GitFails, Inv, Places, InTree
  <1>3. CASE Commit(d) /\ index = tips[head]
    BY <1>3, FailsStay DEF Commit, Inv, Places, InTree
  <1>4. CASE Commit(d) /\ index # tips[head]
    <2>1. job[d].at = "commit" /\ \A e \in Deploys \ {d} : job'[e] = job[e]
      BY <1>4 DEF Commit, Inv, GitTypes
    <2>2. job[d].commit = NoCommit
      BY <2>1 DEF Inv, LedgerInv, Progress
    <2>. QED BY <2>1, <2>2 DEF CommitsStay
  <1>5. CASE RevParse(d)
    <2>1. job' = [job EXCEPT ![d] = job'[d]] /\ job'[d] = Ended(job[d], "restore", "allowed")
      BY <1>5 DEF RevParse, Ended, Inv, GitTypes
    <2>. QED BY <2>1, OneEnds DEF CommitsStay, Inv, Places, InTree, Results
  <1>. QED BY <1>1, <1>2, <1>3, <1>4, <1>5 DEF Apply

LEMMA OverStays == ASSUME Inv, NEW d \in Deploys, Over(d) PROVE CommitsStay
  BY OneIsOver DEF Over, Inv, CommitsStay

LEMMA RestartStays == ASSUME Inv, Restart PROVE CommitsStay
  <1>. SUFFICES ASSUME NEW e \in Deploys PROVE job'[e].commit = job[e].commit
    BY DEF CommitsStay
  <1>1. job'[e] = job[e] \/ job'[e] = [job[e] EXCEPT !.at = "killed"]
    BY DEF Restart
  <1>2. job[e] \in Jobs /\ "killed" \in Places
    BY DEF Inv, GitTypes, Places
  <1>. QED BY <1>1, <1>2, JobMoves

\* The forms of what the dialog shows, and the deploy it shows as committed.
ShownInv ==
    /\ faults \in 0 .. MaxFaults
    /\ call # None => /\ call.blocked \in BOOLEAN
                      /\ call.at = "served" => call.deploy \in Deploys
    /\ pf # None => pf \in [blocked : BOOLEAN]
    /\ done # NoDeploy => done \in Deploys /\ job[done].commit # NoCommit

FaultCounted == faults' \in 0 .. MaxFaults

LEMMA CountFaults ==
    ASSUME faults \in 0 .. MaxFaults, faults' = faults \/ \E kind \in FaultKinds : Fault(kind)
    PROVE  FaultCounted
  <1>1. MaxFaults \in Nat
    BY FaultsAssumption
  <1>. QED BY <1>1 DEF FaultCounted, Fault

LEMMA RecordsCount ==
    ASSUME ShownInv, NEW d, NEW whats, Records(d, whats)
    PROVE  FaultCounted
  BY CountFaults DEF Records, ShownInv, FaultKinds

\* The deployer goes on while the dialog stands.
LEMMA ShownStays ==
    ASSUME ShownInv, CommitsStay, FaultCounted, call' \in {None, call}, UNCHANGED <<pf, done>>
    PROVE  ShownInv'
  BY DEF ShownInv, CommitsStay, FaultCounted

LEMMA NextShown == DialogInv /\ Inv /\ ShownInv /\ [Next]_vars => ShownInv'
  <1>. SUFFICES ASSUME DialogInv, Inv, ShownInv, [Next]_vars PROVE ShownInv'
    OBVIOUS
  <1>0. UNCHANGED job => CommitsStay
    BY DEF CommitsStay
  <1>0a. UNCHANGED faults => FaultCounted
    BY DEF FaultCounted, ShownInv
  <1>1. CASE Open \/ Edit
    <2>1. pf' = None /\ done' = NoDeploy /\ UNCHANGED <<job, faults>>
      BY <1>1 DEF Open, Edit, Reset, gitVars
    <2>. QED BY <1>1, <2>1 DEF Open, Edit, ShownInv
  <1>2. CASE Check \/ Deploy
    <2>1. UNCHANGED <<job, faults, pf, done>>
      BY <1>2 DEF Check, Deploy, gitVars
    <2>2. call'.blocked = FALSE /\ call'.at = "sent"
      BY <1>2 DEF Check, Deploy, Calls
    <2>. QED BY <2>1, <2>2 DEF ShownInv
  <1>3. CASE ServePreflight
    <2>1. PICK blocked \in BOOLEAN : call' = [call EXCEPT !.at = "answered", !.blocked = blocked]
      BY <1>3 DEF ServePreflight
    <2>2. call # None /\ UNCHANGED <<job, faults, pf, done>>
      BY <1>3 DEF ServePreflight, gitVars
    <2>3. call' = [kind |-> call.kind, input |-> call.input, approved |-> call.approved,
                   at |-> "answered", deploy |-> call.deploy, blocked |-> blocked]
      BY <2>1, <2>2 DEF DialogInv
    <2>4. call'.blocked = blocked /\ call'.at = "answered"
      BY <2>3
    <2>. QED BY <2>2, <2>4 DEF ShownInv
  <1>4. CASE ServeDeploy
    <2>1. PICK d \in Deploys, blocked \in BOOLEAN :
              /\ Request(d, call.input, call.approved, blocked)
              /\ call' = [call EXCEPT !.at = "served", !.deploy = d]
      BY <1>4 DEF ServeDeploy
    <2>2. call # None /\ call.input \in Inputs /\ UNCHANGED <<pf, done>>
      BY <1>4, DialogAssumption DEF ServeDeploy, DialogInv
    <2>3. CommitsStay
      BY <2>1, <2>2, RequestStays
    <2>3a. FaultCounted
      BY <2>1, RecordsCount DEF Request
    <2>4. call' = [kind |-> call.kind, input |-> call.input, approved |-> call.approved,
                   at |-> "served", deploy |-> d, blocked |-> call.blocked]
      BY <2>1, <2>2 DEF DialogInv
    <2>5. call'.blocked = call.blocked /\ call'.deploy = d
      BY <2>4
    <2>. QED BY <2>2, <2>3, <2>3a, <2>5 DEF ShownInv, CommitsStay, FaultCounted
  <1>5. CASE PreflightAnswered
    <2>1. /\ pf' = Shown(call.blocked) /\ call' = None /\ call # None
          /\ UNCHANGED <<job, faults, done>>
      BY <1>5 DEF PreflightAnswered, gitVars
    <2>2. Shown(call.blocked) \in [blocked : BOOLEAN]
      BY <2>1 DEF Shown, ShownInv, DialogInv
    <2>. QED BY <2>1, <2>2 DEF ShownInv
  <1>6. CASE DeployAnswered
    <2>1. /\ call # None /\ call.at = "served" /\ call' = None /\ UNCHANGED <<job, faults>>
          /\ \/ job[call.deploy].result = "allowed" /\ done' = call.deploy /\ pf' = pf
             \/ pf' \in {pf, Shown(TRUE)} /\ done' = done
      BY <1>6 DEF DeployAnswered, gitVars
    <2>2. Shown(TRUE) \in [blocked : BOOLEAN]
      BY <2>1 DEF Shown, ShownInv, DialogInv
    <2>3. call.deploy \in Deploys
      BY <2>1 DEF ShownInv
    <2>4. job[call.deploy].result = "allowed" => job[call.deploy].commit # NoCommit
      BY <2>3 DEF Inv, LedgerInv, Progress
    <2>. QED BY <2>1, <2>2, <2>3, <2>4 DEF ShownInv
  <1>7. CASE CallFails
    <2>1. FaultCounted
      BY <1>7, CountFaults DEF CallFails, ShownInv, FaultKinds
    <2>2. CommitsStay
      BY <1>0, <1>7, OverStays DEF CallFails
    <2>. QED BY <1>7, <2>1, <2>2, ShownStays DEF CallFails
  <1>8. CASE ApiRestarts
    <2>1. FaultCounted
      BY <1>8, CountFaults DEF ApiRestarts, Restart, ShownInv, FaultKinds
    <2>2. CommitsStay
      BY <1>8, RestartStays DEF ApiRestarts
    <2>. QED BY <1>8, <2>1, <2>2, ShownStays DEF ApiRestarts
  <1>9. CASE GitStep
    <2>1. CASE \E d \in Deploys : Apply(d) \/ Cancel(d)
      <3>1. PICK d \in Deploys : Apply(d) \/ Cancel(d)
        BY <2>1
      <3>2. CommitsStay
        BY <3>1, ApplyStays, OverStays DEF Cancel
      <3>3. faults' = faults \/ Fault("git") \/ Fault("cancel") \/ Audit(d)
        BY <3>1 DEF Apply, Branch, Write, Add, Commit, RevParse, Restore, GitFails, Cancel
      <3>4. CASE Audit(d)
        <4>1. FaultCounted
          BY <1>0a, <3>4, RecordsCount DEF Audit
        <4>. QED BY <1>9, <3>2, <4>1, ShownStays DEF GitStep, dialogVars
      <3>5. CASE ~Audit(d)
        <4>1. FaultCounted
          BY <3>3, <3>5, CountFaults DEF ShownInv, FaultKinds
        <4>. QED BY <1>9, <3>2, <4>1, ShownStays DEF GitStep, dialogVars
      <3>. QED BY <3>4, <3>5
    <2>2. CASE \E e \in refused : Lands(e)
      BY <1>0, <1>0a, <1>9, <2>2, ShownStays DEF Lands, GitStep, dialogVars
    <2>. QED BY <1>9, <2>1, <2>2 DEF GitStep
  <1>10. CASE OtherDeploy
    <2>1. CommitsStay
      BY <1>10, RequestStays, RemediateStays DEF OtherDeploy
    <2>2. FaultCounted
      BY <1>0a, <1>10, RecordsCount DEF OtherDeploy, Request, Remediate
    <2>. QED BY <1>10, <2>1, <2>2, ShownStays DEF OtherDeploy, dialogVars
  <1>11. CASE UNCHANGED vars
    BY <1>0, <1>0a, <1>11, ShownStays DEF vars, gitVars, dialogVars
  <1>. QED
    BY <1>1, <1>2, <1>3, <1>4, <1>5, <1>6, <1>7, <1>8, <1>9, <1>10, <1>11 DEF Next

LEMMA ShownAlways == Spec => []ShownInv
  <1>1. Init => ShownInv
    BY FaultsAssumption DEF Init, GitInit, ShownInv
  <1>. QED BY <1>1, NextShown, Invariance, PTL DEF Spec

(***************************************************************************)
(* The theorems.                                                           *)
(***************************************************************************)
\* The deployer and the dialog keep their forms, and what a dialog shows as
\* deployed has a commit and keeps it, whatever fails (deploy-dialog.tsx:75-84).
THEOREM TypeCorrect == Spec => []TypeOK
  <1>1. DialogInv /\ Inv /\ ShownInv => TypeOK
    <2>. SUFFICES ASSUME DialogInv, Inv, ShownInv PROVE TypeOK
      OBVIOUS
    <2>1. ASSUME NEW d \in Deploys
          PROVE  /\ job[d].at \in Places
                 /\ job[d].at # "new" => job[d].input \in Inputs
                 /\ job[d].commit # NoCommit => job[d].commit.tree \in [Apps -> Images]
      <3>1. job[d] \in Jobs
        BY DEF Inv, GitTypes
      <3>2. job[d].at \in Places /\ job[d].commit \in Commits \cup {NoCommit}
        BY <3>1 DEF Jobs
      <3>. QED BY <3>2 DEF Inv, GitTypes, Commits, Trees
    <2>2. GitTypeOK
      BY <2>1 DEF GitTypeOK, Inv, GitTypes, Places, Branches, Trees, ShownInv
    <2>. QED BY <2>2 DEF TypeOK, DialogInv, ShownInv
  <1>. QED BY <1>1, Invariance, ShownAlways, PTL

\* However many deploys and remediations there are, and whatever else fails: main
\* is checked out when none is in the tree, and clean unless a command failed,
\* provided that no two met there, none was cut short, and the checkout that
\* returns to main did not itself fail (deploy.go:257-311).
THEOREM TreeComesBack == Spec => []RepoRests
  <1>1. Inv => RepoRests
    BY DEF Inv, TreeInv, RepoRests, Atrest
  <1>. QED BY <1>1, Invariance, PTL

\* Under the same provisos, and while no command failed: a commit is main with
\* the one image that was asked for, on the branch of its deploy.
THEOREM CommitsAsAsked == Spec => []CommitIsRequest
  <1>1. Inv => CommitIsRequest
    BY DEF Inv, TreeInv, Kept, Wanted, CommitIsRequest
  <1>. QED BY <1>1, Invariance, PTL

\* However deploys meet and whatever fails, appends included: the ledger says
\* "allowed" only of a deploy that committed; and one that committed, ended and
\* was not cancelled is there unless its append was refused or a command failed
\* (handlers_phase3.go:75-82, :244-255).
THEOREM LedgerSpeaksTrue == Spec => []LedgerMatchesGit
  <1>1. Inv => LedgerMatchesGit
    <2>. SUFFICES ASSUME Inv, NEW d \in Deploys
                  PROVE  /\ Entry(d) \in ledger =>
                                /\ job[d].commit # NoCommit
                                /\ \/ disturbed \/ failed
                                   \/ tips[d][job[d].input.app] = job[d].input.image
                         /\ job[d].at = "done" /\ ~job[d].cancelled /\ job[d].commit # NoCommit =>
                                Entry(d) \in ledger \cup refused \/ failed
      BY DEF LedgerMatchesGit, Entry
    <2>1. Progress(d)
      BY DEF Inv, LedgerInv
    <2>2. ASSUME Entry(d) \in ledger, ~disturbed, ~failed
          PROVE  tips[d][job[d].input.app] = job[d].input.image
      <3>1. job[d].at # "new" /\ job[d].result = "allowed"
        BY <2>1, <2>2 DEF Progress, Books
      <3>2. tips[d] = Wanted(d)
        BY <2>2, <3>1 DEF Inv, TreeInv, Kept
      <3>3. job[d].input.app \in Apps
        BY <3>1, InputTypes DEF Inv, GitTypes
      <3>. QED BY <3>2, <3>3, MainAssumption DEF Wanted
    <2>. QED BY <2>1, <2>2 DEF Progress, Books
  <1>. QED BY <1>1, Invariance, PTL
=============================================================================
