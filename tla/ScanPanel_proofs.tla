-------------------------- MODULE ScanPanel_proofs --------------------------
(***************************************************************************)
(* Proofs about ScanPanel, for every set of scans, every combination of    *)
(* faults and any number of polls in flight.                               *)
(***************************************************************************)
EXTENDS ScanPanel, TLAPS

(***************************************************************************)
(* The inductive invariant.                                                *)
(***************************************************************************)
Lists == {"empty", "findings", "unwatched"}
Answers == [status : {"running", "ok", "failed", "gone"}, list : Lists, scans : SUBSET Scans]
Runs == [asked : Scans, id : Scans \cup {NoId}, status : {"running", "ok", "failed"},
         list : Lists, scans : SUBSET Scans]
Calls == [scan : Scans, at : {"sent", "accepted"}]
PollsInFlight == [id : Scans, at : {"sent", "missed", "answered"}, answer : Answers]

Types ==
    /\ ScannerTypeOK
    /\ run \in {None} \cup Runs
    /\ error \in {"", "start", "gone", "error"}
    /\ call \in {None} \cup Calls
    /\ polls \subseteq PollsInFlight

Known(s) == job[s].at # "new"
Named(s, id) == Known(s) /\ job[s].id = id

StoreRefused(s) == \E i \in lost : i.scan = s /\ i.at \in {"row", "findings"}

\* What a scan has left behind, by where its goroutine is.
JobOk(s) ==
    /\ job[s].at \in {"new", "queued", "trivy"} => job[s].result = NoResult
    /\ job[s].result.outcome = "ok" <=> job[s].result.why = ""
    /\ job[s].at = "findings" => RowOf(s) \in rows
    /\ job[s].at \in {"end", "done"} => StoreRefused(s) \/ Stored(s)
    /\ job[s].at = "killed" /\ RowOf(s) \in rows => Refused(s) \/ Stored(s)
    /\ job[s].at = "done" /\ ~Refused(s) =>
           job[s].result.why = "unparsed" \/ EntryOf(s) \in ledger
    /\ Refused(s) => job[s].at \in {"end", "done", "killed"}

JobInv == \A s \in Scans : JobOk(s)

\* What is in the store is of a scan that is past it, and says what that found.
StoreInv ==
    /\ \A r \in rows : /\ r = RowOf(r.scan)
                       /\ job[r.scan].at \in {"findings", "end", "done", "killed"}
    /\ \A f \in findings : /\ f = FindingsOf(f.scan)
                           /\ job[f.scan].at \in {"end", "done", "killed"}

\* What the ledger says, or may still say, is so.
Vouched(s) ==
    /\ job[s].at \in {"done", "killed"}
    /\ \/ job[s].result.why = "trivy"
       \/ job[s].result.why = "" /\ Stored(s)

RecordInv ==
    /\ \A e \in ledger : e = EntryOf(e.scan) /\ Vouched(e.scan)
    /\ \A i \in lost : i.at = "end" => Vouched(i.scan)

MemoryInv == \A s \in Scans : Active(s) => job[s].id \in running \/ Shared(s)

ScannerInv == JobInv /\ StoreInv /\ RecordInv /\ MemoryInv

\* What may be concluded of a scan from what was read under its id.
Settled(s) == job[s].at \in {"done", "killed"} \/ Shared(s)
Vanished(s) == job[s].at = "killed" \/ Refused(s) \/ Shared(s)
Cleared(s) ==
    \/ /\ job[s].at \in {"done", "killed"}
       /\ job[s].result.why = ""
       /\ \/ job[s].result.verdict = "clean"
          \/ job[s].result.verdict = "matched" /\ Refused(s)
    \/ Shared(s)

AnswerInv(a, id) ==
    /\ a.status = "gone" => a = GoneAnswer /\ \A s \in Scans : Named(s, id) => Vanished(s)
    /\ a.status \in {"ok", "failed"} => a.scans # {} /\ \A s \in a.scans : Named(s, id)
    /\ a.status = "ok" /\ a.list = "empty" => \A s \in Scans : Named(s, id) => Cleared(s)

PollInv(p) ==
    /\ p.id # NoId
    /\ \E s \in Scans : Named(s, p.id)
    /\ p.at = "missed" => \A s \in Scans : Named(s, p.id) => Settled(s)
    /\ p.at = "answered" => AnswerInv(p.answer, p.id)

PollsInv == \A p \in polls : PollInv(p)

RunInv == run # None =>
    /\ run.id = NoId => run.status = "running"
    /\ run.id # NoId => Named(run.asked, run.id)
    /\ run.status # "running" => run.scans # {} /\ \A s \in run.scans : Named(s, run.id)
    /\ run.status = "ok" /\ run.list = "empty" => Cleared(run.asked)

CallInv == call # None =>
    /\ call.at = "accepted" => Known(call.scan)
    /\ run # None => run.asked = call.scan /\ run.id = NoId

PanelInv == PollsInv /\ RunInv /\ CallInv

Inv == Types /\ ScannerInv /\ PanelInv

(***************************************************************************)
(* One scan's goroutine moves.                                             *)
(***************************************************************************)
Moves(s, place, result) ==
    /\ job' \in [Scans -> Jobs]
    /\ \A q \in Scans \ {s} : job'[q] = job[q]
    /\ job'[s].at = place /\ job'[s].result = result /\ job'[s].id = job[s].id

LEMMA JobFields ==
    ASSUME job \in [Scans -> Jobs], NEW s \in Scans
    PROVE  job[s] \in Jobs /\ job[s].at \in Places /\ job[s].id \in Scans /\ job[s].result \in Results
  BY DEF Jobs

LEMMA GoesMoves ==
    ASSUME job \in [Scans -> Jobs], NEW s \in Scans, NEW place \in Places, Goes(s, place)
    PROVE  Moves(s, place, job[s].result)
  BY DEF Goes, Moves, Jobs

LEMMA EndsMoves ==
    ASSUME job \in [Scans -> Jobs], NEW s \in Scans, NEW place \in Places,
           NEW result \in Results, Ends(s, place, result)
    PROVE  Moves(s, place, result)
  <1>1. /\ job'[s] = [job[s] EXCEPT !.at = place, !.result = result]
        /\ \A q \in Scans \ {s} : job'[q] = job[q]
        /\ job'[s] \in Jobs => job' \in [Scans -> Jobs]
    BY DEF Ends
  <1>2. job[s] \in Jobs
    OBVIOUS
  <1>3. job'[s] \in Jobs /\ job'[s].at = place /\ job'[s].result = result /\ job'[s].id = job[s].id
    BY <1>1, <1>2 DEF Jobs
  <1>. QED BY <1>1, <1>3 DEF Moves

\* What no step of the scanner takes back.
Onward ==
    /\ \A s \in Scans : Known(s) => job'[s].at # "new" /\ job'[s].id = job[s].id
    /\ \A s \in Scans : job[s].at \in {"done", "killed"} => job'[s] = job[s]
    /\ lost \subseteq lost'

LEMMA SharedStays == ASSUME Onward, NEW s \in Scans, Shared(s) PROVE Shared(s)'
  BY DEF Onward, Shared, Known

\* A goroutine that goes on, and whose id stays in memory.
LEMMA MemoryKept ==
    ASSUME MemoryInv, Onward, running' = running,
           \A s \in Scans : Active(s)' => Active(s) /\ job'[s].id = job[s].id
    PROVE  MemoryInv'
  BY SharedStays DEF MemoryInv

LEMMA MovesOnward ==
    ASSUME Types, NEW s \in Scans, NEW place, NEW result, Moves(s, place, result),
           Active(s), place # "new", lost \subseteq lost'
    PROVE  /\ Onward
           /\ \A q \in Scans \ {s} : Active(q)' => Active(q)
           /\ \A q \in Scans : job'[q].id = job[q].id
  BY DEF Moves, Onward, Active, Known

\* Scans other than the one that moves, while nothing is taken from the store.
LEMMA OthersOk ==
    ASSUME JobInv, NEW s \in Scans, NEW place, NEW result, Moves(s, place, result),
           rows \subseteq rows', findings \subseteq findings', ledger \subseteq ledger',
           \A r \in rows' \ rows : r.scan = s,
           lost \subseteq lost', \A i \in lost' : i \in lost \/ i.scan = s, JobOk(s)'
    PROVE  JobInv'
  <1>1. ASSUME NEW q \in Scans \ {s} PROVE JobOk(q)'
    <2>1. JobOk(q) /\ job'[q] = job[q]
      BY DEF JobInv, Moves
    <2>2. (Refused(q)' <=> Refused(q)) /\ (StoreRefused(q)' <=> StoreRefused(q))
      BY DEF Refused, StoreRefused
    <2>3. RowOf(q)' = RowOf(q) /\ FindingsOf(q)' = FindingsOf(q) /\ EntryOf(q)' = EntryOf(q)
      BY <2>1 DEF RowOf, FindingsOf, EntryOf
    <2>4. RowOf(q) \in rows' => RowOf(q) \in rows
      BY DEF RowOf
    <2>. QED BY <2>1, <2>2, <2>3, <2>4 DEF JobOk, Stored
  <1>. QED BY <1>1 DEF JobInv

\* The ledger, while nothing is taken from the store.
LEMMA VouchedStays ==
    ASSUME Onward, NEW s \in Scans, Vouched(s),
           rows \subseteq rows', findings \subseteq findings'
    PROVE  Vouched(s)' /\ EntryOf(s)' = EntryOf(s)
  <1>1. job'[s] = job[s]
    BY DEF Onward, Vouched
  <1>2. RowOf(s)' = RowOf(s) /\ FindingsOf(s)' = FindingsOf(s) /\ EntryOf(s)' = EntryOf(s)
    BY <1>1 DEF RowOf, FindingsOf, EntryOf
  <1>. QED BY <1>1, <1>2 DEF Vouched, Stored

LEMMA RecordKept ==
    ASSUME Types, RecordInv, Onward, rows \subseteq rows', findings \subseteq findings',
           \A e \in ledger' : e \in ledger \/ (e = EntryOf(e.scan)' /\ Vouched(e.scan)'),
           \A i \in lost' : i \in lost \/ (i.at = "end" => Vouched(i.scan)')
    PROVE  RecordInv'
  <1>1. ASSUME NEW e \in ledger' PROVE e = EntryOf(e.scan)' /\ Vouched(e.scan)'
    <2>1. CASE e \in ledger
      <3>1. e.scan \in Scans /\ e = EntryOf(e.scan) /\ Vouched(e.scan)
        BY <2>1 DEF RecordInv, Types, ScannerTypeOK, Entries
      <3>. QED BY <3>1, VouchedStays
    <2>. QED BY <2>1
  <1>2. ASSUME NEW i \in lost', i.at = "end" PROVE Vouched(i.scan)'
    <2>1. CASE i \in lost
      <3>1. i.scan \in Scans /\ Vouched(i.scan)
        BY <1>2, <2>1 DEF RecordInv, Types, ScannerTypeOK, Inserts
      <3>. QED BY <3>1, VouchedStays
    <2>. QED BY <1>2, <2>1
  <1>. QED BY <1>1, <1>2 DEF RecordInv

\* Rows and lists of a scan that goes on past the store, or is not there yet.
LEMMA StoreKept ==
    ASSUME Types, StoreInv, NEW s \in Scans, NEW place, NEW result, Moves(s, place, result),
           UNCHANGED <<rows, findings>>,
           \/ job[s].at \in {"new", "queued", "trivy", "row"}
           \/ place \in {"end", "done", "killed"} /\ result = job[s].result
    PROVE  StoreInv'
  <1>1. ASSUME NEW r \in rows
        PROVE  r = RowOf(r.scan)' /\ job'[r.scan].at \in {"findings", "end", "done", "killed"}
    <2>1. r.scan \in Scans /\ r = RowOf(r.scan)
          /\ job[r.scan].at \in {"findings", "end", "done", "killed"}
      BY DEF StoreInv, Types, ScannerTypeOK, Rows
    <2>2. job'[r.scan].id = job[r.scan].id /\ job'[r.scan].result = job[r.scan].result
          /\ job'[r.scan].at \in {"findings", "end", "done", "killed"}
      BY <2>1 DEF Moves
    <2>. QED BY <2>1, <2>2 DEF RowOf
  <1>2. ASSUME NEW f \in findings
        PROVE  f = FindingsOf(f.scan)' /\ job'[f.scan].at \in {"end", "done", "killed"}
    <2>1. f.scan \in Scans /\ f = FindingsOf(f.scan)
          /\ job[f.scan].at \in {"end", "done", "killed"}
      BY DEF StoreInv, Types, ScannerTypeOK
    <2>2. job'[f.scan].id = job[f.scan].id /\ job'[f.scan].at \in {"end", "done", "killed"}
      BY <2>1 DEF Moves
    <2>. QED BY <2>1, <2>2 DEF FindingsOf
  <1>. QED BY <1>1, <1>2 DEF StoreInv

LEMMA TakeTrivyInv ==
    ASSUME Types, ScannerInv, NEW s \in Scans, TakeTrivy(s)
    PROVE  ScannerTypeOK' /\ ScannerInv' /\ Onward
  <1>1. Moves(s, "trivy", job[s].result) /\ job[s].at = "queued"
    BY GoesMoves DEF TakeTrivy, Types, ScannerTypeOK, Places
  <1>2. trivy' = {s} /\ UNCHANGED <<running, rows, findings, ledger, lost>>
    BY DEF TakeTrivy
  <1>3. Onward /\ \A q \in Scans : Active(q)' => Active(q) /\ job'[q].id = job[q].id
    BY <1>1, <1>2, MovesOnward DEF Active
  <1>4. ScannerTypeOK'
    BY <1>1, <1>2 DEF Moves, Types, ScannerTypeOK
  <1>5. MemoryInv'
    BY <1>2, <1>3, MemoryKept DEF ScannerInv
  <1>6. JobOk(s)'
    BY <1>1, <1>2 DEF ScannerInv, JobInv, JobOk, Moves, Refused
  <1>7. JobInv' /\ StoreInv' /\ RecordInv'
    BY <1>1, <1>2, <1>3, <1>6, OthersOk, StoreKept, RecordKept DEF ScannerInv
  <1>. QED BY <1>3, <1>4, <1>5, <1>7 DEF ScannerInv

LEMMA TrivyEndsInv ==
    ASSUME Types, ScannerInv, NEW s \in Scans, NEW result \in Results,
           job[s].at = "trivy", Ends(s, "row", result), trivy' = {},
           (result.outcome = "ok") = (result.why = ""),
           UNCHANGED <<running, rows, findings, ledger, lost>>
    PROVE  ScannerTypeOK' /\ ScannerInv' /\ Onward
  <1>1. Moves(s, "row", result)
    BY EndsMoves DEF Types, ScannerTypeOK, Places
  <1>2. Onward /\ \A q \in Scans : Active(q)' => Active(q) /\ job'[q].id = job[q].id
    BY <1>1, MovesOnward DEF Active
  <1>3. ScannerTypeOK'
    BY <1>1 DEF Moves, Types, ScannerTypeOK
  <1>4. MemoryInv'
    BY <1>2, MemoryKept DEF ScannerInv
  <1>5. JobOk(s)'
    BY <1>1 DEF ScannerInv, JobInv, JobOk, Moves, Refused
  <1>6. JobInv' /\ StoreInv' /\ RecordInv'
    BY <1>1, <1>2, <1>5, OthersOk, StoreKept, RecordKept DEF ScannerInv
  <1>. QED BY <1>2, <1>3, <1>4, <1>6 DEF ScannerInv

LEMMA ResultTypes ==
    /\ NoResult \in Results /\ NoResult.outcome = "ok" /\ NoResult.why = ""
    /\ \A why \in {"trivy", "unparsed"} : /\ Failed(why) \in Results
                                         /\ Failed(why).outcome = "failed" /\ Failed(why).why = why
    /\ \A v \in Verdicts : /\ [NoResult EXCEPT !.verdict = v] \in Results
                           /\ [NoResult EXCEPT !.verdict = v].outcome = "ok"
                           /\ [NoResult EXCEPT !.verdict = v].why = ""
  BY DEF NoResult, Results, Failed, Whys, Verdicts

LEMMA TrivyInv ==
    ASSUME Types, ScannerInv, NEW s \in Scans, TrivyFails(s) \/ TrivyPasses(s)
    PROVE  ScannerTypeOK' /\ ScannerInv' /\ Onward
  <1>1. PICK result \in Results : /\ Ends(s, "row", result)
                                 /\ (result.outcome = "ok") = (result.why = "")
    BY ResultTypes DEF TrivyFails, TrivyPasses
  <1>2. /\ job[s].at = "trivy" /\ trivy' = {}
        /\ UNCHANGED <<running, rows, findings, ledger, lost>>
    BY DEF TrivyFails, TrivyPasses
  <1>. QED BY <1>1, <1>2, TrivyEndsInv

\* A step of persist: from the row to the list or the end, from the list to the end.
LEMMA PersistInv ==
    ASSUME Types, ScannerInv, NEW s \in Scans, NEW place \in {"findings", "end"},
           job[s].at \in {"row", "findings"}, Goes(s, place), UNCHANGED <<running, trivy, ledger>>,
           rows' \in {rows, rows \cup {RowOf(s)}},
           findings' \in {findings, findings \cup {FindingsOf(s)}},
           place = "findings" => UNCHANGED findings,
           job[s].at = "row" => UNCHANGED findings,
           \/ lost' = lost \cup {Insert(s)} /\ place = "end"
           \/ lost' = lost /\ place = "findings" /\ RowOf(s) \in rows'
           \/ /\ lost' = lost /\ place = "end" /\ RowOf(s) \in rows'
              /\ job[s].result.verdict = "matched" => FindingsOf(s) \in findings'
    PROVE  ScannerTypeOK' /\ ScannerInv' /\ Onward
  <1>1. Moves(s, place, job[s].result)
    BY GoesMoves DEF Types, ScannerTypeOK, Places
  <1>2. Onward /\ \A q \in Scans : Active(q)' => Active(q) /\ job'[q].id = job[q].id
    BY <1>1, MovesOnward DEF Active
  <1>3. job[s].id \in Scans /\ job[s].result \in Results /\ RowOf(s) \in Rows
        /\ FindingsOf(s) \in [id : Scans, scan : Scans]
    BY JobFields DEF Types, ScannerTypeOK, RowOf, Rows, FindingsOf, Results
  <1>10. /\ Insert(s) \in Inserts /\ Insert(s).scan = s
         /\ Insert(s).at \in {"row", "findings"}
    BY DEF Insert, Inserts
  <1>4. ScannerTypeOK'
    BY <1>1, <1>3, <1>10 DEF Moves, Types, ScannerTypeOK
  <1>5. MemoryInv'
    BY <1>2, MemoryKept DEF ScannerInv
  <1>6. RowOf(s)' = RowOf(s) /\ FindingsOf(s)' = FindingsOf(s)
    BY <1>1 DEF Moves, RowOf, FindingsOf
  <1>7. JobOk(s)'
    <2>1. JobOk(s) /\ ~Refused(s)
      BY DEF ScannerInv, JobInv, JobOk
    <2>2. job'[s].at = place /\ job'[s].result = job[s].result
      BY <1>1 DEF Moves
    <2>3. CASE lost' = lost \cup {Insert(s)} /\ place = "end"
      <3>1. StoreRefused(s)'
        BY <1>10, <2>3 DEF StoreRefused
      <3>. QED BY <2>1, <2>2, <2>3, <3>1 DEF JobOk
    <2>4. CASE /\ lost' = lost /\ RowOf(s) \in rows'
               /\ \/ place = "findings"
                  \/ place = "end" /\ (job[s].result.verdict = "matched" => FindingsOf(s) \in findings')
      <3>1. ~Refused(s)'
        BY <2>1, <2>4 DEF Refused
      <3>. QED BY <1>6, <1>10, <2>1, <2>2, <2>4, <3>1 DEF JobOk, Stored
    <2>. QED BY <2>3, <2>4
  <1>8. JobInv'
    <2>1. RowOf(s).scan = s
      BY DEF RowOf
    <2>. QED BY <1>1, <1>7, <1>10, <2>1, OthersOk DEF ScannerInv
  <1>11. RecordInv'
    BY <1>2, <1>10, RecordKept DEF ScannerInv
  <1>9. StoreInv'
    <2>1. ASSUME NEW r \in rows'
          PROVE  r = RowOf(r.scan)' /\ job'[r.scan].at \in {"findings", "end", "done", "killed"}
      <3>1. CASE r = RowOf(s)
        BY <1>1, <1>6, <3>1 DEF Moves, RowOf
      <3>2. CASE r \in rows /\ r.scan # s
        <4>1. r.scan \in Scans \ {s}
          BY <3>2 DEF Types, ScannerTypeOK, Rows
        <4>. QED BY <1>1, <3>2, <4>1 DEF Moves, RowOf, ScannerInv, StoreInv
      <3>3. CASE r \in rows /\ r.scan = s
        BY <1>1, <1>6, <3>3 DEF Moves, ScannerInv, StoreInv
      <3>. QED BY <3>1, <3>2, <3>3
    <2>2. ASSUME NEW f \in findings'
          PROVE  f = FindingsOf(f.scan)' /\ job'[f.scan].at \in {"end", "done", "killed"}
      <3>1. CASE f = FindingsOf(s) /\ f \notin findings
        BY <1>1, <1>6, <3>1 DEF Moves, FindingsOf
      <3>2. CASE f \in findings
        <4>1. f.scan \in Scans \ {s}
          BY <3>2 DEF Types, ScannerTypeOK, ScannerInv, StoreInv
        <4>. QED BY <1>1, <3>2, <4>1 DEF Moves, FindingsOf, ScannerInv, StoreInv
      <3>. QED BY <3>1, <3>2
    <2>. QED BY <2>1, <2>2 DEF StoreInv
  <1>. QED BY <1>2, <1>4, <1>5, <1>8, <1>9, <1>11 DEF ScannerInv

LEMMA StoreStepInv ==
    ASSUME Types, ScannerInv, NEW s \in Scans,
           InsertRow(s) \/ RowFails(s) \/ InsertFindings(s) \/ FindingsFail(s)
    PROVE  ScannerTypeOK' /\ ScannerInv' /\ Onward
  <1>1. CASE InsertRow(s)
    <2>1. AfterRow(s) \in {"findings", "end"}
          /\ (AfterRow(s) = "end" => job[s].result.verdict # "matched")
      BY DEF AfterRow
    <2>. QED BY <1>1, <2>1, PersistInv DEF InsertRow
  <1>2. CASE RowFails(s)
    BY <1>2, PersistInv DEF RowFails
  <1>3. CASE InsertFindings(s)
    <2>1. RowOf(s) \in rows
      BY <1>3 DEF InsertFindings, ScannerInv, JobInv, JobOk
    <2>. QED BY <1>3, <2>1, PersistInv DEF InsertFindings
  <1>4. CASE FindingsFail(s)
    BY <1>4, PersistInv DEF FindingsFail
  <1>. QED BY <1>1, <1>2, <1>3, <1>4

LEMMA EndInv ==
    ASSUME Types, ScannerInv, NEW s \in Scans, End(s)
    PROVE  ScannerTypeOK' /\ ScannerInv' /\ Onward
  <1>1. Moves(s, "done", job[s].result) /\ job[s].at = "end"
    BY GoesMoves DEF End, Types, ScannerTypeOK, Places
  <1>2. running' = running \ {job[s].id} /\ UNCHANGED <<trivy, rows, findings>>
    BY DEF End
  <1>a. /\ ledger \subseteq ledger' /\ ledger' \subseteq ledger \cup {EntryOf(s)}
        /\ lost \subseteq lost' /\ lost' \subseteq lost \cup {Insert(s)}
        /\ ledger' # ledger \/ lost' # lost => Audited(s)
        /\ Audited(s) => EntryOf(s) \in ledger' \/ Insert(s) \in lost'
    BY DEF End, Appends
  <1>b. /\ EntryOf(s) \in Entries /\ EntryOf(s).scan = s
        /\ Insert(s) \in Inserts /\ Insert(s).scan = s /\ Insert(s).at = "end"
    BY <1>1 DEF EntryOf, Entries, Insert, Inserts
  <1>3. /\ Onward /\ Moves(s, "done", job[s].result)
        /\ \A q \in Scans : Active(q)' => Active(q) /\ q # s /\ job'[q].id = job[q].id
    BY <1>1, <1>a, MovesOnward DEF Active, Moves
  <1>4. ScannerTypeOK'
    BY <1>1, <1>2, <1>a, <1>b DEF Moves, Types, ScannerTypeOK
  <1>5. MemoryInv'
    <2>1. ASSUME NEW q \in Scans, Active(q)' PROVE job'[q].id \in running' \/ Shared(q)'
      <3>1. Active(q) /\ q # s /\ job'[q].id = job[q].id
        BY <1>3, <2>1
      <3>2. CASE Shared(q)
        BY <1>3, <3>2, SharedStays
      <3>3. CASE job[q].id \in running /\ job[q].id # job[s].id
        BY <1>2, <3>1, <3>3
      <3>4. CASE job[q].id = job[s].id
        BY <1>1, <3>1, <3>4, <1>3, SharedStays DEF Shared, Active
      <3>. QED BY <3>1, <3>2, <3>3, <3>4 DEF ScannerInv, MemoryInv
    <2>. QED BY <2>1 DEF MemoryInv
  <1>6. JobOk(s) /\ job[s].result.why \in {"", "trivy", "unparsed"}
    BY JobFields DEF ScannerInv, JobInv, Results, Whys, Types, ScannerTypeOK
  <1>7. /\ job'[s].at = "done" /\ job'[s].result = job[s].result
        /\ RowOf(s)' = RowOf(s) /\ FindingsOf(s)' = FindingsOf(s) /\ EntryOf(s)' = EntryOf(s)
    BY <1>1 DEF Moves, RowOf, FindingsOf, EntryOf
  <1>8. JobOk(s)'
    <2>1. StoreRefused(s) => StoreRefused(s)'
      BY <1>a DEF StoreRefused
    <2>2. Stored(s) => Stored(s)'
      BY <1>2, <1>7 DEF Stored
    <2>3. ~Refused(s)' => job[s].result.why = "unparsed" \/ EntryOf(s) \in ledger'
      <3>1. ~Refused(s)' => ~Refused(s) /\ Insert(s) \notin lost'
        BY <1>a, <1>b DEF Refused
      <3>. QED BY <1>6, <1>a, <3>1 DEF Audited
    <2>. QED BY <1>1, <1>6, <1>7, <2>1, <2>2, <2>3 DEF JobOk
  <1>9. JobInv' /\ StoreInv'
    BY <1>1, <1>2, <1>8, <1>a, <1>b, OthersOk, StoreKept DEF ScannerInv
  <1>10. RecordInv'
    <2>1. Audited(s) => Vouched(s)'
      <3>1. Audited(s) => job[s].result.why = "trivy" \/ (job[s].result.why = "" /\ Stored(s))
        BY <1>1, <1>6 DEF Audited, JobOk, StoreRefused, Refused
      <3>. QED BY <1>2, <1>7, <3>1 DEF Vouched, Stored
    <2>2. \A e \in ledger' : e \in ledger \/ (e = EntryOf(e.scan)' /\ Vouched(e.scan)')
      BY <1>7, <1>a, <1>b, <2>1
    <2>3. \A i \in lost' : i \in lost \/ (i.at = "end" => Vouched(i.scan)')
      BY <1>a, <1>b, <2>1
    <2>. QED BY <1>2, <1>3, <2>2, <2>3, RecordKept DEF ScannerInv
  <1>. QED BY <1>3, <1>4, <1>5, <1>9, <1>10 DEF ScannerInv

\* An insert nobody waits for is executed.
LEMMA LateInsertInv ==
    ASSUME Types, ScannerInv, NEW i \in lost, LateInsert(i)
    PROVE  ScannerTypeOK' /\ ScannerInv' /\ Onward
  <1> DEFINE s == i.scan
  <1>1. UNCHANGED <<job, running, trivy, lost>>
    BY DEF LateInsert
  <1>2. /\ s \in Scans /\ Refused(s) /\ JobOk(s)
        /\ job[s].at \in {"end", "done", "killed"}
        /\ i.at = "end" => Vouched(s)
    <2>1. s \in Scans /\ Refused(s)
      BY DEF Types, ScannerTypeOK, Inserts, Refused
    <2>. QED BY <2>1 DEF ScannerInv, JobInv, JobOk, RecordInv
  <1>3. /\ rows \subseteq rows' /\ rows' \subseteq rows \cup {RowOf(s)}
        /\ findings \subseteq findings' /\ findings' \subseteq findings \cup {FindingsOf(s)}
        /\ ledger \subseteq ledger' /\ ledger' \subseteq ledger \cup {EntryOf(s)}
        /\ ledger' = ledger \/ i.at = "end"
    BY DEF LateInsert
  <1>4. /\ job[s].id \in Scans /\ job[s].result \in Results /\ RowOf(s) \in Rows
        /\ FindingsOf(s) \in [id : Scans, scan : Scans] /\ EntryOf(s) \in Entries
        /\ RowOf(s).scan = s /\ FindingsOf(s).scan = s /\ EntryOf(s).scan = s
    BY <1>2, JobFields
    DEF Types, ScannerTypeOK, RowOf, Rows, FindingsOf, Results, EntryOf, Entries
  <1>5. ScannerTypeOK'
    BY <1>1, <1>3, <1>4 DEF Types, ScannerTypeOK
  <1>6. Onward
    BY <1>1 DEF Onward, Known
  <1>7. MemoryInv'
    BY <1>1, <1>6, MemoryKept DEF ScannerInv, Active
  <1>8. ASSUME NEW q \in Scans
        PROVE  /\ RowOf(q)' = RowOf(q) /\ FindingsOf(q)' = FindingsOf(q) /\ EntryOf(q)' = EntryOf(q)
               /\ (Refused(q)' <=> Refused(q)) /\ (StoreRefused(q)' <=> StoreRefused(q))
               /\ RowOf(q).scan = q
    BY <1>1 DEF RowOf, FindingsOf, EntryOf, Refused, StoreRefused
  <1>9. JobInv'
    <2>1. ASSUME NEW q \in Scans PROVE JobOk(q)'
      <3>1. JobOk(q) /\ (Stored(q) => Stored(q)')
        BY <1>1, <1>3, <1>8 DEF ScannerInv, JobInv, Stored
      <3>2. RowOf(q) \in rows' => RowOf(q) \in rows \/ Refused(q)
        BY <1>2, <1>3, <1>4, <1>8
      <3>3. (RowOf(q) \in rows)' => RowOf(q) \in rows \/ Refused(q)
        BY <1>8, <3>2
      <3>4. EntryOf(q) \in ledger => (EntryOf(q) \in ledger)'
        BY <1>3, <1>8
      <3>5. RowOf(q) \in rows => (RowOf(q) \in rows)'
        BY <1>3, <1>8
      <3>. QED BY <1>1, <1>8, <3>1, <3>3, <3>4, <3>5 DEF JobOk
    <2>. QED BY <2>1 DEF JobInv
  <1>10. StoreInv'
    <2>1. \A r \in rows' : r = RowOf(r.scan)
                            /\ job[r.scan].at \in {"findings", "end", "done", "killed"}
      BY <1>2, <1>3, <1>4 DEF ScannerInv, StoreInv
    <2>2. \A f \in findings' : f = FindingsOf(f.scan)
                                /\ job[f.scan].at \in {"end", "done", "killed"}
      BY <1>2, <1>3, <1>4 DEF ScannerInv, StoreInv
    <2>. QED BY <1>1, <2>1, <2>2 DEF StoreInv, RowOf, FindingsOf
  <1>11. RecordInv'
    <2>1. i.at = "end" => Vouched(s)' /\ EntryOf(s)' = EntryOf(s)
      BY <1>2, <1>3, <1>6, VouchedStays
    <2>2. \A e \in ledger' : e \in ledger \/ (e = EntryOf(e.scan)' /\ Vouched(e.scan)')
      BY <1>3, <1>4, <2>1
    <2>. QED BY <1>1, <1>3, <1>6, <2>2, RecordKept DEF ScannerInv
  <1>. QED BY <1>5, <1>6, <1>7, <1>9, <1>10, <1>11 DEF ScannerInv

LEMMA WorkInv ==
    ASSUME Types, ScannerInv, NEW s \in Scans, Work(s)
    PROVE  ScannerTypeOK' /\ ScannerInv' /\ Onward
  BY TakeTrivyInv, TrivyInv, StoreStepInv, EndInv DEF Work

LEMMA RestartInv ==
    ASSUME Types, ScannerInv, Restart
    PROVE  ScannerTypeOK' /\ ScannerInv' /\ Onward
  <1>1. /\ UNCHANGED <<rows, findings, ledger>> /\ running' = {} /\ trivy' = {}
        /\ lost' = lost \cup {Insert(s) : s \in {x \in Scans : Inserting(x)}}
    BY DEF Restart
  <1>2. ASSUME NEW s \in Scans
        PROVE  /\ job'[s] \in Jobs
               /\ job'[s].id = job[s].id /\ job'[s].result = job[s].result
               /\ Active(s) => job'[s].at = "killed"
               /\ ~Active(s) => job'[s] = job[s]
    <2>1. job'[s] = IF Active(s) THEN [job[s] EXCEPT !.at = "killed"] ELSE job[s]
      BY DEF Restart
    <2>2. job[s] \in Jobs /\ "killed" \in Places
      BY DEF Types, ScannerTypeOK, Places
    <2>. QED BY <2>1, <2>2 DEF Jobs
  <1>3. job' \in [Scans -> Jobs]
    <2>1. job' = [s \in Scans |-> job'[s]]
      BY DEF Restart
    <2>. QED BY <1>2, <2>1
  <1>a. \A i \in lost' : i \in lost \/ (i.scan \in Scans /\ Inserting(i.scan) /\ i = Insert(i.scan))
    BY <1>1 DEF Insert
  <1>b. \A s \in Scans : Inserting(s) => Insert(s) \in lost' /\ Insert(s).scan = s
    BY <1>1 DEF Insert
  <1>c. \A s \in Scans : Insert(s).at = job[s].at /\ (Inserting(s) => Insert(s) \in Inserts)
    BY DEF Insert, Inserts, Inserting
  <1>4. ScannerTypeOK'
    <2>1. lost' \subseteq Inserts
      BY <1>a, <1>c DEF Types, ScannerTypeOK
    <2>. QED BY <1>1, <1>3, <2>1 DEF Types, ScannerTypeOK
  <1>5. Onward
    BY <1>1, <1>2 DEF Onward, Active, Known
  <1>6. MemoryInv'
    BY <1>2 DEF MemoryInv, Active
  <1>7. ASSUME NEW s \in Scans PROVE JobOk(s)'
    <2>1. /\ JobOk(s) /\ RowOf(s)' = RowOf(s) /\ FindingsOf(s)' = FindingsOf(s)
          /\ EntryOf(s)' = EntryOf(s)
      BY <1>2 DEF ScannerInv, JobInv, RowOf, FindingsOf, EntryOf
    <2>2. CASE Active(s)
      <3>1. RowOf(s) \in rows => job[s].at \in {"findings", "end"}
        <4>1. RowOf(s).scan = s
          BY DEF RowOf
        <4>. QED BY <2>2, <4>1 DEF ScannerInv, StoreInv, Active
      <3>2. job[s].at = "findings" => Refused(s)'
        BY <1>b DEF Inserting, Refused
      <3>3. StoreRefused(s) => Refused(s)'
        BY <1>1 DEF StoreRefused, Refused
      <3>4. Stored(s) => Stored(s)'
        BY <1>1, <1>2, <2>1 DEF Stored
      <3>5. (RowOf(s) \in rows)' => Refused(s)' \/ Stored(s)'
        BY <1>1, <2>1, <3>1, <3>2, <3>3, <3>4 DEF JobOk
      <3>6. job'[s].at = "killed" /\ job'[s].result = job[s].result
        BY <1>2, <2>2
      <3>. QED BY <2>1, <3>5, <3>6 DEF JobOk
    <2>3. CASE ~Active(s)
      <3>1. ~Inserting(s)
        BY <2>3 DEF Active, Inserting
      <3>2. (Refused(s)' <=> Refused(s)) /\ (StoreRefused(s)' <=> StoreRefused(s))
        BY <1>1, <1>a, <3>1 DEF Refused, StoreRefused
      <3>. QED BY <1>1, <1>2, <2>1, <2>3, <3>2 DEF JobOk, Stored
    <2>. QED BY <2>2, <2>3
  <1>8. StoreInv'
    <2>1. ASSUME NEW r \in rows
          PROVE  r = RowOf(r.scan)' /\ job'[r.scan].at \in {"findings", "end", "done", "killed"}
      <3>1. r.scan \in Scans /\ r = RowOf(r.scan)
            /\ job[r.scan].at \in {"findings", "end", "done", "killed"}
        BY DEF ScannerInv, StoreInv, Types, ScannerTypeOK, Rows
      <3>. QED BY <1>2, <3>1 DEF RowOf, Active
    <2>2. ASSUME NEW f \in findings
          PROVE  f = FindingsOf(f.scan)' /\ job'[f.scan].at \in {"end", "done", "killed"}
      <3>1. f.scan \in Scans /\ f = FindingsOf(f.scan)
            /\ job[f.scan].at \in {"end", "done", "killed"}
        BY DEF ScannerInv, StoreInv, Types, ScannerTypeOK
      <3>. QED BY <1>2, <3>1 DEF FindingsOf, Active
    <2>. QED BY <1>1, <2>1, <2>2 DEF StoreInv
  <1>9. RecordInv'
    <2>1. ASSUME NEW i \in lost', i \notin lost, i.at = "end" PROVE Vouched(i.scan)'
      <3>1. /\ i.scan \in Scans /\ Inserting(i.scan) /\ job[i.scan].at = "end"
        BY <1>a, <1>c, <2>1
      <3>2. \/ job[i.scan].result.why = "trivy"
            \/ job[i.scan].result.why = "" /\ Stored(i.scan)
        BY <3>1 DEF Inserting, Audited, ScannerInv, JobInv, JobOk, Refused, StoreRefused
      <3>3. job'[i.scan].at = "killed" /\ job'[i.scan].result = job[i.scan].result
            /\ job'[i.scan].id = job[i.scan].id
        BY <1>2, <3>1 DEF Active
      <3>. QED BY <1>1, <3>2, <3>3 DEF Vouched, Stored, RowOf, FindingsOf
    <2>. QED BY <1>1, <1>5, <2>1, RecordKept DEF ScannerInv
  <1>. QED BY <1>4, <1>5, <1>6, <1>7, <1>8, <1>9 DEF ScannerInv, JobInv

LEMMA StartInv ==
    ASSUME Types, ScannerInv, NEW s \in Scans, NEW id \in Scans, Start(s, id)
    PROVE  /\ ScannerTypeOK' /\ ScannerInv' /\ Onward
           /\ job'[s].at # "new"
  <1>1. /\ running' = running \cup {id} /\ UNCHANGED <<trivy, rows, findings, ledger, lost>>
        /\ job[s].at = "new"
        /\ job' = [job EXCEPT ![s].at = "queued", ![s].id = id]
    BY DEF Start
  <1>2. /\ job' \in [Scans -> Jobs]
        /\ \A q \in Scans \ {s} : job'[q] = job[q]
        /\ job'[s].at = "queued" /\ job'[s].id = id /\ job'[s].result = job[s].result
    <2>1. /\ job'[s] = [job[s] EXCEPT !.at = "queued", !.id = id]
          /\ \A q \in Scans \ {s} : job'[q] = job[q]
          /\ job'[s] \in Jobs => job' \in [Scans -> Jobs]
      BY <1>1 DEF Types, ScannerTypeOK
    <2>2. job[s] \in Jobs /\ "queued" \in Places
      BY DEF Types, ScannerTypeOK, Places
    <2>3. /\ job'[s] \in Jobs
          /\ job'[s].at = "queued" /\ job'[s].id = id /\ job'[s].result = job[s].result
      BY <2>1, <2>2 DEF Jobs
    <2>. QED BY <2>1, <2>3
  <1>3. ScannerTypeOK'
    BY <1>1, <1>2 DEF Types, ScannerTypeOK
  <1>4. Onward
    BY <1>1, <1>2 DEF Onward, Known
  <1>5. MemoryInv'
    BY <1>1, <1>2, <1>4, SharedStays DEF ScannerInv, MemoryInv, Active
  <1>6. ASSUME NEW q \in Scans PROVE JobOk(q)'
    <2>1. JobOk(q)
      BY DEF ScannerInv, JobInv
    <2>a. (Refused(q)' <=> Refused(q)) /\ (StoreRefused(q)' <=> StoreRefused(q))
      BY <1>1 DEF Refused, StoreRefused
    <2>2. CASE q = s
      BY <1>1, <1>2, <2>1, <2>2, <2>a DEF JobOk
    <2>3. CASE q # s
      <3>1. /\ job'[q] = job[q] /\ RowOf(q)' = RowOf(q) /\ FindingsOf(q)' = FindingsOf(q)
            /\ EntryOf(q)' = EntryOf(q)
        BY <1>2, <2>3 DEF RowOf, FindingsOf, EntryOf
      <3>. QED BY <1>1, <2>1, <2>a, <3>1 DEF JobOk, Stored
    <2>. QED BY <2>2, <2>3
  <1>7. StoreInv'
    <2>1. ASSUME NEW r \in rows
          PROVE  r = RowOf(r.scan)' /\ job'[r.scan].at \in {"findings", "end", "done", "killed"}
      <3>1. r.scan \in Scans \ {s} /\ r = RowOf(r.scan)
            /\ job[r.scan].at \in {"findings", "end", "done", "killed"}
        BY <1>1 DEF ScannerInv, StoreInv, Types, ScannerTypeOK, Rows
      <3>. QED BY <1>2, <3>1 DEF RowOf
    <2>2. ASSUME NEW f \in findings
          PROVE  f = FindingsOf(f.scan)' /\ job'[f.scan].at \in {"end", "done", "killed"}
      <3>1. f.scan \in Scans \ {s} /\ f = FindingsOf(f.scan)
            /\ job[f.scan].at \in {"end", "done", "killed"}
        BY <1>1 DEF ScannerInv, StoreInv, Types, ScannerTypeOK
      <3>. QED BY <1>2, <3>1 DEF FindingsOf
    <2>. QED BY <1>1, <2>1, <2>2 DEF StoreInv
  <1>8. RecordInv'
    BY <1>1, <1>4, RecordKept DEF ScannerInv
  <1>. QED BY <1>2, <1>3, <1>4, <1>5, <1>6, <1>7, <1>8 DEF ScannerInv, JobInv

(***************************************************************************)
(* What the panel has concluded stays true while the scanner goes on.      *)
(***************************************************************************)
LEMMA NamesStay ==
    ASSUME Onward, NEW s \in Scans, NEW id, Named(s, id)
    PROVE  Named(s, id)'
  BY DEF Onward, Named, Known

\* A scan that takes an id when another bears it shares it.
LEMMA NewNamesAreShared ==
    ASSUME Onward, NEW s \in Scans, NEW id, Named(s, id)', \E q \in Scans : Named(q, id)
    PROVE  Named(s, id) \/ Shared(s)'
  <1>1. PICK q \in Scans : Named(q, id)
    OBVIOUS
  <1>2. Named(q, id)'
    BY <1>1, NamesStay
  <1>3. CASE Known(s)
    BY <1>3 DEF Named, Onward, Known
  <1>4. CASE ~Known(s)
    BY <1>1, <1>2, <1>4 DEF Named, Known, Shared
  <1>. QED BY <1>3, <1>4

LEMMA ConclusionsStay ==
    ASSUME Onward, NEW s \in Scans
    PROVE  /\ Settled(s) => Settled(s)'
           /\ Vanished(s) => Vanished(s)'
           /\ Cleared(s) => Cleared(s)'
  <1>1. Shared(s) => Shared(s)'
    BY SharedStays
  <1>2. job[s].at \in {"done", "killed"} => job'[s] = job[s]
    BY DEF Onward
  <1>3. Refused(s) => Refused(s)'
    BY DEF Onward, Refused
  <1>. QED BY <1>1, <1>2, <1>3 DEF Settled, Vanished, Cleared

LEMMA SharedConcludes ==
    ASSUME NEW s, Shared(s)'
    PROVE  Settled(s)' /\ Vanished(s)' /\ Cleared(s)'
  BY DEF Settled, Vanished, Cleared

LEMMA PollStays ==
    ASSUME Onward, NEW p \in PollsInFlight, PollInv(p)
    PROVE  PollInv(p)'
  <1>1. \E s \in Scans : Named(s, p.id)
    BY DEF PollInv
  <1>2. (\E s \in Scans : Named(s, p.id))'
    BY <1>1, NamesStay
  <1>3. ASSUME NEW s \in Scans, Named(s, p.id)'
        PROVE  Named(s, p.id) \/ (Settled(s)' /\ Vanished(s)' /\ Cleared(s)')
    BY <1>1, <1>3, NewNamesAreShared, SharedConcludes
  <1>4. p.at = "missed" => \A s \in Scans : Named(s, p.id)' => Settled(s)'
    BY <1>3, ConclusionsStay DEF PollInv
  <1>5. ASSUME p.at = "answered" PROVE AnswerInv(p.answer, p.id)'
    <2>1. AnswerInv(p.answer, p.id) /\ p.answer.scans \subseteq Scans
      BY <1>5 DEF PollInv, PollsInFlight, Answers
    <2>2. p.answer.status = "gone" =>
              p.answer = GoneAnswer /\ \A s \in Scans : Named(s, p.id)' => Vanished(s)'
      BY <1>3, <2>1, ConclusionsStay DEF AnswerInv
    <2>3. p.answer.status \in {"ok", "failed"} =>
              p.answer.scans # {} /\ \A s \in p.answer.scans : Named(s, p.id)'
      BY <2>1, NamesStay DEF AnswerInv
    <2>4. p.answer.status = "ok" /\ p.answer.list = "empty" =>
              \A s \in Scans : Named(s, p.id)' => Cleared(s)'
      BY <1>3, <2>1, ConclusionsStay DEF AnswerInv
    <2>. QED BY <2>2, <2>3, <2>4 DEF AnswerInv
  <1>. QED BY <1>2, <1>4, <1>5 DEF PollInv

LEMMA RunStays ==
    ASSUME Types, RunInv, Onward, run' = run
    PROVE  RunInv'
  <1>. SUFFICES ASSUME run # None PROVE RunInv'
    BY DEF RunInv
  <1>1. run \in Runs
    BY DEF Types
  <1>2. run.asked \in Scans /\ run.scans \subseteq Scans
    BY <1>1 DEF Runs
  <1>3. run.id # NoId => Named(run.asked, run.id)'
    BY <1>2, NamesStay DEF RunInv
  <1>4. run.status # "running" =>
            run.scans # {} /\ \A s \in run.scans : Named(s, run.id)'
    BY <1>2, NamesStay DEF RunInv
  <1>5. run.status = "ok" /\ run.list = "empty" => Cleared(run.asked)'
    BY <1>2, ConclusionsStay DEF RunInv
  <1>. QED BY <1>3, <1>4, <1>5 DEF RunInv

LEMMA CallStays ==
    ASSUME Types, CallInv, Onward, call' = call, run' = run
    PROVE  CallInv'
  <1>. SUFFICES ASSUME call # None PROVE CallInv'
    BY DEF CallInv
  <1>1. call.scan \in Scans
    BY DEF Types, Calls
  <1>. QED BY <1>1 DEF CallInv, Onward, Known

LEMMA PanelStays ==
    ASSUME Types, PanelInv, Onward, UNCHANGED panelVars
    PROVE  PanelInv'
  <1>1. PollsInv'
    BY PollStays DEF PanelInv, PollsInv, panelVars, Types
  <1>. QED BY <1>1, RunStays, CallStays DEF PanelInv, panelVars

\* Steps of the panel alone.
LEMMA StoodStill == ASSUME UNCHANGED scannerVars PROVE Onward
  BY DEF Onward, scannerVars, Known

LEMMA ScannerStands ==
    ASSUME Types, ScannerInv, UNCHANGED scannerVars
    PROVE  ScannerTypeOK' /\ ScannerInv'
  BY DEF Types, ScannerTypeOK, ScannerInv, JobInv, JobOk, StoreInv, RecordInv, MemoryInv,
         scannerVars, Stored, Vouched, Refused, StoreRefused, RowOf, FindingsOf, EntryOf,
         Shared, Active

\* Polls that were in flight before.
LEMMA PollsStay ==
    ASSUME Types, PollsInv, UNCHANGED scannerVars
    PROVE  \A p \in polls : p \in PollsInFlight /\ PollInv(p)'
  BY PollStays, StoodStill DEF Types, PollsInv

(***************************************************************************)
(* The steps of the scanner and of others.                                 *)
(***************************************************************************)
LEMMA OthersStepInv ==
    ASSUME Inv, ScannerStep \/ \E s \in Scans : OtherStart(s)
    PROVE  Inv'
  <1>1. ScannerTypeOK' /\ ScannerInv' /\ Onward
    BY WorkInv, RestartInv, LateInsertInv, StartInv DEF ScannerStep, OtherStart, Inv
  <1>2. UNCHANGED panelVars
    BY DEF ScannerStep, OtherStart
  <1>3. PanelInv'
    BY <1>1, <1>2, PanelStays DEF Inv
  <1>4. Types'
    BY <1>1, <1>2 DEF Inv, Types, panelVars
  <1>. QED BY <1>1, <1>3, <1>4 DEF Inv

(***************************************************************************)
(* Starting a scan from the panel.                                         *)
(***************************************************************************)
LEMMA PressInv == ASSUME Inv, NEW s \in Scans, Press(s) PROVE Inv'
  <1>1. /\ UNCHANGED scannerVars /\ polls' = polls
        /\ run' = Asked(s) /\ error' = "" /\ call' = [scan |-> s, at |-> "sent"]
    BY DEF Press
  <1>2. Asked(s) \in Runs
    BY DEF Asked, Runs, Lists
  <1>3. ScannerTypeOK' /\ ScannerInv'
    BY <1>1, ScannerStands DEF Inv
  <1>4. PollsInv'
    BY <1>1, PollsStay DEF Inv, PanelInv, PollsInv
  <1>5. RunInv'
    BY <1>1 DEF Asked, RunInv
  <1>6. CallInv'
    BY <1>1 DEF Asked, CallInv
  <1>7. Types'
    BY <1>1, <1>2, <1>3 DEF Inv, Types, Calls
  <1>. QED BY <1>3, <1>4, <1>5, <1>6, <1>7 DEF Inv, PanelInv

LEMMA AcceptInv == ASSUME Inv, Accept PROVE Inv'
  <1>1. call # None /\ call \in Calls /\ call.scan \in Scans
    BY DEF Accept, Inv, Types, Calls
  <1>2. /\ call' = [call EXCEPT !.at = "accepted"]
        /\ UNCHANGED <<run, error, polls>>
    BY DEF Accept
  <1>3. /\ ScannerTypeOK' /\ ScannerInv' /\ Onward
        /\ job'[call.scan].at # "new"
    BY <1>1, StartInv DEF Accept, Inv
  <1>4. call' \in Calls /\ call'.scan = call.scan /\ call'.at = "accepted"
    BY <1>1, <1>2 DEF Calls
  <1>5. PollsInv'
    BY <1>2, <1>3, PollStays DEF Inv, PanelInv, PollsInv, Types
  <1>6. RunInv'
    BY <1>2, <1>3, RunStays DEF Inv, PanelInv
  <1>7. CallInv'
    BY <1>1, <1>2, <1>3, <1>4 DEF Inv, PanelInv, CallInv, Known
  <1>8. Types'
    BY <1>2, <1>3, <1>4 DEF Inv, Types
  <1>. QED BY <1>3, <1>5, <1>6, <1>7, <1>8 DEF Inv, PanelInv

LEMMA StartAnsweredInv == ASSUME Inv, StartAnswered PROVE Inv'
  <1>1. /\ call # None /\ call.at = "accepted" /\ call' = None
        /\ run' = IF run = None THEN None ELSE [run EXCEPT !.id = job[call.scan].id]
        /\ UNCHANGED scannerVars /\ error' = error /\ polls' = polls
    BY DEF StartAnswered
  <1>2. call.scan \in Scans /\ Known(call.scan) /\ job[call.scan].id \in Scans
    BY <1>1, JobFields DEF Inv, Types, ScannerTypeOK, Calls, PanelInv, CallInv
  <1>3. ScannerTypeOK' /\ ScannerInv'
    BY <1>1, ScannerStands DEF Inv
  <1>4. PollsInv'
    BY <1>1, PollsStay DEF Inv, PanelInv, PollsInv
  <1>5. CASE run = None
    <2>1. RunInv' /\ CallInv' /\ Types'
      BY <1>1, <1>3, <1>5 DEF RunInv, CallInv, Inv, Types
    <2>. QED BY <1>3, <1>4, <2>1 DEF Inv, PanelInv
  <1>6. CASE run # None
    <2>1. run \in Runs /\ run.asked = call.scan /\ run.status = "running"
      BY <1>1, <1>6 DEF Inv, Types, PanelInv, CallInv, RunInv
    <2>2. /\ run' \in Runs /\ run'.asked = call.scan /\ run'.id = job[call.scan].id
          /\ run'.status = "running"
      BY <1>1, <1>2, <1>6, <2>1 DEF Runs
    <2>3. job'[run'.asked].at # "new" /\ job'[run'.asked].id = run'.id
      BY <1>1, <1>2, <2>2 DEF Known, scannerVars
    <2>4. RunInv' /\ CallInv' /\ Types'
      BY <1>1, <1>3, <2>2, <2>3 DEF RunInv, CallInv, Inv, Types, Named, Known
    <2>. QED BY <1>3, <1>4, <2>4 DEF Inv, PanelInv
  <1>. QED BY <1>5, <1>6

\* The panel gives up, or is left, or learns nothing.
LEMMA PanelDrops ==
    ASSUME Inv, UNCHANGED scannerVars, run' = None \/ run' = run,
           call' = None \/ call' = call, error' \in {"", "start", "gone", "error"},
           polls' \subseteq polls
    PROVE  Inv'
  <1>1. ScannerTypeOK' /\ ScannerInv'
    BY ScannerStands DEF Inv
  <1>2. PollsInv'
    BY PollsStay DEF Inv, PanelInv, PollsInv
  <1>3. RunInv'
    <2>1. CASE run' = None
      BY <2>1 DEF RunInv
    <2>2. CASE run' = run
      BY <2>2, RunStays, StoodStill DEF Inv, PanelInv
    <2>. QED BY <2>1, <2>2
  <1>4. CallInv'
    BY DEF Inv, PanelInv, CallInv, Known, scannerVars
  <1>5. Types'
    BY <1>1 DEF Inv, Types
  <1>. QED BY <1>1, <1>2, <1>3, <1>4, <1>5 DEF Inv, PanelInv

(***************************************************************************)
(* Polling.                                                                *)
(***************************************************************************)
\* A poll is added or takes another form; the rest of the panel stands.
LEMMA PollBecomes ==
    ASSUME Inv, UNCHANGED scannerVars, UNCHANGED <<run, error, call>>,
           NEW q \in PollsInFlight, PollInv(q)', polls' \subseteq polls \cup {q}
    PROVE  Inv'
  <1>1. ScannerTypeOK' /\ ScannerInv'
    BY ScannerStands DEF Inv
  <1>2. PollsInv'
    BY PollsStay DEF Inv, PanelInv, PollsInv
  <1>3. RunInv' /\ CallInv'
    BY RunStays, CallStays, StoodStill DEF Inv, PanelInv
  <1>4. Types'
    BY <1>1 DEF Inv, Types
  <1>. QED BY <1>1, <1>2, <1>3, <1>4 DEF Inv, PanelInv

LEMMA AnswerForms ==
    /\ RunningAnswer \in Answers /\ RunningAnswer.status = "running"
    /\ RunningAnswer.list = "empty" /\ RunningAnswer.scans = {}
    /\ GoneAnswer \in Answers /\ GoneAnswer.status = "gone"
  BY DEF RunningAnswer, GoneAnswer, Answers, Lists

LEMMA PollingIsKnown ==
    ASSUME Inv, PollingId # NoId
    PROVE  /\ Running /\ run # None /\ run \in Runs /\ run.asked \in Scans
           /\ PollingId = run.id /\ PollingId \in Scans
           /\ Named(run.asked, PollingId)
  <1>1. Running /\ run # None /\ PollingId = run.id
    BY DEF PollingId, Running
  <1>2. run \in Runs
    BY <1>1 DEF Inv, Types
  <1>. QED BY <1>1, <1>2 DEF Inv, PanelInv, RunInv, Runs

LEMMA PollIssuedInv == ASSUME Inv, Poll PROVE Inv'
  <1> DEFINE q == [id |-> PollingId, at |-> "sent", answer |-> RunningAnswer]
  <1>1. /\ PollingId # NoId /\ polls' = polls \cup {q}
        /\ UNCHANGED scannerVars /\ UNCHANGED <<run, error, call>>
    BY DEF Poll, scannerVars
  <1>2. PollingId \in Scans /\ run.asked \in Scans /\ Named(run.asked, PollingId)
    BY <1>1, PollingIsKnown
  <1>3. PICK id \in Scans : id = PollingId
    BY <1>2
  <1>4. PICK p \in PollsInFlight : p = [id |-> id, at |-> "sent", answer |-> RunningAnswer]
    BY AnswerForms DEF PollsInFlight
  <1>5. p.id = id /\ p.at = "sent"
    BY <1>4
  <1>6. PollInv(p)'
    BY <1>1, <1>2, <1>3, <1>5 DEF PollInv, Named, Known, scannerVars
  <1>7. polls' \subseteq polls \cup {p}
    BY <1>1, <1>3, <1>4
  <1>. QED BY <1>1, <1>6, <1>7, PollBecomes

\* The fields of a poll that was missed in memory.
LEMMA MissedForm ==
    ASSUME NEW p \in PollsInFlight
    PROVE  /\ [p EXCEPT !.at = "missed"] \in PollsInFlight
           /\ [p EXCEPT !.at = "missed"].id = p.id
           /\ [p EXCEPT !.at = "missed"].at = "missed"
  BY DEF PollsInFlight

LEMMA AnsweredInv ==
    ASSUME Inv, NEW p \in polls, NEW a \in Answers, AnswerInv(a, p.id), Answered(p, a)
    PROVE  Inv'
  <1>1. p \in PollsInFlight /\ PollInv(p)
    BY DEF Inv, Types, PanelInv, PollsInv
  <1>0. PICK q : q = [p EXCEPT !.at = "answered", !.answer = a]
    OBVIOUS
  <1>2. q \in PollsInFlight /\ q.id = p.id /\ q.at = "answered" /\ q.answer = a
    BY <1>1, <1>0 DEF PollsInFlight
  <1>3. /\ polls' = (polls \ {p}) \cup {q}
        /\ UNCHANGED scannerVars /\ UNCHANGED <<run, error, call>>
    BY <1>0 DEF Answered, Becomes, scannerVars
  <1>4. PollInv(q)
    BY <1>1, <1>2 DEF PollInv
  <1>5. PollInv(q)'
    BY <1>2, <1>3, <1>4, PollStays, StoodStill
  <1>. QED BY <1>2, <1>3, <1>5, PollBecomes

\* An id that is not in memory is of scans whose goroutines have ended.
LEMMA NotInMemory ==
    ASSUME ScannerInv, NEW id, ~InMemory(id), NEW s \in Scans, Named(s, id)
    PROVE  Settled(s)
  BY DEF ScannerInv, MemoryInv, InMemory, Named, Known, Active, Settled

LEMMA PollMemoryInv == ASSUME Inv, NEW p \in polls, PollMemory(p) PROVE Inv'
  <1>1. p \in PollsInFlight /\ PollInv(p)
    BY DEF Inv, Types, PanelInv, PollsInv
  <1>2. CASE InMemory(p.id)
    <2>1. AnswerInv(RunningAnswer, p.id)
      BY AnswerForms DEF AnswerInv
    <2>. QED BY <1>2, <2>1, AnswerForms, AnsweredInv DEF PollMemory
  <1>3. CASE ~InMemory(p.id)
    <2>1. PICK q \in PollsInFlight : /\ q = [p EXCEPT !.at = "missed"]
                                     /\ q.id = p.id /\ q.at = "missed"
      BY <1>1, MissedForm
    <2>2. /\ polls' = (polls \ {p}) \cup {q}
          /\ UNCHANGED scannerVars /\ UNCHANGED <<run, error, call>>
      BY <1>3, <2>1 DEF PollMemory, Becomes, scannerVars
    <2>3. \A s \in Scans : Named(s, p.id) => Settled(s)
      BY <1>3, NotInMemory DEF Inv
    <2>4. PollInv(q)
      BY <1>1, <2>1, <2>3 DEF PollInv
    <2>5. PollInv(q)'
      BY <2>2, <2>4, PollStays, StoodStill
    <2>. QED BY <2>2, <2>5, PollBecomes
  <1>. QED BY <1>2, <1>3

(***************************************************************************)
(* What the store answers of an id that is not in memory any more is true  *)
(* of every scan that bears it.                                            *)
(***************************************************************************)
LEMMA GoneIsTrue ==
    ASSUME ScannerInv, NEW id, \A r \in rows : r.id # id,
           NEW s \in Scans, Named(s, id), Settled(s)
    PROVE  Vanished(s)
  BY DEF ScannerInv, JobInv, JobOk, Stored, Refused, StoreRefused, RowOf, Named, Settled, Vanished

LEMMA WrittenIsNamed ==
    ASSUME Types, StoreInv
    PROVE  /\ \A r \in rows : r.scan \in Scans /\ Named(r.scan, r.id) /\ r = RowOf(r.scan)
           /\ \A f \in findings : f.scan \in Scans /\ Named(f.scan, f.id)
  <1>1. ASSUME NEW r \in rows
        PROVE  r.scan \in Scans /\ Named(r.scan, r.id) /\ r = RowOf(r.scan)
    <2>1. r.scan \in Scans /\ r = RowOf(r.scan) /\ job[r.scan].at # "new"
      BY DEF Types, ScannerTypeOK, Rows, StoreInv
    <2>2. RowOf(r.scan).id = job[r.scan].id
      BY DEF RowOf
    <2>. QED BY <2>1, <2>2 DEF Named, Known
  <1>2. ASSUME NEW f \in findings PROVE f.scan \in Scans /\ Named(f.scan, f.id)
    <2>1. f.scan \in Scans /\ f = FindingsOf(f.scan) /\ job[f.scan].at # "new"
      BY DEF Types, ScannerTypeOK, StoreInv
    <2>2. FindingsOf(f.scan).id = job[f.scan].id
      BY DEF FindingsOf
    <2>. QED BY <2>1, <2>2 DEF Named, Known
  <1>. QED BY <1>1, <1>2

\* A row without findings, on a system that is watched, is of a clean target.
LEMMA EmptyIsClean ==
    ASSUME Types, ScannerInv, NEW s \in Scans, Settled(s), RowOf(s) \in rows,
           FindingsFor(job[s].id) = {}, job[s].result.outcome = "ok",
           job[s].result.verdict # "unwatched"
    PROVE  Cleared(s)
  <1>1. JobOk(s) /\ job[s].result.verdict \in Verdicts
    BY JobFields DEF ScannerInv, JobInv, Types, ScannerTypeOK, Results
  <1>2. FindingsOf(s) \notin findings
    BY DEF FindingsFor, FindingsOf
  <1>3. job[s].result.why = "" /\ job[s].result.verdict \in {"clean", "matched"}
    BY <1>1 DEF JobOk, Verdicts
  <1>4. CASE job[s].result.verdict = "matched" /\ ~Shared(s)
    <2>1. job[s].at \in {"done", "killed"} /\ ~Stored(s)
      BY <1>2, <1>4 DEF Settled, Stored
    <2>2. Refused(s)
      BY <1>1, <2>1 DEF JobOk, Refused, StoreRefused
    <2>. QED BY <1>3, <1>4, <2>1, <2>2 DEF Cleared
  <1>5. CASE job[s].result.verdict = "clean" \/ Shared(s)
    BY <1>3, <1>5 DEF Cleared, Settled
  <1>. QED BY <1>3, <1>4, <1>5

LEMMA StoredIsTrue ==
    ASSUME Types, ScannerInv, NEW id \in Scans, NEW a \in StoredAnswers(id),
           \A s \in Scans : Named(s, id) => Settled(s)
    PROVE  a \in Answers /\ AnswerInv(a, id)
  <1>1. CASE \A r \in rows : r.id # id
    <2>1. a = GoneAnswer
      BY <1>1 DEF StoredAnswers
    <2>2. \A s \in Scans : Named(s, id) => Vanished(s)
      BY <1>1, GoneIsTrue
    <2>. QED BY <2>1, <2>2, AnswerForms DEF AnswerInv
  <1>2. CASE ~ \A r \in rows : r.id # id
    <2>1. PICK r \in rows :
              /\ r.id = id
              /\ a = [status |-> r.outcome, list |-> ListFor(r),
                      scans |-> {r.scan} \cup {f.scan : f \in FindingsFor(id)}]
      BY <1>2 DEF StoredAnswers
    <2>2. /\ r.scan \in Scans /\ Named(r.scan, id) /\ r = RowOf(r.scan)
          /\ r.outcome \in {"ok", "failed"}
      BY <2>1, WrittenIsNamed DEF ScannerInv, Types, ScannerTypeOK, Rows
    <2>3. \A f \in FindingsFor(id) : f.scan \in Scans /\ Named(f.scan, id)
      BY WrittenIsNamed DEF ScannerInv, FindingsFor
    <2>4. ListFor(r) \in Lists
      BY DEF ListFor, Lists
    <2>5. /\ a.status = r.outcome /\ a.list = ListFor(r)
          /\ a.scans = {r.scan} \cup {f.scan : f \in FindingsFor(id)}
      BY <2>1
    <2>6. a.scans \subseteq Scans /\ a.scans # {} /\ \A s \in a.scans : Named(s, id)
      BY <2>2, <2>3, <2>5
    <2>7. a \in Answers
      BY <2>1, <2>2, <2>4, <2>5, <2>6 DEF Answers
    <2>8. ASSUME a.status = "ok", a.list = "empty", NEW s \in Scans, Named(s, id)
          PROVE  Cleared(s)
      <3>1. FindingsFor(id) = {} /\ r.verdict # "unwatched"
        BY <2>1, <2>5, <2>8 DEF ListFor
      <3>2. CASE s = r.scan
        <4>1. /\ job[s].id = id /\ RowOf(s) \in rows
              /\ job[s].result.outcome = "ok" /\ job[s].result.verdict # "unwatched"
          <5>1. RowOf(s).outcome = job[s].result.outcome /\ RowOf(s).verdict = job[s].result.verdict
            BY DEF RowOf
          <5>. QED BY <2>1, <2>2, <2>5, <2>8, <3>1, <3>2, <5>1 DEF Named
        <4>. QED BY <2>8, <3>1, <4>1, EmptyIsClean
      <3>3. CASE s # r.scan
        BY <2>2, <2>8, <3>3 DEF Named, Known, Shared, Cleared
      <3>. QED BY <3>2, <3>3
    <2>. QED BY <2>2, <2>5, <2>6, <2>7, <2>8 DEF AnswerInv
  <1>. QED BY <1>1, <1>2

LEMMA PollStoreInv == ASSUME Inv, NEW p \in polls, PollStore(p) PROVE Inv'
  <1>1. p \in PollsInFlight /\ PollInv(p) /\ p.id \in Scans /\ p.at = "missed"
    BY DEF Inv, Types, PanelInv, PollsInv, PollStore, PollsInFlight
  <1>2. PICK a \in StoredAnswers(p.id) : Answered(p, a)
    BY DEF PollStore
  <1>3. a \in Answers /\ AnswerInv(a, p.id)
    BY <1>1, StoredIsTrue DEF Inv, PollInv
  <1>. QED BY <1>2, <1>3, AnsweredInv

(***************************************************************************)
(* An answer reaches the panel.                                            *)
(***************************************************************************)
LEMMA LiveIsKnown ==
    ASSUME Inv, NEW p \in polls, Live(p)
    PROVE  /\ run # None /\ run \in Runs /\ run.asked \in Scans /\ run.id = p.id
           /\ run.id # NoId /\ Named(run.asked, p.id) /\ call = None
  <1>1. PollingId = p.id /\ p.id # NoId
    BY DEF Live, Inv, PanelInv, PollsInv, PollInv
  <1>. QED BY <1>1, PollingIsKnown DEF Inv, PanelInv, CallInv

LEMMA ProgressInv ==
    ASSUME Inv, NEW p \in polls, p.at = "answered", Live(p), p.answer # GoneAnswer,
           Progress(p.answer), polls' = polls \ {p}, UNCHANGED scannerVars, call' = call
    PROVE  Inv'
  <1>1. /\ run # None /\ run \in Runs /\ run.asked \in Scans /\ run.id = p.id
        /\ run.id # NoId /\ Named(run.asked, p.id) /\ call = None
    BY LiveIsKnown
  <1>2. /\ p.answer \in Answers /\ AnswerInv(p.answer, p.id)
        /\ p.answer.status \in {"running", "ok", "failed"}
    BY DEF Inv, Types, PanelInv, PollsInv, PollInv, PollsInFlight, AnswerInv, Answers
  <1> DEFINE a == p.answer
  <1>3. /\ run' = [run EXCEPT !.status = a.status, !.list = a.list, !.scans = a.scans]
        /\ error' = error
    BY DEF Progress
  <1>4. /\ run' \in Runs /\ run'.asked = run.asked /\ run'.id = run.id
        /\ run'.status = a.status /\ run'.list = a.list /\ run'.scans = a.scans
    <2>1. a.list \in Lists /\ a.scans \in SUBSET Scans
      BY <1>2 DEF Answers
    <2>. QED BY <1>1, <1>2, <1>3, <2>1 DEF Runs
  <1>5. ScannerTypeOK' /\ ScannerInv'
    BY ScannerStands DEF Inv
  <1>6. PollsInv'
    BY PollsStay DEF Inv, PanelInv, PollsInv
  <1>7. job' = job /\ lost' = lost
    BY DEF scannerVars
  <1>8. RunInv'
    <2>1. job'[run'.asked].at # "new" /\ job'[run'.asked].id = run'.id
      BY <1>1, <1>4, <1>7 DEF Named, Known
    <2>2. run'.status # "running" =>
              /\ run'.scans # {}
              /\ \A s \in run'.scans : job'[s].at # "new" /\ job'[s].id = run'.id
      BY <1>1, <1>2, <1>4, <1>7 DEF AnswerInv, Named, Known
    <2>3. run'.status = "ok" /\ run'.list = "empty" => Cleared(run.asked)
      BY <1>1, <1>2, <1>4 DEF AnswerInv
    <2>4. Cleared(run.asked) => Cleared(run.asked)'
      BY <1>1, <1>4, <1>7 DEF Cleared, Refused, Shared
    <2>. QED BY <1>1, <1>4, <2>1, <2>2, <2>3, <2>4 DEF RunInv, Named, Known
  <1>9. CallInv'
    BY <1>1 DEF CallInv
  <1>10. Types'
    BY <1>3, <1>4, <1>5 DEF Inv, Types
  <1>. QED BY <1>5, <1>6, <1>8, <1>9, <1>10 DEF Inv, PanelInv

LEMMA PollAnsweredInv == ASSUME Inv, NEW p \in polls, PollAnswered(p) PROVE Inv'
  <1>1. /\ p.at = "answered" /\ polls' = polls \ {p}
        /\ UNCHANGED scannerVars /\ call' = call
    BY DEF PollAnswered, scannerVars
  <1>2. CASE Live(p) /\ p.answer # GoneAnswer
    BY <1>1, <1>2, ProgressInv DEF PollAnswered
  <1>3. CASE ~Live(p) \/ p.answer = GoneAnswer
    <2>1. (run' = run /\ error' = error) \/ (run' = None /\ error' = "gone")
      BY <1>3 DEF PollAnswered, Dropped
    <2>. QED BY <1>1, <2>1, PanelDrops DEF Inv, Types
  <1>. QED BY <1>2, <1>3

LEMMA PollFailsInv == ASSUME Inv, NEW p \in polls, PollFails(p) PROVE Inv'
  <1>1. polls' = polls \ {p} /\ UNCHANGED scannerVars /\ call' = call
    BY DEF PollFails, scannerVars
  <1>2. (run' = run /\ error' = error) \/ (run' = None /\ error' = "error")
    BY DEF PollFails, Dropped
  <1>. QED BY <1>1, <1>2, PanelDrops DEF Inv, Types

LEMMA PollThrowsInv == ASSUME Inv, NEW p \in polls, PollThrows(p) PROVE Inv'
  BY PanelDrops DEF PollThrows, Inv, Types, scannerVars

LEMMA InitInv == Init => Inv
  <1>. SUFFICES ASSUME Init PROVE Inv
    OBVIOUS
  <1>1. /\ job = [s \in Scans |-> NewJob(s)]
        /\ running = {} /\ trivy = {} /\ rows = {} /\ findings = {} /\ ledger = {} /\ lost = {}
        /\ run = None /\ error = "" /\ call = None /\ polls = {}
    BY DEF Init, ScannerInit
  <1>2. ASSUME NEW s \in Scans
        PROVE  /\ job[s] \in Jobs /\ job[s].at = "new" /\ job[s].result = NoResult
    BY <1>1, ResultTypes DEF NewJob, Jobs, Places
  <1>3. ScannerTypeOK
    <2>1. job \in [Scans -> Jobs]
      BY <1>1, <1>2
    <2>. QED BY <1>1, <2>1 DEF ScannerTypeOK
  <1>4. ScannerInv
    BY <1>1, <1>2, ResultTypes DEF ScannerInv, JobInv, JobOk, StoreInv, RecordInv, MemoryInv, Active,
       Refused
  <1>. QED BY <1>1, <1>3, <1>4 DEF Inv, Types, PanelInv, PollsInv, RunInv, CallInv

LEMMA NextInv == Inv /\ [Next]_vars => Inv'
  <1>. SUFFICES ASSUME Inv, [Next]_vars PROVE Inv'
    OBVIOUS
  <1>1. CASE ScannerStep \/ \E s \in Scans : OtherStart(s)
    BY <1>1, OthersStepInv
  <1>2. CASE \E s \in Scans : Press(s)
    BY <1>2, PressInv
  <1>3. CASE Accept
    BY <1>3, AcceptInv
  <1>4. CASE StartAnswered
    BY <1>4, StartAnsweredInv
  <1>5. CASE StartFailed \/ StartThrows \/ Leave
    BY <1>5, PanelDrops DEF StartFailed, StartThrows, Leave, Inv, Types
  <1>6. CASE Poll
    BY <1>6, PollIssuedInv
  <1>7. CASE \E p \in polls : PollStep(p)
    BY <1>7, PollMemoryInv, PollStoreInv, PollFailsInv, PollThrowsInv, PollAnsweredInv
    DEF PollStep
  <1>8. CASE UNCHANGED vars
    BY <1>8, PanelDrops DEF vars, panelVars, Inv, Types
  <1>. QED BY <1>1, <1>2, <1>3, <1>4, <1>5, <1>6, <1>7, <1>8 DEF Next

LEMMA InvAlways == Spec => []Inv
  BY InitInv, NextInv, PTL DEF Spec

(***************************************************************************)
(* Theorems.                                                               *)
(***************************************************************************)
\* The scanner's goroutines, map, rows and ledger (scan.go) and the panel's
\* state (security-scan.tsx) keep their forms, whatever fails.
THEOREM TypeCorrect == Spec => []TypeOK
  <1>1. Inv => TypeOK
    BY DEF Inv, Types, TypeOK, Runs, Calls, PollsInFlight
  <1>. QED BY <1>1, InvAlways, PTL

\* "No known vulnerabilities" (security-scan.tsx:412) is said only of a target
\* Trivy read on a system that is watched.  If Trivy matched something in it all
\* the same, an insert of that scan was refused or cut off: the list is missing
\* under a row that was written.  A scan that shares its id is exempt.
THEOREM CleanIsClean == Spec => []CleanPanelIsClean
  <1>1. Inv => CleanPanelIsClean
    <2>. SUFFICES ASSUME Inv, PanelSays = "no known vulnerabilities" PROVE Cleared(run.asked)
      BY DEF CleanPanelIsClean, Cleared
    <2>1. ~Running /\ run # None /\ run.status # "failed" /\ run.list \notin {"findings", "unwatched"}
      BY DEF PanelSays
    <2>2. run \in Runs
      BY <2>1 DEF Inv, Types
    <2>3. run.status = "ok" /\ run.list = "empty"
      BY <2>1, <2>2 DEF Runs, Lists, Running
    <2>. QED BY <2>1, <2>3 DEF Inv, PanelInv, RunInv
  <1>. QED BY <1>1, InvAlways, PTL

\* What is shown under a target's name is the result of its scan and of no
\* other, however late the answers of earlier polls are (security-scan.tsx:149).
THEOREM ShownIsOwn == Spec => []ResultIsOwn
  <1>1. Inv => ResultIsOwn
    <2>. SUFFICES ASSUME Inv, run # None, ~Running, ~Shared(run.asked)
                  PROVE  run.scans = {run.asked}
      BY DEF ResultIsOwn
    <2>1. run \in Runs /\ run.status # "running"
      BY DEF Inv, Types, Running
    <2>2. /\ run.asked \in Scans /\ run.scans \subseteq Scans /\ run.scans # {}
          /\ Named(run.asked, run.id) /\ \A s \in run.scans : Named(s, run.id)
      BY <2>1 DEF Inv, PanelInv, RunInv, Runs
    <2>3. \A s \in run.scans : s = run.asked
      BY <2>2 DEF Named, Known, Shared
    <2>. QED BY <2>2, <2>3
  <1>. QED BY <1>1, InvAlways, PTL

\* A scan whose goroutine ended and none of whose inserts was refused is in the
\* store with its findings, and in the ledger unless its output could not be
\* parsed (scan.go:242-251).  Whatever appends and inserts fail or arrive late,
\* the ledger says "allowed" only of a scan that is stored whole, and "failed"
\* only of one that Trivy failed.
THEOREM EndedIsKept == Spec => []EndedIsRecorded
  <1>1. Inv => EndedIsRecorded
    <2>. SUFFICES ASSUME Inv PROVE EndedIsRecorded
      OBVIOUS
    <2>1. ASSUME NEW s \in Scans, job[s].at = "done", ~Refused(s)
          PROVE  Stored(s) /\ (job[s].result.why # "unparsed" => EntryOf(s) \in ledger)
      BY <2>1 DEF Inv, ScannerInv, JobInv, JobOk, Refused, StoreRefused
    <2>2. ASSUME NEW e \in ledger
          PROVE  IF e.what = "allowed" THEN job[e.scan].result.why = "" /\ Stored(e.scan)
                                       ELSE job[e.scan].result.why = "trivy"
      <3>1. e = EntryOf(e.scan) /\ Vouched(e.scan)
        BY DEF Inv, ScannerInv, RecordInv
      <3>2. e.what = (IF job[e.scan].result.why = "trivy" THEN "failed" ELSE "allowed")
        BY <3>1 DEF EntryOf
      <3>. QED BY <3>1, <3>2 DEF Vouched
    <2>. QED BY <2>1, <2>2 DEF EndedIsRecorded
  <1>. QED BY <1>1, InvAlways, PTL

\* A panel is told that the server restarted (handlers_phase3.go:277-283) only
\* of a scan that was killed, whose row was refused, or that shares its id:
\* never of one on its way from memory to the store.
THEOREM GoneIsRight == Spec => GoneIsGone
  <1> DEFINE G == error # "gone" /\ error' = "gone" =>
                      \/ job[run.asked].at = "killed"
                      \/ Refused(run.asked)
                      \/ Shared(run.asked)
  <1>1. Inv /\ [Next]_vars => [G]_vars
    <2>. SUFFICES ASSUME Inv, Next, error # "gone", error' = "gone" PROVE Vanished(run.asked)
      BY DEF Vanished
    <2>1. PICK p \in polls : PollAnswered(p)
      BY DEF Next, ScannerStep, OtherStart, panelVars, Press, Accept, StartAnswered, StartFailed,
             StartThrows, Poll, PollStep, PollMemory, PollStore, Answered, Becomes, PollFails,
             PollThrows, Dropped, Leave
    <2>2. p.at = "answered" /\ Live(p) /\ p.answer = GoneAnswer
      BY <2>1 DEF PollAnswered, Progress
    <2>3. run.asked \in Scans /\ Named(run.asked, p.id)
      BY <2>2, LiveIsKnown
    <2>. QED BY <2>2, <2>3, AnswerForms DEF Inv, PanelInv, PollsInv, PollInv, AnswerInv
  <1>. QED BY <1>1, InvAlways, PTL DEF Spec, GoneIsGone
=============================================================================
