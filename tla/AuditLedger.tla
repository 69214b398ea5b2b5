----------------------------- MODULE AuditLedger -----------------------------
(***************************************************************************)
(* The hash-chained audit ledger (src/services/api/audit.go).  Handlers    *)
(* and the detection engine append to it concurrently; the mutex of one    *)
(* API process serialises reading the head of an organisation's chain and  *)
(* inserting the entry after it.  The database is reached over HTTP with a *)
(* ten second timeout, so an insert may be abandoned by the client and     *)
(* still be executed.                                                      *)
(*                                                                         *)
(* An entry's hash covers everything in it; no two calls hash the same     *)
(* content, so the number of the call stands for the hash.                 *)
(***************************************************************************)
EXTENDS Naturals, FiniteSets, SequencesExt

CONSTANTS
    Orgs,           \* tenants, each with a chain of its own
    Callers,        \* goroutines that append
    Processes,      \* API processes, each with one auditLog and its mutex
    ProcessOf,      \* the process a caller runs in
    Faults,         \* what may go wrong: a subset of FaultKinds
    MaxCalls        \* bound: calls of Append in a behaviour

FaultKinds == {"read",      \* the head cannot be read
               "insert",    \* the insert is refused
               "late",      \* the client gives up on an insert that may still be executed
               "restart",   \* a process restarts
               "ttl"}       \* rows reach the table's TTL

ASSUME HomeAssumption == ProcessOf \in [Callers -> Processes]
ASSUME FaultAssumption == Faults \subseteq FaultKinds
ASSUME BoundAssumption == MaxCalls \in Nat

Genesis == 0
Row == [org : Orgs, seq : Nat \ {0}, prev : Nat, hash : Nat \ {0}]

VARIABLES
    log,        \* the rows of audit_log
    late,       \* rows whose insert was abandoned and not yet executed
    call,       \* per caller, its call of Append
    calls       \* calls of Append so far

\* What the properties remember: the rows Append has returned, each with the
\* number of calls that had begun by then.
VARIABLE returned

vars == <<log, late, call, calls, returned>>

Idle == [step |-> "idle"]

RowsOf(o) == {r \in log : r.org = o}

Holds(c) == call[c].step \notin {"idle", "waiting"}

\* Mutant: no mutex.
NeverLocked(p) == FALSE

Locked(p) == \E c \in Callers : ProcessOf[c] = p /\ Holds(c)

\* Mutant: a return that forgets to unlock.
ReturnLocked(c) == call' = [call EXCEPT ![c] = [step |-> "leaked"]]

\* Every return of Append unlocks the mutex.
Return(c) == call' = [call EXCEPT ![c] = Idle]

Init ==
    /\ log = {}
    /\ late = {}
    /\ call = [c \in Callers |-> Idle]
    /\ calls = 0
    /\ returned = {}

Call(c, o) ==
    /\ call[c].step = "idle"
    /\ calls < MaxCalls
    /\ calls' = calls + 1
    /\ call' = [call EXCEPT ![c] = [step |-> "waiting", org |-> o, hash |-> calls + 1]]
    /\ UNCHANGED <<log, late, returned>>

Lock(c) ==
    /\ call[c].step = "waiting"
    /\ ~Locked(ProcessOf[c])
    /\ call' = [call EXCEPT ![c].step = "locked"]
    /\ UNCHANGED <<log, late, calls, returned>>

\* Mutant: ORDER BY Seq ASC.
IsTail(h, rows) == h \in rows /\ \A r \in rows : h.seq <= r.seq

\* ORDER BY Seq DESC LIMIT 1: of several rows with the highest Seq, any.
IsHead(h, rows) == h \in rows /\ \A r \in rows : r.seq <= h.seq

\* Mutant: the entry takes the number of the head.
EntryNumberedAsHead(o, head, hash) ==
    [org |-> o, seq |-> head.seq, prev |-> head.hash, hash |-> hash]

Entry(o, head, hash) ==
    [org |-> o, seq |-> head.seq + 1, prev |-> head.hash, hash |-> hash]

NoHead == [seq |-> 0, hash |-> Genesis]

\* The entry that continues the chain after the head that was read.
ReadHead(c) ==
    LET o == call[c].org
    IN  /\ call[c].step = "locked"
        /\ \E head \in RowsOf(o) \cup {NoHead} :
              /\ IF RowsOf(o) = {} THEN head = NoHead ELSE IsHead(head, RowsOf(o))
              /\ call' = [call EXCEPT ![c] =
                    [step |-> "read", row |-> Entry(o, head, call[c].hash)]]
        /\ UNCHANGED <<log, late, calls, returned>>

ReadFails(c) ==
    /\ "read" \in Faults
    /\ call[c].step = "locked"
    /\ Return(c)
    /\ UNCHANGED <<log, late, calls, returned>>

Insert(c) ==
    /\ call[c].step = "read"
    /\ log' = log \cup {call[c].row}
    /\ returned' = returned \cup {[row |-> call[c].row, by |-> calls]}
    /\ Return(c)
    /\ UNCHANGED <<late, calls>>

InsertFails(c) ==
    /\ call[c].step = "read"
    /\ \/ "insert" \in Faults /\ UNCHANGED late
       \/ "late" \in Faults /\ late' = late \cup {call[c].row}
    /\ Return(c)
    /\ UNCHANGED <<log, calls, returned>>

\* The database executes, or drops, an insert whose client has gone.
LateInsert(r) ==
    /\ r \in late
    /\ late' = late \ {r}
    /\ log' \in {log, log \cup {r}}
    /\ UNCHANGED <<call, calls, returned>>

\* The calls of a process that restarts are gone; an insert it had sent may
\* still be executed.
Restart(p) ==
    /\ "restart" \in Faults
    /\ call' = [c \in Callers |-> IF ProcessOf[c] = p THEN Idle ELSE call[c]]
    /\ \/ UNCHANGED late
       \/ /\ "late" \in Faults
          /\ late' = late \cup {call[c].row : c \in {d \in Callers :
                                    ProcessOf[d] = p /\ call[d].step = "read"}}
    /\ UNCHANGED <<log, calls, returned>>

\* TTL toDateTime(At) + INTERVAL 13 MONTH: an organisation's oldest entry goes.
Expire(r) ==
    /\ "ttl" \in Faults
    /\ r \in log
    /\ \A q \in RowsOf(r.org) : r.seq <= q.seq
    /\ log' = log \ {r}
    /\ UNCHANGED <<late, call, calls, returned>>

Step(c) == Lock(c) \/ ReadHead(c) \/ ReadFails(c) \/ Insert(c) \/ InsertFails(c)

Next ==
    \/ \E c \in Callers : Step(c) \/ \E o \in Orgs : Call(c, o)
    \/ \E r \in late : LateInsert(r)
    \/ \E p \in Processes : Restart(p)
    \/ \E r \in log : Expire(r)

Spec == Init /\ [][Next]_vars

\* A started call keeps going; Go's mutex starves no waiter.
Fairness ==
    \A c \in Callers :
        /\ SF_vars(Lock(c))
        /\ WF_vars(ReadHead(c) \/ ReadFails(c) \/ Insert(c) \/ InsertFails(c))

FairSpec == Spec /\ Fairness

(***************************************************************************)
(* Verify walks the rows by Seq and stops at the first that does not fit.  *)
(***************************************************************************)

\* ORDER BY Seq ASC: rows of one number come in any order.
InSeqOrder(rows) ==
    {s \in [1..Cardinality(rows) -> rows] :
        IsInjective(s) /\ \A i, j \in DOMAIN s : i < j => s[i].seq <= s[j].seq}

\* Mutant: only the numbers are looked at.
NumberFits(v, r) == r.seq = v.expect

Fits(v, r) == r.seq = v.expect /\ r.prev = v.prev

Unbroken == [intact |-> TRUE, brokenAt |-> 0, prev |-> Genesis, expect |-> 1]

Check(v, r) ==
    IF ~v.intact THEN v
    ELSE IF ~Fits(v, r) THEN [v EXCEPT !.intact = FALSE, !.brokenAt = r.seq]
    ELSE [v EXCEPT !.prev = r.hash, !.expect = @ + 1]

Walk(rows) == FoldLeft(Check, Unbroken, rows)

\* What Verify may answer.
Verify(o) == {Walk(rows) : rows \in InSeqOrder(RowsOf(o))}

(***************************************************************************)
(* Properties.                                                             *)
(***************************************************************************)

TypeOK ==
    /\ log \subseteq Row
    /\ late \subseteq Row
    /\ call \in [Callers -> {Idle}
                    \cup [step : {"waiting", "locked"}, org : Orgs, hash : Nat \ {0}]
                    \cup [step : {"read"}, row : Row]]
    /\ calls \in Nat
    /\ returned \subseteq [row : Row, by : Nat]

Follows(q, r) == q.seq + 1 = r.seq /\ q.hash = r.prev

\* What a chain is: no two rows with one number, and every row is the first or
\* follows another.
IsChain(rows) ==
    /\ \A q, r \in rows : q.seq = r.seq => q = r
    /\ \A r \in rows : \/ r.seq = 1 /\ r.prev = Genesis
                       \/ \E q \in rows : Follows(q, r)

\* The mutex makes every organisation's rows one unbroken chain (audit.go, "a
\* single mutex serialises the read-then-write of Seq across all of them").
ChainIntact == \A o \in Orgs : IsChain(RowsOf(o))

\* Verify answers, and finds a chain intact exactly when it is one: every fork,
\* hole and wrong link is reported, in whichever order rows of one number come.
VerifyIsExact == \A o \in Orgs : {v.intact : v \in Verify(o)} = {IsChain(RowsOf(o))}

\* An entry whose Append began after another's had returned comes after it, in
\* whichever processes they ran and whatever failed, as long as both are there.
LaterCallsComeAfter ==
    \A a \in returned : a.row \in log =>
        \A r \in RowsOf(a.row.org) : r.hash > a.by => r.seq > a.row.seq

\* Append returns, however its caller fares: the mutex is always released.
AppendReturns == \A c \in Callers : call[c].step = "waiting" ~> call[c].step = "idle"

\* Entry k of an organisation's list: the row numbered k, Genesis if there is none.
EntryAt(o, k) ==
    LET numbered == {r \in RowsOf(o) : r.seq = k}
    IN  IF numbered = {} THEN Genesis ELSE (CHOOSE r \in numbered : TRUE).hash

Promise == INSTANCE AppendOnlyLog WITH
    entries <- [o \in Orgs |-> [k \in 1 .. Cardinality(RowsOf(o)) |-> EntryAt(o, k)]],
    pending <- {[org |-> call[c].org, call |-> call[c].hash] :
                    c \in {d \in Callers : call[d].step \in {"waiting", "locked"}}}
               \cup {[org |-> call[c].row.org, call |-> call[c].row.hash] :
                    c \in {d \in Callers : call[d].step = "read"}}

\* The mutexed read-then-insert looks to every caller like one atomic append to
\* its organisation's list, whoever else is appending.
KeepsPromise == Promise!Spec
=============================================================================
