------------------------------ MODULE SloStore ------------------------------
(***************************************************************************)
(* The thresholds of the API (services/api/slo.go): a JSON file that       *)
(* people edit and Upsert rewrites, and a copy of it in memory that every  *)
(* request refreshes when the file's modification time has changed.  The   *)
(* thresholds of single models stand for one another: the file lists them  *)
(* or has lost them.                                                       *)
(***************************************************************************)
EXTENDS Naturals

CONSTANTS
    Targets,       \* thresholds, in milliseconds
    DefaultTarget, \* defaultTtftSloMs
    Readers,       \* requests and ticks that read thresholds
    MaxWrites      \* bound: modification times of the file

ASSUME TargetsAssumption == DefaultTarget \in Targets /\ Targets \subseteq Nat \ {0}
ASSUME WritesAssumption == MaxWrites \in Nat \ {0}

VARIABLES
    file,     \* what is on disk, when it was written, and whether alone at that time
    memory,   \* byModel, fallback and modTime
    upsert,   \* the Upsert that holds s.mu, or none
    reader    \* per reader: where it is and what it has in hand

storeVars == <<file, memory, upsert, reader>>

Forgotten == 0   \* time.Time{}: no file has this modification time

Thresholds == [fallback : Targets, models : BOOLEAN]
Shipped == [fallback |-> DefaultTarget, models |-> TRUE]
Emptied == [fallback |-> DefaultTarget, models |-> FALSE]

NoUpsert == [at |-> "none", target |-> DefaultTarget, base |-> Shipped]
IdleReader == [at |-> "idle", stat |-> Forgotten, got |-> Shipped]
Ready == [IdleReader EXCEPT !.at = "answer"]

StoreInit ==
    /\ file = [ok |-> TRUE, says |-> Shipped, mtime |-> 1, alone |-> TRUE]
    /\ memory = [says |-> Shipped, modTime |-> 1]
    /\ upsert = NoUpsert
    /\ reader = [r \in Readers |-> IdleReader]

Locked == upsert.at # "none"

\* The file clock ticks between two writes, or does not; the file that the API
\* starts with was written long before.
Written(ok, content) ==
    \E tick \in IF file.mtime > 1 THEN {0, 1} ELSE {1} :
        file' = [ok |-> ok, says |-> content, mtime |-> file.mtime + tick,
                 alone |-> tick = 1]

(***************************************************************************)
(* Reading: stat and file without the lock, then the copy under it.        *)
(***************************************************************************)
Stat(r) ==
    /\ reader[r].at = "idle"
    /\ ~Locked
    /\ reader' = IF file.mtime = memory.modTime
                 THEN [reader EXCEPT ![r] = Ready]
                 ELSE [reader EXCEPT ![r].at = "changed", ![r].stat = file.mtime]
    /\ UNCHANGED <<file, memory, upsert>>

\* A file that cannot be parsed leaves the thresholds as they were.
Read(r) ==
    /\ reader[r].at = "changed"
    /\ reader' = IF file.ok
                 THEN [reader EXCEPT ![r].at = "loaded", ![r].got = file.says]
                 ELSE [reader EXCEPT ![r] = Ready]
    /\ UNCHANGED <<file, memory, upsert>>

\* Mutant: the file is looked at again for the time that is kept.
InstallRestat(r) ==
    /\ reader[r].at = "loaded"
    /\ ~Locked
    /\ memory' = [says |-> reader[r].got, modTime |-> file.mtime]
    /\ reader' = [reader EXCEPT ![r] = Ready]
    /\ UNCHANGED <<file, upsert>>

Install(r) ==
    /\ reader[r].at = "loaded"
    /\ ~Locked
    /\ memory' = [says |-> reader[r].got, modTime |-> reader[r].stat]
    /\ reader' = [reader EXCEPT ![r] = Ready]
    /\ UNCHANGED <<file, upsert>>

\* All(): the copy in memory, whoever has refreshed it last.
Answer(r) ==
    /\ reader[r].at = "answer"
    /\ ~Locked
    /\ reader' = [reader EXCEPT ![r] = IdleReader]
    /\ UNCHANGED <<file, memory, upsert>>

(***************************************************************************)
(* Writing.                                                                *)
(***************************************************************************)
\* What Upsert goes on from: a file that cannot be parsed counts as empty.
Base == IF file.ok THEN file.says ELSE Emptied

UpsertBegin(t) ==
    /\ ~Locked
    /\ file.mtime < MaxWrites
    /\ upsert' = [at |-> "read", target |-> t, base |-> Base]
    /\ UNCHANGED <<file, memory, reader>>

UpsertRename ==
    /\ upsert.at = "read"
    /\ file.mtime < MaxWrites
    /\ Written(TRUE, [upsert.base EXCEPT !.fallback = upsert.target])
    /\ upsert' = [upsert EXCEPT !.at = "renamed", !.base = Shipped]
    /\ UNCHANGED <<memory, reader>>

UpsertEnd ==
    /\ upsert.at = "renamed"
    /\ memory' = [says |-> [memory.says EXCEPT !.fallback = upsert.target],
                  modTime |-> Forgotten]
    /\ upsert' = NoUpsert
    /\ UNCHANGED <<file, reader>>

\* The temporary file cannot be written or renamed.
UpsertFails ==
    /\ upsert.at = "read"
    /\ upsert' = NoUpsert
    /\ UNCHANGED <<file, memory, reader>>

\* A commit is checked out, or somebody edits the file, with the models listed, and
\* may leave it broken.
HandEdit ==
    /\ file.mtime < MaxWrites
    /\ \/ \E says \in [fallback : Targets, models : {TRUE}] : Written(TRUE, says)
       \/ Written(FALSE, Emptied)
    /\ UNCHANGED <<memory, upsert, reader>>

ReaderStep(r) == Stat(r) \/ Read(r) \/ Install(r) \/ Answer(r)

StoreTypeOK ==
    /\ file \in [ok : BOOLEAN, says : Thresholds, mtime : 1..MaxWrites, alone : BOOLEAN]
    /\ memory \in [says : Thresholds, modTime : 0..MaxWrites]
    /\ upsert \in [at : {"none", "read", "renamed"}, target : Targets, base : Thresholds]
    /\ reader \in [Readers -> [at : {"idle", "changed", "loaded", "answer"},
                               stat : 0..MaxWrites, got : Thresholds]]

\* "Re-reads the file when it has changed on disk" (slo.go:56): when the copy in
\* memory bears the modification time of the file, so that no request will read
\* it again (slo.go:64), it says what the file says, whatever was written between
\* a reader's stat, its read and its taking of the lock.  Exempt is a file that
\* was written twice in one tick of its clock, until it is written again.
ConfirmedIsCurrent ==
    memory.modTime = file.mtime /\ file.alone => file.ok /\ memory.says = file.says
=============================================================================
