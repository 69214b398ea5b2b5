---------------------------- MODULE AppendOnlyLog ----------------------------
(***************************************************************************)
(* What Append promises its callers: one list of entries per organisation  *)
(* that only ever grows at its end, each call adding its entry at one      *)
(* moment between its beginning and its end, or not at all.                *)
(***************************************************************************)
EXTENDS Naturals, Sequences

CONSTANTS Orgs

VARIABLES
    entries,    \* per organisation, the calls whose entries are in its log, in order
    pending,    \* calls begun and not ended
    calls       \* number of calls begun

vars == <<entries, pending, calls>>

Init ==
    /\ entries = [o \in Orgs |-> <<>>]
    /\ pending = {}
    /\ calls = 0

Begin(o) ==
    /\ calls' = calls + 1
    /\ pending' = pending \cup {[org |-> o, call |-> calls + 1]}
    /\ UNCHANGED entries

Commit(p) ==
    /\ entries' = [entries EXCEPT ![p.org] = Append(@, p.call)]
    /\ pending' = pending \ {p}
    /\ UNCHANGED calls

Abandon(P) ==
    /\ pending' = pending \ P
    /\ UNCHANGED <<entries, calls>>

Next ==
    \/ \E o \in Orgs : Begin(o)
    \/ \E p \in pending : Commit(p)
    \/ \E P \in SUBSET pending : Abandon(P)

Spec == Init /\ [][Next]_vars
=============================================================================
