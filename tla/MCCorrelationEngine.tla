------------------------- MODULE MCCorrelationEngine -------------------------
(* Small instances of CorrelationEngine. *)
EXTENDS CorrelationEngine

CONSTANTS llama, surge, thermal, alice, slot

OneService == {llama}
OneKind == {thermal}
TwoKinds == {surge, thermal}

\* A surge is always a warning, a throttling card a warning or critical.
ThermalVerdicts == {[kind |-> thermal, severity |-> v] : v \in Severities}
WarningVerdicts == {[kind |-> thermal, severity |-> "warning"]}
AllVerdicts == ThermalVerdicts \cup {[kind |-> surge, severity |-> "warning"]}

Nobody == {}
OnePerson == {alice}

NoSlot == {}
OneSlot == {slot}

RetriedFaults == {"post", "status"}
LostFaults == FaultKinds \ {"latestatus"}
CrashFaults == FaultKinds \ {"read", "unacked"}
=============================================================================
