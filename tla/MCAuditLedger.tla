---------------------------- MODULE MCAuditLedger ----------------------------
(* Small instances of AuditLedger. *)
EXTENDS AuditLedger, TLC

CONSTANTS acme, globex, handler, engine, apiA, apiB

OneOrg == {acme}
TwoOrgs == {acme, globex}
TwoCallers == {handler, engine}
OneProcess == {apiA}
TwoProcesses == {apiA, apiB}
Together == [c \in TwoCallers |-> apiA]
Apart == (handler :> apiA) @@ (engine :> apiB)

CleanFaults == {"read", "insert", "restart"}
=============================================================================
