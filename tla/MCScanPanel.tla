----------------------------- MODULE MCScanPanel -----------------------------
(* A small instance of ScanPanel: two scans, so that one queues behind the *)
(* other or is asked for after it.  Every fault but that of two scans      *)
(* started in the same millisecond, which would share an id.               *)
EXTENDS ScanPanel

CONSTANTS alpine, vllm

TwoScans == {alpine, vllm}
OwnIds == FaultKinds \ {"sameMilli"}
=============================================================================
