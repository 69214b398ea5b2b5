---------------------------- MODULE MCDeployDialog ----------------------------
(* A small instance of DeployDialog: two manifests, two deploys, so that one *)
(* meets the other in the tree or follows it.                                *)
EXTENDS DeployDialog, TLC

CONSTANTS llama, bge, old, new, d1, d2

TwoApps == {llama, bge}
TwoImages == {old, new}
Main == (llama :> old) @@ (bge :> old)
TwoDeploys == {d1, d2}
LlamaNew == [app |-> llama, image |-> new]
BgeNew == [app |-> bge, image |-> new]
LlamaOld == [app |-> llama, image |-> old]
ThreeInputs == {LlamaNew, LlamaOld, BgeNew}
FromDialog == {LlamaNew, BgeNew}
EverythingFails == FaultKinds
DeploysAlike == Permutations(Deploys)
=============================================================================
