------------------------ MODULE MCDeploymentLedger ------------------------
(* Three deployments of two sources over two targets.                      *)
EXTENDS DeploymentLedger, TLC

CONSTANTS t1, t2, t3, w1, w2, old, new, own, fork
MCSources == {[sha |-> old, identity |-> fork], [sha |-> new, identity |-> fork]}
MCSymmetry == Permutations(Tasks) \union Permutations(Targets)
=============================================================================
