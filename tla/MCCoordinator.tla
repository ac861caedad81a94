--------------------------- MODULE MCCoordinator ----------------------------
(* One account and one or two tasks that address it: the second waits for  *)
(* the permit of the first.                                                *)
EXTENDS Coordinator

CONSTANTS a1, t1, t2, e1

MCJob == {<<t, a1>> : t \in Task}
MCTaskOf == [j \in Job |-> j[1]]
MCOwner == [j \in Job |-> j[2]]
MCPlace == [j \in Job |-> 1]
MCStepCount == [j \in Job |-> MaxSteps]
=============================================================================
