------------------------------- MODULE MCGlobal -------------------------------
(* The outbox serves three tasks over three accounts with two permits, two   *)
(* of them unfinished at a time: t1 addresses a1 and a2, t2 addresses a1, t3 *)
(* addresses a3.  The ledger has two deployments of two sources over two     *)
(* targets.  Two intents are admitted, of which one may be sent with another *)
(* content, while the configuration, maintenance and the process change.     *)
EXTENDS GlobalParts, TLC

CONSTANTS a1, a2, a3, t1, t2, t3, old, new, own, fork,
          x1, x2, y1, y2   \* pairs of interchangeable values, whatever they stand for in a part

MCJob == {<<t1, a1>>, <<t1, a2>>, <<t2, a1>>, <<t3, a3>>}
MCTaskOf == [j \in Job |-> j[1]]
MCOwner == [j \in Job |-> j[2]]
MCPlace == [j \in Job |-> IF j[2] = a1 THEN 1 ELSE IF j[2] = a2 THEN 2 ELSE 3]
MCSources == {[sha |-> old, identity |-> fork], [sha |-> new, identity |-> fork]}

MCSymmetry == Permutations({x1, x2}) \union Permutations({y1, y2})
=============================================================================
