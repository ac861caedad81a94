--------------------------- MODULE MCConfiguration ---------------------------
(* The authority has one account that may be removed and added again, edits  *)
(* under two keys, and a planned task.  Under the first key anything is      *)
(* asked for, and sent twice; under the second everything but that a worker  *)
(* is forgotten or accounts are imported.  Before the authority, two workers *)
(* in two accounts are managed or not, with two commits upstream and one     *)
(* rotation.  The tab makes two edits while others make one.                 *)
EXTENDS ConfigurationParts, TLC

CONSTANTS a1, r1, r2, r3, k1, k2, t1

MCKeyOf == r1 :> k1 @@ r2 :> k1 @@ r3 :> k2
MCKindsOf == k1 :> {"add", "replace", "remove", "forget", "import", "favorite"}
             @@ k2 :> {"add", "replace", "remove", "favorite"}
MCAccountOf == [t \in Targets |-> t]

(* The requests of one key, the workers.                                     *)
MCSymmetry == Permutations({r1, r2})
=============================================================================
