------------------------------ MODULE MCAccount ------------------------------
(* The ledger holds one account with three jobs of two, one and one steps: a *)
(* job is cancelled, reviewed or refused (MaxActive) while others wait       *)
(* behind it.  The programs are those of every kind of command, on every     *)
(* state of a small account.  Two accounts, with a task on one of them, are  *)
(* drained in two sessions.  Two windows open flows over one template;       *)
(* restarts and users are left to MCAutomation.  Two runs of the release     *)
(* overlap, and the old worker writes once.                                  *)
EXTENDS AccountParts, TLC

CONSTANTS a1, a2, j1, x1, x2   \* x1 and x2 stand for whatever is interchangeable in a part

MCOwner == [j \in Job |-> a1]
MCStepCount == [j \in Job |-> IF j = j1 THEN 2 ELSE 1]
MCKinds == {"rename_subdomain", "change_subdomain", "rotate_subdomain", "create_worker",
            "replace_worker", "upload", "manual_upload", "repair_worker", "remove_worker",
            "delete_worker", "cleanup_kv", "delete_kv", "configure_domain", "write_nodes"}
MCOn == j1 :> a1
MCTemplates == <<j1>>

(* The one-step jobs, digests, namespaces, sessions and runs.                *)
MCSymmetry == Permutations({x1, x2})
=============================================================================
