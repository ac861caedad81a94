------------------------------ MODULE Executor ------------------------------
(* What one step of a task does at the provider (business-executor.ts,       *)
(* repair-executor.ts): a program of reads and writes per kind of command.   *)
(* A write may be applied, accepted and ignored, refused, or its answer may  *)
(* be lost; a read may fail, or show the state before the last write until   *)
(* one has shown the state after it.  A restart replays the journalled       *)
(* answers and goes on where the program was.  Nobody else writes to the     *)
(* account meanwhile.                                                        *)
EXTENDS Naturals, Sequences, FiniteSets

CONSTANTS Namespaces,   \* KV namespaces
          Kinds         \* the kinds of commands that are run

VARIABLES command,      \* the kind, and what it is about
          start, now, before,  \* state of the provider: at the start, now, before the last write
          pc              \* position in the program, or the outcome

vars == <<command, start, now, before, pc>>

Verified == 101
Failed == 102
Unknown == 103
Outcomes == {Verified, Failed, Unknown}
Provider == [sub : {"none", "old", "new"},               \* workers.dev name of the account
             script : {"absent", "old", "new"},          \* the worker,
             bound : SUBSET Namespaces, domain : BOOLEAN, flag : BOOLEAN,  \* its bindings, a hostname, workers.dev
             plain : BOOLEAN,                            \* bindings and domain are of shapes that can be restored
             shared : SUBSET Namespaces,                 \* bindings of another worker
             kv : SUBSET Namespaces, titled : SUBSET Namespaces,  \* namespaces that exist, those of the title
             nodes : {"old", "new"}]
Real(p) == /\ p.script = "absent" => p.bound = {} /\ ~p.domain /\ ~p.flag /\ p.plain /\ p.nodes = "old"
           /\ p.bound \union p.shared \union p.titled \subseteq p.kv

(* What a read is asked.                                                    *)
Holds(test, p) ==
    CASE test = "named" -> p.sub = "new"
      [] test = "unnamed" -> p.sub = "none"
      [] test = "restored" -> p.sub = start.sub
      [] test = "absent" -> p.script = "absent"
      [] test = "present" -> p.script # "absent"
      [] test = "uploaded" -> p.script = "new"
      [] test = "plain" -> p.plain
      [] test = "bindings" -> p.bound = command.bindings
      [] test = "ambiguous" -> Cardinality(p.titled) > 1
      [] test = "titled" -> p.titled # {}
      [] test = "planned" -> p.bound = command.planned
      [] test = "shared" -> command.namespace \in p.shared
      [] test = "deleted" -> command.namespace \notin p.kv
      [] test = "domain" -> p.domain = start.domain
      [] test = "flag" -> p.flag = start.flag
      [] test = "enabled" -> p.flag
      [] test = "single" -> Cardinality(p.bound) = 1
      [] test = "written" -> p.nodes = "new"
(* What a write does.                                                       *)
Gone(p) == [p EXCEPT !.script = "absent", !.bound = {}, !.domain = FALSE, !.flag = FALSE, !.nodes = "old", !.plain = TRUE]
Applied(write, p) ==
    CASE write = "name" -> [p EXCEPT !.sub = "new"]
      [] write = "restore" -> [p EXCEPT !.sub = start.sub]
      [] write = "unname" -> [p EXCEPT !.sub = "none"]
      [] write = "create_kv" -> [p EXCEPT !.kv = @ \union {command.namespace}, !.titled = {command.namespace}]
      [] write = "delete_kv" -> [p EXCEPT !.kv = @ \ {command.namespace}, !.titled = @ \ {command.namespace}]
      [] write = "upload" -> [p EXCEPT !.script = "new", !.bound = command.bindings]
      [] write = "delete" -> Gone(p)
      [] write = "assign" -> [p EXCEPT !.domain = TRUE]
      [] write = "reassign" -> [p EXCEPT !.domain = start.domain]
      [] write = "enable" -> [p EXCEPT !.flag = TRUE]
      [] write = "reset" -> [p EXCEPT !.flag = start.flag]
      [] write = "nodes" -> [p EXCEPT !.nodes = "new"]

-----------------------------------------------------------------------------
(* Programs.  A read goes on at yes or no, a write at then or, when it is   *)
(* refused, at rejected: a position or an outcome.  A write that verifies   *)
(* the step shows in its answer what it has set.                            *)
Get(test, yes, no) == [test |-> test, yes |-> yes, no |-> no]
Put(write, then, rejected) == [write |-> write, then |-> then, rejected |-> rejected]
\* Faulty: a refusal after the old name was deleted is a definite failure.
RenameUnguarded == <<Get("named", Verified, 2), Get("unnamed", 5, 3), Put("unname", 4, Failed), Put("name", 6, Failed),
                     Put("name", 6, Failed), Get("named", Verified, Unknown)>>
(* rename_subdomain: whatever goes wrong once the old name is deleted is    *)
(* unknown.                                                                 *)
Rename == <<Get("named", Verified, 2), Get("unnamed", 5, 3), Put("unname", 4, Unknown), Put("name", 6, Unknown),
            Put("name", 6, Failed), Get("named", Verified, Unknown)>>
(* change_subdomain: replaces the name in place; deletes it only when that  *)
(* is refused, and then puts the old name back when the new one does not    *)
(* take.                                                                    *)
Replace == <<Get("unnamed", Failed, 4), Get("named", Verified, 5), Put("unname", 6, Failed), Get("unnamed", 7, Unknown),
             Put("name", 8, 10), Get("named", Verified, 9), Get("unnamed", 10, Unknown), Put("restore", 11, Unknown),
             Get("restored", Failed, Unknown)>>
Change == <<Put("name", 2, 3), Get("named", Verified, Unknown)>> \o Replace
(* rotate_subdomain. *)
Rotate == <<Get("unnamed", Failed, 2), Get("named", Unknown, 3), Put("unname", 4, Unknown), Get("unnamed", 5, Unknown),
            Put("name", 6, Unknown), Get("named", Verified, Unknown)>>

(* The namespace of the title is found or made, then the script and its     *)
(* bindings are put and read back.                                          *)
Install(i) == <<Get("ambiguous", Failed, i + 1), Get("titled", i + 4, i + 2), Put("create_kv", i + 3, Failed), Get("titled", i + 4, Unknown),
                Put("upload", i + 5, Failed), Get("uploaded", i + 6, Unknown), Get("bindings", Verified, Unknown)>>
Create == <<Get("absent", 2, Failed)>> \o Install(2)
ReplaceWorker == <<Get("present", 2, Failed), Get("plain", 3, Unknown)>> \o Install(3)
Upload == <<Get("plain", 2, Unknown), Put("upload", 3, Failed), Get("uploaded", Verified, Unknown)>>
ManualUpload == <<Get("present", 2, Failed), Get("plain", 3, Unknown), Put("upload", 4, Failed),
                  Get("uploaded", 5, Unknown), Get("bindings", Verified, Unknown)>>
\* Faulty: the hostname is not read again after the worker was deleted.
RepairUnread == <<Get("present", 2, Unknown), Get("plain", 3, Unknown), Put("delete", 4, Unknown), Get("absent", 5, Unknown),
                  Put("upload", 6, Unknown), Get("uploaded", 7, Unknown), Get("bindings", 8, Unknown),
                  Put("reassign", 9, Unknown), Put("reset", 10, Unknown), Get("flag", Verified, Unknown)>>
(* repair_worker: everything that has to be restored is read before the     *)
(* worker is deleted, and after that nothing is a definite failure.         *)
Repair == <<Get("present", 2, Unknown), Get("plain", 3, Unknown), Put("delete", 4, Unknown), Get("absent", 5, Unknown),
            Put("upload", 6, Unknown), Get("uploaded", 7, Unknown), Get("bindings", 8, Unknown),
            Put("reassign", 9, Unknown), Get("domain", 10, Unknown), Put("reset", 11, Unknown), Get("flag", Verified, Unknown)>>
DeleteWorker(i) == <<Put("delete", i + 1, Failed), Get("absent", Verified, Unknown)>>
RemoveWorker == <<Get("present", 2, Failed), Get("planned", 3, Failed)>> \o DeleteWorker(3)
DeleteKv(i) == <<Put("delete_kv", i + 1, Failed), Get("deleted", Verified, Unknown)>>
CleanupKv == <<Get("absent", 2, Failed), Get("shared", Verified, 3)>> \o DeleteKv(3)
AssignDomain == <<Put("assign", Verified, Failed)>>
EnableSubdomain == <<Put("enable", 2, Failed), Get("enabled", Verified, Unknown)>>
WriteNodes == <<Get("single", 2, Unknown), Put("nodes", 3, Failed), Get("written", Verified, Unknown)>>

Program == CASE command.kind = "rename_subdomain" -> Rename [] command.kind = "change_subdomain" -> Change
             [] command.kind = "rotate_subdomain" -> Rotate
             [] command.kind = "create_worker" -> Create [] command.kind = "replace_worker" -> ReplaceWorker
             [] command.kind = "upload" -> Upload [] command.kind = "manual_upload" -> ManualUpload
             [] command.kind = "repair_worker" -> Repair
             [] command.kind = "remove_worker" -> RemoveWorker [] command.kind = "delete_worker" -> DeleteWorker(1)
             [] command.kind = "cleanup_kv" -> CleanupKv [] command.kind = "delete_kv" -> DeleteKv(1)
             [] command.kind = "configure_domain" -> IF command.hostname THEN AssignDomain ELSE EnableSubdomain
             [] command.kind = "write_nodes" -> WriteNodes

-----------------------------------------------------------------------------
Titling == {"create_worker", "replace_worker"}
Naming == {"rename_subdomain", "change_subdomain", "rotate_subdomain"}
(* No command about the name is about workers, and no other is about names. *)
Concerned(kind, p) == /\ IF kind \in Naming THEN p.script = "absent" /\ p.kv = {} ELSE p.sub = "old"
                      /\ kind # "write_nodes" => p.nodes = "old"
(* The bindings a command means the worker to have.                         *)
Meant(kind, p, n) == CASE kind \in Titling -> IF p.titled = {} THEN {n} ELSE p.titled
                       [] OTHER -> p.bound
Init == /\ start \in {p \in Provider : Real(p)} /\ now = start /\ before = start
        /\ \E kind \in Kinds, n \in Namespaces, hostname \in BOOLEAN :
              /\ kind \in Titling => (n \in start.titled \/ n \notin start.kv)
              /\ kind # "configure_domain" => ~hostname
              /\ Concerned(kind, start)
              /\ \E planned \in IF kind = "remove_worker" THEN {start.bound, {}} ELSE {{}} :
                 command = [kind |-> kind, namespace |-> n, hostname |-> hostname, planned |-> planned,
                            bindings |-> Meant(kind, start, n)]
        /\ pc = 1

At == Program[pc]
IsGet == "test" \in DOMAIN At
Read == /\ pc \notin Outcomes /\ IsGet
        /\ \/ pc' = Unknown /\ UNCHANGED before
           \/ \E p \in {now, before} : before' = p /\ pc' = IF Holds(At.test, p) THEN At.yes ELSE At.no
        /\ UNCHANGED <<command, start, now>>
Write == /\ pc \notin Outcomes /\ ~IsGet
         /\ \E applied \in BOOLEAN :
               /\ now' = IF applied THEN Applied(At.write, now) ELSE now
               /\ before' = IF applied THEN now ELSE before
               /\ pc' \in {At.then, Unknown} \union (IF applied THEN {} ELSE {At.rejected})
               /\ pc' = Verified => applied
         /\ UNCHANGED <<command, start>>
Next == Read \/ Write
Spec == Init /\ [][Next]_vars

-----------------------------------------------------------------------------
(* A step is verified only when the provider is as the command means it to  *)
(* be, and what the command is not about is as it was.                      *)
Meaning == CASE command.kind \in Naming -> now = [start EXCEPT !.sub = "new"]
             [] command.kind \in Titling -> now.script = "new" /\ now.bound = command.bindings /\ now.bound \subseteq now.kv
             [] command.kind = "upload" -> now.script = "new" /\ now.domain = start.domain
             [] command.kind = "manual_upload" -> now.script = "new" /\ now.bound = start.bound /\ now.domain = start.domain
             [] command.kind = "repair_worker" -> /\ now.script = "new" /\ now.bound = start.bound
                                                  /\ now.domain = start.domain /\ now.flag = start.flag
             [] command.kind \in {"remove_worker", "delete_worker"} -> now = Gone(start)
             [] command.kind = "cleanup_kv" -> now.script = "absent" /\ (command.namespace \in now.kv => now = start)
             [] command.kind = "delete_kv" -> command.namespace \notin now.kv /\ now.script = start.script
             [] command.kind = "configure_domain" -> IF command.hostname THEN now.domain ELSE now.flag
             [] command.kind = "write_nodes" -> now.nodes = "new" /\ now.script = start.script
VerifiedIsDone == pc = Verified => Meaning
(* A step that failed has left the account as it was, but for a namespace   *)
(* that was made.                                                           *)
FailedIsUndone == pc = Failed => start = [now EXCEPT !.kv = start.kv, !.titled = start.titled] /\ start.kv \subseteq now.kv
(* What a step reports is so, whatever requests were refused, unanswered or *)
(* carried out late (business-executor.ts, repair-executor.ts).             *)
ResultIsTrue == VerifiedIsDone /\ FailedIsUndone
=============================================================================
