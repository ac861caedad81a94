---------------------------- MODULE LegacyDeploy ----------------------------
(* Deployments without the authority (auto-update.ts, cron.ts, the routes   *)
(* deploy.ts and fix1101.ts, the clean-up of zones.ts), for one template:   *)
(* every setting is a key of an eventually consistent store, and what a     *)
(* handler did not finish is found only through the ledger                  *)
(* DEPLOY_CONFIG_<type>.  One handler runs at a time (account-store.ts says *)
(* that overlapping writers lose updates); it may be cut off at any of its  *)
(* awaits.                                                                  *)
EXTENDS Naturals, FiniteSets, FiniteSetsExt

CONSTANTS Targets,     \* deployTargetKey: the workers that are or may be managed
          AccountOf,   \* account of a target
          Installed,   \* workers of the account list in the beginning
          MaxSha,      \* bound: commits upstream
          MaxUuid,     \* bound: rotations
          StaleReads   \* may a read of the store miss the last write

VARIABLES table,     \* workers_<type> of the account list
          code,      \* what a worker runs: commit (0: no script, Chosen: its owner's choice) and UUID
          ledger,    \* DEPLOY_CONFIG_<type>; a commit that is null is 0
          override,  \* VARS_<type>_ACC_<account>: the UUID of the account; 0 stands for the one in VARS_<type>
          head,      \* last commit upstream
          minted,    \* rotations so far
          job,       \* the handler that runs
          owed,      \* history: the managed targets whose last recorded deployment failed
          missed     \* history: the targets left behind by an upload that was dropped, but counted as a success

vars == <<table, code, ledger, override, head, minted, job, owed, missed>>
outside == <<head, minted>>

Holders == {AccountOf[t] : t \in Targets}
Of(as) == {t \in Targets : AccountOf[t] \in as}
Owners(ts) == {AccountOf[t] : t \in ts}
Nobody == [a \in Holders |-> 0]
NoJob == [kind |-> "none", fuse |-> {}, scope |-> "full", sha |-> 0, latest |-> TRUE, ok |-> {}, bad |-> {}, was |-> Nobody]
Chosen == MaxSha + 1
Empty == [latest |-> TRUE, sha |-> 0, pending |-> {}, pendingSha |-> 0]

Init == /\ table = Installed /\ head = 1 /\ minted = 0
        /\ code = [t \in Targets |-> [sha |-> IF t \in Installed THEN 1 ELSE 0, uuid |-> 0]]
        /\ ledger \in {Empty, [Empty EXCEPT !.sha = 1]}
        /\ override = Nobody /\ job = NoJob /\ owed = {} /\ missed = {}

UpstreamMoves == head < MaxSha /\ head' = head + 1 /\ UNCHANGED <<table, code, ledger, override, minted, job, owed, missed>>

-----------------------------------------------------------------------------
(* What comes of a worker, and what is logged of it: a success; a failure   *)
(* after which it runs what it ran (refused, or dropped and found so by the *)
(* read-back); a success although the upload was dropped, because nothing   *)
(* could be read back ("unverified"); a failure although the new script     *)
(* runs (the answer was lost); a failure that leaves no script.  Only the   *)
(* repair deletes before it uploads.  Nothing is uploaded where no bindings *)
(* can be read, but a new worker.                                           *)
Fates(kind, t) ==
    {"kept"} \union (IF code[t].sha # 0 \/ kind = "batch" THEN {"deployed", "unread", "lost"} ELSE {})
             \union (IF kind = "repair" THEN {"deleted"} ELSE {})
Ran(d, uses, fate) ==
    [t \in Targets |->
        IF t \notin DOMAIN fate \/ fate[t] = "kept" \/ (fate[t] = "unread" /\ d.kind # "repair") THEN code[t]
        ELSE IF fate[t] \in {"deleted", "unread"} THEN [code[t] EXCEPT !.sha = 0]
        ELSE [sha |-> IF d.kind = "manual" /\ ~d.latest THEN Chosen ELSE d.sha, uuid |-> uses[AccountOf[t]]]]
\* The targets of these fates.
With(fate, fates) == {t \in DOMAIN fate : fate[t] \in fates}
(* coreDeployLogic up to its finalizeDeploy (deploySingleWorker for every   *)
(* target), the uploads of handleBatchDeploy, the loop of handleFix1101:    *)
(* nobody looks at a worker in between.  An invocation that ends after some *)
(* kept the others, and is then cut off.                                    *)
Uploads(d, goals, uses) ==
    \E fate \in [goals -> {"kept", "deployed", "unread", "lost", "deleted"}] :
        /\ \A t \in goals : fate[t] \in Fates(d.kind, t)
        /\ code' = Ran(d, uses, fate)
        /\ missed' = (missed \ With(fate, {"deployed", "lost", "deleted"}))
                        \union {t \in With(fate, {"unread"}) : code'[t].sha < d.sha}
        /\ job' = [d EXCEPT !.ok = With(fate, {"deployed", "unread"}), !.bad = With(fate, {"kept", "lost", "deleted"})]

(* POST /api/deploy: all accounts or some, the newest commit or a fixed     *)
(* one.  The overrides of these accounts are cleared.                       *)
Manual(as, sha) ==
    LET goals == IF as = {} THEN table ELSE table \intersect Of(as)
        d == [NoJob EXCEPT !.kind = "manual", !.scope = IF as = {} THEN "full" ELSE "partial",
                           !.sha = IF sha = 0 THEN head ELSE sha, !.latest = sha = 0] IN
    /\ job.kind = "none" /\ sha <= head /\ goals # {}
    /\ override' = [a \in Holders |-> IF a \in Owners(goals) THEN 0 ELSE override[a]]
    /\ Uploads(d, goals, Nobody) /\ UNCHANGED <<table, ledger, outside, owed>>
(* POST /api/batch_deploy: a worker in some accounts, with the variables of *)
(* the request.                                                             *)
Batch(goals) ==
    /\ job.kind = "none"
    /\ Uploads([NoJob EXCEPT !.kind = "batch", !.scope = "partial", !.sha = head], goals, Nobody)
    /\ UNCHANGED <<table, ledger, override, outside, owed>>
(* POST /api/fix_1101 for the whole list, with the variables of the         *)
(* template.  Nothing is deleted that cannot be rebuilt; a deleted worker   *)
(* is rebuilt, or not.                                                      *)
Repair == /\ job.kind = "none" /\ table # {}
          /\ Uploads([NoJob EXCEPT !.kind = "repair", !.sha = head], table, Nobody)
          /\ UNCHANGED <<table, ledger, override, outside, owed>>

(* The scheduled run: the fuse for every account over its limit, then the   *)
(* update.                                                                  *)
Cron(over) == /\ job.kind = "none" /\ minted + Cardinality(over) <= MaxUuid
              /\ job' = [NoJob EXCEPT !.kind = "cron", !.fuse = over, !.was = override]
              /\ UNCHANGED <<table, code, ledger, override, outside, owed, missed>>
(* rotateUUIDAndDeploy for one account: a new UUID is stored, then the      *)
(* workers of the account are deployed with it, from memory.  Without the   *)
(* code nothing is deployed and nothing recorded; a fixed commit that was   *)
(* never recorded is the newest one.                                        *)
Rotate(a) ==
    LET on == [job EXCEPT !.fuse = @ \ {a}]
        newest == ledger.latest \/ ledger.sha = 0
        d == [on EXCEPT !.kind = "rotation", !.scope = "partial", !.latest = newest,
                        !.sha = IF newest THEN head ELSE ledger.sha] IN
    /\ job.kind = "cron" /\ a \in job.fuse /\ minted < MaxUuid
    /\ minted' = minted + 1 /\ override' = [override EXCEPT ![a] = minted + 1]
    /\ \/ job' \in {on, NoJob} /\ code' = code /\ missed' = missed
       \/ Uploads(d, table \intersect Of({a}), override')
    /\ UNCHANGED <<table, ledger, head, owed>>
\* Faulty: failed targets wait until upstream moves.
PlanOfTheHead == IF ledger.sha # head THEN Targets ELSE {}
(* resolveUpdatePlan: the workers the next update would deploy.             *)
Plan == IF ledger.sha # head THEN Targets
        ELSE IF ledger.pendingSha = head THEN ledger.pending ELSE {}
\* Faulty: the update deploys the variables of the template everywhere.
SeenNothing == [a \in Holders |-> {0}]
(* resolveAccountVariables of the update: a read of an override may return  *)
(* what was there when the scheduled run began.                             *)
Seen == [a \in Holders |-> {override[a]} \union (IF StaleReads THEN {job.was[a]} ELSE {})]
(* checkAndDeployUpdate: nothing while a commit is fixed.                   *)
Update ==
    LET goals == Plan \intersect table
        d == [NoJob EXCEPT !.kind = "update", !.scope = IF ledger.sha # head THEN "full" ELSE "partial", !.sha = head] IN
    /\ job.kind = "cron" /\ job.fuse = {}
    /\ \/ (~ledger.latest \/ goals = {}) /\ job' = NoJob /\ code' = code /\ missed' = missed
       \/ /\ ledger.latest /\ goals # {}
          /\ \E uses \in [Holders -> 0..minted] : (\A a \in Holders : uses[a] \in Seen[a]) /\ Uploads(d, goals, uses)
    /\ UNCHANGED <<table, ledger, override, outside, owed>>

-----------------------------------------------------------------------------
(* handleBatchDeploy stores the workers it created before the ledger.       *)
Register == /\ job.kind = "batch" /\ ~(job.ok \subseteq table)
            /\ table' = table \union job.ok
            /\ UNCHANGED <<code, ledger, override, job, outside, owed, missed>>
(* finalizeDeploy, and the end of handleFix1101: the ledger advances only   *)
(* for all targets and without a failure; a full deployment with failures   *)
(* starts the pending set anew when its commit changed, a partial one only  *)
(* adds and removes its own (mergePendingTargets, mergeSubsetPending).      *)
Advanced == [latest |-> job.latest, sha |-> job.sha, pending |-> {}, pendingSha |-> 0]
Merged == (ledger.pending \ job.ok) \union job.bad
Partial == [ledger EXCEPT !.pendingSha = IF @ # 0 THEN @ ELSE ledger.sha, !.pending = Merged]
\* Faulty: any deployment without a failure advances the ledger.
FinalizedOnSuccess == IF job.bad = {} THEN Advanced ELSE Partial
Finalized ==
    IF job.scope = "full" /\ job.bad = {} THEN Advanced
    ELSE IF job.scope = "full" /\ job.kind # "repair"
    THEN [ledger EXCEPT !.latest = job.latest, !.pendingSha = job.sha,
                        !.pending = IF ledger.pendingSha # job.sha THEN job.bad ELSE Merged]
    ELSE Partial
(* The write of the ledger may fail.  A rotation goes on with the next one. *)
Finish == /\ job.ok \union job.bad # {} /\ (job.kind = "batch" => job.ok \subseteq table)
          /\ \/ ledger' = ledger /\ owed' = owed
             \/ ledger' = Finalized /\ owed' = ((owed \ job.ok) \union job.bad) \intersect table
          /\ job' = IF job.kind = "rotation" THEN [NoJob EXCEPT !.kind = "cron", !.fuse = job.fuse, !.was = job.was] ELSE NoJob
          /\ UNCHANGED <<table, code, override, outside, missed>>

(* handleDeleteWorker: the worker, then the account list, then the settings *)
(* of a template without workers and the override of an account without.    *)
Delete(t) ==
    /\ job.kind = "none" /\ t \in table
    /\ code' = [code EXCEPT ![t] = [sha |-> 0, uuid |-> 0]]
    /\ \E deleted \in {NoJob, [NoJob EXCEPT !.kind = "delete", !.fuse = {AccountOf[t]}]} : job' = deleted
    /\ table' = (IF job'.kind = "none" THEN table ELSE table \ {t}) /\ owed' = owed \intersect table'
    /\ missed' = missed \ {t}
    /\ UNCHANGED <<ledger, override, outside>>
Reset == /\ job.kind = "delete" /\ job' = NoJob
         /\ ledger' = IF table = {} THEN Empty ELSE ledger
         /\ override' = [a \in Holders |-> IF a \in job.fuse \ Owners(table) THEN 0 ELSE override[a]]
         /\ UNCHANGED <<table, code, outside, owed, missed>>
(* The isolate is evicted, or the platform ends the invocation.             *)
CutOff == job.kind # "none" /\ job' = NoJob /\ UNCHANGED <<table, code, ledger, override, outside, owed, missed>>

Next == \/ UpstreamMoves \/ Repair \/ Update \/ Register \/ Finish \/ Reset \/ CutOff
        \/ \E as \in SUBSET Holders, sha \in 0..MaxSha : Manual(as, sha)
        \/ \E over \in SUBSET Owners(table) : Cron(over)
        \/ \E ts \in SUBSET Targets : ts # {} /\ Batch(ts)
        \/ \E a \in Holders : Rotate(a)
        \/ \E t \in Targets : Delete(t)
Spec == Init /\ [][Next]_vars

-----------------------------------------------------------------------------
(* The type invariant. *)
TypeOK == /\ table \subseteq Targets /\ ledger.pending \subseteq Targets
          /\ ledger.sha \in 0..head /\ ledger.pendingSha \in 0..head
          /\ \A t \in Targets : code[t].sha \in 0..head \union {Chosen} /\ code[t].uuid \in 0..minted
          /\ job.ok \intersect job.bad = {}

(* No worker is forgotten (the outage finalizeDeploy's comment tells of):   *)
(* whatever mixture of full, partial, failed and interrupted deployments    *)
(* came before, the next update of a template that follows upstream covers  *)
(* every managed worker that runs an older commit its owner did not choose, *)
(* and every one whose last recorded deployment failed.  The exception is   *)
(* the one verifyWorkerScript accepts: a dropped upload that nothing could  *)
(* be read back of is a success, and only the next commit brings that       *)
(* worker another one.                                                      *)
NoWorkerIsForgotten ==
    TypeOK /\ (ledger.latest => \A t \in table :
                 \/ t \in owed
                 \/ 0 < code[t].sha /\ code[t].sha < head /\ (t \in missed => ledger.sha < head)
                 => t \in Plan)

(* What the fuse rotated stays rotated: a scheduled update puts a worker    *)
(* that runs the UUID of its account on no other one, but for the store's   *)
(* delay (auto-update.ts:508): one that follows a rotation in the same run  *)
(* may still read, and put back, what the account had before that run, and  *)
(* nothing else; what an earlier run rotated it never undoes.               *)
RotationSticks ==
    [][job.kind = "cron" =>
          \A t \in Targets :
              LET a == AccountOf[t]
                  own == override[a] IN
              own # 0 /\ override'[a] = own /\ code[t].uuid = own /\ code'[t].uuid # own
                => StaleReads /\ job.was[a] # own /\ code'[t].uuid = job.was[a]]_vars
=============================================================================
