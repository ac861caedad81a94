-------------------------- MODULE DeploymentLedger --------------------------
(* deployment-ledger.ts: which source the workers of one template run, and  *)
(* which of them must be deployed again.  A deployment is registered with   *)
(* its task, its facts arrive per target, and it is settled in the          *)
(* transaction that ends its last target, possibly long after newer         *)
(* deployments, removals and edits of the upstream.  Every target is the    *)
(* worker of an account of its own: an account executes one task at a time, *)
(* in the order of submission.                                              *)
EXTENDS Naturals, FiniteSets

CONSTANTS Tasks, Targets, Installed, Removable, Sources,  \* a source is [sha, identity]: a commit and where it comes from
          NoIdentity,               \* the identity of the template's own repository, ''
          None

VARIABLES run,       \* deployment_runs, None before the registration
          fact,      \* what is reported of a target of a task
          closed,    \* targets of a task whose receipt is terminal
          version,   \* deployment_target_versions: source and sequence number
          registry,  \* registered workers
          deploy,    \* the record deploy:<template>
          runs       \* last sequence number
VARIABLE uploaded    \* source of the last verified upload, in the order of time

vars == <<run, fact, closed, version, registry, deploy, runs, uploaded>>

Final == {"verified", "half", "failed", "skipped"}
NoSource == [sha |-> None, identity |-> NoIdentity]
NoDeploy == [sha |-> None, identity |-> NoIdentity, pending |-> {}, pendingSha |-> None, pendingIdentity |-> None]
Registered(t) == run[t] # None
Running(t) == Registered(t) /\ ~run[t].finished

Init == /\ run = [t \in Tasks |-> None] /\ runs = 0
        /\ fact = [t \in Tasks |-> [k \in Targets |-> "none"]]
        /\ closed = [t \in Tasks |-> {}]
        /\ version = [k \in Targets |-> [source |-> NoSource, seq |-> 0]]
        /\ uploaded = [k \in Targets |-> NoSource]
        /\ registry = Installed /\ deploy = NoDeploy

(* registerInTransaction: a full deployment names every registered target,  *)
(* a partial one may create the workers it names.                           *)
Register(t, scope, source, targets) ==
    /\ ~Registered(t) /\ targets # {} /\ (scope = "full" => targets = registry)
    /\ run' = [run EXCEPT ![t] = [seq |-> runs + 1, scope |-> scope, source |-> source, targets |-> targets,
                                  creates |-> targets \ registry, changed |-> FALSE, finished |-> FALSE]]
    /\ runs' = runs + 1
    /\ UNCHANGED <<fact, closed, version, registry, deploy, uploaded>>

(* An account comes to a task when every earlier one is over there.         *)
Turn(t, k) == /\ Running(t) /\ k \in run[t].targets \ closed[t]
              /\ \A u \in Tasks : Registered(u) /\ run[u].seq < run[t].seq /\ k \in run[u].targets => k \in closed[u]
(* A verified upload, recordScriptInTransaction and the merged registration *)
(* of a created worker; half: a step after the upload did not succeed.      *)
Script(t, k, f) ==
    /\ Turn(t, k) /\ fact[t][k] = "none" /\ k \in registry \union run[t].creates
    /\ fact' = [fact EXCEPT ![t][k] = f]
    /\ version' = IF run[t].seq >= version[k].seq
                  THEN [version EXCEPT ![k] = [source |-> run[t].source, seq |-> run[t].seq]] ELSE version
    /\ uploaded' = [uploaded EXCEPT ![k] = run[t].source]
    /\ registry' = registry \union ({k} \intersect run[t].creates)
    /\ UNCHANGED <<run, closed, deploy, runs>>
(* Nothing was uploaded.  A target in review stays at "none": it can be     *)
(* neither closed nor overtaken until its fact is settled.                  *)
Report(t, k, f) ==
    /\ Turn(t, k) /\ fact[t][k] = "none" /\ fact' = [fact EXCEPT ![t][k] = f]
    /\ UNCHANGED <<run, closed, version, registry, deploy, runs, uploaded>>

(* What the record asks the targets to run, as completeInTransaction reads  *)
(* it: the pending source if there is one, the current one otherwise.       *)
Desired == IF deploy.pendingSha # None
           THEN [sha |-> deploy.pendingSha, identity |-> IF deploy.pendingIdentity = None THEN NoIdentity ELSE deploy.pendingIdentity]
           ELSE [sha |-> deploy.sha, identity |-> deploy.identity]
Success(t) == {k \in run[t].targets : fact[t][k] = "verified"}
Cancelled(t) == \A k \in run[t].targets : fact[t][k] = "skipped"
\* Faulty: only full deployments that are over supersede.
SupersededWhenOver(t) == \E u \in Tasks : Registered(u) /\ run[u].finished /\ run[u].scope = "full" /\ run[u].seq > run[t].seq
Superseded(t) == \E u \in Tasks : Registered(u) /\ run[u].scope = "full" /\ run[u].seq > run[t].seq
Advances(t) == /\ run[t].scope = "full" /\ ~Superseded(t) /\ ~run[t].changed
               /\ Success(t) = run[t].targets /\ run[t].targets = registry
               /\ \A k \in registry : version[k].source = run[t].source
Settled(t) ==
    LET s == run[t].source IN
    IF Advances(t) THEN [sha |-> s.sha, identity |-> s.identity, pending |-> {}, pendingSha |-> None, pendingIdentity |-> None]
    ELSE IF Cancelled(t) \/ Superseded(t) \/ run[t].changed THEN deploy
    ELSE IF run[t].scope = "full"
    THEN [deploy EXCEPT !.pending = {k \in registry : k \in run[t].targets \ Success(t) \/ version[k].source # s},
                        !.pendingSha = s.sha, !.pendingIdentity = s.identity]
    ELSE [deploy EXCEPT !.pending = registry \intersect
                            ((@ \union (run[t].targets \ Success(t))) \ (IF s = Desired THEN Success(t) ELSE {})),
                        !.pendingSha = Desired.sha]
(* The terminal receipt of a target; the last one settles the deployment.   *)
Close(t, k) ==
    /\ Turn(t, k) /\ fact[t][k] \in Final
    /\ closed' = [closed EXCEPT ![t] = @ \union {k}]
    /\ IF closed'[t] = run[t].targets
       THEN deploy' = Settled(t) /\ run' = [run EXCEPT ![t].finished = TRUE, ![t].changed = FALSE]
       ELSE UNCHANGED <<deploy, run>>
    /\ UNCHANGED <<fact, version, registry, runs, uploaded>>

\* Faulty: the removal leaves the recorded version of the worker.
RemoveUnrecorded(k) ==
    /\ k \in registry
    /\ \A t \in Tasks : Registered(t) /\ k \in run[t].targets => k \in closed[t] \/ fact[t][k] = "none"
    /\ registry' = registry \ {k} /\ uploaded' = [uploaded EXCEPT ![k] = NoSource]
    /\ deploy' \in IF registry' = {} THEN {deploy, NoDeploy} ELSE {deploy}
    /\ UNCHANGED <<run, fact, closed, version, runs>>
(* A verified removal; the last worker of the template takes the record     *)
(* with it unless the record changed since the removal was admitted.        *)
Remove(k) ==
    /\ k \in registry
    /\ \A t \in Tasks : Registered(t) /\ k \in run[t].targets => k \in closed[t] \/ fact[t][k] = "none"
    /\ registry' = registry \ {k}
    /\ version' = [version EXCEPT ![k].source = NoSource] /\ uploaded' = [uploaded EXCEPT ![k] = NoSource]
    /\ deploy' \in IF registry' = {} THEN {deploy, NoDeploy} ELSE {deploy}
    /\ UNCHANGED <<run, fact, closed, runs>>
(* The upstream selection becomes another one than running deployments were *)
(* planned for.                                                             *)
EditUpstream == /\ \E t \in Tasks : Running(t) /\ ~run[t].changed
                /\ run' = [t \in Tasks |-> IF Running(t) THEN [run[t] EXCEPT !.changed = TRUE] ELSE run[t]]
                /\ UNCHANGED <<fact, closed, version, registry, deploy, runs, uploaded>>

Next == \/ EditUpstream
        \/ \E k \in Removable : Remove(k)
        \/ \E t \in Tasks, scope \in {"full", "partial"}, s \in Sources, ks \in SUBSET Targets : Register(t, scope, s, ks)
        \/ \E t \in Tasks, k \in Targets :
              \/ Close(t, k)
              \/ \E f \in {"verified", "half"} : Script(t, k, f)
              \/ \E f \in {"failed", "skipped"} : Report(t, k, f)
Spec == Init /\ [][Next]_vars

-----------------------------------------------------------------------------
(* The type invariant. *)
TypeOK ==
    /\ \A t \in Tasks : Registered(t) => run[t].seq \in 1..runs /\ closed[t] \subseteq run[t].targets
    /\ fact \in [Tasks -> [Targets -> Final \union {"none"}]]
    /\ registry \subseteq Targets /\ deploy.pending \subseteq Targets
(* The versions of the ledger are the last verified uploads, although the   *)
(* facts of several tasks and removals arrive interleaved.                  *)
VersionsAreNewest == TypeOK /\ \A k \in Targets : version[k].source = uploaded[k]

(* A deployment changes what the record calls deployed only if every        *)
(* registered worker runs that source now and no newer full deployment or   *)
(* upstream was asked for in the meantime.                                  *)
AdvanceIsTruthful ==
    [][\A t \in Tasks : Running(t) /\ run'[t].finished /\ <<deploy'.sha, deploy'.identity>> # <<deploy.sha, deploy.identity>> =>
          /\ \A k \in registry' : uploaded'[k] = [sha |-> deploy'.sha, identity |-> deploy'.identity]
          /\ \A u \in Tasks : Registered(u) /\ run[u].scope = "full" => run[u].seq <= run[t].seq
          /\ ~run[t].changed]_vars

(* A deployment of the source the automation retries (automation-planner.ts *)
(* :81) takes the targets it succeeded on out of the pending set.           *)
RetrySource == [sha |-> deploy.pendingSha, identity |-> IF deploy.pendingIdentity = None THEN deploy.identity ELSE deploy.pendingIdentity]
RetryClearsPending ==
    [][\A t \in Tasks : Running(t) /\ run'[t].finished /\ ~Superseded(t) /\ ~run[t].changed /\ run[t].source = RetrySource =>
          Success(t) \intersect deploy'.pending = {}]_vars
=============================================================================
