------------------------- MODULE GlobalPartsProofs -------------------------
(***************************************************************************)
(* Proofs about the ledger of deployed versions and about the admission of *)
(* intents, for every number of tasks, targets, sources and keys, as parts *)
(* of the global object.  LedgerInv and AdmissionInv are their inductive   *)
(* invariants.                                                             *)
(***************************************************************************)
EXTENDS GlobalParts, TLAPS

-----------------------------------------------------------------------------
(* The ledger.                                                             *)

Versions == Sources \union {Ledger!NoSource}
Shas == {s.sha : s \in Sources} \union {None}
Identities == {s.identity : s \in Sources} \union {NoIdentity}
DeployRecords == [sha : Shas, identity : Identities, pending : SUBSET Targets,
                  pendingSha : Shas, pendingIdentity : Identities \union {None}]

LedgerTypes ==
  /\ run \in [Tasks -> {None} \union DeploymentRuns] /\ runs \in Nat
  /\ fact \in [Tasks -> [Targets -> Ledger!Final \union {"none"}]]
  /\ closed \in [Tasks -> SUBSET Targets]
  /\ version \in [Targets -> [source : Versions, seq : Nat]]
  /\ uploaded \in [Targets -> Versions]
  /\ registry \in SUBSET Targets /\ deploy \in DeployRecords

(* Deployments are numbered as they come, and only they are closed.        *)
RunsAreNumbered ==
  \A t \in Tasks : IF Ledger!Registered(t)
                   THEN run[t].seq \in 1..runs /\ closed[t] \subseteq run[t].targets
                   ELSE closed[t] = {}

(* The recorded version of a target is of a deployment that every earlier  *)
(* one of the target had given way to.                                     *)
VersionsAreOld ==
  \A k \in Targets :
    /\ version[k].seq <= runs
    /\ \A t \in Tasks : Ledger!Registered(t) /\ k \in run[t].targets /\ run[t].seq < version[k].seq =>
         k \in closed[t]

LedgerInv ==
  /\ LedgerTypes /\ RunsAreNumbered /\ VersionsAreOld
  /\ \A k \in Targets : version[k].source = uploaded[k]

LEMMA NoSourceType == Ledger!NoSource = [sha |-> None, identity |-> NoIdentity] /\ Ledger!NoDeploy \in DeployRecords
BY DEF Ledger!NoSource, Ledger!NoDeploy, DeployRecords, Shas, Identities

LEMMA InitLedger == Ledger!Init => LedgerInv
<1> SUFFICES ASSUME Ledger!Init PROVE LedgerInv
  OBVIOUS
<1>1. LedgerTypes
  BY NoSourceType, TargetsAssumption DEF Ledger!Init, LedgerTypes, Versions, Ledger!Final
<1>2. RunsAreNumbered /\ VersionsAreOld /\ \A k \in Targets : version[k].source = uploaded[k]
  BY DEF Ledger!Init, RunsAreNumbered, VersionsAreOld, Ledger!Registered
<1> QED
  BY <1>1, <1>2 DEF LedgerInv

LEMMA RegisterInv ==
  ASSUME LedgerInv, NEW t \in Tasks, NEW scope \in {"full", "partial"}, NEW s \in Sources,
         NEW ks \in SUBSET Targets, Ledger!Register(t, scope, s, ks)
  PROVE  LedgerInv'
<1> DEFINE r == [seq |-> runs + 1, scope |-> scope, source |-> s, targets |-> ks,
                 creates |-> ks \ registry, changed |-> FALSE, finished |-> FALSE]
<1>1. /\ ~Ledger!Registered(t) /\ run' = [run EXCEPT ![t] = r] /\ runs' = runs + 1
      /\ UNCHANGED <<fact, closed, version, registry, deploy, uploaded>>
  BY DEF Ledger!Register
<1>2. r \in DeploymentRuns /\ r.seq = runs + 1 /\ r.targets = ks
  BY DEF LedgerInv, LedgerTypes, DeploymentRuns
<1> HIDE DEF r
<1>3. run'[t] = r /\ \A u \in Tasks : u # t => run'[u] = run[u]
  BY <1>1 DEF LedgerInv, LedgerTypes
<1>4. LedgerTypes'
  BY <1>1, <1>2 DEF LedgerInv, LedgerTypes
<1>5. closed[t] = {} /\ runs \in Nat
  BY <1>1 DEF LedgerInv, LedgerTypes, RunsAreNumbered
<1>6. RunsAreNumbered'
  BY <1>1, <1>2, <1>3, <1>5 DEF LedgerInv, RunsAreNumbered, Ledger!Registered
<1>7. VersionsAreOld'
  <2> SUFFICES ASSUME NEW k \in Targets
               PROVE  /\ version[k].seq <= runs + 1
                      /\ \A u \in Tasks : run'[u] # None /\ k \in run'[u].targets /\ run'[u].seq < version[k].seq
                           => k \in closed[u]
    BY <1>1 DEF VersionsAreOld, Ledger!Registered
  <2>1. version[k].seq <= runs /\ version[k].seq \in Nat
    BY DEF LedgerInv, LedgerTypes, VersionsAreOld
  <2> QED
    BY <1>2, <1>3, <1>5, <2>1 DEF LedgerInv, VersionsAreOld, Ledger!Registered
<1> QED
  BY <1>1, <1>4, <1>6, <1>7 DEF LedgerInv

(* The order of the tasks in an account orders the versions of its target. *)
LEMMA TurnIsNewest ==
  ASSUME LedgerInv, NEW t \in Tasks, NEW k \in Targets, Ledger!Turn(t, k)
  PROVE  /\ Ledger!Registered(t) /\ k \in run[t].targets /\ k \notin closed[t]
         /\ run[t] \in DeploymentRuns /\ run[t].seq >= version[k].seq
<1>1. Ledger!Registered(t) /\ k \in run[t].targets /\ k \notin closed[t]
  BY DEF Ledger!Turn, Ledger!Running
<1>2. run[t] \in DeploymentRuns /\ run[t].seq \in Nat /\ version[k].seq \in Nat
  BY <1>1 DEF LedgerInv, LedgerTypes, Ledger!Registered, DeploymentRuns
<1>3. ~(run[t].seq < version[k].seq)
  BY <1>1 DEF LedgerInv, VersionsAreOld
<1> QED
  BY <1>1, <1>2, <1>3

LEMMA ScriptInv ==
  ASSUME LedgerInv, NEW t \in Tasks, NEW k \in Targets, NEW f \in {"verified", "half"},
         Ledger!Script(t, k, f)
  PROVE  LedgerInv'
<1>1. /\ Ledger!Registered(t) /\ k \in run[t].targets
      /\ run[t] \in DeploymentRuns /\ run[t].seq >= version[k].seq
  BY TurnIsNewest DEF Ledger!Script
<1>2. run[t].source \in Sources /\ run[t].seq \in Nat /\ run[t].seq \in 1..runs
      /\ run[t].creates \subseteq Targets
  BY <1>1 DEF DeploymentRuns, LedgerInv, RunsAreNumbered
<1>3. /\ version' = [version EXCEPT ![k] = [source |-> run[t].source, seq |-> run[t].seq]]
      /\ uploaded' = [uploaded EXCEPT ![k] = run[t].source]
      /\ fact' = [fact EXCEPT ![t][k] = f]
      /\ registry' = registry \union ({k} \intersect run[t].creates)
      /\ UNCHANGED <<run, closed, deploy, runs>>
  BY <1>1 DEF Ledger!Script
<1>4. /\ version'[k].source = run[t].source /\ version'[k].seq = run[t].seq
      /\ uploaded'[k] = run[t].source
      /\ \A l \in Targets : l # k => version'[l] = version[l] /\ uploaded'[l] = uploaded[l]
  BY <1>3 DEF LedgerInv, LedgerTypes
<1>5. LedgerTypes'
  <2>1. [source |-> run[t].source, seq |-> run[t].seq] \in [source : Versions, seq : Nat]
    BY <1>2 DEF Versions
  <2>2. version' \in [Targets -> [source : Versions, seq : Nat]] /\ uploaded' \in [Targets -> Versions]
    BY <1>2, <1>3, <2>1 DEF LedgerInv, LedgerTypes, Versions
  <2>3. fact' \in [Tasks -> [Targets -> Ledger!Final \union {"none"}]]
    BY <1>3 DEF LedgerInv, LedgerTypes, Ledger!Final
  <2> QED
    BY <1>2, <1>3, <2>2, <2>3 DEF LedgerInv, LedgerTypes
<1>6. RunsAreNumbered'
  BY <1>3 DEF LedgerInv, RunsAreNumbered, Ledger!Registered
<1>7. VersionsAreOld'
  <2> SUFFICES ASSUME NEW l \in Targets
               PROVE  /\ version'[l].seq <= runs
                      /\ \A u \in Tasks : Ledger!Registered(u) /\ l \in run[u].targets /\ run[u].seq < version'[l].seq
                           => l \in closed[u]
    BY <1>3 DEF VersionsAreOld, Ledger!Registered
  <2>1. CASE l # k
    BY <1>4, <2>1 DEF LedgerInv, VersionsAreOld
  <2>2. CASE l = k
    <3>1. \A u \in Tasks : Ledger!Registered(u) /\ run[u].seq < run[t].seq /\ k \in run[u].targets => k \in closed[u]
      BY DEF Ledger!Script, Ledger!Turn
    <3> QED
      BY <1>2, <1>4, <2>2, <3>1 DEF LedgerInv, LedgerTypes
  <2> QED
    BY <2>1, <2>2
<1>8. \A l \in Targets : version'[l].source = uploaded'[l]
  BY <1>4 DEF LedgerInv
<1> QED
  BY <1>5, <1>6, <1>7, <1>8 DEF LedgerInv

LEMMA ReportInv ==
  ASSUME LedgerInv, NEW t \in Tasks, NEW k \in Targets, NEW f \in {"failed", "skipped"},
         Ledger!Report(t, k, f)
  PROVE  LedgerInv'
<1>1. fact' = [fact EXCEPT ![t][k] = f] /\ UNCHANGED <<run, closed, version, registry, deploy, runs, uploaded>>
  BY DEF Ledger!Report
<1>2. LedgerTypes'
  BY <1>1 DEF LedgerInv, LedgerTypes, Ledger!Final
<1> QED
  BY <1>1, <1>2 DEF LedgerInv, RunsAreNumbered, VersionsAreOld, Ledger!Registered

LEMMA SettledType ==
  ASSUME LedgerInv, NEW t \in Tasks, Ledger!Registered(t)
  PROVE  Ledger!Settled(t) \in DeployRecords
<1>1. run[t].source \in Sources /\ run[t].targets \subseteq Targets
  BY DEF LedgerInv, LedgerTypes, Ledger!Registered, DeploymentRuns
<1>2. run[t].source.sha \in Shas /\ run[t].source.identity \in Identities
  BY <1>1 DEF Shas, Identities
<1>3. deploy \in DeployRecords /\ registry \subseteq Targets
  BY DEF LedgerInv, LedgerTypes
<1>4. Ledger!Desired.sha \in Shas
  BY <1>3 DEF Ledger!Desired, DeployRecords
<1>5. None \in Shas
  BY DEF Shas
<1>6. CASE Ledger!Advances(t)
  BY <1>2, <1>5, <1>6 DEF Ledger!Settled, DeployRecords
<1>7. CASE ~Ledger!Advances(t) /\ (Ledger!Cancelled(t) \/ Ledger!Superseded(t) \/ run[t].changed)
  BY <1>3, <1>7 DEF Ledger!Settled
<1>8. CASE ~Ledger!Advances(t) /\ ~(Ledger!Cancelled(t) \/ Ledger!Superseded(t) \/ run[t].changed)
  <2>1. CASE run[t].scope = "full"
    <3> DEFINE p == {k \in registry : k \in run[t].targets \ Ledger!Success(t) \/ version[k].source # run[t].source}
    <3>1. Ledger!Settled(t) = [deploy EXCEPT !.pending = p, !.pendingSha = run[t].source.sha,
                                             !.pendingIdentity = run[t].source.identity]
      BY <1>8, <2>1 DEF Ledger!Settled
    <3>2. p \in SUBSET Targets
      BY <1>3
    <3> HIDE DEF p
    <3> QED
      BY <1>2, <1>3, <3>1, <3>2 DEF DeployRecords
  <2>2. CASE run[t].scope # "full"
    <3>1. PICK p \in SUBSET Targets :
            Ledger!Settled(t) = [deploy EXCEPT !.pending = p, !.pendingSha = Ledger!Desired.sha]
      <4> DEFINE p == registry \intersect
                        ((deploy.pending \union (run[t].targets \ Ledger!Success(t)))
                           \ (IF run[t].source = Ledger!Desired THEN Ledger!Success(t) ELSE {}))
      <4>1. p \in SUBSET Targets
        BY <1>3
      <4>2. Ledger!Settled(t) = [deploy EXCEPT !.pending = p, !.pendingSha = Ledger!Desired.sha]
        BY <1>8, <2>2 DEF Ledger!Settled
      <4> HIDE DEF p
      <4> QED
        BY <4>1, <4>2
    <3> QED
      BY <1>3, <1>4, <3>1 DEF DeployRecords
  <2> QED
    BY <2>1, <2>2
<1> QED
  BY <1>6, <1>7, <1>8

LEMMA CloseInv ==
  ASSUME LedgerInv, NEW t \in Tasks, NEW k \in Targets, Ledger!Close(t, k)
  PROVE  LedgerInv'
<1>1. Ledger!Registered(t) /\ k \in run[t].targets /\ run[t] \in DeploymentRuns
  BY TurnIsNewest DEF Ledger!Close
<1>2. /\ closed' = [closed EXCEPT ![t] = closed[t] \union {k}]
      /\ UNCHANGED <<fact, version, registry, runs, uploaded>>
      /\ \/ deploy' = Ledger!Settled(t) /\ run' = [run EXCEPT ![t].finished = TRUE, ![t].changed = FALSE]
         \/ UNCHANGED <<deploy, run>>
  BY DEF Ledger!Close
<1>3. /\ run' \in [Tasks -> {None} \union DeploymentRuns]
      /\ \A u \in Tasks : /\ run'[u] # None <=> run[u] # None
                          /\ run[u] # None => run'[u].seq = run[u].seq /\ run'[u].targets = run[u].targets
  <2>1. CASE run' = run
    BY <2>1 DEF LedgerInv, LedgerTypes
  <2>2. CASE run' = [run EXCEPT ![t].finished = TRUE, ![t].changed = FALSE]
    <3> DEFINE r == [run[t] EXCEPT !.finished = TRUE, !.changed = FALSE]
    <3>1. r \in DeploymentRuns /\ r.seq = run[t].seq /\ r.targets = run[t].targets
      BY <1>1 DEF DeploymentRuns
    <3>2. run' = [run EXCEPT ![t] = r]
      BY <2>2 DEF LedgerInv, LedgerTypes
    <3> HIDE DEF r
    <3>3. run'[t] = r /\ \A u \in Tasks : u # t => run'[u] = run[u]
      BY <3>2 DEF LedgerInv, LedgerTypes
    <3>4. run' \in [Tasks -> {None} \union DeploymentRuns]
      BY <3>1, <3>2 DEF LedgerInv, LedgerTypes
    <3> QED
      BY <1>1, <3>1, <3>3, <3>4, NoneIsNoRecord DEF Ledger!Registered
  <2> QED
    BY <1>2, <2>1, <2>2
<1>4. LedgerTypes'
  <2>1. closed' \in [Tasks -> SUBSET Targets] /\ deploy' \in DeployRecords
    BY <1>1, <1>2, SettledType DEF LedgerInv, LedgerTypes
  <2> QED
    BY <1>2, <1>3, <2>1 DEF LedgerInv, LedgerTypes
<1>5. \A u \in Tasks : closed[u] \subseteq closed'[u] /\ (u # t => closed'[u] = closed[u])
  BY <1>2 DEF LedgerInv, LedgerTypes
<1>6. closed'[t] = closed[t] \union {k}
  BY <1>2 DEF LedgerInv, LedgerTypes
<1>7. RunsAreNumbered'
  BY <1>1, <1>2, <1>3, <1>5, <1>6 DEF LedgerInv, RunsAreNumbered, Ledger!Registered
<1>8. VersionsAreOld'
  BY <1>2, <1>3, <1>5 DEF LedgerInv, VersionsAreOld, Ledger!Registered
<1> QED
  BY <1>2, <1>4, <1>7, <1>8 DEF LedgerInv

LEMMA RemoveInv ==
  ASSUME LedgerInv, NEW k \in Removable, Ledger!Remove(k)
  PROVE  LedgerInv'
<1>1. /\ k \in Targets /\ registry' = registry \ {k}
      /\ version' = [version EXCEPT ![k].source = Ledger!NoSource]
      /\ uploaded' = [uploaded EXCEPT ![k] = Ledger!NoSource]
      /\ deploy' \in {deploy, Ledger!NoDeploy} /\ UNCHANGED <<run, fact, closed, runs>>
  BY TargetsAssumption DEF Ledger!Remove
<1>2. /\ \A l \in Targets : version'[l].seq = version[l].seq /\ version'[l].source = uploaded'[l]
      /\ version' \in [Targets -> [source : Versions, seq : Nat]] /\ uploaded' \in [Targets -> Versions]
  <2>1. [version[k] EXCEPT !.source = Ledger!NoSource] \in [source : Versions, seq : Nat]
    BY <1>1 DEF LedgerInv, LedgerTypes, Versions
  <2>2. version' = [version EXCEPT ![k] = [version[k] EXCEPT !.source = Ledger!NoSource]]
    BY <1>1 DEF LedgerInv, LedgerTypes
  <2>3. /\ version'[k].seq = version[k].seq /\ version'[k].source = Ledger!NoSource /\ uploaded'[k] = Ledger!NoSource
        /\ \A l \in Targets : l # k => version'[l] = version[l] /\ uploaded'[l] = uploaded[l]
    BY <1>1, <2>2 DEF LedgerInv, LedgerTypes
  <2>4. Ledger!NoSource \in Versions
    BY DEF Versions
  <2> QED
    BY <1>1, <2>1, <2>2, <2>3, <2>4 DEF LedgerInv, LedgerTypes
<1>3. LedgerTypes'
  BY <1>1, <1>2, NoSourceType DEF LedgerInv, LedgerTypes
<1>4. RunsAreNumbered' /\ VersionsAreOld'
  BY <1>1, <1>2 DEF LedgerInv, RunsAreNumbered, VersionsAreOld, Ledger!Registered
<1> QED
  BY <1>2, <1>3, <1>4 DEF LedgerInv

LEMMA EditUpstreamInv ==
  ASSUME LedgerInv, Ledger!EditUpstream
  PROVE  LedgerInv'
<1>1. /\ run' = [t \in Tasks |-> IF Ledger!Running(t) THEN [run[t] EXCEPT !.changed = TRUE] ELSE run[t]]
      /\ UNCHANGED <<fact, closed, version, registry, deploy, runs, uploaded>>
  BY DEF Ledger!EditUpstream
<1>2. ASSUME NEW u \in Tasks
      PROVE  /\ run'[u] \in {None} \union DeploymentRuns
             /\ run'[u] # None <=> run[u] # None
             /\ run[u] # None => run'[u].seq = run[u].seq /\ run'[u].targets = run[u].targets
  <2>1. CASE Ledger!Running(u)
    <3>1. run[u] \in DeploymentRuns
      BY <2>1 DEF Ledger!Running, Ledger!Registered, LedgerInv, LedgerTypes
    <3>2. run'[u] = [run[u] EXCEPT !.changed = TRUE]
      BY <1>1, <2>1
    <3>3. run'[u] \in DeploymentRuns /\ run'[u].seq = run[u].seq /\ run'[u].targets = run[u].targets
      BY <3>1, <3>2 DEF DeploymentRuns
    <3> QED
      BY <3>1, <3>3, NoneIsNoRecord
  <2>2. CASE ~Ledger!Running(u)
    BY <1>1, <2>2 DEF LedgerInv, LedgerTypes
  <2> QED
    BY <2>1, <2>2
<1>3. run' \in [Tasks -> {None} \union DeploymentRuns]
  BY <1>1, <1>2
<1>4. LedgerTypes'
  BY <1>1, <1>3 DEF LedgerInv, LedgerTypes
<1>5. RunsAreNumbered' /\ VersionsAreOld'
  BY <1>1, <1>2 DEF LedgerInv, RunsAreNumbered, VersionsAreOld, Ledger!Registered
<1> QED
  BY <1>1, <1>4, <1>5 DEF LedgerInv

LEMMA LedgerStep ==
  ASSUME LedgerInv, [NextOutbox \/ NextLedger \/ NextAdmission]_vars
  PROVE  LedgerInv'
<1>1. ASSUME UNCHANGED ledgerVars PROVE LedgerInv'
  <2>1. UNCHANGED <<run, fact, closed, version, registry, deploy, runs, uploaded>>
    BY <1>1 DEF ledgerVars
  <2> QED
    BY <2>1 DEF LedgerInv, LedgerTypes, RunsAreNumbered, VersionsAreOld, Ledger!Registered
<1>2. ASSUME NextLedger PROVE LedgerInv'
  <2>1. Ledger!Next
    BY <1>2 DEF NextLedger
  <2>2. CASE Ledger!EditUpstream
    BY <2>2, EditUpstreamInv
  <2>3. ASSUME NEW k \in Removable, Ledger!Remove(k) PROVE LedgerInv'
    BY <2>3, RemoveInv
  <2>4. ASSUME NEW t \in Tasks, NEW scope \in {"full", "partial"}, NEW s \in Sources, NEW ks \in SUBSET Targets,
               Ledger!Register(t, scope, s, ks)
        PROVE  LedgerInv'
    BY <2>4, RegisterInv
  <2>5. ASSUME NEW t \in Tasks, NEW k \in Targets,
               \/ Ledger!Close(t, k)
               \/ \E f \in {"verified", "half"} : Ledger!Script(t, k, f)
               \/ \E f \in {"failed", "skipped"} : Ledger!Report(t, k, f)
        PROVE  LedgerInv'
    BY <2>5, CloseInv, ScriptInv, ReportInv
  <2> QED
    BY <2>1, <2>2, <2>3, <2>4, <2>5 DEF Ledger!Next
<1> QED
  BY <1>1, <1>2 DEF NextOutbox, NextAdmission, vars

THEOREM LedgerInvariant == PartsSpec => []LedgerInv
<1>1. PartsInit => LedgerInv
  BY InitLedger DEF PartsInit
<1> QED
  BY <1>1, LedgerStep, PTL DEF PartsSpec

(* The recorded version of every target is the one last uploaded, whatever *)
(* facts of overlapping deployments, removals and edits are interleaved    *)
(* (deployment-ledger.ts).                                                 *)
THEOREM VersionsStayNewest == PartsSpec => []VersionsAreNewest
<1>1. LedgerInv => Ledger!TypeOK
  BY DEF LedgerInv, LedgerTypes, RunsAreNumbered, DeployRecords, Ledger!TypeOK
<1>2. LedgerInv => VersionsAreNewest
  BY <1>1 DEF LedgerInv, VersionsAreNewest, Ledger!VersionsAreNewest
<1> QED
  BY <1>2, LedgerInvariant, PTL

(* A settlement that changes what the template calls deployed speaks the   *)
(* truth about every worker, and nothing newer was asked for.              *)
LEMMA CloseIsTruthful ==
  ASSUME LedgerInv, NEW t \in Tasks, NEW k \in Targets, Ledger!Close(t, k),
         run'[t].finished, Ledger!Running(t),
         <<deploy'.sha, deploy'.identity>> # <<deploy.sha, deploy.identity>>
  PROVE  /\ \A l \in registry' : uploaded'[l] = [sha |-> deploy'.sha, identity |-> deploy'.identity]
         /\ \A u \in Tasks : Ledger!Registered(u) /\ run[u].scope = "full" => run[u].seq <= run[t].seq
         /\ ~run[t].changed
<1>1. deploy' = Ledger!Settled(t) /\ UNCHANGED <<version, registry, uploaded>>
  BY DEF Ledger!Close
<1>2. run[t] \in DeploymentRuns /\ Ledger!Registered(t)
  BY TurnIsNewest DEF Ledger!Close
<1>3. deploy \in DeployRecords
  BY DEF LedgerInv, LedgerTypes
<1>4. Ledger!Advances(t)
  <2> SUFFICES ASSUME ~Ledger!Advances(t) PROVE FALSE
    OBVIOUS
  <2>1. CASE Ledger!Cancelled(t) \/ Ledger!Superseded(t) \/ run[t].changed
    BY <1>1, <2>1 DEF Ledger!Settled
  <2>2. CASE ~(Ledger!Cancelled(t) \/ Ledger!Superseded(t) \/ run[t].changed)
    <3>1. CASE run[t].scope = "full"
      <4>1. deploy' = [deploy EXCEPT !.pending = {l \in registry : l \in run[t].targets \ Ledger!Success(t) \/ version[l].source # run[t].source},
                                     !.pendingSha = run[t].source.sha, !.pendingIdentity = run[t].source.identity]
        BY <1>1, <2>2, <3>1 DEF Ledger!Settled
      <4> QED
        BY <1>3, <4>1 DEF DeployRecords
    <3>2. CASE run[t].scope # "full"
      <4>1. deploy' = [deploy EXCEPT !.pending = registry \intersect
                            ((deploy.pending \union (run[t].targets \ Ledger!Success(t)))
                               \ (IF run[t].source = Ledger!Desired THEN Ledger!Success(t) ELSE {})),
                                     !.pendingSha = Ledger!Desired.sha]
        BY <1>1, <2>2, <3>2 DEF Ledger!Settled
      <4> QED
        BY <1>3, <4>1 DEF DeployRecords
    <3> QED
      BY <3>1, <3>2
  <2> QED
    BY <2>1, <2>2
<1>5. deploy'.sha = run[t].source.sha /\ deploy'.identity = run[t].source.identity
  BY <1>1, <1>4 DEF Ledger!Settled
<1>6. run[t].source = [sha |-> run[t].source.sha, identity |-> run[t].source.identity]
  BY <1>2, SourcesAssumption DEF DeploymentRuns
<1>7. \A l \in registry : uploaded[l] = run[t].source
  BY <1>4 DEF Ledger!Advances, LedgerInv, LedgerTypes
<1>8. ASSUME NEW u \in Tasks, Ledger!Registered(u), run[u].scope = "full" PROVE run[u].seq <= run[t].seq
  <2>1. ~(run[u].seq > run[t].seq)
    BY <1>4, <1>8 DEF Ledger!Advances, Ledger!Superseded
  <2>2. run[u].seq \in Int /\ run[t].seq \in Int
    BY <1>2, <1>8 DEF LedgerInv, RunsAreNumbered
  <2> QED
    BY <2>1, <2>2
<1> QED
  BY <1>1, <1>4, <1>5, <1>6, <1>7, <1>8 DEF Ledger!Advances

LEMMA OnlyCloseFinishes ==
  ASSUME LedgerInv, Ledger!Next, NEW t \in Tasks, Ledger!Running(t), run'[t].finished
  PROVE  \E k \in Targets : Ledger!Close(t, k)
<1>1. run[t] \in DeploymentRuns /\ ~run[t].finished
  BY DEF LedgerInv, LedgerTypes, Ledger!Running, Ledger!Registered
<1>2. run'[t] # run[t]
  BY <1>1
<1>3. CASE Ledger!EditUpstream
  <2>1. run'[t] = [run[t] EXCEPT !.changed = TRUE]
    BY <1>3 DEF Ledger!EditUpstream
  <2> QED
    BY <1>1, <2>1 DEF DeploymentRuns
<1>4. ASSUME NEW u \in Tasks, NEW scope \in {"full", "partial"}, NEW s \in Sources, NEW ks \in SUBSET Targets,
             Ledger!Register(u, scope, s, ks)
      PROVE  FALSE
  <2>1. u # t /\ run'[t] = run[t]
    BY <1>4 DEF Ledger!Register, Ledger!Running, LedgerInv, LedgerTypes
  <2> QED
    BY <1>2, <2>1
<1>5. ASSUME NEW u \in Tasks, NEW k \in Targets, Ledger!Close(u, k) PROVE u = t
  BY <1>2, <1>5 DEF Ledger!Close, LedgerInv, LedgerTypes
<1> QED
  BY <1>2, <1>3, <1>4, <1>5 DEF Ledger!Next, Ledger!Remove, Ledger!Script, Ledger!Report

(* A template advances to a version only when its workers run it.          *)
THEOREM AdvancesAreTruthful == PartsSpec => AdvanceIsTruthful
<1> DEFINE Truthful == \A t \in Tasks :
        Ledger!Running(t) /\ run'[t].finished /\ <<deploy'.sha, deploy'.identity>> # <<deploy.sha, deploy.identity>> =>
          /\ \A k \in registry' : uploaded'[k] = [sha |-> deploy'.sha, identity |-> deploy'.identity]
          /\ \A u \in Tasks : Ledger!Registered(u) /\ run[u].scope = "full" => run[u].seq <= run[t].seq
          /\ ~run[t].changed
<1>1. ASSUME LedgerInv, [NextOutbox \/ NextLedger \/ NextAdmission]_vars PROVE [Truthful]_(Ledger!vars)
  <2>1. CASE UNCHANGED ledgerVars
    BY <2>1 DEF ledgerVars, Ledger!vars
  <2>2. CASE NextLedger
    <3>1. Ledger!Next
      BY <2>2 DEF NextLedger
    <3> QED
      BY <1>1, <3>1, OnlyCloseFinishes, CloseIsTruthful
  <2> QED
    BY <1>1, <2>1, <2>2 DEF NextOutbox, NextAdmission, vars
<1>2. PartsSpec => [][Truthful]_(Ledger!vars)
  BY <1>1, LedgerInvariant, PTL DEF PartsSpec
<1> QED
  BY <1>2 DEF AdvanceIsTruthful, Ledger!AdvanceIsTruthful

-----------------------------------------------------------------------------
(* The admission.                                                          *)

AdmissionTypes ==
  /\ rev \in 1..MaxRev /\ epoch \in 0..MaxEpoch /\ ring \in 1..MaxRing /\ plans \in 0..MaxPlans
  /\ row \in [Keys -> {None} \union Reservations] /\ job \in [Keys -> {None} \union Jobs]
  /\ manifest \in [Keys -> {None} \union PlanRecords] /\ task \in [Keys -> {None} \union PlanRecords]
  /\ snap \in [Keys -> {None} \union Snapshots]
  /\ applied \in [Keys -> Nat] /\ told \in [Keys -> SUBSET {"task", "refused", "closed", "conflict"}]

(* What is known of a key: nothing was done before it was reserved ...     *)
Unreserved(k) == row[k] = None =>
  /\ manifest[k] = None /\ task[k] = None /\ snap[k] = None /\ job[k] = None /\ told[k] = {}
(* ... only the first call plans, and nobody was answered before ...       *)
PlannedOnce(k) ==
  /\ Admissions!At(k, "plan") \/ Admissions!At(k, "seal") =>
       manifest[k] = None /\ told[k] = {} /\ ~row[k].error
  /\ Admissions!At(k, "snapshot") \/ Admissions!At(k, "dispatch") \/ Admissions!At(k, "backfill") =>
       manifest[k] = job[k].plan
(* ... the task is made of the plan that was sealed ...                    *)
TaskOfThePlan(k) ==
  /\ applied[k] = (IF task[k] = None THEN 0 ELSE 1)
  /\ task[k] # None => task[k] = manifest[k]
  /\ Admissions!At(k, "backfill") => task[k] # None
  /\ row[k] # None /\ row[k].task => task[k] # None
  /\ "task" \in told[k] => task[k] # None
(* ... an answer that nothing is done keeps its word ...                   *)
RefusalHolds(k) ==
  /\ "closed" \in told[k] => manifest[k] = None /\ job[k] = None
  /\ row[k] # None /\ row[k].error /\ k \notin recovered => job[k] = None /\ task[k] = None
  /\ "refused" \in told[k] => row[k].error
(* ... and the snapshot is of the sealed plan.                             *)
SnapshotOfThePlan(k) ==
  snap[k] # None => manifest[k] # None /\ snap[k].serial = manifest[k].serial

KeyInv(k) == Unreserved(k) /\ PlannedOnce(k) /\ TaskOfThePlan(k) /\ RefusalHolds(k) /\ SnapshotOfThePlan(k)
AdmissionInv == AdmissionTypes /\ \A k \in Keys : KeyInv(k)

LEMMA InitAdmission == Admissions!Init => AdmissionInv
<1> SUFFICES ASSUME Admissions!Init PROVE AdmissionInv
  OBVIOUS
<1>1. AdmissionTypes
  BY PartBoundsAssumption DEF Admissions!Init, AdmissionTypes
<1>2. ASSUME NEW k \in Keys PROVE KeyInv(k)
  BY DEF Admissions!Init, KeyInv, Unreserved, PlannedOnce, TaskOfThePlan, RefusalHolds, SnapshotOfThePlan,
         Admissions!At
<1> QED
  BY <1>1, <1>2 DEF AdmissionInv

(* The other keys.                                                         *)
SameKey(k) ==
  /\ row'[k] = row[k] /\ manifest'[k] = manifest[k] /\ snap'[k] = snap[k] /\ task'[k] = task[k]
  /\ applied'[k] = applied[k] /\ job'[k] = job[k] /\ told'[k] = told[k]
  /\ k \in recovered' <=> k \in recovered

LEMMA SameKeyInv ==
  ASSUME NEW k \in Keys, KeyInv(k), SameKey(k)
  PROVE  KeyInv(k)'
BY DEF SameKey, KeyInv, Unreserved, PlannedOnce, TaskOfThePlan, RefusalHolds, SnapshotOfThePlan,
       Admissions!At

LEMMA OneKeyInv ==
  ASSUME AdmissionInv, AdmissionTypes', NEW k \in Keys, KeyInv(k)',
         \A l \in Keys : l # k => SameKey(l)
  PROVE  AdmissionInv'
BY SameKeyInv DEF AdmissionInv

LEMMA KnownKey ==
  ASSUME AdmissionInv, NEW k \in Keys
  PROVE  /\ row[k] # None => row[k] \in Reservations
         /\ job[k] # None => job[k] \in Jobs
         /\ manifest[k] # None => manifest[k] \in PlanRecords
         /\ KeyInv(k)
BY DEF AdmissionInv, AdmissionTypes

LEMMA ReserveInv ==
  ASSUME AdmissionInv, NEW k \in Keys, NEW d \in Digests, Admissions!Reserve(k, d)
  PROVE  AdmissionInv'
<1> DEFINE r == [digest |-> d, task |-> FALSE, error |-> FALSE]
           j == [pc |-> "plan", plan |-> Admissions!NoPlan]
<1>1. /\ row[k] = None /\ row' = [row EXCEPT ![k] = r] /\ job' = [job EXCEPT ![k] = j]
      /\ UNCHANGED <<rev, epoch, ring, plans, manifest, snap, task, applied, told, recovered>>
  BY DEF Admissions!Reserve, Admissions!Start, Admissions!config
<1>2. r \in Reservations /\ r.task = FALSE /\ r.error = FALSE /\ j \in Jobs /\ j.pc = "plan"
  BY DEF Reservations, Jobs, PlanRecords, Admissions!NoPlan
<1> HIDE DEF r, j
<1>3. /\ row'[k] = r /\ job'[k] = j /\ \A l \in Keys : l # k => row'[l] = row[l] /\ job'[l] = job[l]
  BY <1>1 DEF AdmissionInv, AdmissionTypes
<1>4. AdmissionTypes'
  BY <1>1, <1>2 DEF AdmissionInv, AdmissionTypes
<1>5. KeyInv(k)'
  BY <1>1, <1>2, <1>3, KnownKey, NoneIsNoRecord
     DEF KeyInv, Unreserved, PlannedOnce, TaskOfThePlan, RefusalHolds, SnapshotOfThePlan, Admissions!At
<1>6. \A l \in Keys : l # k => SameKey(l)
  BY <1>1, <1>3 DEF SameKey
<1> QED
  BY <1>4, <1>5, <1>6, OneKeyInv

(* Answers to a key that is known, and the replay of its sealed plan.      *)
LEMMA TellInv ==
  ASSUME AdmissionInv, NEW k \in Keys, NEW x \in {"task", "refused", "closed"}, Admissions!Tell(k, x),
         UNCHANGED <<rev, epoch, ring, plans, row, manifest, snap, task, applied, job>>,
         recovered' \in {recovered, recovered \union {k}},
         row[k] # None,
         x = "task" => row[k].task,
         x = "refused" => row[k].error,
         x = "closed" => manifest[k] = None /\ job[k] = None,
         ~(Admissions!At(k, "plan") \/ Admissions!At(k, "seal"))
  PROVE  AdmissionInv'
<1>1. told' = [told EXCEPT ![k] = told[k] \union {x}]
  BY DEF Admissions!Tell
<1>2. told'[k] = told[k] \union {x} /\ \A l \in Keys : l # k => told'[l] = told[l]
  BY <1>1 DEF AdmissionInv, AdmissionTypes
<1>3. AdmissionTypes'
  BY <1>1 DEF AdmissionInv, AdmissionTypes
<1>4. KeyInv(k)'
  <2>1. Unreserved(k)' /\ PlannedOnce(k)' /\ SnapshotOfThePlan(k)'
    BY KnownKey DEF KeyInv, Unreserved, PlannedOnce, SnapshotOfThePlan, Admissions!At
  <2>2. TaskOfThePlan(k)'
    BY <1>2, KnownKey DEF KeyInv, TaskOfThePlan, Admissions!At
  <2>3. RefusalHolds(k)'
    BY <1>2, KnownKey DEF KeyInv, RefusalHolds
  <2> QED
    BY <2>1, <2>2, <2>3 DEF KeyInv
<1>5. \A l \in Keys : l # k => SameKey(l)
  BY <1>2 DEF SameKey
<1> QED
  BY <1>3, <1>4, <1>5, OneKeyInv

LEMMA ReplayInv ==
  ASSUME AdmissionInv, NEW k \in Keys, Admissions!Replay(k), job[k] = None, row[k] # None,
         UNCHANGED <<rev, epoch, ring, plans, row, manifest, snap, task, applied>>,
         \/ recovered' = recovered /\ ~row[k].error
         \/ recovered' = recovered \union {k}
  PROVE  AdmissionInv'
<1>1. CASE manifest[k] = None
  <2>1. Admissions!Tell(k, "closed") /\ UNCHANGED job
    BY <1>1 DEF Admissions!Replay
  <2> QED
    BY <1>1, <2>1, TellInv DEF Admissions!At
<1>2. CASE manifest[k] # None
  <2> DEFINE j == [pc |-> "snapshot", plan |-> manifest[k]]
  <2>1. job' = [job EXCEPT ![k] = j] /\ told' = told
    BY <1>2 DEF Admissions!Replay, Admissions!Start
  <2>2. j \in Jobs /\ j.pc = "snapshot" /\ j.plan = manifest[k]
    BY <1>2, KnownKey DEF Jobs
  <2> HIDE DEF j
  <2>3. job'[k] = j /\ \A l \in Keys : l # k => job'[l] = job[l]
    BY <2>1 DEF AdmissionInv, AdmissionTypes
  <2>4. AdmissionTypes'
    BY <2>1, <2>2 DEF AdmissionInv, AdmissionTypes
  <2>5. KeyInv(k)'
    <3>1. Unreserved(k)' /\ PlannedOnce(k)' /\ SnapshotOfThePlan(k)'
      BY <1>2, <2>1, <2>2, <2>3, KnownKey
         DEF KeyInv, Unreserved, PlannedOnce, SnapshotOfThePlan, Admissions!At
    <3>2. TaskOfThePlan(k)'
      BY <2>1, <2>2, <2>3, KnownKey DEF KeyInv, TaskOfThePlan, Admissions!At
    <3>3. RefusalHolds(k)'
      BY <1>2, <2>1, KnownKey DEF KeyInv, RefusalHolds
    <3> QED
      BY <3>1, <3>2, <3>3 DEF KeyInv
  <2>6. \A l \in Keys : l # k => SameKey(l)
    BY <2>1, <2>3 DEF SameKey
  <2> QED
    BY <2>4, <2>5, <2>6, OneKeyInv
<1> QED
  BY <1>1, <1>2

LEMMA RecoverInv ==
  ASSUME AdmissionInv, NEW k \in Keys, Admissions!Recover(k) \/ \E d \in Digests : Admissions!Submit(k, d)
  PROVE  AdmissionInv'
<1>1. row[k] # None /\ UNCHANGED <<rev, epoch, ring, plans, row, manifest, snap, task, applied>>
  BY DEF Admissions!Recover, Admissions!Submit, Admissions!config, Admissions!stored
<1>2. \/ /\ row[k].task /\ Admissions!Tell(k, "task") /\ UNCHANGED job
         /\ recovered' \in {recovered, recovered \union {k}}
      \/ /\ row[k].error /\ ~row[k].task /\ Admissions!Tell(k, "refused") /\ UNCHANGED <<job, recovered>>
      \/ /\ job[k] = None /\ Admissions!Replay(k)
         /\ (recovered' = recovered /\ ~row[k].error) \/ recovered' = recovered \union {k}
  <2>1. row[k] \in Reservations
    BY <1>1, KnownKey
  <2> QED
    BY <2>1 DEF Admissions!Recover, Admissions!Submit, Reservations
<1>3. row[k].task \/ row[k].error => ~(Admissions!At(k, "plan") \/ Admissions!At(k, "seal"))
  BY <1>1, KnownKey DEF KeyInv, PlannedOnce, TaskOfThePlan
<1> QED
  BY <1>1, <1>2, <1>3, TellInv, ReplayInv

LEMMA PlanInv ==
  ASSUME AdmissionInv, NEW k \in Keys, Admissions!Plan(k)
  PROVE  AdmissionInv'
<1> DEFINE p == [serial |-> plans + 1, rev |-> rev, epoch |-> epoch]
           j == [pc |-> "seal", plan |-> p]
<1>1. /\ Admissions!At(k, "plan") /\ plans < MaxPlans /\ plans' = plans + 1
      /\ job' = [job EXCEPT ![k] = j]
      /\ UNCHANGED <<rev, epoch, ring, row, manifest, snap, task, applied, told, recovered>>
  BY DEF Admissions!Plan, Admissions!config, Admissions!stored
<1>2. j \in Jobs /\ j.pc = "seal"
  BY PartBoundsAssumption DEF Jobs, PlanRecords, AdmissionInv, AdmissionTypes
<1> HIDE DEF p, j
<1>3. job'[k] = j /\ \A l \in Keys : l # k => job'[l] = job[l]
  BY <1>1 DEF AdmissionInv, AdmissionTypes
<1>4. AdmissionTypes'
  BY <1>1, <1>2, PartBoundsAssumption DEF AdmissionInv, AdmissionTypes
<1>5. KeyInv(k)'
  BY <1>1, <1>2, <1>3, KnownKey, NoneIsNoRecord
     DEF KeyInv, Unreserved, PlannedOnce, TaskOfThePlan, RefusalHolds, SnapshotOfThePlan, Admissions!At
<1>6. \A l \in Keys : l # k => SameKey(l)
  BY <1>1, <1>3 DEF SameKey
<1> QED
  BY <1>4, <1>5, <1>6, OneKeyInv

(* A job goes on with the plan it has.                                     *)
LEMMA GoJob ==
  ASSUME AdmissionInv, NEW k \in Keys, job[k] # None, NEW pc \in {"snapshot", "dispatch", "backfill"},
         Admissions!Go(k, pc)
  PROVE  /\ job' \in [Keys -> {None} \union Jobs] /\ job'[k] \in Jobs
         /\ job'[k].pc = pc /\ job'[k].plan = job[k].plan
         /\ \A l \in Keys : l # k => job'[l] = job[l]
<1> DEFINE j == [job[k] EXCEPT !.pc = pc]
<1>1. j \in Jobs /\ j.pc = pc /\ j.plan = job[k].plan
  BY KnownKey DEF Jobs
<1>2. job' = [job EXCEPT ![k] = j]
  BY DEF Admissions!Go
<1> HIDE DEF j
<1> QED
  BY <1>1, <1>2 DEF AdmissionInv, AdmissionTypes

LEMMA SealInv ==
  ASSUME AdmissionInv, NEW k \in Keys, Admissions!Seal(k)
  PROVE  AdmissionInv'
<1>1. /\ Admissions!At(k, "seal") /\ job[k] # None /\ Admissions!Go(k, "snapshot")
      /\ manifest' = [manifest EXCEPT ![k] = job[k].plan]
      /\ UNCHANGED <<rev, epoch, ring, plans, row, snap, task, applied, told, recovered>>
  BY DEF Admissions!Seal, Admissions!config, Admissions!At
<1>2. job[k].plan \in PlanRecords
  BY <1>1, KnownKey DEF Jobs
<1>3. /\ job' \in [Keys -> {None} \union Jobs] /\ job'[k] \in Jobs
      /\ job'[k].pc = "snapshot" /\ job'[k].plan = job[k].plan
      /\ \A l \in Keys : l # k => job'[l] = job[l]
  BY <1>1, GoJob
<1>4. manifest'[k] = job[k].plan /\ \A l \in Keys : l # k => manifest'[l] = manifest[l]
  BY <1>1 DEF AdmissionInv, AdmissionTypes
<1>5. AdmissionTypes'
  BY <1>1, <1>2, <1>3 DEF AdmissionInv, AdmissionTypes
<1>6. KeyInv(k)'
  <2>1. manifest[k] = None /\ told[k] = {} /\ row[k] # None /\ task[k] = None /\ snap[k] = None
        /\ ~row[k].error
    BY <1>1, <1>2, KnownKey, NoneIsNoRecord
       DEF KeyInv, Unreserved, PlannedOnce, TaskOfThePlan, SnapshotOfThePlan
  <2> QED
    BY <1>1, <1>3, <1>4, <2>1, KnownKey
       DEF KeyInv, Unreserved, PlannedOnce, TaskOfThePlan, RefusalHolds, SnapshotOfThePlan, Admissions!At
<1>7. \A l \in Keys : l # k => SameKey(l)
  BY <1>1, <1>3, <1>4 DEF SameKey
<1> QED
  BY <1>5, <1>6, <1>7, OneKeyInv

LEMMA EndJob ==
  ASSUME AdmissionInv, NEW k \in Keys, NEW x \in {"task", "refused", "conflict"}, Admissions!End(k, x)
  PROVE  /\ job' \in [Keys -> {None} \union Jobs] /\ job'[k] = None
         /\ told' \in [Keys -> SUBSET {"task", "refused", "closed", "conflict"}]
         /\ told'[k] = told[k] \union {x}
         /\ \A l \in Keys : l # k => job'[l] = job[l] /\ told'[l] = told[l]
BY DEF AdmissionInv, AdmissionTypes, Admissions!End, Admissions!Tell

LEMMA RefuseInv ==
  ASSUME AdmissionInv, NEW k \in Keys, Admissions!Refuse(k)
  PROVE  AdmissionInv'
<1> DEFINE r == [row[k] EXCEPT !.error = TRUE]
<1>1. /\ Admissions!At(k, "plan") \/ Admissions!At(k, "seal")
      /\ row' = [row EXCEPT ![k] = r] /\ Admissions!End(k, "refused")
      /\ UNCHANGED <<rev, epoch, ring, plans, manifest, snap, task, applied, recovered>>
  BY DEF Admissions!Refuse, Admissions!config
<1>2. manifest[k] = None /\ told[k] = {} /\ row[k] # None /\ task[k] = None /\ snap[k] = None
  BY <1>1, KnownKey
     DEF KeyInv, Unreserved, PlannedOnce, TaskOfThePlan, SnapshotOfThePlan, Admissions!At
<1>3. r \in Reservations /\ r.error = TRUE /\ r.task = row[k].task
  BY <1>2, KnownKey DEF Reservations
<1> HIDE DEF r
<1>4. row'[k] = r /\ row' \in [Keys -> {None} \union Reservations]
      /\ \A l \in Keys : l # k => row'[l] = row[l]
  BY <1>1, <1>3 DEF AdmissionInv, AdmissionTypes
<1>5. /\ job' \in [Keys -> {None} \union Jobs] /\ job'[k] = None
      /\ told' \in [Keys -> SUBSET {"task", "refused", "closed", "conflict"}]
      /\ told'[k] = {"refused"}
      /\ \A l \in Keys : l # k => job'[l] = job[l] /\ told'[l] = told[l]
  BY <1>1, <1>2, EndJob
<1>6. AdmissionTypes'
  BY <1>1, <1>4, <1>5 DEF AdmissionInv, AdmissionTypes
<1>7. KeyInv(k)'
  BY <1>1, <1>2, <1>3, <1>4, <1>5, KnownKey, NoneIsNoRecord
     DEF KeyInv, Unreserved, PlannedOnce, TaskOfThePlan, RefusalHolds, SnapshotOfThePlan, Admissions!At
<1>8. \A l \in Keys : l # k => SameKey(l)
  BY <1>1, <1>4, <1>5 DEF SameKey
<1> QED
  BY <1>6, <1>7, <1>8, OneKeyInv

(* The step of a job that ends in a conflict and changes nothing else.     *)
LEMMA ConflictInv ==
  ASSUME AdmissionInv, NEW k \in Keys, job[k] # None, Admissions!End(k, "conflict"),
         UNCHANGED <<rev, epoch, ring, plans, row, manifest, snap, task, applied, recovered>>
  PROVE  AdmissionInv'
<1>1. /\ job' \in [Keys -> {None} \union Jobs] /\ job'[k] = None
      /\ told' \in [Keys -> SUBSET {"task", "refused", "closed", "conflict"}]
      /\ told'[k] = told[k] \union {"conflict"}
      /\ \A l \in Keys : l # k => job'[l] = job[l] /\ told'[l] = told[l]
  BY EndJob
<1>2. AdmissionTypes'
  BY <1>1 DEF AdmissionInv, AdmissionTypes
<1>3. KeyInv(k)'
  BY <1>1, KnownKey
     DEF KeyInv, Unreserved, PlannedOnce, TaskOfThePlan, RefusalHolds, SnapshotOfThePlan, Admissions!At
<1>4. \A l \in Keys : l # k => SameKey(l)
  BY <1>1 DEF SameKey
<1> QED
  BY <1>2, <1>3, <1>4, OneKeyInv

LEMMA SnapshotInv ==
  ASSUME AdmissionInv, NEW k \in Keys, Admissions!Snapshot(k)
  PROVE  AdmissionInv'
<1> DEFINE object == [serial |-> job[k].plan.serial, ring |-> ring]
<1>1. /\ Admissions!At(k, "snapshot") /\ job[k] # None
      /\ UNCHANGED <<rev, epoch, ring, plans, row, manifest, task, applied, recovered>>
  BY DEF Admissions!Snapshot, Admissions!config, Admissions!At
<1>2. CASE snap[k] \in {None, object}
  <2>1. snap' = [snap EXCEPT ![k] = object] /\ Admissions!Go(k, "dispatch") /\ UNCHANGED told
    BY <1>2 DEF Admissions!Snapshot
  <2>2. job[k].plan \in PlanRecords /\ manifest[k] = job[k].plan /\ manifest[k] # None
    BY <1>1, KnownKey, NoneIsNoRecord DEF Jobs, KeyInv, PlannedOnce
  <2>3. object \in Snapshots /\ object.serial = manifest[k].serial
    BY <2>2 DEF Snapshots, PlanRecords, AdmissionInv, AdmissionTypes
  <2> HIDE DEF object
  <2>4. /\ job' \in [Keys -> {None} \union Jobs] /\ job'[k] \in Jobs
        /\ job'[k].pc = "dispatch" /\ job'[k].plan = job[k].plan
        /\ \A l \in Keys : l # k => job'[l] = job[l]
    BY <1>1, <2>1, GoJob
  <2>5. snap'[k] = object /\ snap' \in [Keys -> {None} \union Snapshots]
        /\ \A l \in Keys : l # k => snap'[l] = snap[l]
    BY <2>1, <2>3 DEF AdmissionInv, AdmissionTypes
  <2>6. AdmissionTypes'
    BY <1>1, <2>1, <2>4, <2>5 DEF AdmissionInv, AdmissionTypes
  <2>7. KeyInv(k)'
    BY <1>1, <2>1, <2>2, <2>3, <2>4, <2>5, KnownKey
       DEF KeyInv, Unreserved, PlannedOnce, TaskOfThePlan, RefusalHolds, SnapshotOfThePlan, Admissions!At
  <2>8. \A l \in Keys : l # k => SameKey(l)
    BY <1>1, <2>1, <2>4, <2>5 DEF SameKey
  <2> QED
    BY <2>6, <2>7, <2>8, OneKeyInv
<1>3. CASE snap[k] \notin {None, object}
  <2>1. Admissions!End(k, "conflict") /\ UNCHANGED snap
    BY <1>3 DEF Admissions!Snapshot
  <2> QED
    BY <1>1, <2>1, ConflictInv
<1> QED
  BY <1>2, <1>3

LEMMA DispatchInv ==
  ASSUME AdmissionInv, NEW k \in Keys, Admissions!Dispatch(k)
  PROVE  AdmissionInv'
<1>1. /\ Admissions!At(k, "dispatch") /\ job[k] # None
      /\ UNCHANGED <<epoch, ring, plans, row, manifest, snap, recovered>>
  BY DEF Admissions!Dispatch, Admissions!At
<1>2. job[k].plan \in PlanRecords /\ manifest[k] = job[k].plan /\ manifest[k] # None
      /\ told[k] \intersect {"closed"} = {}
  BY <1>1, KnownKey, NoneIsNoRecord DEF Jobs, KeyInv, PlannedOnce, RefusalHolds
<1>3. CASE task[k] = None /\ Admissions!End(k, "conflict") /\ UNCHANGED <<task, rev, applied>>
  BY <1>1, <1>3, ConflictInv
<1>4. ASSUME Admissions!Go(k, "backfill"), UNCHANGED told, task' \in [Keys -> {None} \union PlanRecords],
             rev' \in 1..MaxRev, applied' \in [Keys -> Nat], task'[k] = manifest[k], applied'[k] = 1,
             \A l \in Keys : l # k => task'[l] = task[l] /\ applied'[l] = applied[l]
      PROVE  AdmissionInv'
  <2>1. /\ job' \in [Keys -> {None} \union Jobs] /\ job'[k] \in Jobs
        /\ job'[k].pc = "backfill" /\ job'[k].plan = job[k].plan
        /\ \A l \in Keys : l # k => job'[l] = job[l]
    BY <1>1, <1>4, GoJob
  <2>2. AdmissionTypes'
    BY <1>1, <1>4, <2>1 DEF AdmissionInv, AdmissionTypes
  <2>3. KeyInv(k)'
    BY <1>1, <1>2, <1>4, <2>1, KnownKey
       DEF KeyInv, Unreserved, PlannedOnce, TaskOfThePlan, RefusalHolds, SnapshotOfThePlan, Admissions!At
  <2>4. \A l \in Keys : l # k => SameKey(l)
    BY <1>1, <1>4, <2>1 DEF SameKey
  <2> QED
    BY <2>2, <2>3, <2>4, OneKeyInv
<1>5. CASE task[k] # None /\ Admissions!Go(k, "backfill") /\ UNCHANGED <<task, rev, applied, told>>
  <2>1. task[k] = manifest[k] /\ applied[k] = 1
    BY <1>5, KnownKey DEF KeyInv, TaskOfThePlan
  <2> QED
    BY <1>4, <1>5, <2>1 DEF AdmissionInv, AdmissionTypes
<1>6. CASE /\ task[k] = None /\ task' = [task EXCEPT ![k] = job[k].plan]
           /\ rev' \in {rev, rev + 1} \intersect 1..MaxRev
           /\ applied' = [applied EXCEPT ![k] = @ + 1] /\ Admissions!Go(k, "backfill") /\ UNCHANGED told
  <2>1. applied[k] = 0
    BY <1>6, KnownKey DEF KeyInv, TaskOfThePlan
  <2>2. /\ task' \in [Keys -> {None} \union PlanRecords] /\ task'[k] = manifest[k]
        /\ \A l \in Keys : l # k => task'[l] = task[l]
    BY <1>2, <1>6 DEF AdmissionInv, AdmissionTypes
  <2>3. /\ applied' \in [Keys -> Nat] /\ applied'[k] = 1
        /\ \A l \in Keys : l # k => applied'[l] = applied[l]
    BY <1>6, <2>1 DEF AdmissionInv, AdmissionTypes
  <2>4. rev' \in 1..MaxRev
    BY <1>6
  <2> QED
    BY <1>4, <1>6, <2>2, <2>3, <2>4
<1> QED
  BY <1>3, <1>5, <1>6 DEF Admissions!Dispatch

LEMMA BackfillInv ==
  ASSUME AdmissionInv, NEW k \in Keys, Admissions!Backfill(k)
  PROVE  AdmissionInv'
<1> DEFINE r == [row[k] EXCEPT !.task = TRUE]
<1>1. /\ Admissions!At(k, "backfill") /\ row' = [row EXCEPT ![k] = r] /\ Admissions!End(k, "task")
      /\ UNCHANGED <<rev, epoch, ring, plans, manifest, snap, task, applied, recovered>>
  BY DEF Admissions!Backfill, Admissions!config
<1>2. row[k] # None /\ task[k] # None
  BY <1>1, KnownKey DEF KeyInv, Unreserved, TaskOfThePlan, Admissions!At
<1>3. r \in Reservations /\ r.task = TRUE /\ r.error = row[k].error
  BY <1>2, KnownKey DEF Reservations
<1> HIDE DEF r
<1>4. row'[k] = r /\ row' \in [Keys -> {None} \union Reservations]
      /\ \A l \in Keys : l # k => row'[l] = row[l]
  BY <1>1, <1>3 DEF AdmissionInv, AdmissionTypes
<1>5. /\ job' \in [Keys -> {None} \union Jobs] /\ job'[k] = None
      /\ told' \in [Keys -> SUBSET {"task", "refused", "closed", "conflict"}]
      /\ told'[k] = told[k] \union {"task"}
      /\ \A l \in Keys : l # k => job'[l] = job[l] /\ told'[l] = told[l]
  BY <1>1, EndJob
<1>6. AdmissionTypes'
  BY <1>1, <1>4, <1>5 DEF AdmissionInv, AdmissionTypes
<1>7. KeyInv(k)'
  BY <1>1, <1>2, <1>3, <1>4, <1>5, KnownKey, NoneIsNoRecord
     DEF KeyInv, Unreserved, PlannedOnce, TaskOfThePlan, RefusalHolds, SnapshotOfThePlan, Admissions!At
<1>8. \A l \in Keys : l # k => SameKey(l)
  BY <1>1, <1>4, <1>5 DEF SameKey
<1> QED
  BY <1>6, <1>7, <1>8, OneKeyInv

(* A restart ends every job, what is stored stays.                         *)
LEMMA CrashInv ==
  ASSUME AdmissionInv, Admissions!Crash \/ Admissions!Edit \/ Admissions!SetMaintenance
  PROVE  AdmissionInv'
<1>1. /\ UNCHANGED <<plans, row, manifest, snap, task, applied, told, recovered>>
      /\ job' = job \/ job' = [k \in Keys |-> None]
  BY DEF Admissions!Crash, Admissions!Edit, Admissions!SetMaintenance, Admissions!stored
<1>2. rev' \in 1..MaxRev /\ epoch' \in 0..MaxEpoch /\ ring' \in 1..MaxRing
  BY PartBoundsAssumption
     DEF Admissions!Crash, Admissions!Edit, Admissions!SetMaintenance, AdmissionInv, AdmissionTypes
<1>3. AdmissionTypes'
  BY <1>1, <1>2 DEF AdmissionInv, AdmissionTypes
<1>4. ASSUME NEW k \in Keys PROVE KeyInv(k)'
  <2>1. job'[k] \in {job[k], None}
    BY <1>1
  <2> QED
    BY <1>1, <2>1, KnownKey
       DEF KeyInv, Unreserved, PlannedOnce, TaskOfThePlan, RefusalHolds, SnapshotOfThePlan, Admissions!At
<1> QED
  BY <1>3, <1>4 DEF AdmissionInv

LEMMA AdmissionStep ==
  ASSUME AdmissionInv, [NextOutbox \/ NextLedger \/ NextAdmission]_vars
  PROVE  AdmissionInv'
<1>1. ASSUME UNCHANGED admissionVars PROVE AdmissionInv'
  <2>1. UNCHANGED <<rev, epoch, ring, plans, row, manifest, snap, task, applied, job, told, recovered>>
    BY <1>1 DEF admissionVars
  <2>2. AdmissionTypes'
    BY <2>1 DEF AdmissionInv, AdmissionTypes
  <2>3. \A k \in Keys : SameKey(k)
    BY <2>1 DEF SameKey
  <2> QED
    BY <2>2, <2>3, SameKeyInv DEF AdmissionInv
<1>2. ASSUME NextAdmission PROVE AdmissionInv'
  <2>1. Admissions!Next
    BY <1>2 DEF NextAdmission
  <2>2. CASE Admissions!Crash \/ Admissions!Edit \/ Admissions!SetMaintenance
    BY <2>2, CrashInv
  <2>3. ASSUME NEW k \in Keys, NEW d \in Digests, Admissions!Reserve(k, d) \/ Admissions!Submit(k, d)
        PROVE  AdmissionInv'
    BY <2>3, ReserveInv, RecoverInv
  <2>4. ASSUME NEW k \in Keys, \/ Admissions!Recover(k) \/ Admissions!Plan(k) \/ Admissions!Seal(k)
                               \/ Admissions!Refuse(k)
        PROVE  AdmissionInv'
    BY <2>4, RecoverInv, PlanInv, SealInv, RefuseInv
  <2>5. ASSUME NEW k \in Keys, \/ Admissions!Snapshot(k) \/ Admissions!Dispatch(k) \/ Admissions!Backfill(k)
        PROVE  AdmissionInv'
    BY <2>5, SnapshotInv, DispatchInv, BackfillInv
  <2> QED
    BY <2>1, <2>2, <2>3, <2>4, <2>5 DEF Admissions!Next
<1> QED
  BY <1>1, <1>2 DEF NextOutbox, NextLedger, vars

THEOREM AdmissionInvariant == PartsSpec => []AdmissionInv
<1>1. PartsInit => AdmissionInv
  BY InitAdmission DEF PartsInit
<1> QED
  BY <1>1, AdmissionStep, PTL DEF PartsSpec

(* An intent becomes at most one task, of the one plan that was sealed for *)
(* it, and its settings are written once, whatever is retried, recovered   *)
(* or restarted (business-admission.ts).                                   *)
THEOREM IntentsMakeOneTask == PartsSpec => []IntentMakesOneTask
<1>1. AdmissionInv => Admissions!TypeOK
  BY DEF AdmissionInv, AdmissionTypes, Admissions!TypeOK
<1>2. AdmissionInv => IntentMakesOneTask
  BY <1>1 DEF AdmissionInv, KeyInv, TaskOfThePlan, IntentMakesOneTask, Admissions!IntentMakesOneTask
<1> QED
  BY <1>2, AdmissionInvariant, PTL

(* Nothing is ever done for an intent that was answered as refused or      *)
(* closed, unless an operator recovers its sealed plan.                    *)
THEOREM RefusalsStayFinal == PartsSpec => []RefusalsAreFinal
<1>1. AdmissionInv => RefusalsAreFinal
  <2> SUFFICES ASSUME AdmissionInv, NEW k \in Keys
               PROVE  /\ "closed" \in told[k] => task[k] = None /\ manifest[k] = None
                      /\ "refused" \in told[k] /\ k \notin recovered => task[k] = None
    BY DEF RefusalsAreFinal, Admissions!RefusalsAreFinal
  <2> QED
    BY KnownKey DEF KeyInv, Unreserved, RefusalHolds, TaskOfThePlan
<1> QED
  BY <1>1, AdmissionInvariant, PTL

(* An answer of conflict is given to a call whose snapshot was sealed with *)
(* another key of the ring, or where there is no task.                     *)
LEMMA ConflictMeansNoTask ==
  ASSUME AdmissionInv, NEW k \in Keys, Admissions!Next, "conflict" \in told'[k] \ told[k], task[k] # None
  PROVE  snap[k] \in Snapshots /\ snap[k].ring # ring
<1>1. told \in [Keys -> SUBSET {"task", "refused", "closed", "conflict"}] /\ told' # told
  BY DEF AdmissionInv, AdmissionTypes
<1>2. ASSUME NEW l \in Keys, NEW x \in {"task", "refused", "closed"}, Admissions!Tell(l, x) PROVE FALSE
  <2>1. told' = [told EXCEPT ![l] = told[l] \union {x}]
    BY <1>2 DEF Admissions!Tell
  <2>2. told'[k] \subseteq told[k] \union {x}
    BY <1>1, <2>1
  <2> QED
    BY <2>2
<1>3. ASSUME NEW l \in Keys, Admissions!Tell(l, "conflict") PROVE l = k
  <2>1. told' = [told EXCEPT ![l] = told[l] \union {"conflict"}]
    BY <1>3 DEF Admissions!Tell
  <2> QED
    BY <1>1, <2>1
<1>4. CASE Admissions!Crash \/ Admissions!Edit \/ Admissions!SetMaintenance
  BY <1>1, <1>4 DEF Admissions!Crash, Admissions!Edit, Admissions!SetMaintenance
<1>5. ASSUME NEW l \in Keys, NEW d \in Digests, Admissions!Reserve(l, d) \/ Admissions!Submit(l, d) PROVE FALSE
  BY <1>1, <1>2, <1>5 DEF Admissions!Reserve, Admissions!Submit, Admissions!Replay
<1>6. ASSUME NEW l \in Keys, \/ Admissions!Recover(l) \/ Admissions!Plan(l) \/ Admissions!Seal(l)
                             \/ Admissions!Refuse(l) \/ Admissions!Backfill(l)
      PROVE  FALSE
  BY <1>1, <1>2, <1>6 DEF Admissions!Recover, Admissions!Replay, Admissions!Plan, Admissions!Seal,
                          Admissions!Refuse, Admissions!Backfill, Admissions!End
<1>7. ASSUME NEW l \in Keys, Admissions!Dispatch(l) PROVE FALSE
  <2>1. Admissions!Tell(l, "conflict") /\ task[l] = None
    BY <1>1, <1>7 DEF Admissions!Dispatch, Admissions!End
  <2> QED
    BY <1>3, <2>1
<1>8. ASSUME NEW l \in Keys, Admissions!Snapshot(l) PROVE snap[k] \in Snapshots /\ snap[k].ring # ring
  <2>1. /\ Admissions!Tell(l, "conflict") /\ Admissions!At(l, "snapshot")
        /\ snap[l] # None /\ snap[l] # [serial |-> job[l].plan.serial, ring |-> ring]
    BY <1>1, <1>8 DEF Admissions!Snapshot, Admissions!End
  <2>2. l = k
    BY <1>3, <2>1
  <2>3. snap[k] \in Snapshots
    BY <2>1, <2>2 DEF AdmissionInv, AdmissionTypes
  <2>4. snap[k].serial = job[k].plan.serial
    BY <2>1, <2>2, KnownKey DEF KeyInv, PlannedOnce, SnapshotOfThePlan
  <2>5. snap[k] = [serial |-> snap[k].serial, ring |-> snap[k].ring]
    BY <2>3 DEF Snapshots
  <2> QED
    BY <2>1, <2>2, <2>3, <2>4, <2>5
<1> QED
  BY <1>4, <1>5, <1>6, <1>7, <1>8 DEF Admissions!Next

(* A replay that finds neither its task nor a refusal of its own was made  *)
(* after the key ring had rotated: the snapshot the plan was sealed in is  *)
(* of another key than the current one (task-preparation.ts).              *)
THEOREM OnlyRotationLosesAnswers ==
  PartsSpec => [][\A k \in Keys : "conflict" \in told'[k] \ told[k] /\ task[k] # None =>
                                    snap[k] # None /\ snap[k].ring # ring]_admissionVars
<1> DEFINE OnlyRotation == \A k \in Keys : "conflict" \in told'[k] \ told[k] /\ task[k] # None =>
                                             snap[k] # None /\ snap[k].ring # ring
<1>1. ASSUME AdmissionInv, [NextOutbox \/ NextLedger \/ NextAdmission]_vars PROVE [OnlyRotation]_admissionVars
  BY <1>1, ConflictMeansNoTask, NoneIsNoRecord DEF NextOutbox, NextLedger, NextAdmission, vars
<1> QED
  BY <1>1, AdmissionInvariant, PTL DEF PartsSpec

(* While the key ring does not rotate, a replay of a plan that was         *)
(* submitted finds its task, although the answer of the submission was     *)
(* lost and the configuration or maintenance moved on.                     *)
THEOREM LostAnswersStayFound == MaxRing = 1 => (PartsSpec => LostAnswersAreFound)
<1> SUFFICES ASSUME MaxRing = 1 PROVE PartsSpec => LostAnswersAreFound
  OBVIOUS
<1> DEFINE Found == \A k \in Keys : "conflict" \in told'[k] \ told[k] => task[k] = None
<1>1. AdmissionInv => ring = 1
  BY DEF AdmissionInv, AdmissionTypes
<1>2. \A s \in Snapshots : s.ring = 1
  BY DEF Snapshots
<1>3. ASSUME AdmissionInv, [NextOutbox \/ NextLedger \/ NextAdmission]_vars PROVE [Found]_(Admissions!vars)
  <2>1. CASE UNCHANGED admissionVars
    BY <2>1 DEF admissionVars, Admissions!vars
  <2>2. CASE NextAdmission
    BY <1>1, <1>2, <1>3, <2>2, ConflictMeansNoTask DEF NextAdmission
  <2> QED
    BY <1>3, <2>1, <2>2 DEF NextOutbox, NextLedger, vars
<1>4. PartsSpec => [][Found]_(Admissions!vars)
  BY <1>3, AdmissionInvariant, PTL DEF PartsSpec
<1> QED
  BY <1>4 DEF LostAnswersAreFound, Admissions!LostAnswersAreFound

-----------------------------------------------------------------------------
(* The outbox among the parts behaves as TaskDispatch by itself: what        *)
(* TaskDispatchProofs proves holds of the parts (task-dispatch.ts).         *)
THEOREM PartsKeepOutbox == PartsSpec => Spec
<1>1. PartsInit => Init
  BY DEF PartsInit
<1>2. [NextOutbox \/ NextLedger \/ NextAdmission]_vars => [Next]_dispatchVars
  BY DEF NextOutbox, NextLedger, NextAdmission, vars
<1> QED
  BY <1>1, <1>2, PTL DEF PartsSpec, Spec
=============================================================================
