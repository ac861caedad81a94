----------------------------- MODULE GlobalParts -----------------------------
(* Three parts of the global object that share no state but the tasks they   *)
(* are about: the outbox of deliveries, the ledger of deployed versions, and *)
(* the admission of intents.  A behaviour follows one of them while the      *)
(* others rest.                                                              *)
EXTENDS TaskDispatch

CONSTANTS Tasks, Targets, Installed, Removable, Sources, NoIdentity,   \* of DeploymentLedger
          Keys, Digests, MaxOpen, MaxRev, MaxEpoch, MaxPlans, MaxRing  \* of Admission
VARIABLES part, run, fact, closed, version, registry, deploy, runs, uploaded,
          rev, epoch, ring, plans, row, manifest, snap, task, applied, job, told, recovered

ledgerVars == <<run, fact, closed, version, registry, deploy, runs, uploaded>>
admissionVars == <<rev, epoch, ring, plans, row, manifest, snap, task, applied, job, told, recovered>>
vars == <<part, dispatchVars, ledgerVars, admissionVars>>

Ledger == INSTANCE DeploymentLedger
Admissions == INSTANCE Admission

(* What the tables of the two parts hold where they do not hold None.        *)
DeploymentRuns == [seq : Nat, scope : {"full", "partial"}, source : Sources, targets : SUBSET Targets,
                   creates : SUBSET Targets, changed : BOOLEAN, finished : BOOLEAN]
PlanRecords == [serial : Nat, rev : Nat, epoch : Nat]
Reservations == [digest : Digests, task : BOOLEAN, error : BOOLEAN]
Snapshots == [serial : Nat, ring : 1..MaxRing]
Jobs == [pc : {"plan", "seal", "snapshot", "dispatch", "backfill"}, plan : PlanRecords]

ASSUME TargetsAssumption == Installed \subseteq Targets /\ Removable \subseteq Targets
ASSUME SourcesAssumption == \A s \in Sources : s = [sha |-> s.sha, identity |-> s.identity]
ASSUME PartBoundsAssumption ==
  MaxRev \in Nat \ {0} /\ MaxRing \in Nat \ {0} /\ MaxEpoch \in Nat /\ MaxPlans \in Nat
ASSUME NoneIsNoRecord ==
  None \notin DeploymentRuns /\ None \notin PlanRecords /\ None \notin Reservations /\ None \notin Snapshots /\ None \notin Jobs

PartsInit == part \in {"outbox", "ledger", "admission"} /\ Init /\ Ledger!Init /\ Admissions!Init

NextOutbox == part = "outbox" /\ Next /\ UNCHANGED <<part, ledgerVars, admissionVars>>
NextLedger == part = "ledger" /\ Ledger!Next /\ UNCHANGED <<part, dispatchVars, admissionVars>>
NextAdmission == part = "admission" /\ Admissions!Next /\ UNCHANGED <<part, dispatchVars, ledgerVars>>

PartsSpec == PartsInit /\ [][NextOutbox \/ NextLedger \/ NextAdmission]_vars

(* DeploymentLedger.VersionsAreNewest: the recorded version of a target is  *)
(* the one last uploaded (deployment-ledger.ts).                            *)
VersionsAreNewest == Ledger!VersionsAreNewest
(* DeploymentLedger.AdvanceIsTruthful: a template advances to a version     *)
(* only when its workers run it (deployment-ledger.ts).                     *)
AdvanceIsTruthful == Ledger!AdvanceIsTruthful
(* Admission.IntentMakesOneTask: an intent becomes one task, of one plan,   *)
(* whose settings are written once (business-admission.ts).                 *)
IntentMakesOneTask == Admissions!IntentMakesOneTask
(* Admission.RefusalsAreFinal: what was refused is never executed           *)
(* (business-admission.ts).                                                 *)
RefusalsAreFinal == Admissions!RefusalsAreFinal
(* Admission.LostAnswersAreFound: a task whose answer was lost is found     *)
(* under its key (business-admission.ts).                                   *)
LostAnswersAreFound == Admissions!LostAnswersAreFound
=============================================================================
