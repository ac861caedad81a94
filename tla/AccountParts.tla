---------------------------- MODULE AccountParts ----------------------------
(* Five concerns that share no state: an account's ledger, the programs that *)
(* its steps run at the provider, the fences by which a generation of the    *)
(* authority is drained, the flows of overlapping periodic updates, and the  *)
(* release that moves an installation to the authority.  A behaviour follows *)
(* one of them while the others rest.                                        *)
EXTENDS AccountQueue, Sequences

CONSTANTS Namespaces, Kinds,                                              \* of Executor
          Accounts, Tasks, On, Drains, MaxEpoch, MaxGeneration, MaxEdits, \* of Drain
          Templates, Windows, Late, Webhooks, Budget, MaxRev, MaxVersion, MaxClock, MaxMoves, \* of Automation
          Runs, MaxWrites                                                 \* of Release
VARIABLES part, command, start, now, before, pc,
          meta, rev, outbox, gen, job, acked, drain, report, fence, sent, answers, source, import,
          clock, maintenance, manual, edition, upstream, deployed, ring, flow, lane, seal, task,
          notice, requests, opening, work, calls, armed, moves,
          journal, plan, control, wire, kv, invocations, written, expired, auth, run, puts, due

programVars == <<command, start, now, before, pc>>
drainVars == <<meta, rev, outbox, gen, job, acked, drain, report, fence, sent, answers, source, import>>
flowVars == <<clock, maintenance, manual, edition, upstream, deployed, ring, flow, lane, seal, task,
              notice, requests, opening, work, calls, armed, moves>>
releaseVars == <<journal, plan, control, wire, kv, invocations, written, expired, auth, run, puts, due>>
partVars == <<part, queueVars, programVars, drainVars, flowVars, releaseVars>>

Program == INSTANCE Executor
Draining == INSTANCE Drain WITH MaxRev <- MaxEdits
Flows == INSTANCE Automation WITH rev <- edition, sent <- requests
Move == INSTANCE Release WITH calls <- invocations, evidence <- written, sent <- puts

ASSUME AddressesAssumption == On \in [Tasks -> Accounts]
ASSUME FlowsAssumption ==
  /\ Templates \in Seq(Flows!Lanes) /\ Windows \subseteq Nat /\ Late \in Nat /\ Budget \in Nat
  /\ MaxRev \in Nat \ {0} /\ MaxVersion \in Nat \ {0} /\ MaxClock \in Nat \ {0} /\ MaxMoves \in Nat
ASSUME GenerationsAssumption == MaxGeneration \in Nat \ {0} /\ MaxEdits \in Nat \ {0} /\ MaxEpoch \in Nat
ASSUME WritesAssumption == MaxWrites \in Nat
ASSUME NoneIsNoValue == /\ None \notin Nat /\ None \notin Move!Phase
                        /\ None \notin [script : {"legacy", "frozen", "pinned"}, cron : BOOLEAN]
ASSUME KindsAssumption ==
  Kinds \subseteq {"rename_subdomain", "change_subdomain", "rotate_subdomain", "create_worker", "replace_worker",
                   "upload", "manual_upload", "repair_worker", "remove_worker", "delete_worker", "cleanup_kv",
                   "delete_kv", "configure_domain", "write_nodes"}

PartsInit == /\ Init /\ Draining!Init /\ Flows!Init /\ Move!Init
             /\ \/ /\ part \in {"ledger", "drain", "flows", "release"}
                   /\ command = "none" /\ start = "none" /\ now = "none" /\ before = "none" /\ pc = 0
                \/ part = "program" /\ Program!Init
NextLedger == part = "ledger" /\ Next /\ UNCHANGED <<part, programVars, drainVars, flowVars, releaseVars>>
NextProgram == part = "program" /\ Program!Next /\ UNCHANGED <<part, queueVars, drainVars, flowVars, releaseVars>>
NextDrain == part = "drain" /\ Draining!Next /\ UNCHANGED <<part, queueVars, programVars, flowVars, releaseVars>>
NextFlows == part = "flows" /\ Flows!Next /\ UNCHANGED <<part, queueVars, programVars, drainVars, releaseVars>>
NextRelease == part = "release" /\ Move!Next /\ UNCHANGED <<part, queueVars, programVars, drainVars, flowVars>>
PartsNext == NextLedger \/ NextProgram \/ NextDrain \/ NextFlows \/ NextRelease
PartsSpec == PartsInit /\ [][PartsNext]_partVars

(* Executor.ResultIsTrue: a verified step did what its command means, and a *)
(* failed one left the account as it was (business-executor.ts).            *)
ResultIsTrue == part = "program" => Program!ResultIsTrue
(* Drain.SealsAreLifted: no seal outlives its drain (account-drain.ts).      *)
SealsAreLifted == Draining!SealsAreLifted
(* Drain.RetiredIsQuiet: nothing of a retired generation is still at work    *)
(* (generation-activation.ts).                                               *)
RetiredIsQuiet == Draining!RetiredIsQuiet
(* Automation.NeverDowngrades: the decision of an older window never         *)
(* replaces what a newer one deployed (automation-flow.ts).                  *)
NeverDowngrades == Flows!NeverDowngrades
(* Release.VerifiedHolds: what a phase was verified to have done is still   *)
(* so, and no request went out twice (production-data-release.cjs).         *)
VerifiedHolds == Move!VerifiedHolds
(* Release.OpenedWithEverything: the authority is opened with every write   *)
(* of the old worker made before its opening was dispatched                 *)
(* (production-data-release.cjs).                                           *)
OpenedWithEverything == Move!OpenedWithEverything
=============================================================================
