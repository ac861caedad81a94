------------------------------ MODULE Release ------------------------------
(* The move of a production installation from the store of the old worker   *)
(* to the authority (production-data-release.cjs), phase after phase, by an *)
(* operator who starts the script again and again, perhaps twice at a time, *)
(* and whose machine may stop in between.  What was done is in the journal  *)
(* (release-journal.cjs, production-release-session.cjs); a request that    *)
(* went out is never sent again, and may arrive late.  Invocations of the   *)
(* old worker that began before it was replaced may write for as long as    *)
(* they like.                                                               *)
EXTENDS Naturals

CONSTANTS Runs,       \* runs of the script that overlap
          MaxWrites,  \* bound: writes of the old worker
          None

VARIABLES journal,    \* state of every phase
          plan,       \* stage-plan.json of the mutations: the controls that were read before
          control,    \* at the provider: the deployed script and whether the schedule is on
          wire,       \* requests on their way
          kv,         \* number of business writes in the old store
          calls,      \* are there invocations of the old worker
          evidence,   \* writes in the backup; None before there is one
          expired,    \* is the pin older than two hours
          auth,       \* the authority: stage of the import, data, open for business
          run,        \* a run: its phase, what it does next, what it found
          sent, due   \* history: requests sent; old writes when the opening was dispatched

vars == <<journal, plan, control, wire, kv, calls, evidence, expired, auth, run, sent, due>>
world == <<control, kv, calls, expired>>
history == <<sent, due>>

(* PHASES: the phases and the place of each in their order.                 *)
Place == [preflight |-> 1, freeze_worker |-> 2, disable_cron |-> 3, legacy_drain |-> 4, source_backup |-> 5, source_package |-> 6,
          install_pin |-> 7, initial_cutover |-> 8, maintenance_acceptance |-> 9, resume_authority |-> 10, restore_cron |-> 11,
          online_acceptance |-> 12]
Phase == DOMAIN Place
Mutations == {"freeze_worker", "disable_cron", "install_pin", "restore_cron"}
Requests == Mutations \union {"activate", "open"}
Stages == {"empty", "receiving", "complete", "staging", "verified", "active"}
Rest == [phase |-> None, step |-> "idle", found |-> None]

Init == /\ journal = [p \in Phase |-> "unprepared"] /\ plan = [p \in Mutations |-> None]
        /\ control = [script |-> "legacy", cron |-> TRUE] /\ wire = {}
        /\ kv = 0 /\ calls = FALSE /\ evidence = None /\ expired = FALSE
        /\ auth = [stage |-> "empty", data |-> None, open |-> FALSE]
        /\ run = [r \in Runs |-> Rest] /\ sent = [q \in Requests |-> 0] /\ due = None

-----------------------------------------------------------------------------
(* The old worker starts invocations while it is deployed.                  *)
LegacyWorks ==
    /\ \/ control.script = "legacy" /\ ~calls /\ calls' = TRUE /\ kv' = kv
       \/ calls /\ calls' = FALSE /\ kv' = kv
       \/ calls /\ kv < MaxWrites /\ kv' = kv + 1 /\ calls' = calls
    /\ UNCHANGED <<journal, plan, control, wire, evidence, expired, auth, run, history>>
PinExpires == /\ journal["source_package"] = "verified" /\ ~expired /\ expired' = TRUE
              /\ UNCHANGED <<journal, plan, control, wire, kv, calls, evidence, auth, run, history>>

(* What a mutation does at the provider.                                    *)
Applied(p, c) == CASE p = "freeze_worker" -> [c EXCEPT !.script = "frozen"]
                   [] p = "install_pin" -> [c EXCEPT !.script = "pinned"]
                   [] OTHER -> [c EXCEPT !.cron = p = "restore_cron"]
Provider(p) == /\ p \in wire \intersect Mutations /\ control' = Applied(p, control) /\ wire' = wire \ {p}
               /\ UNCHANGED <<journal, plan, kv, calls, evidence, expired, auth, run, history>>
(* InitialCutoverSource.barrier: nothing but an empty authority is filled,  *)
(* from the source the pin names, while the pin is valid; the import that   *)
(* is staged goes on without the source.                                    *)
Fillable == control.script = "pinned" /\ auth.stage # "active" /\ (expired => auth.stage = "staging")
(* InitialGenerationActivation: one transaction, answered again by its id.  *)
Activate == /\ "activate" \in wire /\ wire' = wire \ {"activate"}
            /\ auth' = IF Fillable /\ auth.stage = "verified" THEN [auth EXCEPT !.stage = "active", !.data = evidence] ELSE auth
            /\ UNCHANGED <<journal, plan, world, evidence, run, history>>
(* set_maintenance, for the generation and the epoch of the activation.     *)
OpenAuthority == /\ "open" \in wire /\ wire' = wire \ {"open"}
                 /\ auth' = IF auth.stage = "active" THEN [auth EXCEPT !.open = TRUE] ELSE auth
                 /\ UNCHANGED <<journal, plan, world, evidence, run, history>>

-----------------------------------------------------------------------------
(* inspect: the first phase that is not verified is the current one.        *)
Current(p) == journal[p] # "verified" /\ \A q \in Phase : Place[q] < Place[p] => journal[q] = "verified"
(* A run that was overtaken goes on while the current phase is dispatched,  *)
(* and fails when it records something.                                     *)
Overtaken(p) == journal[p] = "verified" /\ \E q \in Phase : Current(q) /\ journal[q] = "dispatched"
Does(r, step, found) == run' = [run EXCEPT ![r].step = step, ![r].found = found]
Stops(r) == run' = [run EXCEPT ![r] = Rest]
At(r, p, step) == run[r].phase = p /\ run[r].step = step

Enter(r, p) == /\ run[r] = Rest /\ Current(p)
               /\ run' = [run EXCEPT ![r] = [phase |-> p, step |-> "begin", found |-> journal[p]]]
               /\ UNCHANGED <<journal, plan, wire, world, evidence, auth, history>>
(* The run fails at a check or a request, or the machine stops.             *)
Stop(r) == run[r] # Rest /\ Stops(r) /\ UNCHANGED <<journal, plan, wire, world, evidence, auth, history>>

Empty == auth.stage = "empty" /\ ~auth.open
(* requireUnchangedLegacy: another backup has the business values of the    *)
(* source.                                                                  *)
Unchanged == kv = evidence
(* The checks before the request of a mutation is sealed.                   *)
Ready(p) == CASE p = "freeze_worker" -> control = [script |-> "legacy", cron |-> TRUE]
              [] p = "disable_cron" -> control = [script |-> "frozen", cron |-> TRUE] /\ Empty
              [] p = "install_pin" -> control = [script |-> "frozen", cron |-> FALSE] /\ Empty /\ Unchanged
              [] OTHER -> control = [script |-> "pinned", cron |-> FALSE] /\ auth.open
Seal(r, p) ==
    /\ p \in Mutations /\ At(r, p, "begin") /\ Does(r, "sealed", None)
    /\ IF plan[p] # None THEN UNCHANGED plan ELSE Ready(p) /\ plan' = [plan EXCEPT ![p] = control]
    /\ UNCHANGED <<journal, wire, world, evidence, auth, history>>
(* dispatchMutation: prepare; if it is prepared and the controls are still  *)
(* those of the plan, the dispatch is recorded, then the request goes out.  *)
Prepare(r, p) ==
    /\ At(r, p, "sealed") /\ (Current(p) \/ Overtaken(p))
    /\ journal' = IF journal[p] = "unprepared" THEN [journal EXCEPT ![p] = "prepared"] ELSE journal
    /\ IF journal'[p] # "prepared" THEN Does(r, "readback", None) ELSE plan[p] = control /\ Does(r, "dispatch", None)
    /\ UNCHANGED <<plan, wire, world, evidence, auth, history>>
\* Faulty: the journal does not look at the state it replaces.
DispatchedAgain(p) == Current(p) /\ journal' = [journal EXCEPT ![p] = "dispatched"]
Dispatched(p) == Current(p) /\ journal[p] = "prepared" /\ journal' = [journal EXCEPT ![p] = "dispatched"]
Dispatch(r, p) == /\ At(r, p, "dispatch") /\ Dispatched(p) /\ Does(r, "send", None)
                  /\ UNCHANGED <<plan, wire, world, evidence, auth, history>>
Sends(q) == wire' = wire \union {q} /\ sent' = [sent EXCEPT ![q] = @ + 1]
(* The answer says nothing that the read-back does not.                     *)
Put(r, p) == /\ At(r, p, "send") /\ p \in Mutations /\ Sends(p) /\ Does(r, "readback", None)
             /\ UNCHANGED <<journal, plan, world, evidence, auth, due>>
\* Faulty: the answer is believed.
TakenForDone(p) == TRUE
(* inspectFreezeReadback, verifyPinReadback, schedulePhase; the authority   *)
(* answers as it should.                                                    *)
ReadBack(p) == control = Applied(p, plan[p]) /\ (p \in {"freeze_worker", "install_pin"} => Empty)
Check(r, p) == /\ p \in Mutations /\ At(r, p, "readback") /\ ReadBack(p) /\ Does(r, "finish", None)
               /\ UNCHANGED <<journal, plan, wire, world, evidence, auth, history>>

-----------------------------------------------------------------------------
(* startLocal of the phases that send no mutation: prepared and dispatched  *)
(* before anything is looked at.                                            *)
Start(r, p) == /\ p \notin Mutations /\ At(r, p, "begin") /\ (Current(p) \/ Overtaken(p))
               /\ journal' = IF Current(p) THEN [journal EXCEPT ![p] = "dispatched"] ELSE journal
               /\ due' = IF p = "resume_authority" /\ due = None THEN kv ELSE due
               /\ Does(r, "started", run[r].found)
               /\ UNCHANGED <<plan, wire, world, evidence, auth, sent>>
Looks(r, p, next) == /\ At(r, p, "started") /\ Does(r, next, None)
                     /\ UNCHANGED <<journal, plan, wire, world, evidence, auth, history>>
Verify(r) == \/ Looks(r, "preflight", "finish") /\ control = [script |-> "legacy", cron |-> TRUE]
             \/ Looks(r, "legacy_drain", "finish") /\ control = [script |-> "frozen", cron |-> FALSE] /\ Empty
             \/ Looks(r, "source_package", "finish") /\ Empty
             \/ /\ Looks(r, "maintenance_acceptance", "finish") /\ control = [script |-> "pinned", cron |-> FALSE]
                /\ auth = [stage |-> "active", data |-> evidence, open |-> FALSE] /\ Unchanged
             \/ Looks(r, "online_acceptance", "finish") /\ control.cron /\ auth.open /\ Unchanged
(* Two backups, 65 seconds apart, with the same business values.            *)
Backup(r) == /\ At(r, "source_backup", "started") /\ control = [script |-> "frozen", cron |-> FALSE] /\ Empty
             /\ Does(r, "second", kv) /\ UNCHANGED <<journal, plan, wire, world, evidence, auth, history>>
BackupAgain(r) == /\ At(r, "source_backup", "second") /\ kv = run[r].found /\ Does(r, "finish", kv)
                  /\ UNCHANGED <<journal, plan, wire, world, evidence, auth, history>>
(* initialCutoverClient: begin, frames, commit, begin and resume of the     *)
(* import, each repeated under its id when the answer was lost; the check   *)
(* before the activation; the activation.                                   *)
Cutover(r) == /\ At(r, "initial_cutover", "started") /\ control = [script |-> "pinned", cron |-> FALSE] /\ Unchanged
              /\ Does(r, IF auth.stage = "active" THEN "activated" ELSE "import", None)
              /\ UNCHANGED <<journal, plan, wire, world, evidence, auth, history>>
NextStage == [empty |-> "receiving", receiving |-> "complete", complete |-> "staging", staging |-> "verified"]
Import(r) == /\ At(r, "initial_cutover", "import") /\ Fillable /\ auth.stage # "verified"
             /\ auth' = [auth EXCEPT !.stage = NextStage[auth.stage]]
             /\ UNCHANGED <<journal, plan, wire, world, evidence, run, history>>
BeforeActivate(r) == /\ At(r, "initial_cutover", "import") /\ auth.stage = "verified" /\ Unchanged
                     /\ Does(r, "activated", None) /\ wire' = wire \union {"activate"}
                     /\ UNCHANGED <<journal, plan, world, evidence, auth, history>>
Activated(r) == /\ At(r, "initial_cutover", "activated") /\ auth.stage = "active" /\ Does(r, "finish", None)
                /\ UNCHANGED <<journal, plan, wire, world, evidence, auth, history>>
(* resume_authority: the command goes out only in a run that found the      *)
(* phase not dispatched; then its receipt is asked for.                     *)
\* Faulty: the old store is not compared any more.
OpensUnseen == auth = [stage |-> "active", data |-> evidence, open |-> FALSE]
Opens == auth = [stage |-> "active", data |-> evidence, open |-> FALSE] /\ Unchanged
Resume(r) == /\ At(r, "resume_authority", "started")
             /\ IF run[r].found = "dispatched" THEN UNCHANGED <<wire, sent>> ELSE Opens /\ Sends("open")
             /\ Does(r, "audit", None) /\ UNCHANGED <<journal, plan, world, evidence, auth, due>>
Audit(r) == /\ At(r, "resume_authority", "audit") /\ auth.open /\ Does(r, "finish", None)
            /\ UNCHANGED <<journal, plan, wire, world, evidence, auth, history>>

(* finish: the evidence is recorded, then the phase is verified.            *)
Finish(r, p) == /\ At(r, p, "finish") /\ Current(p) /\ journal[p] = "dispatched"
                /\ journal' = [journal EXCEPT ![p] = "verified"] /\ Stops(r)
                /\ evidence' = IF p = "source_backup" THEN run[r].found ELSE evidence
                /\ UNCHANGED <<plan, wire, world, auth, history>>

Next == \/ LegacyWorks \/ PinExpires \/ Activate \/ OpenAuthority
        \/ \E p \in Mutations : Provider(p)
        \/ \E r \in Runs : \/ \E p \in Phase : \/ Enter(r, p) \/ Seal(r, p) \/ Prepare(r, p) \/ Dispatch(r, p) \/ Put(r, p)
                                               \/ Check(r, p) \/ Start(r, p) \/ Finish(r, p)
                           \/ Stop(r) \/ Verify(r) \/ Backup(r) \/ BackupAgain(r) \/ Cutover(r) \/ Import(r)
                           \/ BeforeActivate(r) \/ Activated(r) \/ Resume(r) \/ Audit(r)
Spec == Init /\ [][Next]_vars

-----------------------------------------------------------------------------
(* The type invariant. *)
TypeOK == /\ journal \in [Phase -> {"unprepared", "prepared", "dispatched", "verified"}] /\ wire \subseteq Requests
          /\ kv \in 0..MaxWrites /\ evidence \in 0..MaxWrites \union {None} /\ auth.stage \in Stages

(* What a phase was verified to have done is still so, although runs        *)
(* overlap, stop anywhere and requests arrive late: no phase is verified    *)
(* for an effect that is yet to come, none is undone but by its             *)
(* counterpart, and no request goes out twice (the header of                *)
(* production-data-release.cjs).                                            *)
VerifiedHolds ==
    /\ journal["freeze_worker"] = "verified" => control.script # "legacy"
    /\ journal["disable_cron"] = "verified" /\ journal["restore_cron"] \notin {"dispatched", "verified"} => ~control.cron
    /\ journal["install_pin"] = "verified" => control.script = "pinned"
    /\ journal["initial_cutover"] = "verified" => auth.stage = "active"
    /\ journal["resume_authority"] = "verified" => auth.open
    /\ journal["restore_cron"] = "verified" => control.cron
    /\ \A q \in Mutations : sent[q] <= 1

(* No legacy write is lost knowingly: what the authority serves once it is  *)
(* open has every write of the old worker made before its opening was       *)
(* dispatched, however late the request arrived (the later ones are the     *)
(* residual risk that legacy_drain names).                                  *)
OpenedWithEverything == TypeOK /\ (auth.open => auth.data >= due)
=============================================================================
