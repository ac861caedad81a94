------------------------------ MODULE Admission ------------------------------
(* How an intent becomes a task exactly once: business-admission.ts reserves *)
(* the intent under the fingerprint of its key, plans it once, seals the     *)
(* plan and submits it through task-preparation.ts, which seals a snapshot   *)
(* and inserts the task together with the intent's own settings.  Every      *)
(* stage awaits, so configuration, maintenance and other calls move on, and  *)
(* a restart leaves what is stored and forgets the rest.                     *)
EXTENDS Naturals, FiniteSets

CONSTANTS Keys, Digests,   \* idempotency keys; what may be asked under one
          MaxOpen,         \* reservations without task and error (500)
          MaxRev, MaxEpoch, MaxPlans, MaxRing,  \* bounds: edits, maintenance switches, plans, key rotations
          None

VARIABLES rev, epoch,  \* configuration revision, maintenance epoch (odd: in maintenance)
          ring,        \* current key of the snapshot key ring
          plans,       \* calls of the planner
          row,         \* business_admissions
          manifest,    \* sealed plan of a reservation
          snap,        \* sealed snapshot of a task
          task,        \* dispatch_tasks: the plan it was made of
          applied,     \* how often the settings of an intent were written
          job,         \* the inflight map
          told,        \* answers given under a key
          recovered    \* keys an operator recovered

vars == <<rev, epoch, ring, plans, row, manifest, snap, task, applied, job, told, recovered>>
config == <<rev, epoch, ring>>
stored == <<row, manifest, snap, task, applied>>

Maintenance == epoch % 2 = 1
Open == {k \in Keys : row[k] # None /\ ~row[k].task /\ ~row[k].error}
NoPlan == [serial |-> 0, rev |-> 0, epoch |-> 0]

Init == /\ rev = 1 /\ epoch = 0 /\ ring = 1 /\ plans = 0
        /\ row = [k \in Keys |-> None] /\ manifest = [k \in Keys |-> None]
        /\ snap = [k \in Keys |-> None] /\ task = [k \in Keys |-> None]
        /\ applied = [k \in Keys |-> 0] /\ job = [k \in Keys |-> None]
        /\ told = [k \in Keys |-> {}] /\ recovered = {}

Tell(k, answer) == told' = [told EXCEPT ![k] = @ \union {answer}]
Start(k, pc, plan) == job' = [job EXCEPT ![k] = [pc |-> pc, plan |-> plan]]
Go(k, pc) == job' = [job EXCEPT ![k].pc = pc]
End(k, answer) == job' = [job EXCEPT ![k] = None] /\ Tell(k, answer)

(* submit of a key that is not reserved, in the reservation's transaction.  *)
Reserve(k, d) ==
    /\ row[k] = None /\ ~Maintenance /\ Cardinality(Open) < MaxOpen
    /\ row' = [row EXCEPT ![k] = [digest |-> d, task |-> FALSE, error |-> FALSE]]
    /\ Start(k, "plan", NoPlan)
    /\ UNCHANGED <<config, plans, manifest, snap, task, applied, told, recovered>>
(* restore: only the sealed plan is submitted again, it is never made anew. *)
Replay(k) ==
    IF manifest[k] = None THEN Tell(k, "closed") /\ UNCHANGED job
    ELSE Start(k, "snapshot", manifest[k]) /\ UNCHANGED told
\* Faulty: a call does not wait for the one that is planning.
SubmitAlone(k, d) ==
    /\ row[k] # None /\ row[k].digest = d
    /\ CASE row[k].task -> Tell(k, "task") /\ UNCHANGED job
         [] ~row[k].task /\ row[k].error -> Tell(k, "refused") /\ UNCHANGED job
         [] OTHER -> Replay(k)
    /\ UNCHANGED <<config, plans, stored, recovered>>
(* submit of a reserved key; whoever finds a job of the key awaits it, and  *)
(* another digest is refused: no step.                                      *)
Submit(k, d) ==
    /\ row[k] # None /\ row[k].digest = d
    /\ CASE row[k].task -> Tell(k, "task") /\ UNCHANGED job
         [] ~row[k].task /\ row[k].error -> Tell(k, "refused") /\ UNCHANGED job
         [] OTHER -> job[k] = None /\ Replay(k)
    /\ UNCHANGED <<config, plans, stored, recovered>>
(* recover: an operator may also replay a plan whose sealing was refused.   *)
Recover(k) ==
    /\ row[k] # None
    /\ IF row[k].task THEN Tell(k, "task") /\ UNCHANGED job ELSE job[k] = None /\ Replay(k)
    /\ recovered' = recovered \union {k}
    /\ UNCHANGED <<config, plans, stored>>

At(k, pc) == job[k] # None /\ job[k].pc = pc
(* finish: the plan is made of the configuration read when it starts ...    *)
Plan(k) ==
    /\ At(k, "plan") /\ plans < MaxPlans /\ plans' = plans + 1
    /\ job' = [job EXCEPT ![k] = [pc |-> "seal", plan |-> [serial |-> plans + 1, rev |-> rev, epoch |-> epoch]]]
    /\ UNCHANGED <<config, stored, told, recovered>>
(* ... and sealed, the parts first and the manifest last ...                *)
Seal(k) ==
    /\ At(k, "seal") /\ manifest' = [manifest EXCEPT ![k] = job[k].plan] /\ Go(k, "snapshot")
    /\ UNCHANGED <<config, plans, row, snap, task, applied, told, recovered>>
(* ... unless either is refused, which is recorded with the reservation.    *)
Refuse(k) ==
    /\ At(k, "plan") \/ At(k, "seal")
    /\ row' = [row EXCEPT ![k].error = TRUE] /\ End(k, "refused")
    /\ UNCHANGED <<config, plans, manifest, snap, task, applied, recovered>>
(* TaskPreparation.submit seals the snapshot; an object that is there must  *)
(* have been sealed of the same content with the current key.               *)
Snapshot(k) ==
    /\ At(k, "snapshot")
    /\ LET object == [serial |-> job[k].plan.serial, ring |-> ring] IN
       IF snap[k] \in {None, object}
       THEN snap' = [snap EXCEPT ![k] = object] /\ Go(k, "dispatch") /\ UNCHANGED told
       ELSE End(k, "conflict") /\ UNCHANGED snap
    /\ UNCHANGED <<config, plans, row, manifest, task, applied, recovered>>
Barrier(p) == ~Maintenance /\ epoch = p.epoch /\ rev = p.rev
\* Faulty: the barrier is asked before the receipt.
DispatchGuarded(k) ==
    /\ At(k, "dispatch")
    /\ IF Barrier(job[k].plan)
       THEN /\ task' = [task EXCEPT ![k] = job[k].plan]
            /\ IF task[k] = None THEN /\ rev' \in {rev, rev + 1} \intersect 1..MaxRev
                                      /\ applied' = [applied EXCEPT ![k] = @ + 1]
               ELSE UNCHANGED <<rev, applied>>
            /\ Go(k, "backfill") /\ UNCHANGED told
       ELSE End(k, "conflict") /\ UNCHANGED <<task, rev, applied>>
    /\ UNCHANGED <<epoch, ring, plans, row, manifest, snap, recovered>>
\* Faulty: no receipt is looked up.
DispatchAnew(k) ==
    /\ At(k, "dispatch")
    /\ \/ /\ Barrier(job[k].plan) /\ task' = [task EXCEPT ![k] = job[k].plan]
          /\ rev' \in {rev, rev + 1} \intersect 1..MaxRev
          /\ applied' = [applied EXCEPT ![k] = @ + 1] /\ Go(k, "backfill") /\ UNCHANGED told
       \/ ~Barrier(job[k].plan) /\ End(k, "conflict") /\ UNCHANGED <<task, rev, applied>>
    /\ UNCHANGED <<epoch, ring, plans, row, manifest, snap, recovered>>
(* The transaction of TaskDispatch.submit: a receipt that is known answers; *)
(* otherwise barrier, settings and task are one transaction.  It may refuse *)
(* for lack of room, too.                                                   *)
Dispatch(k) ==
    /\ At(k, "dispatch")
    /\ \/ task[k] # None /\ Go(k, "backfill") /\ UNCHANGED <<task, rev, applied, told>>
       \/ /\ task[k] = None /\ Barrier(job[k].plan)
          /\ task' = [task EXCEPT ![k] = job[k].plan] /\ rev' \in {rev, rev + 1} \intersect 1..MaxRev
          /\ applied' = [applied EXCEPT ![k] = @ + 1] /\ Go(k, "backfill") /\ UNCHANGED told
       \/ task[k] = None /\ End(k, "conflict") /\ UNCHANGED <<task, rev, applied>>
    /\ UNCHANGED <<epoch, ring, plans, row, manifest, snap, recovered>>
(* The task's identity is stored with the reservation before it is told.    *)
Backfill(k) ==
    /\ At(k, "backfill") /\ row' = [row EXCEPT ![k].task = TRUE] /\ End(k, "task")
    /\ UNCHANGED <<config, plans, manifest, snap, task, applied, recovered>>

(* A restart, perhaps with a newer current key of the ring.                 *)
Crash == /\ \E k \in Keys : job[k] # None
         /\ job' = [k \in Keys |-> None] /\ ring' \in {ring, ring + 1} \intersect 1..MaxRing
         /\ UNCHANGED <<rev, epoch, plans, stored, told, recovered>>
Edit == /\ rev < MaxRev /\ ~Maintenance /\ rev' = rev + 1
        /\ UNCHANGED <<epoch, ring, plans, stored, job, told, recovered>>
SetMaintenance == /\ epoch < MaxEpoch /\ epoch' = epoch + 1
                  /\ UNCHANGED <<rev, ring, plans, stored, job, told, recovered>>

Next == \/ Crash \/ Edit \/ SetMaintenance
        \/ \E k \in Keys : \/ \E d \in Digests : Reserve(k, d) \/ Submit(k, d)
                           \/ Recover(k) \/ Plan(k) \/ Seal(k) \/ Refuse(k)
                           \/ Snapshot(k) \/ Dispatch(k) \/ Backfill(k)
Spec == Init /\ [][Next]_vars

-----------------------------------------------------------------------------
(* The type invariant. *)
TypeOK == /\ rev \in 1..MaxRev /\ epoch \in 0..MaxEpoch /\ ring \in 1..MaxRing /\ plans \in 0..MaxPlans
          /\ \A k \in Keys : told[k] \subseteq {"task", "refused", "closed", "conflict"}
(* An intent becomes at most one task, of the one plan that was sealed for  *)
(* it, and its settings are written once, whatever is retried, recovered or *)
(* restarted; a task that was promised exists.                              *)
IntentMakesOneTask ==
    /\ TypeOK
    /\ \A k \in Keys : /\ applied[k] = (IF task[k] = None THEN 0 ELSE 1)
                       /\ task[k] # None => task[k] = manifest[k]
                       /\ "task" \in told[k] => task[k] # None
(* Who was told that an intent failed closed may use a new key: nothing is  *)
(* ever done for the old one, unless an operator recovers its sealed plan.  *)
RefusalsAreFinal ==
    \A k \in Keys : /\ "closed" \in told[k] => task[k] = None /\ manifest[k] = None
                    /\ "refused" \in told[k] /\ k \notin recovered => task[k] = None
(* A replay of a plan that was submitted finds its task, even when the      *)
(* answer of the submission was lost and the configuration moved on.        *)
LostAnswersAreFound ==
    [][\A k \in Keys : "conflict" \in told'[k] \ told[k] => task[k] = None]_vars
=============================================================================
