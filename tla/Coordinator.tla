---------------------------- MODULE Coordinator ----------------------------
(***************************************************************************)
(* The coordination of the Global Durable Object with the Account Durable  *)
(* Objects (src/src/reliability/coordinator-runtime.ts): deliveries, wakes *)
(* and cancellations go to the accounts, progress and terminal receipts    *)
(* come back, and every object retries on an alarm that is armed before    *)
(* the work and parks when its budget is spent (DurableWakeup).            *)
(*                                                                         *)
(* The tables of the global object are those of TaskDispatch and, of       *)
(* BusinessEffects, business_facts and business_step_state; the tables of  *)
(* an account are those of AccountQueue and coordinator_inbox, _progress   *)
(* and _receipts.  A row of the inbox is written with the job, so it is    *)
(* jobState # "absent".  Every RPC may fail for its caller while the       *)
(* callee handles it at any later time, or never, or twice; every object   *)
(* may restart.  What a step does is AccountRunner's business: here it is  *)
(* claimed, runs, and is reported with any outcome.                        *)
(***************************************************************************)
EXTENDS Integers, FiniteSets

CONSTANTS
  Account, Task, Job, TaskOf, Owner, Place,            \* as in TaskDispatch
  MaxPermits, MaxTasks, MaxPending, MaxWakes,
  MaxSteps, StepCount, MaxActive, Evidence, None,      \* as in AccountQueue
  MaxReceipts,
  Global,       \* the global object
  Budget,       \* failed passes after which an object parks (8 in the code)
  MaxFaults,    \* model bound: failed RPCs and restarts
  MaxToggles,   \* model bound: changes of the maintenance flag
  MaxRequests   \* model bound: rows that are woken or cancelled by users

ASSUME QueueAssumption ==
  /\ None \notin Evidence /\ Owner \in [Job -> Account]
  /\ MaxSteps \in Nat /\ StepCount \in [Job -> 1..MaxSteps]
  /\ MaxActive \in Nat /\ MaxReceipts \in Nat
ASSUME OutboxAssumption ==
  /\ TaskOf \in [Job -> Task] /\ Place \in [Job -> Nat] /\ IsFiniteSet(Job)
  /\ \A i, j \in Job : TaskOf[i] = TaskOf[j] /\ i # j => Owner[i] # Owner[j] /\ Place[i] # Place[j]
  /\ MaxPermits \in Nat /\ MaxTasks \in Nat /\ MaxPending \in Nat /\ MaxWakes \in Nat
  /\ None \notin {"succeeded", "failed", "partial_failed", "cancelled", "partial_cancelled"}
ASSUME GlobalAssumption == Global \notin Account
ASSUME BudgetAssumption == Budget \in Nat \ {0} /\ MaxFaults \in Nat /\ MaxToggles \in Nat /\ MaxRequests \in Nat

Node == Account \union {Global}

VARIABLES
  jobState, cancelRequested, seq, inserted, stepState, token, evidence, minted, receipts,
  order, submitted, state, permit, issued, outcome, wake, wakeAcked, cancelRow,
  facts,        \* business_facts: the states reported of a step
  known,        \* business_step_state, "none" where there is no row
  maintenance,  \* config_meta.maintenance
  toggles,      \* how often it was changed
  progress,     \* coordinator_progress
  receipt,      \* coordinator_receipts: "none", "saved", "acknowledged"
  wrote,        \* unknown steps with a mutation in the journal (execution_calls)
  opened,       \* accounts whose journal was created (the table execution_calls)
  armed,        \* an alarm is set for the object
  failures,     \* coordinator_alarm.failures
  pass,         \* the pass of an object: where it is
  draft,        \* an account's pass: the progress row it is about to save
  todo,         \* the global pass: rows of its current loop still to be sent
  retry,        \* the global pass: some RPC of it failed (retryPending > 0)
  calls,        \* RPCs whose callers wait
  late,         \* requests of callers that do not wait any more
  faults        \* failed RPCs and restarts so far

queueVars == <<jobState, cancelRequested, seq, inserted, stepState, token, evidence,
               minted, receipts>>
dispatchVars == <<order, submitted, state, permit, issued, outcome, wake, wakeAcked,
                  cancelRow>>
effectVars == <<facts, known>>
modeVars == <<maintenance, toggles>>
outboxVars == <<progress, receipt>>
alarmVars == <<armed, failures>>
passVars == <<pass, draft, todo, retry>>
netVars == <<calls, late, faults>>
vars == <<queueVars, dispatchVars, effectVars, modeVars, outboxVars, wrote, opened,
          alarmVars, passVars, netVars>>

Queue == INSTANCE AccountQueue
Outbox == INSTANCE TaskDispatch WITH Outcomes <- {"succeeded", "failed", "partial_failed",
                                                  "cancelled", "partial_cancelled"}

Ordinal == Queue!Ordinal
Step == Job \X Ordinal
StateOf(s) == stepState[s[1]][s[2]]
JobsOf(a) == {j \in Job : Owner[j] = a /\ jobState[j] # "absent"}

FactsOfInterrupted(j) ==
  [o \in Ordinal |-> CASE o \in Queue!Reported(j) -> stepState[j][o]
                       [] stepState[j][o] = "in_flight" -> "unknown"
                       [] OTHER -> "none"]

(* What is reported of the steps of a job, "none" for a step that is not   *)
(* over.                                                                   *)
NoFacts == [o \in Ordinal |-> "none"]
FactsOf(j) == [o \in Ordinal |-> IF o \in Queue!Reported(j) THEN stepState[j][o] ELSE "none"]

NoProgress == [version |-> -1, cancel |-> FALSE, facts |-> NoFacts, acked |-> TRUE]
NoDraft == [job |-> None, row |-> NoProgress, left |-> {}]
Resting == [at |-> "idle", last |-> FALSE, step |-> <<>>]

\* Requests: word is the cancel flag of a delivery, the outcome of a receipt.
Request(method, j, fs, word) == [method |-> method, job |-> j, facts |-> fs, word |-> word]
Calls(n) == {c \in calls : c.from = n}

Init ==
  /\ Queue!Init
  /\ Outbox!Init
  /\ facts = [j \in Job |-> [o \in Ordinal |-> {}]]
  /\ known = [j \in Job |-> NoFacts]
  /\ maintenance = FALSE
  /\ toggles = 0
  /\ progress = [j \in Job |-> NoProgress]
  /\ receipt = [j \in Job |-> "none"]
  /\ wrote = {} /\ opened = {}
  /\ armed = [n \in Node |-> FALSE]
  /\ failures = [n \in Node |-> 0]
  /\ pass = [n \in Node |-> Resting]
  /\ draft = [a \in Account |-> NoDraft]
  /\ todo = {}
  /\ retry = FALSE
  /\ calls = {}
  /\ late = {}
  /\ faults = 0

-----------------------------------------------------------------------------
(* DurableWakeup.                                                          *)

(* wake: the alarm is set and the budget is whole again. *)
Wake(n) ==
  /\ armed' = [armed EXCEPT ![n] = TRUE]
  /\ failures' = [failures EXCEPT ![n] = 0]

(* The alarm goes off.  Where there is work and budget, the next alarm is  *)
(* set before the pass begins (beforePass); otherwise the object sleeps.   *)
Alarm(n, work, first) ==
  /\ armed[n] /\ pass[n].at = "idle"
  /\ IF work /\ failures[n] < Budget
     THEN /\ failures' = [failures EXCEPT ![n] = @ + 1]
          /\ pass' = [pass EXCEPT ![n] = [Resting EXCEPT !.at = first]]
          /\ UNCHANGED armed
     ELSE /\ armed' = [armed EXCEPT ![n] = FALSE]
          /\ UNCHANGED <<failures, pass>>

\* Faulty: the budget is not restored.
EndPassUncounted(n, well) ==
  /\ pass' = [pass EXCEPT ![n] = Resting]
  /\ UNCHANGED alarmVars

(* The pass ends; its failure counts until one ends well (succeeded). *)
EndPass(n, well) ==
  /\ pass' = [pass EXCEPT ![n] = Resting]
  /\ failures' = [failures EXCEPT ![n] = IF well THEN 0 ELSE @]
  /\ UNCHANGED armed

-----------------------------------------------------------------------------
(* Users and operators.                                                    *)

Submit(t) ==
  /\ ~maintenance
  /\ Wake(Global)
  /\ Outbox!Submit(t)
  /\ UNCHANGED <<queueVars, effectVars, modeVars, outboxVars, wrote, opened, passVars, netVars>>

Requests == Cardinality({j \in Job : wake[j] > 0}) + Cardinality({j \in Job : cancelRow[j] # "none"})

RequestWake(t) ==
  /\ ~maintenance /\ Requests < MaxRequests
  /\ \A j \in Outbox!Rows(t) : wake[j] < MaxWakes
  /\ Wake(Global)
  /\ Outbox!RequestWake(t)
  /\ UNCHANGED <<queueVars, effectVars, modeVars, outboxVars, wrote, opened, passVars, netVars>>

(* Bounded to the first request: another one only sets the alarm.          *)
RequestCancel(t) ==
  /\ Requests < MaxRequests
  /\ \E j \in Outbox!Rows(t) : cancelRow[j] = "none" /\ state[j] # "terminal"
  /\ Wake(Global)
  /\ Outbox!RequestCancel(t)
  /\ UNCHANGED <<queueVars, effectVars, modeVars, outboxVars, wrote, opened, passVars, netVars>>

ToggleMaintenance ==
  /\ toggles < MaxToggles
  /\ maintenance' = ~maintenance
  /\ toggles' = toggles + 1
  /\ UNCHANGED <<queueVars, dispatchVars, effectVars, outboxVars, wrote, opened, alarmVars,
                 passVars, netVars>>

(* The adjudicate handler: in maintenance operators close the write of an  *)
(* unknown step as failed, while no pass of the account runs.              *)
CloseFailed(s) ==
  /\ maintenance
  /\ pass[Owner[s[1]]].at = "idle"
  /\ s \in wrote /\ StateOf(s) = "unknown"
  /\ \E e \in Evidence : Queue!Reconcile(s[1], s[2], token[s[1]][s[2]], "failed", e)
  /\ UNCHANGED <<dispatchVars, effectVars, modeVars, outboxVars, wrote, opened, alarmVars,
                 passVars, netVars>>

-----------------------------------------------------------------------------
(* AccountCoordinatorRuntime.handle.                                       *)

(* deliver: the job and its inbox row are written at once; a known one is  *)
(* only cancelled, where the delivery says so.                             *)
ReceiveDeliver(m, reply) ==
  LET j == m.job  full == Cardinality(Queue!Active(Owner[j])) >= MaxActive
  IN  /\ Wake(Owner[j])
      /\ reply = IF jobState[j] = "absent" /\ full THEN "refused" ELSE "ok"
      /\ IF jobState[j] = "absent" /\ ~full
         THEN Queue!Enqueue(j, m.word = "cancelled")
         ELSE IF m.word = "cancelled" /\ jobState[j] \in Queue!Unfinished
         THEN Queue!CancelLocal(j)
         ELSE UNCHANGED queueVars
      /\ UNCHANGED <<dispatchVars, effectVars>>

(* cancel: refused where the delivery is not known.                        *)
ReceiveCancel(m, reply) ==
  LET j == m.job
  IN  /\ reply = IF jobState[j] = "absent" THEN "refused" ELSE "ok"
      /\ IF jobState[j] = "absent" THEN UNCHANGED alarmVars ELSE Wake(Owner[j])
      /\ IF jobState[j] \in Queue!Unfinished
         THEN Queue!CancelLocal(j)
         ELSE UNCHANGED queueVars
      /\ UNCHANGED <<dispatchVars, effectVars>>

-----------------------------------------------------------------------------
(* GlobalCoordinatorRuntime.handle.                                        *)

(* BusinessEffects.apply: facts that are not recorded yet must be new or   *)
(* settle an unknown, and a verified step follows verified ones.           *)
Fresh(m) == {o \in Ordinal : m.facts[o] # "none" /\ m.facts[o] \notin facts[m.job][o]}
Merged(m) == [o \in Ordinal |-> IF o \in Fresh(m) THEN m.facts[o] ELSE known[m.job][o]]
Acceptable(m) ==
  \A o \in Fresh(m) :
    /\ state[m.job] # "terminal"
    /\ \/ known[m.job][o] = "none"
       \/ known[m.job][o] = "unknown" /\ m.facts[o] \in {"verified", "failed"}
    /\ m.facts[o] = "verified" =>
         \A p \in Ordinal : p < o => Merged(m)[p] = "verified"

ReceiveProgress(m, reply) ==
  LET j == m.job
  IN  /\ reply = IF Acceptable(m) THEN "ok" ELSE "refused"
      /\ IF Acceptable(m)
         THEN /\ known' = [known EXCEPT ![j] = Merged(m)]
              /\ facts' = [facts EXCEPT ![j] = [o \in Ordinal |->
                   IF o \in Fresh(m) THEN @[o] \union {m.facts[o]} ELSE @[o]]]
         ELSE UNCHANGED effectVars
      /\ UNCHANGED <<queueVars, dispatchVars, alarmVars>>

(* BusinessEffects.assertComplete: the receipt says what the facts say.    *)
AllFactsKnown(j, word) ==
  LET is(x) == \E o \in Queue!Planned(j) : known[j][o] = x
  IN  /\ \A o \in Queue!Planned(j) : known[j][o] \in {"verified", "failed", "skipped"}
      /\ word = CASE \A o \in Queue!Planned(j) : known[j][o] = "verified" -> "succeeded"
                  [] is("failed") -> IF is("verified") THEN "partial_failed" ELSE "failed"
                  [] OTHER -> IF is("verified") THEN "partial_cancelled" ELSE "cancelled"

\* Faulty: the rows that wait for the permit are not thought of.
ReceiveCompleteQuietly(m, reply) ==
  LET j == m.job
      ok == /\ AllFactsKnown(j, m.word)
            /\ \/ state[j] \in Outbox!Holding
               \/ state[j] = "terminal" /\ outcome[j] = m.word
  IN  /\ reply = IF ok THEN "ok" ELSE "refused"
      /\ IF ok /\ state[j] # "terminal"
         THEN Outbox!Complete(j, permit[j], m.word)
         ELSE UNCHANGED dispatchVars
      /\ UNCHANGED <<queueVars, effectVars, alarmVars>>

(* complete: the global object is woken, whatever becomes of the receipt.  *)
ReceiveComplete(m, reply) ==
  LET j == m.job
      ok == /\ AllFactsKnown(j, m.word)
            /\ \/ state[j] \in Outbox!Holding
               \/ state[j] = "terminal" /\ outcome[j] = m.word
  IN  /\ Wake(Global)
      /\ reply = IF ok THEN "ok" ELSE "refused"
      /\ IF ok /\ state[j] # "terminal"
         THEN Outbox!Complete(j, permit[j], m.word)
         ELSE UNCHANGED dispatchVars
      /\ UNCHANGED <<queueVars, effectVars>>

Receive(m, reply) ==
  \/ m.method = "deliver" /\ ReceiveDeliver(m, reply)
  \/ m.method = "cancel" /\ ReceiveCancel(m, reply)
  \/ m.method = "progress" /\ ReceiveProgress(m, reply)
  \/ m.method = "complete" /\ ReceiveComplete(m, reply)

-----------------------------------------------------------------------------
(* RPCs (sendCoordinatorRpc): the caller waits for a reply or gives up at  *)
(* its deadline, and the request may be handled long after that.           *)

Send(n, m, request) ==
  calls' = calls \union {[from |-> n, msg |-> m, request |-> request, reply |-> "none"]}

(* The object restarts: its pass is gone, its requests are not. *)
Restart(n, waiting) ==
  /\ pass' = [pass EXCEPT ![n] = Resting]
  /\ draft' = [a \in Account |-> IF a = n THEN NoDraft ELSE draft[a]]
  /\ todo' = IF n = Global THEN {} ELSE todo
  /\ retry' = IF n = Global THEN FALSE ELSE retry
  /\ late' = waiting \union {c.msg : c \in Calls(n)}

(* Deliveries and receipts are handled in blockConcurrencyWhile: the       *)
(* platform restarts an object whose callback throws.                      *)
Throws(m, reply) == reply = "refused" /\ m.method \in {"deliver", "complete"}
Callee(m) == IF m.method \in {"deliver", "cancel"} THEN Owner[m.job] ELSE Global

Serve(c) ==
  /\ c \in calls /\ c.reply = "none"
  /\ \E r \in {"ok", "refused"} :
       /\ Receive(c.msg, r)
       /\ LET n == Callee(c.msg)  answered == [c EXCEPT !.reply = r]
          IN  \/ /\ calls' = (calls \ {c}) \union {answered}
                 /\ UNCHANGED <<passVars, late>>
              \/ /\ Throws(c.msg, r)
                 /\ Restart(n, late)
                 /\ calls' = (calls \ ({c} \union Calls(n))) \union {answered}
  /\ UNCHANGED <<modeVars, outboxVars, wrote, opened, faults>>

ServeLate(m) ==
  /\ m \in late
  /\ \E r \in {"ok", "refused"} :
       /\ Receive(m, r)
       /\ \/ late' = late \ {m} /\ UNCHANGED <<passVars, calls>>
          \/ /\ Throws(m, r)
             /\ Restart(Callee(m), late \ {m})
             /\ calls' = calls \ Calls(Callee(m))
  /\ UNCHANGED <<modeVars, outboxVars, wrote, opened, faults>>

(* The caller goes on: the global pass notes a failure and continues, an   *)
(* account's pass ends with it.                                            *)
GlobalResume(c, well) ==
  LET j == c.msg.job
  IN  /\ retry' = (retry \/ ~well)
      /\ IF ~well THEN UNCHANGED dispatchVars
         ELSE IF c.msg.method = "cancel" THEN Outbox!AcknowledgeCancel(j, permit[j])
         ELSE IF c.request > 0 THEN Outbox!AcknowledgeWake(j, permit[j], c.request)
         ELSE IF state[j] = "sending" THEN Outbox!Acknowledge(j, permit[j])
         ELSE UNCHANGED dispatchVars
      /\ UNCHANGED <<outboxVars, alarmVars, pass>>

(* Progress counts as acknowledged if its row still says what was sent.    *)
AccountResume(c, well) ==
  LET j == c.msg.job
  IN  /\ IF well THEN UNCHANGED <<alarmVars, pass>> ELSE EndPass(c.from, FALSE)
      /\ progress' = [progress EXCEPT ![j].acked =
           @ \/ (well /\ c.msg.method = "progress" /\ progress[j].facts = c.msg.facts)]
      /\ receipt' = [receipt EXCEPT ![j] =
           IF well /\ c.msg.method = "complete" THEN "acknowledged" ELSE @]
      /\ UNCHANGED <<dispatchVars, retry>>

Resume(c, well) ==
  /\ IF c.from = Global THEN GlobalResume(c, well) ELSE AccountResume(c, well)
  /\ calls' = calls \ {c}
  /\ UNCHANGED <<queueVars, effectVars, modeVars, wrote, opened, draft, todo>>

Return(c) ==
  /\ c \in calls /\ c.reply # "none"
  /\ Resume(c, c.reply = "ok")
  /\ UNCHANGED <<late, faults>>

GiveUp(c) ==
  /\ c \in calls /\ faults < MaxFaults
  /\ Resume(c, FALSE)
  /\ late' = late \union {c.msg}
  /\ faults' = faults + 1

(* A crash, a deployment, or an exception a user's request raised.  *)
Crash(n) ==
  /\ pass[n].at # "idle" /\ faults < MaxFaults
  /\ Restart(n, late)
  /\ calls' = calls \ Calls(n)
  /\ faults' = faults + 1
  /\ UNCHANGED <<queueVars, dispatchVars, effectVars, modeVars, outboxVars, wrote, opened,
                 alarmVars>>

-----------------------------------------------------------------------------
(* The global pass: reserve and deliver, then wakes, then cancellations.   *)

Deliverable ==
  \/ \E j \in Job : state[j] = "sending"
  \/ Cardinality(Outbox!Permits) < MaxPermits /\ Outbox!Heads # {}

\* Faulty: maintenance stops cancellations too.
GlobalWorkOutsideMaintenance ==
  ~maintenance /\ (Deliverable \/ Outbox!PendingWakes # {} \/ Outbox!PendingCancels # {})

GlobalWork == \/ ~maintenance /\ (Deliverable \/ Outbox!PendingWakes # {})
              \/ Outbox!PendingCancels # {}

GlobalAlarm ==
  /\ Alarm(Global, GlobalWork, "start")
  /\ retry' = FALSE
  /\ UNCHANGED <<queueVars, dispatchVars, effectVars, modeVars, outboxVars, wrote, opened, draft,
                 todo, netVars>>

ToWake == {[job |-> j, request |-> wake[j]] : j \in Outbox!PendingWakes}
ToCancel == {[job |-> j, request |-> 0] : j \in Outbox!PendingCancels}

(* Maintenance is looked at again once the alarm is set.                   *)
GlobalStart ==
  /\ pass[Global].at = "start"
  /\ IF maintenance
     THEN /\ UNCHANGED dispatchVars
          /\ pass' = [pass EXCEPT ![Global].at = "cancel"]
          /\ todo' = ToCancel
     ELSE \E R \in SUBSET Job :
            /\ Outbox!Granted(R)
            /\ IF R = {} THEN UNCHANGED dispatchVars ELSE Outbox!Reserve(R)
            /\ pass' = [pass EXCEPT ![Global].at = "deliver"]
            /\ todo' = {[job |-> j, request |-> 0] : j \in {i \in Job : state'[i] = "sending"}}
  /\ UNCHANGED <<queueVars, effectVars, modeVars, outboxVars, wrote, opened, alarmVars, draft,
                 retry, netVars>>

(* All deliveries are sent at once, wakes and cancellations one by one.    *)
(* A row that may not be sent any more counts as a failure.                *)
GlobalSend(w) ==
  LET j == w.job  at == pass[Global].at
      word == IF cancelRow[j] # "none" THEN "cancelled" ELSE "go"
  IN  /\ w \in todo
      /\ at = "deliver" \/ Calls(Global) = {}
      /\ todo' = todo \ {w}
      /\ IF state[j] \in Outbox!Holding /\ (maintenance => at = "cancel")
         THEN /\ IF at = "cancel"
                 THEN Send(Global, Request("cancel", j, NoFacts, "go"), 0)
                 ELSE Send(Global, Request("deliver", j, NoFacts, word), w.request)
              /\ UNCHANGED retry
         ELSE retry' = TRUE /\ UNCHANGED calls
      /\ UNCHANGED <<queueVars, dispatchVars, effectVars, modeVars, outboxVars, wrote, opened,
                     alarmVars, pass, draft, late, faults>>

(* The next loop that has something to send, or the end of the pass. *)
GlobalProceed ==
  LET at == pass[Global].at
      wakes == IF at = "deliver" THEN ToWake ELSE {}
      cancels == IF at # "cancel" THEN ToCancel ELSE {}
  IN  /\ at \in {"deliver", "wake", "cancel"}
      /\ todo = {} /\ Calls(Global) = {}
      /\ IF wakes \union cancels = {}
         THEN EndPass(Global, ~retry) /\ UNCHANGED todo
         ELSE /\ pass' = [pass EXCEPT ![Global].at = IF wakes # {} THEN "wake" ELSE "cancel"]
              /\ todo' = IF wakes # {} THEN wakes ELSE cancels
              /\ UNCHANGED alarmVars
      /\ UNCHANGED <<queueVars, dispatchVars, effectVars, modeVars, outboxVars, wrote, opened,
                     draft, retry, netVars>>

-----------------------------------------------------------------------------
(* The account's pass: report progress and receipts, run one step, report  *)
(* its progress.                                                           *)

(* progressChanges. *)
Changed(j) == progress[j].version # receipts[j] \/ progress[j].cancel # cancelRequested[j]

(* Unknown steps without a recorded write, where there is a journal.       *)
Healable(a) ==
  IF a \in opened
  THEN {s \in Step : Owner[s[1]] = a /\ StateOf(s) = "unknown" /\ s \notin wrote}
  ELSE {}

AccountWork(a) ==
  \/ \E j \in JobsOf(a) :
       \/ jobState[j] \in {"queued", "running"}
       \/ jobState[j] \in Queue!Terminal /\ receipt[j] # "acknowledged"
       \/ Changed(j) \/ ~progress[j].acked
  \/ Healable(a) # {}

AccountAlarm(a) ==
  /\ Alarm(a, AccountWork(a), "reading")
  /\ UNCHANGED <<queueVars, dispatchVars, effectVars, modeVars, outboxVars, wrote, opened, draft,
                 todo, retry, netVars>>

(* saveProgress: the jobs that changed are listed once.  For one after the *)
(* other the steps are read, their results unsealed, and only then the row *)
(* is written, with the version of the list.                               *)
ReadNext(a, left) ==
  IF left = {}
  THEN /\ draft' = [draft EXCEPT ![a] = NoDraft]
       /\ pass' = [pass EXCEPT ![a].at = "reporting"]
  ELSE /\ \E d \in left :
            draft' = [draft EXCEPT ![a] =
              [job |-> d.job, left |-> left \ {d},
               row |-> [version |-> d.version, cancel |-> d.cancel, facts |-> FactsOf(d.job),
                        acked |-> FactsOf(d.job) = NoFacts]]]
       /\ pass' = [pass EXCEPT ![a].at = "writing"]

ReadProgress(a) ==
  /\ pass[a].at = "reading"
  /\ ReadNext(a, {[job |-> j, version |-> receipts[j], cancel |-> cancelRequested[j]] :
                     j \in {k \in JobsOf(a) : Changed(k)}})
  /\ UNCHANGED <<queueVars, dispatchVars, effectVars, modeVars, outboxVars, wrote, opened,
                 alarmVars, todo, retry, netVars>>

\* Faulty: the version and the flag are those of the moment of the write.
WriteProgressUnread(a) ==
  LET j == draft[a].job
  IN  /\ pass[a].at = "writing"
      /\ progress' = [progress EXCEPT ![j] =
           [draft[a].row EXCEPT !.version = receipts[j], !.cancel = cancelRequested[j]]]
      /\ ReadNext(a, draft[a].left)
      /\ UNCHANGED <<queueVars, dispatchVars, effectVars, modeVars, receipt, wrote, opened, alarmVars,
                     todo, retry, netVars>>

WriteProgress(a) ==
  /\ pass[a].at = "writing"
  /\ progress' = [progress EXCEPT ![draft[a].job] = draft[a].row]
  /\ ReadNext(a, draft[a].left)
  /\ UNCHANGED <<queueVars, dispatchVars, effectVars, modeVars, receipt, wrote, opened, alarmVars,
                 todo, retry, netVars>>

SendProgress(a, j) ==
  /\ pass[a].at = "reporting" /\ Calls(a) = {}
  /\ j \in JobsOf(a) /\ ~progress[j].acked
  /\ Send(a, Request("progress", j, progress[j].facts, "go"), 0)
  /\ UNCHANGED <<queueVars, dispatchVars, effectVars, modeVars, outboxVars, wrote, opened,
                 alarmVars, passVars, late, faults>>

(* saveReceipts, once all progress is acknowledged.  The pass ends well    *)
(* with the receipts that follow its step.                                 *)
SaveReceipts(a) ==
  /\ pass[a].at = "reporting" /\ Calls(a) = {}
  /\ \A j \in JobsOf(a) : progress[j].acked
  /\ receipt' = [j \in Job |->
       IF Owner[j] = a /\ jobState[j] \in Queue!Terminal /\ receipt[j] = "none"
       THEN "saved" ELSE receipt[j]]
  /\ IF pass[a].last
     THEN EndPass(a, TRUE)
     ELSE pass' = [pass EXCEPT ![a].at = "completing"] /\ UNCHANGED alarmVars
  /\ UNCHANGED <<queueVars, dispatchVars, effectVars, modeVars, progress, wrote, opened, draft,
                 todo, retry, netVars>>

SendComplete(a, j) ==
  /\ pass[a].at = "completing" /\ Calls(a) = {}
  /\ j \in JobsOf(a) /\ receipt[j] = "saved"
  /\ Send(a, Request("complete", j, NoFacts, jobState[j]), 0)
  /\ UNCHANGED <<queueVars, dispatchVars, effectVars, modeVars, outboxVars, wrote, opened,
                 alarmVars, passVars, late, faults>>

(* All receipts are acknowledged: the pass comes to the runner.            *)
Reported(a) == /\ pass[a].at = "completing" /\ Calls(a) = {}
               /\ \A j \in JobsOf(a) : receipt[j] # "saved"

(* A step in doubt ends the pass, unless it can be settled.                *)
RestInDoubt(a) ==
  /\ Reported(a)
  /\ Healable(a) = {} /\ \E s \in Step : Owner[s[1]] = a /\ StateOf(s) = "unknown"
  /\ EndPass(a, FALSE)
  /\ UNCHANGED <<queueVars, dispatchVars, effectVars, modeVars, outboxVars, wrote, opened, draft,
                 todo, retry, netVars>>

(* AccountRunner.tick: steps that wrote nothing are settled, then one step *)
(* is resumed or claimed, and it is reported.                              *)
Heal(a, s) ==
  /\ Reported(a) /\ s \in Healable(a)
  /\ \E e \in Evidence : Queue!Reconcile(s[1], s[2], token[s[1]][s[2]], "failed", e)
  /\ UNCHANGED <<dispatchVars, effectVars, modeVars, outboxVars, wrote, opened, alarmVars,
                 passVars, netVars>>

Run(a, s) ==
  /\ Reported(a) /\ Owner[s[1]] = a
  /\ \/ StateOf(s) = "in_flight" /\ UNCHANGED queueVars
     \/ Queue!Claim(a, s[1], s[2])
  /\ pass' = [pass EXCEPT ![a] = [@ EXCEPT !.at = "executing", !.step = s]]
  /\ UNCHANGED <<dispatchVars, effectVars, modeVars, outboxVars, wrote, opened, alarmVars, draft,
                 todo, retry, netVars>>

NothingToRun(a) ==
  /\ Reported(a)
  /\ ~Queue!Busy(a) /\ Queue!Claimable(a) = {}
  /\ pass' = [pass EXCEPT ![a] = [Resting EXCEPT !.at = "reading", !.last = TRUE]]
  /\ UNCHANGED <<queueVars, dispatchVars, effectVars, modeVars, outboxVars, wrote, opened,
                 alarmVars, draft, todo, retry, netVars>>

(* The step is authorized and its input is there: its journal is opened.   *)
Open(a) ==
  /\ pass[a].at = "executing" /\ a \notin opened
  /\ opened' = opened \union {a}
  /\ UNCHANGED <<queueVars, dispatchVars, effectVars, modeVars, outboxVars, wrote,
                 alarmVars, passVars, netVars>>

(* What a step does, it does with a journal; it is unknown without one if  *)
(* it was not authorized.                                                  *)
Execute(a, result, mutated) ==
  LET s == pass[a].step
  IN  /\ pass[a].at = "executing"
      /\ result # "unknown" => a \in opened
      /\ mutated => result = "unknown" /\ a \in opened
      /\ \E e \in Evidence : Queue!Finish(s[1], s[2], token[s[1]][s[2]], result, e)
      /\ wrote' = IF mutated THEN wrote \union {s} ELSE wrote
      /\ pass' = [pass EXCEPT ![a] = [Resting EXCEPT !.at = "reading", !.last = TRUE]]
      /\ UNCHANGED <<dispatchVars, effectVars, modeVars, outboxVars, opened, alarmVars, draft,
                     todo, retry, netVars>>

-----------------------------------------------------------------------------
GlobalPass == \/ GlobalStart \/ GlobalProceed
              \/ \E w \in todo : GlobalSend(w)

AccountPass(a) ==
  \/ ReadProgress(a) \/ WriteProgress(a) \/ SaveReceipts(a) \/ RestInDoubt(a)
  \/ \E j \in Job : SendProgress(a, j) \/ SendComplete(a, j)
  \/ \E s \in Step : Heal(a, s) \/ Run(a, s)
  \/ NothingToRun(a) \/ Open(a)
  \/ \E result \in Queue!Outcome, mutated \in BOOLEAN : Execute(a, result, mutated)

Next ==
  \/ \E t \in Task : Submit(t) \/ RequestWake(t) \/ RequestCancel(t)
  \/ ToggleMaintenance
  \/ \E s \in Step : CloseFailed(s)
  \/ GlobalAlarm \/ GlobalPass
  \/ \E a \in Account : AccountAlarm(a) \/ AccountPass(a)
  \/ \E c \in calls : Serve(c) \/ Return(c) \/ GiveUp(c)
  \/ \E m \in late : ServeLate(m)
  \/ \E n \in Node : Crash(n)

Spec == Init /\ [][Next]_vars

(* Alarms go off, a pass goes on, and an RPC that does not fail is         *)
(* answered.  Nothing is expected of users and operators, or of requests   *)
(* nobody waits for.                                                       *)
Fairness ==
  /\ WF_vars(GlobalAlarm) /\ WF_vars(GlobalPass)
  /\ \A a \in Account : WF_vars(AccountAlarm(a)) /\ WF_vars(AccountPass(a))
  /\ WF_vars(\E c \in calls : c.from = Global /\ (Serve(c) \/ Return(c)))
  /\ \A a \in Account : WF_vars(\E c \in calls : c.from = a /\ (Serve(c) \/ Return(c)))

FairSpec == Spec /\ Fairness
-----------------------------------------------------------------------------
Message == [method : {"deliver", "cancel", "progress", "complete"}, job : Job,
            facts : [Ordinal -> {"none"} \union Queue!Outcome \union {"skipped"}],
            word : {"go"} \union Queue!Terminal]

CoordinatorTypeOK ==
  /\ Queue!TypeOK /\ Outbox!TypeOK
  /\ facts \in [Job -> [Ordinal -> SUBSET (Queue!Outcome \union {"skipped"})]]
  /\ known \in [Job -> [Ordinal -> {"none"} \union Queue!Outcome \union {"skipped"}]]
  /\ maintenance \in BOOLEAN /\ toggles \in 0..MaxToggles
  /\ receipt \in [Job -> {"none", "saved", "acknowledged"}]
  /\ wrote \subseteq Step /\ opened \subseteq Account
  /\ armed \in [Node -> BOOLEAN] /\ failures \in [Node -> 0..Budget]
  /\ \A c \in calls : c.from \in Node /\ c.msg \in Message
  /\ late \subseteq Message
  /\ faults \in 0..MaxFaults

(* A permit covers the work it was given for: as long as a job of an       *)
(* account is not over, the global object counts it (coordinator-runtime   *)
(* .ts:43-45: there is no timeout-based unlock).                           *)
PermitCoversWork ==
  \A j \in Job : jobState[j] \in Queue!Unfinished => state[j] \in Outbox!Holding

(* An account has at most one job that the global object does not know to  *)
(* be over: AccountRunner relies on it (DeliverJob).                       *)
OneOpenDelivery ==
  \A i, j \in Job :
    /\ Owner[i] = Owner[j] /\ i # j
    /\ jobState[i] # "absent" /\ jobState[j] # "absent"
    => state[i] = "terminal" \/ state[j] = "terminal"

(* What the global object holds to be the outcome of a row is what became  *)
(* of the job, whatever was late, doubled or lost on the way.              *)
OutcomeIsTrue ==
  \A j \in Job : state[j] = "terminal" =>
    outcome[j] = jobState[j] /\ known[j] = FactsOf(j)

(* A fact the global object has recorded is true; what it holds to be in   *)
(* doubt may have been settled since.                                      *)
FactsAreTrue ==
  \A j \in Job : \A o \in Ordinal :
    /\ known[j][o] \in {"verified", "failed", "skipped"} => stepState[j][o] = known[j][o]
    /\ known[j][o] = "unknown" => stepState[j][o] \in {"unknown", "verified", "failed"}

(* When an account has reported a job and nothing of it changed since, the *)
(* global object knows all of it: progress that was acknowledged is never  *)
(* missing.                                                                *)
AcknowledgedIsKnown ==
  \A j \in Job : jobState[j] # "absent" =>
    /\ ~Changed(j) /\ progress[j].acked => known[j] = FactsOf(j)
    /\ receipt[j] = "acknowledged" => state[j] = "terminal"

(* An acknowledged delivery was received, an acknowledged cancellation has *)
(* reached the job before it was over.                                     *)
AcknowledgedIsReceived ==
  \A j \in Job :
    /\ state[j] = "accepted" => jobState[j] # "absent"
    /\ cancelRow[j] = "acknowledged" => cancelRequested[j] \/ jobState[j] \in Queue!Terminal

(* What the global object holds of an account is covered by what the       *)
(* account does: permits and open jobs belong together, acknowledged       *)
(* requests were received.                                                 *)
PermitsCoverWork == CoordinatorTypeOK /\ PermitCoversWork /\ OneOpenDelivery /\ AcknowledgedIsReceived

(* What the global object believes of a job is true, of its steps and of   *)
(* its outcome.                                                            *)
BeliefsAreTrue == OutcomeIsTrue /\ FactsAreTrue

(* No wake-up is lost: an object that has work but neither an alarm nor a  *)
(* pass has spent its budget.  (Only without maintenance: in it the global *)
(* object may go to sleep over deliveries, an operator settles a step and  *)
(* wakes nobody, and nothing but a request of a user wakes them.)          *)
Asleep(n) == ~armed[n] /\ pass[n].at = "idle" /\ failures[n] < Budget
NoWakeUpIsLost ==
  toggles = 0 =>
    /\ \A a \in Account : Asleep(a) => ~AccountWork(a)
    /\ Asleep(Global) => ~GlobalWork

(* A step in doubt that no pass settles: a write of it is recorded, or     *)
(* there is no journal to show that there was none.                        *)
InDoubt(a) ==
  \E s \in Step : /\ Owner[s[1]] = a /\ StateOf(s) = "unknown"
                  /\ s \in wrote \/ a \notin opened

(* Every submitted row ends, unless its account, or one that keeps it from *)
(* a permit, is in doubt, or operators interfere: fewer faults than the    *)
(* budget of the alarms do not stop it.                                    *)
RowsEnd ==
  \A j \in Job : (state[j] # "absent") ~>
    (state[j] = "terminal" \/ (\E a \in Account : InDoubt(a))
       \/ faults >= Budget \/ toggles > 0)

(* A cancellation reaches the account that holds the permit, in doubt or   *)
(* in maintenance.                                                         *)
CancellationsArrive ==
  \A j \in Job : (state[j] = "accepted" /\ cancelRow[j] = "requested") ~>
    (cancelRequested[j] \/ jobState[j] \in Queue!Terminal)

(* A job that is over is reported, and its permit is given back.           *)
PermitsReturn ==
  \A j \in Job : (jobState[j] \in Queue!Terminal) ~> (state[j] = "terminal")

=============================================================================
