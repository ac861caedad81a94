# Verification of cfauto

cfauto is a control panel that manages Cloudflare Workers in many accounts. Its
authority mode (`src/src/reliability`) turns a request of the panel into a durable
task and executes it without ever repeating a write whose effect is uncertain; the
compatibility mode (`src/src/lib`, `src/src/routes`) deploys directly; the panel
(`src/frontend`) edits the configuration; scripts release an installation and move it
from one mode to the other. This directory holds TLA+ modules of these parts, the TLC
runs that check them and the proofs that TLAPS checks.

`PROJECT.json` maps every definition to the lines it models, lists the components, the
hazards with the properties that cover them, the runs, for every property a mutation of
the model it catches, the findings and the theorems.

## 1. The system

| component | state it keeps | operations | what makes it correct |
|---|---|---|---|
| `TaskDispatch` (global Durable Object) | `dispatch_tasks`, `_outbox`, `_wakeups`, `_cancellations` | submit, reserve, acknowledge, complete, wake, cancel | few accounts hold a permit, one each, in submission order; a permit ends only with a terminal receipt |
| `GlobalCoordinatorRuntime` | the alarm, its failure count | deliver, wake, cancel; authorize, snapshot, progress, complete | whatever an RPC loses or delays, a task ends with the outcome of its account |
| `AccountQueue` (a Durable Object per account) | `account_jobs`, `_steps`, `_receipts` | enqueue, claim, finish, reconcile, cancel | one uncertain step per account; steps in plan order; records are final |
| `AccountCoordinatorRuntime` | inbox, progress, receipts, the alarm | alarm pass, deliver, cancel | every fact and every terminal state is reported |
| `AccountRunner`, `ExecutionJournal` | `execution_calls`, sealed requests, responses and results | settle, resume or claim, execute, seal, report | a write is sent once; what is recorded agrees with the provider |
| executors | nothing of their own | the requests of each kind of step | failed only if nothing is left behind, verified only in the state that was meant |
| `BusinessEffects`, `DeploymentLedger` | step facts, deployment runs, `deployment:*` records | apply, register, complete | recorded versions are those that run; older runs do not overwrite newer ones |
| `ConfigStore`, `ConfigEditor`, `CredentialAuthority`, `ConfigProjection` | revisioned records, receipts, outbox of changes, credentials | compare-and-set edits, maintenance, encrypted writes, hints | no edit is lost or based on stale state; no override outlives its account |
| `BusinessAdmission`, `TaskPreparation`, `SealedStore` | reservations, sealed plans | admit, seal, submit, recover | an intent becomes at most one task; a refusal is final |
| `AccountDrain`, `AuthorityDrain`, imports, activation | fences, drain sessions, import sessions | probe, advance, release, import, activate | nothing is at work in a generation that was retired; no seal stays behind |
| automation, `WebhookOutbox` | cycles, flows, lanes, notices | open, tick, drive, observe, send | a lane says what became of its task; at most one notice; older windows do not undo newer ones |
| compatibility mode | KV: ledger, codes, overrides | deploy, batch, repair, fuse, scheduled update | no worker that is known to be behind is forgotten; rotations stay |
| panel | a form, the accepted revision, unconfirmed saves | load, edit, save, retry | a save takes away nothing its author has not seen |
| release scripts | a journal of twelve phases, backups | run, verify, resume | a phase is done once; the authority opens with everything the old worker wrote |
| maintenance commands, archives, transport, other routes | | | not modelled, see section 7 |

How they interact: the gateway calls the global object, which admits a task and writes
one outbox row per account. Its alarm pass reserves permits and delivers rows by RPC.
The account object inserts the job, arms its own alarm and, pass by pass, claims a step,
has it authorized by the global object, executes it through the journal and records the
outcome. It reports facts (`progress`) and then the terminal state (`complete`), which
releases the permit. Both objects are single threaded, but every `await` of an RPC, an
HTTP call or WebCrypto lets other messages in, and a Durable Object may be evicted at
any of them; its alarm then starts the pass again.

What is hard to test: replay after a crash at each of these points; answers that arrive
after a deadline; state read before an `await` and used after it; cancellations, edits
and removals that race what was planned on their basis; steps that can be settled by
nobody; releases that stop half way. The list, line by line, is `hazards` in
`PROJECT.json`.

## 2. Modules

| module | models |
|---|---|
| `AccountQueue` | `account-queue.ts`, one action per transaction; the databases of all accounts together, `Owner` says where a job lives |
| `TaskDispatch` | `task-dispatch.ts`, one action per transaction; `reserve`'s loop is the set of rows it grants |
| `AccountRunner` | `account-runner.ts`, `execution-journal.ts`, `unknown-adjudication.ts` and the part of `coordinator-runtime.ts` that starts a pass; extends `AccountQueue`, whose transactions its steps run |
| `Coordinator` | `coordinator-runtime.ts` of both roles: DurableWakeup, both alarm passes, the handlers and the RPC between them; INSTANCEs `TaskDispatch` as `Outbox` and `AccountQueue` as `Queue` |
| `ConfigAuthority` | `config-store.ts`, `config-editor.ts`, `credential-authority.ts`, `config-projection.ts` and the merge of verified steps into the accounts |
| `DeploymentLedger` | `deployment-ledger.ts` |
| `Admission` | `business-admission.ts`, `task-preparation.ts`, `sealed-store.ts` |
| `Drain` | `account-drain.ts`, `authority-drain.ts`, `generation-import.ts`, `generation-activation.ts` |
| `Automation` | `automation-cycle.ts`, `automation-flow.ts`, `webhook-outbox.ts` |
| `Executor` | `business-executor.ts`, `repair-executor.ts`: the order of reads and writes of every kind of step, and the outcome it returns |
| `LegacyDeploy` | `auto-update.ts`, `deploy-utils.ts`, the routes that deploy, repair and delete without the authority |
| `Panel` | the editing protocol of a tab: `config-protocol.js`, `dom.js`, `accounts.js` |
| `Release` | `production-data-release.cjs`: phases, journal, backups, cutover |
| `GlobalParts` | `TaskDispatch`, `DeploymentLedger` and `Admission` side by side |
| `AccountParts` | `AccountQueue`, `Executor`, `Drain`, `Automation` and `Release` side by side |
| `ConfigurationParts` | `ConfigAuthority`, `LegacyDeploy` and `Panel` side by side |
| `...Proofs` | the theorems about a module and their proofs |
| `MC...` | instances for TLC |

`GlobalParts`, `AccountParts` and `ConfigurationParts` put modules that share no state
into one specification: a behaviour follows one part while the others rest in an initial
state. A run of such a root explores the union, not the product, of its parts; an
invariant of one part holds of it alone. They are modules of their own, not part of the
MC modules, because the proofs are about them. The root extends the module of its first
part; that it takes only the steps of that module is proved (`PartsKeepQueue`,
`PartsKeepOutbox`, `PartsKeepAuthority`), so what is proved of the module alone holds of
the root too.

State and code correspond name by name: `jobState` is `account_jobs.state`, `call` is
`execution_calls.state`, `permit` is `dispatch_outbox.token`, and so on (the comments at
the VARIABLES). A row that was not inserted is `"absent"` or `"none"`. Random tokens are
counters: all that matters is that they are new. Digests and encodings are left out,
evidence is a member of a small set. Faulty variants of an operator, each marked so in
a comment, are the mutations of `PROJECT.json`; nothing else refers to them.

`AccountRunner` splits a pass where the code awaits something that lets time pass (RPC,
HTTP, WebCrypto of a separate step); between two such points a Durable Object commits
its writes together, so they are one step, also for a crash. What a step makes of an
answer is chosen freely when the answer is sealed and is replayed afterwards: the
executors are deterministic, because `execution-context.ts` freezes their inputs. The
provider decides on a write at any time after it was sent, also after the deadline. A
definite answer (neither 5xx, 408 nor unreadable) means that it has decided.

`Coordinator` splits a pass in the same way. `pass[n].at` is the place where the pass of
an object waits:

| place | code |
|---|---|
| `idle`, `start` | `tick`; `start` is the await of `beforePass` in the global pass |
| `deliver`, `wake`, `cancel` | the three loops of the global pass; `todo` holds what the current loop still has to send |
| `reading`, `writing` | `saveProgress` before and after the unsealing of results; `draft` holds the row that is being built and the jobs of the list still to be read |
| `reporting`, `completing` | `sendProgress` and `saveReceipts`; the loop over unsent receipts |
| `executing` | `AccountRunner.tick`; afterwards `last` marks the second report of the pass |

The first step of an account that is authorized creates the journal of the account
(`Open`, the table `execution_calls`; `opened` holds the accounts that have one). Without
it nothing is executed and nothing is healed: a first step that is refused stays unknown
(finding 1).

An RPC is a record in `calls` from the moment it is sent until its caller goes on. The
callee serves it at any time (`Serve`, one transaction of a handler), the caller sees
the reply (`Return`) or gives up at its deadline (`GiveUp`). A request whose caller is
gone moves to `late`, where it may be handled at any later time or never; a request that
was served before its caller gave up is handled twice in this way
(`coordinator-rpc.ts:22-25` calls replays intentional). `Crash` restarts an object
during its pass. Handlers in `blockConcurrencyWhile` that throw let the platform restart
the object too (`Throws`): the model lets it happen or not, without counting it as a
fault. Not only the tables survive a restart but also the alarm.

`ConfigAuthority`, `Admission` and `Automation` have one action per stretch of code
between two awaits (a digest, an encryption, an unsealing, an RPC); what a stretch read
is kept in the request or the loop that goes on with it, so that anything may change in
between. `Drain` keeps the requests to accounts in a set they never leave: they arrive
late, more than once, or never. `Executor` runs one program at a time against a provider
that may refuse a request or carry it out and lose the answer; a request whose own answer
is compared with what was asked (`AssignDomain`) verifies a step only if it was carried
out. `Release` lets two runs
of the script overlap and either machine stop at every step.

`LegacyDeploy` gives every upload one of five fates: it is deployed; refused, or dropped
and found so by the read-back (`kept`); dropped and logged as a success, because nothing
could be read back (`unread`, the verdict `unverified`); deployed with its answer lost
(`lost`); and, for the repair, the worker is gone (`deleted`). `owed` and `missed` are
history: the workers whose last recorded deployment failed, and those left behind by an
`unread` upload. With `StaleReads` the update reads overrides as the store has them now or
had them when the scheduled run began (`job.was`). Older reads are not modelled: the
schedule is five minutes (`wrangler.toml:56`), and KV propagates a write within about one.
Handlers that overlap are not modelled, since `account-store.ts:9-11` says itself that such writes may be lost.

`Automation` seals the snapshot of a lane before it looks for the task, as
`task-preparation.ts:67` does: `seal` is the key the snapshot of a lane was sealed with and
`ring` the current one, which a restart may change. A sealed decision that cannot be read
back ends its flow (`planning_failed`). In `Panel` a request that is refused gives up its
ticket, also when it went out a second time and the first copy commits after all.

## 3. Runs

| run | parts and bounds | shows |
|---|---|---|
| `account` | one account, jobs of 2, 1 and 1 steps, two unfinished jobs admitted, 2 receipts per job; every program of requests on every state of a small account; two accounts, one task, two drains, two generations; two windows over one template, one attempt each, no webhook; two overlapping runs of a release while the old worker writes once | barrier, plan order and order of jobs, summaries, progress version; outcomes of programs; seals and retired generations; no downgrade; verified phases hold, the authority opens with everything |
| `global` | 4 rows of 3 tasks over 3 accounts with 2 permits; two deployments of two sources over two targets; two intents of which one may change, without key rotation | budget, order and permanence of permits; recorded versions; one task per intent, final refusals |
| `configuration` | one account, three requests of two edits, one edit of any kind and sent twice, the other neither an import nor a forgotten worker (`KindsOf`), one task; two workers, two commits, one rotation, stale reads; a tab with two edits against one made elsewhere | edits, credentials and hints; no forgotten worker, rotations stick; nothing unseen is lost |
| `runner` | one account, jobs of two steps and one, up to two calls a step, both kinds of call in both orders, two crashes | a write is sent once, outcomes are settled truths, records agree, cancellation stops writes; with fairness, nothing hangs |
| `coordinator` | one account, two tasks of one step, two permits, one fault; one of the tasks may be cancelled | permits cover work, beliefs are true, what is acknowledged is known, no wake-up is lost (there is no maintenance) |
| `coordinator_live` | one task of one step, one fault, budget 3, wake requests, maintenance on and off again | rows end and cancellations arrive |
| `automation` | one window over two templates, budget of two attempts, one restart (with a change of the sealing key) or user | lanes are true, flows come to rest |
| `runner_cold`, `runner_done_write`, `coordinator_closed`, `ledger_retry`, `admission_rotated` | as above, one property each | the findings of section 4 |

The bounds are small but meet the interesting cases: two jobs are enough for every
relation between jobs of an account (the invariants quantify over pairs), two steps for
plan order, two calls for a write after a write or after a read, two crashes for a crash
during the recovery from a crash, two sources for a newer and an older one, two drain
sessions for one that is late for the other, two windows for an older decision beside a
newer one. Values that a part cannot tell apart are symmetric; the runs with liveness
use no symmetry. Counters that would grow (`receipts`, revisions, epochs, restarts,
faults, wake requests, changes of the maintenance flag) are capped by constants named
`Max...`. `Budget` is 8 in the code; what matters is whether there are more faults than
that, so 1 to 3 show both sides. Two permits with one account let a second job of the
account be reserved if the exclusion of the account failed. Accounts do not share state
on their side, so one suffices there.

`CHECK_DEADLOCK FALSE` is set because the system stops when its work is over and the
bounds are used up.

Fairness. In `AccountRunner` the alarm is armed before each pass, so a pass that can
start does; RPC and HTTP have deadlines, so a pass that runs goes on; the provider
decides on what it received; operators decide what the code lets them decide. Nothing is
assumed about deliveries, cancellations or crashes, except that there are fewer crashes
in a row than `DurableWakeup` tolerates (8). In `Coordinator`, an armed alarm goes off,
a pass goes on where it can, and an RPC is served and returned or given up (the last
costs a fault). No fairness is assumed of users, operators or requests that nobody waits
for. `RowsEnd` excepts accounts in doubt: a step with a recorded write waits for
operators, on purpose, and a step that became unknown before its account had a journal
waits for ever (finding 1). In `Automation` a promise that is resolved goes on and an armed
alarm comes round to every flow (strongly, since other flows and maintenance come in
between), and tasks end; users, Cron and restarts do not have to come.

## 4. Findings

1. *Cold journal* (`runner_cold`). The table `execution_calls` is created when the first
   step of an account is executed, after its authorization. A first step that is refused
   becomes unknown while the table does not exist; `settleNoMutationUnknowns` and the
   search for healable steps both skip then, and adjudication needs a recorded call. The
   step keeps its account and its permit for ever. In `Coordinator` the same case is the
   second exception of `RowsEnd` (`a \notin opened`): without it TLC finds the row that
   never ends.
2. *Unknown after an answered write* (`runner_done_write`). A step whose write was
   answered and that becomes unknown later has a recorded write, so the machine does not
   settle it, and no open write, so operators cannot close it.
3. *Closed but not reported* (`coordinator_closed`). `review_close_failed` makes the job
   of a sleeping account terminal but does not arm its alarm, so the receipt is not sent
   and the permit stays until a user cancels or wakes the task.
4. *Pending after a retry* (`ledger_retry`). A target left pending by an edit of its
   upstream stays pending after a successful retry of the version it asks for, because
   closing a run drops the pending source.
5. *Answers lost by a rotation* (`admission_rotated`). After the sealing key was rotated,
   the replay of an admitted intent is refused as a conflict although its receipt exists.
   `OnlyRotationLosesAnswers` proves that nothing else has this effect on an intent. The
   lanes of the automatic flows meet the same refusal: when the answer of a submission is
   lost and the key changes before the next attempt, `sealed-store.ts:82` answers CONFLICT
   and `automation-flow.ts:119-121` marks the lane refused although its task runs.
   `LanesAreTrue` says of a refused lane that it has no task or an older seal, and the
   proof of `LanesStayTrue` that nothing else refuses an admitted lane.

Seen while modelling, without a run of their own:

- A recheck of a parked review can join a drive that already passed its lane
  (`automation-flow.ts:52`, against the comment at :72); a parked flow is not ticked, so
  that recheck is lost.
- The 500 admissions in progress (`business-admission.ts`) include reservations of
  interrupted requests.
- "An account must never be left without a workers.dev hostname"
  (`business-executor.ts:163-164`): when a request of the replacement, or the restoration
  of the old name, stays unanswered, the step ends unknown and the account may have none.
- `Revoke` of a credential and `WebhookOutbox.recover` have no caller in production.
- Compatibility mode: the fuse reports a new UUID as deployed when its code could not be
  fetched; failures in fixed mode are never retried by the schedule, although the comment
  of `finalizeDeploy` says so; the pending key of a removed worker never clears; a repair
  deploys the template's UUID although there is an override, and resets the mode to
  latest; a crash of the repair after its deletion leaves a worker that nothing restores.
  With stale reads (`StaleReads`) the update that follows a rotation in the same scheduled
  run puts the old UUID back (`auto-update.ts:381`, which `:508` avoids for the rotation's
  own deployment); `RotationSticks` shows that no other rotation is undone.
- Compatibility mode, a trade-off the code names (`deploy-utils.ts:106-114`): an upload
  that was answered but dropped, and whose read-back fails, counts as a success. A full
  deployment then advances the ledger past that worker, and no update covers it until
  upstream moves. `NoWorkerIsForgotten` excepts just these workers (`missed`), and only
  while the ledger stands at the newest commit.
- Panel: deploying node settings advances the accepted revision while the rows of the
  form are stale, so the next deployment posts old rows as if they were new; the same
  follows a save whose answer was lost and was repeated (`dom.js:333` only warns).
- Release: a crash or failed check between the record of a dispatch and its request
  leaves a phase that demands a receipt which never exists; the pin of a source expires
  after two hours and leaves `initial_cutover` unfinishable; writes of old invocations
  after the last comparison are accepted by policy.

## 5. Proofs

All theorems hold for every value of the constants under the named ASSUMEs of the
modules (distinct `None`, finite sets where a cardinality is taken, positive bounds),
and the runs evaluate these. Each proof rests on an inductive invariant, which TLC
checked on the instance before it was proved; it has a lemma per action.

| module | theorems | inductive invariant |
|---|---|---|
| `AccountQueueProofs` | `LedgerConsistency`, `Barrier`, `OrderOfWork`, `ProgressIsNoticed`, ... | `QueueInv`: the stored job state is the summary of its steps (cancellation and claim trust the stored state); plan order, also for planned and skipped steps; sequence numbers unique in an account; a token, a started step and the end of all earlier jobs go together |
| `TaskDispatchProofs` | `PermitSoundness`, `SubmissionOrder`, `NoPermitIdles`, `PermitsPersist`, ... | `DispatchInv`: a row has a token exactly from `sending` on, tokens are at most `issued`, insertion numbers are distinct. The budget needs the cardinality of a disjoint union, completeness a least waiting row per account |
| `AccountRunnerProofs` | `WritesGoOutOnce`, `SettledStepsWroteNothing`, `NothingLandsLate`, `ExecutionRecordsAgree`, `CancellationStopsWrites`, `RunnerImplementsQueue` | `RunnerInv`: `StepInv` of every step (rows of the journal in order, a row of a write exactly when it was sent, open writes only of steps that are running or unknown) and `PassInv`, what a pass in progress still knows after its awaits. The last theorem is a refinement: the runner's steps are steps of `AccountQueue` or leave it alone, so all that is proved of the queue holds of it |
| `ConfigurationPartsProofs` | `HintsSayWhatTheRecordsSay`, `CredentialsStayCurrent`, `EditsTellTheTruth`, `NoWorkerIsEverForgotten`, `RotationsStick`, `NothingUnseenIsEverLost` | `AuthorityInv`: a revision stands for the value that was read with it, so a compare-and-set after an await is about what was seen; a watermark stands for the overrides that were seen; the credential a task was planned with is current until the records move, and from its submission to its end. `LegacyInv`: the workers a job deployed run what it uploads, or are in `missed`, and the results of a full job cover the table; a ledger that stands at the newest commit has every worker that is behind as pending. `TabInv`: what a form holds was shown; a form, a pinned form or a request that carries the current revision comes from a tab that has seen all that is stored |
| `GlobalPartsProofs` | `VersionsStayNewest`, `AdvancesAreTruthful`, `IntentsMakeOneTask`, `RefusalsStayFinal`, `OnlyRotationLosesAnswers`, `LostAnswersStayFound` | `LedgerInv`: the recorded version belongs to a deployment to which every earlier one gave way; `AdmissionInv`: only the first call of an intent plans, and a task is of the plan that was sealed |
| `AutomationProofs` | `LanesStayTrue`, `NothingIsDowngraded` | `FlowInv`: what lanes, notices and loops know of a task (`TaskInv`, `LoopInv`), and no seal is newer than the current key, so that a lane with a task is refused only after a change of the key (`SealInv`); one cycle has tasks that are not over; a decision's version is as new as what is deployed as long as the records are those it was made for (`VersionInv`) |
| `CoordinatorProofs` | `PermitsCover`, `Beliefs`, `Acknowledged`, `WakeUps`, `CoordinatorImplementsQueue`, `CoordinatorImplementsOutbox` | `CoordInv`: `TableInv`, how the rows of the global object and of the accounts go together; `PassesInv`, what a pass has read and is about to write; `NetInv`, what every request and reply under way says. Permits, outcomes, reported facts and acknowledgements only advance (`Advance`), so a message or draft that was true when it was made is still true when it is served late or after a restart |
| `AccountPartsProofs` | `SealsStayLifted`, `RetiredStaysQuiet`, `FlowsNeverDowngrade`, `ResultsAreTrue`, `VerifiedStaysSo`, `OpensWithEverything` | `DrainInv`: sessions are dated by epoch and generation; while the basis of a session is unchanged, accounts that are ready, or whose answer is under way, have finished their tasks; an account that released a seal remembers it. The flows are those of `AutomationProofs`, instantiated. `ExecInv`: for every kind of command, the states the provider can be in at each position of its program, seen from the state it started in and from what was read before. `MoveInv`: phases follow each other in order; the journal, the requests under way, the controls and the authority agree on how far the release is; an authority that is open, or being opened, holds every write that was due |

`WakeUps` goes over the steps: one that makes work for an object arms its alarm in the same
transaction (`wake` before the handler returns) or belongs to a pass, which arms it again
before it rests. It excludes maintenance: in it the global object goes to sleep over
deliveries, and an operator who closes a step wakes nobody (finding 3). The last two
theorems of `CoordinatorProofs` are refinements, by name: `TaskDispatch` and `AccountQueue`
speak of one object in which every call succeeds at once; the coordination takes only
their steps, whatever is lost, doubled or late, so all that is proved of them holds in it.

`LostAnswersStayFound` supposes `MaxRing = 1`, that is, no key rotation: without it the
claim is false (finding 5), and `OnlyRotationLosesAnswers` says precisely what is left.
`ResultsAreTrue` rests on `KindsAssumption`, the closed set of step
kinds that the executors accept, and `MoveInv` and `TabInv` on `None` being no record.
`NothingIsDowngraded` and `FlowsNeverDowngrade` are one result, about the flows alone
and about them as a part of `AccountParts`, where a run checks it.

## 6. Only model-checked

Liveness: `NoStepHangs`, `PreMutationUnknownsEnd`, `RowsEnd`, `CancellationsArrive` and
`FlowsComeToRest`. The proof system handles neither fairness nor ENABLED. Every
invariant and every action property of the passing runs is proved. What a violating run
shows stays with TLC by its nature.

## 7. Not modelled

- Left out of modelled parts: the binding checks of permits and snapshots (a message
  always belongs to its row), the limits of three rows per report, the other things that
  arm the global alarm (they only add wake-ups), the contents of plans, requests and
  answers, the envelope of credentials, the revival of a parked budget by a user's wake.
  In the release, the archive taken during `maintenance_acceptance`, the consistency of
  KV, files and permissions. In the compatibility mode, custom code and overlapping
  handlers.
- The maintenance commands with their receipts and the capture and attestation of
  reviews, archives and transfers (copies of tables), the gateway and external reads,
  transport authentication and encodings, the routes that parse and forward (zones,
  checks, diagnosis, nodes, DNS), GitHub access, the views of the panel beside its
  editing protocol, tooling and tests.
- Next: the maintenance receipts and the review chain; the garbage collection of the KV
  store, which can delete the override of an account that is created meanwhile.
