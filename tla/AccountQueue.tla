---------------------------- MODULE AccountQueue ----------------------------
(***************************************************************************)
(* The account-local execution ledger of cfauto                            *)
(* (src/src/reliability/account-queue.ts).                                 *)
(*                                                                         *)
(* Every account has its own Durable Object with its own SQLite database;  *)
(* the tables account_jobs, account_steps and account_receipts of all of   *)
(* them are modelled together, Owner saying in whose database the rows of  *)
(* a job live.  A row of account_steps is addressed by its primary key     *)
(* (job, ordinal); a row that has not been inserted is "absent".  Each     *)
(* action is one db.transaction of the class, so each is atomic; a call    *)
(* the code refuses by throwing is rolled back and is no step here.        *)
(***************************************************************************)
EXTENDS Integers, FiniteSets

CONSTANTS
  Account,      \* accounts, one Durable Object each
  Job,          \* job ids that may be delivered
  Owner,        \* Owner[j]: the account whose database holds job j
  MaxSteps,     \* the most steps one job may have (100 in the code)
  StepCount,    \* StepCount[j]: the number of steps job j was planned with
  MaxActive,    \* the most unfinished jobs one account accepts (50)
  Evidence,     \* digests of evidence
  None,         \* the SQL NULL of the column evidence
  MaxReceipts   \* model bound: receipts recorded for one job

ASSUME NoneAssumption  == None \notin Evidence
ASSUME OwnerAssumption == Owner \in [Job -> Account]
ASSUME StepsAssumption == MaxSteps \in Nat /\ StepCount \in [Job -> 1..MaxSteps]
ASSUME BoundAssumption == MaxActive \in Nat /\ MaxReceipts \in Nat

VARIABLES
  jobState,         \* account_jobs.state, "absent" before the insertion
  cancelRequested,  \* account_jobs.cancel_requested
  seq,              \* account_jobs.seq, 0 before the insertion
  inserted,         \* the last AUTOINCREMENT seq given in an account's database
  stepState,        \* account_steps.state, "absent" where there is no row
  token,            \* account_steps.token, 0 for NULL
  evidence,         \* account_steps.evidence
  minted,           \* claim tokens drawn so far (randomUUID: always a new one)
  receipts          \* how many account_receipts rows a job has: MAX(seq) of
                    \* the job's rows changes exactly when this does

queueVars == <<jobState, cancelRequested, seq, inserted, stepState, token,
               evidence, minted, receipts>>

Ordinal == 0..(MaxSteps - 1)
Planned(j) == 0..(StepCount[j] - 1)   \* the ordinals of the rows of job j

Unfinished == {"queued", "running", "needs_review"}
Terminal == {"succeeded", "failed", "partial_failed", "cancelled", "partial_cancelled"}
Outcome == {"verified", "failed", "unknown"}
Uncertain == {"in_flight", "unknown"}
StepState == {"absent", "planned", "in_flight", "skipped"} \union Outcome

-----------------------------------------------------------------------------
(* AccountQueue.summarize: the job's state as a function of its steps.     *)
Summary(j, states, cancelled) ==
  LET Has(x) == \E o \in Planned(j) : states[o] = x
  IN  IF Has("unknown") THEN "needs_review"
      ELSE IF Has("planned") \/ Has("in_flight") THEN "running"
      ELSE IF \A o \in Planned(j) : states[o] = "verified" THEN "succeeded"
      ELSE IF Has("failed")
             THEN IF Has("verified") THEN "partial_failed" ELSE "failed"
      ELSE IF cancelled
             THEN IF Has("verified") THEN "partial_cancelled" ELSE "cancelled"
      ELSE "failed"

(* UPDATE account_steps SET state='skipped' WHERE job=? AND state='planned' *)
SkipPlanned(states) ==
  [o \in Ordinal |-> IF states[o] = "planned" THEN "skipped" ELSE states[o]]

\* Faulty: an unknown step does not hold the account.
BusyInFlightOnly(a) == \E j \in Job : \E o \in Ordinal :
                         Owner[j] = a /\ stepState[j][o] = "in_flight"

(* The account has a step that is running or whose effect is unknown.      *)
Busy(a) == \E j \in Job : \E o \in Ordinal :
             Owner[j] = a /\ stepState[j][o] \in {"in_flight", "unknown"}

Active(a) == {j \in Job : Owner[j] = a /\ jobState[j] \in Unfinished}

(* The job that claim takes: queued or running, not cancelled, lowest seq. *)
Claimable(a) == {j \in Job : /\ Owner[j] = a
                             /\ jobState[j] \in {"queued", "running"}
                             /\ ~cancelRequested[j]}
\* Faulty: the newest job first.
IsNewestJob(a, j) == j \in Claimable(a) /\ \A k \in Claimable(a) : seq[j] >= seq[k]
IsNextJob(a, j) == j \in Claimable(a) /\ \A k \in Claimable(a) : seq[j] <= seq[k]
IsNextStep(j, o) == /\ stepState[j][o] = "planned"
                    /\ \A p \in Ordinal : stepState[j][p] = "planned" => o <= p

-----------------------------------------------------------------------------
Init ==
  /\ jobState = [j \in Job |-> "absent"]
  /\ cancelRequested = [j \in Job |-> FALSE]
  /\ seq = [j \in Job |-> 0]
  /\ inserted = [a \in Account |-> 0]
  /\ stepState = [j \in Job |-> [o \in Ordinal |-> "absent"]]
  /\ token = [j \in Job |-> [o \in Ordinal |-> 0]]
  /\ evidence = [j \in Job |-> [o \in Ordinal |-> None]]
  /\ minted = 0
  /\ receipts = [j \in Job |-> 0]

(* AccountQueue.enqueue of a job the account has not seen.  cancelNow is   *)
(* the cancelRequested flag of the delivery: the job is then inserted and  *)
(* cancelled in the same transaction.                                      *)
Enqueue(j, cancelNow) ==
  LET fresh  == [o \in Ordinal |-> IF o \in Planned(j) THEN "planned" ELSE "absent"]
      states == IF cancelNow THEN SkipPlanned(fresh) ELSE fresh
  IN  /\ jobState[j] = "absent"
      /\ Cardinality(Active(Owner[j])) < MaxActive
      /\ inserted' = [inserted EXCEPT ![Owner[j]] = @ + 1]
      /\ seq' = [seq EXCEPT ![j] = inserted[Owner[j]] + 1]
      /\ stepState' = [stepState EXCEPT ![j] = states]
      /\ cancelRequested' = [cancelRequested EXCEPT ![j] = cancelNow]
      /\ jobState' = [jobState EXCEPT
           ![j] = IF cancelNow THEN Summary(j, states, TRUE) ELSE "queued"]
      /\ UNCHANGED <<token, evidence, minted, receipts>>

\* ... or the request to cancel is not recorded.
CancelUnrecorded(j) ==
  /\ jobState[j] \in Unfinished
  /\ stepState' = [stepState EXCEPT ![j] = SkipPlanned(@)]
  /\ jobState' = [jobState EXCEPT
       ![j] = Summary(j, SkipPlanned(stepState[j]), cancelRequested[j])]
  /\ UNCHANGED <<cancelRequested, seq, inserted, token, evidence, minted, receipts>>

(* AccountQueue.cancel, and the delivery of a known job that carries the   *)
(* cancellation (enqueue's duplicate branch): both run cancelLocal.  The   *)
(* step that is running is left alone.                                     *)
CancelLocal(j) ==
  /\ jobState[j] \in Unfinished
  /\ cancelRequested' = [cancelRequested EXCEPT ![j] = TRUE]
  /\ stepState' = [stepState EXCEPT ![j] = SkipPlanned(@)]
  /\ jobState' = [jobState EXCEPT ![j] = Summary(j, SkipPlanned(stepState[j]), TRUE)]
  /\ UNCHANGED <<seq, inserted, token, evidence, minted, receipts>>

(* AccountQueue.claim: the first planned step of the oldest job that may   *)
(* run goes in flight under a token nobody else has, before any executor   *)
(* sees it.                                                                *)
Claim(a, j, o) ==
  /\ ~Busy(a)
  /\ IsNextJob(a, j)
  /\ IsNextStep(j, o)
  /\ minted' = minted + 1
  /\ token' = [token EXCEPT ![j] = [@ EXCEPT ![o] = minted + 1]]
  /\ stepState' = [stepState EXCEPT ![j] = [@ EXCEPT ![o] = "in_flight"]]
  /\ jobState' = [jobState EXCEPT ![j] = "running"]
  /\ UNCHANGED <<cancelRequested, seq, inserted, evidence, receipts>>

\* Faulty: a step that is over leaves its job running.
RecordUnsummarized(j, o, outcome, e) ==
  LET marked == [stepState[j] EXCEPT ![o] = outcome]
      states == IF outcome = "failed" THEN SkipPlanned(marked) ELSE marked
  IN  /\ receipts[j] < MaxReceipts
      /\ stepState' = [stepState EXCEPT ![j] = states]
      /\ evidence' = [evidence EXCEPT ![j] = [@ EXCEPT ![o] = e]]
      /\ receipts' = [receipts EXCEPT ![j] = @ + 1]
      /\ jobState' = [jobState EXCEPT
           ![j] = IF outcome = "unknown" THEN "needs_review" ELSE "running"]
      /\ UNCHANGED <<cancelRequested, seq, inserted, token, minted>>

(* The writes of AccountQueue.transition once the token and the state have *)
(* been accepted.                                                          *)
Record(j, o, outcome, e) ==
  LET marked == [stepState[j] EXCEPT ![o] = outcome]
      states == IF outcome = "failed" THEN SkipPlanned(marked) ELSE marked
  IN  /\ receipts[j] < MaxReceipts
      /\ stepState' = [stepState EXCEPT ![j] = states]
      /\ evidence' = [evidence EXCEPT ![j] = [@ EXCEPT ![o] = e]]
      /\ receipts' = [receipts EXCEPT ![j] = @ + 1]
      /\ jobState' = [jobState EXCEPT
           ![j] = IF outcome = "unknown" THEN "needs_review"
                  ELSE Summary(j, states, cancelRequested[j])]
      /\ UNCHANGED <<cancelRequested, seq, inserted, token, minted>>

(* AccountQueue.finish: the executor reports, presenting the token of its  *)
(* claim.  A report already recorded, or one with another token, changes   *)
(* nothing.                                                                *)
Finish(j, o, t, outcome, e) ==
  /\ t > 0 /\ token[j][o] = t
  /\ stepState[j][o] = "in_flight"
  /\ Record(j, o, outcome, e)

(* AccountQueue.reconcile: as finish, and it may also settle an unknown.   *)
Reconcile(j, o, t, outcome, e) ==
  /\ t > 0 /\ token[j][o] = t
  /\ stepState[j][o] \in {"in_flight", "unknown"}
  /\ ~(stepState[j][o] = outcome /\ evidence[j][o] = e)
  /\ Record(j, o, outcome, e)

Deliver == \E j \in Job, c \in BOOLEAN : Enqueue(j, c)
Cancel  == \E j \in Job : CancelLocal(j)
Start   == \E a \in Account, j \in Job, o \in Ordinal : Claim(a, j, o)
Report  == \E j \in Job, o \in Ordinal, t \in 1..minted, r \in Outcome, e \in Evidence :
             Finish(j, o, t, r, e)
Review  == \E j \in Job, o \in Ordinal, t \in 1..minted, r \in Outcome, e \in Evidence :
             Reconcile(j, o, t, r, e)

Next == Deliver \/ Cancel \/ Start \/ Report \/ Review

Spec == Init /\ [][Next]_queueVars

-----------------------------------------------------------------------------
(* Types of the tables. *)
TypeOK ==
  /\ jobState \in [Job -> {"absent"} \union Unfinished \union Terminal]
  /\ cancelRequested \in [Job -> BOOLEAN]
  /\ seq \in [Job -> Nat]
  /\ inserted \in [Account -> Nat]
  /\ stepState \in [Job -> [Ordinal -> StepState]]
  /\ token \in [Job -> [Ordinal -> Nat]]
  /\ evidence \in [Job -> [Ordinal -> Evidence \union {None}]]
  /\ minted \in Nat
  /\ receipts \in [Job -> Nat]

(* The barrier of account-queue.ts:60: in one account at most one step is  *)
(* running or unresolved, whatever jobs are cancelled, reviewed or added.  *)
OneUncertainStep ==
  \A j, k \in Job : \A o, p \in Ordinal :
    /\ Owner[j] = Owner[k]
    /\ stepState[j][o] \in Uncertain
    /\ stepState[k][p] \in Uncertain
    => j = k /\ o = p

(* The steps of a job take effect in plan order: a step that was ever      *)
(* handed to the executor has only verified steps before it.  The global   *)
(* side refuses facts for which this does not hold.                        *)
VerifiedPrefix ==
  \A j \in Job : \A o, p \in Ordinal :
    /\ p < o
    /\ stepState[j][o] \in Uncertain \union {"verified", "failed"}
    => stepState[j][p] = "verified"

(* The CONFLICT of claim (account-queue.ts:67) cannot happen: the job it   *)
(* selects in an account without an unresolved step has a planned step.    *)
ClaimFindsAStep ==
  \A a \in Account : ~Busy(a) =>
    \A j \in Claimable(a) : \E o \in Ordinal : stepState[j][o] = "planned"

(* The stored state of a job is always what summarize says of its steps;   *)
(* only a job none of whose steps was touched is queued.  transition       *)
(* writes needs_review without summarizing, claim writes running.          *)
StateIsSummary ==
  \A j \in Job : jobState[j] # "absent" =>
    jobState[j] = IF \A o \in Planned(j) : stepState[j][o] = "planned"
                  THEN "queued"
                  ELSE Summary(j, stepState[j], cancelRequested[j])

(* The ledger never contradicts itself: its tables have their types, a     *)
(* stored job state is what its steps say, and no claim of an account runs *)
(* into the CONFLICT of account-queue.ts:67.                               *)
LedgerIsConsistent == TypeOK /\ StateIsSummary /\ ClaimFindsAStep

(* The last branch of summarize (neither a failure nor a cancellation,     *)
(* account-queue.ts:110) is never taken: a job that failed has a step that *)
(* failed.                                                                 *)
FailureHasAFailedStep ==
  \A j \in Job : jobState[j] \in {"failed", "partial_failed"} =>
    \E o \in Ordinal : stepState[j][o] = "failed"

(* First come, first served within an account: once a step of a job was    *)
(* handed out, every job that came before it is over.                      *)
EarlierJobsAreOver ==
  \A j, k \in Job : \A o \in Ordinal :
    /\ Owner[j] = Owner[k] /\ 0 < seq[j] /\ seq[j] < seq[k]
    /\ token[k][o] > 0
    => jobState[j] \in Terminal

(* Work starts in order: the steps of a job in plan order, and the jobs of *)
(* an account in the order of their delivery.                              *)
WorkStartsInOrder == VerifiedPrefix /\ EarlierJobsAreOver

(* What is recorded stays recorded: no later call changes a verified,      *)
(* failed or skipped step, its evidence, or the state of a finished job.   *)
SettledIsFinal ==
  /\ \A j \in Job, o \in Ordinal :
       stepState[j][o] \in {"verified", "failed", "skipped"} =>
         stepState'[j][o] = stepState[j][o] /\ evidence'[j][o] = evidence[j][o]
  /\ \A j \in Job : jobState[j] \in Terminal => jobState'[j] = jobState[j]
SettledStaysFinal == [][SettledIsFinal]_queueVars

(* The account reports progress to the global object only when the newest  *)
(* receipt or the cancel flag of a job changed (coordinator-runtime.ts,    *)
(* progressChanges): that pair must change whenever a reported fact does.  *)
Reported(j) == {o \in Ordinal :
                  stepState[j][o] \in {"verified", "failed", "unknown", "skipped"}}
FactsMoveTheVersion ==
  \A j \in Job :
    \/ jobState[j] = "absent"
    \/ receipts'[j] # receipts[j]
    \/ cancelRequested'[j] # cancelRequested[j]
    \/ /\ Reported(j)' = Reported(j)
       /\ \A o \in Reported(j) :
            stepState'[j][o] = stepState[j][o] /\ evidence'[j][o] = evidence[j][o]
ProgressVersionIsSound == [][FactsMoveTheVersion]_queueVars
=============================================================================
