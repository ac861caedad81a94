---------------------------- MODULE TaskDispatch ----------------------------
(***************************************************************************)
(* The global outbox of cfauto (src/src/reliability/task-dispatch.ts): the *)
(* tables dispatch_tasks, dispatch_outbox, dispatch_wakeups and            *)
(* dispatch_cancellations of the Global Durable Object.                    *)
(*                                                                         *)
(* A task is identified by its receipt, the fingerprint of the caller's    *)
(* scope and idempotency key.  It has one row of the outbox per target     *)
(* account; a row is a member of Job, because it becomes that account's    *)
(* job.  A row goes pending -> sending -> accepted -> terminal; from       *)
(* sending on it holds a permit, identified by a token, until the terminal *)
(* receipt of the account arrives.  Permits do not expire.                 *)
(*                                                                         *)
(* Every action is one db.transaction; a call refused by throwing changes  *)
(* nothing and is no step here.                                            *)
(***************************************************************************)
EXTENDS Integers, FiniteSets

CONSTANTS
  Account,     \* accounts
  Task,        \* tasks, by receipt
  Job,         \* rows of the outbox
  TaskOf,      \* TaskOf[j]: the task the row belongs to
  Owner,       \* Owner[j]: the account it is addressed to
  Place,       \* Place[j]: its position among the rows of its task (by account)
  MaxPermits,  \* accounts that may hold a permit at a time (3 in the code)
  MaxTasks,    \* unfinished tasks that are admitted (500)
  MaxPending,  \* unfinished rows of one account that are admitted (50)
  Outcomes,    \* what an account may report, with its evidence
  None,        \* the SQL NULL of the column outcome
  MaxWakes     \* model bound: wake requests of one row

ASSUME TargetAssumption ==
  /\ TaskOf \in [Job -> Task] /\ Owner \in [Job -> Account] /\ Place \in [Job -> Nat]
  /\ \A i, j \in Job : TaskOf[i] = TaskOf[j] /\ i # j =>
       Owner[i] # Owner[j] /\ Place[i] # Place[j]
ASSUME FiniteAssumption == IsFiniteSet(Job)
ASSUME LimitAssumption ==
  MaxPermits \in Nat /\ MaxTasks \in Nat /\ MaxPending \in Nat /\ MaxWakes \in Nat
ASSUME OutcomeAssumption == None \notin Outcomes

VARIABLES
  order,      \* order[t]: how many tasks were inserted up to t, 0 before t is
  submitted,  \* tasks inserted
  state,      \* dispatch_outbox.state, "absent" before the insertion
  permit,     \* dispatch_outbox.token, 0 for NULL
  issued,     \* tokens drawn (randomUUID: always a new one)
  outcome,    \* dispatch_outbox.outcome with its evidence
  wake,       \* dispatch_wakeups.request: a number per request of the row, 0: none
  wakeAcked,  \* dispatch_wakeups.acknowledged
  cancelRow   \* the row of dispatch_cancellations

dispatchVars == <<order, submitted, state, permit, issued, outcome, wake, wakeAcked,
                  cancelRow>>

Rows(t) == {j \in Job : TaskOf[j] = t}
Open == {"pending", "sending", "accepted"}     \* state != 'terminal'
Holding == {"sending", "accepted"}

(* The rows whose accounts hold a permit. *)
Permits == {j \in Job : state[j] \in Holding}

(* The order of the column seq of dispatch_outbox. *)
Before(i, j) == \/ order[TaskOf[i]] < order[TaskOf[j]]
                \/ TaskOf[i] = TaskOf[j] /\ Place[i] < Place[j]

OpenTasks == {t \in Task : \E j \in Rows(t) : state[j] \in Open}

-----------------------------------------------------------------------------
Init ==
  /\ order = [t \in Task |-> 0]
  /\ submitted = 0
  /\ state = [j \in Job |-> "absent"]
  /\ permit = [j \in Job |-> 0]
  /\ issued = 0
  /\ outcome = [j \in Job |-> None]
  /\ wake = [j \in Job |-> 0]
  /\ wakeAcked = [j \in Job |-> FALSE]
  /\ cancelRow = [j \in Job |-> "none"]

(* TaskDispatch.submit of a receipt that is not known yet.  A known one    *)
(* returns the existing task and writes nothing.                           *)
Submit(t) ==
  /\ order[t] = 0
  /\ Cardinality(OpenTasks) < MaxTasks
  /\ \A j \in Rows(t) :
       Cardinality({i \in Job : Owner[i] = Owner[j] /\ state[i] \in Open}) < MaxPending
  /\ submitted' = submitted + 1
  /\ order' = [order EXCEPT ![t] = submitted + 1]
  /\ state' = [j \in Job |-> IF TaskOf[j] = t THEN "pending" ELSE state[j]]
  /\ UNCHANGED <<permit, issued, outcome, wake, wakeAcked, cancelRow>>

\* Faulty: the newest row of an account is first.
HeadsNewestFirst ==
  {j \in Job : /\ state[j] = "pending"
               /\ \A i \in Permits : Owner[i] # Owner[j]
               /\ \A i \in Job : state[i] = "pending" /\ Owner[i] = Owner[j] => ~Before(j, i)}

(* The next row of every account that waits and holds no permit. *)
Heads ==
  {j \in Job : /\ state[j] = "pending"
               /\ \A i \in Permits : Owner[i] # Owner[j]
               /\ \A i \in Job : state[i] = "pending" /\ Owner[i] = Owner[j] => ~Before(i, j)}

\* Faulty: accepted rows do not count, or the loop stops one permit early.
GrantedBesideAccepted(R) ==
  LET sending == {j \in Job : state[j] = "sending"}
  IN  /\ R \subseteq Heads
      /\ Cardinality(R) + Cardinality(sending) <= MaxPermits
      /\ R = Heads \/ Cardinality(R) + Cardinality(sending) = MaxPermits
      /\ \A i \in R, j \in Heads \ R : Before(i, j)
GrantedOneLess(R) ==
  /\ R \subseteq Heads
  /\ Cardinality(R) + Cardinality(Permits) < MaxPermits
  /\ R = Heads \/ Cardinality(R) + Cardinality(Permits) + 1 = MaxPermits
  /\ \A i \in R, j \in Heads \ R : Before(i, j)

(* What the loop of TaskDispatch.reserve ends with: as many heads as there *)
(* are free permits, the oldest first.                                     *)
Granted(R) ==
  /\ R \subseteq Heads
  /\ Cardinality(R) + Cardinality(Permits) <= MaxPermits
  /\ R = Heads \/ Cardinality(R) + Cardinality(Permits) = MaxPermits
  /\ \A i \in R, j \in Heads \ R : Before(i, j)

(* TaskDispatch.reserve.  The tokens of one transaction are all new; they  *)
(* are numbered in the order of the rows.                                  *)
Reserve(R) ==
  /\ R # {}
  /\ Granted(R)
  /\ issued' = issued + Cardinality(R)
  /\ permit' = [j \in Job |->
       IF j \in R THEN issued + 1 + Cardinality({i \in R : Before(i, j)}) ELSE permit[j]]
  /\ state' = [j \in Job |-> IF j \in R THEN "sending" ELSE state[j]]
  /\ UNCHANGED <<order, submitted, outcome, wake, wakeAcked, cancelRow>>

\* Faulty: a late acknowledgement reopens a row that is over.
AcknowledgeAlways(j, p) ==
  /\ p > 0 /\ permit[j] = p
  /\ state' = [state EXCEPT ![j] = "accepted"]
  /\ UNCHANGED <<order, submitted, permit, issued, outcome, wake, wakeAcked, cancelRow>>

(* TaskDispatch.acknowledge: the account has the delivery.  It changes     *)
(* nothing for a row that is accepted or terminal already.                 *)
Acknowledge(j, p) ==
  /\ p > 0 /\ permit[j] = p
  /\ state[j] = "sending"
  /\ state' = [state EXCEPT ![j] = "accepted"]
  /\ UNCHANGED <<order, submitted, permit, issued, outcome, wake, wakeAcked, cancelRow>>

(* TaskDispatch.complete: the terminal receipt of the account, perhaps     *)
(* before the acknowledgement of the delivery.                             *)
Complete(j, p, r) ==
  /\ p > 0 /\ permit[j] = p
  /\ state[j] \in {"sending", "accepted"}
  /\ state' = [state EXCEPT ![j] = "terminal"]
  /\ outcome' = [outcome EXCEPT ![j] = r]
  /\ UNCHANGED <<order, submitted, permit, issued, wake, wakeAcked, cancelRow>>

(* TaskDispatch.requestWake: a new request for every permit of the task.   *)
RequestWake(t) ==
  /\ order[t] > 0
  /\ \A j \in Rows(t) \intersect Permits : wake[j] < MaxWakes
  /\ wake' = [j \in Job |-> IF TaskOf[j] = t /\ j \in Permits THEN wake[j] + 1 ELSE wake[j]]
  /\ wakeAcked' = [j \in Job |->
       IF TaskOf[j] = t /\ j \in Permits THEN FALSE ELSE wakeAcked[j]]
  /\ UNCHANGED <<order, submitted, state, permit, issued, outcome, cancelRow>>

PendingWakes == {j \in Job : wake[j] > 0 /\ ~wakeAcked[j] /\ state[j] \in Holding}

(* TaskDispatch.acknowledgeWake: counts for the request that was sent, not *)
(* for one made since.                                                     *)
AcknowledgeWake(j, p, request) ==
  /\ p > 0 /\ permit[j] = p
  /\ wakeAcked' = [wakeAcked EXCEPT ![j] = @ \/ (request > 0 /\ wake[j] = request)]
  /\ UNCHANGED <<order, submitted, state, permit, issued, outcome, wake, cancelRow>>

(* TaskDispatch.requestCancel: recorded once for every row that is open.   *)
RequestCancel(t) ==
  /\ order[t] > 0
  /\ cancelRow' = [j \in Job |->
       IF TaskOf[j] = t /\ state[j] # "terminal" /\ cancelRow[j] = "none"
       THEN "requested" ELSE cancelRow[j]]
  /\ UNCHANGED <<order, submitted, state, permit, issued, outcome, wake, wakeAcked>>

PendingCancels == {j \in Job : cancelRow[j] = "requested" /\ state[j] \in Holding}

\* Faulty: a cancellation gives the permit back.
AcknowledgeCancelReleases(j, p) ==
  /\ p > 0 /\ permit[j] = p
  /\ cancelRow' = [cancelRow EXCEPT ![j] = IF @ = "none" THEN @ ELSE "acknowledged"]
  /\ state' = [state EXCEPT ![j] = "terminal"]
  /\ outcome' = [outcome EXCEPT ![j] = "cancelled"]
  /\ UNCHANGED <<order, submitted, permit, issued, wake, wakeAcked>>

(* TaskDispatch.acknowledgeCancel. *)
AcknowledgeCancel(j, p) ==
  /\ p > 0 /\ permit[j] = p
  /\ cancelRow' = [cancelRow EXCEPT ![j] = IF @ = "none" THEN @ ELSE "acknowledged"]
  /\ UNCHANGED <<order, submitted, state, permit, issued, outcome, wake, wakeAcked>>

Next ==
  \/ \E t \in Task : Submit(t) \/ RequestWake(t) \/ RequestCancel(t)
  \/ \E R \in SUBSET Job : Reserve(R)
  \/ \E j \in Job, p \in 1..issued :
       \/ Acknowledge(j, p)
       \/ \E r \in Outcomes : Complete(j, p, r)
       \/ \E q \in 1..MaxWakes : AcknowledgeWake(j, p, q)
       \/ AcknowledgeCancel(j, p)

Spec == Init /\ [][Next]_dispatchVars

-----------------------------------------------------------------------------
(* Types of the tables. *)
TypeOK ==
  /\ order \in [Task -> Nat]
  /\ submitted \in Nat
  /\ state \in [Job -> {"absent", "terminal"} \union Open]
  /\ permit \in [Job -> Nat]
  /\ issued \in Nat
  /\ outcome \in [Job -> Outcomes \union {None}]
  /\ wake \in [Job -> Nat]
  /\ wakeAcked \in [Job -> BOOLEAN]
  /\ cancelRow \in [Job -> {"none", "requested", "acknowledged"}]

(* The global budget of task-dispatch.ts:109-110: deliveries that await    *)
(* reconciliation included, at most MaxPermits rows hold a permit ...      *)
PermitBudget == Cardinality(Permits) <= MaxPermits

(* ... and they belong to different accounts.                              *)
OnePermitPerAccount ==
  \A i, j \in Permits : Owner[i] = Owner[j] => i = j

(* Permits are sound: within the budget and one per account, in tables     *)
(* that keep their types.                                                  *)
PermitsAreSound == TypeOK /\ PermitBudget /\ OnePermitPerAccount

(* Tasks are served in the order of their submission within an account: a  *)
(* row that was given a permit has only terminal rows before it.           *)
AccountOrder ==
  \A i, j \in Job :
    /\ Owner[i] = Owner[j]
    /\ 0 < order[TaskOf[i]] /\ order[TaskOf[i]] < order[TaskOf[j]]
    /\ permit[j] > 0
    => state[i] = "terminal"

(* A token identifies one row, for ever: no row shares it, and a row that  *)
(* has one keeps it; a terminal row keeps its outcome, and an accepted one *)
(* does not go back to be reserved again.                                  *)
TokenIdentifiesARow ==
  \A i, j \in Job : permit[i] > 0 /\ permit[i] = permit[j] => i = j
PermitsAreKept ==
  \A j \in Job :
    /\ permit[j] > 0 => permit'[j] = permit[j] /\ state'[j] \notin {"absent", "pending"}
    /\ state[j] = "accepted" => state'[j] # "sending"
    /\ state[j] = "terminal" => state'[j] = "terminal" /\ outcome'[j] = outcome[j]
PermitsNeverRevoked == [][PermitsAreKept]_dispatchVars

(* No permit is wasted: after a reservation either all are in use or every *)
(* account that still waits has one already.                               *)
NobodyWaitsForAFreePermit ==
  issued' # issued =>
    \/ Cardinality(Permits') = MaxPermits
    \/ \A j \in Job : state'[j] = "pending" => \E i \in Permits' : Owner[i] = Owner[j]
ReservationIsComplete == [][NobodyWaitsForAFreePermit]_dispatchVars
=============================================================================
