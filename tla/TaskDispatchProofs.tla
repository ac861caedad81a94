------------------------- MODULE TaskDispatchProofs -------------------------
(***************************************************************************)
(* Proofs about TaskDispatch for every finite set of rows, every number of *)
(* permits and every limit.  DispatchInv is the inductive invariant.       *)
(***************************************************************************)
EXTENDS TaskDispatch, FiniteSetTheorems, WellFoundedInduction, TLAPS

(* The numbers of the tasks follow their submission. *)
OrderIsSubmission ==
  /\ \A t \in Task : order[t] <= submitted
  /\ \A t, u \in Task : order[t] = order[u] /\ order[t] > 0 => t = u

(* The rows of a task are inserted with it. *)
RowsWithTheirTask ==
  \A j \in Job : state[j] = "absent" <=> order[TaskOf[j]] = 0

(* A row has a token from its reservation on, one that was drawn. *)
TokensAreReservations ==
  \A j \in Job : /\ permit[j] <= issued
                 /\ permit[j] > 0 <=> state[j] \in Holding \union {"terminal"}

DispatchInv ==
  /\ TypeOK
  /\ OrderIsSubmission
  /\ RowsWithTheirTask
  /\ TokensAreReservations
  /\ TokenIdentifiesARow
  /\ PermitBudget
  /\ OnePermitPerAccount
  /\ AccountOrder

-----------------------------------------------------------------------------
LEMMA PermitsFinite ==
  /\ Permits \subseteq Job /\ IsFiniteSet(Permits)
  /\ Permits' \subseteq Job /\ IsFiniteSet(Permits')
<1>1. Permits \subseteq Job /\ Permits' \subseteq Job
  BY DEF Permits
<1> QED
  BY <1>1, FiniteAssumption, FS_Subset

(* The budget survives when no row newly holds a permit. *)
LEMMA BudgetShrinks ==
  ASSUME TypeOK, PermitBudget, Permits' \subseteq Permits
  PROVE  PermitBudget'
<1>1. Cardinality(Permits') <= Cardinality(Permits)
  BY PermitsFinite, FS_Subset
<1>2. Cardinality(Permits') \in Nat /\ Cardinality(Permits) \in Nat
  BY PermitsFinite, FS_CardinalityType
<1> QED
  BY <1>1, <1>2, LimitAssumption DEF PermitBudget

(* seq orders any two rows one way or the other, and never both ways. *)
LEMMA BeforeIsTotal ==
  ASSUME TypeOK, OrderIsSubmission, NEW i \in Job, NEW j \in Job, i # j,
         order[TaskOf[i]] > 0
  PROVE  Before(i, j) \/ Before(j, i)
<1>1. TaskOf[i] \in Task /\ TaskOf[j] \in Task /\ Place[i] \in Nat /\ Place[j] \in Nat
  BY TargetAssumption
<1>2. order[TaskOf[i]] \in Nat /\ order[TaskOf[j]] \in Nat
  BY <1>1 DEF TypeOK
<1>3. CASE TaskOf[i] = TaskOf[j]
  BY <1>1, <1>2, <1>3, TargetAssumption DEF Before
<1>4. CASE TaskOf[i] # TaskOf[j]
  BY <1>1, <1>2, <1>4 DEF Before, OrderIsSubmission
<1> QED
  BY <1>3, <1>4

LEMMA BeforeIsAnOrder ==
  ASSUME TypeOK
  PROVE  /\ \A i \in Job : ~Before(i, i)
         /\ \A i, j, k \in Job : Before(i, j) /\ Before(j, k) => Before(i, k)
<1>1. \A i \in Job : TaskOf[i] \in Task /\ Place[i] \in Nat
  BY TargetAssumption
<1>2. \A i \in Job : order[TaskOf[i]] \in Nat
  BY <1>1 DEF TypeOK
<1> QED
  BY <1>1, <1>2 DEF Before

(* The numbers that a reservation gives its rows are different ones. *)
LEMMA RanksDiffer ==
  ASSUME TypeOK, OrderIsSubmission, NEW R \in SUBSET Job,
         \A i \in R : order[TaskOf[i]] > 0
  PROVE  LET rank(j) == Cardinality({i \in R : Before(i, j)})
         IN  /\ \A j \in R : rank(j) \in Nat /\ rank(j) < Cardinality(R)
             /\ \A i, j \in R : i # j => rank(i) # rank(j)
<1> DEFINE below(j) == {i \in R : Before(i, j)}
<1>1. IsFiniteSet(R) /\ Cardinality(R) \in Nat
  BY FiniteAssumption, FS_Subset, FS_CardinalityType
<1>2. ASSUME NEW j \in R
      PROVE  /\ IsFiniteSet(below(j)) /\ Cardinality(below(j)) \in Nat
             /\ Cardinality(below(j)) < Cardinality(R)
  <2>1. below(j) \subseteq R /\ j \notin below(j)
    BY BeforeIsAnOrder
  <2>2. IsFiniteSet(below(j)) /\ Cardinality(below(j)) \in Nat
    BY <1>1, <2>1, FS_Subset, FS_CardinalityType
  <2>3. Cardinality(below(j)) <= Cardinality(R) /\ Cardinality(below(j)) # Cardinality(R)
    BY <1>1, <2>1, FS_Subset
  <2> QED
    BY <1>1, <2>2, <2>3
<1>3. ASSUME NEW i \in R, NEW j \in R, Before(i, j)
      PROVE  Cardinality(below(i)) # Cardinality(below(j))
  <2>1. below(i) \subseteq below(j) /\ i \in below(j) /\ i \notin below(i)
    BY <1>3, BeforeIsAnOrder
  <2> HIDE DEF below
  <2> QED
    BY <1>2, <2>1, FS_Subset
<1>4. \A i, j \in R : i # j => Before(i, j) \/ Before(j, i)
  BY BeforeIsTotal
<1>5. \A i, j \in R : i # j => Cardinality(below(i)) # Cardinality(below(j))
  BY <1>3, <1>4
<1> QED
  BY <1>2, <1>5

-----------------------------------------------------------------------------
LEMMA InitInv == Init => DispatchInv
<1> SUFFICES ASSUME Init PROVE DispatchInv
  OBVIOUS
<1>1. TypeOK
  BY DEF Init, TypeOK
<1>2. OrderIsSubmission /\ RowsWithTheirTask /\ TokensAreReservations
  BY TargetAssumption DEF Init, OrderIsSubmission, RowsWithTheirTask, TokensAreReservations,
                          Holding
<1>3. TokenIdentifiesARow /\ AccountOrder
  BY TargetAssumption DEF Init, TokenIdentifiesARow, AccountOrder
<1>4. Permits = {}
  BY DEF Init, Permits, Holding
<1>5. PermitBudget /\ OnePermitPerAccount
  BY <1>4, FS_EmptySet, LimitAssumption DEF PermitBudget, OnePermitPerAccount
<1> QED
  BY <1>1, <1>2, <1>3, <1>5 DEF DispatchInv

LEMMA SubmitInv ==
  ASSUME DispatchInv, NEW t \in Task, Submit(t)
  PROVE  DispatchInv'
<1> USE DEF DispatchInv
<1>1. /\ order[t] = 0 /\ submitted' = submitted + 1
      /\ order' = [order EXCEPT ![t] = submitted + 1]
      /\ state' = [j \in Job |-> IF TaskOf[j] = t THEN "pending" ELSE state[j]]
      /\ UNCHANGED <<permit, issued, outcome, wake, wakeAcked, cancelRow>>
  BY DEF Submit
<1>2. \A j \in Job : TaskOf[j] \in Task
  BY TargetAssumption
<1>3. \A j \in Job : TaskOf[j] = t => state[j] = "absent" /\ permit[j] = 0
  BY <1>1, <1>2 DEF RowsWithTheirTask, TokensAreReservations, TypeOK, Holding
<1>4. TypeOK'
  BY <1>1 DEF TypeOK, Open
<1>5. OrderIsSubmission'
  BY <1>1 DEF OrderIsSubmission, TypeOK
<1>6. RowsWithTheirTask'
  BY <1>1, <1>2 DEF RowsWithTheirTask, TypeOK
<1>7. TokensAreReservations'
  BY <1>1, <1>3 DEF TokensAreReservations, Holding
<1>8. TokenIdentifiesARow'
  BY <1>1 DEF TokenIdentifiesARow
<1>9. Permits' = Permits
  BY <1>1, <1>3 DEF Permits, Holding
<1>10. PermitBudget' /\ OnePermitPerAccount'
  BY <1>9, BudgetShrinks DEF OnePermitPerAccount
<1>11. AccountOrder'
  <2> SUFFICES ASSUME NEW i \in Job, NEW j \in Job, Owner[i] = Owner[j],
                      0 < order'[TaskOf[i]], order'[TaskOf[i]] < order'[TaskOf[j]],
                      permit'[j] > 0
               PROVE  state'[i] = "terminal"
    BY DEF AccountOrder
  <2>1. TaskOf[j] # t /\ order'[TaskOf[j]] = order[TaskOf[j]]
    BY <1>1, <1>2, <1>3 DEF TypeOK
  <2>2. TaskOf[i] # t
    BY <1>1, <1>2, <2>1 DEF OrderIsSubmission, TypeOK
  <2> QED
    BY <1>1, <1>2, <2>1, <2>2 DEF AccountOrder, TypeOK
<1> QED
  BY <1>4, <1>5, <1>6, <1>7, <1>8, <1>10, <1>11

(* The rows that a reservation reaches, and the permits there are then. *)
LEMMA Reserved ==
  ASSUME DispatchInv, NEW R \in SUBSET Job, Reserve(R)
  PROVE  /\ \A j \in R : state[j] = "pending" /\ permit[j] = 0 /\ order[TaskOf[j]] > 0
         /\ Permits' = Permits \union R
         /\ Cardinality(Permits') = Cardinality(Permits) + Cardinality(R)
<1> USE DEF DispatchInv
<1>1. \A j \in R : state[j] = "pending"
  BY DEF Reserve, Granted, Heads
<1>2. \A j \in R : permit[j] = 0 /\ order[TaskOf[j]] > 0
  BY <1>1, TargetAssumption DEF TokensAreReservations, RowsWithTheirTask, TypeOK, Holding
<1>3. Permits' = Permits \union R
  BY DEF Reserve, Permits, Holding
<1>4. Permits \intersect R = {}
  BY <1>1 DEF Permits, Holding
<1>5. IsFiniteSet(R) /\ Cardinality(R) \in Nat /\ Cardinality(Permits) \in Nat
  BY FiniteAssumption, FS_Subset, PermitsFinite, FS_CardinalityType
<1>6. Cardinality(Permits') = Cardinality(Permits) + Cardinality(R)
  BY <1>3, <1>4, <1>5, PermitsFinite, FS_Union, FS_EmptySet
<1> QED
  BY <1>1, <1>2, <1>3, <1>6

LEMMA ReserveInv ==
  ASSUME DispatchInv, NEW R \in SUBSET Job, Reserve(R)
  PROVE  DispatchInv'
<1> DEFINE rank(j) == Cardinality({i \in R : Before(i, j)})
<1> USE DEF DispatchInv
<1>1. /\ Granted(R)
      /\ issued' = issued + Cardinality(R)
      /\ permit' = [j \in Job |-> IF j \in R THEN issued + 1 + rank(j) ELSE permit[j]]
      /\ state' = [j \in Job |-> IF j \in R THEN "sending" ELSE state[j]]
      /\ UNCHANGED <<order, submitted, outcome, wake, wakeAcked, cancelRow>>
  BY DEF Reserve
<1>2. /\ \A j \in R : rank(j) \in Nat /\ rank(j) < Cardinality(R)
      /\ \A i, j \in R : i # j => rank(i) # rank(j)
  BY Reserved, RanksDiffer
<1>3. Cardinality(R) \in Nat /\ issued \in Nat
  BY FiniteAssumption, FS_Subset, FS_CardinalityType DEF TypeOK
<1> HIDE DEF rank
<1>4. /\ \A j \in R : state[j] = "pending" /\ permit[j] = 0 /\ order[TaskOf[j]] > 0
      /\ Permits' = Permits \union R
      /\ Cardinality(Permits') = Cardinality(Permits) + Cardinality(R)
  BY Reserved
<1>5. TypeOK'
  BY <1>1, <1>2, <1>3 DEF TypeOK, Open
<1>6. OrderIsSubmission' /\ RowsWithTheirTask'
  BY <1>1, <1>4 DEF OrderIsSubmission, RowsWithTheirTask
<1>7. TokensAreReservations'
  BY <1>1, <1>2, <1>3 DEF TokensAreReservations, Holding, TypeOK
<1>8. TokenIdentifiesARow'
  <2> SUFFICES ASSUME NEW i \in Job, NEW j \in Job, i # j, permit'[i] > 0
               PROVE  permit'[i] # permit'[j]
    BY DEF TokenIdentifiesARow
  <2>1. permit[i] \in Nat /\ permit[j] \in Nat /\ permit[i] <= issued /\ permit[j] <= issued
    BY DEF TokensAreReservations, TypeOK
  <2>2. CASE i \in R /\ j \in R
    BY <1>1, <1>2, <1>3, <2>2
  <2>3. CASE i \in R <=> j \notin R
    BY <1>1, <1>2, <1>3, <2>1, <2>3
  <2>4. CASE i \notin R /\ j \notin R
    BY <1>1, <2>4 DEF TokenIdentifiesARow
  <2> QED
    BY <2>2, <2>3, <2>4
<1>9. PermitBudget'
  BY <1>1, <1>3, <1>4, PermitsFinite, FS_CardinalityType, LimitAssumption
  DEF Granted, PermitBudget
<1>10. OnePermitPerAccount'
  <2>1. ASSUME NEW i \in R, NEW j \in R, Owner[i] = Owner[j]
        PROVE  i = j
    BY <1>1, <1>4, <2>1, BeforeIsTotal DEF Granted, Heads
  <2>2. ASSUME NEW i \in R, NEW j \in Permits
        PROVE  Owner[i] # Owner[j]
    BY <1>1, <2>2 DEF Granted, Heads
  <2> QED
    BY <1>4, <2>1, <2>2 DEF OnePermitPerAccount
<1>11. AccountOrder'
  <2> SUFFICES ASSUME NEW i \in Job, NEW j \in Job, Owner[i] = Owner[j],
                      0 < order[TaskOf[i]], order[TaskOf[i]] < order[TaskOf[j]],
                      permit'[j] > 0
               PROVE  state'[i] = "terminal"
    BY <1>1 DEF AccountOrder
  <2>1. state[i] = "terminal"
    <3>1. CASE j \in R
      <4>1. state[i] # "pending"
        BY <1>1, <3>1 DEF Granted, Heads, Before
      <4>2. i \notin Permits
        BY <1>1, <3>1 DEF Granted, Heads
      <4>3. state[i] # "absent"
        BY DEF RowsWithTheirTask
      <4> QED
        BY <4>1, <4>2, <4>3 DEF Permits, Holding, TypeOK, Open
    <3>2. CASE j \notin R
      BY <1>1, <3>2 DEF AccountOrder
    <3> QED
      BY <3>1, <3>2
  <2>2. i \notin R
    BY <1>4, <2>1
  <2> QED
    BY <1>1, <2>1, <2>2
<1> QED
  BY <1>5, <1>6, <1>7, <1>8, <1>9, <1>10, <1>11

(* A permit that changes its state or ends leaves the rest alone. *)
LEMMA PermitStepInv ==
  ASSUME DispatchInv, NEW j \in Job, NEW s \in Holding \union {"terminal"},
         state[j] \in Holding, state' = [state EXCEPT ![j] = s],
         outcome' \in [Job -> Outcomes \union {None}],
         UNCHANGED <<order, submitted, permit, issued, wake, wakeAcked, cancelRow>>
  PROVE  DispatchInv'
<1> USE DEF DispatchInv
<1>1. /\ state'[j] = s
      /\ \A i \in Job : i # j => state'[i] = state[i]
  BY DEF TypeOK
<1>2. TypeOK'
  BY DEF TypeOK, Open, Holding
<1>3. OrderIsSubmission' /\ RowsWithTheirTask'
  BY <1>1 DEF OrderIsSubmission, RowsWithTheirTask, Holding
<1>4. TokensAreReservations' /\ TokenIdentifiesARow'
  BY <1>1 DEF TokensAreReservations, TokenIdentifiesARow, Holding
<1>5. Permits' \subseteq Permits
  BY <1>1 DEF Permits
<1>6. PermitBudget' /\ OnePermitPerAccount'
  BY <1>5, BudgetShrinks DEF OnePermitPerAccount
<1>7. AccountOrder'
  BY <1>1 DEF AccountOrder, Holding
<1> QED
  BY <1>2, <1>3, <1>4, <1>6, <1>7

(* Wake and cancel requests are beside the permits. *)
LEMMA RequestInv ==
  ASSUME DispatchInv, wake' \in [Job -> Nat], wakeAcked' \in [Job -> BOOLEAN],
         cancelRow' \in [Job -> {"none", "requested", "acknowledged"}],
         UNCHANGED <<order, submitted, state, permit, issued, outcome>>
  PROVE  DispatchInv'
<1> USE DEF DispatchInv
<1>1. TypeOK'
  BY DEF TypeOK
<1>2. Permits' = Permits
  BY DEF Permits
<1>3. PermitBudget' /\ OnePermitPerAccount'
  BY <1>2, BudgetShrinks DEF OnePermitPerAccount
<1>4. OrderIsSubmission' /\ RowsWithTheirTask' /\ TokensAreReservations'
      /\ TokenIdentifiesARow' /\ AccountOrder'
  BY DEF OrderIsSubmission, RowsWithTheirTask, TokensAreReservations, TokenIdentifiesARow,
         AccountOrder
<1> QED
  BY <1>1, <1>3, <1>4

LEMMA NextInv == DispatchInv /\ [Next]_dispatchVars => DispatchInv'
<1> SUFFICES ASSUME DispatchInv, [Next]_dispatchVars PROVE DispatchInv'
  OBVIOUS
<1>1. TypeOK
  BY DEF DispatchInv
<1>2. CASE UNCHANGED dispatchVars
  BY <1>1, <1>2, RequestInv DEF dispatchVars, TypeOK
<1>3. ASSUME NEW t \in Task, Submit(t) PROVE DispatchInv'
  BY <1>3, SubmitInv
<1>4. ASSUME NEW t \in Task, RequestWake(t) PROVE DispatchInv'
  <2>1. wake' \in [Job -> Nat]
    BY <1>1, <1>4 DEF RequestWake, TypeOK
  <2>2. wakeAcked' \in [Job -> BOOLEAN]
    BY <1>1, <1>4 DEF RequestWake, TypeOK
  <2> QED
    BY <1>1, <1>4, <2>1, <2>2, RequestInv DEF RequestWake, TypeOK
<1>5. ASSUME NEW t \in Task, RequestCancel(t) PROVE DispatchInv'
  BY <1>1, <1>5, RequestInv DEF RequestCancel, TypeOK
<1>6. ASSUME NEW R \in SUBSET Job, Reserve(R) PROVE DispatchInv'
  BY <1>6, ReserveInv
<1>7. ASSUME NEW j \in Job, NEW p \in 1..issued, Acknowledge(j, p) PROVE DispatchInv'
  BY <1>1, <1>7, PermitStepInv DEF Acknowledge, Holding, TypeOK
<1>8. ASSUME NEW j \in Job, NEW p \in 1..issued, NEW r \in Outcomes, Complete(j, p, r)
      PROVE  DispatchInv'
  BY <1>1, <1>8, PermitStepInv DEF Complete, Holding, TypeOK
<1>9. ASSUME NEW j \in Job, NEW p \in 1..issued, NEW q \in 1..MaxWakes,
             AcknowledgeWake(j, p, q)
      PROVE  DispatchInv'
  BY <1>1, <1>9, RequestInv DEF AcknowledgeWake, TypeOK
<1>10. ASSUME NEW j \in Job, NEW p \in 1..issued, AcknowledgeCancel(j, p)
       PROVE  DispatchInv'
  BY <1>1, <1>10, RequestInv DEF AcknowledgeCancel, TypeOK
<1> QED
  BY <1>2, <1>3, <1>4, <1>5, <1>6, <1>7, <1>8, <1>9, <1>10 DEF Next

(* DispatchInv holds in every state of every execution of TaskDispatch. *)
THEOREM DispatchInvariant == Spec => []DispatchInv
BY InitInv, NextInv, PTL DEF Spec

(* The tables of the outbox keep their types. *)
THEOREM DispatchTypes == Spec => []TypeOK
<1>1. DispatchInv => TypeOK
  BY DEF DispatchInv
<1> QED
  BY <1>1, DispatchInvariant, PTL

(* At most MaxPermits rows hold a permit, unknown outcomes included        *)
(* (TaskDispatch.reserve counts sending and accepted rows).                *)
THEOREM Budget == Spec => []PermitBudget
<1>1. DispatchInv => PermitBudget
  BY DEF DispatchInv
<1> QED
  BY <1>1, DispatchInvariant, PTL

(* No account holds two permits (the NOT EXISTS of TaskDispatch.reserve).  *)
THEOREM Exclusive == Spec => []OnePermitPerAccount
<1>1. DispatchInv => OnePermitPerAccount
  BY DEF DispatchInv
<1> QED
  BY <1>1, DispatchInvariant, PTL

(* Permits are sound: typed, within the budget, one per account. *)
THEOREM PermitSoundness == Spec => []PermitsAreSound
BY DispatchTypes, Budget, Exclusive, PTL DEF PermitsAreSound

(* A row of an account gets its permit only when the rows of that account  *)
(* that were submitted before it are terminal (ORDER BY seq).              *)
THEOREM SubmissionOrder == Spec => []AccountOrder
<1>1. DispatchInv => AccountOrder
  BY DEF DispatchInv
<1> QED
  BY <1>1, DispatchInvariant, PTL

(* The token of a permit identifies one row, which is what lets delivery() *)
(* refuse stale callbacks.                                                 *)
THEOREM TokensAreUnique == Spec => []TokenIdentifiesARow
<1>1. DispatchInv => TokenIdentifiesARow
  BY DEF DispatchInv
<1> QED
  BY <1>1, DispatchInvariant, PTL

-----------------------------------------------------------------------------
LEMMA KeptStep == DispatchInv /\ [Next]_dispatchVars => [PermitsAreKept]_dispatchVars
<1> SUFFICES ASSUME DispatchInv, Next PROVE PermitsAreKept
  OBVIOUS
<1>1. TypeOK /\ TokensAreReservations
  BY DEF DispatchInv
<1> SUFFICES ASSUME NEW j \in Job
             PROVE  /\ permit[j] > 0 => /\ permit'[j] = permit[j]
                                        /\ state'[j] \notin {"absent", "pending"}
                    /\ state[j] = "accepted" => state'[j] # "sending"
                    /\ state[j] = "terminal" => /\ state'[j] = "terminal"
                                                /\ outcome'[j] = outcome[j]
  BY DEF PermitsAreKept
<1>2. permit[j] > 0 => state[j] \in Holding \union {"terminal"}
  BY <1>1 DEF TokensAreReservations
<1>3. ASSUME NEW t \in Task, Submit(t), TaskOf[j] = t PROVE permit[j] = 0 /\ state[j] = "absent"
  BY <1>1, <1>3, TargetAssumption
  DEF DispatchInv, Submit, RowsWithTheirTask, TokensAreReservations, TypeOK, Holding
<1>4. ASSUME NEW t \in Task, Submit(t) \/ RequestWake(t) \/ RequestCancel(t)
      PROVE  /\ permit'[j] = permit[j] /\ outcome'[j] = outcome[j]
             /\ state'[j] # state[j] => permit[j] = 0 /\ state[j] = "absent"
  BY <1>3, <1>4 DEF Submit, RequestWake, RequestCancel
<1>5. ASSUME NEW R \in SUBSET Job, Reserve(R)
      PROVE  /\ j \in R => permit[j] = 0 /\ state[j] = "pending"
             /\ j \notin R => permit'[j] = permit[j] /\ state'[j] = state[j]
             /\ outcome'[j] = outcome[j]
  BY <1>5, Reserved DEF Reserve
<1>6. ASSUME NEW i \in Job, NEW p \in 1..issued, Acknowledge(i, p)
      PROVE  /\ permit'[j] = permit[j] /\ outcome'[j] = outcome[j]
             /\ state'[j] = state[j] \/ (state[j] = "sending" /\ state'[j] = "accepted")
  BY <1>1, <1>6 DEF Acknowledge, TypeOK
<1>7. ASSUME NEW i \in Job, NEW p \in 1..issued, NEW r \in Outcomes, Complete(i, p, r)
      PROVE  /\ permit'[j] = permit[j]
             /\ \/ state'[j] = state[j] /\ outcome'[j] = outcome[j]
                \/ state[j] \in Holding /\ state'[j] = "terminal"
  BY <1>1, <1>7 DEF Complete, TypeOK, Holding
<1>8. ASSUME NEW i \in Job, NEW p \in 1..issued,
             AcknowledgeCancel(i, p) \/ \E q \in 1..MaxWakes : AcknowledgeWake(i, p, q)
      PROVE  permit'[j] = permit[j] /\ state'[j] = state[j] /\ outcome'[j] = outcome[j]
  BY <1>8 DEF AcknowledgeWake, AcknowledgeCancel
<1> QED
  BY <1>2, <1>4, <1>5, <1>6, <1>7, <1>8 DEF Next, Holding

(* A permit, its token and a recorded outcome are never taken back: no     *)
(* late acknowledgement, wake or cancellation reopens a row.               *)
THEOREM PermitsPersist == Spec => PermitsNeverRevoked
<1>1. DispatchInv /\ [Next]_dispatchVars => [PermitsAreKept]_dispatchVars
  BY KeptStep
<1> QED
  BY <1>1, DispatchInvariant, PTL DEF Spec, PermitsNeverRevoked

(* Every nonempty set of numbers has a least one. *)
LEMMA LeastNumber ==
  ASSUME NEW S \in SUBSET Nat, S # {}
  PROVE  \E n \in S : \A m \in S : n <= m
<1> DEFINE less == {ss \in Nat \X Nat : ss[1] < ss[2]}
<1>1. IsWellFoundedOn(less, Nat)
  BY NatLessThanWellFounded DEF OpToRel
<1> HIDE DEF less
<1>2. \E n \in S : \A m \in S : ~(<<m, n>> \in less)
  BY <1>1, WFMin
<1>3. ASSUME NEW m \in Nat, NEW n \in Nat, m < n
      PROVE  <<m, n>> \in less
  <2>1. <<m, n>> \in Nat \X Nat /\ <<m, n>>[1] < <<m, n>>[2]
    BY <1>3
  <2> QED
    BY <2>1 DEF less
<1>4. PICK n \in S : \A m \in S : ~(<<m, n>> \in less)
  BY <1>2
<1>5. ASSUME NEW m \in S
      PROVE  n <= m
  <2>1. m \in Nat /\ n \in Nat
    OBVIOUS
  <2>2. ~(<<m, n>> \in less)
    BY <1>4
  <2>3. ~(m < n)
    BY <1>3, <2>1, <2>2
  <2> QED
    BY <2>1, <2>3
<1> QED
  BY <1>5

LEMMA CompleteStep ==
  DispatchInv /\ [Next]_dispatchVars => [NobodyWaitsForAFreePermit]_dispatchVars
<1> SUFFICES ASSUME DispatchInv, Next, issued' # issued PROVE NobodyWaitsForAFreePermit
  BY DEF NobodyWaitsForAFreePermit
<1> USE DEF DispatchInv
<1>1. PICK R \in SUBSET Job : Reserve(R)
  BY DEF Next, Submit, RequestWake, RequestCancel, Acknowledge, Complete, AcknowledgeWake,
         AcknowledgeCancel
<1>2. /\ Permits' = Permits \union R
      /\ Cardinality(Permits') = Cardinality(Permits) + Cardinality(R)
      /\ Granted(R)
  BY <1>1, Reserved DEF Reserve
<1>3. Cardinality(R) \in Nat /\ Cardinality(Permits) \in Nat
  BY FiniteAssumption, FS_Subset, PermitsFinite, FS_CardinalityType
<1>4. CASE Cardinality(R) + Cardinality(Permits) = MaxPermits
  BY <1>2, <1>3, <1>4 DEF NobodyWaitsForAFreePermit
<1>5. CASE R = Heads
  <2> SUFFICES ASSUME NEW j \in Job, state'[j] = "pending",
                      \A i \in Permits : Owner[i] # Owner[j]
               PROVE  \E i \in R : Owner[i] = Owner[j]
    BY <1>2 DEF NobodyWaitsForAFreePermit
  <2> DEFINE W == {i \in Job : state[i] = "pending" /\ Owner[i] = Owner[j]}
             N == {order[TaskOf[i]] : i \in W}
  <2>1. j \in W
    BY <1>1 DEF Reserve
  <2>2. N \in SUBSET Nat /\ N # {}
    BY <2>1, TargetAssumption DEF TypeOK
  <2>3. PICK n \in N : \A m \in N : n <= m
    BY <2>2, LeastNumber
  <2>4. PICK i \in W : order[TaskOf[i]] = n
    OBVIOUS
  <2>5. \A k \in W : ~Before(k, i)
    <3> SUFFICES ASSUME NEW k \in W, Before(k, i) PROVE FALSE
      OBVIOUS
    <3>1. order[TaskOf[i]] \in Nat /\ order[TaskOf[k]] \in Nat
      BY TargetAssumption DEF TypeOK
    <3>2. TaskOf[k] = TaskOf[i] /\ Place[k] < Place[i]
      BY <2>3, <2>4, <3>1 DEF Before
    <3> QED
      BY <3>2, TargetAssumption
  <2>6. i \in Heads
    BY <2>5 DEF Heads
  <2> QED
    BY <1>5, <2>6
<1> QED
  BY <1>2, <1>4, <1>5 DEF Granted

(* After a reservation all permits are in use, or every account with a     *)
(* pending row holds one: the loop of TaskDispatch.reserve stops early     *)
(* only when nobody is left to serve.                                      *)
THEOREM NoPermitIdles == Spec => ReservationIsComplete
<1>1. DispatchInv /\ [Next]_dispatchVars => [NobodyWaitsForAFreePermit]_dispatchVars
  BY CompleteStep
<1> QED
  BY <1>1, DispatchInvariant, PTL DEF Spec, ReservationIsComplete
=============================================================================
