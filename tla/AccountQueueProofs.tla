------------------------- MODULE AccountQueueProofs -------------------------
(***************************************************************************)
(* Proofs about AccountQueue for every set of accounts and jobs, every     *)
(* plan length and every bound.  QueueInv is the inductive invariant; the  *)
(* safety invariants that TLC checks on small instances follow from it.    *)
(***************************************************************************)
EXTENDS AccountQueue, TLAPS

(* The steps that were handed to the executor at some time. *)
Claimed == Uncertain \union {"verified", "failed"}

(* A job's rows are inserted together, one per planned ordinal. *)
RowsTogether ==
  \A j \in Job : \A o \in Ordinal :
    stepState[j][o] = "absent" <=> (jobState[j] = "absent" \/ o \notin Planned(j))

(* A step has a token exactly when it was claimed. *)
TokensAreClaims ==
  \A j \in Job : \A o \in Ordinal : token[j][o] > 0 <=> stepState[j][o] \in Claimed

(* Steps are skipped only by a cancellation or after a failure ... *)
SkipsHaveACause ==
  \A j \in Job : \A o \in Ordinal : stepState[j][o] = "skipped" =>
    cancelRequested[j] \/ \E p \in Ordinal : stepState[j][p] = "failed"

(* ... and then all of them: nothing stays planned behind either. *)
NothingPlannedBehind ==
  \A j \in Job : \A o \in Ordinal : stepState[j][o] = "planned" =>
    ~cancelRequested[j] /\ \A p \in Ordinal : stepState[j][p] # "failed"

(* seq numbers are given in order, to the jobs that were inserted. *)
SeqInOrder ==
  \A j \in Job : /\ seq[j] <= inserted[Owner[j]]
                 /\ seq[j] = 0 <=> jobState[j] = "absent"

QueueInv ==
  /\ TypeOK
  /\ RowsTogether
  /\ TokensAreClaims
  /\ OneUncertainStep
  /\ VerifiedPrefix
  /\ SkipsHaveACause
  /\ NothingPlannedBehind
  /\ StateIsSummary
  /\ SeqInOrder
  /\ EarlierJobsAreOver

-----------------------------------------------------------------------------
(* What summarize returns. *)
LEMMA SummaryValue ==
  ASSUME NEW j, NEW s, NEW c
  PROVE  Summary(j, s, c) \in {"needs_review", "running"} \union Terminal
BY DEF Summary, Terminal

LEMMA SummaryReview ==
  ASSUME NEW j, NEW s, NEW c
  PROVE  Summary(j, s, c) = "needs_review" <=> \E o \in Planned(j) : s[o] = "unknown"
BY DEF Summary, Terminal

LEMMA SummaryRunning ==
  ASSUME NEW j, NEW s, NEW c
  PROVE  Summary(j, s, c) = "running"
           => \E o \in Planned(j) : s[o] \in {"planned", "in_flight"}
BY DEF Summary

LEMMA SummaryTerminal ==
  ASSUME NEW j, NEW s, NEW c, Summary(j, s, c) \in Terminal
  PROVE  \A o \in Planned(j) : s[o] \notin {"planned", "in_flight", "unknown"}
BY DEF Summary, Terminal

LEMMA SummaryBusy ==
  ASSUME NEW j, NEW s, NEW c, \E o \in Planned(j) : s[o] = "in_flight",
         \A o \in Planned(j) : s[o] # "unknown"
  PROVE  Summary(j, s, c) = "running"
BY DEF Summary

(* The ordinals of a job's rows are ordinals, and every job has a first.   *)
LEMMA PlannedOrdinals ==
  ASSUME NEW j \in Job
  PROVE  Planned(j) \subseteq Ordinal /\ 0 \in Planned(j)
BY StepsAssumption DEF Planned, Ordinal

(* SkipPlanned only turns planned rows into skipped ones. *)
LEMMA SkipPlannedType ==
  ASSUME NEW s \in [Ordinal -> StepState]
  PROVE  /\ SkipPlanned(s) \in [Ordinal -> StepState]
         /\ \A o \in Ordinal :
              SkipPlanned(s)[o] = IF s[o] = "planned" THEN "skipped" ELSE s[o]
BY DEF SkipPlanned, StepState

-----------------------------------------------------------------------------
LEMMA InitQueue == Init => QueueInv
<1> SUFFICES ASSUME Init PROVE QueueInv
  OBVIOUS
<1> USE DEF Init
<1>1. TypeOK
  BY DEF TypeOK, StepState
<1>2. RowsTogether /\ TokensAreClaims /\ OneUncertainStep /\ VerifiedPrefix
  BY DEF RowsTogether, TokensAreClaims, OneUncertainStep, VerifiedPrefix, Claimed, Uncertain
<1>3. SkipsHaveACause /\ NothingPlannedBehind /\ StateIsSummary
  BY DEF SkipsHaveACause, NothingPlannedBehind, StateIsSummary
<1>4. SeqInOrder /\ EarlierJobsAreOver
  BY OwnerAssumption DEF SeqInOrder, EarlierJobsAreOver
<1> QED
  BY <1>1, <1>2, <1>3, <1>4 DEF QueueInv

(* A job that is neither over nor claimable, in an account without an      *)
(* uncertain step, has not been inserted.                                  *)
LEMMA IdleJobs ==
  ASSUME QueueInv, NEW j \in Job, ~Busy(Owner[j]), jobState[j] # "absent",
         jobState[j] \notin Terminal
  PROVE  j \in Claimable(Owner[j])
<1>1. \A o \in Ordinal : stepState[j][o] \notin Uncertain
  BY DEF Busy, Uncertain
<1>2. Planned(j) \subseteq Ordinal /\ 0 \in Planned(j)
  BY PlannedOrdinals
<1>3. CASE \A o \in Planned(j) : stepState[j][o] = "planned"
  <2>1. jobState[j] = "queued"
    BY <1>3 DEF QueueInv, StateIsSummary
  <2>2. ~cancelRequested[j]
    BY <1>2, <1>3 DEF QueueInv, NothingPlannedBehind
  <2> QED
    BY <2>1, <2>2 DEF Claimable
<1>4. CASE ~ \A o \in Planned(j) : stepState[j][o] = "planned"
  <2>1. jobState[j] = Summary(j, stepState[j], cancelRequested[j])
    BY <1>4 DEF QueueInv, StateIsSummary
  <2>2. jobState[j] = "running"
    BY <2>1, <1>1, <1>2, SummaryValue, SummaryReview DEF Uncertain
  <2>3. PICK o \in Planned(j) : stepState[j][o] \in {"planned", "in_flight"}
    BY <2>1, <2>2, SummaryRunning
  <2>4. ~cancelRequested[j]
    BY <1>1, <1>2, <2>3 DEF QueueInv, NothingPlannedBehind, Uncertain
  <2> QED
    BY <2>2, <2>4 DEF Claimable
<1> QED
  BY <1>3, <1>4

LEMMA EnqueueInv ==
  ASSUME QueueInv, NEW j \in Job, NEW c \in BOOLEAN, Enqueue(j, c)
  PROVE  QueueInv'
<1> DEFINE fresh  == [p \in Ordinal |-> IF p \in Planned(j) THEN "planned" ELSE "absent"]
           states == IF c THEN SkipPlanned(fresh) ELSE fresh
<1> USE DEF QueueInv
<1>1. Planned(j) \subseteq Ordinal /\ 0 \in Planned(j)
  BY PlannedOrdinals
<1>2. /\ states \in [Ordinal -> StepState]
      /\ \A p \in Ordinal :
           states[p] = IF p \notin Planned(j) THEN "absent"
                       ELSE IF c THEN "skipped" ELSE "planned"
  <2>1. fresh \in [Ordinal -> StepState]
    BY DEF StepState
  <2> QED
    BY <2>1, SkipPlannedType
<1> HIDE DEF fresh, states
<1>3. /\ jobState[j] = "absent" /\ seq[j] = 0 /\ Owner[j] \in Account
      /\ \A p \in Ordinal : stepState[j][p] = "absent" /\ token[j][p] = 0
  <2>1. jobState[j] = "absent" /\ seq[j] = 0 /\ Owner[j] \in Account
    BY OwnerAssumption DEF Enqueue, SeqInOrder
  <2>2. \A p \in Ordinal : stepState[j][p] = "absent"
    BY <2>1 DEF RowsTogether
  <2>3. \A p \in Ordinal : token[j][p] \in Nat
    BY DEF TypeOK
  <2>4. \A p \in Ordinal : ~(token[j][p] > 0)
    BY <2>2 DEF TokensAreClaims, Claimed, Uncertain
  <2> QED
    BY <2>1, <2>2, <2>3, <2>4
<1>4. /\ stepState' = [stepState EXCEPT ![j] = states]
      /\ cancelRequested' = [cancelRequested EXCEPT ![j] = c]
      /\ jobState' = [jobState EXCEPT ![j] = IF c THEN Summary(j, states, TRUE) ELSE "queued"]
      /\ inserted' = [inserted EXCEPT ![Owner[j]] = @ + 1]
      /\ seq' = [seq EXCEPT ![j] = inserted[Owner[j]] + 1]
      /\ UNCHANGED <<token, evidence, minted, receipts>>
  BY DEF Enqueue, states, fresh
<1>5. Summary(j, states, TRUE) \in {"needs_review", "running"} \union Terminal
  BY SummaryValue
<1>6. TypeOK'
  <2>1. jobState' \in [Job -> {"absent"} \union Unfinished \union Terminal]
    BY <1>4, <1>5 DEF TypeOK, Unfinished
  <2>2. stepState' \in [Job -> [Ordinal -> StepState]]
    BY <1>2, <1>4 DEF TypeOK
  <2>3. inserted' \in [Account -> Nat] /\ seq' \in [Job -> Nat]
    BY <1>3, <1>4 DEF TypeOK
  <2> QED
    BY <1>4, <2>1, <2>2, <2>3 DEF TypeOK
<1>7. RowsTogether'
  BY <1>1, <1>2, <1>4, <1>5 DEF RowsTogether, TypeOK, Terminal
<1>8. TokensAreClaims'
  BY <1>2, <1>3, <1>4 DEF TokensAreClaims, TypeOK, Claimed, Uncertain
<1>9. OneUncertainStep' /\ VerifiedPrefix'
  <2>1. \A k \in Job : k # j => stepState'[k] = stepState[k]
    BY <1>4 DEF TypeOK
  <2>2. \A o \in Ordinal : stepState'[j][o] \in {"absent", "planned", "skipped"}
    BY <1>2, <1>4 DEF TypeOK
  <2>3. OneUncertainStep'
    BY <2>1, <2>2 DEF OneUncertainStep, Uncertain
  <2> QED
    BY <2>1, <2>2, <2>3 DEF VerifiedPrefix, Uncertain
<1>10. SkipsHaveACause' /\ NothingPlannedBehind'
  BY <1>2, <1>4 DEF SkipsHaveACause, NothingPlannedBehind, TypeOK
<1>11. StateIsSummary'
  <2>1. ASSUME NEW k \in Job, k # j, jobState'[k] # "absent"
        PROVE  jobState'[k] = IF \A o \in Planned(k) : stepState'[k][o] = "planned"
                              THEN "queued" ELSE Summary(k, stepState'[k], cancelRequested'[k])
    BY <1>4, <2>1 DEF StateIsSummary, TypeOK
  <2>2. jobState'[j] = IF \A o \in Planned(j) : stepState'[j][o] = "planned"
                       THEN "queued" ELSE Summary(j, stepState'[j], cancelRequested'[j])
    <3>1. stepState'[j] = states /\ cancelRequested'[j] = c
      BY <1>4 DEF TypeOK
    <3>2. CASE c
      <4>1. states[0] # "planned"
        BY <1>1, <1>2, <3>2
      <4> QED
        BY <1>1, <1>4, <3>1, <3>2, <4>1 DEF TypeOK
    <3>3. CASE ~c
      BY <1>1, <1>2, <1>4, <3>1, <3>3 DEF TypeOK
    <3> QED
      BY <3>2, <3>3
  <2> QED
    BY <2>1, <2>2 DEF StateIsSummary
<1>12. SeqInOrder'
  <2>1. /\ inserted[Owner[j]] \in Nat
        /\ seq'[j] = inserted[Owner[j]] + 1 /\ inserted'[Owner[j]] = inserted[Owner[j]] + 1
    BY <1>3, <1>4 DEF TypeOK
  <2>2. jobState'[j] # "absent"
    BY <1>4, <1>5 DEF TypeOK, Terminal
  <2>3. ASSUME NEW k \in Job, k # j
        PROVE  seq'[k] = seq[k] /\ jobState'[k] = jobState[k]
    BY <1>4, <2>3 DEF TypeOK
  <2>4. ASSUME NEW k \in Job, k # j
        PROVE  seq[k] <= inserted'[Owner[k]]
    <3>1. /\ seq[k] \in Nat /\ Owner[k] \in Account /\ inserted[Owner[k]] \in Nat
          /\ seq[k] <= inserted[Owner[k]]
      BY OwnerAssumption DEF TypeOK, SeqInOrder
    <3> QED
      BY <1>4, <2>1, <3>1 DEF TypeOK
  <2> QED
    BY <2>1, <2>2, <2>3, <2>4 DEF SeqInOrder
<1>13. EarlierJobsAreOver'
  <2> SUFFICES ASSUME NEW i \in Job, NEW k \in Job, NEW o \in Ordinal,
                      Owner[i] = Owner[k], 0 < seq'[i], seq'[i] < seq'[k], token'[k][o] > 0
               PROVE  jobState'[i] \in Terminal
    BY DEF EarlierJobsAreOver
  <2>1. k # j
    BY <1>3, <1>4 DEF TypeOK
  <2>2. seq'[k] = seq[k] /\ seq[k] <= inserted[Owner[k]]
    BY <1>4, <2>1 DEF TypeOK, SeqInOrder
  <2>3. i # j
    <3>1. /\ seq'[j] = inserted[Owner[j]] + 1
          /\ inserted[Owner[j]] \in Nat /\ seq[k] \in Nat
      BY <1>3, <1>4 DEF TypeOK
    <3> QED
      BY <2>2, <3>1
  <2> QED
    BY <1>4, <2>1, <2>3 DEF EarlierJobsAreOver, TypeOK
<1> QED
  BY <1>6, <1>7, <1>8, <1>9, <1>10, <1>11, <1>12, <1>13

LEMMA CancelInv ==
  ASSUME QueueInv, NEW j \in Job, CancelLocal(j)
  PROVE  QueueInv'
<1> DEFINE states == SkipPlanned(stepState[j])
<1> USE DEF QueueInv
<1>1. Planned(j) \subseteq Ordinal /\ 0 \in Planned(j)
  BY PlannedOrdinals
<1>2. /\ states \in [Ordinal -> StepState]
      /\ \A p \in Ordinal : states[p] = IF stepState[j][p] = "planned" THEN "skipped"
                                        ELSE stepState[j][p]
  BY SkipPlannedType DEF TypeOK
<1> HIDE DEF states
<1>3. /\ stepState' = [stepState EXCEPT ![j] = states]
      /\ cancelRequested' = [cancelRequested EXCEPT ![j] = TRUE]
      /\ jobState' = [jobState EXCEPT ![j] = Summary(j, states, TRUE)]
      /\ UNCHANGED <<seq, inserted, token, evidence, minted, receipts>>
      /\ jobState[j] \in Unfinished
  BY DEF CancelLocal, states, TypeOK
<1>4. Summary(j, states, TRUE) \in {"needs_review", "running"} \union Terminal
  BY SummaryValue
<1>5. TypeOK'
  BY <1>2, <1>3, <1>4 DEF TypeOK, Unfinished, Terminal
<1>6. RowsTogether'
  BY <1>2, <1>3, <1>4 DEF RowsTogether, TypeOK, Unfinished, Terminal
<1>7. TokensAreClaims' /\ OneUncertainStep' /\ VerifiedPrefix'
  BY <1>2, <1>3 DEF TokensAreClaims, OneUncertainStep, VerifiedPrefix, TypeOK, Claimed, Uncertain
<1>8. SkipsHaveACause' /\ NothingPlannedBehind'
  BY <1>2, <1>3 DEF SkipsHaveACause, NothingPlannedBehind, TypeOK
<1>9. StateIsSummary'
  <2>1. states[0] # "planned"
    BY <1>1, <1>2
  <2> QED
    BY <1>1, <1>3, <2>1 DEF StateIsSummary, TypeOK
<1>10. SeqInOrder'
  BY <1>3, <1>4 DEF SeqInOrder, TypeOK, Unfinished, Terminal
<1>11. EarlierJobsAreOver'
  BY <1>3 DEF EarlierJobsAreOver, TypeOK, Unfinished, Terminal
<1> QED
  BY <1>5, <1>6, <1>7, <1>8, <1>9, <1>10, <1>11

LEMMA ClaimInv ==
  ASSUME QueueInv, NEW a \in Account, NEW j \in Job, NEW o \in Ordinal, Claim(a, j, o)
  PROVE  QueueInv'
<1> USE DEF QueueInv
<1>1. /\ Owner[j] = a /\ ~Busy(a)
      /\ jobState[j] \in {"queued", "running"} /\ ~cancelRequested[j]
      /\ stepState[j][o] = "planned"
      /\ \A p \in Ordinal : stepState[j][p] = "planned" => o <= p
  BY DEF Claim, IsNextJob, IsNextStep, Claimable
<1>2. \A k \in Job : \A p \in Ordinal : Owner[k] = a => stepState[k][p] \notin Uncertain
  BY <1>1 DEF Busy, Uncertain
<1>3. /\ minted' = minted + 1
      /\ token' = [token EXCEPT ![j] = [@ EXCEPT ![o] = minted + 1]]
      /\ stepState' = [stepState EXCEPT ![j] = [@ EXCEPT ![o] = "in_flight"]]
      /\ jobState' = [jobState EXCEPT ![j] = "running"]
      /\ UNCHANGED <<cancelRequested, seq, inserted, evidence, receipts>>
  BY DEF Claim
<1>4. minted \in Nat /\ minted + 1 > 0 /\ minted + 1 \in Nat
  BY DEF TypeOK
<1>5. /\ \A k \in Job : k # j => stepState'[k] = stepState[k] /\ token'[k] = token[k]
      /\ \A p \in Ordinal : p # o =>
           stepState'[j][p] = stepState[j][p] /\ token'[j][p] = token[j][p]
      /\ stepState'[j][o] = "in_flight" /\ token'[j][o] = minted + 1
      /\ \A k \in Job : k # j => jobState'[k] = jobState[k]
      /\ jobState'[j] = "running"
  BY <1>3 DEF TypeOK
<1>6. o \in Planned(j) /\ Planned(j) \subseteq Ordinal
  BY <1>1, PlannedOrdinals DEF RowsTogether
<1>7. TypeOK'
  <2>1. stepState' \in [Job -> [Ordinal -> StepState]]
    BY <1>3 DEF TypeOK, StepState
  <2>2. token' \in [Job -> [Ordinal -> Nat]]
    BY <1>3, <1>4 DEF TypeOK
  <2>3. jobState' \in [Job -> {"absent"} \union Unfinished \union Terminal]
    BY <1>3 DEF TypeOK, Unfinished
  <2> QED
    BY <1>3, <1>4, <2>1, <2>2, <2>3 DEF TypeOK
<1>8. RowsTogether'
  BY <1>1, <1>5 DEF RowsTogether
<1>9. TokensAreClaims'
  BY <1>4, <1>5 DEF TokensAreClaims, Claimed, Uncertain
<1>10. OneUncertainStep'
  BY <1>1, <1>2, <1>5 DEF OneUncertainStep
<1>11. VerifiedPrefix'
  <2>1. ASSUME NEW p \in Ordinal, p < o
        PROVE  stepState[j][p] = "verified"
    <3>1. p \in Planned(j)
      BY <1>6, <2>1, StepsAssumption DEF Planned, Ordinal
    <3>2. stepState[j][p] \in StepState /\ stepState[j][p] # "absent"
      BY <1>1, <3>1 DEF RowsTogether, TypeOK
    <3>3. stepState[j][p] # "planned"
      BY <1>1, <2>1, StepsAssumption DEF Ordinal
    <3>4. stepState[j][p] # "failed" /\ stepState[j][p] # "skipped"
      BY <1>1 DEF NothingPlannedBehind, SkipsHaveACause
    <3> QED
      BY <1>1, <1>2, <3>2, <3>3, <3>4 DEF StepState, Outcome, Uncertain
  <2>2. ASSUME NEW p \in Ordinal, o < p
        PROVE  stepState[j][p] \notin Uncertain \union {"verified", "failed"}
    BY <1>1, <2>2 DEF VerifiedPrefix
  <2> SUFFICES ASSUME NEW k \in Job, NEW q \in Ordinal, NEW p \in Ordinal, p < q,
                      stepState'[k][q] \in Uncertain \union {"verified", "failed"}
               PROVE  stepState'[k][p] = "verified"
    BY DEF VerifiedPrefix
  <2>3. CASE k # j
    BY <1>5, <2>3 DEF VerifiedPrefix
  <2>4. CASE k = j /\ q = o
    BY <1>5, <2>1, <2>4, StepsAssumption DEF Ordinal
  <2>5. CASE k = j /\ q # o
    BY <1>5, <2>2, <2>5 DEF VerifiedPrefix
  <2> QED
    BY <2>3, <2>4, <2>5
<1>12. SkipsHaveACause' /\ NothingPlannedBehind'
  BY <1>1, <1>3, <1>5 DEF SkipsHaveACause, NothingPlannedBehind
<1>13. StateIsSummary'
  <2>1. ASSUME NEW k \in Job, k # j, jobState'[k] # "absent"
        PROVE  jobState'[k] = IF \A p \in Planned(k) : stepState'[k][p] = "planned"
                              THEN "queued" ELSE Summary(k, stepState'[k], cancelRequested'[k])
    BY <1>3, <1>5, <2>1 DEF StateIsSummary
  <2>2. Summary(j, stepState'[j], cancelRequested'[j]) = "running"
    <3>1. \A p \in Planned(j) : stepState'[j][p] # "unknown"
      BY <1>1, <1>2, <1>5, <1>6 DEF Uncertain
    <3> QED
      BY <1>5, <1>6, <3>1, SummaryBusy
  <2> QED
    BY <1>5, <1>6, <2>1, <2>2 DEF StateIsSummary
<1>14. SeqInOrder'
  BY <1>1, <1>3, <1>5 DEF SeqInOrder
<1>15. EarlierJobsAreOver'
  <2> SUFFICES ASSUME NEW i \in Job, NEW k \in Job, NEW p \in Ordinal,
                      Owner[i] = Owner[k], 0 < seq[i], seq[i] < seq[k], token'[k][p] > 0
               PROVE  jobState'[i] \in Terminal
    BY <1>3 DEF EarlierJobsAreOver
  <2>1. seq[i] \in Nat /\ seq[k] \in Nat /\ i # k
    BY DEF TypeOK
  <2>2. CASE k = j
    <3>1. jobState[i] # "absent"
      BY <2>1 DEF SeqInOrder
    <3>2. i \notin Claimable(a)
      BY <2>1, <2>2 DEF Claim, IsNextJob
    <3>3. jobState[i] \in Terminal
      BY <1>1, <2>2, <3>1, <3>2, IdleJobs
    <3> QED
      BY <1>5, <2>1, <2>2, <3>3
  <2>3. CASE k # j
    <3>1. jobState[i] \in Terminal
      BY <1>5, <2>3 DEF EarlierJobsAreOver
    <3>2. i # j
      BY <1>1, <3>1 DEF Terminal
    <3> QED
      BY <1>5, <3>1, <3>2
  <2> QED
    BY <2>2, <2>3
<1> QED
  BY <1>7, <1>8, <1>9, <1>10, <1>11, <1>12, <1>13, <1>14, <1>15

(* A job with an uncertain step is not over. *)
LEMMA UncertainJobs ==
  ASSUME QueueInv, NEW j \in Job, NEW o \in Ordinal, stepState[j][o] \in Uncertain
  PROVE  jobState[j] \in {"running", "needs_review"} /\ o \in Planned(j)
<1> USE DEF QueueInv
<1>1. o \in Planned(j) /\ jobState[j] # "absent"
  BY DEF RowsTogether, Uncertain
<1>2. jobState[j] = Summary(j, stepState[j], cancelRequested[j])
  BY <1>1 DEF StateIsSummary, Uncertain
<1>3. jobState[j] \notin Terminal
  BY <1>1, <1>2, SummaryTerminal DEF Uncertain
<1> QED
  BY <1>1, <1>2, <1>3, SummaryValue

LEMMA RecordInv ==
  ASSUME QueueInv, NEW j \in Job, NEW o \in Ordinal, NEW r \in Outcome, NEW e \in Evidence,
         stepState[j][o] \in Uncertain, Record(j, o, r, e)
  PROVE  QueueInv'
<1> DEFINE marked == [stepState[j] EXCEPT ![o] = r]
           states == IF r = "failed" THEN SkipPlanned(marked) ELSE marked
<1> USE DEF QueueInv
<1>1. /\ states \in [Ordinal -> StepState]
      /\ states[o] = r
      /\ \A p \in Ordinal : p # o =>
           states[p] = IF r = "failed" /\ stepState[j][p] = "planned" THEN "skipped"
                       ELSE stepState[j][p]
  <2>1. stepState[j] \in [Ordinal -> StepState] /\ r \in StepState /\ r # "planned"
    BY DEF TypeOK, StepState, Outcome
  <2>2. marked \in [Ordinal -> StepState]
    BY <2>1
  <2> QED
    BY <2>1, <2>2, SkipPlannedType
<1>2. /\ stepState' = [stepState EXCEPT ![j] = states]
      /\ evidence' = [evidence EXCEPT ![j] = [@ EXCEPT ![o] = e]]
      /\ receipts' = [receipts EXCEPT ![j] = @ + 1]
      /\ jobState' = [jobState EXCEPT ![j] = IF r = "unknown" THEN "needs_review"
                                             ELSE Summary(j, states, cancelRequested[j])]
      /\ UNCHANGED <<cancelRequested, seq, inserted, token, minted>>
  BY DEF Record
<1> HIDE DEF marked, states
<1>3. jobState[j] \in {"running", "needs_review"} /\ o \in Planned(j)
  BY UncertainJobs
<1>4. Summary(j, states, cancelRequested[j]) \in {"needs_review", "running"} \union Terminal
  BY SummaryValue
<1>5. /\ stepState'[j] = states
      /\ \A k \in Job : k # j => stepState'[k] = stepState[k] /\ jobState'[k] = jobState[k]
      /\ jobState'[j] = IF r = "unknown" THEN "needs_review"
                        ELSE Summary(j, states, cancelRequested[j])
  BY <1>2 DEF TypeOK
<1>6. TypeOK'
  <2>1. stepState' \in [Job -> [Ordinal -> StepState]]
    BY <1>1, <1>2 DEF TypeOK
  <2>2. evidence' \in [Job -> [Ordinal -> Evidence \union {None}]]
    BY <1>2 DEF TypeOK
  <2>3. jobState' \in [Job -> {"absent"} \union Unfinished \union Terminal]
    BY <1>2, <1>4 DEF TypeOK, Unfinished
  <2>4. receipts' \in [Job -> Nat]
    BY <1>2 DEF TypeOK
  <2> QED
    BY <1>2, <2>1, <2>2, <2>3, <2>4 DEF TypeOK
<1>7. RowsTogether'
  BY <1>1, <1>3, <1>4, <1>5 DEF RowsTogether, Terminal, Outcome
<1>8. TokensAreClaims'
  <2>1. token[j][o] > 0
    BY DEF TokensAreClaims, Claimed
  <2> QED
    BY <1>1, <1>2, <1>5, <2>1 DEF TokensAreClaims, Claimed, Uncertain, Outcome
<1>9. OneUncertainStep'
  <2>1. ASSUME NEW k \in Job, NEW p \in Ordinal, stepState'[k][p] \in Uncertain
        PROVE  stepState[k][p] \in Uncertain
    BY <1>1, <1>5, <2>1 DEF Uncertain
  <2> QED
    BY <2>1 DEF OneUncertainStep
<1>10. VerifiedPrefix'
  <2>1. ASSUME NEW p \in Ordinal, o < p
        PROVE  stepState[j][p] \notin Uncertain \union {"verified", "failed"}
    BY <2>1 DEF VerifiedPrefix, Uncertain
  <2> SUFFICES ASSUME NEW k \in Job, NEW q \in Ordinal, NEW p \in Ordinal, p < q,
                      stepState'[k][q] \in Uncertain \union {"verified", "failed"}
               PROVE  stepState'[k][p] = "verified"
    BY DEF VerifiedPrefix
  <2>2. CASE k # j
    BY <1>5, <2>2 DEF VerifiedPrefix
  <2>3. CASE k = j
    <3>1. stepState[j][q] \in Uncertain \union {"verified", "failed"}
      BY <1>1, <1>5, <2>3 DEF Uncertain
    <3>2. stepState[j][p] = "verified" /\ p # o
      BY <3>1 DEF VerifiedPrefix, Uncertain
    <3> QED
      BY <1>1, <1>5, <2>3, <3>2
  <2> QED
    BY <2>2, <2>3
<1>11. SkipsHaveACause'
  BY <1>1, <1>2, <1>5 DEF SkipsHaveACause, Outcome, Uncertain
<1>12. NothingPlannedBehind'
  BY <1>1, <1>2, <1>5 DEF NothingPlannedBehind, Outcome
<1>13. StateIsSummary'
  <2>1. ASSUME NEW k \in Job, k # j, jobState'[k] # "absent"
        PROVE  jobState'[k] = IF \A p \in Planned(k) : stepState'[k][p] = "planned"
                              THEN "queued" ELSE Summary(k, stepState'[k], cancelRequested'[k])
    BY <1>2, <1>5, <2>1 DEF StateIsSummary
  <2>2. jobState'[j] = Summary(j, stepState'[j], cancelRequested'[j])
    <3>1. r = "unknown" => Summary(j, states, cancelRequested[j]) = "needs_review"
      BY <1>1, <1>3, SummaryReview
    <3> QED
      BY <1>2, <1>5, <3>1
  <2> QED
    BY <1>1, <1>3, <1>5, <2>1, <2>2 DEF StateIsSummary, Outcome
<1>14. SeqInOrder'
  BY <1>2, <1>3, <1>4, <1>5 DEF SeqInOrder, Terminal
<1>15. EarlierJobsAreOver'
  BY <1>2, <1>3, <1>5 DEF EarlierJobsAreOver, Terminal
<1> QED
  BY <1>6, <1>7, <1>8, <1>9, <1>10, <1>11, <1>12, <1>13, <1>14, <1>15

LEMMA NextQueue == QueueInv /\ [Next]_queueVars => QueueInv'
<1> SUFFICES ASSUME QueueInv, [Next]_queueVars PROVE QueueInv'
  OBVIOUS
<1>1. CASE Deliver
  BY <1>1, EnqueueInv DEF Deliver
<1>2. CASE Cancel
  BY <1>2, CancelInv DEF Cancel
<1>3. CASE Start
  BY <1>3, ClaimInv DEF Start
<1>4. CASE Report
  BY <1>4, RecordInv DEF Report, Finish, Uncertain
<1>5. CASE Review
  BY <1>5, RecordInv DEF Review, Reconcile, Uncertain
<1>6. CASE UNCHANGED queueVars
  BY <1>6 DEF queueVars, QueueInv, TypeOK, RowsTogether, TokensAreClaims, OneUncertainStep,
     VerifiedPrefix, SkipsHaveACause, NothingPlannedBehind, StateIsSummary, SeqInOrder,
     EarlierJobsAreOver
<1> QED
  BY <1>1, <1>2, <1>3, <1>4, <1>5, <1>6 DEF Next

(* The inductive invariant holds in every reachable state. *)
THEOREM QueueInvariant == Spec => []QueueInv
BY InitQueue, NextQueue, PTL DEF Spec

(* The types of the tables are kept. *)
THEOREM QueueTypes == Spec => []TypeOK
<1>1. QueueInv => TypeOK
  BY DEF QueueInv
<1> QED
  BY <1>1, QueueInvariant, PTL

(* At most one step per account is running or unresolved, for any number   *)
(* of jobs and steps: the barrier of claim.                                *)
THEOREM Barrier == Spec => []OneUncertainStep
<1>1. QueueInv => OneUncertainStep
  BY DEF QueueInv
<1> QED
  BY <1>1, QueueInvariant, PTL

(* Steps of a job take effect in plan order. *)
THEOREM PlanOrder == Spec => []VerifiedPrefix
<1>1. QueueInv => VerifiedPrefix
  BY DEF QueueInv
<1> QED
  BY <1>1, QueueInvariant, PTL

(* A job is served only when all the earlier jobs of its account are over. *)
THEOREM FirstComeFirstServed == Spec => []EarlierJobsAreOver
<1>1. QueueInv => EarlierJobsAreOver
  BY DEF QueueInv
<1> QED
  BY <1>1, QueueInvariant, PTL

(* The stored job state never drifts from the states of its steps. *)
THEOREM StatesAreSummaries == Spec => []StateIsSummary
<1>1. QueueInv => StateIsSummary
  BY DEF QueueInv
<1> QED
  BY <1>1, QueueInvariant, PTL

(* claim never meets a job without a planned step. *)
THEOREM ClaimNeverConflicts == Spec => []ClaimFindsAStep
<1>1. QueueInv => ClaimFindsAStep
  <2> SUFFICES ASSUME QueueInv, NEW a \in Account, ~Busy(a), NEW j \in Claimable(a)
               PROVE  \E o \in Ordinal : stepState[j][o] = "planned"
    BY DEF ClaimFindsAStep
  <2>1. /\ j \in Job /\ Owner[j] = a
        /\ jobState[j] \in {"queued", "running"}
    BY DEF Claimable
  <2>2. Planned(j) \subseteq Ordinal /\ 0 \in Planned(j)
    BY <2>1, PlannedOrdinals
  <2>3. CASE \A o \in Planned(j) : stepState[j][o] = "planned"
    BY <2>2, <2>3
  <2>4. CASE ~ \A o \in Planned(j) : stepState[j][o] = "planned"
    <3>1. jobState[j] = Summary(j, stepState[j], cancelRequested[j])
      BY <2>1, <2>4 DEF QueueInv, StateIsSummary
    <3>2. Summary(j, stepState[j], cancelRequested[j]) = "running"
      BY <2>1, <3>1, SummaryValue DEF Terminal
    <3>3. PICK o \in Planned(j) : stepState[j][o] \in {"planned", "in_flight"}
      BY <3>2, SummaryRunning
    <3> QED
      BY <2>1, <2>2, <3>3 DEF Busy
  <2> QED
    BY <2>3, <2>4
<1> QED
  BY <1>1, QueueInvariant, PTL

(* The ledger never contradicts itself. *)
THEOREM LedgerConsistency == Spec => []LedgerIsConsistent
BY QueueTypes, StatesAreSummaries, ClaimNeverConflicts, PTL DEF LedgerIsConsistent

(* Work starts in plan order and in the order of delivery. *)
THEOREM OrderOfWork == Spec => []WorkStartsInOrder
BY PlanOrder, FirstComeFirstServed, PTL DEF WorkStartsInOrder

(* A job that failed has a failed step: summarize's last branch is dead. *)
THEOREM FailuresAreReal == Spec => []FailureHasAFailedStep
<1>1. QueueInv => FailureHasAFailedStep
  <2> SUFFICES ASSUME QueueInv, NEW j \in Job, jobState[j] \in {"failed", "partial_failed"}
               PROVE  \E o \in Ordinal : stepState[j][o] = "failed"
    BY DEF FailureHasAFailedStep
  <2> USE DEF QueueInv
  <2>1. Planned(j) \subseteq Ordinal
    BY PlannedOrdinals
  <2>2. jobState[j] = Summary(j, stepState[j], cancelRequested[j])
    BY DEF StateIsSummary
  <2>3. SUFFICES ASSUME \A o \in Planned(j) : stepState[j][o] # "failed" PROVE FALSE
    BY <2>1
  <2>4. \A o \in Planned(j) : stepState[j][o] \notin {"planned", "in_flight", "unknown"}
    BY <2>2, SummaryTerminal DEF Terminal
  <2>5. ~cancelRequested[j] /\ ~ \A o \in Planned(j) : stepState[j][o] = "verified"
    BY <2>2, <2>3 DEF Summary
  <2>6. PICK o \in Planned(j) : stepState[j][o] # "verified"
    BY <2>5
  <2>7. stepState[j][o] \in StepState /\ stepState[j][o] # "absent"
    BY <2>1, <2>6 DEF TypeOK, RowsTogether
  <2>8. stepState[j][o] = "skipped"
    BY <2>3, <2>4, <2>6, <2>7 DEF StepState, Outcome
  <2>9. PICK p \in Ordinal : stepState[j][p] = "failed"
    BY <2>1, <2>5, <2>8 DEF SkipsHaveACause
  <2>10. p \in Planned(j)
    BY <2>9 DEF RowsTogether
  <2> QED
    BY <2>3, <2>9, <2>10
<1> QED
  BY <1>1, QueueInvariant, PTL

(* What the next three lemmas say of each action: which rows it may touch. *)
LEMMA ClaimTouches ==
  ASSUME QueueInv, NEW a \in Account, NEW j \in Job, NEW o \in Ordinal, Claim(a, j, o)
  PROVE  /\ stepState[j][o] = "planned" /\ stepState'[j][o] = "in_flight"
         /\ jobState[j] \in {"queued", "running"}
         /\ \A k \in Job : k # j => stepState'[k] = stepState[k] /\ jobState'[k] = jobState[k]
         /\ \A p \in Ordinal : p # o => stepState'[j][p] = stepState[j][p]
         /\ UNCHANGED <<evidence, cancelRequested, receipts>>
BY DEF QueueInv, TypeOK, Claim, IsNextJob, IsNextStep, Claimable

LEMMA CancelTouches ==
  ASSUME QueueInv, NEW j \in Job, CancelLocal(j)
  PROVE  /\ jobState[j] \in Unfinished
         /\ cancelRequested'[j] = TRUE
         /\ \A k \in Job : k # j => stepState'[k] = stepState[k] /\ jobState'[k] = jobState[k]
         /\ \A p \in Ordinal : stepState[j][p] # "planned" => stepState'[j][p] = stepState[j][p]
         /\ UNCHANGED <<evidence, receipts>>
<1>1. stepState[j] \in [Ordinal -> StepState] /\ j \in DOMAIN cancelRequested
      /\ stepState \in [Job -> [Ordinal -> StepState]]
  BY DEF QueueInv, TypeOK
<1>2. stepState' = [stepState EXCEPT ![j] = SkipPlanned(stepState[j])]
  BY <1>1 DEF CancelLocal
<1>3. \A p \in Ordinal : stepState[j][p] # "planned" => stepState'[j][p] = stepState[j][p]
  BY <1>1, <1>2, SkipPlannedType
<1> QED
  BY <1>1, <1>2, <1>3 DEF CancelLocal, QueueInv, TypeOK

LEMMA RecordTouches ==
  ASSUME QueueInv, NEW j \in Job, NEW o \in Ordinal, NEW r \in Outcome, NEW e \in Evidence,
         stepState[j][o] \in Uncertain, Record(j, o, r, e)
  PROVE  /\ jobState[j] \in Unfinished
         /\ receipts'[j] = receipts[j] + 1
         /\ \A k \in Job : k # j => /\ stepState'[k] = stepState[k] /\ jobState'[k] = jobState[k]
                                    /\ evidence'[k] = evidence[k]
         /\ \A p \in Ordinal : p # o => evidence'[j][p] = evidence[j][p]
         /\ \A p \in Ordinal : p # o /\ stepState[j][p] # "planned"
              => stepState'[j][p] = stepState[j][p]
<1> DEFINE marked == [stepState[j] EXCEPT ![o] = r]
<1>1. marked \in [Ordinal -> StepState]
  BY DEF QueueInv, TypeOK, StepState, Outcome
<1>2. \A p \in Ordinal : p # o => marked[p] = stepState[j][p]
  BY DEF QueueInv, TypeOK
<1>3. stepState'[j] = IF r = "failed" THEN SkipPlanned(marked) ELSE marked
  BY DEF Record, QueueInv, TypeOK
<1>4. \A p \in Ordinal : p # o /\ stepState[j][p] # "planned"
              => stepState'[j][p] = stepState[j][p]
  BY <1>1, <1>2, <1>3, SkipPlannedType
<1>5. jobState[j] \in Unfinished
  BY UncertainJobs DEF Unfinished
<1> QED
  BY <1>4, <1>5 DEF Record, QueueInv, TypeOK

(* Verified, failed and skipped steps and finished jobs are never          *)
(* rewritten, whatever is delivered, cancelled, reported or reviewed.      *)
THEOREM RecordsAreFinal == Spec => SettledStaysFinal
<1>1. QueueInv /\ [Next]_queueVars => [SettledIsFinal]_queueVars
  <2> SUFFICES ASSUME QueueInv, Next PROVE SettledIsFinal
    OBVIOUS
  <2>1. CASE Deliver
    <3> PICK j \in Job, c \in BOOLEAN : Enqueue(j, c)
      BY <2>1 DEF Deliver
    <3>1. /\ jobState[j] = "absent" /\ evidence' = evidence
          /\ \A k \in Job : k # j => stepState'[k] = stepState[k] /\ jobState'[k] = jobState[k]
      BY DEF Enqueue, QueueInv, TypeOK
    <3>2. \A o \in Ordinal : stepState[j][o] = "absent"
      BY <3>1 DEF QueueInv, RowsTogether
    <3> QED
      BY <3>1, <3>2 DEF SettledIsFinal, Terminal
  <2>2. CASE Cancel
    BY <2>2, CancelTouches DEF Cancel, SettledIsFinal, Unfinished, Terminal
  <2>3. CASE Start
    BY <2>3, ClaimTouches DEF Start, SettledIsFinal, Terminal
  <2>4. CASE Report \/ Review
    <3> PICK j \in Job, o \in Ordinal, r \in Outcome, e \in Evidence :
               stepState[j][o] \in Uncertain /\ Record(j, o, r, e)
      BY <2>4 DEF Report, Review, Finish, Reconcile, Uncertain
    <3> QED
      BY RecordTouches DEF SettledIsFinal, Unfinished, Terminal, Uncertain
  <2> QED
    BY <2>1, <2>2, <2>3, <2>4 DEF Next
<1> QED
  BY <1>1, QueueInvariant, PTL DEF Spec, SettledStaysFinal

(* A change of the facts the account reports always changes the pair by    *)
(* which it notices that it has something to report.                       *)
THEOREM ProgressIsNoticed == Spec => ProgressVersionIsSound
<1>1. QueueInv /\ [Next]_queueVars => [FactsMoveTheVersion]_queueVars
  <2> SUFFICES ASSUME QueueInv, Next PROVE FactsMoveTheVersion
    OBVIOUS
  <2>0. SUFFICES ASSUME NEW k \in Job, jobState[k] # "absent",
                        receipts'[k] = receipts[k], cancelRequested'[k] = cancelRequested[k]
                 PROVE  \A p \in Ordinal :
                          /\ stepState'[k][p] # stepState[k][p] =>
                               /\ p \notin Reported(k)
                               /\ stepState'[k][p] \notin {"verified", "failed", "unknown", "skipped"}
                          /\ p \in Reported(k) => evidence'[k][p] = evidence[k][p]
    BY DEF FactsMoveTheVersion, Reported
  <2>1. CASE Deliver
    <3> PICK j \in Job, c \in BOOLEAN : Enqueue(j, c)
      BY <2>1 DEF Deliver
    <3>1. j # k /\ evidence' = evidence /\ stepState'[k] = stepState[k]
      BY <2>0 DEF Enqueue, QueueInv, TypeOK
    <3> QED
      BY <3>1
  <2>2. CASE Cancel
    <3> PICK j \in Job : CancelLocal(j)
      BY <2>2 DEF Cancel
    <3>1. CASE j # k
      BY <3>1, CancelTouches
    <3>2. CASE j = k
      <4>1. cancelRequested[k] = TRUE
        BY <2>0, <3>2, CancelTouches
      <4>2. \A p \in Ordinal : stepState[k][p] # "planned"
        BY <4>1 DEF QueueInv, NothingPlannedBehind
      <4> QED
        BY <3>2, <4>2, CancelTouches
    <3> QED
      BY <3>1, <3>2
  <2>3. CASE Start
    <3> PICK a \in Account, j \in Job, o \in Ordinal : Claim(a, j, o)
      BY <2>3 DEF Start
    <3> QED
      BY ClaimTouches DEF Reported
  <2>4. CASE Report \/ Review
    <3> PICK j \in Job, o \in Ordinal, r \in Outcome, e \in Evidence :
               stepState[j][o] \in Uncertain /\ Record(j, o, r, e)
      BY <2>4 DEF Report, Review, Finish, Reconcile, Uncertain
    <3>1. j # k
      <4>1. receipts'[j] = receipts[j] + 1 /\ receipts[j] \in Nat
        BY RecordTouches DEF QueueInv, TypeOK
      <4> QED
        BY <2>0, <4>1
    <3> QED
      BY <3>1, RecordTouches
  <2> QED
    BY <2>1, <2>2, <2>3, <2>4 DEF Next
<1> QED
  BY <1>1, QueueInvariant, PTL DEF Spec, ProgressVersionIsSound
=============================================================================
