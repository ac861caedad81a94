------------------------- MODULE CoordinatorProofs -------------------------
(***************************************************************************)
(* What the objects know of each other is true, for any number of accounts *)
(* and jobs, any number of RPCs that fail for their callers and are served *)
(* late, and restarts at any point: by an invariant of the tables, of the  *)
(* messages under way and of the rows that a pass is about to write.       *)
(***************************************************************************)
EXTENDS Coordinator, TLAPS

Settled == {"verified", "failed", "skipped"}
Over == {"succeeded", "failed", "partial_failed", "cancelled", "partial_cancelled"}
FactStates == {"none", "verified", "failed", "unknown", "skipped"}

(* x was reported of a step whose state is now `now`.                      *)
Was(x, now) == /\ x \in Settled => now = x
               /\ x = "unknown" => now \in {"unknown", "verified", "failed"}

Sent(j) == state[j] \notin {"absent", "pending"}
Here(j) == jobState[j] # "absent"

(* The delivery and the job. *)
LinkInv(j) ==
  /\ Here(j) => Sent(j)
  /\ jobState[j] \in {"queued", "running", "needs_review"} => state[j] \in {"sending", "accepted"}
  /\ state[j] = "accepted" => Here(j)
  /\ cancelRow[j] = "acknowledged" => Here(j) /\ (cancelRequested[j] \/ jobState[j] \in Over)
  /\ state[j] = "terminal" => jobState[j] \in Over /\ outcome[j] = jobState[j] /\ known[j] = FactsOf(j)
  /\ receipt[j] # "none" => jobState[j] \in Over
  /\ receipt[j] = "acknowledged" => state[j] = "terminal"

(* A row of coordinator_progress that is stored or about to be: the steps  *)
(* were read no earlier than its version.                                  *)
RowInv(j, row) ==
  /\ row.version <= receipts[j]
  /\ row.cancel => cancelRequested[j]
  /\ row.version = receipts[j] /\ row.cancel = cancelRequested[j] => row.facts = FactsOf(j)
  /\ \A o \in Ordinal : Was(row.facts[o], stepState[j][o])

(* The facts of a job and its progress. *)
FactInv(j) ==
  /\ \A o \in Ordinal :
       /\ Was(known[j][o], stepState[j][o])
       /\ \A x \in facts[j][o] : known[j][o] # "none" /\ (x \in Settled => known[j][o] = x)
  /\ RowInv(j, progress[j])
  /\ ~Here(j) => progress[j].version = -1 /\ ~progress[j].cancel /\ progress[j].facts = NoFacts
  /\ ~Changed(j) /\ progress[j].acked => known[j] = FactsOf(j)

ProgressRows == [version : Int, cancel : BOOLEAN, facts : [Ordinal -> FactStates], acked : BOOLEAN]
TableTypes ==
  /\ facts \in [Job -> [Ordinal -> SUBSET (FactStates \ {"none"})]]
  /\ known \in [Job -> [Ordinal -> FactStates]]
  /\ progress \in [Job -> ProgressRows]
  /\ receipt \in [Job -> {"none", "saved", "acknowledged"}]

(* The messages under way, and the replies that wait for their callers.    *)
Messages == [method : {"deliver", "cancel", "progress", "complete"}, job : Job,
             facts : [Ordinal -> FactStates], word : {"go"} \union Over]
MessageInv(m) ==
  /\ m \in Messages
  /\ m.method \in {"deliver", "cancel"} => Sent(m.job) /\ m.word \in {"go", "cancelled"}
  /\ m.method = "progress" => \A o \in Ordinal : Was(m.facts[o], stepState[m.job][o])
  /\ m.method = "complete" => jobState[m.job] \in Over /\ m.word = jobState[m.job]

ReplyInv(m) ==
  /\ m.method = "deliver" => Here(m.job)
  /\ m.method = "cancel" => Here(m.job) /\ (cancelRequested[m.job] \/ jobState[m.job] \in Over)
  /\ m.method = "progress" => \A o \in Ordinal : m.facts[o] # "none" => m.facts[o] \in facts[m.job][o]
  /\ m.method = "complete" => state[m.job] = "terminal"

Callers == [from : Node, msg : Messages, request : Nat, reply : {"none", "ok", "refused"}]
CallInv(c) ==
  /\ c \in Callers /\ MessageInv(c.msg)
  /\ c.reply = "ok" => ReplyInv(c.msg)
  /\ c.from = Global <=> c.msg.method \in {"deliver", "cancel"}
  /\ c.from # Global => Owner[c.msg.job] = c.from
  /\ c.from = Global => pass[Global].at # "idle"

(* The rows that a pass will write. *)
EntryInv(a, e) == /\ Owner[e.job] = a /\ Here(e.job)
                  /\ e.version <= receipts[e.job] /\ (e.cancel => cancelRequested[e.job])
DraftInv(a) ==
  /\ draft[a].job \in Job /\ Here(draft[a].job) /\ Owner[draft[a].job] = a
  /\ RowInv(draft[a].job, draft[a].row) /\ (draft[a].row.acked => draft[a].row.facts = NoFacts)
  /\ \A e \in draft[a].left : EntryInv(a, e)
PassInv(n) ==
  /\ pass[n].at # "idle" => armed[n]
  /\ pass[n].at = "executing" => pass[n].step \in Step /\ Owner[pass[n].step[1]] = n
  /\ n # Global /\ pass[n].at = "writing" => DraftInv(n)

Places == {"idle", "start", "deliver", "wake", "cancel", "reading", "writing", "reporting",
           "completing", "executing"}
Passes == [at : Places, last : BOOLEAN, step : {<<>>} \union Step]
Entries == [job : Job, version : Int, cancel : BOOLEAN]
Drafts == [job : Job \union {None}, row : ProgressRows, left : SUBSET Entries]
PassTypes ==
  /\ pass \in [Node -> Passes] /\ draft \in [Account -> Drafts]
  /\ todo \in SUBSET [job : Job, request : Nat] /\ (todo # {} => pass[Global].at # "idle")
  /\ armed \in [Node -> BOOLEAN] /\ failures \in [Node -> 0..Budget]
  /\ wrote \subseteq Step /\ faults \in 0..MaxFaults
  /\ maintenance \in BOOLEAN /\ toggles \in 0..MaxToggles
  /\ toggles = 0 => ~maintenance

PassesInv == PassTypes /\ \A n \in Node : PassInv(n)
NetInv == (\A c \in calls : CallInv(c)) /\ (\A m \in late : MessageInv(m))

-----------------------------------------------------------------------------
(* The tables of an account and of the global object, whose invariants are *)
(* AccountQueueProofs' and TaskDispatchProofs'.                            *)
QP == INSTANCE AccountQueueProofs
OP == INSTANCE TaskDispatchProofs WITH Outcomes <- {"succeeded", "failed", "partial_failed",
                                                    "cancelled", "partial_cancelled"}

StepStates == {"absent", "planned", "in_flight", "skipped", "verified", "failed", "unknown"}
QueueTypes ==
  /\ jobState \in [Job -> {"absent", "queued", "running", "needs_review"} \union Over]
  /\ cancelRequested \in [Job -> BOOLEAN]
  /\ stepState \in [Job -> [Ordinal -> StepStates]]
  /\ receipts \in [Job -> Nat]

LEMMA QueueTyped ==
  ASSUME QP!QueueInv
  PROVE  QueueTypes /\ Queue!TypeOK
BY DEF QP!QueueInv, QP!TypeOK, Queue!TypeOK, QueueTypes, Over, StepStates, Ordinal, Queue!Ordinal, QP!Ordinal,
       Queue!Unfinished, QP!Unfinished, Queue!Terminal, QP!Terminal, Queue!StepState, QP!StepState,
       Queue!Outcome, QP!Outcome

LEMMA QueueTypedNext ==
  ASSUME QP!QueueInv'
  PROVE  QueueTypes'
BY DEF QP!QueueInv, QP!TypeOK, QueueTypes, Over, StepStates, Ordinal, Queue!Ordinal, QP!Ordinal,
       QP!Unfinished, QP!Terminal, QP!StepState, QP!Outcome

LEMMA SameEnqueue ==
  ASSUME NEW j \in Job, NEW c \in BOOLEAN, Queue!Enqueue(j, c)
  PROVE  QP!Enqueue(j, c)
BY DEF Queue!Enqueue, QP!Enqueue, Queue!Ordinal, QP!Ordinal, Queue!Planned, QP!Planned,
       Queue!SkipPlanned, QP!SkipPlanned, Queue!Summary, QP!Summary, Queue!Active, QP!Active,
       Queue!Unfinished, QP!Unfinished, Queue!Cardinality, QP!Cardinality,
       Queue!IsFiniteSet, QP!IsFiniteSet

LEMMA SameCancel ==
  ASSUME NEW j \in Job, Queue!CancelLocal(j)
  PROVE  QP!CancelLocal(j)
BY DEF Queue!CancelLocal, QP!CancelLocal, Queue!Ordinal, QP!Ordinal, Queue!Planned, QP!Planned,
       Queue!SkipPlanned, QP!SkipPlanned, Queue!Summary, QP!Summary, Queue!Unfinished, QP!Unfinished

LEMMA SameClaim ==
  ASSUME NEW a \in Account, NEW j \in Job, NEW o \in Ordinal, Queue!Claim(a, j, o)
  PROVE  QP!Claim(a, j, o) /\ o \in QP!Ordinal
BY DEF Queue!Claim, QP!Claim, Ordinal, Queue!Ordinal, QP!Ordinal, Queue!Busy, QP!Busy, Queue!IsNextJob,
       QP!IsNextJob, Queue!IsNextStep, QP!IsNextStep, Queue!Claimable, QP!Claimable

LEMMA SameRecord ==
  ASSUME NEW j \in Job, NEW o \in Ordinal, NEW r, NEW e, Queue!Record(j, o, r, e)
  PROVE  QP!Record(j, o, r, e) /\ o \in QP!Ordinal
BY DEF Queue!Record, QP!Record, Ordinal, Queue!Ordinal, QP!Ordinal, Queue!Planned, QP!Planned,
       Queue!SkipPlanned, QP!SkipPlanned, Queue!Summary, QP!Summary

LEMMA SameQueueInit == Queue!Init => QP!Init
BY DEF Queue!Init, QP!Init, Queue!Ordinal, QP!Ordinal

LEMMA SameDispatch ==
  /\ Outbox!Init => OP!Init
  /\ \A t : Outbox!Submit(t) => OP!Submit(t)
  /\ \A R : Outbox!Reserve(R) => OP!Reserve(R)
<1>1. \A t : Outbox!Rows(t) = OP!Rows(t)
  BY DEF Outbox!Rows, OP!Rows
<1>2. Outbox!Permits = OP!Permits /\ Outbox!Open = OP!Open
  BY DEF Outbox!Permits, OP!Permits, Outbox!Holding, OP!Holding, Outbox!Open, OP!Open
<1>3. \A S : Outbox!Cardinality(S) = OP!Cardinality(S)
  BY DEF Outbox!Cardinality, OP!Cardinality, Outbox!IsFiniteSet, OP!IsFiniteSet
<1>4. \A i, j : Outbox!Before(i, j) <=> OP!Before(i, j)
  BY DEF Outbox!Before, OP!Before
<1>5. Outbox!Heads = OP!Heads
  BY <1>2, <1>4 DEF Outbox!Heads, OP!Heads
<1>6. \A R : Outbox!Granted(R) <=> OP!Granted(R)
  BY <1>2, <1>3, <1>4, <1>5 DEF Outbox!Granted, OP!Granted
<1>7. Outbox!OpenTasks = OP!OpenTasks
  BY <1>1, <1>2 DEF Outbox!OpenTasks, OP!OpenTasks
<1>8. Outbox!Init => OP!Init
  BY DEF Outbox!Init, OP!Init
<1>9. ASSUME NEW t, Outbox!Submit(t) PROVE OP!Submit(t)
  BY <1>1, <1>2, <1>3, <1>7, <1>9 DEF Outbox!Submit, OP!Submit
<1>10. ASSUME NEW R, Outbox!Reserve(R) PROVE OP!Reserve(R)
  <2>1. \A j : {i \in R : Outbox!Before(i, j)} = {i \in R : OP!Before(i, j)}
    BY <1>4
  <2> QED
    BY <1>3, <1>6, <1>10, <2>1 DEF Outbox!Reserve, OP!Reserve
<1> QED
  BY <1>8, <1>9, <1>10

-----------------------------------------------------------------------------
(* What a step of an account does to the rows of a job: nothing reported   *)
(* is taken back, and what is reported of it changes only together with    *)
(* the version of its progress.                                            *)
NewerStep(now, next) == /\ now \in Settled => next = now
                        /\ now = "unknown" => next \in {"unknown", "verified", "failed"}
Moves(j) ==
  /\ Here(j) => Here(j)' /\ (cancelRequested[j] => cancelRequested'[j])
  /\ jobState[j] \in Over => jobState'[j] = jobState[j] /\ stepState'[j] = stepState[j]
  /\ receipts[j] <= receipts'[j]
  /\ \A o \in Ordinal : NewerStep(stepState[j][o], stepState'[j][o])
  /\ receipts'[j] = receipts[j] /\ cancelRequested'[j] = cancelRequested[j] /\ Here(j)
       => FactsOf(j)' = FactsOf(j)
RowsKept(j) == /\ jobState'[j] = jobState[j] /\ stepState'[j] = stepState[j]
               /\ cancelRequested'[j] = cancelRequested[j] /\ receipts'[j] = receipts[j]

(* The steps that are reported. *)
Known == {"verified", "failed", "unknown", "skipped"}
LEMMA FactsOfSteps ==
  ASSUME NEW j
  PROVE  /\ FactsOf(j) = [o \in Ordinal |-> IF stepState[j][o] \in Known THEN stepState[j][o] ELSE "none"]
         /\ FactsOf(j)' = [o \in Ordinal |-> IF stepState'[j][o] \in Known THEN stepState'[j][o] ELSE "none"]
BY DEF FactsOf, Known, Queue!Reported, Ordinal

LEMMA KeptMoves ==
  ASSUME QueueTypes, NEW j \in Job, RowsKept(j)
  PROVE  Moves(j)
<1>1. FactsOf(j)' = FactsOf(j)
  BY FactsOfSteps DEF RowsKept
<1>2. receipts[j] \in Nat
  BY DEF QueueTypes
<1> QED
  BY <1>1, <1>2 DEF RowsKept, Moves, Here, NewerStep

LEMMA ClaimMoves ==
  ASSUME QP!QueueInv, NEW a \in Account, NEW j \in Job, NEW o \in Ordinal, Queue!Claim(a, j, o)
  PROVE  /\ QP!QueueInv' /\ Here(j) /\ Owner[j] = a /\ jobState[j] \in {"queued", "running"}
         /\ \A k \in Job : Moves(k) /\ (k # j => RowsKept(k))
         /\ jobState'[j] = "running" /\ UNCHANGED <<cancelRequested, receipts>>
<1>1. QP!Claim(a, j, o) /\ o \in QP!Ordinal
  BY SameClaim
<1>2. QP!QueueInv'
  BY <1>1, QueueAssumption, QP!ClaimInv
<1>3. /\ stepState[j][o] = "planned" /\ stepState'[j][o] = "in_flight"
      /\ jobState[j] \in {"queued", "running"}
      /\ \A k \in Job : k # j => stepState'[k] = stepState[k] /\ jobState'[k] = jobState[k]
      /\ \A p \in QP!Ordinal : p # o => stepState'[j][p] = stepState[j][p]
      /\ UNCHANGED <<evidence, cancelRequested, receipts>>
  BY <1>1, QueueAssumption, QP!ClaimTouches
<1>4. QueueTypes /\ Ordinal = QP!Ordinal
  BY QueueTyped DEF Ordinal, Queue!Ordinal, QP!Ordinal
<1>5. Owner[j] = a /\ jobState'[j] = "running"
  BY <1>4 DEF Queue!Claim, Queue!IsNextJob, Queue!Claimable, QueueTypes
<1>6. ASSUME NEW k \in Job, k # j PROVE RowsKept(k)
  BY <1>3, <1>6 DEF RowsKept
<1>7. FactsOf(j)' = FactsOf(j)
  <2>1. ASSUME NEW p \in Ordinal
        PROVE  (IF stepState'[j][p] \in Known THEN stepState'[j][p] ELSE "none")
               = (IF stepState[j][p] \in Known THEN stepState[j][p] ELSE "none")
    BY <1>3, <1>4 DEF Known
  <2> QED
    BY <2>1, FactsOfSteps
<1>8. Moves(j)
  <2>1. \A p \in Ordinal : NewerStep(stepState[j][p], stepState'[j][p])
    BY <1>3, <1>4 DEF NewerStep, Settled
  <2>2. receipts[j] \in Nat
    BY <1>4 DEF QueueTypes
  <2> QED
    BY <1>3, <1>5, <1>7, <2>1, <2>2 DEF Moves, Here, Over
<1> QED
  BY <1>2, <1>3, <1>4, <1>5, <1>6, <1>8, KeptMoves DEF Here

LEMMA CancelMoves ==
  ASSUME QP!QueueInv, NEW j \in Job, Queue!CancelLocal(j)
  PROVE  /\ QP!QueueInv' /\ Here(j) /\ jobState[j] \in Queue!Unfinished /\ cancelRequested'[j]
         /\ \A k \in Job : Moves(k) /\ (k # j => RowsKept(k))
<1>1. QP!CancelLocal(j)
  BY SameCancel
<1>2. QP!QueueInv'
  BY <1>1, QueueAssumption, QP!CancelInv
<1>3. /\ jobState[j] \in QP!Unfinished /\ cancelRequested'[j] = TRUE
      /\ \A k \in Job : k # j => stepState'[k] = stepState[k] /\ jobState'[k] = jobState[k]
      /\ \A p \in QP!Ordinal : stepState[j][p] # "planned" => stepState'[j][p] = stepState[j][p]
      /\ UNCHANGED <<evidence, receipts>>
  BY <1>1, QueueAssumption, QP!CancelTouches
<1>4. QueueTypes /\ Ordinal = QP!Ordinal
  BY QueueTyped DEF Ordinal, Queue!Ordinal, QP!Ordinal
<1>5. /\ jobState[j] \in {"queued", "running", "needs_review"}
      /\ \A k \in Job : k # j => cancelRequested'[k] = cancelRequested[k]
      /\ jobState' = [jobState EXCEPT ![j] = Queue!Summary(j, Queue!SkipPlanned(stepState[j]), TRUE)]
      /\ stepState' = [stepState EXCEPT ![j] = Queue!SkipPlanned(@)]
  BY <1>4 DEF Queue!CancelLocal, Queue!Unfinished, QueueTypes
<1>6. jobState'[j] # "absent"
  BY <1>4, <1>5 DEF Queue!Summary, QueueTypes
<1>7. ASSUME NEW k \in Job, k # j PROVE RowsKept(k)
  BY <1>3, <1>5, <1>7 DEF RowsKept
<1>8. ASSUME cancelRequested[j] PROVE FactsOf(j)' = FactsOf(j)
  <2>1. ASSUME NEW p \in Ordinal PROVE stepState[j][p] # "planned"
    BY <1>4, <1>8 DEF QP!QueueInv, QP!NothingPlannedBehind
  <2>2. ASSUME NEW p \in Ordinal PROVE stepState'[j][p] = stepState[j][p]
    BY <1>3, <1>4, <2>1
  <2> QED
    BY <2>2, FactsOfSteps
<1>9. \A p \in Ordinal : NewerStep(stepState[j][p], stepState'[j][p])
  BY <1>3, <1>4 DEF NewerStep, Settled
<1>10. Moves(j)
  <2>1. receipts[j] \in Nat /\ cancelRequested[j] \in BOOLEAN
    BY <1>4 DEF QueueTypes
  <2>2. cancelRequested'[j] = cancelRequested[j] => FactsOf(j)' = FactsOf(j)
    BY <1>3, <1>8, <2>1
  <2>3. receipts'[j] = receipts[j] /\ jobState[j] \notin Over /\ cancelRequested'[j]
    BY <1>3, <1>5 DEF Over
  <2>4. Here(j) => Here(j)' /\ (cancelRequested[j] => cancelRequested'[j])
    BY <1>6, <2>3 DEF Here
  <2>5. receipts[j] <= receipts'[j]
    BY <2>1, <2>3
  <2> QED
    BY <1>9, <2>2, <2>3, <2>4, <2>5 DEF Moves
<1> QED
  BY <1>2, <1>3, <1>4, <1>5, <1>7, <1>10, KeptMoves DEF Here, Queue!Unfinished

LEMMA RecordMoves ==
  ASSUME QP!QueueInv, NEW j \in Job, NEW o \in Ordinal, NEW r \in {"verified", "failed", "unknown"},
         NEW e \in Evidence, stepState[j][o] \in {"in_flight", "unknown"}, Queue!Record(j, o, r, e)
  PROVE  /\ QP!QueueInv' /\ Here(j) /\ jobState[j] \in Queue!Unfinished
         /\ \A k \in Job : Moves(k) /\ (k # j => RowsKept(k))
<1>1. QP!Record(j, o, r, e) /\ o \in QP!Ordinal /\ r \in QP!Outcome /\ stepState[j][o] \in QP!Uncertain
  BY SameRecord DEF QP!Outcome, QP!Uncertain
<1>2. QP!QueueInv'
  BY <1>1, QueueAssumption, QP!RecordInv
<1>3. /\ jobState[j] \in QP!Unfinished /\ receipts'[j] = receipts[j] + 1
      /\ \A k \in Job : k # j => stepState'[k] = stepState[k] /\ jobState'[k] = jobState[k]
      /\ \A p \in QP!Ordinal : p # o /\ stepState[j][p] # "planned" => stepState'[j][p] = stepState[j][p]
  BY <1>1, QueueAssumption, QP!RecordTouches
<1>4. QueueTypes /\ Ordinal = QP!Ordinal
  BY QueueTyped DEF Ordinal, Queue!Ordinal, QP!Ordinal
<1>5. /\ jobState[j] \in {"queued", "running", "needs_review"}
      /\ \A k \in Job : k # j => receipts'[k] = receipts[k]
      /\ UNCHANGED cancelRequested
  BY <1>3, <1>4 DEF Queue!Record, QP!Unfinished, QueueTypes
<1>6. jobState'[j] # "absent"
  <2>1. \A s, c : Queue!Summary(j, s, c) # "absent"
    BY DEF Queue!Summary
  <2> QED
    BY <1>4, <2>1 DEF Queue!Record, QueueTypes
<1>7. stepState'[j][o] = r
  BY <1>4 DEF Queue!Record, QueueTypes, Queue!SkipPlanned, Ordinal
<1>8. ASSUME NEW k \in Job, k # j PROVE RowsKept(k)
  BY <1>3, <1>5, <1>8 DEF RowsKept
<1>9. ASSUME NEW p \in Ordinal PROVE NewerStep(stepState[j][p], stepState'[j][p])
  <2>1. CASE p = o
    BY <1>7, <2>1 DEF NewerStep, Settled
  <2>2. CASE p # o
    BY <1>3, <1>4, <2>2 DEF NewerStep, Settled
  <2> QED
    BY <2>1, <2>2
<1>10. Moves(j)
  <2>1. receipts[j] \in Nat
    BY <1>4 DEF QueueTypes
  <2>2. jobState[j] \notin Over
    BY <1>5 DEF Over
  <2> QED
    BY <1>3, <1>5, <1>6, <1>9, <2>1, <2>2 DEF Moves, Here
<1> QED
  BY <1>2, <1>4, <1>5, <1>8, <1>10, KeptMoves DEF Here, Queue!Unfinished

(* A delivery writes the rows of a job that had none. *)
LEMMA EnqueueMoves ==
  ASSUME QP!QueueInv, NEW j \in Job, NEW c \in BOOLEAN, Queue!Enqueue(j, c)
  PROVE  /\ QP!QueueInv' /\ ~Here(j) /\ Here(j)' /\ cancelRequested'[j] = c
         /\ \A k \in Job : Moves(k) /\ (k # j => RowsKept(k))
         /\ \A o \in Ordinal : stepState[j][o] = "absent" /\ stepState'[j][o] \notin Known \ {"skipped"}
         /\ c => jobState'[j] \in Over
<1>1. QP!Enqueue(j, c)
  BY SameEnqueue
<1>2. QP!QueueInv'
  BY <1>1, QueueAssumption, QP!EnqueueInv
<1>3. QueueTypes /\ Ordinal = QP!Ordinal
  BY QueueTyped DEF Ordinal, Queue!Ordinal, QP!Ordinal
<1>4. /\ jobState[j] = "absent" /\ cancelRequested'[j] = c /\ UNCHANGED receipts
      /\ \A k \in Job : k # j => /\ stepState'[k] = stepState[k] /\ jobState'[k] = jobState[k]
                                 /\ cancelRequested'[k] = cancelRequested[k]
  BY <1>3 DEF Queue!Enqueue, QueueTypes
<1>5. ASSUME NEW o \in Ordinal PROVE stepState[j][o] = "absent" /\ stepState'[j][o] \notin Known \ {"skipped"}
  <2>1. stepState[j][o] = "absent"
    BY <1>3, <1>4 DEF QP!QueueInv, QP!RowsTogether
  <2>2. stepState'[j][o] \in {"planned", "absent", "skipped"}
    BY <1>3 DEF Queue!Enqueue, QueueTypes, Queue!SkipPlanned, Ordinal
  <2> QED
    BY <2>1, <2>2 DEF Known
<1>6. jobState'[j] # "absent" /\ (c => jobState'[j] \in Over)
  <2> DEFINE fresh == [o \in Queue!Ordinal |-> IF o \in Queue!Planned(j) THEN "planned" ELSE "absent"]
  <2>1. \A s : Queue!Summary(j, s, TRUE) # "absent"
    BY DEF Queue!Summary
  <2>2. jobState'[j] = IF c THEN Queue!Summary(j, Queue!SkipPlanned(fresh), TRUE) ELSE "queued"
    BY <1>3 DEF Queue!Enqueue, QueueTypes
  <2>3. Queue!Planned(j) \subseteq Queue!Ordinal
    BY QueueAssumption DEF Queue!Planned, Queue!Ordinal
  <2>4. \A o \in Queue!Planned(j) : Queue!SkipPlanned(fresh)[o] = "skipped"
    BY <2>3 DEF Queue!SkipPlanned
  <2>5. Queue!Summary(j, Queue!SkipPlanned(fresh), TRUE) \in Over
    BY <2>4 DEF Queue!Summary, Over
  <2> QED
    BY <2>1, <2>2, <2>5
<1>7. ASSUME NEW k \in Job, k # j PROVE RowsKept(k)
  BY <1>4, <1>7 DEF RowsKept
<1>8. Moves(j)
  <2>1. receipts[j] \in Nat
    BY <1>3 DEF QueueTypes
  <2> QED
    BY <1>4, <1>5, <2>1 DEF Moves, Here, Over, NewerStep, Settled
<1> QED
  BY <1>2, <1>3, <1>4, <1>5, <1>6, <1>7, <1>8, KeptMoves DEF Here

-----------------------------------------------------------------------------
(* What any step does to the tables: what was sent, received and reported  *)
(* stays so.  It carries the messages, the replies and the rows that a     *)
(* pass is about to write from one state to the next.                      *)
Advance ==
  \A j \in Job :
    /\ Moves(j)
    /\ (Sent(j) => Sent(j)') /\ (state[j] = "terminal" => state'[j] = "terminal")
    /\ \A o \in Ordinal : facts[j][o] \subseteq facts'[j][o]

LEMMA WasKept ==
  ASSUME NEW x, NEW now, NEW next, Was(x, now), NewerStep(now, next)
  PROVE  Was(x, next)
BY DEF Was, NewerStep, Settled

LEMMA RowKept ==
  ASSUME QueueTypes, QueueTypes', NEW j \in Job, NEW row \in ProgressRows, Moves(j), RowInv(j, row),
         Here(j) \/ (row.version = -1 /\ ~row.cancel)
  PROVE  RowInv(j, row)'
<1>1. /\ receipts[j] \in Nat /\ receipts'[j] \in Nat /\ row.version \in Int
      /\ cancelRequested[j] \in BOOLEAN /\ cancelRequested'[j] \in BOOLEAN /\ row.cancel \in BOOLEAN
  BY DEF QueueTypes, ProgressRows
<1>2. receipts[j] <= receipts'[j] /\ row.version <= receipts[j] /\ (row.cancel => cancelRequested[j])
  BY DEF Moves, RowInv
<1>3. \A o \in Ordinal : Was(row.facts[o], stepState'[j][o])
  BY WasKept DEF Moves, RowInv
<1>4. row.version <= receipts'[j]
  BY <1>1, <1>2
<1>5. row.cancel => cancelRequested'[j]
  BY <1>2 DEF Moves
<1>6. ASSUME row.version = receipts'[j], row.cancel = cancelRequested'[j] PROVE row.facts = FactsOf(j)'
  <2>1. Here(j) /\ receipts'[j] = receipts[j] /\ row.version = receipts[j]
    BY <1>1, <1>2, <1>6
  <2>2. cancelRequested[j] => cancelRequested'[j]
    BY <2>1 DEF Moves
  <2>3. cancelRequested'[j] = cancelRequested[j] /\ row.cancel = cancelRequested[j]
    BY <1>1, <1>2, <1>6, <2>2
  <2>4. FactsOf(j)' = FactsOf(j)
    BY <2>1, <2>3 DEF Moves
  <2> QED
    BY <2>1, <2>3, <2>4 DEF RowInv
<1> QED
  BY <1>3, <1>4, <1>5, <1>6 DEF RowInv

LEMMA MessageKept ==
  ASSUME Advance, NEW m, MessageInv(m)
  PROVE  MessageInv(m)'
<1>1. m \in Messages /\ m.job \in Job
  BY DEF MessageInv, Messages
<1>2. Moves(m.job) /\ (Sent(m.job) => Sent(m.job)')
  BY <1>1 DEF Advance
<1>3. m.method = "progress" => \A o \in Ordinal : Was(m.facts[o], stepState'[m.job][o])
  BY <1>2, WasKept DEF MessageInv, Moves
<1>4. jobState[m.job] \in Over => jobState'[m.job] = jobState[m.job]
  BY <1>2 DEF Moves
<1> QED
  BY <1>1, <1>2, <1>3, <1>4 DEF MessageInv

LEMMA ReplyKept ==
  ASSUME Advance, NEW m \in Messages, ReplyInv(m)
  PROVE  ReplyInv(m)'
<1>1. m.job \in Job
  BY DEF Messages
<1>2. Moves(m.job) /\ (state[m.job] = "terminal" => state'[m.job] = "terminal")
      /\ \A o \in Ordinal : facts[m.job][o] \subseteq facts'[m.job][o]
  BY <1>1 DEF Advance
<1>3. Here(m.job) => Here(m.job)' /\ (cancelRequested[m.job] => cancelRequested'[m.job])
  BY <1>2 DEF Moves
<1>4. jobState[m.job] \in Over => jobState'[m.job] \in Over
  BY <1>2 DEF Moves
<1> QED
  BY <1>2, <1>3, <1>4 DEF ReplyInv

LEMMA EntryKept ==
  ASSUME QueueTypes, QueueTypes', Advance, NEW a \in Account, NEW e \in Entries, EntryInv(a, e)
  PROVE  EntryInv(a, e)'
<1>1. e.job \in Job /\ e.version \in Int
  BY DEF Entries
<1>2. Moves(e.job) /\ receipts[e.job] \in Nat /\ receipts'[e.job] \in Nat
  BY <1>1 DEF Advance, QueueTypes
<1>3. Here(e.job)' /\ (cancelRequested[e.job] => cancelRequested'[e.job]) /\ receipts[e.job] <= receipts'[e.job]
  BY <1>2 DEF Moves, EntryInv
<1>4. e.version <= receipts'[e.job]
  BY <1>1, <1>2, <1>3 DEF EntryInv
<1> QED
  BY <1>3, <1>4 DEF EntryInv

LEMMA DraftKept ==
  ASSUME QueueTypes, QueueTypes', Advance, NEW a \in Account, draft[a] \in Drafts,
         DraftInv(a), draft'[a] = draft[a]
  PROVE  DraftInv(a)'
<1>1. PICK d \in Drafts : d = draft[a]
  OBVIOUS
<1>2. /\ d.job \in Job /\ Here(d.job) /\ RowInv(d.job, d.row) /\ (d.row.acked => d.row.facts = NoFacts)
      /\ \A e \in d.left : EntryInv(a, e)
  BY <1>1 DEF DraftInv
<1>3. d.row \in ProgressRows /\ d.left \subseteq Entries
  BY <1>1 DEF Drafts
<1>4. Moves(d.job)
  BY <1>2 DEF Advance
<1>5. RowInv(d.job, d.row)' /\ Here(d.job)'
  BY <1>2, <1>3, <1>4, RowKept DEF Moves
<1>6. \A e \in d.left : EntryInv(a, e)'
  BY <1>2, <1>3, EntryKept
<1> QED
  BY <1>1, <1>2, <1>5, <1>6 DEF DraftInv, RowInv, EntryInv, NoFacts, Here

-----------------------------------------------------------------------------
(* The tables, step by step. *)
TableInv == /\ QP!QueueInv /\ OP!DispatchInv /\ TableTypes
            /\ \A j \in Job : LinkInv(j) /\ FactInv(j)

LEMMA TablesTyped ==
  ASSUME TableInv
  PROVE  /\ QueueTypes /\ TableTypes
         /\ state \in [Job -> {"absent", "pending", "sending", "accepted", "terminal"}]
         /\ outcome \in [Job -> Over \union {None}] /\ permit \in [Job -> Nat]
         /\ wake \in [Job -> Nat] /\ wakeAcked \in [Job -> BOOLEAN]
         /\ cancelRow \in [Job -> {"none", "requested", "acknowledged"}]
BY QueueTyped DEF TableInv, OP!DispatchInv, OP!TypeOK, OP!Open, Over

LEMMA QuietDispatch ==
  ASSUME OP!DispatchInv, UNCHANGED dispatchVars
  PROVE  OP!DispatchInv'
<1>1. IsFiniteSet(Job) => OP!IsFiniteSet(Job)
  BY DEF IsFiniteSet, OP!IsFiniteSet
<1> QED
  BY <1>1, OutboxAssumption, QueueAssumption, OP!NextInv DEF dispatchVars, OP!dispatchVars

LEMMA QuietQueue ==
  ASSUME QP!QueueInv, UNCHANGED queueVars
  PROVE  QP!QueueInv' /\ \A j \in Job : RowsKept(j) /\ Moves(j)
<1>1. QP!QueueInv'
  BY QueueAssumption, QP!NextQueue DEF queueVars, QP!queueVars
<1>2. QueueTypes
  BY QueueTyped
<1>3. ASSUME NEW j \in Job PROVE RowsKept(j)
  BY DEF queueVars, RowsKept
<1> QED
  BY <1>1, <1>2, <1>3, KeptMoves

(* The steps of an account leave everything else alone. *)
LEMMA QueueTables ==
  ASSUME TableInv, QP!QueueInv', NEW j \in Job, \A k \in Job : Moves(k) /\ (k # j => RowsKept(k)),
         jobState[j] \in Queue!Unfinished \/ (~Here(j) /\ Sent(j)),
         UNCHANGED <<dispatchVars, effectVars, outboxVars>>
  PROVE  TableInv' /\ Advance
<1>1. QueueTypes /\ QueueTypes' /\ TableTypes
  BY QueueTyped, QueueTypedNext, TablesTyped
<1>2. /\ UNCHANGED <<state, outcome, cancelRow, facts, known, progress, receipt>>
      /\ OP!DispatchInv' /\ TableTypes'
  BY <1>1, QuietDispatch DEF dispatchVars, effectVars, outboxVars, TableInv, TableTypes
<1>3. Advance
  BY <1>2 DEF Advance, Sent
<1>4. state[j] \in {"sending", "accepted"}
  <2>1. LinkInv(j) /\ state[j] \in {"absent", "pending", "sending", "accepted", "terminal"}
    BY TablesTyped DEF TableInv
  <2> QED
    BY <2>1 DEF LinkInv, Sent, Here, Over, Queue!Unfinished
<1>5. ASSUME NEW k \in Job PROVE LinkInv(k)' /\ FactInv(k)'
  <2>1. LinkInv(k) /\ FactInv(k) /\ Moves(k)
    BY DEF TableInv
  <2>2. Here(k)' => Here(k) \/ k = j
    BY DEF RowsKept, Here
  <2>3. jobState'[k] \in {"queued", "running", "needs_review"} => jobState[k] = jobState'[k] \/ k = j
    BY DEF RowsKept
  <2>4. jobState[k] \in Over => jobState'[k] \in Over /\ jobState'[k] = jobState[k] /\ FactsOf(k)' = FactsOf(k)
    BY <2>1, FactsOfSteps DEF Moves
  <2>5. Here(k) => Here(k)' /\ (cancelRequested[k] => cancelRequested'[k])
    BY <2>1 DEF Moves
  <2>6. LinkInv(k)'
    BY <1>2, <1>4, <2>1, <2>2, <2>3, <2>4, <2>5 DEF LinkInv, Sent
  <2>7. \A o \in Ordinal : Was(known[k][o], stepState'[k][o])
    BY <2>1, WasKept DEF FactInv, Moves
  <2>8. progress[k] \in ProgressRows /\ RowInv(k, progress[k])
        /\ (~Here(k) => progress[k].version = -1 /\ ~progress[k].cancel /\ progress[k].facts = NoFacts)
    BY <1>1, <2>1 DEF FactInv, TableTypes
  <2>9. PICK row \in ProgressRows : row = progress[k]
    BY <2>8
  <2>10. RowInv(k, row)'
    BY <1>1, <2>1, <2>8, <2>9, RowKept
  <2>11. RowInv(k, progress[k])'
    BY <1>2, <2>9, <2>10 DEF RowInv
  <2>12. ASSUME ~Changed(k)', row.acked PROVE known[k] = FactsOf(k)'
    <3>1. row.version = receipts'[k] /\ row.cancel = cancelRequested'[k]
      BY <1>2, <2>9, <2>12 DEF Changed
    <3>2. /\ receipts[k] \in Nat /\ receipts'[k] \in Nat /\ receipts[k] <= receipts'[k]
          /\ row.version <= receipts[k] /\ (row.cancel => cancelRequested[k])
          /\ cancelRequested[k] \in BOOLEAN /\ cancelRequested'[k] \in BOOLEAN /\ row.cancel \in BOOLEAN
          /\ (~Here(k) => row.version = -1)
      BY <1>1, <2>1, <2>8, <2>9 DEF QueueTypes, Moves, RowInv, ProgressRows
    <3>3. Here(k) /\ receipts'[k] = receipts[k] /\ row.version = receipts[k]
      BY <3>1, <3>2
    <3>4. cancelRequested'[k] = cancelRequested[k]
      BY <2>5, <3>1, <3>2, <3>3
    <3>5. ~Changed(k) /\ FactsOf(k)' = FactsOf(k)
      BY <2>1, <2>9, <3>1, <3>3, <3>4 DEF Moves, Changed
    <3> QED
      BY <2>1, <2>9, <2>12, <3>5 DEF FactInv
  <2>13. FactInv(k)'
    BY <1>2, <2>1, <2>5, <2>7, <2>9, <2>11, <2>12 DEF FactInv, NoFacts
  <2> QED
    BY <2>6, <2>13
<1> QED
  BY <1>2, <1>3, <1>5 DEF TableInv

(* The tables of the global object change, or the accounts' reports do:    *)
(* the rows of the accounts are what they were.                            *)
SameAccounts == /\ UNCHANGED <<jobState, stepState, cancelRequested, receipts>>
                /\ \A j \in Job : FactsOf(j)' = FactsOf(j) /\ (Here(j)' <=> Here(j))

LEMMA KeptAccounts ==
  ASSUME TableInv, UNCHANGED queueVars
  PROVE  SameAccounts /\ QP!QueueInv' /\ \A j \in Job : Moves(j)
<1>1. UNCHANGED <<jobState, stepState, cancelRequested, receipts>>
  BY DEF queueVars
<1>2. QP!QueueInv' /\ \A j \in Job : Moves(j)
  BY QuietQueue DEF TableInv
<1> QED
  BY <1>1, <1>2, FactsOfSteps DEF SameAccounts, Here

LEMMA QuietTables ==
  ASSUME TableInv, UNCHANGED <<queueVars, dispatchVars, effectVars, outboxVars>>
  PROVE  TableInv' /\ Advance
<1>1. SameAccounts /\ QP!QueueInv' /\ OP!DispatchInv' /\ \A j \in Job : Moves(j)
  BY KeptAccounts, QuietDispatch DEF TableInv
<1>2. UNCHANGED <<state, outcome, cancelRow, facts, known, progress, receipt>>
  BY DEF dispatchVars, effectVars, outboxVars
<1>3. ASSUME NEW j \in Job PROVE LinkInv(j)' /\ FactInv(j)'
  <2>1. LinkInv(j) /\ FactInv(j)
    BY DEF TableInv
  <2>2. LinkInv(j)'
    BY <1>1, <1>2, <2>1 DEF LinkInv, Sent, SameAccounts
  <2>3. FactInv(j)'
    BY <1>1, <1>2, <2>1 DEF FactInv, RowInv, Changed, NoFacts, SameAccounts
  <2> QED
    BY <2>2, <2>3
<1> QED
  BY <1>1, <1>2, <1>3 DEF TableInv, TableTypes, Advance, Sent

LEMMA DispatchTables ==
  ASSUME TableInv, OP!DispatchInv', UNCHANGED <<queueVars, effectVars, outboxVars>>,
         \A j \in Job :
           /\ Sent(j) => Sent(j)'
           /\ state[j] \in {"sending", "accepted"} =>
                state'[j] \in {"sending", "accepted"} \/ (state'[j] = "terminal" /\ jobState[j] \in Over)
           /\ state[j] = "terminal" => state'[j] = "terminal"
           /\ state'[j] = "accepted" => Here(j)
           /\ state'[j] = "terminal" =>
                jobState[j] \in Over /\ outcome'[j] = jobState[j] /\ known[j] = FactsOf(j)
           /\ cancelRow'[j] = "acknowledged" =>
                Here(j) /\ (cancelRequested[j] \/ jobState[j] \in Over)
  PROVE  TableInv' /\ Advance
<1>1. SameAccounts /\ QP!QueueInv' /\ \A j \in Job : Moves(j)
  BY KeptAccounts
<1>2. UNCHANGED <<facts, known, progress, receipt>>
  BY DEF effectVars, outboxVars
<1>3. ASSUME NEW j \in Job PROVE LinkInv(j)' /\ FactInv(j)'
  <2>1. LinkInv(j) /\ FactInv(j)
    BY DEF TableInv
  <2>2. /\ Sent(j) => Sent(j)'
        /\ state[j] \in {"sending", "accepted"} =>
             state'[j] \in {"sending", "accepted"} \/ (state'[j] = "terminal" /\ jobState[j] \in Over)
        /\ state[j] = "terminal" => state'[j] = "terminal"
        /\ state'[j] = "accepted" => Here(j)
        /\ state'[j] = "terminal" =>
             jobState[j] \in Over /\ outcome'[j] = jobState[j] /\ known[j] = FactsOf(j)
        /\ cancelRow'[j] = "acknowledged" => Here(j) /\ (cancelRequested[j] \/ jobState[j] \in Over)
    OBVIOUS
  <2>3. /\ jobState'[j] = jobState[j] /\ cancelRequested'[j] = cancelRequested[j]
        /\ FactsOf(j)' = FactsOf(j) /\ (Here(j)' <=> Here(j))
        /\ known'[j] = known[j] /\ receipt'[j] = receipt[j]
    BY <1>1, <1>2 DEF SameAccounts
  <2>4. \A s \in Over : s \notin {"queued", "running", "needs_review"}
    BY DEF Over
  <2>5. LinkInv(j)'
    BY <2>1, <2>2, <2>3, <2>4 DEF LinkInv
  <2>6. FactInv(j)'
    BY <1>1, <1>2, <2>1 DEF FactInv, RowInv, Changed, NoFacts, SameAccounts
  <2> QED
    BY <2>5, <2>6
<1>4. Advance
  BY <1>1, <1>2 DEF Advance
<1> QED
  BY <1>1, <1>2, <1>3, <1>4 DEF TableInv, TableTypes

LEMMA OutboxTables ==
  ASSUME TableInv, UNCHANGED <<queueVars, dispatchVars, effectVars>>,
         progress' \in [Job -> ProgressRows], receipt' \in [Job -> {"none", "saved", "acknowledged"}],
         \A j \in Job :
           /\ RowInv(j, progress'[j])
           /\ ~Here(j) => progress'[j].version = -1 /\ ~progress'[j].cancel /\ progress'[j].facts = NoFacts
           /\ progress'[j].version = receipts[j] /\ progress'[j].cancel = cancelRequested[j]
                /\ progress'[j].acked => known[j] = FactsOf(j)
           /\ receipt'[j] # "none" => jobState[j] \in Over
           /\ receipt'[j] = "acknowledged" => state[j] = "terminal"
  PROVE  TableInv' /\ Advance
<1>1. SameAccounts /\ QP!QueueInv' /\ OP!DispatchInv' /\ \A j \in Job : Moves(j)
  BY KeptAccounts, QuietDispatch DEF TableInv
<1>2. UNCHANGED <<state, outcome, cancelRow, facts, known>>
  BY DEF dispatchVars, effectVars
<1>3. ASSUME NEW j \in Job PROVE LinkInv(j)' /\ FactInv(j)'
  <2>1. LinkInv(j) /\ FactInv(j)
    BY DEF TableInv
  <2>2. LinkInv(j)'
    BY <1>1, <1>2, <2>1 DEF LinkInv, Sent, SameAccounts
  <2>3. FactInv(j)'
    BY <1>1, <1>2, <2>1 DEF FactInv, RowInv, Changed, NoFacts, SameAccounts
  <2> QED
    BY <2>2, <2>3
<1>4. Advance
  BY <1>1, <1>2 DEF Advance, Sent
<1> QED
  BY <1>1, <1>2, <1>3, <1>4 DEF TableInv, TableTypes

(* The instance's assumptions. *)
LEMMA OutboxBounds ==
  /\ TaskOf \in [Job -> Task] /\ Owner \in [Job -> Account] /\ Place \in [Job -> Nat]
  /\ OP!IsFiniteSet(Job)
BY OutboxAssumption, QueueAssumption DEF IsFiniteSet, OP!IsFiniteSet

LEMMA SubmitTables ==
  ASSUME TableInv, NEW t \in Task, Outbox!Submit(t), UNCHANGED <<queueVars, effectVars, outboxVars>>
  PROVE  TableInv' /\ Advance
<1>1. OP!DispatchInv /\ OP!Submit(t)
  BY SameDispatch DEF TableInv
<1>2. OP!DispatchInv'
  BY <1>1, OutboxBounds, OutboxAssumption, OP!SubmitInv
<1>3. /\ \A j \in Job : state'[j] = IF TaskOf[j] = t THEN "pending" ELSE state[j]
      /\ UNCHANGED <<outcome, cancelRow>> /\ order[t] = 0
  BY DEF Outbox!Submit
<1>4. ASSUME NEW j \in Job, TaskOf[j] = t PROVE state[j] = "absent" /\ state'[j] = "pending"
  BY <1>1, <1>3, <1>4 DEF OP!DispatchInv, OP!RowsWithTheirTask
<1>5. \A j \in Job : LinkInv(j)
  BY DEF TableInv
<1> QED
  BY <1>2, <1>3, <1>4, <1>5, DispatchTables DEF Sent, LinkInv

LEMMA ReserveTables ==
  ASSUME TableInv, NEW R \in SUBSET Job, Outbox!Reserve(R), UNCHANGED <<queueVars, effectVars, outboxVars>>
  PROVE  TableInv' /\ Advance
<1>1. OP!DispatchInv /\ OP!Reserve(R)
  BY SameDispatch DEF TableInv
<1>2. OP!DispatchInv'
  BY <1>1, OutboxBounds, OutboxAssumption, OP!ReserveInv
<1>3. /\ \A j \in Job : state'[j] = IF j \in R THEN "sending" ELSE state[j]
      /\ UNCHANGED <<outcome, cancelRow>> /\ R \subseteq Outbox!Heads
  BY DEF Outbox!Reserve, Outbox!Granted
<1>4. \A j \in R : state[j] = "pending"
  BY <1>3 DEF Outbox!Heads
<1>5. \A j \in Job : LinkInv(j)
  BY DEF TableInv
<1> QED
  BY <1>2, <1>3, <1>4, <1>5, DispatchTables DEF Sent, LinkInv

LEMMA RequestTables ==
  ASSUME TableInv, UNCHANGED <<queueVars, effectVars, outboxVars>>,
         UNCHANGED <<order, submitted, state, permit, issued, outcome>>,
         wake' \in [Job -> Nat], wakeAcked' \in [Job -> BOOLEAN],
         cancelRow' \in [Job -> {"none", "requested", "acknowledged"}],
         \A j \in Job : cancelRow'[j] = "acknowledged" =>
           cancelRow[j] = "acknowledged" \/ (Here(j) /\ (cancelRequested[j] \/ jobState[j] \in Over))
  PROVE  TableInv' /\ Advance
<1>1. OP!DispatchInv'
  BY OutboxBounds, OutboxAssumption, OP!RequestInv DEF TableInv
<1>2. \A j \in Job : LinkInv(j)
  BY DEF TableInv
<1> QED
  BY <1>1, <1>2, DispatchTables DEF Sent, LinkInv

LEMMA WakeTables ==
  ASSUME TableInv, NEW t \in Task, Outbox!RequestWake(t), UNCHANGED <<queueVars, effectVars, outboxVars>>
  PROVE  TableInv' /\ Advance
<1>1. wake \in [Job -> Nat] /\ wakeAcked \in [Job -> BOOLEAN]
      /\ cancelRow \in [Job -> {"none", "requested", "acknowledged"}]
  BY TablesTyped
<1>2. wake' \in [Job -> Nat] /\ wakeAcked' \in [Job -> BOOLEAN] /\ UNCHANGED cancelRow
      /\ UNCHANGED <<order, submitted, state, permit, issued, outcome>>
  <2>1. \A j \in Job : (IF TaskOf[j] = t /\ j \in Outbox!Permits THEN FALSE ELSE wakeAcked[j]) \in BOOLEAN
    BY <1>1
  <2>2. wakeAcked' \in [Job -> BOOLEAN]
    BY <2>1 DEF Outbox!RequestWake
  <2>3. wake' \in [Job -> Nat]
    BY <1>1 DEF Outbox!RequestWake
  <2> QED
    BY <2>2, <2>3 DEF Outbox!RequestWake
<1> QED
  BY <1>1, <1>2, RequestTables

LEMMA CancelTables ==
  ASSUME TableInv, NEW t \in Task, Outbox!RequestCancel(t), UNCHANGED <<queueVars, effectVars, outboxVars>>
  PROVE  TableInv' /\ Advance
<1>1. wake \in [Job -> Nat] /\ wakeAcked \in [Job -> BOOLEAN]
      /\ cancelRow \in [Job -> {"none", "requested", "acknowledged"}]
  BY TablesTyped
<1>2. /\ UNCHANGED <<order, submitted, state, permit, issued, outcome, wake, wakeAcked>>
      /\ cancelRow' \in [Job -> {"none", "requested", "acknowledged"}]
      /\ \A j \in Job : cancelRow'[j] \in {"requested", cancelRow[j]}
  BY <1>1 DEF Outbox!RequestCancel
<1>3. \A j \in Job : cancelRow'[j] = "acknowledged" => cancelRow[j] = "acknowledged"
  BY <1>2
<1> QED
  BY <1>1, <1>2, <1>3, RequestTables

LEMMA AcknowledgeTables ==
  ASSUME TableInv, NEW j \in Job, Here(j), Outbox!Acknowledge(j, permit[j]),
         UNCHANGED <<queueVars, effectVars, outboxVars>>
  PROVE  TableInv' /\ Advance
<1>1. /\ state[j] = "sending" /\ state' = [state EXCEPT ![j] = "accepted"]
      /\ UNCHANGED <<order, submitted, permit, issued, outcome, wake, wakeAcked, cancelRow>>
  BY DEF Outbox!Acknowledge
<1>2. /\ outcome \in [Job -> Over \union {None}]
      /\ state \in [Job -> {"absent", "pending", "sending", "accepted", "terminal"}]
  BY TablesTyped
<1>3. OP!DispatchInv'
  BY <1>1, <1>2, OutboxBounds, OutboxAssumption, OP!PermitStepInv DEF TableInv, OP!Holding, Over
<1>4. \A k \in Job : LinkInv(k) /\ state'[k] = IF k = j THEN "accepted" ELSE state[k]
  BY <1>1, <1>2 DEF TableInv
<1> QED
  BY <1>1, <1>3, <1>4, DispatchTables DEF Sent, LinkInv

LEMMA AcknowledgeWakeTables ==
  ASSUME TableInv, NEW j \in Job, NEW n, Outbox!AcknowledgeWake(j, permit[j], n),
         UNCHANGED <<queueVars, effectVars, outboxVars>>
  PROVE  TableInv' /\ Advance
<1>1. wake \in [Job -> Nat] /\ wakeAcked \in [Job -> BOOLEAN]
      /\ cancelRow \in [Job -> {"none", "requested", "acknowledged"}]
  BY TablesTyped
<1>2. wakeAcked' \in [Job -> BOOLEAN] /\ UNCHANGED <<wake, cancelRow>>
      /\ UNCHANGED <<order, submitted, state, permit, issued, outcome>>
  BY <1>1 DEF Outbox!AcknowledgeWake
<1> QED
  BY <1>1, <1>2, RequestTables

LEMMA AcknowledgeCancelTables ==
  ASSUME TableInv, NEW j \in Job, Here(j), cancelRequested[j] \/ jobState[j] \in Over,
         Outbox!AcknowledgeCancel(j, permit[j]), UNCHANGED <<queueVars, effectVars, outboxVars>>
  PROVE  TableInv' /\ Advance
<1>1. wake \in [Job -> Nat] /\ wakeAcked \in [Job -> BOOLEAN]
      /\ cancelRow \in [Job -> {"none", "requested", "acknowledged"}]
  BY TablesTyped
<1>2. /\ UNCHANGED <<order, submitted, state, permit, issued, outcome, wake, wakeAcked>>
      /\ cancelRow' \in [Job -> {"none", "requested", "acknowledged"}]
      /\ \A k \in Job : k # j => cancelRow'[k] = cancelRow[k]
  BY <1>1 DEF Outbox!AcknowledgeCancel
<1> QED
  BY <1>1, <1>2, RequestTables

(* A receipt is accepted when every step is accounted for, and then what   *)
(* is known of the job is all there is to know.                            *)
LEMMA AllIsKnown ==
  ASSUME TableInv, NEW j \in Job, NEW word, AllFactsKnown(j, word)
  PROVE  known[j] = FactsOf(j)
<1>1. known[j] \in [Ordinal -> FactStates] /\ FactInv(j)
  BY TablesTyped DEF TableTypes, TableInv
<1>2. ASSUME NEW o \in Ordinal
      PROVE  known[j][o] = IF stepState[j][o] \in Known THEN stepState[j][o] ELSE "none"
  <2>1. Was(known[j][o], stepState[j][o]) /\ known[j][o] \in FactStates
    BY <1>1 DEF FactInv
  <2>2. CASE o \in Queue!Planned(j)
    <3>1. known[j][o] \in {"verified", "failed", "skipped"}
      BY <2>2 DEF AllFactsKnown
    <3> QED
      BY <2>1, <3>1 DEF Was, Settled, Known
  <2>3. CASE o \notin Queue!Planned(j)
    <3>1. stepState[j][o] = "absent"
      BY <2>3 DEF TableInv, QP!QueueInv, QP!RowsTogether, QP!Planned, Queue!Planned, Ordinal, Queue!Ordinal,
                  QP!Ordinal
    <3> QED
      BY <2>1, <3>1 DEF Was, Settled, Known, FactStates
  <2> QED
    BY <2>2, <2>3
<1> QED
  BY <1>1, <1>2, FactsOfSteps

LEMMA CompleteTables ==
  ASSUME TableInv, NEW j \in Job, AllFactsKnown(j, jobState[j]), jobState[j] \in Over,
         Outbox!Complete(j, permit[j], jobState[j]), UNCHANGED <<queueVars, effectVars, outboxVars>>
  PROVE  TableInv' /\ Advance /\ state'[j] = "terminal"
<1>1. /\ state[j] \in {"sending", "accepted"} /\ state' = [state EXCEPT ![j] = "terminal"]
      /\ outcome' = [outcome EXCEPT ![j] = jobState[j]]
      /\ UNCHANGED <<order, submitted, permit, issued, wake, wakeAcked, cancelRow>>
  BY DEF Outbox!Complete
<1>2. /\ outcome \in [Job -> Over \union {None}]
      /\ state \in [Job -> {"absent", "pending", "sending", "accepted", "terminal"}]
  BY TablesTyped
<1>3. OP!DispatchInv'
  <2>1. outcome' \in [Job -> Over \union {None}]
    BY <1>1, <1>2
  <2> QED
    BY <1>1, <2>1, OutboxBounds, OutboxAssumption, OP!PermitStepInv DEF TableInv, OP!Holding, Over
<1>4. \A k \in Job : /\ LinkInv(k) /\ state'[k] = IF k = j THEN "terminal" ELSE state[k]
                     /\ outcome'[k] = IF k = j THEN jobState[j] ELSE outcome[k]
  BY <1>1, <1>2 DEF TableInv
<1> QED
  BY <1>1, <1>3, <1>4, AllIsKnown, DispatchTables DEF Sent, LinkInv

(* Facts that are accepted are true, and new ones change the table.        *)
LEMMA ProgressTables ==
  ASSUME TableInv, NEW m, MessageInv(m), m.method = "progress", Acceptable(m),
         known' = [known EXCEPT ![m.job] = Merged(m)],
         facts' = [facts EXCEPT ![m.job] = [o \in Ordinal |->
                     IF o \in Fresh(m) THEN @[o] \union {m.facts[o]} ELSE @[o]]],
         UNCHANGED <<queueVars, dispatchVars, outboxVars>>
  PROVE  TableInv' /\ Advance /\ ReplyInv(m)'
<1>1. PICK j \in Job : j = m.job
  BY DEF MessageInv, Messages
<1>2. j \in Job /\ m.facts \in [Ordinal -> FactStates]
      /\ \A o \in Ordinal : Was(m.facts[o], stepState[j][o])
  BY <1>1 DEF MessageInv, Messages
<1>3. SameAccounts /\ QP!QueueInv' /\ OP!DispatchInv' /\ \A k \in Job : Moves(k)
  BY KeptAccounts, QuietDispatch DEF TableInv
<1>4. UNCHANGED <<state, outcome, cancelRow, progress, receipt>>
  BY DEF dispatchVars, outboxVars
<1>5. /\ known \in [Job -> [Ordinal -> FactStates]]
      /\ facts \in [Job -> [Ordinal -> SUBSET (FactStates \ {"none"})]]
      /\ progress \in [Job -> ProgressRows]
  BY TablesTyped DEF TableTypes
<1>6. ASSUME NEW o \in Ordinal
      PROVE  /\ known'[j][o] = IF o \in Fresh(m) THEN m.facts[o] ELSE known[j][o]
             /\ facts'[j][o] = IF o \in Fresh(m) THEN facts[j][o] \union {m.facts[o]} ELSE facts[j][o]
  BY <1>1, <1>2, <1>5 DEF Merged
<1>7. ASSUME NEW o \in Ordinal, NEW x
      PROVE  x \in facts'[j][o] <=> x \in facts[j][o] \/ (o \in Fresh(m) /\ x = m.facts[o])
  <2>1. CASE o \in Fresh(m)
    <3>1. facts'[j][o] = facts[j][o] \union {m.facts[o]}
      BY <1>6, <2>1
    <3> QED
      BY <2>1, <3>1
  <2>2. CASE o \notin Fresh(m)
    <3>1. facts'[j][o] = facts[j][o]
      BY <1>6, <2>2
    <3> QED
      BY <2>2, <3>1
  <2> QED
    BY <2>1, <2>2
<1>8. ASSUME NEW o \in Fresh(m)
      PROVE  /\ o \in Ordinal /\ m.facts[o] \in FactStates \ {"none"} /\ state[j] # "terminal"
             /\ known[j][o] = "none" \/ (known[j][o] = "unknown" /\ m.facts[o] \in {"verified", "failed"})
  BY <1>1, <1>2 DEF Fresh, Acceptable
<1>9. ASSUME NEW k \in Job, k # j PROVE known'[k] = known[k] /\ facts'[k] = facts[k]
  BY <1>1, <1>5, <1>9
<1>10. LinkInv(j) /\ FactInv(j)
  BY <1>2 DEF TableInv
<1>11. (\A o \in Fresh(m) : FALSE) => known'[j] = known[j]
  BY <1>1, <1>2, <1>5 DEF Merged
<1>12. known[j] = FactsOf(j) => known'[j] = known[j]
  <2>1. ASSUME known[j] = FactsOf(j), NEW o \in Fresh(m) PROVE FALSE
    <3>1. known[j][o] = IF stepState[j][o] \in Known THEN stepState[j][o] ELSE "none"
      BY <1>8, <2>1, FactsOfSteps
    <3> QED
      BY <1>2, <1>8, <3>1 DEF Was, Settled, Known, FactStates
  <2> QED
    BY <1>11, <2>1
<1>13. /\ known' \in [Job -> [Ordinal -> FactStates]]
       /\ facts' \in [Job -> [Ordinal -> SUBSET (FactStates \ {"none"})]]
  <2>1. Merged(m) \in [Ordinal -> FactStates]
    BY <1>1, <1>2, <1>5 DEF Merged
  <2>2. [o \in Ordinal |-> IF o \in Fresh(m) THEN facts[j][o] \union {m.facts[o]} ELSE facts[j][o]]
           \in [Ordinal -> SUBSET (FactStates \ {"none"})]
    BY <1>2, <1>5, <1>8
  <2>3. known' = [known EXCEPT ![j] = Merged(m)]
        /\ facts' = [facts EXCEPT ![j] = [o \in Ordinal |-> IF o \in Fresh(m) THEN facts[j][o] \union {m.facts[o]}
                                                                     ELSE facts[j][o]]]
    BY <1>1, <1>2, <1>5
  <2>4. PICK known1, facts1 :
          /\ known1 \in [Ordinal -> FactStates] /\ facts1 \in [Ordinal -> SUBSET (FactStates \ {"none"})]
          /\ known' = [known EXCEPT ![j] = known1] /\ facts' = [facts EXCEPT ![j] = facts1]
    BY <2>1, <2>2, <2>3
  <2>5. known' \in [Job -> [Ordinal -> FactStates]]
    BY <1>5, <2>4
  <2>6. facts' \in [Job -> [Ordinal -> SUBSET (FactStates \ {"none"})]]
    BY <1>5, <2>4
  <2> QED
    BY <2>5, <2>6
<1>14. LinkInv(j)' /\ FactInv(j)'
  <2>1. state[j] = "terminal" => known'[j] = known[j]
    BY <1>8, <1>11
  <2>2. LinkInv(j)'
    BY <1>2, <1>3, <1>4, <1>10, <2>1 DEF LinkInv, Sent, SameAccounts
  <2>3. ASSUME NEW o \in Ordinal
        PROVE  /\ Was(known'[j][o], stepState[j][o])
               /\ \A x \in facts'[j][o] : known'[j][o] # "none" /\ (x \in Settled => known'[j][o] = x)
    <3>1. /\ Was(known[j][o], stepState[j][o])
          /\ \A x \in facts[j][o] : known[j][o] # "none" /\ (x \in Settled => known[j][o] = x)
      BY <1>10 DEF FactInv
    <3>2. CASE o \notin Fresh(m)
      BY <1>6, <3>1, <3>2
    <3>3. CASE o \in Fresh(m)
      <4>1. known'[j][o] = m.facts[o] /\ m.facts[o] # "none" /\ Was(m.facts[o], stepState[j][o])
        BY <1>2, <1>6, <1>8, <3>3
      <4>2. known[j][o] \notin Settled
        BY <1>8, <3>3 DEF Settled
      <4> QED
        BY <1>7, <3>1, <4>1, <4>2
    <3> QED
      BY <3>2, <3>3
  <2>4. ~Changed(j) /\ progress[j].acked => known'[j] = FactsOf(j)
    BY <1>10, <1>12 DEF FactInv
  <2>5. RowInv(j, progress[j])' <=> RowInv(j, progress[j])
    BY <1>3, <1>4 DEF RowInv, SameAccounts
  <2>6. Changed(j)' <=> Changed(j)
    BY <1>3, <1>4 DEF Changed, SameAccounts
  <2> QED
    BY <1>3, <1>4, <1>10, <2>2, <2>3, <2>4, <2>5, <2>6 DEF FactInv, SameAccounts, NoFacts
<1>15. ASSUME NEW k \in Job, k # j PROVE LinkInv(k)' /\ FactInv(k)'
  <2>1. LinkInv(k) /\ FactInv(k) /\ known'[k] = known[k] /\ facts'[k] = facts[k]
    BY <1>9, <1>15 DEF TableInv
  <2>2. LinkInv(k)'
    BY <1>3, <1>4, <2>1 DEF LinkInv, Sent, SameAccounts
  <2>3. RowInv(k, progress[k])' <=> RowInv(k, progress[k])
    BY <1>3, <1>4 DEF RowInv, SameAccounts
  <2>4. Changed(k)' <=> Changed(k)
    BY <1>3, <1>4 DEF Changed, SameAccounts
  <2>5. FactInv(k)'
    BY <1>3, <1>4, <2>1, <2>3, <2>4 DEF FactInv, NoFacts, SameAccounts
  <2> QED
    BY <2>2, <2>5
<1>16. Advance
  BY <1>3, <1>4, <1>6, <1>9 DEF Advance, Sent
<1>17. ReplyInv(m)'
  <2>1. ASSUME NEW o \in Ordinal, m.facts[o] # "none" PROVE m.facts[o] \in facts'[j][o]
    BY <1>1, <1>7, <2>1 DEF Fresh
  <2> QED
    BY <1>1, <2>1 DEF ReplyInv
<1> QED
  BY <1>3, <1>4, <1>5, <1>13, <1>14, <1>15, <1>16, <1>17 DEF TableInv, TableTypes

(* What the global object has recorded of a job is all, if it has recorded *)
(* every fact there is.                                                    *)
LEMMA RecordedIsKnown ==
  ASSUME TableInv, NEW j \in Job,
         \A o \in Ordinal : FactsOf(j)[o] # "none" => FactsOf(j)[o] \in facts[j][o]
  PROVE  known[j] = FactsOf(j)
<1>1. known[j] \in [Ordinal -> FactStates] /\ FactInv(j)
  BY TablesTyped DEF TableTypes, TableInv
<1>2. ASSUME NEW o \in Ordinal
      PROVE  known[j][o] = IF stepState[j][o] \in Known THEN stepState[j][o] ELSE "none"
  <2>1. /\ Was(known[j][o], stepState[j][o]) /\ known[j][o] \in FactStates
        /\ \A x \in facts[j][o] : known[j][o] # "none" /\ (x \in Settled => known[j][o] = x)
    BY <1>1 DEF FactInv
  <2>2. FactsOf(j)[o] = IF stepState[j][o] \in Known THEN stepState[j][o] ELSE "none"
    BY FactsOfSteps
  <2>3. CASE stepState[j][o] \in Known
    <3>1. stepState[j][o] \in facts[j][o]
      BY <2>2, <2>3 DEF Known
    <3> QED
      BY <2>1, <2>3, <3>1 DEF Was, Settled, Known, FactStates
  <2>4. CASE stepState[j][o] \notin Known
    BY <2>1, <2>4 DEF Was, Settled, Known, FactStates
  <2> QED
    BY <2>3, <2>4
<1> QED
  BY <1>1, <1>2, FactsOfSteps

LEMMA WriteTables ==
  ASSUME TableInv, NEW a \in Account, draft[a] \in Drafts, DraftInv(a),
         progress' = [progress EXCEPT ![draft[a].job] = draft[a].row], UNCHANGED receipt,
         UNCHANGED <<queueVars, dispatchVars, effectVars>>
  PROVE  TableInv' /\ Advance
<1>1. PICK d \in Drafts : d = draft[a]
  OBVIOUS
<1>2. /\ d.job \in Job /\ Here(d.job) /\ RowInv(d.job, d.row) /\ d.row \in ProgressRows
      /\ d.row.acked => d.row.facts = NoFacts
  BY <1>1 DEF DraftInv, Drafts
<1>3. /\ progress \in [Job -> ProgressRows] /\ receipt \in [Job -> {"none", "saved", "acknowledged"}]
      /\ known \in [Job -> [Ordinal -> FactStates]]
  BY TablesTyped DEF TableTypes
<1>4. /\ progress' \in [Job -> ProgressRows] /\ progress'[d.job] = d.row
      /\ \A k \in Job : k # d.job => progress'[k] = progress[k]
  BY <1>1, <1>2, <1>3
<1>5. \A k \in Job : LinkInv(k) /\ FactInv(k)
  BY DEF TableInv
<1>6. ASSUME d.row.facts = FactsOf(d.job), d.row.acked PROVE known[d.job] = FactsOf(d.job)
  <2>1. \A o \in Ordinal : FactsOf(d.job)[o] = "none"
    BY <1>2, <1>6 DEF NoFacts
  <2> QED
    BY <1>2, <2>1, RecordedIsKnown
<1>7. ASSUME NEW k \in Job
      PROVE  /\ RowInv(k, progress'[k])
             /\ ~Here(k) => progress'[k].version = -1 /\ ~progress'[k].cancel /\ progress'[k].facts = NoFacts
             /\ progress'[k].version = receipts[k] /\ progress'[k].cancel = cancelRequested[k]
                  /\ progress'[k].acked => known[k] = FactsOf(k)
             /\ receipt'[k] # "none" => jobState[k] \in Over
             /\ receipt'[k] = "acknowledged" => state[k] = "terminal"
  <2>1. (receipt'[k] # "none" => jobState[k] \in Over) /\ (receipt'[k] = "acknowledged" => state[k] = "terminal")
    BY <1>5 DEF LinkInv
  <2>2. CASE k = d.job
    BY <1>2, <1>4, <1>6, <2>1, <2>2 DEF RowInv
  <2>3. CASE k # d.job
    BY <1>4, <1>5, <2>1, <2>3 DEF FactInv, Changed
  <2> QED
    BY <2>2, <2>3
<1> QED
  BY <1>3, <1>4, <1>7, OutboxTables

LEMMA SaveTables ==
  ASSUME TableInv, NEW a \in Account, UNCHANGED progress,
         receipt' = [j \in Job |-> IF Owner[j] = a /\ jobState[j] \in Queue!Terminal /\ receipt[j] = "none"
                                   THEN "saved" ELSE receipt[j]],
         UNCHANGED <<queueVars, dispatchVars, effectVars>>
  PROVE  TableInv' /\ Advance
<1>1. progress \in [Job -> ProgressRows] /\ receipt \in [Job -> {"none", "saved", "acknowledged"}]
  BY TablesTyped DEF TableTypes
<1>2. receipt' \in [Job -> {"none", "saved", "acknowledged"}]
  BY <1>1
<1>3. \A k \in Job : LinkInv(k) /\ FactInv(k)
  BY DEF TableInv
<1>4. \A k \in Job : /\ receipt'[k] # "none" => jobState[k] \in Over
                     /\ receipt'[k] = "acknowledged" => state[k] = "terminal"
  BY <1>3 DEF LinkInv, Queue!Terminal, Over
<1>5. \A k \in Job : /\ RowInv(k, progress'[k])
                     /\ ~Here(k) => /\ progress'[k].version = -1 /\ ~progress'[k].cancel
                                    /\ progress'[k].facts = NoFacts
                     /\ progress'[k].version = receipts[k] /\ progress'[k].cancel = cancelRequested[k]
                          /\ progress'[k].acked => known[k] = FactsOf(k)
  BY <1>3 DEF FactInv, Changed
<1> QED
  BY <1>1, <1>2, <1>4, <1>5, OutboxTables

(* A reply of the global object is what makes a row acknowledged. *)
LEMMA ReplyTables ==
  ASSUME TableInv, NEW m \in Messages, NEW well \in BOOLEAN, well => ReplyInv(m),
         progress' = [progress EXCEPT ![m.job].acked =
           @ \/ (well /\ m.method = "progress" /\ progress[m.job].facts = m.facts)],
         receipt' = [receipt EXCEPT ![m.job] = IF well /\ m.method = "complete" THEN "acknowledged" ELSE @],
         UNCHANGED <<queueVars, dispatchVars, effectVars>>
  PROVE  TableInv' /\ Advance
<1>1. PICK j \in Job : j = m.job
  BY DEF Messages
<1>2. /\ progress \in [Job -> ProgressRows] /\ receipt \in [Job -> {"none", "saved", "acknowledged"}]
  BY TablesTyped DEF TableTypes
<1>3. PICK row \in ProgressRows : row = progress[j]
  BY <1>2
<1>4. PICK b \in BOOLEAN : b = (row.acked \/ (well /\ m.method = "progress" /\ row.facts = m.facts))
  BY DEF ProgressRows
<1>5. PICK r : r = [row EXCEPT !.acked = b]
  OBVIOUS
<1>6. /\ r \in ProgressRows /\ r.version = row.version /\ r.cancel = row.cancel /\ r.facts = row.facts
      /\ r.acked = b
  BY <1>5 DEF ProgressRows
<1>7. progress' = [progress EXCEPT ![j] = r]
  BY <1>1, <1>2, <1>3, <1>4, <1>5
<1>8. /\ progress' \in [Job -> ProgressRows] /\ progress'[j] = r
      /\ \A k \in Job : k # j => progress'[k] = progress[k]
  BY <1>2, <1>6, <1>7
<1>9. /\ receipt' \in [Job -> {"none", "saved", "acknowledged"}]
      /\ \A k \in Job : k # j => receipt'[k] = receipt[k]
      /\ receipt'[j] = IF well /\ m.method = "complete" THEN "acknowledged" ELSE receipt[j]
  BY <1>1, <1>2
<1>10. \A k \in Job : LinkInv(k) /\ FactInv(k)
  BY DEF TableInv
<1>11. ASSUME r.version = receipts[j], r.cancel = cancelRequested[j], r.acked PROVE known[j] = FactsOf(j)
  <2>1. ~Changed(j) /\ row.facts = FactsOf(j)
    BY <1>3, <1>6, <1>10, <1>11 DEF Changed, FactInv, RowInv
  <2>2. CASE row.acked
    BY <1>3, <1>10, <2>1, <2>2 DEF FactInv
  <2>3. CASE ~row.acked
    <3>1. well /\ m.method = "progress" /\ m.facts = FactsOf(j)
      BY <1>4, <1>6, <1>11, <2>1, <2>3
    <3>2. \A o \in Ordinal : FactsOf(j)[o] # "none" => FactsOf(j)[o] \in facts[j][o]
      BY <1>1, <3>1 DEF ReplyInv
    <3> QED
      BY <3>2, RecordedIsKnown
  <2> QED
    BY <2>2, <2>3
<1>12. ASSUME NEW k \in Job
       PROVE  /\ RowInv(k, progress'[k])
              /\ ~Here(k) => progress'[k].version = -1 /\ ~progress'[k].cancel /\ progress'[k].facts = NoFacts
              /\ progress'[k].version = receipts[k] /\ progress'[k].cancel = cancelRequested[k]
                   /\ progress'[k].acked => known[k] = FactsOf(k)
              /\ receipt'[k] # "none" => jobState[k] \in Over
              /\ receipt'[k] = "acknowledged" => state[k] = "terminal"
  <2>1. CASE k # j
    <3>1. progress'[k] = progress[k] /\ receipt'[k] = receipt[k]
      BY <1>8, <1>9, <2>1
    <3>2. (receipt[k] # "none" => jobState[k] \in Over) /\ (receipt[k] = "acknowledged" => state[k] = "terminal")
      BY <1>10 DEF LinkInv
    <3>3. /\ RowInv(k, progress[k])
          /\ ~Here(k) => progress[k].version = -1 /\ ~progress[k].cancel /\ progress[k].facts = NoFacts
          /\ progress[k].version = receipts[k] /\ progress[k].cancel = cancelRequested[k]
               /\ progress[k].acked => known[k] = FactsOf(k)
      BY <1>10 DEF FactInv, Changed
    <3> QED
      BY <3>1, <3>2, <3>3
  <2>2. CASE k = j
    <3>1. RowInv(j, r)
      BY <1>3, <1>6, <1>10 DEF FactInv, RowInv
    <3>2. ~Here(j) => r.version = -1 /\ ~r.cancel /\ r.facts = NoFacts
      BY <1>3, <1>6, <1>10 DEF FactInv
    <3>3. well /\ m.method = "complete" => state[j] = "terminal"
      BY <1>1 DEF ReplyInv
    <3>4. (receipt'[j] # "none" => jobState[j] \in Over) /\ (receipt'[j] = "acknowledged" => state[j] = "terminal")
      BY <1>9, <1>10, <3>3 DEF LinkInv
    <3> QED
      BY <1>8, <1>11, <2>2, <3>1, <3>2, <3>4
  <2> QED
    BY <2>1, <2>2
<1> QED
  BY <1>8, <1>9, <1>12, OutboxTables

-----------------------------------------------------------------------------
(* The messages and the passes. *)
CoordInv == TableInv /\ PassesInv /\ NetInv

LEMMA Nodes == Global \in Node /\ Account \subseteq Node /\ \A j \in Job : Owner[j] \in Node /\ Owner[j] # Global
BY GlobalAssumption, QueueAssumption DEF Node

LEMMA CallKept ==
  ASSUME Advance, NEW c, CallInv(c), c.from = Global => pass'[Global].at # "idle"
  PROVE  CallInv(c)'
<1>1. c \in Callers /\ c.msg \in Messages /\ MessageInv(c.msg)
  BY DEF CallInv, Callers
<1>2. MessageInv(c.msg)' /\ (c.reply = "ok" => ReplyInv(c.msg)')
  BY <1>1, MessageKept, ReplyKept DEF CallInv
<1> QED
  BY <1>1, <1>2 DEF CallInv

LEMMA NetKept ==
  ASSUME NetInv, Advance
  PROVE  /\ \A m \in late : MessageInv(m)'
         /\ \A c \in calls : /\ MessageInv(c.msg)'
                             /\ c.from # Global \/ pass'[Global].at # "idle" => CallInv(c)'
<1>1. \A m \in late : MessageInv(m)'
  BY MessageKept DEF NetInv
<1>2. \A c \in calls : MessageInv(c.msg)'
  BY MessageKept DEF NetInv, CallInv
<1>3. ASSUME NEW c \in calls, c.from # Global \/ pass'[Global].at # "idle" PROVE CallInv(c)'
  BY <1>3, CallKept DEF NetInv
<1> QED
  BY <1>1, <1>2, <1>3

(* Alarms that are set stay set. *)
Armed == /\ armed' \in [Node -> BOOLEAN] /\ failures' \in [Node -> 0..Budget]
         /\ \A n \in Node : armed[n] => armed'[n]

LEMMA WakeArms ==
  ASSUME PassTypes, NEW n \in Node, Wake(n)
  PROVE  Armed /\ armed'[n]
<1>1. 0 \in 0..Budget
  BY BudgetAssumption
<1> QED
  BY <1>1 DEF Wake, Armed, PassTypes

LEMMA QuietArms ==
  ASSUME PassTypes, UNCHANGED alarmVars
  PROVE  Armed
BY DEF alarmVars, Armed, PassTypes

(* The pass of an object goes on as it was. *)
LEMMA NodeSame ==
  ASSUME TableInv, TableInv', PassesInv, Advance, NEW n \in Node, pass'[n] = pass[n],
         pass[n].at # "idle" => armed'[n], n # Global => draft'[n] = draft[n]
  PROVE  PassInv(n)'
<1>1. PassInv(n) /\ (n # Global => n \in Account)
  BY DEF PassesInv, Node
<1>2. QueueTypes /\ QueueTypes'
  BY QueueTyped, QueueTypedNext DEF TableInv
<1>3. ASSUME n # Global, pass[n].at = "writing" PROVE DraftInv(n)'
  <2>1. n \in Account /\ draft[n] \in Drafts /\ DraftInv(n) /\ draft'[n] = draft[n]
    BY <1>1, <1>3 DEF PassesInv, PassTypes, PassInv
  <2> QED
    BY <1>2, <2>1, DraftKept
<1> QED
  BY <1>1, <1>3 DEF PassInv

LEMMA NodeKept ==
  ASSUME TableInv, TableInv', PassesInv, Advance, Armed, NEW n \in Node, pass'[n] = pass[n],
         n # Global => draft'[n] = draft[n]
  PROVE  PassInv(n)'
<1>1. pass[n].at # "idle" => armed'[n]
  BY DEF PassesInv, PassInv, Armed
<1> QED
  BY <1>1, NodeSame

LEMMA QuietPasses ==
  ASSUME TableInv, TableInv', PassesInv, Advance, Armed, UNCHANGED <<pass, draft, todo, modeVars>>,
         wrote' \subseteq Step, faults' \in 0..MaxFaults
  PROVE  PassesInv'
<1>1. UNCHANGED <<pass, draft, todo, maintenance, toggles>>
  BY DEF modeVars
<1>2. ASSUME NEW n \in Node PROVE PassInv(n)'
  BY <1>1, <1>2, NodeKept
<1>3. PassTypes'
  BY <1>1 DEF PassesInv, PassTypes, Armed
<1> QED
  BY <1>2, <1>3 DEF PassesInv

LEMMA PassAt ==
  ASSUME NEW p \in Passes, NEW at \in Places
  PROVE  \E q \in Passes : q = [p EXCEPT !.at = at] /\ q.at = at
<1>1. [p EXCEPT !.at = at] \in Passes
  BY DEF Passes
<1>2. [p EXCEPT !.at = at].at = at
  BY DEF Passes
<1> QED
  BY <1>1, <1>2

LEMMA Records ==
  /\ Resting \in Passes /\ Resting.at = "idle" /\ NoFacts \in [Ordinal -> FactStates]
  /\ NoProgress \in ProgressRows /\ NoDraft \in Drafts
<1>1. Resting \in Passes /\ Resting.at = "idle"
  BY DEF Resting, Passes, Places
<1>2. NoFacts \in [Ordinal -> FactStates]
  BY DEF NoFacts, FactStates
<1>3. NoProgress \in ProgressRows
  BY <1>2 DEF NoProgress, ProgressRows
<1> QED
  BY <1>1, <1>2, <1>3 DEF NoDraft, Drafts

LEMMA RestartPasses ==
  ASSUME TableInv, TableInv', PassesInv, Advance, Armed, NEW n \in Node, NEW waiting, Restart(n, waiting),
         UNCHANGED <<wrote, modeVars>>, faults' \in 0..MaxFaults
  PROVE  PassesInv' /\ (n # Global => pass'[Global] = pass[Global])
<1>1. /\ pass' = [pass EXCEPT ![n] = Resting] /\ draft' = [a \in Account |-> IF a = n THEN NoDraft ELSE draft[a]]
      /\ todo' = (IF n = Global THEN {} ELSE todo) /\ UNCHANGED <<maintenance, toggles>>
  BY DEF Restart, modeVars
<1>2. pass \in [Node -> Passes] /\ draft \in [Account -> Drafts] /\ wrote \subseteq Step
  BY DEF PassesInv, PassTypes
<1>3. /\ pass' \in [Node -> Passes] /\ pass'[n] = Resting /\ \A k \in Node : k # n => pass'[k] = pass[k]
      /\ draft' \in [Account -> Drafts]
  BY <1>1, <1>2, Records
<1>4. ASSUME NEW k \in Node PROVE PassInv(k)'
  <2>1. CASE k = n
    BY <1>3, <2>1, Records DEF PassInv
  <2>2. CASE k # n
    <3>1. k # Global => draft'[k] = draft[k]
      BY <1>1, <2>2 DEF Node
    <3> QED
      BY <1>3, <2>2, <3>1, NodeKept
  <2> QED
    BY <2>1, <2>2
<1>5. todo' # {} => pass'[Global].at # "idle"
  BY <1>1, <1>3, Nodes DEF PassesInv, PassTypes
<1>6. PassTypes'
  BY <1>1, <1>2, <1>3, <1>5 DEF PassesInv, PassTypes, Armed
<1> QED
  BY <1>3, <1>4, <1>6, Nodes DEF PassesInv

-----------------------------------------------------------------------------
(* The handlers. *)
LEMMA DeliverReceived ==
  ASSUME TableInv, PassTypes, NEW m, MessageInv(m), m.method = "deliver", NEW r, ReceiveDeliver(m, r),
         UNCHANGED outboxVars
  PROVE  TableInv' /\ Advance /\ Armed /\ (r = "ok" => ReplyInv(m)')
<1>1. PICK j \in Job : j = m.job
  BY DEF MessageInv, Messages
<1>2. PICK full \in BOOLEAN : full <=> Cardinality(Queue!Active(Owner[j])) >= MaxActive
  OBVIOUS
<1>3. /\ Wake(Owner[j])
      /\ r = IF jobState[j] = "absent" /\ full THEN "refused" ELSE "ok"
      /\ IF jobState[j] = "absent" /\ ~full
         THEN Queue!Enqueue(j, m.word = "cancelled")
         ELSE IF m.word = "cancelled" /\ jobState[j] \in Queue!Unfinished
         THEN Queue!CancelLocal(j)
         ELSE UNCHANGED queueVars
      /\ UNCHANGED <<dispatchVars, effectVars, outboxVars>>
  BY <1>1, <1>2 DEF ReceiveDeliver
<1>4. Armed
  BY <1>3, Nodes, WakeArms
<1>5. QP!QueueInv /\ Sent(j)
  BY <1>1 DEF TableInv, MessageInv
<1>6. Here(j)' => ReplyInv(m)'
  BY <1>1 DEF ReplyInv
<1>7. CASE jobState[j] = "absent" /\ ~full
  <2>1. PICK c \in BOOLEAN : c = (m.word = "cancelled")
    OBVIOUS
  <2>2. Queue!Enqueue(j, c)
    BY <1>3, <1>7, <2>1
  <2>3. QP!QueueInv' /\ ~Here(j) /\ Here(j)' /\ \A k \in Job : Moves(k) /\ (k # j => RowsKept(k))
    BY <1>5, <2>2, EnqueueMoves
  <2>4. TableInv' /\ Advance
    BY <1>3, <1>5, <2>3, QueueTables
  <2> QED
    BY <1>4, <1>6, <2>3, <2>4
<1>8. CASE ~(jobState[j] = "absent" /\ ~full) /\ m.word = "cancelled" /\ jobState[j] \in Queue!Unfinished
  <2>1. Queue!CancelLocal(j)
    BY <1>3, <1>8
  <2>2. QP!QueueInv' /\ Here(j) /\ \A k \in Job : Moves(k) /\ (k # j => RowsKept(k))
    BY <1>5, <2>1, CancelMoves
  <2>3. TableInv' /\ Advance
    BY <1>3, <1>8, <2>2, QueueTables
  <2>4. Here(j)'
    BY <2>2 DEF Moves
  <2> QED
    BY <1>4, <1>6, <2>3, <2>4
<1>9. CASE ~(jobState[j] = "absent" /\ ~full) /\ ~(m.word = "cancelled" /\ jobState[j] \in Queue!Unfinished)
  <2>1. UNCHANGED queueVars
    BY <1>3, <1>9
  <2>2. TableInv' /\ Advance
    BY <1>3, <2>1, QuietTables
  <2>3. r = "ok" => Here(j)'
    BY <1>3, <1>9, <2>1 DEF Here, queueVars
  <2> QED
    BY <1>4, <1>6, <2>2, <2>3
<1> QED
  BY <1>7, <1>8, <1>9

LEMMA CancelReceived ==
  ASSUME TableInv, PassTypes, NEW m, MessageInv(m), m.method = "cancel", NEW r, ReceiveCancel(m, r),
         UNCHANGED outboxVars
  PROVE  TableInv' /\ Advance /\ Armed /\ (r = "ok" => ReplyInv(m)')
<1>1. PICK j \in Job : j = m.job
  BY DEF MessageInv, Messages
<1>2. /\ r = IF jobState[j] = "absent" THEN "refused" ELSE "ok"
      /\ IF jobState[j] = "absent" THEN UNCHANGED alarmVars ELSE Wake(Owner[j])
      /\ IF jobState[j] \in Queue!Unfinished THEN Queue!CancelLocal(j) ELSE UNCHANGED queueVars
      /\ UNCHANGED <<dispatchVars, effectVars, outboxVars>>
  BY <1>1 DEF ReceiveCancel
<1>3. Armed
  BY <1>2, Nodes, WakeArms, QuietArms
<1>4. QP!QueueInv /\ QueueTypes
  BY TablesTyped DEF TableInv
<1>5. Here(j)' /\ (cancelRequested'[j] \/ jobState'[j] \in Over) => ReplyInv(m)'
  BY <1>1 DEF ReplyInv
<1>6. CASE jobState[j] \in Queue!Unfinished
  <2>1. Queue!CancelLocal(j)
    BY <1>2, <1>6
  <2>2. /\ QP!QueueInv' /\ Here(j) /\ cancelRequested'[j]
        /\ \A k \in Job : Moves(k) /\ (k # j => RowsKept(k))
    BY <1>4, <2>1, CancelMoves
  <2>3. TableInv' /\ Advance
    BY <1>2, <1>6, <2>2, QueueTables
  <2>4. Here(j)'
    BY <2>2 DEF Moves
  <2> QED
    BY <1>3, <1>5, <2>2, <2>3, <2>4
<1>7. CASE jobState[j] \notin Queue!Unfinished
  <2>1. UNCHANGED queueVars
    BY <1>2, <1>7
  <2>2. TableInv' /\ Advance
    BY <1>2, <2>1, QuietTables
  <2>3. r = "ok" => Here(j)' /\ jobState'[j] \in Over
    BY <1>2, <1>4, <1>7, <2>1 DEF Here, queueVars, QueueTypes, Queue!Unfinished
  <2> QED
    BY <1>3, <1>5, <2>2, <2>3
<1> QED
  BY <1>6, <1>7

LEMMA ProgressReceived ==
  ASSUME TableInv, PassTypes, NEW m, MessageInv(m), m.method = "progress", NEW r, ReceiveProgress(m, r),
         UNCHANGED outboxVars
  PROVE  TableInv' /\ Advance /\ Armed /\ (r = "ok" => ReplyInv(m)')
<1>1. UNCHANGED <<queueVars, dispatchVars, outboxVars, alarmVars>> /\ Armed
  BY QuietArms DEF ReceiveProgress
<1>2. CASE Acceptable(m)
  <2>1. /\ known' = [known EXCEPT ![m.job] = Merged(m)]
        /\ facts' = [facts EXCEPT ![m.job] = [o \in Ordinal |->
                       IF o \in Fresh(m) THEN @[o] \union {m.facts[o]} ELSE @[o]]]
    BY <1>2 DEF ReceiveProgress
  <2> QED
    BY <1>1, <1>2, <2>1, ProgressTables
<1>3. CASE ~Acceptable(m)
  <2>1. UNCHANGED effectVars /\ r = "refused"
    BY <1>3 DEF ReceiveProgress
  <2> QED
    BY <1>1, <2>1, QuietTables
<1> QED
  BY <1>2, <1>3

LEMMA CompleteReceived ==
  ASSUME TableInv, PassTypes, NEW m, MessageInv(m), m.method = "complete", NEW r, ReceiveComplete(m, r),
         UNCHANGED outboxVars
  PROVE  TableInv' /\ Advance /\ Armed /\ (r = "ok" => ReplyInv(m)')
<1>1. PICK j \in Job : j = m.job
  BY DEF MessageInv, Messages
<1>2. PICK ok \in BOOLEAN : ok <=> /\ AllFactsKnown(j, m.word)
                                   /\ \/ state[j] \in Outbox!Holding
                                      \/ state[j] = "terminal" /\ outcome[j] = m.word
  OBVIOUS
<1>3. /\ Wake(Global) /\ r = (IF ok THEN "ok" ELSE "refused")
      /\ IF ok /\ state[j] # "terminal" THEN Outbox!Complete(j, permit[j], m.word) ELSE UNCHANGED dispatchVars
      /\ UNCHANGED <<queueVars, effectVars, outboxVars>>
  BY <1>1, <1>2 DEF ReceiveComplete
<1>4. Armed
  BY <1>3, Nodes, WakeArms
<1>5. m.word = jobState[j] /\ jobState[j] \in Over
  BY <1>1 DEF MessageInv
<1>6. state'[j] = "terminal" => ReplyInv(m)'
  BY <1>1 DEF ReplyInv
<1>7. CASE ok /\ state[j] # "terminal"
  <2>1. AllFactsKnown(j, jobState[j]) /\ Outbox!Complete(j, permit[j], jobState[j])
    BY <1>2, <1>3, <1>5, <1>7
  <2> QED
    BY <1>3, <1>4, <1>5, <1>6, <2>1, CompleteTables
<1>8. CASE ~(ok /\ state[j] # "terminal")
  <2>1. UNCHANGED dispatchVars
    BY <1>3, <1>8
  <2>2. TableInv' /\ Advance
    BY <1>3, <2>1, QuietTables
  <2>3. r = "ok" => state'[j] = "terminal"
    BY <1>3, <1>8, <2>1 DEF dispatchVars
  <2> QED
    BY <1>4, <1>6, <2>2, <2>3
<1> QED
  BY <1>7, <1>8

LEMMA Received ==
  ASSUME TableInv, PassTypes, NEW m, MessageInv(m), NEW r, Receive(m, r), UNCHANGED outboxVars
  PROVE  TableInv' /\ Advance /\ Armed /\ (r = "ok" => ReplyInv(m)')
BY DeliverReceived, CancelReceived, ProgressReceived, CompleteReceived DEF Receive

(* The pass of one object goes on. *)
LEMMA PassChanges ==
  ASSUME TableInv, TableInv', PassesInv, Advance, Armed, NEW n \in Node, NEW p \in Passes,
         pass' = [pass EXCEPT ![n] = p],
         p.at # "idle" => armed'[n], p.at = "executing" => p.step \in Step /\ Owner[p.step[1]] = n,
         n # Global /\ p.at = "writing" => DraftInv(n)',
         draft' \in [Account -> Drafts], \A a \in Account : a # n => draft'[a] = draft[a],
         todo' \in SUBSET [job : Job, request : Nat],
         IF n = Global THEN todo' # {} => p.at # "idle" ELSE UNCHANGED todo,
         wrote' \subseteq Step, faults' \in 0..MaxFaults, UNCHANGED modeVars
  PROVE  PassesInv' /\ (n # Global => pass'[Global] = pass[Global])
<1>1. pass \in [Node -> Passes] /\ UNCHANGED <<maintenance, toggles>>
  BY DEF PassesInv, PassTypes, modeVars
<1>2. pass' \in [Node -> Passes] /\ pass'[n] = p /\ \A k \in Node : k # n => pass'[k] = pass[k]
  BY <1>1
<1>3. ASSUME NEW k \in Node PROVE PassInv(k)'
  <2>1. CASE k = n
    BY <1>2, <2>1 DEF PassInv
  <2>2. CASE k # n
    <3>1. k # Global => draft'[k] = draft[k]
      BY <2>2 DEF Node
    <3> QED
      BY <1>2, <2>2, <3>1, NodeKept
  <2> QED
    BY <2>1, <2>2
<1>4. todo' # {} => pass'[Global].at # "idle"
  BY <1>2, Nodes DEF PassesInv, PassTypes
<1>5. PassTypes'
  BY <1>1, <1>2, <1>4 DEF PassesInv, PassTypes, Armed
<1> QED
  BY <1>2, <1>3, <1>5, Nodes DEF PassesInv

LEMMA EndArms ==
  ASSUME PassTypes, NEW n \in Node, NEW well, EndPass(n, well)
  PROVE  Armed /\ UNCHANGED armed
<1>1. 0 \in 0..Budget
  BY BudgetAssumption
<1> QED
  BY <1>1 DEF EndPass, Armed, PassTypes

LEMMA EndPasses ==
  ASSUME TableInv, TableInv', PassesInv, Advance, NEW n \in Node, NEW well, EndPass(n, well),
         n # Global \/ todo = {}, UNCHANGED <<draft, todo, wrote, modeVars>>, faults' \in 0..MaxFaults
  PROVE  PassesInv' /\ (n # Global => pass'[Global] = pass[Global])
<1>1. Armed /\ pass' = [pass EXCEPT ![n] = Resting] /\ UNCHANGED <<draft, todo, wrote, modeVars>>
  BY EndArms DEF EndPass, PassesInv
<1>2. draft \in [Account -> Drafts] /\ todo \in SUBSET [job : Job, request : Nat] /\ wrote \subseteq Step
  BY DEF PassesInv, PassTypes
<1>3. Resting \in Passes /\ Resting.at = "idle"
  BY Records
<1> QED
  BY <1>1, <1>2, <1>3, PassChanges

(* What becomes of the messages. *)
LEMMA NetLater ==
  ASSUME NetInv, Advance, \A m \in late' : m \in late \/ \E c \in calls : m = c.msg,
         \A c \in calls' : (c \in calls /\ (c.from = Global => pass'[Global].at # "idle")) \/ CallInv(c)'
  PROVE  NetInv'
<1>1. ASSUME NEW m \in late' PROVE MessageInv(m)'
  BY <1>1, NetKept
<1>2. ASSUME NEW c \in calls' PROVE CallInv(c)'
  BY <1>2, NetKept
<1> QED
  BY <1>1, <1>2 DEF NetInv

LEMMA NetQuiet ==
  ASSUME NetInv, Advance, pass'[Global] = pass[Global], late' \subseteq late, calls' \subseteq calls
  PROVE  NetInv'
<1>1. \A c \in calls : c.from = Global => pass'[Global].at # "idle"
  BY DEF NetInv, CallInv
<1> QED
  BY <1>1, NetLater

LEMMA AnswerKept ==
  ASSUME Advance, NEW c, CallInv(c), NEW r \in {"ok", "refused"}, r = "ok" => ReplyInv(c.msg)',
         c.from = Global => pass'[Global].at # "idle", NEW k, k = [c EXCEPT !.reply = r]
  PROVE  CallInv(k)'
<1>1. /\ k \in Callers /\ k.msg = c.msg /\ k.from = c.from /\ k.reply = r
  BY DEF CallInv, Callers
<1>2. CallInv(c)'
  BY CallKept
<1>3. MessageInv(c.msg)' /\ (c.from = Global <=> c.msg.method \in {"deliver", "cancel"})
      /\ (c.from # Global => Owner[c.msg.job] = c.from)
  BY <1>2 DEF CallInv
<1> QED
  BY <1>1, <1>3 DEF CallInv

LEMMA Callees ==
  ASSUME NEW m \in Messages
  PROVE  Callee(m) \in Node /\ (m.method \in {"deliver", "cancel"} <=> Callee(m) # Global)
BY Nodes DEF Callee, Messages

LEMMA ServeInv ==
  ASSUME CoordInv, NEW c \in calls, Serve(c)
  PROVE  CoordInv'
<1>1. PICK r \in {"ok", "refused"} :
        /\ Receive(c.msg, r)
        /\ LET n == Callee(c.msg)  answered == [c EXCEPT !.reply = r]
           IN  \/ /\ calls' = (calls \ {c}) \union {answered}
                  /\ UNCHANGED <<passVars, late>>
               \/ /\ Throws(c.msg, r)
                  /\ Restart(n, late)
                  /\ calls' = (calls \ ({c} \union Calls(n))) \union {answered}
  BY DEF Serve
<1>2. UNCHANGED <<modeVars, outboxVars, wrote, faults>>
  BY DEF Serve
<1>3. TableInv /\ PassesInv /\ NetInv /\ PassTypes /\ CallInv(c) /\ MessageInv(c.msg) /\ c.msg \in Messages
  BY DEF CoordInv, PassesInv, NetInv, CallInv, MessageInv
<1>4. TableInv' /\ Advance /\ Armed /\ (r = "ok" => ReplyInv(c.msg)')
  BY <1>1, <1>2, <1>3, Received
<1>5. wrote' \subseteq Step /\ faults' \in 0..MaxFaults
  BY <1>2, <1>3 DEF PassTypes
<1>6. PICK k : k = [c EXCEPT !.reply = r]
  OBVIOUS
<1>7. \A b \in calls : b.from = Global => pass[Global].at # "idle"
  BY <1>3 DEF NetInv, CallInv
<1>8. CASE calls' = (calls \ {c}) \union {k} /\ UNCHANGED <<passVars, late>>
  <2>1. UNCHANGED <<pass, draft, todo>>
    BY <1>8 DEF passVars
  <2>2. PassesInv'
    BY <1>2, <1>3, <1>4, <1>5, <2>1, QuietPasses
  <2>3. CallInv(k)'
    BY <1>3, <1>4, <1>6, <1>7, <2>1, AnswerKept
  <2>4. NetInv'
    BY <1>3, <1>4, <1>7, <1>8, <2>1, <2>3, NetLater
  <2> QED
    BY <1>4, <2>2, <2>4 DEF CoordInv
<1>9. CASE Restart(Callee(c.msg), late) /\ calls' = (calls \ ({c} \union Calls(Callee(c.msg)))) \union {k}
  <2>1. PICK n \in Node : n = Callee(c.msg) /\ (c.msg.method \in {"deliver", "cancel"} <=> n # Global)
    BY <1>3, Callees
  <2>2. Restart(n, late) /\ calls' = (calls \ ({c} \union Calls(n))) \union {k}
    BY <1>9, <2>1
  <2>3. PassesInv' /\ (n # Global => pass'[Global] = pass[Global])
    BY <1>2, <1>3, <1>4, <1>5, <2>2, RestartPasses
  <2>4. c.from = Global => pass'[Global].at # "idle"
    BY <1>3, <1>7, <2>1, <2>3 DEF CallInv
  <2>5. CallInv(k)'
    BY <1>3, <1>4, <1>6, <2>4, AnswerKept
  <2>6. \A b \in calls : b \notin Calls(n) => (b.from = Global => pass'[Global].at # "idle")
    BY <1>7, <2>3 DEF Calls
  <2>7. \A m \in late' : m \in late \/ \E b \in calls : m = b.msg
    BY <2>2 DEF Restart, Calls
  <2>8. NetInv'
    BY <1>3, <1>4, <2>2, <2>5, <2>6, <2>7, NetLater
  <2> QED
    BY <1>4, <2>3, <2>8 DEF CoordInv
<1> QED
  BY <1>1, <1>6, <1>8, <1>9

LEMMA ServeLateInv ==
  ASSUME CoordInv, NEW m \in late, ServeLate(m)
  PROVE  CoordInv'
<1>1. PICK r \in {"ok", "refused"} :
        /\ Receive(m, r)
        /\ \/ late' = late \ {m} /\ UNCHANGED <<passVars, calls>>
           \/ /\ Throws(m, r)
              /\ Restart(Callee(m), late \ {m})
              /\ calls' = calls \ Calls(Callee(m))
  BY DEF ServeLate
<1>2. UNCHANGED <<modeVars, outboxVars, wrote, faults>>
  BY DEF ServeLate
<1>3. TableInv /\ PassesInv /\ NetInv /\ PassTypes /\ MessageInv(m) /\ m \in Messages
  BY DEF CoordInv, PassesInv, NetInv, MessageInv
<1>4. TableInv' /\ Advance /\ Armed
  BY <1>1, <1>2, <1>3, Received
<1>5. wrote' \subseteq Step /\ faults' \in 0..MaxFaults
  BY <1>2, <1>3 DEF PassTypes
<1>6. CASE late' = late \ {m} /\ UNCHANGED <<passVars, calls>>
  <2>1. UNCHANGED <<pass, draft, todo>>
    BY <1>6 DEF passVars
  <2>2. PassesInv'
    BY <1>2, <1>3, <1>4, <1>5, <2>1, QuietPasses
  <2>3. NetInv'
    BY <1>3, <1>4, <1>6, <2>1, NetQuiet
  <2> QED
    BY <1>4, <2>2, <2>3 DEF CoordInv
<1>7. CASE Restart(Callee(m), late \ {m}) /\ calls' = calls \ Calls(Callee(m))
  <2>1. PICK n \in Node : n = Callee(m)
    BY <1>3, Callees
  <2>2. Restart(n, late \ {m}) /\ calls' = calls \ Calls(n)
    BY <1>7, <2>1
  <2>3. PassesInv' /\ (n # Global => pass'[Global] = pass[Global])
    BY <1>2, <1>3, <1>4, <1>5, <2>2, RestartPasses
  <2>4. \A b \in calls : b \notin Calls(n) => (b.from = Global => pass'[Global].at # "idle")
    BY <1>3, <2>3 DEF Calls, NetInv, CallInv
  <2>5. \A w \in late' : w \in late \/ \E b \in calls : w = b.msg
    BY <2>2 DEF Restart, Calls
  <2>6. NetInv'
    BY <1>3, <1>4, <2>2, <2>4, <2>5, NetLater
  <2> QED
    BY <1>4, <2>3, <2>6 DEF CoordInv
<1> QED
  BY <1>1, <1>6, <1>7

LEMMA CrashInv ==
  ASSUME CoordInv, NEW n \in Node, Crash(n)
  PROVE  CoordInv'
<1>1. /\ Restart(n, late) /\ calls' = calls \ Calls(n) /\ faults < MaxFaults /\ faults' = faults + 1
      /\ UNCHANGED <<queueVars, dispatchVars, effectVars, outboxVars, alarmVars>>
      /\ UNCHANGED <<wrote, modeVars>>
  BY DEF Crash
<1>2. TableInv /\ PassesInv /\ NetInv /\ PassTypes
  BY DEF CoordInv, PassesInv
<1>3. TableInv' /\ Advance
  BY <1>1, <1>2, QuietTables
<1>4. Armed
  BY <1>1, <1>2, QuietArms
<1>5. faults' \in 0..MaxFaults
  BY <1>1, <1>2, BudgetAssumption DEF PassTypes
<1>6. PassesInv' /\ (n # Global => pass'[Global] = pass[Global])
  BY <1>1, <1>2, <1>3, <1>4, <1>5, RestartPasses
<1>7. \A b \in calls : b \notin Calls(n) => (b.from = Global => pass'[Global].at # "idle")
  BY <1>2, <1>6 DEF Calls, NetInv, CallInv
<1>8. \A w \in late' : w \in late \/ \E b \in calls : w = b.msg
  BY <1>1 DEF Restart, Calls
<1>9. NetInv'
  BY <1>1, <1>2, <1>3, <1>7, <1>8, NetLater
<1> QED
  BY <1>3, <1>6, <1>9 DEF CoordInv

LEMMA GlobalResumeTables ==
  ASSUME TableInv, NEW c, CallInv(c), c.from = Global, NEW well \in BOOLEAN, well => ReplyInv(c.msg),
         GlobalResume(c, well), UNCHANGED <<queueVars, effectVars>>
  PROVE  TableInv' /\ Advance
<1>1. PICK j \in Job : j = c.msg.job
  BY DEF CallInv, Callers, Messages
<1>2. /\ IF ~well THEN UNCHANGED dispatchVars
         ELSE IF c.msg.method = "cancel" THEN Outbox!AcknowledgeCancel(j, permit[j])
         ELSE IF c.request > 0 THEN Outbox!AcknowledgeWake(j, permit[j], c.request)
         ELSE IF state[j] = "sending" THEN Outbox!Acknowledge(j, permit[j])
         ELSE UNCHANGED dispatchVars
      /\ UNCHANGED outboxVars
  BY <1>1 DEF GlobalResume
<1>3. c.msg.method \in {"deliver", "cancel"}
  BY DEF CallInv
<1>4. CASE UNCHANGED dispatchVars
  BY <1>2, <1>4, QuietTables
<1>5. CASE well /\ c.msg.method = "cancel"
  <2>1. Here(j) /\ (cancelRequested[j] \/ jobState[j] \in Over)
    BY <1>1, <1>5 DEF ReplyInv
  <2>2. Outbox!AcknowledgeCancel(j, permit[j])
    BY <1>2, <1>5
  <2> QED
    BY <1>2, <2>1, <2>2, AcknowledgeCancelTables
<1>6. CASE well /\ c.msg.method # "cancel" /\ c.request > 0
  <2>1. Outbox!AcknowledgeWake(j, permit[j], c.request)
    BY <1>2, <1>6
  <2> QED
    BY <1>2, <2>1, AcknowledgeWakeTables
<1>7. CASE well /\ c.msg.method # "cancel" /\ ~(c.request > 0) /\ state[j] = "sending"
  <2>1. Here(j)
    BY <1>1, <1>3, <1>7 DEF ReplyInv
  <2>2. Outbox!Acknowledge(j, permit[j])
    BY <1>2, <1>7
  <2> QED
    BY <1>2, <2>1, <2>2, AcknowledgeTables
<1> QED
  BY <1>2, <1>4, <1>5, <1>6, <1>7

LEMMA ResumeInv ==
  ASSUME CoordInv, NEW c \in calls, NEW well \in BOOLEAN, well => ReplyInv(c.msg), Resume(c, well),
         faults' \in 0..MaxFaults, \A m \in late' : m \in late \/ m = c.msg
  PROVE  CoordInv'
<1>1. TableInv /\ PassesInv /\ NetInv /\ PassTypes /\ CallInv(c) /\ c.msg \in Messages
  BY DEF CoordInv, PassesInv, NetInv, CallInv, MessageInv
<1>2. /\ UNCHANGED <<queueVars, effectVars>> /\ UNCHANGED <<draft, todo>> /\ UNCHANGED <<wrote, modeVars>>
      /\ calls' = calls \ {c}
  BY DEF Resume
<1>3. wrote' \subseteq Step
  BY <1>1, <1>2 DEF PassTypes
<1>4. \A b \in calls : b.from = Global => pass[Global].at # "idle"
  BY <1>1 DEF NetInv, CallInv
<1>5. /\ TableInv' /\ Advance /\ PassesInv' /\ pass'[Global] = pass[Global]
  <2>1. CASE c.from = Global
    <3>1. GlobalResume(c, well)
      BY <2>1 DEF Resume
    <3>2. TableInv' /\ Advance
      BY <1>1, <1>2, <2>1, <3>1, GlobalResumeTables
    <3>3. UNCHANGED <<alarmVars, pass>>
      BY <3>1 DEF GlobalResume
    <3>4. Armed
      BY <1>1, <3>3, QuietArms
    <3>5. PassesInv'
      BY <1>1, <1>2, <1>3, <3>2, <3>3, <3>4, QuietPasses
    <3> QED
      BY <3>2, <3>3, <3>5
  <2>2. CASE c.from # Global
    <3>1. AccountResume(c, well)
      BY <2>2 DEF Resume
    <3>2. /\ progress' = [progress EXCEPT ![c.msg.job].acked =
                @ \/ (well /\ c.msg.method = "progress" /\ progress[c.msg.job].facts = c.msg.facts)]
          /\ receipt' = [receipt EXCEPT ![c.msg.job] = IF well /\ c.msg.method = "complete" THEN "acknowledged" ELSE @]
          /\ UNCHANGED dispatchVars
          /\ IF well THEN UNCHANGED <<alarmVars, pass>> ELSE EndPass(c.from, FALSE)
      BY <3>1 DEF AccountResume
    <3>3. TableInv' /\ Advance
      BY <1>1, <1>2, <3>2, ReplyTables
    <3>4. PICK n \in Node : n = c.from /\ n # Global
      BY <1>1, <2>2 DEF CallInv, Callers
    <3>5. CASE well
      <4>1. UNCHANGED <<alarmVars, pass>>
        BY <3>2, <3>5
      <4>2. Armed
        BY <1>1, <4>1, QuietArms
      <4>3. PassesInv'
        BY <1>1, <1>2, <1>3, <3>3, <4>1, <4>2, QuietPasses
      <4> QED
        BY <3>3, <4>1, <4>3
    <3>6. CASE ~well
      <4>1. EndPass(n, FALSE)
        BY <3>2, <3>4, <3>6
      <4>2. PassesInv' /\ pass'[Global] = pass[Global]
        BY <1>1, <1>2, <3>3, <3>4, <4>1, EndPasses
      <4> QED
        BY <3>3, <4>2
    <3> QED
      BY <3>5, <3>6
  <2> QED
    BY <2>1, <2>2
<1>6. NetInv'
  BY <1>1, <1>2, <1>4, <1>5, NetLater
<1> QED
  BY <1>5, <1>6 DEF CoordInv

LEMMA ReturnInv ==
  ASSUME CoordInv, NEW c \in calls, Return(c)
  PROVE  CoordInv'
<1>1. PICK well \in BOOLEAN : well <=> c.reply = "ok"
  OBVIOUS
<1>2. Resume(c, well) /\ UNCHANGED <<late, faults>>
  BY <1>1 DEF Return
<1>3. faults' \in 0..MaxFaults
  BY <1>2 DEF CoordInv, PassesInv, PassTypes
<1>4. well => ReplyInv(c.msg)
  BY <1>1 DEF CoordInv, NetInv, CallInv
<1> QED
  BY <1>2, <1>3, <1>4, ResumeInv

LEMMA GiveUpInv ==
  ASSUME CoordInv, NEW c \in calls, GiveUp(c)
  PROVE  CoordInv'
<1>1. Resume(c, FALSE) /\ late' = late \union {c.msg} /\ faults < MaxFaults /\ faults' = faults + 1
  BY DEF GiveUp
<1>2. faults' \in 0..MaxFaults
  BY <1>1, BudgetAssumption DEF CoordInv, PassesInv, PassTypes
<1> QED
  BY <1>1, <1>2, ResumeInv

-----------------------------------------------------------------------------
(* Users and operators. *)
LEMMA WokenInv ==
  ASSUME CoordInv, TableInv', Advance, Wake(Global), UNCHANGED <<wrote, modeVars, passVars, netVars>>
  PROVE  CoordInv'
<1>1. TableInv /\ PassesInv /\ NetInv /\ PassTypes
  BY DEF CoordInv, PassesInv
<1>2. Armed
  BY <1>1, Nodes, WakeArms
<1>3. UNCHANGED <<pass, draft, todo, modeVars, wrote, calls, late, faults>>
  BY DEF passVars, netVars
<1>4. wrote' \subseteq Step /\ faults' \in 0..MaxFaults
  BY <1>1, <1>3 DEF PassTypes
<1>5. PassesInv'
  BY <1>1, <1>2, <1>3, <1>4, QuietPasses
<1>6. NetInv'
  BY <1>1, <1>3, NetQuiet
<1> QED
  BY <1>5, <1>6 DEF CoordInv

LEMMA RequestsInv ==
  ASSUME CoordInv, NEW t \in Task, Submit(t) \/ RequestWake(t) \/ RequestCancel(t)
  PROVE  CoordInv'
<1>1. TableInv
  BY DEF CoordInv
<1>2. TableInv' /\ Advance
  <2>1. CASE Submit(t)
    BY <1>1, <2>1, SubmitTables DEF Submit
  <2>2. CASE RequestWake(t)
    BY <1>1, <2>2, WakeTables DEF RequestWake
  <2>3. CASE RequestCancel(t)
    BY <1>1, <2>3, CancelTables DEF RequestCancel
  <2> QED
    BY <2>1, <2>2, <2>3
<1>3. Wake(Global) /\ UNCHANGED <<wrote, modeVars, passVars, netVars>>
  BY DEF Submit, RequestWake, RequestCancel
<1> QED
  BY <1>2, <1>3, WokenInv

LEMMA ToggleInv ==
  ASSUME CoordInv, ToggleMaintenance
  PROVE  CoordInv'
<1>1. TableInv /\ PassesInv /\ NetInv /\ PassTypes
  BY DEF CoordInv, PassesInv
<1>2. TableInv' /\ Advance
  BY <1>1, QuietTables DEF ToggleMaintenance
<1>3. /\ UNCHANGED alarmVars /\ UNCHANGED <<pass, draft, todo, wrote, calls, late, faults>>
      /\ maintenance' = ~maintenance /\ toggles' = toggles + 1 /\ toggles < MaxToggles
  BY DEF ToggleMaintenance, passVars, netVars
<1>4. Armed
  BY <1>1, <1>3, QuietArms
<1>5. ASSUME NEW n \in Node PROVE PassInv(n)'
  BY <1>1, <1>2, <1>3, <1>4, <1>5, NodeKept
<1>6. toggles' \in 0..MaxToggles /\ toggles' # 0 /\ maintenance' \in BOOLEAN
  BY <1>1, <1>3, BudgetAssumption DEF PassTypes
<1>7. PassTypes'
  BY <1>1, <1>3, <1>4, <1>6 DEF PassTypes, Armed
<1>8. NetInv'
  BY <1>1, <1>2, <1>3, NetQuiet
<1> QED
  BY <1>2, <1>5, <1>7, <1>8 DEF CoordInv, PassesInv

(* Reconcile and Finish record a result of a step. *)
LEMMA RecordTables ==
  ASSUME TableInv, NEW s \in Step, NEW r \in {"verified", "failed", "unknown"}, NEW e \in Evidence,
         StateOf(s) \in {"in_flight", "unknown"}, Queue!Record(s[1], s[2], r, e),
         UNCHANGED <<dispatchVars, effectVars, outboxVars>>
  PROVE  TableInv' /\ Advance
<1>1. PICK j \in Job, o \in Ordinal : j = s[1] /\ o = s[2]
  BY DEF Step
<1>2. stepState[j][o] \in {"in_flight", "unknown"} /\ Queue!Record(j, o, r, e)
  BY <1>1 DEF StateOf
<1>3. QP!QueueInv' /\ jobState[j] \in Queue!Unfinished /\ \A k \in Job : Moves(k) /\ (k # j => RowsKept(k))
  BY <1>2, RecordMoves DEF TableInv
<1> QED
  BY <1>3, QueueTables

LEMMA CloseFailedInv ==
  ASSUME CoordInv, NEW s \in Step, CloseFailed(s)
  PROVE  CoordInv'
<1>1. TableInv /\ PassesInv /\ NetInv /\ PassTypes
  BY DEF CoordInv, PassesInv
<1>2. PICK e \in Evidence : Queue!Reconcile(s[1], s[2], token[s[1]][s[2]], "failed", e)
  BY DEF CloseFailed
<1>3. Queue!Record(s[1], s[2], "failed", e) /\ StateOf(s) = "unknown"
  BY <1>2 DEF Queue!Reconcile, CloseFailed
<1>4. /\ UNCHANGED <<dispatchVars, effectVars, outboxVars>> /\ UNCHANGED alarmVars
      /\ UNCHANGED <<pass, draft, todo, modeVars, wrote, calls, late, faults>>
  BY DEF CloseFailed, passVars, netVars
<1>5. TableInv' /\ Advance
  BY <1>1, <1>3, <1>4, RecordTables
<1>6. Armed
  BY <1>1, <1>4, QuietArms
<1>7. wrote' \subseteq Step /\ faults' \in 0..MaxFaults
  BY <1>1, <1>4 DEF PassTypes
<1>8. PassesInv'
  BY <1>1, <1>4, <1>5, <1>6, <1>7, QuietPasses
<1>9. NetInv'
  BY <1>1, <1>4, <1>5, NetQuiet
<1> QED
  BY <1>5, <1>8, <1>9 DEF CoordInv

-----------------------------------------------------------------------------
(* The alarm of an object. *)
LEMMA AlarmPasses ==
  ASSUME TableInv, TableInv', PassesInv, Advance, NEW n \in Node, NEW work, NEW first \in {"start", "reading"},
         Alarm(n, work, first), UNCHANGED <<draft, todo, wrote, modeVars>>, faults' \in 0..MaxFaults
  PROVE  PassesInv' /\ (pass[Global].at # "idle" => pass'[Global].at # "idle")
<1>1. PassTypes /\ armed[n] /\ pass[n].at = "idle"
  BY DEF Alarm, PassesInv
<1>2. CASE work /\ failures[n] < Budget
  <2>1. PICK p : p = [Resting EXCEPT !.at = first]
    OBVIOUS
  <2>2. p \in Passes /\ p.at = first
    BY <2>1 DEF Resting, Passes, Places
  <2>3. failures' = [failures EXCEPT ![n] = @ + 1] /\ pass' = [pass EXCEPT ![n] = p] /\ UNCHANGED armed
    BY <1>2, <2>1 DEF Alarm
  <2>4. failures[n] + 1 \in 0..Budget
    BY <1>1, <1>2, BudgetAssumption DEF PassTypes
  <2>5. Armed
    BY <1>1, <2>3, <2>4 DEF Armed, PassTypes
  <2>6. /\ draft \in [Account -> Drafts] /\ todo \in SUBSET [job : Job, request : Nat]
        /\ wrote \subseteq Step /\ UNCHANGED <<draft, todo, wrote, modeVars>>
    BY <1>1 DEF PassTypes
  <2>7. PassesInv' /\ (n # Global => pass'[Global] = pass[Global])
    BY <1>1, <2>2, <2>3, <2>5, <2>6, PassChanges
  <2> QED
    BY <1>1, <2>7
<1>3. CASE ~(work /\ failures[n] < Budget)
  <2>1. armed' = [armed EXCEPT ![n] = FALSE] /\ UNCHANGED <<failures, pass, draft, todo, wrote, maintenance, toggles>>
    BY <1>3 DEF Alarm, modeVars
  <2>2. armed' \in [Node -> BOOLEAN] /\ \A k \in Node : k # n => armed'[k] = armed[k]
    BY <1>1, <2>1 DEF PassTypes
  <2>3. \A k \in Node : pass[k].at # "idle" => armed'[k]
    BY <1>1, <2>2 DEF PassesInv, PassInv
  <2>4. ASSUME NEW k \in Node PROVE PassInv(k)'
    BY <2>1, <2>3, <2>4, NodeSame
  <2>5. PassTypes'
    BY <1>1, <2>1, <2>2 DEF PassTypes
  <2> QED
    BY <2>1, <2>4, <2>5 DEF PassesInv
<1> QED
  BY <1>2, <1>3

LEMMA AlarmInv ==
  ASSUME CoordInv, NEW n \in Node, NEW work, NEW first \in {"start", "reading"}, Alarm(n, work, first),
         UNCHANGED <<queueVars, dispatchVars, effectVars, outboxVars>>,
         UNCHANGED <<draft, todo, wrote, modeVars>>, UNCHANGED netVars
  PROVE  CoordInv'
<1>1. TableInv /\ PassesInv /\ NetInv /\ PassTypes
  BY DEF CoordInv, PassesInv
<1>2. TableInv' /\ Advance
  BY <1>1, QuietTables
<1>3. faults' \in 0..MaxFaults /\ UNCHANGED <<calls, late>>
  BY <1>1 DEF PassTypes, netVars
<1>4. PassesInv' /\ (pass[Global].at # "idle" => pass'[Global].at # "idle")
  BY <1>1, <1>2, <1>3, AlarmPasses
<1>5. \A c \in calls : c.from = Global => pass'[Global].at # "idle"
  BY <1>1, <1>4 DEF NetInv, CallInv
<1>6. NetInv'
  BY <1>1, <1>2, <1>3, <1>5, NetLater
<1> QED
  BY <1>2, <1>4, <1>6 DEF CoordInv

LEMMA GlobalAlarmInv ==
  ASSUME CoordInv, GlobalAlarm
  PROVE  CoordInv'
BY AlarmInv, Nodes DEF GlobalAlarm

LEMMA AccountAlarmInv ==
  ASSUME CoordInv, NEW a \in Account, AccountAlarm(a)
  PROVE  CoordInv'
BY AlarmInv, Nodes DEF AccountAlarm

(* A step inside a pass. *)
LEMMA PassMoves ==
  ASSUME CoordInv, TableInv', Advance, NEW n \in Node, pass[n].at # "idle",
         NEW p \in Passes, p.at \notin {"idle", "writing"},
         p.at = "executing" => p.step \in Step /\ Owner[p.step[1]] = n,
         pass' = [pass EXCEPT ![n] = p], UNCHANGED <<alarmVars, draft, modeVars>>, wrote' \subseteq Step,
         todo' \in SUBSET [job : Job, request : Nat], n # Global => UNCHANGED todo,
         UNCHANGED faults, late' \subseteq late,
         \A c \in calls' : c \in calls \/ CallInv(c)'
  PROVE  CoordInv'
<1>1. TableInv /\ PassesInv /\ NetInv /\ PassTypes
  BY DEF CoordInv, PassesInv
<1>2. Armed
  BY <1>1, QuietArms
<1>3. armed'[n] /\ faults' \in 0..MaxFaults /\ draft' \in [Account -> Drafts]
      /\ \A a \in Account : draft'[a] = draft[a]
  BY <1>1 DEF PassesInv, PassInv, PassTypes, alarmVars
<1>4. PassesInv' /\ (n # Global => pass'[Global] = pass[Global])
  BY <1>1, <1>2, <1>3, PassChanges
<1>5. n = Global => pass'[Global].at # "idle"
  BY <1>1 DEF PassTypes
<1>6. \A c \in calls : c.from = Global => pass'[Global].at # "idle"
  BY <1>1, <1>4, <1>5 DEF NetInv, CallInv
<1>7. NetInv'
  BY <1>1, <1>6, NetLater
<1> QED
  BY <1>4, <1>7 DEF CoordInv

LEMMA SentCall ==
  ASSUME Advance, NEW n \in Node, NEW m, MessageInv(m), NEW request \in Nat,
         n = Global <=> m.method \in {"deliver", "cancel"}, n # Global => Owner[m.job] = n,
         n = Global => pass[Global].at # "idle" /\ pass'[Global].at # "idle",
         NEW k, k = [from |-> n, msg |-> m, request |-> request, reply |-> "none"]
  PROVE  CallInv(k)'
<1>1. k \in Callers /\ k.msg = m /\ k.from = n /\ k.reply = "none"
  BY DEF Callers, MessageInv
<1>2. CallInv(k)
  BY <1>1 DEF CallInv
<1> QED
  BY <1>1, <1>2, CallKept

LEMMA TodoTypes ==
  ASSUME TableInv
  PROVE  /\ ToWake \in SUBSET [job : Job, request : Nat] /\ ToCancel \in SUBSET [job : Job, request : Nat]
         /\ \A S \in SUBSET Job : {[job |-> j, request |-> 0] : j \in S} \in SUBSET [job : Job, request : Nat]
<1>1. wake \in [Job -> Nat]
  BY TablesTyped
<1>2. Outbox!PendingWakes \subseteq Job /\ Outbox!PendingCancels \subseteq Job
  BY DEF Outbox!PendingWakes, Outbox!PendingCancels
<1> QED
  BY <1>1, <1>2 DEF ToWake, ToCancel

LEMMA GlobalStartInv ==
  ASSUME CoordInv, GlobalStart
  PROVE  CoordInv'
<1>1. TableInv /\ PassTypes /\ pass \in [Node -> Passes] /\ pass[Global] \in Passes
  BY Nodes DEF CoordInv, PassesInv, PassTypes
<1>2. /\ UNCHANGED <<queueVars, effectVars, outboxVars>> /\ UNCHANGED <<alarmVars, draft, modeVars>>
      /\ UNCHANGED <<wrote, calls, late, faults>> /\ pass[Global].at = "start"
  BY DEF GlobalStart, netVars
<1>3. ASSUME NEW at \in {"deliver", "cancel"}
      PROVE  [pass[Global] EXCEPT !.at = at] \in Passes /\ [pass[Global] EXCEPT !.at = at].at = at
  BY <1>1 DEF Passes, Places
<1>4. wrote' \subseteq Step
  BY <1>1, <1>2 DEF PassTypes
<1>5. CASE maintenance
  <2>1. PICK p \in Passes : p = [pass[Global] EXCEPT !.at = "cancel"] /\ p.at = "cancel"
    BY <1>3
  <2>2. UNCHANGED dispatchVars /\ pass' = [pass EXCEPT ![Global] = p] /\ todo' = ToCancel
    BY <1>5, <2>1 DEF GlobalStart
  <2>3. TableInv' /\ Advance
    BY <1>1, <1>2, <2>2, QuietTables
  <2>4. todo' \in SUBSET [job : Job, request : Nat]
    BY <1>1, <2>2, TodoTypes
  <2> QED
    BY <1>2, <1>4, <2>1, <2>2, <2>3, <2>4, Nodes, PassMoves
<1>6. CASE ~maintenance
  <2>1. PICK p \in Passes : p = [pass[Global] EXCEPT !.at = "deliver"] /\ p.at = "deliver"
    BY <1>3
  <2>2. PICK R \in SUBSET Job :
          /\ IF R = {} THEN UNCHANGED dispatchVars ELSE Outbox!Reserve(R)
          /\ pass' = [pass EXCEPT ![Global] = p]
          /\ todo' = {[job |-> j, request |-> 0] : j \in {i \in Job : state'[i] = "sending"}}
    BY <1>6, <2>1 DEF GlobalStart
  <2>3. TableInv' /\ Advance
    BY <1>1, <1>2, <2>2, QuietTables, ReserveTables
  <2>4. todo' \in SUBSET [job : Job, request : Nat]
    BY <1>1, <2>2, TodoTypes
  <2> QED
    BY <1>2, <1>4, <2>1, <2>2, <2>3, <2>4, Nodes, PassMoves
<1> QED
  BY <1>5, <1>6

LEMMA GlobalSendInv ==
  ASSUME CoordInv, NEW w \in todo, GlobalSend(w)
  PROVE  CoordInv'
<1>1. TableInv /\ PassesInv /\ NetInv /\ PassTypes
  BY DEF CoordInv, PassesInv
<1>2. /\ UNCHANGED <<queueVars, dispatchVars, effectVars, outboxVars>> /\ UNCHANGED alarmVars
      /\ UNCHANGED <<pass, draft, modeVars, wrote, late, faults>> /\ todo' = todo \ {w}
  BY DEF GlobalSend
<1>3. PICK j \in Job : j = w.job /\ w.request \in Nat
  BY <1>1 DEF PassTypes
<1>4. PICK p \in Passes : p = pass[Global] /\ p.at # "idle"
  BY <1>1, Nodes DEF PassTypes
<1>5. TableInv' /\ Advance
  BY <1>1, <1>2, QuietTables
<1>6. Armed
  BY <1>1, <1>2, QuietArms
<1>7. PassesInv'
  <2>1. /\ pass' = [pass EXCEPT ![Global] = p] /\ armed'[Global] /\ draft' \in [Account -> Drafts]
        /\ \A a \in Account : draft'[a] = draft[a]
    BY <1>1, <1>2, <1>4, <1>6, Nodes DEF PassesInv, PassInv, PassTypes, Armed
  <2>2. /\ todo' \in SUBSET [job : Job, request : Nat] /\ wrote' \subseteq Step /\ faults' \in 0..MaxFaults
        /\ (p.at = "executing" => p.step \in Step /\ Owner[p.step[1]] = Global) /\ UNCHANGED modeVars
    BY <1>1, <1>2, <1>4, Nodes DEF PassesInv, PassInv, PassTypes
  <2> QED
    BY <1>1, <1>4, <1>5, <1>6, <2>1, <2>2, Nodes, PassChanges
<1>8. \A c \in calls : c.from = Global => pass'[Global].at # "idle"
  BY <1>2, <1>4
<1>9. \A c \in calls' : c \in calls \/ CallInv(c)'
  <2>1. CASE UNCHANGED calls
    BY <2>1
  <2>2. CASE ~UNCHANGED calls
    <3>1. /\ state[j] \in Outbox!Holding
          /\ \/ Send(Global, Request("cancel", j, NoFacts, "go"), 0)
             \/ Send(Global, Request("deliver", j, NoFacts, IF cancelRow[j] # "none" THEN "cancelled" ELSE "go"),
                     w.request)
      BY <1>3, <2>2 DEF GlobalSend
    <3>2. \E m, request :
            /\ request \in Nat
            /\ calls' = calls \union {[from |-> Global, msg |-> m, request |-> request, reply |-> "none"]}
            /\ \/ m = Request("cancel", j, NoFacts, "go")
               \/ m = Request("deliver", j, NoFacts, IF cancelRow[j] # "none" THEN "cancelled" ELSE "go")
      <4>1. CASE Send(Global, Request("cancel", j, NoFacts, "go"), 0)
        <5>1. 0 \in Nat
          OBVIOUS
        <5> QED
          BY <3>1, <4>1, <5>1 DEF Send
      <4>2. CASE Send(Global, Request("deliver", j, NoFacts, IF cancelRow[j] # "none" THEN "cancelled" ELSE "go"),
                      w.request)
        BY <1>3, <3>1, <4>2 DEF Send
      <4> QED
        BY <3>1, <4>1, <4>2
    <3>3. PICK m, request :
            /\ request \in Nat
            /\ calls' = calls \union {[from |-> Global, msg |-> m, request |-> request, reply |-> "none"]}
            /\ \/ m = Request("cancel", j, NoFacts, "go")
               \/ m = Request("deliver", j, NoFacts, IF cancelRow[j] # "none" THEN "cancelled" ELSE "go")
      BY <3>2
    <3>4. /\ m \in Messages /\ m.method \in {"deliver", "cancel"} /\ m.job = j
          /\ m.word \in {"go", "cancelled"}
      BY <3>3, Records DEF Request, Messages, Over
    <3>5. Sent(j)
      BY <3>1 DEF Sent, Outbox!Holding
    <3>6. MessageInv(m)
      BY <3>4, <3>5 DEF MessageInv
    <3>7. PICK k : k = [from |-> Global, msg |-> m, request |-> request, reply |-> "none"]
      OBVIOUS
    <3>8. CallInv(k)'
      BY <1>2, <1>4, <1>5, <3>3, <3>4, <3>6, <3>7, Nodes, SentCall
    <3> QED
      BY <3>3, <3>7, <3>8
  <2> QED
    BY <2>1, <2>2
<1>10. NetInv'
  BY <1>1, <1>2, <1>5, <1>8, <1>9, NetLater
<1> QED
  BY <1>5, <1>7, <1>10 DEF CoordInv

LEMMA GlobalProceedInv ==
  ASSUME CoordInv, GlobalProceed
  PROVE  CoordInv'
<1>1. TableInv /\ PassesInv /\ NetInv /\ PassTypes /\ pass \in [Node -> Passes] /\ pass[Global] \in Passes
  BY Nodes DEF CoordInv, PassesInv, PassTypes
<1>2. /\ UNCHANGED <<queueVars, dispatchVars, effectVars, outboxVars>> /\ UNCHANGED <<draft, modeVars>>
      /\ UNCHANGED <<wrote, calls, late, faults>> /\ pass[Global].at # "idle"
      /\ todo = {} /\ Calls(Global) = {}
  BY DEF GlobalProceed, netVars
<1>3. TableInv' /\ Advance
  BY <1>1, <1>2, QuietTables
<1>4. wrote' \subseteq Step /\ faults' \in 0..MaxFaults
  BY <1>1, <1>2 DEF PassTypes
<1>5. CASE EndPass(Global, ~retry) /\ UNCHANGED todo
  <2>1. PassesInv'
    BY <1>1, <1>2, <1>3, <1>4, <1>5, Nodes, EndPasses
  <2>2. \A c \in calls : c.from # Global
    BY <1>2 DEF Calls
  <2>3. NetInv'
    BY <1>1, <1>2, <1>3, <2>2, NetLater
  <2> QED
    BY <1>3, <2>1, <2>3 DEF CoordInv
<1>6. CASE ~(EndPass(Global, ~retry) /\ UNCHANGED todo)
  <2>1. PICK at \in {"wake", "cancel"} :
          /\ pass' = [pass EXCEPT ![Global].at = at] /\ todo' \in {ToWake, ToCancel} /\ UNCHANGED alarmVars
    BY <1>6 DEF GlobalProceed
  <2>2. PICK p \in Passes : p = [pass[Global] EXCEPT !.at = at] /\ p.at = at
    <3>1. at \in Places
      BY DEF Places
    <3> QED
      BY <1>1, <3>1, PassAt
  <2>3. pass' = [pass EXCEPT ![Global] = p]
    BY <2>1, <2>2
  <2>4. todo' \in SUBSET [job : Job, request : Nat]
    BY <1>1, <2>1, TodoTypes
  <2> QED
    BY <1>2, <1>3, <1>4, <2>1, <2>2, <2>3, <2>4, Nodes, PassMoves
<1> QED
  BY <1>5, <1>6

-----------------------------------------------------------------------------
(* The pass of an account. *)
LEMMA FreshRow ==
  ASSUME TableInv, NEW j \in Job, NEW version \in Int, NEW cancel \in BOOLEAN,
         version <= receipts[j], cancel => cancelRequested[j], NEW row,
         row = [version |-> version, cancel |-> cancel, facts |-> FactsOf(j), acked |-> FactsOf(j) = NoFacts]
  PROVE  row \in ProgressRows /\ RowInv(j, row) /\ (row.acked => row.facts = NoFacts)
<1>1. /\ row.version = version /\ row.cancel = cancel /\ row.facts = FactsOf(j)
      /\ row.acked = (FactsOf(j) = NoFacts)
  OBVIOUS
<1>2. stepState[j] \in [Ordinal -> StepStates]
  BY TablesTyped DEF QueueTypes
<1>3. FactsOf(j) = [o \in Ordinal |-> IF stepState[j][o] \in Known THEN stepState[j][o] ELSE "none"]
  BY FactsOfSteps
<1>4. FactsOf(j) \in [Ordinal -> FactStates]
  BY <1>2, <1>3 DEF Known, FactStates
<1>5. row \in ProgressRows
  BY <1>4 DEF ProgressRows
<1>6. \A o \in Ordinal : Was(FactsOf(j)[o], stepState[j][o])
  BY <1>3 DEF Was, Settled, Known
<1> QED
  BY <1>1, <1>5, <1>6 DEF RowInv

LEMMA ReadNextInv ==
  ASSUME CoordInv, TableInv', Advance, NEW a \in Account, pass[a].at # "idle", UNCHANGED queueVars,
         NEW left \in SUBSET Entries, \A e \in left : EntryInv(a, e), ReadNext(a, left),
         UNCHANGED <<alarmVars, todo, modeVars>>, UNCHANGED <<wrote, netVars>>
  PROVE  CoordInv'
<1>1. TableInv /\ PassesInv /\ NetInv /\ PassTypes /\ QueueTypes /\ QueueTypes'
  BY QueueTyped, QueueTypedNext DEF CoordInv, PassesInv, TableInv
<1>2. a \in Node /\ a # Global
  BY GlobalAssumption DEF Node
<1>3. Armed /\ armed'[a]
  BY <1>1, <1>2, QuietArms DEF PassesInv, PassInv, alarmVars
<1>4. /\ draft \in [Account -> Drafts] /\ pass[a] \in Passes /\ UNCHANGED <<calls, late, faults, todo>>
      /\ wrote' \subseteq Step /\ faults' \in 0..MaxFaults /\ todo' \in SUBSET [job : Job, request : Nat]
  BY <1>1, <1>2 DEF PassTypes, netVars
<1>5. PassesInv' /\ pass'[Global] = pass[Global]
  <2>1. CASE left = {}
    <3>1. PICK p \in Passes : p = [pass[a] EXCEPT !.at = "reporting"] /\ p.at = "reporting"
      BY <1>4, PassAt DEF Places
    <3>2. pass' = [pass EXCEPT ![a] = p] /\ draft' = [draft EXCEPT ![a] = NoDraft]
      BY <2>1, <3>1 DEF ReadNext
    <3>3. draft' \in [Account -> Drafts] /\ \A b \in Account : b # a => draft'[b] = draft[b]
      BY <1>4, <3>2, Records
    <3> QED
      BY <1>1, <1>2, <1>3, <1>4, <3>1, <3>2, <3>3, PassChanges
  <2>2. CASE left # {}
    <3>1. PICK p \in Passes : p = [pass[a] EXCEPT !.at = "writing"] /\ p.at = "writing"
      BY <1>4, PassAt DEF Places
    <3>2. PICK d \in left :
            /\ draft' = [draft EXCEPT ![a] =
                 [job |-> d.job, left |-> left \ {d},
                  row |-> [version |-> d.version, cancel |-> d.cancel, facts |-> FactsOf(d.job),
                           acked |-> FactsOf(d.job) = NoFacts]]]
            /\ pass' = [pass EXCEPT ![a] = p]
      BY <2>2, <3>1 DEF ReadNext
    <3>3. PICK j \in Job, v \in Int, c \in BOOLEAN : j = d.job /\ v = d.version /\ c = d.cancel
      BY DEF Entries
    <3>4. Here(j) /\ Owner[j] = a /\ v <= receipts[j] /\ (c => cancelRequested[j])
      BY <3>3 DEF EntryInv
    <3>5. PICK row : row = [version |-> v, cancel |-> c, facts |-> FactsOf(j), acked |-> FactsOf(j) = NoFacts]
      OBVIOUS
    <3>6. row \in ProgressRows /\ RowInv(j, row) /\ (row.acked => row.facts = NoFacts)
      BY <1>1, <3>4, <3>5, FreshRow
    <3>7. PICK f : f = [job |-> j, left |-> left \ {d}, row |-> row]
      OBVIOUS
    <3>8. f \in Drafts /\ f.job = j /\ f.row = row /\ f.left = left \ {d}
      BY <3>6, <3>7 DEF Drafts
    <3>9. draft' = [draft EXCEPT ![a] = f]
      BY <3>2, <3>3, <3>5, <3>7
    <3>10. draft' \in [Account -> Drafts] /\ draft'[a] = f /\ \A b \in Account : b # a => draft'[b] = draft[b]
      BY <1>4, <3>8, <3>9
    <3>11. RowInv(j, row)' /\ Here(j)'
      BY <1>1, <3>4, <3>6, RowKept DEF Advance, Moves
    <3>12. ASSUME NEW e \in left PROVE EntryInv(a, e)'
      BY <1>1, EntryKept
    <3>13. DraftInv(a)'
      BY <3>4, <3>6, <3>8, <3>10, <3>11, <3>12 DEF DraftInv
    <3> QED
      BY <1>1, <1>2, <1>3, <1>4, <3>1, <3>2, <3>10, <3>13, PassChanges
  <2> QED
    BY <2>1, <2>2
<1>6. NetInv'
  BY <1>1, <1>4, <1>5, NetQuiet
<1> QED
  BY <1>5, <1>6 DEF CoordInv

LEMMA ReadProgressInv ==
  ASSUME CoordInv, NEW a \in Account, ReadProgress(a)
  PROVE  CoordInv'
<1>1. /\ UNCHANGED <<queueVars, dispatchVars, effectVars, outboxVars>> /\ UNCHANGED queueVars
      /\ UNCHANGED <<alarmVars, todo, modeVars>> /\ UNCHANGED <<wrote, netVars>> /\ pass[a].at # "idle"
  BY DEF ReadProgress
<1>2. TableInv' /\ Advance
  BY <1>1, QuietTables DEF CoordInv
<1>3. PICK left : /\ left = {[job |-> j, version |-> receipts[j], cancel |-> cancelRequested[j]] :
                               j \in {k \in JobsOf(a) : Changed(k)}}
                  /\ ReadNext(a, left)
  BY DEF ReadProgress
<1>4. receipts \in [Job -> Nat] /\ cancelRequested \in [Job -> BOOLEAN]
  BY TablesTyped DEF CoordInv, QueueTypes
<1>5. ASSUME NEW e \in left PROVE e \in Entries /\ EntryInv(a, e)
  <2>1. PICK j \in Job : /\ e = [job |-> j, version |-> receipts[j], cancel |-> cancelRequested[j]]
                         /\ Owner[j] = a /\ jobState[j] # "absent"
    BY <1>3, <1>5 DEF JobsOf
  <2>2. receipts[j] \in Nat /\ cancelRequested[j] \in BOOLEAN
    BY <1>4
  <2> QED
    BY <2>1, <2>2 DEF Entries, EntryInv, Here
<1>6. left \in SUBSET Entries
  BY <1>5
<1> QED
  BY <1>1, <1>2, <1>3, <1>5, <1>6, ReadNextInv

LEMMA WriteProgressInv ==
  ASSUME CoordInv, NEW a \in Account, WriteProgress(a)
  PROVE  CoordInv'
<1>1. /\ UNCHANGED <<queueVars, dispatchVars, effectVars>> /\ UNCHANGED queueVars /\ UNCHANGED receipt
      /\ UNCHANGED <<alarmVars, todo, modeVars>> /\ UNCHANGED <<wrote, netVars>> /\ pass[a].at = "writing"
      /\ progress' = [progress EXCEPT ![draft[a].job] = draft[a].row] /\ ReadNext(a, draft[a].left)
  BY DEF WriteProgress
<1>2. TableInv /\ a \in Node /\ a # Global /\ draft[a] \in Drafts
  BY GlobalAssumption DEF CoordInv, Node, PassesInv, PassTypes
<1>3. DraftInv(a)
  BY <1>1, <1>2 DEF CoordInv, PassesInv, PassInv
<1>4. TableInv' /\ Advance
  BY <1>1, <1>2, <1>3, WriteTables
<1>5. draft[a].left \in SUBSET Entries /\ \A e \in draft[a].left : EntryInv(a, e)
  BY <1>2, <1>3 DEF Drafts, DraftInv
<1> QED
  BY <1>1, <1>4, <1>5, ReadNextInv

(* A step that leaves the passes alone. *)
LEMMA OutsideInv ==
  ASSUME CoordInv, TableInv', Advance, UNCHANGED alarmVars, UNCHANGED <<pass, draft, todo, modeVars>>,
         wrote' \subseteq Step, UNCHANGED <<late, faults>>, \A c \in calls' : c \in calls \/ CallInv(c)'
  PROVE  CoordInv'
<1>1. TableInv /\ PassesInv /\ NetInv /\ PassTypes
  BY DEF CoordInv, PassesInv
<1>2. Armed /\ faults' \in 0..MaxFaults
  BY <1>1, QuietArms DEF PassTypes
<1>3. PassesInv'
  BY <1>1, <1>2, QuietPasses
<1>4. \A c \in calls : c.from = Global => pass'[Global].at # "idle"
  BY <1>1 DEF NetInv, CallInv
<1>5. NetInv'
  BY <1>1, <1>4, NetLater
<1> QED
  BY <1>3, <1>5 DEF CoordInv

LEMMA AccountSendInv ==
  ASSUME CoordInv, NEW a \in Account, NEW m, MessageInv(m), m.method \in {"progress", "complete"},
         Owner[m.job] = a, Send(a, m, 0),
         UNCHANGED <<queueVars, dispatchVars, effectVars, outboxVars>>, UNCHANGED alarmVars,
         UNCHANGED <<pass, draft, todo, modeVars>>, UNCHANGED wrote, UNCHANGED <<late, faults>>
  PROVE  CoordInv'
<1>1. TableInv' /\ Advance
  BY QuietTables DEF CoordInv
<1>2. a \in Node /\ a # Global
  BY GlobalAssumption DEF Node
<1>3. PICK k : k = [from |-> a, msg |-> m, request |-> 0, reply |-> "none"]
  OBVIOUS
<1>4. 0 \in Nat /\ m.method \notin {"deliver", "cancel"}
  OBVIOUS
<1>5. CallInv(k)'
  BY <1>1, <1>2, <1>3, <1>4, SentCall
<1>6. \A c \in calls' : c \in calls \/ CallInv(c)'
  BY <1>3, <1>5 DEF Send
<1>7. wrote' \subseteq Step
  BY DEF CoordInv, PassesInv, PassTypes
<1> QED
  BY <1>1, <1>6, <1>7, OutsideInv

LEMMA SendProgressInv ==
  ASSUME CoordInv, NEW a \in Account, NEW j \in Job, SendProgress(a, j)
  PROVE  CoordInv'
<1>1. /\ UNCHANGED <<queueVars, dispatchVars, effectVars, outboxVars>> /\ UNCHANGED alarmVars
      /\ UNCHANGED <<pass, draft, todo, modeVars>> /\ UNCHANGED wrote /\ UNCHANGED <<late, faults>>
      /\ Owner[j] = a
  BY DEF SendProgress, passVars, JobsOf
<1>2. PICK m : m = Request("progress", j, progress[j].facts, "go")
  OBVIOUS
<1>3. Send(a, m, 0)
  BY <1>2 DEF SendProgress
<1>4. progress[j] \in ProgressRows /\ RowInv(j, progress[j])
  BY TablesTyped DEF CoordInv, TableTypes, TableInv, FactInv
<1>5. /\ m \in Messages /\ m.method = "progress" /\ m.job = j /\ m.facts = progress[j].facts
  BY <1>2, <1>4 DEF Request, Messages, ProgressRows
<1>6. MessageInv(m)
  BY <1>4, <1>5 DEF MessageInv, RowInv
<1> QED
  BY <1>1, <1>3, <1>5, <1>6, AccountSendInv

LEMMA SendCompleteInv ==
  ASSUME CoordInv, NEW a \in Account, NEW j \in Job, SendComplete(a, j)
  PROVE  CoordInv'
<1>1. /\ UNCHANGED <<queueVars, dispatchVars, effectVars, outboxVars>> /\ UNCHANGED alarmVars
      /\ UNCHANGED <<pass, draft, todo, modeVars>> /\ UNCHANGED wrote /\ UNCHANGED <<late, faults>>
      /\ Owner[j] = a /\ receipt[j] = "saved"
  BY DEF SendComplete, passVars, JobsOf
<1>2. PICK m : m = Request("complete", j, NoFacts, jobState[j])
  OBVIOUS
<1>3. Send(a, m, 0)
  BY <1>2 DEF SendComplete
<1>4. jobState[j] \in Over
  BY <1>1 DEF CoordInv, TableInv, LinkInv
<1>5. m \in Messages /\ m.method = "complete" /\ m.job = j /\ m.word = jobState[j]
  BY <1>2, <1>4, Records DEF Request, Messages
<1>6. MessageInv(m)
  BY <1>4, <1>5 DEF MessageInv
<1> QED
  BY <1>1, <1>3, <1>5, <1>6, AccountSendInv

LEMMA SaveReceiptsInv ==
  ASSUME CoordInv, NEW a \in Account, SaveReceipts(a)
  PROVE  CoordInv'
<1>1. /\ receipt' = [j \in Job |->
           IF Owner[j] = a /\ jobState[j] \in Queue!Terminal /\ receipt[j] = "none" THEN "saved" ELSE receipt[j]]
      /\ UNCHANGED progress /\ UNCHANGED <<queueVars, dispatchVars, effectVars>> /\ pass[a].at = "reporting"
      /\ UNCHANGED <<draft, todo, wrote, modeVars>> /\ UNCHANGED <<calls, late, faults>>
  BY DEF SaveReceipts, netVars
<1>2. TableInv /\ PassesInv /\ NetInv /\ PassTypes
  BY DEF CoordInv, PassesInv
<1>3. TableInv' /\ Advance
  BY <1>1, <1>2, SaveTables
<1>4. a \in Node /\ a # Global /\ pass[a] \in Passes /\ wrote' \subseteq Step /\ faults' \in 0..MaxFaults
      /\ todo' \in SUBSET [job : Job, request : Nat]
  BY <1>1, <1>2, GlobalAssumption DEF Node, PassTypes
<1>5. CASE pass[a].last
  <2>1. EndPass(a, TRUE)
    BY <1>5 DEF SaveReceipts
  <2>2. PassesInv' /\ pass'[Global] = pass[Global]
    BY <1>1, <1>2, <1>3, <1>4, <2>1, EndPasses
  <2>3. NetInv'
    BY <1>1, <1>2, <1>3, <2>2, NetQuiet
  <2> QED
    BY <1>3, <2>2, <2>3 DEF CoordInv
<1>6. CASE ~pass[a].last
  <2>1. PICK p \in Passes : p = [pass[a] EXCEPT !.at = "completing"] /\ p.at = "completing"
    BY <1>4, PassAt DEF Places
  <2>2. pass' = [pass EXCEPT ![a] = p] /\ UNCHANGED <<alarmVars, draft, modeVars>>
    BY <1>1, <1>6, <2>1 DEF SaveReceipts
  <2> QED
    BY <1>1, <1>3, <1>4, <2>1, <2>2, PassMoves
<1> QED
  BY <1>5, <1>6

LEMMA RestInDoubtInv ==
  ASSUME CoordInv, NEW a \in Account, RestInDoubt(a)
  PROVE  CoordInv'
<1>1. /\ EndPass(a, FALSE) /\ UNCHANGED <<queueVars, dispatchVars, effectVars, outboxVars>>
      /\ UNCHANGED <<draft, todo, wrote, modeVars>> /\ UNCHANGED <<calls, late, faults>>
  BY DEF RestInDoubt, netVars
<1>2. TableInv /\ PassesInv /\ NetInv /\ PassTypes
  BY DEF CoordInv, PassesInv
<1>3. TableInv' /\ Advance
  BY <1>1, <1>2, QuietTables
<1>4. a \in Node /\ a # Global /\ faults' \in 0..MaxFaults
  BY <1>1, <1>2, GlobalAssumption DEF Node, PassTypes
<1>5. PassesInv' /\ pass'[Global] = pass[Global]
  BY <1>1, <1>2, <1>3, <1>4, EndPasses
<1>6. NetInv'
  BY <1>1, <1>2, <1>3, <1>5, NetQuiet
<1> QED
  BY <1>3, <1>5, <1>6 DEF CoordInv

LEMMA HealInv ==
  ASSUME CoordInv, NEW a \in Account, NEW s \in Step, Heal(a, s)
  PROVE  CoordInv'
<1>1. PICK e \in Evidence : Queue!Record(s[1], s[2], "failed", e) /\ StateOf(s) \in {"in_flight", "unknown"}
  BY DEF Heal, Queue!Reconcile, StateOf
<1>2. /\ UNCHANGED <<dispatchVars, effectVars, outboxVars>> /\ UNCHANGED alarmVars
      /\ UNCHANGED <<pass, draft, todo, modeVars>> /\ UNCHANGED <<wrote, calls, late, faults>>
  BY DEF Heal, passVars, netVars
<1>3. TableInv' /\ Advance
  BY <1>1, <1>2, RecordTables DEF CoordInv
<1>4. wrote' \subseteq Step
  BY <1>2 DEF CoordInv, PassesInv, PassTypes
<1> QED
  BY <1>2, <1>3, <1>4, OutsideInv

LEMMA RunInv ==
  ASSUME CoordInv, NEW a \in Account, NEW s \in Step, Run(a, s)
  PROVE  CoordInv'
<1>1. /\ UNCHANGED <<dispatchVars, effectVars, outboxVars>> /\ UNCHANGED <<alarmVars, draft, modeVars>>
      /\ UNCHANGED <<todo, wrote, calls, late, faults>> /\ pass[a].at # "idle"
  BY DEF Run, Reported, netVars
<1>2. TableInv /\ QP!QueueInv /\ PassTypes /\ a \in Node /\ a # Global /\ pass[a] \in Passes
      /\ todo' \in SUBSET [job : Job, request : Nat] /\ wrote' \subseteq Step
  BY <1>1, GlobalAssumption DEF CoordInv, TableInv, PassesInv, PassTypes, Node
<1>3. PICK j \in Job, o \in Ordinal : j = s[1] /\ o = s[2]
  BY DEF Step
<1>4. TableInv' /\ Advance
  <2>1. CASE UNCHANGED queueVars
    BY <1>1, <1>2, <2>1, QuietTables
  <2>2. CASE Queue!Claim(a, s[1], s[2])
    <3>1. Queue!Claim(a, j, o)
      BY <1>3, <2>2
    <3>2. /\ QP!QueueInv' /\ jobState[j] \in {"queued", "running"}
          /\ \A k \in Job : Moves(k) /\ (k # j => RowsKept(k))
      BY <1>2, <3>1, ClaimMoves
    <3>3. jobState[j] \in Queue!Unfinished
      BY <3>2 DEF Queue!Unfinished
    <3> QED
      BY <1>1, <1>2, <3>2, <3>3, QueueTables
  <2> QED
    BY <2>1, <2>2 DEF Run
<1>5. PICK p : p = [pass[a] EXCEPT !.at = "executing", !.step = s]
  OBVIOUS
<1>6. p \in Passes /\ p.at = "executing" /\ p.step = s /\ Owner[s[1]] = a
  BY <1>2, <1>5 DEF Run, Passes, Places
<1>7. pass' = [pass EXCEPT ![a] = p]
  BY <1>5 DEF Run
<1> QED
  BY <1>1, <1>2, <1>4, <1>6, <1>7, PassMoves

LEMMA LastPass ==
  \E p \in Passes : p = [Resting EXCEPT !.at = "reading", !.last = TRUE] /\ p.at = "reading"
<1>1. [Resting EXCEPT !.at = "reading", !.last = TRUE] \in Passes
  BY DEF Resting, Passes, Places
<1>2. [Resting EXCEPT !.at = "reading", !.last = TRUE].at = "reading"
  BY DEF Resting
<1> QED
  BY <1>1, <1>2

LEMMA NothingToRunInv ==
  ASSUME CoordInv, NEW a \in Account, NothingToRun(a)
  PROVE  CoordInv'
<1>1. /\ UNCHANGED <<queueVars, dispatchVars, effectVars, outboxVars>> /\ UNCHANGED <<alarmVars, draft, modeVars>>
      /\ UNCHANGED <<todo, wrote, calls, late, faults>> /\ pass[a].at # "idle"
  BY DEF NothingToRun, Reported, netVars
<1>2. TableInv /\ PassTypes /\ a \in Node /\ a # Global
      /\ todo' \in SUBSET [job : Job, request : Nat] /\ wrote' \subseteq Step
  BY <1>1, GlobalAssumption DEF CoordInv, PassesInv, PassTypes, Node
<1>3. TableInv' /\ Advance
  BY <1>1, <1>2, QuietTables
<1>4. PICK p \in Passes : p = [Resting EXCEPT !.at = "reading", !.last = TRUE] /\ p.at = "reading"
  BY LastPass
<1>5. pass' = [pass EXCEPT ![a] = p]
  BY <1>4 DEF NothingToRun
<1> QED
  BY <1>1, <1>2, <1>3, <1>4, <1>5, PassMoves

LEMMA OpenInv ==
  ASSUME CoordInv, NEW a \in Account, Open(a)
  PROVE  CoordInv'
<1>1. /\ UNCHANGED <<queueVars, dispatchVars, effectVars, outboxVars>> /\ UNCHANGED alarmVars
      /\ UNCHANGED <<pass, draft, todo, modeVars>> /\ UNCHANGED <<wrote, calls, late, faults>>
  BY DEF Open, passVars, netVars
<1>2. TableInv' /\ Advance
  BY <1>1, QuietTables DEF CoordInv
<1>3. wrote' \subseteq Step
  BY <1>1 DEF CoordInv, PassesInv, PassTypes
<1> QED
  BY <1>1, <1>2, <1>3, OutsideInv

LEMMA ExecuteInv ==
  ASSUME CoordInv, NEW a \in Account, NEW result \in Queue!Outcome, NEW mutated \in BOOLEAN,
         Execute(a, result, mutated)
  PROVE  CoordInv'
<1>1. /\ UNCHANGED <<dispatchVars, effectVars, outboxVars>> /\ UNCHANGED <<alarmVars, draft, modeVars>>
      /\ UNCHANGED <<todo, calls, late, faults>> /\ pass[a].at = "executing"
  BY DEF Execute, netVars
<1>2. TableInv /\ PassTypes /\ a \in Node /\ a # Global /\ todo' \in SUBSET [job : Job, request : Nat]
  BY <1>1, GlobalAssumption DEF CoordInv, PassesInv, PassTypes, Node
<1>3. PICK s \in Step : s = pass[a].step
  BY <1>1, <1>2 DEF CoordInv, PassesInv, PassInv
<1>4. PICK e \in Evidence : Queue!Finish(s[1], s[2], token[s[1]][s[2]], result, e)
  BY <1>3 DEF Execute
<1>5. Queue!Record(s[1], s[2], result, e) /\ StateOf(s) \in {"in_flight", "unknown"}
      /\ result \in {"verified", "failed", "unknown"}
  BY <1>4 DEF Queue!Finish, StateOf, Queue!Outcome
<1>6. TableInv' /\ Advance
  BY <1>1, <1>2, <1>5, RecordTables
<1>7. wrote' \subseteq Step
  BY <1>2, <1>3 DEF Execute, PassTypes
<1>8. PICK p \in Passes : p = [Resting EXCEPT !.at = "reading", !.last = TRUE] /\ p.at = "reading"
  BY LastPass
<1>9. pass' = [pass EXCEPT ![a] = p]
  BY <1>8 DEF Execute
<1> QED
  BY <1>1, <1>2, <1>6, <1>7, <1>8, <1>9, PassMoves

-----------------------------------------------------------------------------
(* The invariant holds, and what it says. *)
LEMMA InitInv == Init => CoordInv
<1> SUFFICES ASSUME Init PROVE CoordInv
  OBVIOUS
<1>1. QP!QueueInv
  BY SameQueueInit, QueueAssumption, QP!InitQueue DEF Init
<1>2. OP!DispatchInv
  BY SameDispatch, OutboxBounds, OutboxAssumption, OP!InitInv DEF Init
<1>3. /\ facts = [j \in Job |-> [o \in Ordinal |-> {}]] /\ known = [j \in Job |-> NoFacts]
      /\ progress = [j \in Job |-> NoProgress] /\ receipt = [j \in Job |-> "none"]
  BY DEF Init
<1>4. TableTypes
  BY <1>3, Records DEF TableTypes
<1>5. QueueTypes
  BY <1>1, QueueTyped
<1>6. ASSUME NEW j \in Job PROVE LinkInv(j) /\ FactInv(j)
  <2>1. /\ jobState[j] = "absent" /\ ~cancelRequested[j] /\ receipts[j] = 0
        /\ stepState[j] = [o \in Ordinal |-> "absent"]
    BY DEF Init, Queue!Init, Ordinal
  <2>2. state[j] = "absent" /\ cancelRow[j] = "none"
    BY DEF Init, Outbox!Init
  <2>3. LinkInv(j)
    BY <1>3, <2>1, <2>2 DEF LinkInv, Here, Over
  <2>4. FactsOf(j) = NoFacts
    BY <2>1, FactsOfSteps DEF NoFacts, Known
  <2>5. \A o \in Ordinal : Was("none", stepState[j][o])
    BY DEF Was, Settled
  <2>6. RowInv(j, NoProgress)
    BY <2>1, <2>4, <2>5 DEF RowInv, NoProgress, NoFacts
  <2>7. FactInv(j)
    BY <1>3, <2>1, <2>4, <2>5, <2>6 DEF FactInv, NoProgress, NoFacts, Here
  <2> QED
    BY <2>3, <2>7
<1>7. PassTypes
  <2>1. /\ pass = [n \in Node |-> Resting] /\ draft = [a \in Account |-> NoDraft] /\ todo = {}
        /\ armed = [n \in Node |-> FALSE] /\ failures = [n \in Node |-> 0] /\ wrote = {} /\ faults = 0
        /\ maintenance = FALSE /\ toggles = 0
    BY DEF Init
  <2>2. 0 \in 0..Budget /\ 0 \in 0..MaxFaults /\ 0 \in 0..MaxToggles
    BY BudgetAssumption
  <2> QED
    BY <2>1, <2>2, Records DEF PassTypes
<1>8. \A n \in Node : PassInv(n)
  BY Records DEF Init, PassInv
<1>9. NetInv
  BY DEF Init, NetInv
<1> QED
  BY <1>1, <1>2, <1>4, <1>6, <1>7, <1>8, <1>9 DEF CoordInv, TableInv, PassesInv

LEMMA PassesNext ==
  ASSUME CoordInv, GlobalPass \/ \E a \in Account : AccountPass(a)
  PROVE  CoordInv'
<1>1. CASE GlobalPass
  BY <1>1, GlobalStartInv, GlobalProceedInv, GlobalSendInv DEF GlobalPass
<1>2. ASSUME NEW a \in Account, AccountPass(a) PROVE CoordInv'
  <2>1. CASE ReadProgress(a) \/ WriteProgress(a) \/ SaveReceipts(a) \/ RestInDoubt(a) \/ NothingToRun(a)
    BY <2>1, ReadProgressInv, WriteProgressInv, SaveReceiptsInv, RestInDoubtInv, NothingToRunInv
  <2>2. ASSUME NEW j \in Job, SendProgress(a, j) \/ SendComplete(a, j) PROVE CoordInv'
    BY <2>2, SendProgressInv, SendCompleteInv
  <2>3. ASSUME NEW s \in Step, Heal(a, s) \/ Run(a, s) PROVE CoordInv'
    BY <2>3, HealInv, RunInv
  <2>4. ASSUME NEW r \in Queue!Outcome, NEW mutated \in BOOLEAN, Execute(a, r, mutated) PROVE CoordInv'
    BY <2>4, ExecuteInv
  <2>5. CASE Open(a)
    BY <2>5, OpenInv
  <2> QED
    BY <1>2, <2>1, <2>2, <2>3, <2>4, <2>5 DEF AccountPass
<1> QED
  BY <1>1, <1>2

LEMMA StutterInv ==
  ASSUME CoordInv, UNCHANGED vars
  PROVE  CoordInv'
<1>1. /\ UNCHANGED <<queueVars, dispatchVars, effectVars, outboxVars>> /\ UNCHANGED alarmVars
      /\ UNCHANGED <<pass, draft, todo, modeVars>> /\ UNCHANGED <<wrote, calls, late, faults>>
  BY DEF vars, passVars, netVars
<1>2. TableInv' /\ Advance
  BY <1>1, QuietTables DEF CoordInv
<1>3. wrote' \subseteq Step
  BY <1>1 DEF CoordInv, PassesInv, PassTypes
<1> QED
  BY <1>1, <1>2, <1>3, OutsideInv

LEMMA NextInv == CoordInv /\ [Next]_vars => CoordInv'
<1>1. ASSUME CoordInv, Next PROVE CoordInv'
  <2>1. ASSUME NEW t \in Task, Submit(t) \/ RequestWake(t) \/ RequestCancel(t) PROVE CoordInv'
    BY <1>1, <2>1, RequestsInv
  <2>2. CASE ToggleMaintenance
    BY <1>1, <2>2, ToggleInv
  <2>3. ASSUME NEW s \in Step, CloseFailed(s) PROVE CoordInv'
    BY <1>1, <2>3, CloseFailedInv
  <2>4. CASE GlobalAlarm
    BY <1>1, <2>4, GlobalAlarmInv
  <2>5. ASSUME NEW a \in Account, AccountAlarm(a) PROVE CoordInv'
    BY <1>1, <2>5, AccountAlarmInv
  <2>6. CASE GlobalPass \/ \E a \in Account : AccountPass(a)
    BY <1>1, <2>6, PassesNext
  <2>7. ASSUME NEW c \in calls, Serve(c) \/ Return(c) \/ GiveUp(c) PROVE CoordInv'
    BY <1>1, <2>7, ServeInv, ReturnInv, GiveUpInv
  <2>8. ASSUME NEW m \in late, ServeLate(m) PROVE CoordInv'
    BY <1>1, <2>8, ServeLateInv
  <2>9. ASSUME NEW n \in Node, Crash(n) PROVE CoordInv'
    BY <1>1, <2>9, CrashInv
  <2> QED
    BY <1>1, <2>1, <2>2, <2>3, <2>4, <2>5, <2>6, <2>7, <2>8, <2>9 DEF Next
<1>2. ASSUME CoordInv, UNCHANGED vars PROVE CoordInv'
  BY <1>2, StutterInv
<1> QED
  BY <1>1, <1>2

(* The tables, the messages and the passes agree in every reachable state. *)
THEOREM CoordinatorInvariant == Spec => []CoordInv
BY InitInv, NextInv, PTL DEF Spec

(* Only the pass of an account creates a journal, its own. *)
OpenedInv == opened \subseteq Account

LEMMA OpenedStep ==
  ASSUME OpenedInv, [Next]_vars
  PROVE  OpenedInv'
<1> SUFFICES opened' = opened \/ \E a \in Account : opened' = opened \union {a}
  BY DEF OpenedInv
<1>1. ASSUME NEW t \in Task, Submit(t) \/ RequestWake(t) \/ RequestCancel(t) PROVE opened' = opened
  BY <1>1 DEF Submit, RequestWake, RequestCancel
<1>2. ASSUME ToggleMaintenance PROVE opened' = opened
  BY <1>2 DEF ToggleMaintenance
<1>3. ASSUME NEW s \in Step, CloseFailed(s) PROVE opened' = opened
  BY <1>3 DEF CloseFailed
<1>4. ASSUME GlobalAlarm PROVE opened' = opened
  BY <1>4 DEF GlobalAlarm
<1>5. ASSUME GlobalPass PROVE opened' = opened
  BY <1>5 DEF GlobalPass, GlobalStart, GlobalProceed, GlobalSend
<1>6. ASSUME NEW a \in Account, AccountAlarm(a) PROVE opened' = opened
  BY <1>6 DEF AccountAlarm
<1>7. ASSUME NEW a \in Account, AccountPass(a)
      PROVE  opened' = opened \/ opened' = opened \union {a}
  <2>1. CASE Open(a)
    BY <2>1 DEF Open
  <2>2. CASE ReadProgress(a) \/ WriteProgress(a) \/ SaveReceipts(a) \/ RestInDoubt(a) \/ NothingToRun(a)
    BY <2>2 DEF ReadProgress, WriteProgress, SaveReceipts, RestInDoubt, NothingToRun
  <2>3. CASE \E j \in Job : SendProgress(a, j) \/ SendComplete(a, j)
    BY <2>3 DEF SendProgress, SendComplete
  <2>4. CASE \E s \in Step : Heal(a, s) \/ Run(a, s)
    BY <2>4 DEF Heal, Run
  <2>5. CASE \E result \in Queue!Outcome, mutated \in BOOLEAN : Execute(a, result, mutated)
    BY <2>5 DEF Execute
  <2> QED
    BY <1>7, <2>1, <2>2, <2>3, <2>4, <2>5 DEF AccountPass
<1>8. ASSUME NEW c \in calls, Serve(c) \/ Return(c) \/ GiveUp(c) PROVE opened' = opened
  BY <1>8 DEF Serve, Return, GiveUp, Resume
<1>9. ASSUME NEW m \in late, ServeLate(m) PROVE opened' = opened
  BY <1>9 DEF ServeLate
<1>10. ASSUME NEW n \in Node, Crash(n) PROVE opened' = opened
  BY <1>10 DEF Crash
<1>11. ASSUME UNCHANGED vars PROVE opened' = opened
  BY <1>11 DEF vars
<1> QED
  BY <1>1, <1>2, <1>3, <1>4, <1>5, <1>6, <1>7, <1>8, <1>9, <1>10, <1>11 DEF Next

LEMMA CoordinatorTyped ==
  ASSUME CoordInv, OpenedInv
  PROVE  CoordinatorTypeOK
<1>1. TableInv /\ PassTypes /\ NetInv /\ Queue!TypeOK
  BY QueueTyped DEF CoordInv, TableInv, PassesInv
<1>2. Outbox!TypeOK
  BY <1>1 DEF TableInv, OP!DispatchInv, OP!TypeOK, Outbox!TypeOK, OP!Open, Outbox!Open
<1>3. /\ facts \in [Job -> [Ordinal -> SUBSET (Queue!Outcome \union {"skipped"})]]
      /\ known \in [Job -> [Ordinal -> {"none"} \union Queue!Outcome \union {"skipped"}]]
      /\ receipt \in [Job -> {"none", "saved", "acknowledged"}]
  <2>1. FactStates = {"none"} \union Queue!Outcome \union {"skipped"}
    BY DEF FactStates, Queue!Outcome
  <2>2. FactStates \ {"none"} = Queue!Outcome \union {"skipped"}
    BY DEF FactStates, Queue!Outcome
  <2> QED
    BY <1>1, <2>1, <2>2 DEF TableInv, TableTypes
<1>4. Messages = Message
  <2>1. FactStates = {"none"} \union Queue!Outcome \union {"skipped"} /\ Over = Queue!Terminal
    BY DEF FactStates, Queue!Outcome, Over, Queue!Terminal
  <2> QED
    BY <2>1 DEF Messages, Message
<1>5. (\A c \in calls : c.from \in Node /\ c.msg \in Message) /\ late \subseteq Message
  BY <1>1, <1>4 DEF NetInv, CallInv, Callers, MessageInv
<1> QED
  BY <1>1, <1>2, <1>3, <1>5 DEF CoordinatorTypeOK, PassTypes, OpenedInv

(* As long as a job is not over its account holds the permit, an account   *)
(* has one job that is open for the global object, and what was            *)
(* acknowledged was received: there is no timeout-based unlock             *)
(* (coordinator-runtime.ts:43-45).                                         *)
THEOREM PermitsCover == Spec => []PermitsCoverWork
<1>1. ASSUME CoordInv, OpenedInv PROVE PermitsCoverWork
  <2>1. /\ \A j \in Job : LinkInv(j)
        /\ state \in [Job -> {"absent", "pending", "sending", "accepted", "terminal"}]
        /\ OP!OnePermitPerAccount
    BY <1>1, TablesTyped DEF CoordInv, TableInv, OP!DispatchInv
  <2>2. PermitCoversWork
    BY <2>1 DEF PermitCoversWork, LinkInv, Queue!Unfinished, Outbox!Holding
  <2>3. OneOpenDelivery
    <3>1. SUFFICES ASSUME NEW i \in Job, NEW j \in Job, Owner[i] = Owner[j], i # j, Here(i), Here(j),
                          state[i] # "terminal", state[j] # "terminal"
                   PROVE  FALSE
      BY DEF OneOpenDelivery, Here
    <3>2. state[i] \in {"sending", "accepted"} /\ state[j] \in {"sending", "accepted"}
      BY <2>1, <3>1 DEF LinkInv, Sent
    <3> QED
      BY <2>1, <3>1, <3>2 DEF OP!OnePermitPerAccount, OP!Permits, OP!Holding
  <2>4. AcknowledgedIsReceived
    BY <2>1 DEF AcknowledgedIsReceived, LinkInv, Here, Over, Queue!Terminal
  <2> QED
    BY <1>1, <2>2, <2>3, <2>4, CoordinatorTyped DEF PermitsCoverWork
<1>2. Init => OpenedInv
  BY DEF Init, OpenedInv
<1>3. OpenedInv /\ [Next]_vars => OpenedInv'
  BY OpenedStep
<1> QED
  BY <1>1, <1>2, <1>3, CoordinatorInvariant, PTL DEF Spec

(* What the global object believes of a job is true: its outcome, and      *)
(* every fact of a step that it recorded (BusinessEffects.apply,           *)
(* assertComplete).                                                        *)
THEOREM Beliefs == Spec => []BeliefsAreTrue
<1>1. ASSUME CoordInv PROVE BeliefsAreTrue
  <2>1. \A j \in Job : LinkInv(j) /\ FactInv(j)
    BY <1>1 DEF CoordInv, TableInv
  <2>2. OutcomeIsTrue
    BY <2>1 DEF OutcomeIsTrue, LinkInv
  <2>3. FactsAreTrue
    BY <2>1 DEF FactsAreTrue, FactInv, Was, Settled
  <2> QED
    BY <2>2, <2>3 DEF BeliefsAreTrue
<1> QED
  BY <1>1, CoordinatorInvariant, PTL

(* Progress that counts as acknowledged is known to the global object, and *)
(* a receipt that does has given the permit back (saveProgress,            *)
(* saveReceipts).                                                          *)
THEOREM Acknowledged == Spec => []AcknowledgedIsKnown
<1>1. ASSUME CoordInv PROVE AcknowledgedIsKnown
  BY <1>1 DEF CoordInv, TableInv, FactInv, LinkInv, AcknowledgedIsKnown
<1> QED
  BY <1>1, CoordinatorInvariant, PTL

-----------------------------------------------------------------------------
(* The wake-ups: a step sets the alarm of an object, or it leaves the      *)
(* alarm alone and makes no work for the object.                           *)
Calm(n) == armed'[n] = armed[n] /\ failures'[n] = failures[n]
AccountAwake(a) == armed'[a] \/ (Calm(a) /\ (AccountWork(a)' => AccountWork(a)))
GlobalAwake == armed'[Global] \/ (Calm(Global) /\ (GlobalWork' => GlobalWork))
AllAwake == (\A a \in Account : AccountAwake(a)) /\ GlobalAwake

(* Nothing is added to what an account has to do. *)
OutboxKept(j) ==
  /\ progress'[j].version = progress[j].version /\ progress'[j].cancel = progress[j].cancel
  /\ progress[j].acked => progress'[j].acked
  /\ receipt'[j] \in {receipt[j], "acknowledged"}

LEMMA SameWork ==
  ASSUME NEW a \in Account, \A j \in Job : Owner[j] = a => RowsKept(j) /\ OutboxKept(j), wrote \subseteq wrote',
         a \in opened' => a \in opened
  PROVE  AccountWork(a)' => AccountWork(a)
<1>1. \A j \in Job : Owner[j] = a => (Changed(j)' <=> Changed(j))
  BY DEF RowsKept, OutboxKept, Changed
<1>2. \A s \in Step : Owner[s[1]] = a => StateOf(s)' = StateOf(s)
  BY DEF Step, StateOf, RowsKept
<1>3. Healable(a)' \subseteq Healable(a)
  BY <1>2 DEF Healable
<1>4. JobsOf(a)' = JobsOf(a)
  BY DEF JobsOf, RowsKept
<1>5. ASSUME NEW j \in JobsOf(a),
             \/ jobState'[j] \in {"queued", "running"}
             \/ jobState'[j] \in Queue!Terminal /\ receipt'[j] # "acknowledged"
             \/ Changed(j)' \/ ~progress'[j].acked
      PROVE  \/ jobState[j] \in {"queued", "running"}
             \/ jobState[j] \in Queue!Terminal /\ receipt[j] # "acknowledged"
             \/ Changed(j) \/ ~progress[j].acked
  <2>1. j \in Job /\ Owner[j] = a
    BY DEF JobsOf
  <2>2. RowsKept(j) /\ OutboxKept(j) /\ (Changed(j)' <=> Changed(j))
    BY <1>1, <2>1
  <2> QED
    BY <1>5, <2>2 DEF RowsKept, OutboxKept
<1>6. CASE Healable(a)' # {}
  BY <1>3, <1>6 DEF AccountWork
<1>7. CASE Healable(a)' = {}
  BY <1>4, <1>5, <1>7 DEF AccountWork
<1> QED
  BY <1>6, <1>7

LEMMA SameGlobalWork ==
  ASSUME UNCHANGED dispatchVars, UNCHANGED maintenance
  PROVE  GlobalWork' => GlobalWork
BY DEF dispatchVars, GlobalWork, Deliverable, Outbox!Permits, Outbox!Holding, Outbox!Heads, Outbox!Before,
       Outbox!Open, Outbox!PendingWakes, Outbox!PendingCancels

LEMMA QueueKept ==
  ASSUME UNCHANGED queueVars
  PROVE  \A j \in Job : RowsKept(j)
BY DEF queueVars, RowsKept

LEMMA OutboxSame ==
  ASSUME UNCHANGED outboxVars
  PROVE  \A j \in Job : OutboxKept(j)
BY DEF outboxVars, OutboxKept

(* Nothing but alarms, passes and messages changes, or less than that. *)
LEMMA CalmAwake ==
  ASSUME UNCHANGED alarmVars, UNCHANGED <<queueVars, dispatchVars, outboxVars>>, UNCHANGED maintenance,
         wrote \subseteq wrote', opened' = opened
  PROVE  AllAwake
<1>1. \A n : Calm(n)
  BY DEF Calm, alarmVars
<1>2. \A a \in Account : AccountWork(a)' => AccountWork(a)
  BY QueueKept, OutboxSame, SameWork
<1>3. GlobalWork' => GlobalWork
  BY SameGlobalWork
<1> QED
  BY <1>1, <1>2, <1>3 DEF AllAwake, AccountAwake, GlobalAwake

LEMMA WakeCalm ==
  ASSUME PassTypes, NEW n \in Node, Wake(n)
  PROVE  armed'[n] /\ \A k \in Node : k # n => Calm(k)
BY DEF Wake, Calm, PassTypes

LEMMA EndCalm ==
  ASSUME PassTypes, NEW n \in Node, NEW well, EndPass(n, well)
  PROVE  armed' = armed /\ \A k \in Node : k # n => Calm(k)
BY DEF EndPass, Calm, PassTypes

(* A step of the global pass, and of its users. *)
LEMMA GlobalStepAwake ==
  ASSUME armed'[Global], \A a \in Account : Calm(a), UNCHANGED <<queueVars, outboxVars, wrote, opened>>
  PROVE  AllAwake
<1>1. \A a \in Account : AccountWork(a)' => AccountWork(a)
  BY QueueKept, OutboxSame, SameWork
<1> QED
  BY <1>1 DEF AllAwake, AccountAwake, GlobalAwake

(* A step of an account whose alarm is set. *)
LEMMA AccountStepAwake ==
  ASSUME NEW a \in Account, armed'[a], \A k \in Node : k # a => Calm(k),
         UNCHANGED <<dispatchVars, maintenance>>, wrote \subseteq wrote', opened' \subseteq opened \union {a},
         \A j \in Job : Owner[j] # a => RowsKept(j) /\ OutboxKept(j)
  PROVE  AllAwake
<1>1. ASSUME NEW b \in Account, b # a PROVE AccountAwake(b)
  <2>1. AccountWork(b)' => AccountWork(b)
    BY <1>1, SameWork
  <2>2. Calm(b)
    BY <1>1 DEF Node
  <2> QED
    BY <2>1, <2>2 DEF AccountAwake
<1>2. GlobalAwake
  BY SameGlobalWork, Nodes, GlobalAssumption DEF GlobalAwake
<1> QED
  BY <1>1, <1>2 DEF AllAwake, AccountAwake

LEMMA ReceiveAwake ==
  ASSUME TableInv, PassTypes, NEW m, MessageInv(m), NEW r, Receive(m, r), UNCHANGED <<outboxVars, modeVars, wrote, opened>>
  PROVE  AllAwake
<1>1. PICK j \in Job : j = m.job
  BY DEF MessageInv, Messages
<1>2. UNCHANGED maintenance /\ UNCHANGED outboxVars /\ UNCHANGED <<wrote, opened>>
  BY DEF modeVars
<1>3. QP!QueueInv
  BY DEF TableInv
<1>4. PICK a \in Account : a = Owner[j] /\ a \in Node /\ a # Global
  BY QueueAssumption, GlobalAssumption DEF Node
<1>5. ASSUME Wake(a), UNCHANGED dispatchVars, \A k \in Job : k # j => RowsKept(k) PROVE AllAwake
  <2>1. armed'[a] /\ \A k \in Node : k # a => Calm(k)
    BY <1>4, <1>5, WakeCalm
  <2>2. \A k \in Job : Owner[k] # a => RowsKept(k) /\ OutboxKept(k)
    BY <1>2, <1>4, <1>5, OutboxSame
  <2> QED
    BY <1>2, <1>5, <2>1, <2>2, AccountStepAwake
<1>6. CASE m.method = "deliver" /\ ReceiveDeliver(m, r)
  <2>1. /\ Wake(a) /\ UNCHANGED dispatchVars
        /\ \/ \E c \in BOOLEAN : Queue!Enqueue(j, c)
           \/ Queue!CancelLocal(j)
           \/ UNCHANGED queueVars
    BY <1>1, <1>4, <1>6 DEF ReceiveDeliver
  <2>2. \A k \in Job : k # j => RowsKept(k)
    BY <1>3, <2>1, EnqueueMoves, CancelMoves, QueueKept
  <2> QED
    BY <1>5, <2>1, <2>2
<1>7. CASE m.method = "cancel" /\ ReceiveCancel(m, r)
  <2>1. CASE jobState[j] = "absent"
    <3>1. UNCHANGED <<queueVars, dispatchVars, outboxVars>> /\ UNCHANGED alarmVars
      BY <1>1, <1>2, <1>7, <2>1 DEF ReceiveCancel, Queue!Unfinished
    <3> QED
      BY <1>2, <3>1, CalmAwake
  <2>2. CASE jobState[j] # "absent"
    <3>1. Wake(a) /\ UNCHANGED dispatchVars /\ (Queue!CancelLocal(j) \/ UNCHANGED queueVars)
      BY <1>1, <1>4, <1>7, <2>2 DEF ReceiveCancel
    <3>2. \A k \in Job : k # j => RowsKept(k)
      BY <1>3, <3>1, CancelMoves, QueueKept
    <3> QED
      BY <1>5, <3>1, <3>2
  <2> QED
    BY <2>1, <2>2
<1>8. CASE m.method = "progress" /\ ReceiveProgress(m, r)
  <2>1. UNCHANGED <<queueVars, dispatchVars, outboxVars>> /\ UNCHANGED alarmVars
    BY <1>2, <1>8 DEF ReceiveProgress
  <2> QED
    BY <1>2, <2>1, CalmAwake
<1>9. CASE m.method = "complete" /\ ReceiveComplete(m, r)
  <2>1. Wake(Global) /\ UNCHANGED <<queueVars, outboxVars, wrote, opened>>
    BY <1>2, <1>9 DEF ReceiveComplete
  <2>2. armed'[Global] /\ \A b \in Account : Calm(b)
    BY <2>1, Nodes, GlobalAssumption, WakeCalm
  <2> QED
    BY <2>1, <2>2, GlobalStepAwake
<1> QED
  BY <1>6, <1>7, <1>8, <1>9 DEF Receive

LEMMA ResumeAwake ==
  ASSUME CoordInv, NEW c \in calls, NEW well \in BOOLEAN, Resume(c, well)
  PROVE  AllAwake
<1>1. PassTypes /\ CallInv(c) /\ c \in Callers /\ PassesInv /\ TableInv
  BY DEF CoordInv, PassesInv, NetInv, CallInv
<1>2. UNCHANGED queueVars /\ UNCHANGED <<wrote, opened>> /\ UNCHANGED maintenance
  BY DEF Resume, modeVars
<1>3. CASE c.from = Global
  <2>1. UNCHANGED outboxVars /\ UNCHANGED alarmVars
    BY <1>3 DEF Resume, GlobalResume
  <2>2. armed'[Global] /\ \A a : Calm(a)
    BY <1>1, <1>3, <2>1, Nodes DEF CallInv, PassesInv, PassInv, alarmVars, Calm
  <2> QED
    BY <1>2, <2>1, <2>2, GlobalStepAwake
<1>4. CASE c.from # Global
  <2>1. PICK j \in Job : j = c.msg.job
    BY <1>1 DEF Callers, Messages
  <2>2. AccountResume(c, well)
    BY <1>4 DEF Resume
  <2>3. UNCHANGED dispatchVars /\ \A n \in Node : Calm(n)
    <3>1. CASE well
      BY <2>2, <3>1 DEF AccountResume, alarmVars, Calm
    <3>2. CASE ~well
      <4>1. PICK n \in Node : n = c.from
        BY <1>1 DEF Callers
      <4>2. EndPass(n, FALSE) /\ UNCHANGED dispatchVars
        BY <2>2, <3>2, <4>1 DEF AccountResume
      <4>3. failures' = failures /\ armed' = armed
        BY <1>1, <4>2 DEF EndPass, PassTypes
      <4> QED
        BY <4>2, <4>3 DEF Calm
    <3> QED
      BY <3>1, <3>2
  <2>4. ASSUME NEW k \in Job PROVE OutboxKept(k)
    <3>1. progress \in [Job -> ProgressRows] /\ receipt \in [Job -> {"none", "saved", "acknowledged"}]
      BY <1>1, TablesTyped DEF TableTypes
    <3>2. CASE k # j
      <4>1. progress'[k] = progress[k] /\ receipt'[k] = receipt[k]
        BY <2>1, <2>2, <3>1, <3>2 DEF AccountResume
      <4> QED
        BY <4>1 DEF OutboxKept
    <3>3. CASE k = j
      <4>1. receipt'[j] \in {receipt[j], "acknowledged"}
        BY <2>1, <2>2, <3>1 DEF AccountResume
      <4>2. PICK x : x = (progress[j].acked \/ (well /\ c.msg.method = "progress" /\ progress[j].facts = c.msg.facts))
        OBVIOUS
      <4>3. progress'[j] = [progress[j] EXCEPT !.acked = x]
        BY <2>1, <2>2, <3>1, <4>2 DEF AccountResume
      <4>4. /\ progress'[j].version = progress[j].version /\ progress'[j].cancel = progress[j].cancel
            /\ progress'[j].acked = x
        BY <3>1, <4>3 DEF ProgressRows
      <4> QED
        BY <3>3, <4>1, <4>2, <4>4 DEF OutboxKept
    <3> QED
      BY <3>2, <3>3
  <2>5. \A a \in Account : AccountWork(a)' => AccountWork(a)
    BY <1>2, <2>4, QueueKept, SameWork
  <2>6. GlobalWork' => GlobalWork
    BY <1>2, <2>3, SameGlobalWork
  <2> QED
    BY <2>3, <2>5, <2>6, Nodes DEF AllAwake, AccountAwake, GlobalAwake
<1> QED
  BY <1>3, <1>4

LEMMA GlobalPassAwake ==
  ASSUME CoordInv, GlobalPass
  PROVE  AllAwake
<1>1. PassTypes /\ (pass[Global].at # "idle" => armed[Global])
  BY Nodes DEF CoordInv, PassesInv, PassInv
<1>2. UNCHANGED <<queueVars, outboxVars, wrote, opened>>
  BY DEF GlobalPass, GlobalStart, GlobalSend, GlobalProceed
<1>3. pass[Global].at # "idle"
  BY <1>1 DEF GlobalPass, GlobalStart, GlobalSend, GlobalProceed, PassTypes
<1>4. UNCHANGED alarmVars \/ \E well : EndPass(Global, well)
  BY DEF GlobalPass, GlobalStart, GlobalSend, GlobalProceed
<1>5. armed'[Global] /\ \A a \in Account : Calm(a)
  <2>1. CASE UNCHANGED alarmVars
    BY <1>1, <1>3, <2>1 DEF alarmVars, Calm
  <2>2. ASSUME NEW well, EndPass(Global, well) PROVE armed'[Global] /\ \A a \in Account : Calm(a)
    BY <1>1, <1>3, <2>2, Nodes, GlobalAssumption, EndCalm
  <2> QED
    BY <1>4, <2>1, <2>2
<1> QED
  BY <1>2, <1>5, GlobalStepAwake

LEMMA AccountPassAwake ==
  ASSUME CoordInv, NEW a \in Account, AccountPass(a)
  PROVE  AllAwake
<1>1. TableInv /\ QP!QueueInv /\ PassesInv /\ PassTypes /\ a \in Node /\ a # Global /\ PassInv(a)
  BY GlobalAssumption DEF CoordInv, TableInv, PassesInv, Node
<1>2. pass[a].at # "idle" /\ UNCHANGED dispatchVars /\ UNCHANGED maintenance
  BY DEF AccountPass, ReadProgress, WriteProgress, SaveReceipts, RestInDoubt, SendProgress, SendComplete,
         Heal, Run, NothingToRun, Open, Execute, Reported, modeVars
<1>3. UNCHANGED alarmVars \/ \E well : EndPass(a, well)
  BY DEF AccountPass, ReadProgress, WriteProgress, SaveReceipts, RestInDoubt, SendProgress, SendComplete,
         Heal, Run, NothingToRun, Open, Execute
<1>4. armed'[a] /\ \A k \in Node : k # a => Calm(k)
  <2>1. CASE UNCHANGED alarmVars
    BY <1>1, <1>2, <2>1 DEF alarmVars, Calm, PassInv
  <2>2. ASSUME NEW well, EndPass(a, well) PROVE armed'[a] /\ \A k \in Node : k # a => Calm(k)
    BY <1>1, <1>2, <2>2, EndCalm DEF PassInv
  <2> QED
    BY <1>3, <2>1, <2>2
<1>5. ASSUME UNCHANGED <<queueVars, outboxVars>> PROVE \A j \in Job : RowsKept(j) /\ OutboxKept(j)
  BY <1>5, QueueKept, OutboxSame
<1>6. ASSUME NEW s \in Step, Owner[s[1]] = a, NEW r \in {"verified", "failed", "unknown"}, NEW e \in Evidence,
             StateOf(s) \in {"in_flight", "unknown"}, Queue!Record(s[1], s[2], r, e), UNCHANGED outboxVars
      PROVE  \A j \in Job : Owner[j] # a => RowsKept(j) /\ OutboxKept(j)
  <2>1. PICK j \in Job, o \in Ordinal : j = s[1] /\ o = s[2]
    BY DEF Step
  <2>2. stepState[j][o] \in {"in_flight", "unknown"} /\ Queue!Record(j, o, r, e)
    BY <1>6, <2>1 DEF StateOf
  <2>3. \A k \in Job : k # j => RowsKept(k)
    BY <1>1, <2>2, RecordMoves
  <2> QED
    BY <1>6, <2>1, <2>3, OutboxSame
<1>7. (\A j \in Job : Owner[j] # a => RowsKept(j) /\ OutboxKept(j)) /\ wrote \subseteq wrote' /\ opened' \subseteq opened \union {a}
  <2>1. CASE ReadProgress(a) \/ RestInDoubt(a) \/ NothingToRun(a) \/ \E j \in Job : SendProgress(a, j) \/ SendComplete(a, j)
    <3>1. UNCHANGED <<queueVars, outboxVars>> /\ wrote' = wrote /\ opened' = opened
      BY <2>1 DEF ReadProgress, RestInDoubt, NothingToRun, SendProgress, SendComplete
    <3> QED
      BY <1>5, <3>1
  <2>2. CASE WriteProgress(a)
    <3>1. draft[a].job \in Job /\ Owner[draft[a].job] = a
      BY <1>1, <2>2 DEF WriteProgress, PassInv, DraftInv
    <3>2. /\ progress' = [progress EXCEPT ![draft[a].job] = draft[a].row] /\ UNCHANGED queueVars
          /\ receipt' = receipt /\ wrote' = wrote /\ opened' = opened
      BY <2>2 DEF WriteProgress
    <3>3. \A j \in Job : Owner[j] # a => progress'[j] = progress[j]
      BY <1>1, <3>1, <3>2, TablesTyped DEF TableTypes
    <3> QED
      BY <3>2, <3>3, QueueKept DEF OutboxKept
  <2>3. CASE SaveReceipts(a)
    <3>1. /\ receipt' = [j \in Job |-> IF Owner[j] = a /\ jobState[j] \in Queue!Terminal /\ receipt[j] = "none"
                                       THEN "saved" ELSE receipt[j]]
          /\ progress' = progress /\ UNCHANGED queueVars /\ wrote' = wrote /\ opened' = opened
      BY <2>3 DEF SaveReceipts
    <3>2. \A j \in Job : Owner[j] # a => receipt'[j] = receipt[j]
      BY <3>1
    <3> QED
      BY <3>1, <3>2, QueueKept DEF OutboxKept
  <2>4. ASSUME NEW s \in Step, Heal(a, s)
        PROVE  (\A j \in Job : Owner[j] # a => RowsKept(j) /\ OutboxKept(j)) /\ wrote \subseteq wrote' /\ opened' \subseteq opened \union {a}
    <3>1. PICK e \in Evidence : Queue!Record(s[1], s[2], "failed", e) /\ StateOf(s) \in {"in_flight", "unknown"}
      BY <2>4 DEF Heal, Queue!Reconcile, StateOf
    <3>2. Owner[s[1]] = a /\ UNCHANGED outboxVars /\ wrote' = wrote /\ opened' = opened
      BY <2>4 DEF Heal, Healable
    <3> QED
      BY <1>6, <3>1, <3>2
  <2>5. ASSUME NEW s \in Step, Run(a, s)
        PROVE  (\A j \in Job : Owner[j] # a => RowsKept(j) /\ OutboxKept(j)) /\ wrote \subseteq wrote' /\ opened' \subseteq opened \union {a}
    <3>1. PICK j \in Job, o \in Ordinal : j = s[1] /\ o = s[2]
      BY DEF Step
    <3>2. Owner[j] = a /\ UNCHANGED outboxVars /\ wrote' = wrote /\ opened' = opened /\ (UNCHANGED queueVars \/ Queue!Claim(a, j, o))
      BY <2>5, <3>1 DEF Run
    <3>3. \A k \in Job : k # j => RowsKept(k)
      BY <1>1, <3>2, ClaimMoves, QueueKept
    <3> QED
      BY <3>2, <3>3, OutboxSame
  <2>6. ASSUME NEW r \in Queue!Outcome, NEW mutated \in BOOLEAN, Execute(a, r, mutated)
        PROVE  (\A j \in Job : Owner[j] # a => RowsKept(j) /\ OutboxKept(j)) /\ wrote \subseteq wrote' /\ opened' \subseteq opened \union {a}
    <3>1. PICK s \in Step : s = pass[a].step /\ Owner[s[1]] = a
      BY <1>1, <2>6 DEF Execute, PassInv
    <3>2. PICK e \in Evidence : Queue!Finish(s[1], s[2], token[s[1]][s[2]], r, e)
      BY <2>6, <3>1 DEF Execute
    <3>3. Queue!Record(s[1], s[2], r, e) /\ StateOf(s) \in {"in_flight", "unknown"}
          /\ r \in {"verified", "failed", "unknown"}
      BY <3>2 DEF Queue!Finish, StateOf, Queue!Outcome
    <3>4. UNCHANGED outboxVars /\ wrote \subseteq wrote' /\ opened' = opened
      BY <2>6 DEF Execute
    <3> QED
      BY <1>6, <3>1, <3>3, <3>4
  <2>7. CASE Open(a)
    <3>1. UNCHANGED <<queueVars, outboxVars>> /\ wrote' = wrote /\ opened' = opened \union {a}
      BY <2>7 DEF Open
    <3> QED
      BY <1>5, <3>1
  <2> QED
    BY <2>1, <2>2, <2>3, <2>4, <2>5, <2>6, <2>7 DEF AccountPass
<1> QED
  BY <1>2, <1>4, <1>7, AccountStepAwake

(* An object that may sleep had its alarm unset before. *)
LEMMA AwakeKept ==
  ASSUME CoordInv, NoWakeUpIsLost, toggles = 0, AllAwake
  PROVE  (\A a \in Account : Asleep(a)' => ~AccountWork(a)') /\ (Asleep(Global)' => ~GlobalWork')
<1>1. \A n \in Node : armed[n] \/ pass[n].at = "idle"
  BY DEF CoordInv, PassesInv, PassInv
<1>2. ASSUME NEW n \in Node, Asleep(n)', Calm(n) PROVE Asleep(n)
  BY <1>1, <1>2 DEF Asleep, Calm
<1>3. ASSUME NEW a \in Account, Asleep(a)' PROVE ~AccountWork(a)'
  <2>1. Calm(a) /\ (AccountWork(a)' => AccountWork(a))
    BY <1>3 DEF AllAwake, AccountAwake, Asleep
  <2>2. Asleep(a)
    BY <1>2, <1>3, <2>1, Nodes
  <2> QED
    BY <2>1, <2>2 DEF NoWakeUpIsLost
<1>4. ASSUME Asleep(Global)' PROVE ~GlobalWork'
  <2>1. Calm(Global) /\ (GlobalWork' => GlobalWork)
    BY <1>4 DEF AllAwake, GlobalAwake, Asleep
  <2>2. Asleep(Global)
    BY <1>2, <1>4, <2>1, Nodes
  <2> QED
    BY <2>1, <2>2 DEF NoWakeUpIsLost
<1> QED
  BY <1>3, <1>4

(* An object goes to sleep at an alarm, without work or without budget. *)
LEMMA AlarmAwake ==
  ASSUME PassTypes, NEW n \in Node, NEW work, NEW first, Alarm(n, work, first)
  PROVE  /\ \A k \in Node : k # n => Calm(k)
         /\ armed'[n] \/ failures'[n] >= Budget \/ ~work
<1>1. /\ armed \in [Node -> BOOLEAN] /\ failures \in [Node -> 0..Budget] /\ armed[n]
      /\ Budget \in Nat
  BY BudgetAssumption DEF PassTypes, Alarm
<1>2. CASE work /\ failures[n] < Budget
  <2>1. failures' = [failures EXCEPT ![n] = @ + 1] /\ armed' = armed
    BY <1>2 DEF Alarm
  <2> QED
    BY <1>1, <2>1 DEF Calm
<1>3. CASE ~(work /\ failures[n] < Budget)
  <2>1. armed' = [armed EXCEPT ![n] = FALSE] /\ failures' = failures
    BY <1>3 DEF Alarm
  <2>2. failures[n] \in Int
    BY <1>1
  <2>3. failures'[n] >= Budget \/ ~work
    BY <1>1, <1>3, <2>1, <2>2
  <2>4. \A k \in Node : k # n => Calm(k)
    BY <1>1, <2>1 DEF Calm
  <2> QED
    BY <2>3, <2>4
<1> QED
  BY <1>2, <1>3

LEMMA AlarmsAwake ==
  ASSUME CoordInv, NoWakeUpIsLost, toggles = 0, NEW n \in Node,
         NEW work, NEW first, Alarm(n, work, first),
         n = Global => (GlobalWork => work), n # Global => (AccountWork(n) => work),
         UNCHANGED <<queueVars, dispatchVars, outboxVars>>, UNCHANGED <<modeVars, wrote, opened>>
  PROVE  (\A a \in Account : Asleep(a)' => ~AccountWork(a)') /\ (Asleep(Global)' => ~GlobalWork')
<1>1. /\ \A k \in Node : k # n => Calm(k)
      /\ armed'[n] \/ failures'[n] >= Budget \/ ~work
  BY AlarmAwake DEF CoordInv, PassesInv
<1>2. (\A a \in Account : AccountWork(a)' => AccountWork(a)) /\ (GlobalWork' => GlobalWork)
  BY QueueKept, OutboxSame, SameWork, SameGlobalWork DEF modeVars
<1>3. \A k \in Node : armed[k] \/ pass[k].at = "idle"
  BY DEF CoordInv, PassesInv, PassInv
<1>4. ASSUME Asleep(n)' PROVE ~work
  <2>1. ~armed'[n] /\ failures'[n] < Budget /\ failures'[n] \in Int /\ Budget \in Int
    <3>1. failures' \in [Node -> Int]
      <4>1. failures \in [Node -> 0..Budget] /\ Budget \in Nat
        BY BudgetAssumption DEF CoordInv, PassesInv, PassTypes
      <4> QED
        BY <4>1 DEF Alarm
    <3> QED
      BY <1>4, <3>1, BudgetAssumption DEF Asleep
  <2> QED
    BY <1>1, <2>1
<1>5. ASSUME NEW k \in Node, k # n, Asleep(k)' PROVE Asleep(k)
  BY <1>1, <1>3, <1>5 DEF Asleep, Calm
<1>6. ASSUME NEW a \in Account, Asleep(a)' PROVE ~AccountWork(a)'
  <2>1. CASE a = n
    BY <1>2, <1>4, <1>6, <2>1, GlobalAssumption
  <2>2. CASE a # n
    BY <1>2, <1>5, <1>6, <2>2, Nodes DEF NoWakeUpIsLost
  <2> QED
    BY <2>1, <2>2
<1>7. ASSUME Asleep(Global)' PROVE ~GlobalWork'
  <2>1. CASE Global = n
    BY <1>2, <1>4, <1>7, <2>1
  <2>2. CASE Global # n
    BY <1>2, <1>5, <1>7, <2>2, Nodes DEF NoWakeUpIsLost
  <2> QED
    BY <2>1, <2>2
<1> QED
  BY <1>6, <1>7

LEMMA NextAwake ==
  ASSUME CoordInv, NoWakeUpIsLost, Next
  PROVE  NoWakeUpIsLost'
<1>1. PassTypes /\ NetInv /\ TableInv /\ (toggles = 0 => ~maintenance)
  BY DEF CoordInv, PassesInv, PassTypes
<1>2. SUFFICES ASSUME toggles' = 0
               PROVE  (\A a \in Account : Asleep(a)' => ~AccountWork(a)') /\ (Asleep(Global)' => ~GlobalWork')
  BY DEF NoWakeUpIsLost
<1> DEFINE Goal == (\A a \in Account : Asleep(a)' => ~AccountWork(a)') /\ (Asleep(Global)' => ~GlobalWork')
<1>3. ASSUME toggles = 0, AllAwake PROVE Goal
  BY <1>3, AwakeKept
<1> HIDE DEF Goal
<1>4. ASSUME NEW t \in Task, Submit(t) \/ RequestWake(t) \/ RequestCancel(t) PROVE Goal
  <2>1. Wake(Global) /\ UNCHANGED <<queueVars, outboxVars, wrote, opened>> /\ toggles = 0
    BY <1>2, <1>4 DEF Submit, RequestWake, RequestCancel, modeVars
  <2>2. armed'[Global] /\ \A a \in Account : Calm(a)
    BY <1>1, <2>1, WakeCalm, Nodes, GlobalAssumption
  <2> QED
    BY <1>3, <2>1, <2>2, GlobalStepAwake
<1>5. ASSUME ToggleMaintenance PROVE Goal
  BY <1>1, <1>2, <1>5 DEF ToggleMaintenance, PassTypes
<1>6. ASSUME NEW s \in Step, CloseFailed(s) PROVE Goal
  BY <1>1, <1>2, <1>6 DEF CloseFailed, modeVars
<1>7. ASSUME GlobalAlarm PROVE Goal
  <2>1. /\ Alarm(Global, GlobalWork, "start") /\ UNCHANGED <<queueVars, dispatchVars, outboxVars>>
        /\ UNCHANGED <<modeVars, wrote, opened>> /\ toggles = 0
    BY <1>2, <1>7 DEF GlobalAlarm, modeVars
  <2> QED
    BY <2>1, Nodes, AlarmsAwake DEF Goal
<1>8. ASSUME NEW a \in Account, AccountAlarm(a) PROVE Goal
  <2>1. /\ Alarm(a, AccountWork(a), "reading") /\ UNCHANGED <<queueVars, dispatchVars, outboxVars>>
        /\ UNCHANGED <<modeVars, wrote, opened>> /\ toggles = 0
    BY <1>2, <1>8 DEF AccountAlarm, modeVars
  <2> QED
    BY <2>1, Nodes, GlobalAssumption, AlarmsAwake DEF Goal
<1>9. ASSUME GlobalPass PROVE Goal
  <2>1. toggles = 0
    BY <1>2, <1>9 DEF GlobalPass, GlobalStart, GlobalSend, GlobalProceed, modeVars
  <2> QED
    BY <1>3, <1>9, <2>1, GlobalPassAwake
<1>10. ASSUME NEW a \in Account, AccountPass(a) PROVE Goal
  <2>1. toggles = 0
    BY <1>2, <1>10 DEF AccountPass, ReadProgress, WriteProgress, SaveReceipts, RestInDoubt, SendProgress,
                       SendComplete, Heal, Run, NothingToRun, Open, Execute, modeVars
  <2> QED
    BY <1>3, <1>10, <2>1, AccountPassAwake
<1>11. ASSUME NEW c \in calls, Serve(c) PROVE Goal
  <2>1. /\ \E r : Receive(c.msg, r)
        /\ UNCHANGED <<outboxVars, modeVars, wrote, opened>> /\ toggles = 0 /\ MessageInv(c.msg)
    BY <1>1, <1>2, <1>11 DEF Serve, modeVars, NetInv, CallInv
  <2> QED
    BY <1>1, <1>3, <2>1, ReceiveAwake
<1>12. ASSUME NEW m \in late, ServeLate(m) PROVE Goal
  <2>1. /\ \E r : Receive(m, r)
        /\ UNCHANGED <<outboxVars, modeVars, wrote, opened>> /\ toggles = 0 /\ MessageInv(m)
    BY <1>1, <1>2, <1>12 DEF ServeLate, modeVars, NetInv
  <2> QED
    BY <1>1, <1>3, <2>1, ReceiveAwake
<1>13. ASSUME NEW c \in calls, Return(c) \/ GiveUp(c) PROVE Goal
  <2>1. \E well \in BOOLEAN : Resume(c, well)
    BY <1>13 DEF Return, GiveUp
  <2>2. toggles = 0
    BY <1>2, <2>1 DEF Resume, modeVars
  <2> QED
    BY <1>3, <2>1, <2>2, ResumeAwake
<1>14. ASSUME NEW n \in Node, Crash(n) PROVE Goal
  <2>1. /\ UNCHANGED alarmVars /\ UNCHANGED <<queueVars, dispatchVars, outboxVars>> /\ UNCHANGED maintenance
        /\ wrote \subseteq wrote' /\ opened' = opened /\ toggles = 0
    BY <1>2, <1>14 DEF Crash, modeVars
  <2> QED
    BY <1>3, <2>1, CalmAwake
<1> QED
  BY <1>4, <1>5, <1>6, <1>7, <1>8, <1>9, <1>10, <1>11, <1>12, <1>13, <1>14 DEF Next, Goal

LEMMA InitAwake == Init => NoWakeUpIsLost
<1> SUFFICES ASSUME Init PROVE NoWakeUpIsLost
  OBVIOUS
<1>1. \A a \in Account : ~AccountWork(a)
  <2>1. \A j \in Job : jobState[j] = "absent" /\ \A o \in Ordinal : stepState[j][o] = "absent"
    BY DEF Init, Queue!Init, Ordinal
  <2> QED
    BY <2>1 DEF AccountWork, JobsOf, Healable, StateOf, Step
<1>2. ~GlobalWork
  <2>1. \A j \in Job : state[j] = "absent" /\ wake[j] = 0 /\ cancelRow[j] = "none"
    BY DEF Init, Outbox!Init
  <2> QED
    BY <2>1 DEF GlobalWork, Deliverable, Outbox!Heads, Outbox!PendingWakes, Outbox!PendingCancels,
                Outbox!Open, Outbox!Holding
<1> QED
  BY <1>1, <1>2 DEF NoWakeUpIsLost

(* An object that has work, and budget, has an alarm or a pass             *)
(* (DurableWakeup.beforePass): nothing that makes work forgets to wake.    *)
THEOREM WakeUps == Spec => []NoWakeUpIsLost
<1>1. CoordInv /\ NoWakeUpIsLost /\ [Next]_vars => NoWakeUpIsLost'
  <2>1. ASSUME CoordInv, NoWakeUpIsLost, Next PROVE NoWakeUpIsLost'
    BY <2>1, NextAwake
  <2>2. ASSUME CoordInv, NoWakeUpIsLost, UNCHANGED vars PROVE NoWakeUpIsLost'
    <3>1. /\ UNCHANGED alarmVars /\ UNCHANGED <<queueVars, dispatchVars, outboxVars>> /\ UNCHANGED maintenance
          /\ wrote \subseteq wrote' /\ opened' = opened /\ toggles' = toggles
      BY <2>2 DEF vars, modeVars
    <3> QED
      BY <2>2, <3>1, CalmAwake, AwakeKept DEF NoWakeUpIsLost
  <2> QED
    BY <2>1, <2>2
<1> QED
  BY <1>1, InitAwake, CoordinatorInvariant, PTL DEF Spec

-----------------------------------------------------------------------------
(* The objects implement their tables: what the coordination does to an    *)
(* account is what AccountQueue does, what it does to the outbox is what   *)
(* TaskDispatch does.                                                      *)
TokensAreMinted == \A j \in Job : \A o \in Ordinal : token[j][o] <= minted

LEMMA MintedTokens ==
  ASSUME QP!QueueInv, TokensAreMinted, NEW j \in Job, NEW o \in Ordinal, token[j][o] > 0
  PROVE  token[j][o] \in 1..minted
<1>1. token \in [Job -> [Ordinal -> Nat]] /\ minted \in Nat
  BY DEF QP!QueueInv, QP!TypeOK, Ordinal, Queue!Ordinal, QP!Ordinal
<1>2. token[j][o] \in Nat
  BY <1>1
<1> QED
  BY <1>1, <1>2 DEF TokensAreMinted

(* A claim draws the next token; nothing else changes a token.             *)
LEMMA TokensNext ==
  ASSUME QP!QueueInv, TokensAreMinted, Queue!Next \/ UNCHANGED queueVars
  PROVE  TokensAreMinted'
<1>1. token \in [Job -> [Ordinal -> Nat]] /\ minted \in Nat
  BY DEF QP!QueueInv, QP!TypeOK, Ordinal, Queue!Ordinal, QP!Ordinal
<1>2. CASE UNCHANGED <<token, minted>>
  BY <1>2 DEF TokensAreMinted
<1>3. ASSUME NEW j \in Job, NEW o \in Ordinal,
             minted' = minted + 1, token' = [token EXCEPT ![j] = [@ EXCEPT ![o] = minted + 1]]
      PROVE  TokensAreMinted'
  <2>1. ASSUME NEW k \in Job, NEW p \in Ordinal PROVE token'[k][p] <= minted'
    <3>1. token[k][p] \in Nat /\ token[k][p] <= minted
      BY <1>1 DEF TokensAreMinted
    <3>2. token'[k][p] = IF k = j /\ p = o THEN minted + 1 ELSE token[k][p]
      BY <1>1, <1>3
    <3> QED
      BY <1>1, <1>3, <3>1, <3>2
  <2> QED
    BY <2>1 DEF TokensAreMinted
<1>4. CASE Queue!Start
  <2>1. PICK a \in Account, j \in Job, o \in Ordinal : Queue!Claim(a, j, o)
    BY <1>4 DEF Queue!Start, Ordinal
  <2>2. minted' = minted + 1 /\ token' = [token EXCEPT ![j] = [@ EXCEPT ![o] = minted + 1]]
    BY <2>1 DEF Queue!Claim
  <2> QED
    BY <1>3, <2>2
<1>5. CASE Queue!Deliver \/ Queue!Cancel
  BY <1>2, <1>5 DEF Queue!Deliver, Queue!Cancel, Queue!Enqueue, Queue!CancelLocal
<1>6. CASE Queue!Report \/ Queue!Review
  <2>1. PICK j \in Job, o \in Queue!Ordinal, t \in 1..minted, r \in Queue!Outcome, e \in Evidence :
               Queue!Finish(j, o, t, r, e) \/ Queue!Reconcile(j, o, t, r, e)
    BY <1>6 DEF Queue!Report, Queue!Review
  <2>2. Queue!Record(j, o, r, e)
    BY <2>1 DEF Queue!Finish, Queue!Reconcile
  <2>3. UNCHANGED <<token, minted>>
    BY <2>2 DEF Queue!Record
  <2> QED
    BY <1>2, <2>3
<1>7. CASE UNCHANGED queueVars
  BY <1>2, <1>7 DEF queueVars
<1> QED
  BY <1>4, <1>5, <1>6, <1>7 DEF Queue!Next

LEMMA ReviewedStep ==
  ASSUME QP!QueueInv, TokensAreMinted, NEW s \in Step, NEW e \in Evidence,
         Queue!Reconcile(s[1], s[2], token[s[1]][s[2]], "failed", e)
  PROVE  Queue!Next
<1>1. PICK j \in Job, o \in Ordinal : j = s[1] /\ o = s[2]
  BY DEF Step
<1>2. Queue!Reconcile(j, o, token[j][o], "failed", e)
  BY <1>1
<1>3. token[j][o] \in 1..minted
  BY <1>2, MintedTokens DEF Queue!Reconcile
<1>4. Queue!Review
  BY <1>2, <1>3 DEF Queue!Review, Queue!Outcome, Ordinal
<1> QED
  BY <1>4 DEF Queue!Next

LEMMA ReceiveQueue ==
  ASSUME NEW m, MessageInv(m), NEW r, Receive(m, r)
  PROVE  Queue!Next \/ UNCHANGED queueVars
<1>1. PICK j \in Job : j = m.job
  BY DEF MessageInv, Messages
<1>2. \/ \E c \in BOOLEAN : Queue!Enqueue(j, c)
      \/ Queue!CancelLocal(j)
      \/ UNCHANGED queueVars
  BY <1>1 DEF Receive, ReceiveDeliver, ReceiveCancel, ReceiveProgress, ReceiveComplete
<1> QED
  BY <1>2 DEF Queue!Next, Queue!Deliver, Queue!Cancel

LEMMA QueueStep ==
  ASSUME CoordInv, TokensAreMinted, [Next]_vars
  PROVE  Queue!Next \/ UNCHANGED queueVars
<1>1. TableInv /\ QP!QueueInv /\ NetInv /\ PassesInv
  BY DEF CoordInv, TableInv
<1>2. ASSUME NEW s \in Step, CloseFailed(s) PROVE Queue!Next
  BY <1>1, <1>2, ReviewedStep DEF CloseFailed
<1>3. ASSUME NEW a \in Account, AccountPass(a) PROVE Queue!Next \/ UNCHANGED queueVars
  <2>1. ASSUME NEW s \in Step, Heal(a, s) PROVE Queue!Next
    BY <1>1, <2>1, ReviewedStep DEF Heal
  <2>2. ASSUME NEW s \in Step, Run(a, s) PROVE Queue!Next \/ UNCHANGED queueVars
    <3>1. PICK j \in Job, o \in Ordinal : j = s[1] /\ o = s[2]
      BY DEF Step
    <3>2. UNCHANGED queueVars \/ Queue!Claim(a, j, o)
      BY <2>2, <3>1 DEF Run
    <3>3. Queue!Claim(a, j, o) => Queue!Start
      BY DEF Queue!Start, Ordinal
    <3> QED
      BY <3>2, <3>3 DEF Queue!Next
  <2>3. ASSUME NEW r \in Queue!Outcome, NEW mutated \in BOOLEAN, Execute(a, r, mutated) PROVE Queue!Next
    <3>1. PICK s \in Step : s = pass[a].step
      BY <1>1, <2>3, Nodes DEF Execute, PassesInv, PassInv
    <3>2. PICK j \in Job, o \in Ordinal : j = s[1] /\ o = s[2]
      BY DEF Step
    <3>3. PICK e \in Evidence : Queue!Finish(j, o, token[j][o], r, e)
      BY <2>3, <3>1, <3>2 DEF Execute
    <3>4. token[j][o] \in 1..minted
      BY <1>1, <3>3, MintedTokens DEF Queue!Finish
    <3>5. Queue!Report
      BY <3>3, <3>4 DEF Queue!Report, Ordinal
    <3> QED
      BY <3>5 DEF Queue!Next
  <2>4. CASE \/ ReadProgress(a) \/ WriteProgress(a) \/ SaveReceipts(a) \/ RestInDoubt(a) \/ NothingToRun(a) \/ Open(a)
             \/ \E j \in Job : SendProgress(a, j) \/ SendComplete(a, j)
    BY <2>4 DEF ReadProgress, WriteProgress, SaveReceipts, RestInDoubt, NothingToRun, Open, SendProgress, SendComplete
  <2> QED
    BY <1>3, <2>1, <2>2, <2>3, <2>4 DEF AccountPass
<1>4. ASSUME NEW c \in calls, Serve(c) PROVE Queue!Next \/ UNCHANGED queueVars
  BY <1>1, <1>4, ReceiveQueue DEF Serve, NetInv, CallInv
<1>5. ASSUME NEW m \in late, ServeLate(m) PROVE Queue!Next \/ UNCHANGED queueVars
  BY <1>1, <1>5, ReceiveQueue DEF ServeLate, NetInv
<1>6. ASSUME NEW c \in calls, Return(c) \/ GiveUp(c) PROVE UNCHANGED queueVars
  BY <1>6 DEF Return, GiveUp, Resume
<1>7. CASE GlobalAlarm \/ GlobalPass \/ ToggleMaintenance \/ \E a \in Account : AccountAlarm(a)
  BY <1>7 DEF GlobalAlarm, GlobalPass, GlobalStart, GlobalSend, GlobalProceed, ToggleMaintenance, AccountAlarm
<1>8. ASSUME NEW t \in Task, Submit(t) \/ RequestWake(t) \/ RequestCancel(t) PROVE UNCHANGED queueVars
  BY <1>8 DEF Submit, RequestWake, RequestCancel
<1>9. ASSUME NEW n \in Node, Crash(n) PROVE UNCHANGED queueVars
  BY <1>9 DEF Crash
<1>10. CASE UNCHANGED vars
  BY <1>10 DEF vars
<1>11. CASE Next
  BY <1>2, <1>3, <1>4, <1>5, <1>6, <1>7, <1>8, <1>9, <1>11 DEF Next
<1> QED
  BY <1>10, <1>11

(* The accounts implement their queues: all that is proved of AccountQueue *)
(* holds while deliveries and cancellations are lost, doubled and late.    *)
THEOREM CoordinatorImplementsQueue == Spec => Queue!Spec
<1>1. Init => Queue!Init /\ TokensAreMinted
  BY DEF Init, Queue!Init, TokensAreMinted, Queue!Ordinal, Ordinal
<1>2. CoordInv /\ TokensAreMinted /\ [Next]_vars => TokensAreMinted'
  BY QueueStep, TokensNext DEF CoordInv, TableInv
<1>3. CoordInv /\ TokensAreMinted /\ [Next]_vars => [Queue!Next]_(Queue!queueVars)
  BY QueueStep DEF queueVars, Queue!queueVars
<1> QED
  BY <1>1, <1>2, <1>3, CoordinatorInvariant, PTL DEF Spec, Queue!Spec

(* What happens to the outbox. *)
DispatchStep ==
  \/ \E t \in Task : Outbox!Submit(t) \/ Outbox!RequestWake(t) \/ Outbox!RequestCancel(t)
  \/ \E R \in SUBSET Job : Outbox!Reserve(R)
  \/ \E j \in Job :
       \/ Outbox!Acknowledge(j, permit[j]) \/ Outbox!AcknowledgeCancel(j, permit[j])
       \/ \E r \in Over : Outbox!Complete(j, permit[j], r)
       \/ \E q \in Nat : q > 0 /\ Outbox!AcknowledgeWake(j, permit[j], q)

LEMMA ReceiveDispatch ==
  ASSUME NEW m, MessageInv(m), NEW r, Receive(m, r)
  PROVE  DispatchStep \/ UNCHANGED dispatchVars
<1>1. PICK j \in Job : j = m.job
  BY DEF MessageInv, Messages
<1>2. m.method = "complete" => m.word \in Over
  BY DEF MessageInv
<1>3. \/ m.method = "complete" /\ Outbox!Complete(j, permit[j], m.word)
      \/ UNCHANGED dispatchVars
  BY <1>1 DEF Receive, ReceiveDeliver, ReceiveCancel, ReceiveProgress, ReceiveComplete
<1> QED
  BY <1>2, <1>3 DEF DispatchStep

LEMMA ResumeDispatch ==
  ASSUME NEW c, CallInv(c), NEW well \in BOOLEAN, Resume(c, well)
  PROVE  DispatchStep \/ UNCHANGED dispatchVars
<1>1. PICK j \in Job : j = c.msg.job
  BY DEF CallInv, Callers, Messages
<1>2. c.request \in Nat
  BY DEF CallInv, Callers
<1>3. \/ UNCHANGED dispatchVars
      \/ Outbox!AcknowledgeCancel(j, permit[j])
      \/ c.request > 0 /\ Outbox!AcknowledgeWake(j, permit[j], c.request)
      \/ Outbox!Acknowledge(j, permit[j])
  BY <1>1 DEF Resume, GlobalResume, AccountResume
<1> QED
  BY <1>2, <1>3 DEF DispatchStep

LEMMA EveryDispatch ==
  ASSUME CoordInv, [Next]_vars
  PROVE  DispatchStep \/ UNCHANGED dispatchVars
<1>1. NetInv
  BY DEF CoordInv
<1>2. ASSUME NEW t \in Task, Submit(t) \/ RequestWake(t) \/ RequestCancel(t) PROVE DispatchStep
  BY <1>2 DEF Submit, RequestWake, RequestCancel, DispatchStep
<1>3. CASE GlobalPass
  <2>1. CASE GlobalStart
    BY <2>1 DEF GlobalStart, DispatchStep
  <2>2. CASE GlobalProceed \/ \E w \in todo : GlobalSend(w)
    BY <2>2 DEF GlobalProceed, GlobalSend
  <2> QED
    BY <1>3, <2>1, <2>2 DEF GlobalPass
<1>4. ASSUME NEW c \in calls, Serve(c) PROVE DispatchStep \/ UNCHANGED dispatchVars
  BY <1>1, <1>4, ReceiveDispatch DEF Serve, NetInv, CallInv
<1>5. ASSUME NEW m \in late, ServeLate(m) PROVE DispatchStep \/ UNCHANGED dispatchVars
  BY <1>1, <1>5, ReceiveDispatch DEF ServeLate, NetInv
<1>6. ASSUME NEW c \in calls, Return(c) \/ GiveUp(c) PROVE DispatchStep \/ UNCHANGED dispatchVars
  <2>1. \E well \in BOOLEAN : Resume(c, well)
    BY <1>6 DEF Return, GiveUp
  <2> QED
    BY <1>1, <2>1, ResumeDispatch DEF NetInv
<1>7. ASSUME NEW a \in Account, AccountPass(a) PROVE UNCHANGED dispatchVars
  BY <1>7 DEF AccountPass, ReadProgress, WriteProgress, SaveReceipts, RestInDoubt, SendProgress, SendComplete,
              Heal, Run, NothingToRun, Open, Execute
<1>8. CASE GlobalAlarm \/ ToggleMaintenance \/ \E a \in Account : AccountAlarm(a)
  BY <1>8 DEF GlobalAlarm, ToggleMaintenance, AccountAlarm
<1>9. CASE (\E s \in Step : CloseFailed(s)) \/ \E n \in Node : Crash(n)
  BY <1>9 DEF CloseFailed, Crash
<1>10. CASE UNCHANGED vars
  BY <1>10 DEF vars
<1>11. CASE Next
  BY <1>2, <1>3, <1>4, <1>5, <1>6, <1>7, <1>8, <1>9, <1>11 DEF Next
<1> QED
  BY <1>10, <1>11

(* The generations of wakes stay within their bound. *)
WakesBounded == \A j \in Job : wake[j] <= MaxWakes

LEMMA WakesNext ==
  ASSUME CoordInv, WakesBounded, [Next]_vars
  PROVE  WakesBounded'
<1>1. wake \in [Job -> Nat] /\ MaxWakes \in Nat
  BY TablesTyped, OutboxAssumption DEF CoordInv
<1>2. ASSUME NEW t \in Task, Outbox!RequestWake(t), NEW j \in Job PROVE wake'[j] <= MaxWakes
  <2>1. TaskOf[j] = t /\ j \in Outbox!Permits => wake[j] < MaxWakes
    BY <1>2 DEF Outbox!RequestWake, Outbox!Rows
  <2>2. wake'[j] = IF TaskOf[j] = t /\ j \in Outbox!Permits THEN wake[j] + 1 ELSE wake[j]
    BY <1>2 DEF Outbox!RequestWake
  <2> QED
    BY <1>1, <2>1, <2>2 DEF WakesBounded
<1>3. ASSUME UNCHANGED wake PROVE WakesBounded'
  BY <1>3 DEF WakesBounded
<1>4. (\E t \in Task : Outbox!RequestWake(t)) \/ UNCHANGED wake
  BY EveryDispatch DEF DispatchStep, dispatchVars, Outbox!Submit, Outbox!RequestCancel, Outbox!Reserve,
     Outbox!Acknowledge, Outbox!AcknowledgeCancel, Outbox!Complete, Outbox!AcknowledgeWake
<1> QED
  BY <1>2, <1>3, <1>4 DEF WakesBounded

LEMMA OutboxStep ==
  ASSUME CoordInv, WakesBounded, DispatchStep
  PROVE  Outbox!Next \/ UNCHANGED dispatchVars
<1>1. /\ permit \in [Job -> Nat] /\ issued \in Nat /\ wake \in [Job -> Nat] /\ MaxWakes \in Nat
      /\ wakeAcked \in [Job -> BOOLEAN]
      /\ \A j \in Job : permit[j] <= issued
  BY TablesTyped, OutboxAssumption DEF CoordInv, TableInv, OP!DispatchInv, OP!TypeOK, OP!TokensAreReservations
<1>2. CASE \/ \E t \in Task : Outbox!Submit(t) \/ Outbox!RequestWake(t) \/ Outbox!RequestCancel(t)
           \/ \E R \in SUBSET Job : Outbox!Reserve(R)
  BY <1>2 DEF Outbox!Next
<1>3. ASSUME NEW j \in Job, \/ Outbox!Acknowledge(j, permit[j]) \/ Outbox!AcknowledgeCancel(j, permit[j])
                            \/ \E r \in Over : Outbox!Complete(j, permit[j], r)
      PROVE  Outbox!Next
  <2>1. permit[j] > 0
    BY <1>3 DEF Outbox!Acknowledge, Outbox!AcknowledgeCancel, Outbox!Complete
  <2>2. permit[j] \in 1..issued
    BY <1>1, <2>1
  <2> QED
    BY <1>3, <2>2 DEF Outbox!Next, Over
<1>4. ASSUME NEW j \in Job, NEW q \in Nat, q > 0, Outbox!AcknowledgeWake(j, permit[j], q)
      PROVE  Outbox!Next \/ UNCHANGED dispatchVars
  <2>1. permit[j] \in 1..issued
    BY <1>1, <1>4 DEF Outbox!AcknowledgeWake
  <2>2. CASE q <= MaxWakes
    <3>1. q \in 1..MaxWakes
      BY <1>1, <1>4, <2>2
    <3> QED
      BY <1>4, <2>1, <3>1 DEF Outbox!Next
  <2>3. CASE ~(q <= MaxWakes)
    <3>1. wake[j] # q
      BY <1>1, <2>3 DEF WakesBounded
    <3>2. wakeAcked' = wakeAcked
      BY <1>1, <1>4, <3>1 DEF Outbox!AcknowledgeWake
    <3> QED
      BY <1>4, <3>2 DEF Outbox!AcknowledgeWake, dispatchVars
  <2> QED
    BY <2>2, <2>3
<1> QED
  BY <1>2, <1>3, <1>4 DEF DispatchStep

(* The global object implements the outbox: all that is proved of          *)
(* TaskDispatch holds while passes stop half-way and replies are late.     *)
THEOREM CoordinatorImplementsOutbox == Spec => Outbox!Spec
<1>1. Init => Outbox!Init /\ WakesBounded
  BY OutboxAssumption DEF Init, Outbox!Init, WakesBounded
<1>2. CoordInv /\ WakesBounded /\ [Next]_vars => WakesBounded'
  BY WakesNext
<1>3. CoordInv /\ WakesBounded /\ [Next]_vars => [Outbox!Next]_(Outbox!dispatchVars)
  BY EveryDispatch, OutboxStep DEF dispatchVars, Outbox!dispatchVars
<1> QED
  BY <1>1, <1>2, <1>3, CoordinatorInvariant, PTL DEF Spec, Outbox!Spec
=============================================================================
