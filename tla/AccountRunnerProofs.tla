------------------------ MODULE AccountRunnerProofs ------------------------
(***************************************************************************)
(* Proofs about AccountRunner for every set of accounts and jobs, every    *)
(* plan, every sequence of calls and any number of crashes.  RunnerInv is  *)
(* the inductive invariant: what the journal holds of a step (StepInv)     *)
(* follows from how far the step came, and what a pass knows (PassInv)     *)
(* from where it is.  The runner is shown to implement AccountQueue.       *)
(***************************************************************************)
EXTENDS AccountRunner, AccountQueueProofs

Open == {"in_flight", "unknown"}

(* The rows of a step are there one after the other: each but the last is  *)
(* answered, and its answer made the step go on.                           *)
RowsInOrder(j, o) ==
  \A c, d \in Call : d < c /\ call[<<j, o, c>>] # "none" =>
    call[<<j, o, d>>] = "done" /\ response[<<j, o, d>>] = "goes_on"

AnswersAreSealed(j, o) ==
  \A c \in Call :
    /\ response[<<j, o, c>>] = "none" <=> call[<<j, o, c>>] # "done"
    /\ response[<<j, o, c>>] = "goes_on" => c + 1 < CallCount[j][o]

(* A write has a row exactly when it was sent. *)
SentIsRecorded(j, o) ==
  \A c \in Call : <<j, o, c>> \in WriteSites =>
    /\ call[<<j, o, c>>] # "read_failed"
    /\ sent[<<j, o, c>>] = IF call[<<j, o, c>>] = "none" THEN 0 ELSE 1

(* A step that was not handed out has neither rows nor a result ...        *)
NothingBeforeTheClaim(j, o) ==
  stepState[j][o] \notin Claimed =>
    result[<<j, o>>] = "none" /\ \A c \in Call : call[<<j, o, c>>] = "none"

(* ... and one that has a result has no open write.                        *)
ResultsAnswerAll(j, o) ==
  result[<<j, o>>] # "none" =>
    \A c \in Call : <<j, o, c>> \in WriteSites => call[<<j, o, c>>] \notin Open

(* A write nobody has decided on belongs to a step that is running or in   *)
(* doubt, and what the provider may still carry out is such a write.       *)
OpenIsUncertain(j, o) ==
  \A c \in Call :
    /\ <<j, o, c>> \in WriteSites /\ call[<<j, o, c>>] \in Open /\ <<j, o, c>> \notin adjudicated
         => stepState[j][o] \in Uncertain
    /\ <<j, o, c>> \in transit =>
         <<j, o, c>> \in WriteSites \ adjudicated /\ call[<<j, o, c>>] \in Open

(* What was closed without a result failed, and for the reason given.      *)
ClosedHasFailed(j, o) ==
  /\ \A c \in Call : <<j, o, c>> \in adjudicated => stepState[j][o] = "failed" /\ call[<<j, o, c>>] \in Open
  /\ <<j, o>> \in settled =>
       /\ stepState[j][o] = "failed"
       /\ \A c \in Call : <<j, o, c>> \in WriteSites => call[<<j, o, c>>] = "none"

ResultIsRecorded(j, o) ==
  stepState[j][o] \in {"verified", "failed"} =>
    result[<<j, o>>] = stepState[j][o] \/ \E c \in Call : <<j, o, c>> \in adjudicated

StepInv(j, o) ==
  /\ RowsInOrder(j, o) /\ AnswersAreSealed(j, o) /\ SentIsRecorded(j, o)
  /\ NothingBeforeTheClaim(j, o) /\ ResultsAnswerAll(j, o)
  /\ OpenIsUncertain(j, o) /\ ClosedHasFailed(j, o) /\ ResultIsRecorded(j, o)

(* The phases in which a pass holds a step in flight, those in which the   *)
(* step has no result yet, and those in which it makes its calls.          *)
Calling == {"execute", "asking", "waiting", "concluded"}
Unsealed == {"prepare"} \union Calling
Holding == {"reporting", "failing"} \union Unsealed

PassInv(a) ==
  LET p == pass[a]  j == p.step[1]  o == p.step[2]
  IN  /\ p.at \in Holding => Owner[j] = a /\ stepState[j][o] = "in_flight"
      /\ p.at \in Unsealed => result[<<j, o>>] = "none"
      /\ p.at \in Calling => \A c \in Call : c < p.cursor =>
           call[<<j, o, c>>] = "done" /\ response[<<j, o, c>>] = "goes_on"
      /\ p.at = "asking" => Here(a) \in WriteSites /\ call[Here(a)] = "none"
      /\ p.at = "waiting" => call[Here(a)] = "in_flight"
      /\ p.at = "concluded" => call[Here(a)] = "done" /\ response[Here(a)] = p.outcome
      /\ p.at = "reporting" => result[<<j, o>>] = p.outcome

TokensWereMinted == \A j \in Job, o \in Ordinal : token[j][o] <= minted

RunnerInv ==
  /\ QueueInv /\ TokensWereMinted
  /\ RunnerTypeOK
  /\ \A j \in Job, o \in Ordinal : StepInv(j, o)
  /\ \A a \in Account : PassInv(a)

-----------------------------------------------------------------------------
(* The rows of the step that nothing happened to.                          *)
SameRows(j, o) ==
  \A c \in Call : LET s == <<j, o, c>> IN
    /\ call'[s] = call[s] /\ response'[s] = response[s]
    /\ sent'[s] = sent[s]
    /\ s \in adjudicated' <=> s \in adjudicated
    /\ s \in transit' => s \in transit

SameStep(j, o) ==
  /\ SameRows(j, o) /\ result'[<<j, o>>] = result[<<j, o>>]
  /\ <<j, o>> \in settled' <=> <<j, o>> \in settled
  /\ \/ stepState'[j][o] = stepState[j][o]
     \/ {stepState[j][o], stepState'[j][o]} \cap Claimed = {}

LEMMA SameStepInv ==
  ASSUME NEW j \in Job, NEW o \in Ordinal, StepInv(j, o), SameStep(j, o)
  PROVE  StepInv(j, o)'
<1>1. RowsInOrder(j, o)' /\ AnswersAreSealed(j, o)' /\ SentIsRecorded(j, o)'
  BY DEF StepInv, SameStep, SameRows, RowsInOrder, AnswersAreSealed, SentIsRecorded
<1>2. NothingBeforeTheClaim(j, o)' /\ ResultsAnswerAll(j, o)'
  BY DEF StepInv, SameStep, SameRows, NothingBeforeTheClaim, ResultsAnswerAll
<1>3. OpenIsUncertain(j, o)'
  BY DEF StepInv, SameStep, SameRows, OpenIsUncertain, NothingBeforeTheClaim, Open, Claimed
<1>4. ClosedHasFailed(j, o)' /\ ResultIsRecorded(j, o)'
  BY DEF StepInv, SameStep, SameRows, ClosedHasFailed, ResultIsRecorded, Claimed
<1> QED
  BY <1>1, <1>2, <1>3, <1>4 DEF StepInv

(* A pass that did not move still knows what it knew, if its step is still *)
(* in flight and has the rows and the result that it had.                  *)
LEMMA SamePassInv ==
  ASSUME RunnerTypeOK, NEW a \in Account, PassInv(a), pass'[a] = pass[a],
         pass[a].at \in Holding =>
           LET j == pass[a].step[1]  o == pass[a].step[2]
           IN  /\ stepState'[j][o] = stepState[j][o] /\ result'[<<j, o>>] = result[<<j, o>>]
               /\ SameRows(j, o)
  PROVE  PassInv(a)'
<1>1. pass[a].cursor \in Call /\ Here(a)' = Here(a)
  BY DEF RunnerTypeOK, Here
<1> QED
  BY <1>1 DEF PassInv, Holding, Unsealed, Calling, SameRows, Here

(* The steps of two accounts are different steps.                          *)
LEMMA StepOfPass ==
  ASSUME RunnerTypeOK, NEW a \in Account
  PROVE  /\ pass[a].step[1] \in Job /\ pass[a].step[2] \in Ordinal
         /\ pass[a].step = <<pass[a].step[1], pass[a].step[2]>>
         /\ pass[a].cursor \in Call /\ Here(a) \in Site
BY DEF RunnerTypeOK, Step, Site, Here

PassTypes == [at : At, active : Job, step : Step, cursor : Call, outcome : {"verified", "failed"}]

LEMMA FirstCall == 0 \in Call /\ NoStep \in Step /\ Idle \in PassTypes
<1>1. PICK j \in Job : j = NoStep[1]
  BY CallAssumption DEF NoStep
<1>2. 0 \in Ordinal
  BY PlannedOrdinals, <1>1
<1>3. CallCount[j][0] \in 1..MaxCalls
  BY <1>2, CallAssumption
<1>4. 0 \in Call
  BY <1>3, CallAssumption DEF Call
<1>5. NoStep \in Step
  BY <1>1, <1>2 DEF NoStep, Step
<1> QED
  BY <1>1, <1>4, <1>5 DEF PassTypes, Idle, At

LEMMA QuietQueue ==
  ASSUME RunnerInv, UNCHANGED queueVars
  PROVE  QueueInv' /\ TokensWereMinted'
BY NextQueue DEF RunnerInv, TokensWereMinted, queueVars

(* A step in which a pass only moves on.                                   *)
LEMMA MoveInv ==
  ASSUME RunnerInv, NEW a \in Account, NEW q \in PassTypes, pass' = [pass EXCEPT ![a] = q],
         UNCHANGED <<queueVars, journalVars, sent, transit>>, crashes' \in 0..MaxCrashes,
         PassInv(a)'
  PROVE  RunnerInv'
<1>1. QueueInv' /\ TokensWereMinted'
  BY QuietQueue
<1>2. RunnerTypeOK'
  BY <1>1 DEF RunnerInv, RunnerTypeOK, QueueInv, journalVars, PassTypes
<1>3. \A j \in Job, o \in Ordinal : SameStep(j, o)
  BY DEF SameStep, SameRows, journalVars, queueVars
<1>4. ASSUME NEW j \in Job, NEW o \in Ordinal PROVE StepInv(j, o)'
  BY <1>3, SameStepInv DEF RunnerInv
<1>5. ASSUME NEW b \in Account, b # a PROVE PassInv(b)'
  <2>1. pass'[b] = pass[b]
    BY <1>5 DEF RunnerInv, RunnerTypeOK
  <2>2. SameRows(pass[b].step[1], pass[b].step[2])
    BY DEF SameRows, journalVars
  <2> QED
    BY <2>1, <2>2, SamePassInv DEF RunnerInv, journalVars, queueVars
<1> QED
  BY <1>1, <1>2, <1>4, <1>5 DEF RunnerInv

(* The pass of an account goes to a phase in which it holds no step ...    *)
LEMMA ReleaseInv ==
  ASSUME RunnerInv, NEW a \in Account, NEW q \in PassTypes, pass' = [pass EXCEPT ![a] = q],
         UNCHANGED <<queueVars, journalVars, sent, transit>>, crashes' \in 0..MaxCrashes,
         q.at \in {"idle", "settling", "picking"}
  PROVE  RunnerInv'
<1>1. pass'[a] = q
  BY DEF RunnerInv, RunnerTypeOK
<1>2. PassInv(a)'
  BY <1>1 DEF PassInv, Holding, Unsealed, Calling
<1> QED
  BY <1>2, MoveInv

LEMMA StartInv ==
  ASSUME RunnerInv, NEW a \in Account, NEW j \in Job, StartPass(a, j)
  PROVE  RunnerInv'
<1>1. PICK q \in PassTypes : pass' = [pass EXCEPT ![a] = q] /\ q.at \in {"settling", "picking"}
  <2>1. Idle \in PassTypes
    BY FirstCall
  <2>2. CASE ToSettle(a) = {}
    <3>1. [Idle EXCEPT !.at = "picking", !.active = j] \in PassTypes
      BY <2>1 DEF PassTypes, At
    <3> QED
      BY <2>2, <3>1, <2>1 DEF StartPass, PassTypes
  <2>3. CASE ToSettle(a) # {}
    <3>1. PICK s \in ToSettle(a) : pass' = [pass EXCEPT ![a] =
              [Idle EXCEPT !.at = "settling", !.active = j, !.step = s]]
      BY <2>3 DEF StartPass
    <3>2. s \in Step
      BY DEF ToSettle, Healable, Steps
    <3>3. [Idle EXCEPT !.at = "settling", !.active = j, !.step = s] \in PassTypes
      BY <2>1, <3>2 DEF PassTypes, At
    <3> QED
      BY <3>1, <3>3, <2>1 DEF PassTypes
  <2> QED
    BY <2>2, <2>3
<1>2. UNCHANGED <<queueVars, journalVars, sent, transit>> /\ crashes' \in 0..MaxCrashes
  BY DEF StartPass, RunnerInv, RunnerTypeOK
<1> QED
  BY <1>1, <1>2, ReleaseInv

LEMMA CrashInv ==
  ASSUME RunnerInv, NEW a \in Account, Crash(a) \/ Rest(a)
  PROVE  RunnerInv'
<1>1. UNCHANGED <<queueVars, journalVars, sent, transit>> /\ pass' = [pass EXCEPT ![a] = Idle]
  BY DEF Crash, Rest
<1>2. crashes' \in 0..MaxCrashes
  BY WarmAssumption DEF Crash, Rest, RunnerInv, RunnerTypeOK
<1>3. Idle \in PassTypes /\ Idle.at = "idle"
  BY FirstCall DEF Idle
<1> QED
  BY <1>1, <1>2, <1>3, ReleaseInv

(* ... or it resumes a step in flight, with its sealed result if it has    *)
(* one.                                                                    *)
LEMMA ResumeInv ==
  ASSUME RunnerInv, NEW a \in Account, NEW s \in Step, Resume(a, s)
  PROVE  RunnerInv'
<1> DEFINE q == [pass[a] EXCEPT
       !.at = IF result[s] = "none" THEN "prepare" ELSE "reporting", !.step = s,
       !.outcome = IF result[s] = "none" THEN "failed" ELSE result[s]]
<1>1. pass' = [pass EXCEPT ![a] = q] /\ q \in PassTypes
  <2>1. pass[a] \in PassTypes /\ result[s] \in {"none", "verified", "failed"}
    BY DEF RunnerInv, RunnerTypeOK, PassTypes
  <2>2. (IF result[s] = "none" THEN "prepare" ELSE "reporting") \in At
        /\ (IF result[s] = "none" THEN "failed" ELSE result[s]) \in {"verified", "failed"}
    BY <2>1 DEF At
  <2>3. q \in PassTypes
    BY <2>1, <2>2 DEF PassTypes
  <2> QED
    BY <2>3 DEF Resume
<1>2. /\ q.at = (IF result[s] = "none" THEN "prepare" ELSE "reporting") /\ q.step = s
      /\ q.outcome = (IF result[s] = "none" THEN "failed" ELSE result[s])
  BY DEF RunnerInv, RunnerTypeOK
<1>3. pass'[a] = q
  BY <1>1 DEF RunnerInv, RunnerTypeOK
<1>4. Owner[s[1]] = a /\ stepState[s[1]][s[2]] = "in_flight" /\ s = <<s[1], s[2]>>
  BY DEF Resume, Unresolved, Steps, StateOf, Step
<1>5. UNCHANGED <<queueVars, journalVars, sent, transit, crashes>>
  BY DEF Resume
<1> HIDE DEF q
<1>6. PassInv(a)'
  BY <1>2, <1>3, <1>4, <1>5 DEF PassInv, Unsealed, Calling, Holding, queueVars, journalVars
<1> QED
  BY <1>1, <1>5, <1>6, MoveInv DEF RunnerInv, RunnerTypeOK

(* What a pass that holds a step in flight does with it.                   *)
LEMMA FailingInv ==
  ASSUME RunnerInv, NEW a \in Account, Refuse(a) \/ Interrupted(a) \/ Unclear(a)
  PROVE  RunnerInv'
<1> DEFINE q == [pass[a] EXCEPT !.at = "failing"]
<1>1. /\ pass' = [pass EXCEPT ![a] = q] /\ pass[a].at \in Holding
      /\ UNCHANGED <<queueVars, journalVars, sent, transit, crashes>>
  BY DEF Refuse, Interrupted, Unclear, Holding, Unsealed, Calling
<1>2. q \in PassTypes /\ q.at = "failing" /\ q.step = pass[a].step
  BY DEF RunnerInv, RunnerTypeOK, PassTypes, At
<1>3. pass'[a] = q
  BY <1>1 DEF RunnerInv, RunnerTypeOK
<1> HIDE DEF q
<1>4. PassInv(a)'
  BY <1>1, <1>2, <1>3 DEF RunnerInv, PassInv, Unsealed, Calling, Holding, queueVars
<1> QED
  BY <1>1, <1>2, <1>4, MoveInv DEF RunnerInv, RunnerTypeOK

LEMMA AskInv ==
  ASSUME RunnerInv, NEW a \in Account, Ask(a)
  PROVE  RunnerInv'
<1> DEFINE q == [pass[a] EXCEPT !.at = "asking"]
<1>1. /\ pass' = [pass EXCEPT ![a] = q] /\ pass[a].at = "execute"
      /\ call[Here(a)] = "none" /\ Here(a) \in WriteSites
      /\ UNCHANGED <<queueVars, journalVars, sent, transit, crashes>>
  BY DEF Ask
<1>2. q \in PassTypes /\ q.at = "asking" /\ q.step = pass[a].step /\ q.cursor = pass[a].cursor
  BY DEF RunnerInv, RunnerTypeOK, PassTypes, At
<1>3. pass'[a] = q
  BY <1>1 DEF RunnerInv, RunnerTypeOK
<1> HIDE DEF q
<1>4. Here(a)' = Here(a)
  BY <1>2, <1>3 DEF Here
<1>5. PassInv(a)'
  BY <1>1, <1>2, <1>3, <1>4 DEF RunnerInv, PassInv, Unsealed, Calling, Holding, queueVars, journalVars
<1> QED
  BY <1>1, <1>2, <1>5, MoveInv DEF RunnerInv, RunnerTypeOK

(* Acting on an answer that is sealed.                                     *)
LEMMA AdvancePass ==
  ASSUME RunnerInv, NEW a \in Account, NEW r \in Answers, Advance(a, r),
         r = "goes_on" => pass[a].cursor + 1 < CallCount[pass[a].step[1]][pass[a].step[2]]
  PROVE  \E q \in PassTypes :
           /\ pass' = [pass EXCEPT ![a] = q] /\ pass'[a] = q /\ q.step = pass[a].step
           /\ \/ r = "goes_on" /\ q.at = "execute" /\ q.cursor = pass[a].cursor + 1
              \/ r = "odd" /\ q.at = "failing"
              \/ q.at = "concluded" /\ q.outcome = r /\ q.cursor = pass[a].cursor
<1>1. pass[a] \in PassTypes /\ pass \in [Account -> PassTypes]
  BY DEF RunnerInv, RunnerTypeOK, PassTypes
<1>2. CASE r = "goes_on"
  <2>1. pass[a].cursor + 1 \in Call
    <3>1. CallCount[pass[a].step[1]][pass[a].step[2]] \in 1..MaxCalls
      BY StepOfPass, CallAssumption DEF RunnerInv
    <3>2. pass[a].cursor \in Call
      BY StepOfPass DEF RunnerInv
    <3> QED
      BY <1>2, <3>1, <3>2, CallAssumption DEF Call
  <2> DEFINE q == [pass[a] EXCEPT !.at = "execute", !.cursor = pass[a].cursor + 1]
  <2>2. q \in PassTypes /\ q.at = "execute" /\ q.cursor = pass[a].cursor + 1 /\ q.step = pass[a].step
    BY <1>1, <2>1 DEF PassTypes, At
  <2>3. pass' = [pass EXCEPT ![a] = q]
    BY <1>2 DEF Advance
  <2> QED
    BY <1>1, <1>2, <2>2, <2>3
<1>3. CASE r = "odd"
  <2> DEFINE q == [pass[a] EXCEPT !.at = "failing"]
  <2>1. q \in PassTypes /\ q.at = "failing" /\ q.step = pass[a].step
    BY <1>1 DEF PassTypes, At
  <2>2. pass' = [pass EXCEPT ![a] = q]
    BY <1>3 DEF Advance
  <2> QED
    BY <1>1, <1>3, <2>1, <2>2
<1>4. CASE r \in {"verified", "failed"}
  <2> DEFINE q == [pass[a] EXCEPT !.at = "concluded", !.outcome = r]
  <2>1. q \in PassTypes /\ q.at = "concluded" /\ q.step = pass[a].step /\ q.outcome = r
        /\ q.cursor = pass[a].cursor
    BY <1>1, <1>4 DEF PassTypes, At
  <2>2. pass' = [pass EXCEPT ![a] = q]
    BY <1>4 DEF Advance
  <2> QED
    BY <1>1, <2>1, <2>2
<1> QED
  BY <1>2, <1>3, <1>4 DEF Answers

(* ... leaves a pass that knows its calls, if the answer is now sealed.    *)
LEMMA AdvanceKnows ==
  ASSUME RunnerTypeOK, NEW a \in Account, PassInv(a), NEW r \in Answers, NEW q \in PassTypes,
         pass'[a] = q, q.step = pass[a].step, pass[a].at \in Calling,
         \/ r = "goes_on" /\ q.at = "execute" /\ q.cursor = pass[a].cursor + 1
         \/ r = "odd" /\ q.at = "failing"
         \/ q.at = "concluded" /\ q.outcome = r /\ q.cursor = pass[a].cursor,
         call'[Here(a)] = "done", response'[Here(a)] = r,
         \A c \in Call : c < pass[a].cursor =>
           LET s == <<pass[a].step[1], pass[a].step[2], c>>
           IN  call'[s] = call[s] /\ response'[s] = response[s],
         UNCHANGED <<stepState, result>>
  PROVE  PassInv(a)'
<1> DEFINE j == pass[a].step[1]  o == pass[a].step[2]
<1>1. pass[a].cursor \in Call /\ Call \subseteq Int
  BY CallAssumption DEF RunnerTypeOK, Call
<1>2. /\ Owner[j] = a /\ stepState[j][o] = "in_flight" /\ result[<<j, o>>] = "none"
      /\ \A c \in Call : c < pass[a].cursor =>
           call'[<<j, o, c>>] = "done" /\ response'[<<j, o, c>>] = "goes_on"
  BY DEF PassInv, Calling, Unsealed, Holding
<1>3. CASE r = "goes_on" /\ q.at = "execute" /\ q.cursor = pass[a].cursor + 1
  <2>1. ASSUME NEW c \in Call, c < q.cursor PROVE c < pass[a].cursor \/ c = pass[a].cursor
    <3>1. c \in Int /\ pass[a].cursor \in Int /\ c < pass[a].cursor + 1
      BY <1>1, <1>3, <2>1
    <3> QED
      BY <3>1
  <2>2. \A c \in Call : c < q.cursor =>
           call'[<<j, o, c>>] = "done" /\ response'[<<j, o, c>>] = "goes_on"
    BY <1>2, <1>3, <2>1 DEF Here
  <2> QED
    BY <1>2, <1>3, <2>2 DEF PassInv, Calling, Unsealed, Holding
<1>4. CASE r = "odd" /\ q.at = "failing"
  BY <1>2, <1>4 DEF PassInv, Calling, Unsealed, Holding
<1>5. CASE q.at = "concluded" /\ q.outcome = r /\ q.cursor = pass[a].cursor
  <2>1. Here(a)' = Here(a)
    BY <1>5 DEF Here
  <2> QED
    BY <1>2, <1>5, <2>1 DEF PassInv, Calling, Unsealed, Holding
<1> QED
  BY <1>3, <1>4, <1>5

LEMMA ReplayInv ==
  ASSUME RunnerInv, NEW a \in Account, Replay(a)
  PROVE  RunnerInv'
<1> DEFINE r == response[Here(a)]
<1>1. /\ pass[a].at = "execute" /\ call[Here(a)] = "done" /\ Advance(a, r)
      /\ UNCHANGED <<queueVars, journalVars, sent, transit, crashes>>
  BY DEF Replay
<1>2. AnswersAreSealed(pass[a].step[1], pass[a].step[2])
  BY StepOfPass DEF RunnerInv, StepInv
<1>3. r \in Answers /\ (r = "goes_on" => pass[a].cursor + 1 < CallCount[pass[a].step[1]][pass[a].step[2]])
  BY <1>1, <1>2, StepOfPass DEF AnswersAreSealed, Here, RunnerInv, RunnerTypeOK
<1>4. PICK x \in Answers : x = r
  BY <1>3
<1> HIDE DEF r
<1>5. PICK q \in PassTypes :
           /\ pass' = [pass EXCEPT ![a] = q] /\ pass'[a] = q /\ q.step = pass[a].step
           /\ \/ x = "goes_on" /\ q.at = "execute" /\ q.cursor = pass[a].cursor + 1
              \/ x = "odd" /\ q.at = "failing"
              \/ q.at = "concluded" /\ q.outcome = x /\ q.cursor = pass[a].cursor
  BY <1>1, <1>3, <1>4, AdvancePass
<1>6. /\ call' = call /\ response' = response /\ UNCHANGED <<stepState, result>>
      /\ call[Here(a)] = "done" /\ response[Here(a)] = x /\ pass[a].at \in Calling
  BY <1>1, <1>4 DEF journalVars, queueVars, r, Calling
<1>7. PassInv(a)'
  BY <1>5, <1>6, AdvanceKnows DEF RunnerInv
<1> QED
  BY <1>1, <1>5, <1>7, MoveInv DEF RunnerInv, RunnerTypeOK

LEMMA AdmitInv ==
  ASSUME RunnerInv, NEW a \in Account, Admit(a)
  PROVE  RunnerInv'
<1> DEFINE q == [pass[a] EXCEPT !.at = "execute", !.cursor = 0]
<1>1. /\ pass' = [pass EXCEPT ![a] = q] /\ pass[a].at = "prepare"
      /\ UNCHANGED <<queueVars, call, response, result, settled, adjudicated, sent, transit, crashes>>
      /\ journal' = [journal EXCEPT ![a] = TRUE]
  BY DEF Admit
<1>2. q \in PassTypes /\ q.at = "execute" /\ q.step = pass[a].step /\ q.cursor = 0
  BY FirstCall DEF RunnerInv, RunnerTypeOK, PassTypes, At
<1>3. pass'[a] = q
  BY <1>1 DEF RunnerInv, RunnerTypeOK
<1> HIDE DEF q
<1>4. PassInv(a)'
  <2>1. \A c \in Call : ~(c < 0)
    BY CallAssumption DEF Call
  <2> QED
    BY <1>1, <1>2, <1>3, <2>1 DEF RunnerInv, PassInv, Unsealed, Calling, Holding, queueVars
<1>5. QueueInv' /\ TokensWereMinted'
  BY <1>1, QuietQueue
<1>6. RunnerTypeOK'
  BY <1>1, <1>2, <1>5 DEF RunnerInv, RunnerTypeOK, QueueInv, PassTypes
<1>7. \A j \in Job, o \in Ordinal : SameStep(j, o)
  BY <1>1 DEF SameStep, SameRows, queueVars
<1>8. ASSUME NEW j \in Job, NEW o \in Ordinal PROVE StepInv(j, o)'
  BY <1>7, SameStepInv DEF RunnerInv
<1>9. ASSUME NEW b \in Account, b # a PROVE PassInv(b)'
  <2>1. pass'[b] = pass[b]
    BY <1>1, <1>9 DEF RunnerInv, RunnerTypeOK
  <2>2. SameRows(pass[b].step[1], pass[b].step[2])
    BY <1>1 DEF SameRows
  <2> QED
    BY <1>1, <2>1, <2>2, SamePassInv DEF RunnerInv, queueVars
<1> QED
  BY <1>4, <1>5, <1>6, <1>8, <1>9 DEF RunnerInv

(* A step in which the call of a pass changes, and nothing else's.         *)
OnlyHere(a) ==
  /\ \A s \in Site : s # Here(a) =>
       call'[s] = call[s] /\ response'[s] = response[s] /\ sent'[s] = sent[s]
  /\ transit' \ {Here(a)} \subseteq transit
  /\ UNCHANGED <<queueVars, result, settled, adjudicated>>

LEMMA CallInv ==
  ASSUME RunnerInv, NEW a \in Account, OnlyHere(a), pass[a].at \in Calling,
         NEW q \in PassTypes, pass' = [pass EXCEPT ![a] = q],
         NEW j \in Job, NEW o \in Ordinal, pass[a].step = <<j, o>>,
         RunnerTypeOK', StepInv(j, o)', PassInv(a)'
  PROVE  RunnerInv'
<1>1. QueueInv' /\ TokensWereMinted'
  BY QuietQueue DEF OnlyHere
<1>2. ASSUME NEW k \in Job, NEW p \in Ordinal, k # j \/ p # o PROVE SameStep(k, p)
  <2>1. \A c \in Call : <<k, p, c>> \in Site /\ <<k, p, c>> # Here(a)
    BY <1>2 DEF Site, Here
  <2> QED
    BY <2>1 DEF OnlyHere, SameStep, SameRows, queueVars
<1>3. ASSUME NEW k \in Job, NEW p \in Ordinal PROVE StepInv(k, p)'
  <2>1. CASE k = j /\ p = o
    BY <2>1
  <2>2. CASE k # j \/ p # o
    BY <1>2, <2>2, SameStepInv DEF RunnerInv
  <2> QED
    BY <2>1, <2>2
<1>4. ASSUME NEW b \in Account, b # a PROVE PassInv(b)'
  <2>1. pass'[b] = pass[b]
    BY <1>4 DEF RunnerInv, RunnerTypeOK
  <2>2. pass[b].at \in Holding => SameStep(pass[b].step[1], pass[b].step[2])
    <3>1. Owner[j] = a
      BY DEF RunnerInv, PassInv, Holding, Unsealed
    <3> QED
      BY <1>2, <1>4, <3>1, StepOfPass DEF RunnerInv, PassInv
  <2>3. stepState' = stepState
    BY DEF OnlyHere, queueVars
  <2> QED
    BY <2>1, <2>2, <2>3, SamePassInv DEF RunnerInv, SameStep
<1> QED
  BY <1>1, <1>3, <1>4 DEF RunnerInv

(* What has to be shown of the step whose call changed.                    *)
LEMMA CallStep ==
  ASSUME NEW j \in Job, NEW o \in Ordinal, StepInv(j, o), stepState[j][o] = "in_flight",
         result[<<j, o>>] = "none", UNCHANGED <<stepState, result, settled, adjudicated>>,
         RowsInOrder(j, o)', AnswersAreSealed(j, o)', SentIsRecorded(j, o)',
         \A c \in Call : <<j, o, c>> \in transit' =>
           <<j, o, c>> \in WriteSites /\ call'[<<j, o, c>>] \in Open
  PROVE  StepInv(j, o)'
<1>1. NothingBeforeTheClaim(j, o)' /\ ResultsAnswerAll(j, o)' /\ ResultIsRecorded(j, o)'
  BY DEF NothingBeforeTheClaim, ResultsAnswerAll, ResultIsRecorded, Claimed, Uncertain
<1>2. ClosedHasFailed(j, o)' /\ \A c \in Call : <<j, o, c>> \notin adjudicated
  BY DEF StepInv, ClosedHasFailed
<1>3. OpenIsUncertain(j, o)'
  BY <1>2 DEF OpenIsUncertain, Uncertain
<1> QED
  BY <1>1, <1>2, <1>3 DEF StepInv

LEMMA NumberedCalls == Call \subseteq Int
BY CallAssumption DEF Call

LEMMA SendInv ==
  ASSUME RunnerInv, NEW a \in Account, SendWrite(a) \/ SendRead(a)
  PROVE  RunnerInv'
<1>1. PICK j \in Job, o \in Ordinal, c \in Call :
        pass[a].step = <<j, o>> /\ pass[a].cursor = c /\ Here(a) = <<j, o, c>>
  BY StepOfPass DEF RunnerInv, Here
<1> DEFINE s == <<j, o, c>>
<1>2. s \in Site
  BY DEF Site
<1>3. /\ pass[a].at \in Calling /\ call[s] \in {"none", "in_flight"}
      /\ s \in WriteSites => call[s] = "none"
      /\ stepState[j][o] = "in_flight" /\ result[<<j, o>>] = "none" /\ Owner[j] = a
      /\ \A d \in Call : d < c => call[<<j, o, d>>] = "done" /\ response[<<j, o, d>>] = "goes_on"
  BY <1>1 DEF SendWrite, SendRead, RunnerInv, PassInv, Calling, Unsealed, Holding
<1>4. /\ call' = [call EXCEPT ![s] = "in_flight"] /\ sent' = [sent EXCEPT ![s] = @ + 1]
      /\ pass' = [pass EXCEPT ![a].at = "waiting"]
      /\ UNCHANGED <<queueVars, journal, response, result, settled, adjudicated, crashes>>
      /\ transit' = IF s \in WriteSites THEN transit \union {s} ELSE transit
  <2>1. Send(a) /\ transit' = IF s \in WriteSites THEN transit \union {s} ELSE transit
    BY SMTT(30), <1>1 DEF SendWrite, SendRead, RunnerInv, PassInv
  <2> QED
    BY <1>1, <2>1 DEF Send
<1> DEFINE q == [pass[a] EXCEPT !.at = "waiting"]
<1>5. /\ q \in PassTypes /\ pass' = [pass EXCEPT ![a] = q] /\ pass'[a] = q
      /\ q.at = "waiting" /\ q.step = <<j, o>> /\ q.cursor = c
  BY <1>1, <1>4 DEF RunnerInv, RunnerTypeOK, PassTypes, At
<1> HIDE DEF q
<1>6. /\ call'[s] = "in_flight" /\ sent'[s] = sent[s] + 1
      /\ \A t \in Site : t # s => call'[t] = call[t] /\ sent'[t] = sent[t]
  BY <1>2, <1>4 DEF RunnerInv, RunnerTypeOK
<1>7. RunnerTypeOK'
  <2>1. QueueInv'
    BY <1>4, QuietQueue
  <2>2. /\ call' \in [Site -> {"none", "in_flight", "done", "unknown", "read_failed"}]
        /\ transit' \subseteq WriteSites
        /\ pass' \in [Account -> PassTypes]
    BY <1>2, <1>4, <1>5 DEF RunnerInv, RunnerTypeOK, PassTypes
  <2>3. sent' \in [Site -> Nat]
    <3>1. sent \in [Site -> Nat] /\ sent[s] + 1 \in Nat
      BY <1>2 DEF RunnerInv, RunnerTypeOK
    <3> QED
      BY <1>2, <1>4, <3>1
  <2> QED
    BY <1>4, <2>1, <2>2, <2>3 DEF RunnerInv, RunnerTypeOK, QueueInv, PassTypes
<1>8. StepInv(j, o) /\ RowsInOrder(j, o) /\ AnswersAreSealed(j, o) /\ SentIsRecorded(j, o)
      /\ OpenIsUncertain(j, o)
  BY DEF RunnerInv, StepInv
<1>9. \A d \in Call : <<j, o, d>> \in Site /\ (<<j, o, d>> = s <=> d = c)
  BY DEF Site
<1>10. RowsInOrder(j, o)'
  BY <1>3, <1>4, <1>6, <1>8, <1>9 DEF RowsInOrder
<1>11. AnswersAreSealed(j, o)'
  BY <1>3, <1>4, <1>6, <1>8, <1>9 DEF AnswersAreSealed
<1>12. SentIsRecorded(j, o)'
  BY <1>3, <1>6, <1>8, <1>9 DEF SentIsRecorded
<1>13. \A d \in Call : <<j, o, d>> \in transit' =>
           <<j, o, d>> \in WriteSites /\ call'[<<j, o, d>>] \in Open
  BY <1>4, <1>6, <1>8, <1>9 DEF OpenIsUncertain, Open
<1>14. StepInv(j, o)'
  BY <1>3, <1>4, <1>8, <1>10, <1>11, <1>12, <1>13, CallStep DEF queueVars
<1>15. PassInv(a)'
  <2>1. Here(a)' = s
    BY <1>5 DEF Here
  <2>2. \A d \in Call : d < c =>
          call'[<<j, o, d>>] = "done" /\ response'[<<j, o, d>>] = "goes_on"
    BY <1>3, <1>4, <1>6, <1>9, NumberedCalls
  <2>3. pass'[a].step[1] = j /\ pass'[a].step[2] = o /\ pass'[a].cursor = c /\ pass'[a].at = "waiting"
    BY <1>5
  <2>4. stepState' = stepState /\ result' = result
    BY <1>4 DEF queueVars
  <2> QED
    BY <1>3, <1>6, <2>1, <2>2, <2>3, <2>4 DEF PassInv, Calling, Unsealed, Holding
<1>16. OnlyHere(a)
  BY <1>1, <1>4, <1>6 DEF OnlyHere
<1> QED
  BY <1>1, <1>3, <1>5, <1>7, <1>14, <1>15, <1>16, CallInv

LEMMA AnswerInv ==
  ASSUME RunnerInv, NEW a \in Account, NEW r \in Answers, Answer(a, r)
  PROVE  RunnerInv'
<1>1. PICK j \in Job, o \in Ordinal, c \in Call :
        pass[a].step = <<j, o>> /\ pass[a].cursor = c /\ Here(a) = <<j, o, c>>
  BY StepOfPass DEF RunnerInv, Here
<1> DEFINE s == <<j, o, c>>
<1>2. s \in Site
  BY DEF Site
<1>3. /\ pass[a].at \in Calling /\ call[s] = "in_flight" /\ s \notin transit
      /\ stepState[j][o] = "in_flight" /\ result[<<j, o>>] = "none" /\ Owner[j] = a
      /\ \A d \in Call : d < c => call[<<j, o, d>>] = "done" /\ response[<<j, o, d>>] = "goes_on"
  BY <1>1 DEF Answer, RunnerInv, PassInv, Calling, Unsealed, Holding
<1>4. /\ call' = [call EXCEPT ![s] = "done"] /\ response' = [response EXCEPT ![s] = r]
      /\ Advance(a, r) /\ (r = "goes_on" => c + 1 < CallCount[j][o])
      /\ UNCHANGED <<queueVars, journal, result, settled, adjudicated, sent, transit, crashes>>
  BY <1>1 DEF Answer
<1>5. PICK q \in PassTypes :
           /\ pass' = [pass EXCEPT ![a] = q] /\ pass'[a] = q /\ q.step = pass[a].step
           /\ \/ r = "goes_on" /\ q.at = "execute" /\ q.cursor = pass[a].cursor + 1
              \/ r = "odd" /\ q.at = "failing"
              \/ q.at = "concluded" /\ q.outcome = r /\ q.cursor = pass[a].cursor
  BY <1>1, <1>4, AdvancePass
<1>6. /\ call'[s] = "done" /\ response'[s] = r
      /\ \A t \in Site : t # s => call'[t] = call[t] /\ response'[t] = response[t]
  BY <1>2, <1>4 DEF RunnerInv, RunnerTypeOK
<1>7. RunnerTypeOK'
  <2>1. QueueInv'
    BY <1>4, QuietQueue
  <2>2. /\ call' \in [Site -> {"none", "in_flight", "done", "unknown", "read_failed"}]
        /\ response' \in [Site -> {"none"} \union Answers]
        /\ pass' \in [Account -> PassTypes]
    BY <1>2, <1>4, <1>5 DEF RunnerInv, RunnerTypeOK, PassTypes
  <2> QED
    BY <1>4, <2>1, <2>2 DEF RunnerInv, RunnerTypeOK, QueueInv, PassTypes
<1>8. StepInv(j, o) /\ RowsInOrder(j, o) /\ AnswersAreSealed(j, o) /\ SentIsRecorded(j, o)
      /\ OpenIsUncertain(j, o)
  BY DEF RunnerInv, StepInv
<1>9. \A d \in Call : <<j, o, d>> \in Site /\ (<<j, o, d>> = s <=> d = c)
  BY DEF Site
<1>10. RowsInOrder(j, o)'
  BY <1>3, <1>6, <1>8, <1>9 DEF RowsInOrder
<1>11. AnswersAreSealed(j, o)'
  BY <1>4, <1>6, <1>8, <1>9 DEF AnswersAreSealed, Answers
<1>12. SentIsRecorded(j, o)'
  BY <1>3, <1>4, <1>6, <1>8, <1>9 DEF SentIsRecorded
<1>13. \A d \in Call : <<j, o, d>> \in transit' =>
           <<j, o, d>> \in WriteSites /\ call'[<<j, o, d>>] \in Open
  BY <1>3, <1>4, <1>6, <1>8, <1>9 DEF OpenIsUncertain, Open
<1>14. StepInv(j, o)'
  BY <1>3, <1>4, <1>8, <1>10, <1>11, <1>12, <1>13, CallStep DEF queueVars
<1>15. PassInv(a)'
  <2>1. \A d \in Call : d < pass[a].cursor =>
           LET t == <<pass[a].step[1], pass[a].step[2], d>>
           IN  call'[t] = call[t] /\ response'[t] = response[t]
    BY <1>1, <1>6, <1>9, NumberedCalls
  <2>2. UNCHANGED <<stepState, result>>
    BY <1>4 DEF queueVars
  <2> QED
    BY <1>1, <1>3, <1>5, <1>6, <2>1, <2>2, AdvanceKnows DEF RunnerInv
<1>16. OnlyHere(a)
  BY <1>1, <1>4, <1>6 DEF OnlyHere
<1> QED
  BY <1>1, <1>3, <1>5, <1>7, <1>14, <1>15, <1>16, CallInv

LEMMA LostInv ==
  ASSUME RunnerInv, NEW a \in Account, Lost(a)
  PROVE  RunnerInv'
<1>1. PICK j \in Job, o \in Ordinal, c \in Call :
        pass[a].step = <<j, o>> /\ pass[a].cursor = c /\ Here(a) = <<j, o, c>>
  BY StepOfPass DEF RunnerInv, Here
<1> DEFINE s == <<j, o, c>>  x == IF s \in WriteSites THEN "unknown" ELSE "read_failed"
<1>2. s \in Site
  BY DEF Site
<1>3. /\ pass[a].at \in Calling /\ call[s] = "in_flight"
      /\ stepState[j][o] = "in_flight" /\ result[<<j, o>>] = "none" /\ Owner[j] = a
      /\ \A d \in Call : d < c => call[<<j, o, d>>] = "done" /\ response[<<j, o, d>>] = "goes_on"
  BY <1>1 DEF Lost, RunnerInv, PassInv, Calling, Unsealed, Holding
<1>4. /\ call' = [call EXCEPT ![s] = x] /\ pass' = [pass EXCEPT ![a].at = "failing"]
      /\ UNCHANGED <<queueVars, journal, response, result, settled, adjudicated, sent, transit, crashes>>
  BY <1>1 DEF Lost
<1> DEFINE q == [pass[a] EXCEPT !.at = "failing"]
<1>5. /\ q \in PassTypes /\ pass' = [pass EXCEPT ![a] = q] /\ pass'[a] = q
      /\ q.at = "failing" /\ q.step = <<j, o>>
  BY <1>1, <1>4 DEF RunnerInv, RunnerTypeOK, PassTypes, At
<1> HIDE DEF q
<1>6. call'[s] = x /\ \A t \in Site : t # s => call'[t] = call[t]
  BY <1>2, <1>4 DEF RunnerInv, RunnerTypeOK
<1>7. RunnerTypeOK'
  <2>1. QueueInv'
    BY <1>4, QuietQueue
  <2>2. /\ call' \in [Site -> {"none", "in_flight", "done", "unknown", "read_failed"}]
        /\ pass' \in [Account -> PassTypes]
    BY <1>2, <1>4, <1>5 DEF RunnerInv, RunnerTypeOK, PassTypes
  <2> QED
    BY <1>4, <2>1, <2>2 DEF RunnerInv, RunnerTypeOK, QueueInv, PassTypes
<1>8. StepInv(j, o) /\ RowsInOrder(j, o) /\ AnswersAreSealed(j, o) /\ SentIsRecorded(j, o)
      /\ OpenIsUncertain(j, o)
  BY DEF RunnerInv, StepInv
<1>9. \A d \in Call : <<j, o, d>> \in Site /\ (<<j, o, d>> = s <=> d = c)
  BY DEF Site
<1>10. RowsInOrder(j, o)'
  BY <1>3, <1>4, <1>6, <1>8, <1>9 DEF RowsInOrder
<1>11. AnswersAreSealed(j, o)'
  BY <1>3, <1>4, <1>6, <1>8, <1>9 DEF AnswersAreSealed
<1>12. SentIsRecorded(j, o)'
  BY <1>3, <1>4, <1>6, <1>8, <1>9 DEF SentIsRecorded
<1>13. \A d \in Call : <<j, o, d>> \in transit' =>
           <<j, o, d>> \in WriteSites /\ call'[<<j, o, d>>] \in Open
  BY <1>4, <1>6, <1>8, <1>9 DEF OpenIsUncertain, Open
<1>14. StepInv(j, o)'
  BY <1>3, <1>4, <1>8, <1>10, <1>11, <1>12, <1>13, CallStep DEF queueVars
<1>15. PassInv(a)'
  <2>1. pass'[a].step[1] = j /\ pass'[a].step[2] = o /\ pass'[a].at = "failing"
    BY <1>5
  <2>2. stepState' = stepState
    BY <1>4 DEF queueVars
  <2> QED
    BY <1>3, <2>1, <2>2 DEF PassInv, Calling, Unsealed, Holding
<1>16. OnlyHere(a)
  BY <1>1, <1>4, <1>6 DEF OnlyHere
<1> QED
  BY <1>1, <1>3, <1>5, <1>7, <1>14, <1>15, <1>16, CallInv

-----------------------------------------------------------------------------
(* What the operations of the queue do to the steps that were handed out.  *)
SameClaim(j, o) ==
  \/ stepState'[j][o] = stepState[j][o]
  \/ {stepState[j][o], stepState'[j][o]} \cap Claimed = {}

LEMMA EnqueueClaims ==
  ASSUME QueueInv, NEW j \in Job, NEW c \in BOOLEAN, Enqueue(j, c)
  PROVE  \A k \in Job, p \in Ordinal : SameClaim(k, p)
<1>1. jobState[j] = "absent" /\ \A k \in Job : k # j => stepState'[k] = stepState[k]
  BY DEF Enqueue, QueueInv, TypeOK
<1>2. \A p \in Ordinal : stepState[j][p] \notin Claimed
  BY <1>1 DEF QueueInv, RowsTogether, Claimed, Uncertain
<1>3. \A p \in Ordinal : token'[j][p] = token[j][p] /\ token[j][p] \in Nat
  BY DEF Enqueue, QueueInv, TypeOK
<1>4. QueueInv'
  BY EnqueueInv
<1>5. \A p \in Ordinal : stepState'[j][p] \notin Claimed
  BY <1>2, <1>3, <1>4 DEF QueueInv, TokensAreClaims
<1> QED
  BY <1>1, <1>2, <1>5 DEF SameClaim

LEMMA CancelClaims ==
  ASSUME QueueInv, NEW j \in Job, CancelLocal(j)
  PROVE  \A k \in Job, p \in Ordinal : SameClaim(k, p)
<1>1. /\ \A k \in Job : k # j => stepState'[k] = stepState[k]
      /\ \A p \in Ordinal : stepState[j][p] # "planned" => stepState'[j][p] = stepState[j][p]
  BY CancelTouches
<1>2. \A p \in Ordinal : token'[j][p] = token[j][p]
  BY DEF CancelLocal
<1>3. QueueInv'
  BY CancelInv
<1>4. \A p \in Ordinal : stepState[j][p] = "planned" => stepState'[j][p] \notin Claimed
  BY <1>2, <1>3 DEF QueueInv, TokensAreClaims, Claimed, Uncertain
<1> QED
  BY <1>1, <1>4 DEF SameClaim, Claimed, Uncertain

LEMMA RecordClaims ==
  ASSUME QueueInv, NEW j \in Job, NEW o \in Ordinal, NEW r \in Outcome, NEW e \in Evidence,
         stepState[j][o] \in Uncertain, Record(j, o, r, e)
  PROVE  /\ stepState'[j][o] = r /\ UNCHANGED <<token, minted>>
         /\ \A k \in Job, p \in Ordinal : k # j \/ p # o => SameClaim(k, p)
<1> DEFINE marked == [stepState[j] EXCEPT ![o] = r]
<1>1. marked \in [Ordinal -> StepState] /\ marked[o] = r /\ r # "planned"
  BY DEF QueueInv, TypeOK, StepState, Outcome
<1>2. stepState'[j] = IF r = "failed" THEN SkipPlanned(marked) ELSE marked
  BY DEF Record, QueueInv, TypeOK
<1>3. stepState'[j][o] = r
  BY <1>1, <1>2, SkipPlannedType
<1>4. /\ \A k \in Job : k # j => stepState'[k] = stepState[k]
      /\ \A p \in Ordinal : p # o /\ stepState[j][p] # "planned" => stepState'[j][p] = stepState[j][p]
  BY RecordTouches
<1>5. UNCHANGED <<token, minted>>
  BY DEF Record
<1>6. QueueInv'
  BY RecordInv
<1>7. \A p \in Ordinal : stepState[j][p] = "planned" => stepState'[j][p] \notin Claimed
  BY <1>5, <1>6 DEF QueueInv, TokensAreClaims, Claimed, Uncertain
<1> QED
  BY <1>3, <1>4, <1>5, <1>7 DEF SameClaim, Claimed, Uncertain

(* A step of the runner that changes one step of one account.              *)
LEMMA OneStepInv ==
  ASSUME RunnerInv, QueueInv', TokensWereMinted', RunnerTypeOK',
         NEW j \in Job, NEW o \in Ordinal, StepInv(j, o)', PassInv(Owner[j])',
         \A k \in Job, p \in Ordinal : k # j \/ p # o => SameStep(k, p),
         \A b \in Account : b # Owner[j] => pass'[b] = pass[b]
  PROVE  RunnerInv'
<1>1. ASSUME NEW k \in Job, NEW p \in Ordinal, k # j \/ p # o PROVE StepInv(k, p)'
  BY <1>1, SameStepInv DEF RunnerInv
<1>2. ASSUME NEW b \in Account, b # Owner[j] PROVE PassInv(b)'
  <2>1. CASE pass[b].at \in Holding
    <3>1. PICK k \in Job, p \in Ordinal : pass[b].step[1] = k /\ pass[b].step[2] = p
      BY StepOfPass DEF RunnerInv
    <3>2. Owner[k] = b /\ stepState[k][p] \in Claimed
      BY <2>1, <3>1 DEF RunnerInv, PassInv, Claimed, Uncertain
    <3>3. SameStep(k, p)
      BY <1>2, <3>2
    <3>4. stepState'[k][p] = stepState[k][p] /\ result'[<<k, p>>] = result[<<k, p>>] /\ SameRows(k, p)
      BY <3>2, <3>3 DEF SameStep
    <3> QED
      BY <1>2, <3>1, <3>4, SamePassInv DEF RunnerInv
  <2>2. CASE pass[b].at \notin Holding
    BY <1>2, <2>2, SamePassInv DEF RunnerInv
  <2> QED
    BY <2>1, <2>2
<1> QED
  BY <1>1, <1>2, OwnerAssumption DEF RunnerInv

(* ... and one that changes no step that was handed out.                   *)
LEMMA NoStepInv ==
  ASSUME RunnerInv, QueueInv', UNCHANGED <<token, minted, journalVars, pass, sent, transit, crashes>>,
         \A k \in Job, p \in Ordinal : SameClaim(k, p)
  PROVE  RunnerInv'
<1>1. RunnerTypeOK'
  BY DEF RunnerInv, RunnerTypeOK, QueueInv, journalVars
<1>2. ASSUME NEW k \in Job, NEW p \in Ordinal PROVE SameStep(k, p)
  BY <1>2 DEF SameClaim, SameStep, SameRows, journalVars
<1>3. ASSUME NEW k \in Job, NEW p \in Ordinal PROVE StepInv(k, p)'
  BY <1>2, <1>3, SameStepInv DEF RunnerInv
<1>4. ASSUME NEW b \in Account PROVE PassInv(b)'
  <2>1. pass'[b] = pass[b]
    OBVIOUS
  <2>2. pass[b].at \in Holding =>
          /\ SameStep(pass[b].step[1], pass[b].step[2])
          /\ stepState[pass[b].step[1]][pass[b].step[2]] \in Claimed
    BY <1>2, StepOfPass DEF RunnerInv, PassInv, Claimed, Uncertain
  <2> QED
    BY <2>1, <2>2, SamePassInv DEF RunnerInv, SameStep
<1>5. TokensWereMinted'
  BY DEF RunnerInv, TokensWereMinted
<1> QED
  BY <1>1, <1>3, <1>4, <1>5 DEF RunnerInv

LEMMA DeliverInv ==
  ASSUME RunnerInv, NEW j \in Job, CancelJob(j) \/ \E c \in BOOLEAN : DeliverJob(j, c)
  PROVE  RunnerInv'
<1>1. CASE CancelJob(j)
  <2>1. CancelLocal(j) /\ UNCHANGED <<token, minted, journalVars, pass, sent, transit, crashes>>
    BY <1>1 DEF CancelJob, CancelLocal
  <2> QED
    BY <2>1, CancelInv, CancelClaims, NoStepInv DEF RunnerInv
<1>2. CASE \E c \in BOOLEAN : DeliverJob(j, c)
  <2>1. PICK c \in BOOLEAN : Enqueue(j, c) /\ UNCHANGED <<token, minted, journalVars, pass, sent, transit, crashes>>
    BY <1>2 DEF DeliverJob, Enqueue
  <2> QED
    BY <2>1, EnqueueInv, EnqueueClaims, NoStepInv DEF RunnerInv
<1> QED
  BY <1>1, <1>2

LEMMA DecideInv ==
  ASSUME RunnerInv, NEW s \in Site, Decide(s)
  PROVE  RunnerInv'
<1>1. UNCHANGED <<queueVars, journalVars, pass, sent, crashes>> /\ transit' \subseteq transit
  BY DEF Decide
<1>2. QueueInv' /\ TokensWereMinted'
  BY <1>1, QuietQueue
<1>3. RunnerTypeOK'
  BY <1>1, <1>2 DEF RunnerInv, RunnerTypeOK, QueueInv, journalVars
<1>4. ASSUME NEW k \in Job, NEW p \in Ordinal PROVE SameStep(k, p)
  BY <1>1 DEF SameStep, SameRows, journalVars, queueVars
<1>5. ASSUME NEW k \in Job, NEW p \in Ordinal PROVE StepInv(k, p)'
  BY <1>4, <1>5, SameStepInv DEF RunnerInv
<1>6. ASSUME NEW b \in Account PROVE PassInv(b)'
  <2>1. SameRows(pass[b].step[1], pass[b].step[2])
    BY <1>1 DEF SameRows, journalVars
  <2> QED
    BY <1>1, <2>1, SamePassInv DEF RunnerInv, queueVars, journalVars
<1> QED
  BY <1>2, <1>3, <1>5, <1>6 DEF RunnerInv

LEMMA SettleInv ==
  ASSUME RunnerInv, NEW a \in Account, SettleNoMutation(a)
  PROVE  RunnerInv'
<1>1. PICK j \in Job, o \in Ordinal : pass[a].step = <<j, o>>
  BY StepOfPass DEF RunnerInv
<1>2. /\ Owner[j] = a /\ stepState[j][o] = "unknown" /\ result[<<j, o>>] = "none"
      /\ \A c \in Call : <<j, o, c>> \in WriteSites => call[<<j, o, c>>] = "none"
  BY <1>1 DEF SettleNoMutation, ToSettle, Healable, Steps, StateOf, WriteRows, Rows
<1>3. PICK e \in Evidence : Record(j, o, "failed", e)
  BY <1>1 DEF SettleNoMutation
<1>4. /\ result' = [result EXCEPT ![<<j, o>>] = "failed"] /\ settled' = settled \union {<<j, o>>}
      /\ pass' = [pass EXCEPT ![a].at = "picking"]
      /\ UNCHANGED <<journal, call, response, adjudicated, sent, transit, crashes>>
  BY <1>1 DEF SettleNoMutation
<1>5. QueueInv' /\ stepState'[j][o] = "failed" /\ UNCHANGED <<token, minted>>
      /\ \A k \in Job, p \in Ordinal : k # j \/ p # o => SameClaim(k, p)
  BY <1>2, <1>3, RecordInv, RecordClaims DEF RunnerInv, Outcome, Uncertain
<1>6. TokensWereMinted'
  BY <1>5 DEF RunnerInv, TokensWereMinted
<1>7. /\ pass'[a].at = "picking" /\ pass' \in [Account -> PassTypes]
      /\ \A b \in Account : b # a => pass'[b] = pass[b]
  BY <1>4 DEF RunnerInv, RunnerTypeOK, PassTypes, At
<1>8. <<j, o>> \in Step
  BY DEF Step
<1>9. /\ result' \in [Step -> {"none", "verified", "failed"}] /\ result'[<<j, o>>] = "failed"
      /\ \A s \in Step : s # <<j, o>> => result'[s] = result[s]
  BY <1>4, <1>8 DEF RunnerInv, RunnerTypeOK
<1>10. RunnerTypeOK'
  BY <1>4, <1>5, <1>7, <1>8, <1>9 DEF RunnerInv, RunnerTypeOK, QueueInv, PassTypes
<1>11. ASSUME NEW k \in Job, NEW p \in Ordinal, k # j \/ p # o PROVE SameStep(k, p)
  <2>1. <<k, p>> \in Step /\ <<k, p>> # <<j, o>>
    BY <1>11 DEF Step
  <2> QED
    BY <1>4, <1>5, <1>9, <1>11, <2>1 DEF SameClaim, SameStep, SameRows
<1>12. StepInv(j, o)'
  <2>1. StepInv(j, o)
    BY DEF RunnerInv
  <2>2. RowsInOrder(j, o)' /\ AnswersAreSealed(j, o)' /\ SentIsRecorded(j, o)'
    BY <1>4, <2>1 DEF StepInv, RowsInOrder, AnswersAreSealed, SentIsRecorded
  <2>3. NothingBeforeTheClaim(j, o)' /\ ResultsAnswerAll(j, o)' /\ ResultIsRecorded(j, o)'
    BY <1>2, <1>4, <1>5, <1>9 DEF NothingBeforeTheClaim, ResultsAnswerAll, ResultIsRecorded, Claimed, Open
  <2>4. OpenIsUncertain(j, o)' /\ ClosedHasFailed(j, o)'
    BY <1>2, <1>4, <1>5, <2>1 DEF StepInv, OpenIsUncertain, ClosedHasFailed, Open
  <2> QED
    BY <2>2, <2>3, <2>4 DEF StepInv
<1>13. PassInv(a)'
  BY <1>7 DEF PassInv, Holding, Unsealed, Calling
<1> QED
  BY <1>2, <1>5, <1>6, <1>7, <1>10, <1>11, <1>12, <1>13, OneStepInv

LEMMA ClaimNextInv ==
  ASSUME RunnerInv, NEW a \in Account, NEW s \in Step, ClaimNext(a, s)
  PROVE  RunnerInv'
<1>1. PICK j \in Job, o \in Ordinal : s = <<j, o>>
  BY DEF Step
<1>2. Claim(a, j, o) /\ UNCHANGED <<journalVars, sent, transit, crashes>>
      /\ pass' = [pass EXCEPT ![a] = [@ EXCEPT !.at = "prepare", !.step = s]]
  BY <1>1 DEF ClaimNext
<1>3. QueueInv'
  BY <1>2, ClaimInv DEF RunnerInv
<1>4. /\ stepState[j][o] = "planned" /\ stepState'[j][o] = "in_flight" /\ Owner[j] = a
      /\ \A k \in Job : k # j => stepState'[k] = stepState[k]
      /\ \A p \in Ordinal : p # o => stepState'[j][p] = stepState[j][p]
  <2>1. Owner[j] = a
    BY <1>2 DEF Claim, IsNextJob, Claimable
  <2> QED
    BY <1>2, <2>1, ClaimTouches DEF RunnerInv
<1>5. TokensWereMinted'
  <2>1. /\ token \in [Job -> [Ordinal -> Nat]] /\ minted \in Nat
        /\ minted' = minted + 1 /\ token' = [token EXCEPT ![j] = [token[j] EXCEPT ![o] = minted + 1]]
    BY <1>2 DEF RunnerInv, QueueInv, TypeOK, Claim
  <2>2. ASSUME NEW k \in Job, NEW p \in Ordinal PROVE token'[k][p] \in {token[k][p], minted + 1}
    BY <2>1
  <2>3. ASSUME NEW k \in Job, NEW p \in Ordinal PROVE token'[k][p] <= minted'
    <3>1. token[k][p] <= minted /\ token[k][p] \in Nat
      BY <2>1 DEF RunnerInv, TokensWereMinted
    <3> QED
      BY <2>1, <2>2, <3>1
  <2> QED
    BY <2>3 DEF TokensWereMinted
<1>6. /\ pass'[a].at = "prepare" /\ pass'[a].step[1] = j /\ pass'[a].step[2] = o
      /\ pass' \in [Account -> PassTypes]
      /\ \A b \in Account : b # a => pass'[b] = pass[b]
  <2> DEFINE q == [pass[a] EXCEPT !.at = "prepare", !.step = s]
  <2>1. pass \in [Account -> PassTypes] /\ "prepare" \in At
    BY DEF RunnerInv, RunnerTypeOK, PassTypes, At
  <2>2. q \in PassTypes /\ q.at = "prepare" /\ q.step = s
    BY <2>1 DEF PassTypes
  <2>3. pass' = [pass EXCEPT ![a] = q]
    BY <1>2
  <2> HIDE DEF q
  <2> QED
    BY <1>1, <2>1, <2>2, <2>3
<1>7. RunnerTypeOK'
  BY <1>2, <1>3, <1>6 DEF RunnerInv, RunnerTypeOK, QueueInv, PassTypes, journalVars
<1>8. ASSUME NEW k \in Job, NEW p \in Ordinal, k # j \/ p # o PROVE SameStep(k, p)
  BY <1>2, <1>4, <1>8 DEF SameStep, SameRows, journalVars
<1>9. StepInv(j, o) /\ NothingBeforeTheClaim(j, o)
  BY DEF RunnerInv, StepInv
<1>10. result[<<j, o>>] = "none" /\ \A c \in Call : call[<<j, o, c>>] = "none"
  BY <1>4, <1>9 DEF NothingBeforeTheClaim, Claimed, Uncertain
<1>11. StepInv(j, o)'
  <2>1. UNCHANGED <<call, response, result, settled, adjudicated, sent, transit>>
    BY <1>2 DEF journalVars
  <2>2. RowsInOrder(j, o)' /\ AnswersAreSealed(j, o)' /\ SentIsRecorded(j, o)'
    BY <1>9, <2>1 DEF StepInv, RowsInOrder, AnswersAreSealed, SentIsRecorded
  <2>3. NothingBeforeTheClaim(j, o)' /\ ResultsAnswerAll(j, o)' /\ ResultIsRecorded(j, o)'
    BY <1>4, <1>10, <2>1 DEF NothingBeforeTheClaim, ResultsAnswerAll, ResultIsRecorded, Claimed, Uncertain
  <2>4. OpenIsUncertain(j, o)' /\ ClosedHasFailed(j, o)'
    BY <1>4, <1>9, <1>10, <2>1 DEF StepInv, OpenIsUncertain, ClosedHasFailed, Open
  <2> QED
    BY <2>2, <2>3, <2>4 DEF StepInv
<1>12. PassInv(a)'
  BY <1>2, <1>4, <1>6, <1>10 DEF PassInv, Holding, Unsealed, Calling, journalVars
<1> QED
  BY <1>3, <1>4, <1>5, <1>6, <1>7, <1>8, <1>11, <1>12, OneStepInv

(* The step is reported: with its sealed result, or as unknown.            *)
LEMMA EndInv ==
  ASSUME RunnerInv, NEW a \in Account, ReportResult(a) \/ GiveUp(a)
  PROVE  RunnerInv'
<1>1. PICK j \in Job, o \in Ordinal : pass[a].step = <<j, o>>
  BY StepOfPass DEF RunnerInv
<1>2. PICK r \in Outcome : EndPass(a, r) /\ (r = "unknown" \/ (pass[a].at = "reporting" /\ r = pass[a].outcome))
  <2>1. PICK x \in {"verified", "failed"} : x = pass[a].outcome
    BY DEF RunnerInv, RunnerTypeOK
  <2>2. x \in Outcome /\ "unknown" \in Outcome
    BY DEF Outcome
  <2>3. CASE ReportResult(a)
    <3>1. EndPass(a, x) /\ pass[a].at = "reporting"
      BY <2>1, <2>3 DEF ReportResult
    <3> QED
      BY <2>1, <2>2, <3>1
  <2>4. CASE GiveUp(a)
    <3>1. PICK u \in Outcome : u = "unknown"
      BY <2>2
    <3>2. EndPass(a, u)
      BY <2>4, <3>1 DEF GiveUp
    <3> QED
      BY <3>1, <3>2
  <2> QED
    BY <2>3, <2>4
<1>3. PICK e \in Evidence : Record(j, o, r, e) /\ stepState[j][o] = "in_flight"
  BY <1>1, <1>2 DEF EndPass, Finish
<1>4. pass' = [pass EXCEPT ![a] = Idle] /\ UNCHANGED <<journalVars, sent, transit, crashes>>
  BY <1>2 DEF EndPass
<1>5. /\ Owner[j] = a
      /\ r = "unknown" \/ result[<<j, o>>] = r
  BY <1>1, <1>2 DEF RunnerInv, PassInv, Holding, ReportResult, GiveUp
<1>6. QueueInv' /\ stepState'[j][o] = r /\ UNCHANGED <<token, minted>>
      /\ \A k \in Job, p \in Ordinal : k # j \/ p # o => SameClaim(k, p)
  BY <1>3, RecordInv, RecordClaims DEF RunnerInv, Uncertain
<1>7. TokensWereMinted'
  BY <1>6 DEF RunnerInv, TokensWereMinted
<1>8. /\ pass'[a].at = "idle" /\ pass' \in [Account -> PassTypes]
      /\ \A b \in Account : b # a => pass'[b] = pass[b]
  <2>1. Idle \in PassTypes /\ Idle.at = "idle"
    BY FirstCall DEF Idle
  <2> QED
    BY <1>4, <2>1 DEF RunnerInv, RunnerTypeOK, PassTypes
<1>9. RunnerTypeOK'
  BY <1>4, <1>6, <1>8 DEF RunnerInv, RunnerTypeOK, QueueInv, PassTypes, journalVars
<1>10. ASSUME NEW k \in Job, NEW p \in Ordinal, k # j \/ p # o PROVE SameStep(k, p)
  BY <1>4, <1>6, <1>10 DEF SameClaim, SameStep, SameRows, journalVars
<1>11. StepInv(j, o)'
  <2>1. UNCHANGED <<call, response, result, settled, adjudicated, sent, transit>>
    BY <1>4 DEF journalVars
  <2>2. StepInv(j, o) /\ r \in Claimed
    BY DEF RunnerInv, Outcome, Claimed, Uncertain
  <2>3. RowsInOrder(j, o)' /\ AnswersAreSealed(j, o)' /\ SentIsRecorded(j, o)'
    BY <2>1, <2>2 DEF StepInv, RowsInOrder, AnswersAreSealed, SentIsRecorded
  <2>4. NothingBeforeTheClaim(j, o)' /\ ResultsAnswerAll(j, o)' /\ ResultIsRecorded(j, o)'
    BY <1>5, <1>6, <2>1, <2>2 DEF StepInv, NothingBeforeTheClaim, ResultsAnswerAll, ResultIsRecorded
  <2>5. ClosedHasFailed(j, o)'
    BY <1>3, <2>1, <2>2 DEF StepInv, ClosedHasFailed
  <2>6. OpenIsUncertain(j, o)'
    <3>1. CASE r = "unknown"
      BY <1>6, <2>1, <2>2, <3>1 DEF StepInv, OpenIsUncertain, Uncertain
    <3>2. CASE result[<<j, o>>] = r
      <4>1. \A c \in Call : <<j, o, c>> \in WriteSites => call[<<j, o, c>>] \notin Open
        BY <2>2, <3>2 DEF StepInv, ResultsAnswerAll, Outcome
      <4> QED
        BY <2>1, <2>2, <4>1 DEF StepInv, OpenIsUncertain
    <3> QED
      BY <1>5, <3>1, <3>2
  <2> QED
    BY <2>3, <2>4, <2>5, <2>6 DEF StepInv
<1>12. PassInv(a)'
  BY <1>8 DEF PassInv, Holding, Unsealed, Calling
<1> QED
  BY <1>5, <1>6, <1>7, <1>8, <1>9, <1>10, <1>11, <1>12, OneStepInv

(* Operators close the last open write of a step that has no result.       *)
LEMMA AdjudicateInv ==
  ASSUME RunnerInv, NEW s \in Step, NEW x \in Call, CloseFailed(s, x)
  PROVE  RunnerInv'
<1>1. PICK j \in Job, o \in Ordinal : s = <<j, o>>
  BY DEF Step
<1> DEFINE site == <<j, o, x>>
<1>2. /\ stepState[j][o] = "unknown" /\ result[<<j, o>>] = "none" /\ site \notin transit
      /\ site \in WriteSites /\ call[site] # "none" /\ call[site] # "done"
      /\ \A c \in Call : <<j, o, c>> \in WriteSites /\ call[<<j, o, c>>] \notin {"none", "done"} => c = x
      /\ pass[Owner[j]].at = "idle"
      /\ adjudicated' = adjudicated \union {site}
      /\ UNCHANGED <<journal, call, response, result, settled, pass, sent, transit, crashes>>
  BY <1>1 DEF CloseFailed, StateOf, OpenWrites, WriteRows, Rows
<1>3. PICK e \in Evidence : Record(j, o, "failed", e)
  BY <1>1 DEF CloseFailed
<1>4. QueueInv' /\ stepState'[j][o] = "failed" /\ UNCHANGED <<token, minted>>
      /\ \A k \in Job, p \in Ordinal : k # j \/ p # o => SameClaim(k, p)
  BY <1>2, <1>3, RecordInv, RecordClaims DEF RunnerInv, Outcome, Uncertain
<1>5. TokensWereMinted'
  BY <1>4 DEF RunnerInv, TokensWereMinted
<1>6. site \in Site
  BY DEF Site
<1>7. RunnerTypeOK'
  BY <1>2, <1>4, <1>6 DEF RunnerInv, RunnerTypeOK, QueueInv
<1>8. ASSUME NEW k \in Job, NEW p \in Ordinal, k # j \/ p # o PROVE SameStep(k, p)
  <2>1. \A c \in Call : <<k, p, c>> # site
    BY <1>8
  <2> QED
    BY <1>2, <1>4, <1>8, <2>1 DEF SameClaim, SameStep, SameRows
<1>9. StepInv(j, o)'
  <2>1. StepInv(j, o) /\ <<j, o>> \notin settled /\ call[site] \in Open
    BY <1>2, <1>6 DEF RunnerInv, StepInv, ClosedHasFailed, SentIsRecorded, RunnerTypeOK, Open
  <2>2. RowsInOrder(j, o)' /\ AnswersAreSealed(j, o)' /\ SentIsRecorded(j, o)'
    BY <1>2, <2>1 DEF StepInv, RowsInOrder, AnswersAreSealed, SentIsRecorded
  <2>3. NothingBeforeTheClaim(j, o)' /\ ResultsAnswerAll(j, o)' /\ ResultIsRecorded(j, o)'
    BY <1>2, <1>4 DEF NothingBeforeTheClaim, ResultsAnswerAll, ResultIsRecorded, Claimed
  <2>4. ClosedHasFailed(j, o)'
    BY <1>2, <1>4, <2>1 DEF StepInv, ClosedHasFailed
  <2>5. OpenIsUncertain(j, o)'
    BY <1>2, <2>1 DEF StepInv, OpenIsUncertain, Open
  <2> QED
    BY <2>2, <2>3, <2>4, <2>5 DEF StepInv
<1>10. PassInv(Owner[j])'
  <2>1. PICK b \in Account : b = Owner[j]
    BY OwnerAssumption
  <2>2. pass'[b].at = "idle"
    BY <1>2, <2>1
  <2>3. PassInv(b)'
    BY <2>2 DEF PassInv, Holding, Unsealed, Calling
  <2> QED
    BY <2>1, <2>3
<1> QED
  BY <1>2, <1>4, <1>5, <1>7, <1>8, <1>9, <1>10, OneStepInv

(* The result is sealed when every call is answered.                       *)
LEMMA SealInv ==
  ASSUME RunnerInv, NEW a \in Account, SealResult(a)
  PROVE  RunnerInv'
<1>1. PICK j \in Job, o \in Ordinal : pass[a].step = <<j, o>>
  BY StepOfPass DEF RunnerInv
<1>2. PICK r \in {"verified", "failed"} : r = pass[a].outcome
  BY DEF RunnerInv, RunnerTypeOK
<1>3. /\ pass[a].at = "concluded" /\ result' = [result EXCEPT ![<<j, o>>] = r]
      /\ pass' = [pass EXCEPT ![a].at = "reporting"]
      /\ UNCHANGED <<queueVars, journal, call, response, settled, adjudicated, sent, transit, crashes>>
      /\ \A c \in Call : call[<<j, o, c>>] \in {"none", "done", "read_failed"}
  BY <1>1, <1>2 DEF SealResult, JournalAgrees, Rows
<1>4. Owner[j] = a /\ stepState[j][o] = "in_flight"
  BY <1>1, <1>3 DEF RunnerInv, PassInv, Holding, Unsealed, Calling
<1>5. QueueInv' /\ TokensWereMinted'
  BY <1>3, QuietQueue
<1>6. /\ pass'[a].at = "reporting" /\ pass'[a].step[1] = j /\ pass'[a].step[2] = o /\ pass'[a].outcome = r
      /\ pass' \in [Account -> PassTypes]
      /\ \A b \in Account : b # a => pass'[b] = pass[b]
  BY <1>1, <1>2, <1>3 DEF RunnerInv, RunnerTypeOK, PassTypes, At
<1>7. <<j, o>> \in Step
  BY DEF Step
<1>8. /\ result' \in [Step -> {"none", "verified", "failed"}] /\ result'[<<j, o>>] = r
      /\ \A s \in Step : s # <<j, o>> => result'[s] = result[s]
  BY <1>3, <1>7 DEF RunnerInv, RunnerTypeOK
<1>9. RunnerTypeOK'
  BY <1>3, <1>5, <1>6, <1>8 DEF RunnerInv, RunnerTypeOK, QueueInv, PassTypes
<1>10. ASSUME NEW k \in Job, NEW p \in Ordinal, k # j \/ p # o PROVE SameStep(k, p)
  <2>1. <<k, p>> \in Step /\ <<k, p>> # <<j, o>>
    BY <1>10 DEF Step
  <2> QED
    BY <1>3, <1>8, <2>1 DEF SameStep, SameRows, queueVars
<1>11. StepInv(j, o)'
  <2>1. StepInv(j, o) /\ UNCHANGED <<stepState, call, response, settled, adjudicated, sent, transit>>
    BY <1>3 DEF RunnerInv, queueVars
  <2>2. RowsInOrder(j, o)' /\ AnswersAreSealed(j, o)' /\ SentIsRecorded(j, o)'
    BY <2>1 DEF StepInv, RowsInOrder, AnswersAreSealed, SentIsRecorded
  <2>3. NothingBeforeTheClaim(j, o)' /\ ResultsAnswerAll(j, o)' /\ ResultIsRecorded(j, o)'
    BY <1>3, <1>4, <2>1 DEF NothingBeforeTheClaim, ResultsAnswerAll, ResultIsRecorded, Claimed, Uncertain, Open
  <2>4. OpenIsUncertain(j, o)' /\ ClosedHasFailed(j, o)'
    BY <2>1 DEF StepInv, OpenIsUncertain, ClosedHasFailed
  <2> QED
    BY <2>2, <2>3, <2>4 DEF StepInv
<1>12. PassInv(a)'
  BY <1>3, <1>4, <1>6, <1>8 DEF PassInv, Holding, Unsealed, Calling, queueVars
<1> QED
  BY <1>4, <1>5, <1>6, <1>9, <1>10, <1>11, <1>12, OneStepInv

-----------------------------------------------------------------------------
LEMMA InitRunner == RunnerInit => RunnerInv
<1> SUFFICES ASSUME RunnerInit PROVE RunnerInv
  OBVIOUS
<1>1. QueueInv
  BY InitQueue DEF RunnerInit
<1>2. /\ \A j \in Job, o \in Ordinal : stepState[j][o] = "absent" /\ token[j][o] = 0
      /\ minted = 0
  BY DEF RunnerInit, Init
<1>3. RunnerTypeOK
  <2>1. pass \in [Account -> PassTypes]
    BY FirstCall DEF RunnerInit
  <2> QED
    BY <1>1, <2>1, WarmAssumption DEF RunnerInit, RunnerTypeOK, QueueInv, PassTypes
<1>4. TokensWereMinted
  BY <1>2 DEF TokensWereMinted
<1>5. ASSUME NEW j \in Job, NEW o \in Ordinal PROVE StepInv(j, o)
  <2>1. <<j, o>> \in Step /\ \A c \in Call : <<j, o, c>> \in Site
    BY DEF Step, Site
  <2>2. /\ result[<<j, o>>] = "none" /\ adjudicated = {} /\ settled = {} /\ transit = {}
        /\ \A c \in Call : LET s == <<j, o, c>> IN
             call[s] = "none" /\ response[s] = "none" /\ sent[s] = 0
    BY <2>1 DEF RunnerInit
  <2>3. RowsInOrder(j, o) /\ AnswersAreSealed(j, o) /\ SentIsRecorded(j, o)
    BY <2>2 DEF RowsInOrder, AnswersAreSealed, SentIsRecorded
  <2>4. NothingBeforeTheClaim(j, o) /\ ResultsAnswerAll(j, o) /\ ResultIsRecorded(j, o)
    BY <1>2, <2>2 DEF NothingBeforeTheClaim, ResultsAnswerAll, ResultIsRecorded
  <2>5. OpenIsUncertain(j, o) /\ ClosedHasFailed(j, o)
    BY <2>2 DEF OpenIsUncertain, ClosedHasFailed, Open
  <2> QED
    BY <2>3, <2>4, <2>5 DEF StepInv
<1>6. ASSUME NEW a \in Account PROVE PassInv(a)
  <2>1. pass[a].at = "idle"
    BY DEF RunnerInit, Idle
  <2> QED
    BY <2>1 DEF PassInv, Holding, Unsealed, Calling
<1> QED
  BY <1>1, <1>3, <1>4, <1>5, <1>6 DEF RunnerInv

LEMMA RunnerStep ==
  ASSUME RunnerInv, [RunnerNext]_runnerVars
  PROVE  RunnerInv'
<1>1. ASSUME NEW a \in Account, Alarm(a) PROVE RunnerInv'
  BY <1>1, StartInv DEF Alarm
<1>2. ASSUME NEW a \in Account, PassStep(a) PROVE RunnerInv'
  <2>1. CASE SettleNoMutation(a)
    BY <2>1, SettleInv
  <2>2. CASE \E s \in Step : Resume(a, s) \/ ClaimNext(a, s)
    BY <2>2, ResumeInv, ClaimNextInv
  <2>3. CASE Rest(a)
    BY <2>3, CrashInv
  <2>4. CASE Admit(a) \/ Ask(a) \/ Replay(a)
    BY <2>4, AdmitInv, AskInv, ReplayInv
  <2>5. CASE Refuse(a) \/ Interrupted(a) \/ Unclear(a)
    BY <2>5, FailingInv
  <2>6. CASE SendWrite(a) \/ SendRead(a)
    BY <2>6, SendInv
  <2>7. CASE \E r \in Answers : Answer(a, r)
    BY <2>7, AnswerInv
  <2>8. CASE Lost(a) \/ SealResult(a)
    BY <2>8, LostInv, SealInv
  <2>9. CASE ReportResult(a) \/ GiveUp(a)
    BY <2>9, EndInv
  <2> QED
    BY <1>2, <2>1, <2>2, <2>3, <2>4, <2>5, <2>6, <2>7, <2>8, <2>9 DEF PassStep
<1>3. ASSUME NEW a \in Account, Crash(a) PROVE RunnerInv'
  BY <1>3, CrashInv
<1>4. ASSUME NEW s \in Step, Adjudicate(s) PROVE RunnerInv'
  BY <1>4, AdjudicateInv DEF Adjudicate
<1>5. ASSUME NEW s \in Site, Decide(s) PROVE RunnerInv'
  BY <1>5, DecideInv
<1>6. ASSUME NEW j \in Job, CancelJob(j) \/ \E c \in BOOLEAN : DeliverJob(j, c) PROVE RunnerInv'
  BY <1>6, DeliverInv
<1>7. CASE UNCHANGED runnerVars
  <2>1. UNCHANGED <<token, minted, journalVars, pass, sent, transit, crashes, queueVars>>
    BY <1>7 DEF runnerVars, queueVars
  <2>2. QueueInv' /\ \A k \in Job, p \in Ordinal : SameClaim(k, p)
    BY <2>1, QuietQueue DEF SameClaim, queueVars
  <2> QED
    BY <2>1, <2>2, NoStepInv
<1>8. CASE RunnerNext
  BY <1>1, <1>2, <1>3, <1>4, <1>5, <1>6, <1>8 DEF RunnerNext
<1> QED
  BY <1>7, <1>8

(* The inductive invariant holds in every reachable state.                 *)
THEOREM RunnerInvariant == RunnerSpec => []RunnerInv
BY InitRunner, RunnerStep, PTL DEF RunnerSpec

(* No write is given to the transport twice, whatever is interrupted,      *)
(* resumed, cancelled or adjudicated (execution-journal.ts:70-72).         *)
THEOREM WritesGoOutOnce == RunnerSpec => []WritesAreSentOnce
<1>1. RunnerInv => WritesAreSentOnce
  <2> SUFFICES ASSUME RunnerInv, NEW s \in WriteSites PROVE sent[s] <= 1
    BY DEF WritesAreSentOnce
  <2>1. PICK j \in Job, o \in Ordinal, c \in Call : s = <<j, o, c>>
    BY CallAssumption DEF Site
  <2>2. SentIsRecorded(j, o)
    BY DEF RunnerInv, StepInv
  <2> QED
    BY <2>1, <2>2 DEF SentIsRecorded
<1> QED
  BY <1>1, RunnerInvariant, PTL

(* What the alarm pass settles as NO_MUTATION_RECORDED wrote nothing and   *)
(* never will (account-runner.ts:42-47).                                   *)
THEOREM SettledStepsWroteNothing == RunnerSpec => []SettledWroteNothing
<1>1. RunnerInv => SettledWroteNothing
  <2> SUFFICES ASSUME RunnerInv, NEW s \in settled, NEW c \in Call, <<s[1], s[2], c>> \in WriteSites
               PROVE  sent[<<s[1], s[2], c>>] = 0
    BY DEF SettledWroteNothing
  <2>1. PICK j \in Job, o \in Ordinal : s = <<j, o>>
    BY DEF RunnerInv, RunnerTypeOK, Step
  <2>2. SentIsRecorded(j, o) /\ ClosedHasFailed(j, o)
    BY DEF RunnerInv, StepInv
  <2> QED
    BY <2>1, <2>2 DEF SentIsRecorded, ClosedHasFailed
<1> QED
  BY <1>1, RunnerInvariant, PTL

(* A write that the provider may still carry out belongs to a step that is *)
(* running or in doubt: no recorded outcome is overtaken by it.            *)
THEOREM NothingLandsLate == RunnerSpec => []OutcomesAreSettled
<1>1. RunnerInv => OutcomesAreSettled
  <2> SUFFICES ASSUME RunnerInv, NEW s \in transit PROVE stepState[s[1]][s[2]] \in Uncertain
    BY DEF OutcomesAreSettled
  <2>1. PICK j \in Job, o \in Ordinal, c \in Call : s = <<j, o, c>>
    BY CallAssumption DEF RunnerInv, RunnerTypeOK, Site
  <2>2. OpenIsUncertain(j, o)
    BY DEF RunnerInv, StepInv
  <2> QED
    BY <2>1, <2>2 DEF OpenIsUncertain
<1> QED
  BY <1>1, RunnerInvariant, PTL

(* Operators never face two open writes that nobody decided on.            *)
LEMMA OneOpen == RunnerInv => OneOpenWrite
<1> SUFFICES ASSUME RunnerInv, NEW a \in Account, NEW s \in Steps(a), NEW t \in Steps(a),
                    NEW c \in Call, NEW d \in Call,
                    c \in OpenWrites(s), <<s[1], s[2], c>> \notin adjudicated,
                    d \in OpenWrites(t), <<t[1], t[2], d>> \notin adjudicated
             PROVE  s = t /\ c = d
  BY DEF OneOpenWrite
<1>1. PICK j \in Job, o \in Ordinal : s = <<j, o>> /\ Owner[j] = a
  BY DEF Steps, Step
<1>2. PICK k \in Job, p \in Ordinal : t = <<k, p>> /\ Owner[k] = a
  BY DEF Steps, Step
<1>3. <<j, o, c>> \in WriteSites /\ call[<<j, o, c>>] \notin {"none", "done"}
      /\ <<k, p, d>> \in WriteSites /\ call[<<k, p, d>>] \notin {"none", "done"}
  BY <1>1, <1>2 DEF OpenWrites, WriteRows, Rows
<1>4. StepInv(j, o) /\ StepInv(k, p)
  BY DEF RunnerInv
<1>5. call[<<j, o, c>>] \in Open /\ call[<<k, p, d>>] \in Open
  <2>1. <<j, o, c>> \in Site /\ <<k, p, d>> \in Site
    BY DEF Site
  <2>2. call[<<j, o, c>>] # "read_failed" /\ call[<<k, p, d>>] # "read_failed"
    BY <1>3, <1>4 DEF StepInv, SentIsRecorded
  <2> QED
    BY <1>3, <2>1, <2>2 DEF RunnerInv, RunnerTypeOK, Open
<1>6. stepState[j][o] \in Uncertain /\ stepState[k][p] \in Uncertain
  BY <1>1, <1>2, <1>3, <1>4, <1>5 DEF StepInv, OpenIsUncertain
<1>7. j = k /\ o = p
  BY <1>1, <1>2, <1>6 DEF RunnerInv, QueueInv, OneUncertainStep
<1>8. ~(c < d) /\ ~(d < c)
  BY <1>3, <1>4, <1>7 DEF StepInv, RowsInOrder
<1> QED
  BY <1>1, <1>2, <1>7, <1>8, NumberedCalls

(* The check of ExecutionJournal.finish never refuses a step that ran to   *)
(* its end.                                                                *)
LEMMA Agrees == RunnerInv => ReplayAgrees
<1> SUFFICES ASSUME RunnerInv, NEW a \in Account, pass[a].at = "concluded"
             PROVE  JournalAgrees(a)
  BY DEF ReplayAgrees
<1>1. PICK j \in Job, o \in Ordinal, c \in Call :
        pass[a].step = <<j, o>> /\ pass[a].cursor = c /\ Here(a) = <<j, o, c>>
  BY StepOfPass DEF RunnerInv, Here
<1>2. /\ call[<<j, o, c>>] = "done" /\ response[<<j, o, c>>] \in {"verified", "failed"}
      /\ \A d \in Call : d < c => call[<<j, o, d>>] = "done"
  <2>1. PassInv(a) /\ pass[a].outcome \in {"verified", "failed"}
    BY DEF RunnerInv, RunnerTypeOK
  <2> QED
    BY <1>1, <2>1 DEF PassInv, Calling
<1>3. \A d \in Call : c < d => call[<<j, o, d>>] = "none"
  BY <1>2 DEF RunnerInv, StepInv, RowsInOrder
<1>4. \A d \in Call : d < c \/ d = c \/ c < d
  BY NumberedCalls
<1>5. 0..c = {d \in Call : d <= c}
  BY CallAssumption DEF Call
<1>6. \A d \in Call : d \in 0..c <=> call[<<j, o, d>>] # "none"
  BY <1>2, <1>3, <1>4, <1>5, NumberedCalls
<1>7. 0..c \subseteq Call
  BY <1>5
<1>8. Rows(pass[a].step) = 0..c
  BY <1>1, <1>6, <1>7 DEF Rows
<1>9. \A d \in 0..c : call[<<j, o, d>>] = "done"
  BY <1>2, <1>4, <1>5, NumberedCalls
<1>10. pass[a].step[1] = j /\ pass[a].step[2] = o
  BY <1>1
<1> QED
  BY <1>1, <1>8, <1>9, <1>10 DEF JournalAgrees

(* The queue, the sealed results and the journal of an account agree.      *)
THEOREM ExecutionRecordsAgree == RunnerSpec => []RecordsAgree
<1>1. RunnerInv => SealedResultStands
  <2> SUFFICES ASSUME RunnerInv, NEW s \in Step, StateOf(s) \in {"verified", "failed"},
                      \A c \in Call : <<s[1], s[2], c>> \notin adjudicated
               PROVE  result[s] = StateOf(s) /\ OpenWrites(s) = {}
    BY DEF SealedResultStands
  <2>1. PICK j \in Job, o \in Ordinal : s = <<j, o>>
    BY DEF Step
  <2>2. StepInv(j, o)
    BY DEF RunnerInv
  <2>3. result[<<j, o>>] = stepState[j][o] /\ stepState[j][o] \in {"verified", "failed"}
    BY <2>1, <2>2 DEF StepInv, ResultIsRecorded, StateOf
  <2>4. ASSUME NEW c \in Call, <<j, o, c>> \in WriteSites
        PROVE  call[<<j, o, c>>] \in {"none", "done"}
    <3>1. <<j, o, c>> \in Site
      BY DEF Site
    <3> QED
      BY <2>2, <2>3, <2>4, <3>1
         DEF StepInv, ResultsAnswerAll, SentIsRecorded, Open, RunnerInv, RunnerTypeOK
  <2>5. OpenWrites(s) = {}
    BY <2>1, <2>4 DEF OpenWrites, WriteRows, Rows
  <2> QED
    BY <2>1, <2>3, <2>5 DEF StateOf
<1>2. RunnerInv => RecordsAgree
  BY <1>1, OneOpen, Agrees DEF RecordsAgree, RunnerInv
<1> QED
  BY <1>2, RunnerInvariant, PTL

(* Once the cancellation is in the account's database no write of the job  *)
(* is sent any more, however far its pass is.                              *)
THEOREM CancellationStopsWrites == RunnerSpec => CancelStopsWrites
<1>1. ASSUME RunnerInv, [RunnerNext]_runnerVars PROVE [NothingSentForCancelled]_runnerVars
  <2> SUFFICES ASSUME RunnerNext, NEW s \in WriteSites, cancelRequested[s[1]]
               PROVE  sent'[s] = sent[s]
    BY <1>1 DEF NothingSentForCancelled
  <2>1. s \in Site
    BY CallAssumption
  <2>2. ASSUME NEW a \in Account, SendWrite(a) \/ SendRead(a) PROVE sent'[s] = sent[s]
    <3>1. Here(a) # s
      <4>1. CASE SendWrite(a)
        BY <4>1 DEF SendWrite, Here
      <4>2. CASE SendRead(a)
        BY <4>2 DEF SendRead
      <4> QED
        BY <2>2, <4>1, <4>2
    <3>2. sent' = [sent EXCEPT ![Here(a)] = @ + 1]
      BY <2>2 DEF SendWrite, SendRead, Send
    <3> QED
      BY <1>1, <2>1, <3>1, <3>2 DEF RunnerInv, RunnerTypeOK
  <2>3. ASSUME NEW a \in Account, PassStep(a) PROVE sent'[s] = sent[s]
    BY <2>2, <2>3 DEF PassStep, SettleNoMutation, Resume, ClaimNext, Rest, Admit, Refuse, Replay,
         Interrupted, Ask, Answer, Lost, Unclear, SealResult, ReportResult, GiveUp, EndPass
  <2>4. ASSUME NEW a \in Account, Alarm(a) \/ Crash(a) PROVE sent'[s] = sent[s]
    BY <2>4 DEF Alarm, StartPass, Crash
  <2>5. ASSUME NEW t \in Step, Adjudicate(t) PROVE sent'[s] = sent[s]
    BY <2>5 DEF Adjudicate, CloseFailed
  <2>6. ASSUME NEW t \in Site, Decide(t) PROVE sent'[s] = sent[s]
    BY <2>6 DEF Decide
  <2>7. ASSUME NEW j \in Job, CancelJob(j) \/ \E c \in BOOLEAN : DeliverJob(j, c) PROVE sent'[s] = sent[s]
    BY <2>7 DEF CancelJob, DeliverJob
  <2> QED
    BY <2>3, <2>4, <2>5, <2>6, <2>7 DEF RunnerNext
<1> QED
  BY <1>1, RunnerInvariant, PTL DEF RunnerSpec, CancelStopsWrites

-----------------------------------------------------------------------------
(* Every step of the runner is an operation of the queue, or leaves its    *)
(* tables alone: NO_MUTATION_RECORDED and the adjudication are             *)
(* reconciliations with the token of the claim.                            *)
LEMMA Reviewed ==
  ASSUME RunnerInv, NEW j \in Job, NEW o \in Ordinal, NEW e \in Evidence,
         stepState[j][o] = "unknown", Record(j, o, "failed", e)
  PROVE  Review
<1>1. token[j][o] \in 1..minted
  BY DEF RunnerInv, QueueInv, TypeOK, TokensAreClaims, Claimed, Uncertain, TokensWereMinted
<1>2. Reconcile(j, o, token[j][o], "failed", e)
  BY <1>1 DEF Reconcile
<1> QED
  BY <1>1, <1>2 DEF Review, Outcome

LEMMA QueueStep ==
  ASSUME RunnerInv, [RunnerNext]_runnerVars
  PROVE  [Next]_queueVars
<1>1. ASSUME NEW a \in Account, PassStep(a) PROVE [Next]_queueVars
  <2>1. CASE SettleNoMutation(a)
    <3>1. PICK j \in Job, o \in Ordinal : pass[a].step = <<j, o>>
      BY StepOfPass DEF RunnerInv
    <3>2. PICK e \in Evidence : Record(j, o, "failed", e) /\ stepState[j][o] = "unknown"
      BY <2>1, <3>1 DEF SettleNoMutation, ToSettle, Healable, StateOf
    <3> QED
      BY <3>2, Reviewed DEF Next
  <2>2. CASE \E s \in Step : ClaimNext(a, s)
    <3>1. PICK j \in Job, o \in Ordinal : Claim(a, j, o)
      BY <2>2 DEF ClaimNext, Step
    <3> QED
      BY <3>1 DEF Next, Start
  <2>3. CASE ReportResult(a) \/ GiveUp(a)
    <3>1. PICK j \in Job, o \in Ordinal : pass[a].step = <<j, o>>
      BY StepOfPass DEF RunnerInv
    <3>2. PICK r \in Outcome : EndPass(a, r)
      <4>1. pass[a].outcome \in Outcome /\ "unknown" \in Outcome
        BY DEF RunnerInv, RunnerTypeOK, Outcome
      <4>2. EndPass(a, pass[a].outcome) \/ EndPass(a, "unknown")
        BY <2>3 DEF ReportResult, GiveUp
      <4> QED
        BY <4>1, <4>2
    <3>3. PICK e \in Evidence : Finish(j, o, token[j][o], r, e)
      BY <3>1, <3>2 DEF EndPass
    <3>4. token[j][o] \in 1..minted
      BY <3>3 DEF Finish, RunnerInv, QueueInv, TypeOK, TokensWereMinted
    <3> QED
      BY <3>3, <3>4 DEF Next, Report
  <2>4. CASE UNCHANGED queueVars
    BY <2>4
  <2> QED
    BY <1>1, <2>1, <2>2, <2>3, <2>4
       DEF PassStep, Resume, Rest, Admit, Refuse, Replay, Interrupted, Ask, SendWrite, SendRead,
           Send, Answer, Lost, Unclear, SealResult
<1>2. ASSUME NEW s \in Step, NEW c \in Call, CloseFailed(s, c) PROVE [Next]_queueVars
  <2>1. PICK j \in Job, o \in Ordinal : s = <<j, o>>
    BY DEF Step
  <2>2. PICK e \in Evidence : Record(j, o, "failed", e) /\ stepState[j][o] = "unknown"
    BY <1>2, <2>1 DEF CloseFailed, StateOf
  <2> QED
    BY <2>2, Reviewed DEF Next
<1>3. ASSUME NEW j \in Job, CancelJob(j) \/ \E c \in BOOLEAN : DeliverJob(j, c) PROVE [Next]_queueVars
  BY <1>3 DEF CancelJob, DeliverJob, Next, Deliver, Cancel
<1>4. CASE UNCHANGED queueVars
  BY <1>4
<1>5. CASE RunnerNext
  BY <1>1, <1>2, <1>3, <1>4, <1>5 DEF RunnerNext, Alarm, StartPass, Crash, Adjudicate, Decide
<1> QED
  BY <1>4, <1>5 DEF runnerVars

(* The runner implements the queue: all that is proved of AccountQueue     *)
(* holds of the account while it executes, crashes and is adjudicated.     *)
THEOREM RunnerImplementsQueue == RunnerSpec => Spec
<1>1. RunnerInit => Init
  BY DEF RunnerInit
<1> QED
  BY <1>1, QueueStep, RunnerInvariant, PTL DEF RunnerSpec, Spec
=============================================================================
