---------------------------- MODULE AccountRunner ----------------------------
(***************************************************************************)
(* The execution of an account's steps: AccountRunner.pass                 *)
(* (src/src/reliability/account-runner.ts), the HTTP journal it executes   *)
(* them through (execution-journal.ts), the account's alarm pass that      *)
(* starts it (coordinator-runtime.ts) and the operator's adjudication of   *)
(* an unknown step (unknown-adjudication.ts), over the tables of           *)
(* AccountQueue.                                                           *)
(*                                                                         *)
(* A step sends a sequence of HTTP calls to the provider, some of them     *)
(* writes.  It is deterministic (execution-context.ts freezes its inputs), *)
(* so after a crash it makes the same calls again; the journal answers     *)
(* those that were answered before and never sends a write twice.          *)
(*                                                                         *)
(* The pass is split where the code awaits RPC, HTTP or WebCrypto; what it *)
(* does between two such points is one step, also for a crash: the writes  *)
(* that a Durable Object makes without waiting are committed together.     *)
(* Where a pass is, is volatile; the rest is in the account's database.    *)
(***************************************************************************)
EXTENDS AccountQueue

CONSTANTS
  MaxCalls,    \* the most calls one step may make (500 in the code)
  CallCount,   \* CallCount[j][o]: the calls that step o of job j makes ...
  WriteSites,  \* ... and the <<j, o, c>> that are writes
  Warm,        \* Warm[a]: the account executed something before these jobs
  MaxCrashes   \* model bound

Call == 0..(MaxCalls - 1)
Site == Job \X Ordinal \X Call
Step == Job \X Ordinal

ASSUME CallAssumption ==
  /\ Job # {} /\ MaxCalls \in Nat
  /\ CallCount \in [Job -> [Ordinal -> 1..MaxCalls]]
  /\ WriteSites \subseteq Site
ASSUME WarmAssumption == Warm \in [Account -> BOOLEAN] /\ MaxCrashes \in Nat

VARIABLES
  journal,      \* journal[a]: the table execution_calls exists
  call,         \* execution_calls.state of a call, "none" where there is no row
  response,     \* the sealed response of a call
  result,       \* the sealed result of a step
  settled,      \* the rows of no_mutation_settlements
  adjudicated,  \* the rows of unknown_adjudications
  pass,         \* pass[a]: where the account's pass is; volatile
  sent,         \* how many times a call was given to the transport
  transit,      \* writes the provider was given and has not yet decided on
  crashes

journalVars == <<journal, call, response, result, settled, adjudicated>>
runnerVars == <<queueVars, journalVars, pass, sent, transit, crashes>>

At == {"idle", "settling", "picking", "prepare", "execute", "asking", "waiting",
       "concluded", "reporting", "failing"}
(* What a step makes of an answer: it makes its next call, it knows its    *)
(* outcome, or it cannot tell (ExecutionUnknown).                          *)
Answers == {"goes_on", "verified", "failed", "odd"}

(* A pass: its phase, the job it was started for, its step and its call.   *)
NoStep == <<CHOOSE j \in Job : TRUE, 0>>
Idle == [at |-> "idle", active |-> NoStep[1], step |-> NoStep, cursor |-> 0,
         outcome |-> "failed"]

Steps(a) == {s \in Step : Owner[s[1]] = a}
StateOf(s) == stepState[s[1]][s[2]]
Rows(s) == {c \in Call : call[<<s[1], s[2], c>>] # "none"}
WriteRows(s) == {c \in Rows(s) : <<s[1], s[2], c>> \in WriteSites}
OpenWrites(s) == {c \in WriteRows(s) : call[<<s[1], s[2], c>>] # "done"}

\* The call that the pass of account a is at.
Here(a) == <<pass[a].step[1], pass[a].step[2], pass[a].cursor>>

RunnerInit ==
  /\ Init
  /\ journal = Warm
  /\ call = [s \in Site |-> "none"]
  /\ response = [s \in Site |-> "none"]
  /\ result = [s \in Step |-> "none"]
  /\ settled = {}
  /\ adjudicated = {}
  /\ pass = [a \in Account |-> Idle]
  /\ sent = [s \in Site |-> 0]
  /\ transit = {}
  /\ crashes = 0

-----------------------------------------------------------------------------
(* The account's alarm (AccountCoordinatorRuntime.pass).                   *)

\* Faulty: a write that is still on its way does not count.
HealableUnlessAnswered(a) ==
  {s \in Steps(a) : StateOf(s) = "unknown" /\ WriteRows(s) = OpenWrites(s)}

(* Unknown steps that no recorded write keeps from being settled ...       *)
Healable(a) == IF journal[a]
               THEN {s \in Steps(a) : StateOf(s) = "unknown" /\ WriteRows(s) = {}}
               ELSE {}

(* ... and those that settleNoMutationUnknowns takes up.                   *)
ToSettle(a) == {s \in Healable(a) : s \notin settled /\ result[s] = "none"}

Unresolved(a) == {s \in Steps(a) : StateOf(s) \in Uncertain}

(* The job the pass is for; its delivery is what the pass is authorized by. *)
IsActive(a, j) ==
  LET waiting == {k \in Job : Owner[k] = a /\ jobState[k] \in {"queued", "running"}}
  IN  IF Unresolved(a) # {}
      THEN \E s \in Unresolved(a) : s[1] = j
      ELSE j \in waiting /\ \A k \in waiting : seq[j] <= seq[k]

\* Faulty: an unknown step is always left to the operators.
StartPassUnlessUnknown(a, j) ==
  /\ pass[a].at = "idle"
  /\ IsActive(a, j)
  /\ \A s \in Steps(a) : StateOf(s) # "unknown"
  /\ pass' = [pass EXCEPT ![a] = [Idle EXCEPT !.at = "picking", !.active = j]]
  /\ UNCHANGED <<queueVars, journalVars, sent, transit, crashes>>

StartPass(a, j) ==
  /\ pass[a].at = "idle"
  /\ IsActive(a, j)
  /\ (\E s \in Steps(a) : StateOf(s) = "unknown") => Healable(a) # {}
  /\ IF ToSettle(a) = {}
     THEN pass' = [pass EXCEPT ![a] = [Idle EXCEPT !.at = "picking", !.active = j]]
     ELSE \E s \in ToSettle(a) :
            pass' = [pass EXCEPT ![a] =
              [Idle EXCEPT !.at = "settling", !.active = j, !.step = s]]
  /\ UNCHANGED <<queueVars, journalVars, sent, transit, crashes>>

-----------------------------------------------------------------------------

(* AccountRunner.settleNoMutationUnknowns: the step failed for certain,    *)
(* because no write was ever recorded for it.                              *)
SettleNoMutation(a) ==
  LET s == pass[a].step
  IN  /\ pass[a].at = "settling"
      /\ s \in ToSettle(a)
      /\ \E e \in Evidence : Record(s[1], s[2], "failed", e)
      /\ result' = [result EXCEPT ![s] = "failed"]
      /\ settled' = settled \union {s}
      /\ pass' = [pass EXCEPT ![a].at = "picking"]
      /\ UNCHANGED <<journal, call, response, adjudicated, sent, transit, crashes>>

\* Faulty: only a step that was concluded is resumed.
ResumeConcluded(a, s) ==
  /\ pass[a].at = "picking"
  /\ s \in Unresolved(a) /\ StateOf(s) = "in_flight" /\ result[s] # "none"
  /\ pass' = [pass EXCEPT ![a] = [@ EXCEPT
       !.at = "reporting", !.step = s, !.outcome = result[s]]]
  /\ UNCHANGED <<queueVars, journalVars, sent, transit, crashes>>

(* The step that was in flight is resumed with its token ...               *)
Resume(a, s) ==
  /\ pass[a].at = "picking"
  /\ s \in Unresolved(a) /\ StateOf(s) = "in_flight"
  /\ pass' = [pass EXCEPT ![a] = [@ EXCEPT
       !.at = IF result[s] = "none" THEN "prepare" ELSE "reporting", !.step = s,
       !.outcome = IF result[s] = "none" THEN "failed" ELSE result[s]]]
  /\ UNCHANGED <<queueVars, journalVars, sent, transit, crashes>>

(* ... or the next one is claimed ...                                      *)
ClaimNext(a, s) ==
  /\ pass[a].at = "picking"
  /\ Claim(a, s[1], s[2])
  /\ pass' = [pass EXCEPT ![a] = [@ EXCEPT !.at = "prepare", !.step = s]]
  /\ UNCHANGED <<journalVars, sent, transit, crashes>>

(* ... or there is nothing to do.                                          *)
Rest(a) ==
  /\ pass[a].at = "picking"
  /\ \/ \E s \in Unresolved(a) : StateOf(s) = "unknown"
     \/ Unresolved(a) = {} /\ Claimable(a) = {}
  /\ pass' = [pass EXCEPT ![a] = Idle]
  /\ UNCHANGED <<queueVars, journalVars, sent, transit, crashes>>

(* The authorization of the global object and the snapshot arrive; the     *)
(* journal is opened, which creates its table.                             *)
Admit(a) ==
  LET j == pass[a].step[1]
  IN  /\ pass[a].at = "prepare"
      /\ j = pass[a].active /\ ~cancelRequested[j]
      /\ journal' = [journal EXCEPT ![a] = TRUE]
      /\ pass' = [pass EXCEPT ![a] = [@ EXCEPT !.at = "execute", !.cursor = 0]]
      /\ UNCHANGED <<queueVars, call, response, result, settled, adjudicated, sent,
                     transit, crashes>>

(* The authorization fails: the RPC is lost, the permit or the credential  *)
(* was revoked, maintenance began, the job was cancelled or is not the one *)
(* the pass is for.  Before a write it is asked for again.                 *)
Refuse(a) ==
  /\ pass[a].at \in {"prepare", "asking"}
  /\ pass' = [pass EXCEPT ![a].at = "failing"]
  /\ UNCHANGED <<queueVars, journalVars, sent, transit, crashes>>

-----------------------------------------------------------------------------
(* ExecutionJournal.execute.                                               *)

(* The step acts on the answer of its call.                                *)
Advance(a, r) ==
  LET p == pass[a]
  IN  pass' = [pass EXCEPT ![a] =
        CASE r = "goes_on" -> [p EXCEPT !.at = "execute", !.cursor = p.cursor + 1]
          [] r = "odd"     -> [p EXCEPT !.at = "failing"]
          [] OTHER         -> [p EXCEPT !.at = "concluded", !.outcome = r]]

(* A call that was answered is answered again from the sealed response.    *)
Replay(a) ==
  /\ pass[a].at = "execute"
  /\ call[Here(a)] = "done"
  /\ Advance(a, response[Here(a)])
  /\ UNCHANGED <<queueVars, journalVars, sent, transit, crashes>>

(* A read that failed stays failed, and a write that was interrupted is    *)
(* never sent again: the step is given up.                                 *)
Interrupted(a) ==
  /\ pass[a].at = "execute"
  /\ \/ call[Here(a)] = "read_failed"
     \/ call[Here(a)] \in {"in_flight", "unknown"} /\ Here(a) \in WriteSites
  /\ pass' = [pass EXCEPT ![a].at = "failing"]
  /\ UNCHANGED <<queueVars, journalVars, sent, transit, crashes>>

\* Faulty: an interrupted write is sent again, as a read is.
AskAgain(a) ==
  /\ pass[a].at = "execute"
  /\ call[Here(a)] \in {"none", "in_flight"} /\ Here(a) \in WriteSites
  /\ pass' = [pass EXCEPT ![a].at = "asking"]
  /\ UNCHANGED <<queueVars, journalVars, sent, transit, crashes>>

(* The request of a write is sealed, then its authorization is asked for.  *)
Ask(a) ==
  /\ pass[a].at = "execute"
  /\ call[Here(a)] = "none" /\ Here(a) \in WriteSites
  /\ pass' = [pass EXCEPT ![a].at = "asking"]
  /\ UNCHANGED <<queueVars, journalVars, sent, transit, crashes>>

Send(a) ==
  /\ call' = [call EXCEPT ![Here(a)] = "in_flight"]
  /\ sent' = [sent EXCEPT ![Here(a)] = @ + 1]
  /\ pass' = [pass EXCEPT ![a].at = "waiting"]
  /\ UNCHANGED <<queueVars, journal, response, result, settled, adjudicated, crashes>>

\* Faulty: a cancellation that arrives with the authorization is overlooked.
SendWriteRegardless(a) ==
  /\ pass[a].at = "asking"
  /\ Send(a)
  /\ transit' = transit \union {Here(a)}

(* The row is written, then the transport is called, in one turn with the  *)
(* last look at the cancel flag.                                           *)
SendWrite(a) ==
  /\ pass[a].at = "asking"
  /\ ~cancelRequested[pass[a].step[1]]
  /\ Send(a)
  /\ transit' = transit \union {Here(a)}

(* A read is sent, again if it was interrupted.                            *)
SendRead(a) ==
  /\ pass[a].at = "execute"
  /\ call[Here(a)] \in {"none", "in_flight"} /\ Here(a) \notin WriteSites
  /\ Send(a)
  /\ UNCHANGED transit

\* Faulty: the response is sealed but the row stays in flight.
AnswerUnmarked(a, r) ==
  LET s == Here(a)
  IN  /\ pass[a].at = "waiting"
      /\ s \notin transit
      /\ r = "goes_on" => s[3] + 1 < CallCount[s[1]][s[2]]
      /\ response' = [response EXCEPT ![s] = r]
      /\ Advance(a, r)
      /\ UNCHANGED <<queueVars, journal, call, result, settled, adjudicated, sent,
                     transit, crashes>>

(* A definite answer arrives in time and is sealed: the provider has       *)
(* decided.                                                                *)
Answer(a, r) ==
  LET s == Here(a)
  IN  /\ pass[a].at = "waiting"
      /\ s \notin transit
      /\ r = "goes_on" => s[3] + 1 < CallCount[s[1]][s[2]]
      /\ call' = [call EXCEPT ![s] = "done"]
      /\ response' = [response EXCEPT ![s] = r]
      /\ Advance(a, r)
      /\ UNCHANGED <<queueVars, journal, result, settled, adjudicated, sent, transit,
                     crashes>>

\* Faulty: a write that timed out has failed.
LostIsAFailure(a) ==
  /\ pass[a].at = "waiting"
  /\ call' = [call EXCEPT ![Here(a)] = "read_failed"]
  /\ pass' = [pass EXCEPT ![a] = [@ EXCEPT !.at = "concluded", !.outcome = "failed"]]
  /\ UNCHANGED <<queueVars, journal, response, result, settled, adjudicated, sent, transit,
                 crashes>>

(* The deadline passes or the connection breaks: nothing is known of a     *)
(* write.                                                                  *)
Lost(a) ==
  /\ pass[a].at = "waiting"
  /\ call' = [call EXCEPT ![Here(a)] =
       IF Here(a) \in WriteSites THEN "unknown" ELSE "read_failed"]
  /\ pass' = [pass EXCEPT ![a].at = "failing"]
  /\ UNCHANGED <<queueVars, journal, response, result, settled, adjudicated, sent,
                 transit, crashes>>

(* The answer is no proof (5xx, 408, an unreadable body) or could not be   *)
(* sealed: the row stays in flight.                                        *)
Unclear(a) ==
  /\ pass[a].at = "waiting"
  /\ pass' = [pass EXCEPT ![a].at = "failing"]
  /\ UNCHANGED <<queueVars, journalVars, sent, transit, crashes>>

-----------------------------------------------------------------------------
(* ExecutionJournal.finish: the rows are exactly the calls that were made, *)
(* and all are answered.  It throws otherwise (never here: ReplayAgrees).  *)
JournalAgrees(a) ==
  /\ Rows(pass[a].step) = 0..pass[a].cursor
  /\ \A c \in Rows(pass[a].step) :
       call[<<pass[a].step[1], pass[a].step[2], c>>] \in {"done", "read_failed"}

(* The result is sealed ...                                                *)
SealResult(a) ==
  /\ pass[a].at = "concluded"
  /\ JournalAgrees(a)
  /\ result' = [result EXCEPT ![pass[a].step] = pass[a].outcome]
  /\ pass' = [pass EXCEPT ![a].at = "reporting"]
  /\ UNCHANGED <<queueVars, journal, call, response, settled, adjudicated, sent,
                 transit, crashes>>

EndPass(a, outcome) ==
  LET j == pass[a].step[1]  o == pass[a].step[2]
  IN  /\ \E e \in Evidence : Finish(j, o, token[j][o], outcome, e)
      /\ pass' = [pass EXCEPT ![a] = Idle]
      /\ UNCHANGED <<journalVars, sent, transit, crashes>>

(* ... and then reported to the queue.                                     *)
ReportResult(a) == pass[a].at = "reporting" /\ EndPass(a, pass[a].outcome)

(* Whatever was thrown, the step becomes unknown.                          *)
GiveUp(a) == pass[a].at = "failing" /\ EndPass(a, "unknown")

(* The object is evicted, or the runtime fails, at any point of the pass.  *)
Crash(a) ==
  /\ pass[a].at # "idle" /\ crashes < MaxCrashes
  /\ pass' = [pass EXCEPT ![a] = Idle]
  /\ crashes' = crashes + 1
  /\ UNCHANGED <<queueVars, journalVars, sent, transit>>

-----------------------------------------------------------------------------

(* UnknownAdjudication.closeFailed: an operator closes the one open write  *)
(* of an unknown step as failed, after another one attested that the       *)
(* provider is done with it.  The attestation is taken to be true.         *)
CloseFailed(s, c) ==
  LET site == <<s[1], s[2], c>>
  IN  /\ pass[Owner[s[1]]].at = "idle"
      /\ jobState[s[1]] = "needs_review" /\ StateOf(s) = "unknown"
      /\ OpenWrites(s) = {c}
      /\ result[s] = "none" /\ response[site] = "none"
      /\ site \notin transit
      /\ \E e \in Evidence : Record(s[1], s[2], "failed", e)
      /\ adjudicated' = adjudicated \union {site}
      /\ UNCHANGED <<journal, call, response, result, settled, pass, sent, transit,
                     crashes>>

(* The provider decides on a write, perhaps long after the deadline.       *)
Decide(s) ==
  /\ s \in transit
  /\ transit' = transit \ {s}
  /\ UNCHANGED <<queueVars, journalVars, pass, sent, crashes>>

(* A delivery arrives.  The global object delivers to an account that has  *)
(* reported everything it was given before (Coordinator).                  *)
DeliverJob(j, c) ==
  /\ \A k \in Job : Owner[k] = Owner[j] => jobState[k] \in {"absent"} \union Terminal
  /\ Enqueue(j, c)
  /\ UNCHANGED <<journalVars, pass, sent, transit, crashes>>

CancelJob(j) ==
  /\ CancelLocal(j)
  /\ UNCHANGED <<journalVars, pass, sent, transit, crashes>>

(* What the account's pass does next. *)
PassStep(a) ==
  \/ SettleNoMutation(a)
  \/ \E s \in Step : Resume(a, s) \/ ClaimNext(a, s)
  \/ Rest(a)
  \/ Admit(a) \/ Refuse(a)
  \/ Replay(a) \/ Interrupted(a) \/ Ask(a) \/ SendWrite(a) \/ SendRead(a)
  \/ \E r \in Answers : Answer(a, r)
  \/ Lost(a) \/ Unclear(a)
  \/ SealResult(a) \/ ReportResult(a) \/ GiveUp(a)

Alarm(a) == \E j \in Job : StartPass(a, j)
Adjudicate(s) == \E c \in Call : CloseFailed(s, c)

RunnerNext ==
  \/ \E a \in Account : Alarm(a) \/ PassStep(a) \/ Crash(a)
  \/ \E s \in Step : Adjudicate(s)
  \/ \E s \in Site : Decide(s)
  \/ \E j \in Job : CancelJob(j) \/ \E c \in BOOLEAN : DeliverJob(j, c)

RunnerSpec == RunnerInit /\ [][RunnerNext]_runnerVars

(* The alarm is armed before every pass and a pass ends: RPC and HTTP have *)
(* deadlines.  Fewer crashes than the retry budget of DurableWakeup (8).   *)
(* The provider decides on what it got, and operators decide what they are *)
(* allowed to decide.                                                      *)
Fairness ==
  /\ \A a \in Account : WF_runnerVars(Alarm(a)) /\ WF_runnerVars(PassStep(a))
  /\ \A s \in Step : WF_runnerVars(Adjudicate(s))
  /\ \A s \in Site : WF_runnerVars(Decide(s))

FairSpec == RunnerSpec /\ Fairness

-----------------------------------------------------------------------------
RunnerTypeOK ==
  /\ TypeOK
  /\ journal \in [Account -> BOOLEAN]
  /\ call \in [Site -> {"none", "in_flight", "done", "unknown", "read_failed"}]
  /\ response \in [Site -> {"none"} \union Answers]
  /\ result \in [Step -> {"none", "verified", "failed"}]
  /\ settled \subseteq Step
  /\ adjudicated \subseteq Site
  /\ pass \in [Account -> [at : At, active : Job, step : Step, cursor : Call,
                           outcome : {"verified", "failed"}]]
  /\ sent \in [Site -> Nat]
  /\ transit \subseteq WriteSites
  /\ crashes \in 0..MaxCrashes

(* No write is given to the transport twice, whatever is interrupted,      *)
(* resumed, cancelled or adjudicated (execution-journal.ts:70-72).         *)
WritesAreSentOnce == \A s \in WriteSites : sent[s] <= 1

(* What is settled as NO_MUTATION_RECORDED wrote nothing and never will    *)
(* (account-runner.ts:42-47).                                              *)
SettledWroteNothing ==
  \A s \in settled : \A c \in Call : <<s[1], s[2], c>> \in WriteSites =>
    sent[<<s[1], s[2], c>>] = 0

(* Nothing lands behind the back of a recorded outcome: a write that the   *)
(* provider may still carry out belongs to a step that is running or in    *)
(* doubt.                                                                  *)
OutcomesAreSettled ==
  \A s \in transit : stepState[s[1]][s[2]] \in Uncertain

(* Adjudication supports one open write, and there is never a second one   *)
(* that nobody has decided on in the account.                              *)
OneOpenWrite ==
  \A a \in Account : \A s, t \in Steps(a) : \A c, d \in Call :
    /\ c \in OpenWrites(s) /\ <<s[1], s[2], c>> \notin adjudicated
    /\ d \in OpenWrites(t) /\ <<t[1], t[2], d>> \notin adjudicated
    => s = t /\ c = d

(* The check of ExecutionJournal.finish never refuses a step that ran to   *)
(* its end: replay and the first execution leave the same rows.            *)
ReplayAgrees == \A a \in Account : pass[a].at = "concluded" => JournalAgrees(a)

(* What the queue records of a step is its sealed result, and all of its   *)
(* writes were answered, unless operators closed it.                       *)
SealedResultStands ==
  \A s \in Step : StateOf(s) \in {"verified", "failed"} =>
    \/ result[s] = StateOf(s) /\ OpenWrites(s) = {}
    \/ \E c \in Call : <<s[1], s[2], c>> \in adjudicated

(* The records of an execution agree with each other: the queue with the   *)
(* sealed results, the journal with its replay, and no account ever has    *)
(* two open writes for operators to decide on.                             *)
RecordsAgree == RunnerTypeOK /\ OneOpenWrite /\ ReplayAgrees /\ SealedResultStands

(* After the account has recorded a cancellation no write of the job is    *)
(* sent any more.                                                          *)
NothingSentForCancelled ==
  \A s \in WriteSites : cancelRequested[s[1]] => sent'[s] = sent[s]
CancelStopsWrites == [][NothingSentForCancelled]_runnerVars

(* A step that was handed out is eventually recorded.                      *)
StepsAreRecorded ==
  \A s \in Step : (StateOf(s) = "in_flight") ~> (StateOf(s) # "in_flight")

(* account-runner.ts:48-49: an unknown step without a recorded write does  *)
(* not hold the account permit forever.                                    *)
PreMutationUnknownsEnd ==
  \A s \in Step : (StateOf(s) = "unknown" /\ WriteRows(s) = {}) ~> (StateOf(s) # "unknown")

(* An unknown step with an open write is eventually closed by the          *)
(* operators.                                                              *)
OpenWritesAreClosed ==
  \A s \in Step : (StateOf(s) = "unknown" /\ OpenWrites(s) # {}) ~> (StateOf(s) # "unknown")

(* No step of an account hangs for ever while everybody does his part      *)
(* (account-runner.ts, unknown-adjudication.ts).                           *)
NoStepHangs == StepsAreRecorded /\ OpenWritesAreClosed

(* "Unknowns WITH a journaled mutation ... require operator adjudication"  *)
(* (coordinator-runtime.ts:402-403): operators can settle each of them.    *)
MutationUnknownsEnd ==
  \A s \in Step : (StateOf(s) = "unknown" /\ WriteRows(s) # {}) ~> (StateOf(s) # "unknown")
=============================================================================
