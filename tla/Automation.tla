----------------------------- MODULE Automation -----------------------------
(* The periodic updates: Cron opens a cycle per window on a frozen view of   *)
(* the configuration (automation-cycle.ts), the planner decides once what to *)
(* deploy (automation-planner.ts), and a flow takes the decision's lanes,    *)
(* one per template, through admission, completion and notification          *)
(* (automation-flow.ts, webhook-outbox.ts).  Flows of several windows run at *)
(* the same time; each stops at every await.  All workers are on one account.*)
EXTENDS Naturals, Sequences, FiniteSets

CONSTANTS Templates,   \* in the order of a decision's lanes
          Windows,     \* windows for which Cron fires, 1..n
          Late,        \* a window that is older is refused, and so is the first admission of its lanes (2)
          Webhooks,    \* templates whose success is notified
          Budget,      \* attempts of one admission (8)
          MaxRev, MaxVersion, MaxClock,
          MaxMoves     \* bounds; moves: restarts, and what the user does

VARIABLES clock, maintenance, manual,  \* manual: another task holds the account
          rev, upstream, deployed,  \* per template: revision of its records, versions
          ring,        \* current key of the snapshot key ring
          flow,        \* automation_cycles, automation_flows and the sealed decision
          lane,        \* automation_lanes
          seal,                     \* per lane: the key its task's snapshot is sealed with, 0 if it is not
          task, notice, sent,       \* the lanes' tasks, webhook_outbox, requests made
          opening, work, calls,     \* calls of open, the map work, pending calls of observeTask
          armed, moves

vars == <<clock, maintenance, manual, rev, upstream, deployed, ring, flow, lane, seal, task,
          notice, sent, opening, work, calls, armed, moves>>
world == <<clock, maintenance, manual, rev, upstream, deployed, ring>>
effects == <<seal, task, notice, sent>>

Lanes == {Templates[i] : i \in 1..Len(Templates)}
ASSUME TemplatesAssumption == Templates \in Seq(Lanes)
ASSUME WindowsAssumption == Windows \subseteq Nat /\ Late \in Nat /\ Budget \in Nat
ASSUME FlowBoundsAssumption ==
  MaxRev \in Nat \ {0} /\ MaxVersion \in Nat \ {0} /\ MaxClock \in Nat \ {0} /\ MaxMoves \in Nat
Ended == {"succeeded", "failed", "cancelled"}
Over == {"complete", "planning_failed"}
Idle == [pc |-> "idle", fresh |-> FALSE, left |-> <<>>]
Current(w) == Head(work[w].left)
Busy == manual \/ \E w \in Windows, t \in Lanes : task[w][t] \in {"open", "unknown"}

Init == /\ clock = 1 /\ maintenance = FALSE /\ manual = FALSE
        /\ rev = [t \in Lanes |-> 1] /\ upstream = 1 /\ deployed = [t \in Lanes |-> 0] /\ ring = 1
        /\ flow = [w \in Windows |-> [state |-> "none", deps |-> rev, sealed |-> FALSE,
                                      lanes |-> {}, version |-> 0]]
        /\ lane = [w \in Windows |-> [t \in Lanes |-> [state |-> "none", known |-> FALSE, attempts |-> 0]]]
        /\ task = [w \in Windows |-> [t \in Lanes |-> "none"]]
        /\ notice = task /\ sent = [w \in Windows |-> [t \in Lanes |-> 0]] /\ seal = sent
        /\ opening = {} /\ work = [w \in Windows |-> Idle] /\ calls = {} /\ armed = FALSE /\ moves = 0

(* drive, up to its first await; a call that finds one running joins it.    *)
Drive(w, fresh) ==
    IF work[w] # Idle \/ maintenance \/ flow'[w].state \in Over THEN UNCHANGED <<work, armed>>
    ELSE /\ work' = [work EXCEPT ![w] = [pc |-> "restore", fresh |-> fresh, left |-> <<>>]]
         /\ armed' = (armed \/ flow'[w].state # "needs_review")

-----------------------------------------------------------------------------
(* Cron: a window is opened once, of the revisions it was reserved with.    *)
Cron(w) ==
    /\ w <= clock /\ clock - w <= Late /\ ~maintenance
    /\ \/ /\ flow[w].state = "none"
          /\ flow' = [flow EXCEPT ![w].state = "reserved", ![w].deps = rev]
          /\ opening' = opening \union {w} /\ UNCHANGED <<work, armed>>
       \/ /\ flow[w].state = "reserved" /\ flow[w].deps = rev /\ w \notin opening
          /\ opening' = opening \union {w} /\ UNCHANGED <<flow, work, armed>>
       \/ flow[w].state \notin {"none", "reserved"} /\ UNCHANGED <<flow, opening>> /\ Drive(w, FALSE)
    /\ UNCHANGED <<world, lane, effects, calls, moves>>
(* The view is sealed, and the first call that comes back starts the flow.  *)
Opened(w) ==
    /\ w \in opening /\ opening' = opening \ {w}
    /\ flow' = [flow EXCEPT ![w].state = "planning"]
    /\ Drive(w, TRUE)
    /\ UNCHANGED <<world, lane, effects, calls, moves>>
Due == {w \in Windows : ~maintenance /\ flow[w].state \in {"planning", "active"}}
\* Faulty: the alarm is not set again before the flows are driven.
TickOnce(w) ==
    /\ armed /\ armed' = FALSE
    /\ \/ Due = {} /\ UNCHANGED work
       \/ w \in Due /\ work[w] = Idle /\ work' = [work EXCEPT ![w] = [pc |-> "restore", fresh |-> FALSE, left |-> <<>>]]
    /\ UNCHANGED <<world, flow, lane, effects, opening, calls, moves>>
(* The alarm: tick drives every flow that is not parked or over, in turn.   *)
Tick(w) ==
    /\ armed
    /\ \/ Due = {} /\ armed' = FALSE /\ UNCHANGED work
       \/ w \in Due /\ UNCHANGED flow /\ Drive(w, FALSE)
    /\ UNCHANGED <<world, flow, lane, effects, opening, calls, moves>>
(* A call of the receipt observer is made.                                  *)
Coalesce(w) ==
    /\ w \in calls /\ calls' = calls \ {w} /\ UNCHANGED flow /\ Drive(w, FALSE)
    /\ UNCHANGED <<world, lane, effects, opening, moves>>

-----------------------------------------------------------------------------
(* A decision that was sealed is followed, unless it cannot be read any     *)
(* more; one that was not is never made again.                              *)
Restore(w) ==
    /\ work[w].pc = "restore"
    /\ \/ /\ flow[w].sealed
          /\ lane' = [lane EXCEPT ![w] = [t \in Lanes |-> IF t \in flow[w].lanes /\ lane[w][t].state = "none"
                                                             THEN [lane[w][t] EXCEPT !.state = "ready"] ELSE lane[w][t]]]
          /\ flow' = [flow EXCEPT ![w].state = "active"]
          /\ work' = [work EXCEPT ![w].pc = "lane", ![w].left = Templates]
       \/ ~flow[w].sealed /\ work[w].fresh /\ work' = [work EXCEPT ![w].pc = "plan"] /\ UNCHANGED <<flow, lane>>
       \/ /\ flow[w].sealed \/ ~work[w].fresh
          /\ flow' = [flow EXCEPT ![w].state = "planning_failed"]
          /\ work' = [work EXCEPT ![w] = Idle] /\ UNCHANGED lane
    /\ UNCHANGED <<world, effects, opening, calls, armed, moves>>
(* The planner: what is behind the upstream, of templates whose records are *)
(* those of the frozen view, on an account that is free, if it is time for a *)
(* check.                                                                   *)
Plan(w) ==
    /\ work[w].pc = "plan"
    /\ \/ /\ flow' = [flow EXCEPT ![w].state = "planning_failed"] /\ work' = [work EXCEPT ![w] = Idle]
       \/ LET behind == {t \in Lanes : ~Busy /\ deployed[t] # upstream /\ rev[t] = flow[w].deps[t]}
          IN  \E lanes \in {{}, behind} :
              /\ flow' = [flow EXCEPT ![w].sealed = TRUE, ![w].lanes = lanes, ![w].version = IF lanes = {} THEN 0 ELSE upstream]
              /\ work' = [work EXCEPT ![w].pc = "restore"]
    /\ UNCHANGED <<world, lane, effects, opening, calls, armed, moves>>

SetLane(w, t, state) == lane' = [lane EXCEPT ![w][t].state = state]
NextLane(w) == work' = [work EXCEPT ![w].pc = "lane", ![w].left = Tail(@)]
Go(w, pc) == work' = [work EXCEPT ![w].pc = pc]
(* The lane of a task that is known: it is as far as its targets are.       *)
Follow(w, t, known) ==
    CASE task[w][t] = "unknown" -> lane' = [known EXCEPT ![w][t].state = "needs_review"] /\ NextLane(w)
      [] task[w][t] = "open" -> lane' = [known EXCEPT ![w][t].state = "running"] /\ NextLane(w)
      [] task[w][t] = "succeeded" /\ t \in Webhooks -> lane' = known /\ Go(w, "notify")
      [] task[w][t] = "succeeded" /\ t \notin Webhooks -> lane' = [known EXCEPT ![w][t].state = "succeeded"] /\ NextLane(w)
      [] OTHER -> lane' = [known EXCEPT ![w][t].state = "failed"] /\ NextLane(w)
(* One turn of the loop over the lanes of the decision, up to its next      *)
(* await.                                                                   *)
Lane(w) ==
    /\ work[w].pc = "lane" /\ work[w].left # <<>>
    /\ LET t == Current(w) IN
       IF maintenance THEN work' = [work EXCEPT ![w] = Idle] /\ UNCHANGED lane
       ELSE IF t \notin flow[w].lanes THEN NextLane(w) /\ UNCHANGED lane
       ELSE CASE lane[w][t].state \in {"ready", "submitting"} /\ lane[w][t].attempts >= Budget ->
                   SetLane(w, t, "admission_unknown") /\ NextLane(w)
              [] lane[w][t].state \in {"ready", "submitting"} /\ lane[w][t].attempts < Budget ->
                   /\ lane' = [lane EXCEPT ![w][t].state = "submitting", ![w][t].attempts = @ + 1] /\ Go(w, "submit")
              [] lane[w][t].state \in {"refused", "admission_unknown"} -> NextLane(w) /\ UNCHANGED lane
              [] OTHER -> Follow(w, t, lane)
    /\ UNCHANGED <<world, flow, effects, opening, calls, armed, moves>>

\* Faulty: the revisions are not compared again when the task is inserted.
GuardUnchecked(w, t) ==
    /\ ~maintenance /\ clock <= w + Late
    /\ ~manual /\ \A v \in Windows, u \in Lanes : task[v][u] \in {"open", "unknown"} => v = w /\ lane[v][u].known
(* What the inserting transaction asks: the barrier of the plan, the expiry *)
(* of the window, and an account free of tasks that are not known lanes of  *)
(* this cycle.                                                              *)
Guard(w, t) ==
    /\ ~maintenance /\ rev[t] = flow[w].deps[t] /\ clock <= w + Late
    /\ ~manual /\ \A v \in Windows, u \in Lanes : task[v][u] \in {"open", "unknown"} => v = w /\ lane[v][u].known
Insert(w, t) == task' = [task EXCEPT ![w][t] = "open"]
(* An error that is neither INVALID nor CONFLICT leaves the lane to be      *)
(* submitted again.                                                         *)
Unanswered(w, t) == NextLane(w) /\ UNCHANGED lane
(* The snapshot of the task is sealed before its receipt is looked for:     *)
(* what was sealed with an older key is a CONFLICT, also when the task was  *)
(* admitted and only its answer was lost.  Then an admitted task is found,  *)
(* or it is inserted under the guard.                                       *)
Submit(w) ==
    /\ work[w].pc = "submit"
    /\ LET t == Current(w)
           refused == SetLane(w, t, "refused") /\ NextLane(w) /\ UNCHANGED task IN
       \/ Unanswered(w, t) /\ UNCHANGED <<seal, task>>
       \/ seal[w][t] \notin {0, ring} /\ refused /\ UNCHANGED seal
       \/ /\ seal[w][t] \in {0, ring} /\ seal' = [seal EXCEPT ![w][t] = ring]
          /\ \/ task[w][t] # "none" /\ Go(w, "admitted") /\ UNCHANGED <<task, lane>>
             \/ task[w][t] = "none" /\ Guard(w, t) /\ Insert(w, t) /\ Go(w, "admitted") /\ UNCHANGED lane
             \/ task[w][t] = "none" /\ Guard(w, t) /\ Insert(w, t) /\ Unanswered(w, t)   \* the answer is lost
             \/ task[w][t] = "none" /\ ~Guard(w, t) /\ refused
             \/ Unanswered(w, t) /\ UNCHANGED task
    /\ UNCHANGED <<world, flow, notice, sent, opening, calls, armed, moves>>
Admitted(w) ==
    /\ work[w].pc = "admitted"
    /\ Follow(w, Current(w), [lane EXCEPT ![w][Current(w)].state = "running", ![w][Current(w)].known = TRUE])
    /\ UNCHANGED <<world, flow, effects, opening, calls, armed, moves>>

(* What the lane makes of the state of its notice.                          *)
NoticeState(n) == CASE n \in {"unknown", "in_flight"} -> "notification_unknown" [] n = "queued" -> "running"
                    [] n = "rejected" -> "notification_rejected" [] OTHER -> "succeeded"
(* enqueue, and send up to its first await.                                 *)
Notify(w) ==
    /\ work[w].pc = "notify"
    /\ LET t == Current(w) IN
       CASE notice[w][t] = "none" /\ maintenance -> SetLane(w, t, "notification_unknown") /\ NextLane(w) /\ UNCHANGED notice
         [] notice[w][t] \in {"none", "queued"} /\ ~maintenance ->
              notice' = [notice EXCEPT ![w][t] = "queued"] /\ Go(w, "claim") /\ UNCHANGED lane
         [] OTHER -> SetLane(w, t, NoticeState(notice[w][t])) /\ NextLane(w) /\ UNCHANGED notice
    /\ UNCHANGED <<world, flow, seal, task, sent, opening, calls, armed, moves>>
(* The request leaves once the notice is marked in flight.                  *)
Claim(w) ==
    /\ work[w].pc = "claim"
    /\ LET t == Current(w) IN
       IF notice[w][t] = "queued" /\ ~maintenance
       THEN /\ notice' = [notice EXCEPT ![w][t] = "in_flight"] /\ sent' = [sent EXCEPT ![w][t] = @ + 1]
            /\ Go(w, "answer") /\ UNCHANGED lane
       ELSE SetLane(w, t, NoticeState(notice[w][t])) /\ NextLane(w) /\ UNCHANGED <<notice, sent>>
    /\ UNCHANGED <<world, flow, seal, task, opening, calls, armed, moves>>
\* Faulty: a request without an answer goes back to the queue.
AnswerRequeued(w) ==
    /\ work[w].pc = "answer"
    /\ \E answer \in {"delivered", "rejected", "queued"} :
          /\ notice' = [notice EXCEPT ![w][Current(w)] = answer] /\ SetLane(w, Current(w), NoticeState(answer))
    /\ NextLane(w)
    /\ UNCHANGED <<world, flow, seal, task, sent, opening, calls, armed, moves>>
Answer(w) ==
    /\ work[w].pc = "answer"
    /\ \E answer \in {"delivered", "rejected", "unknown"} :
          /\ notice' = [notice EXCEPT ![w][Current(w)] = answer] /\ SetLane(w, Current(w), NoticeState(answer))
    /\ NextLane(w)
    /\ UNCHANGED <<world, flow, seal, task, sent, opening, calls, armed, moves>>

(* After the last lane the flow goes on, is parked for review or is over.   *)
States(w) == {lane[w][t].state : t \in flow[w].lanes}
Finish(w) ==
    /\ work[w].pc = "lane" /\ work[w].left = <<>> /\ work' = [work EXCEPT ![w] = Idle]
    /\ IF maintenance THEN UNCHANGED <<flow, armed>>
       ELSE LET pending == States(w) \intersect {"ready", "submitting", "running"} # {}
                review == States(w) \intersect {"needs_review", "admission_unknown", "notification_unknown"} # {}
            IN  /\ flow' = [flow EXCEPT ![w].state = IF pending THEN "active" ELSE IF review THEN "needs_review" ELSE "complete"]
                /\ armed' = (armed \/ pending)
    /\ UNCHANGED <<world, lane, effects, opening, calls, moves>>

-----------------------------------------------------------------------------
(* A task's effects become unknown or end.  The receipt observes the flows  *)
(* whose lane has the task.                                                 *)
Observe(w, t) == calls' = calls \union (IF lane[w][t].known THEN {w} ELSE {})
TaskUnknown(w, t) ==
    /\ task[w][t] = "open" /\ task' = [task EXCEPT ![w][t] = "unknown"] /\ Observe(w, t)
    /\ UNCHANGED <<world, flow, lane, seal, notice, sent, opening, work, armed, moves>>
TaskEnds(w, t, outcome) ==
    /\ task[w][t] \in {"open", "unknown"} /\ task' = [task EXCEPT ![w][t] = outcome] /\ Observe(w, t)
    /\ deployed' = IF outcome = "succeeded" THEN [deployed EXCEPT ![t] = flow[w].version] ELSE deployed
    /\ IF outcome = "cancelled" THEN UNCHANGED rev ELSE rev[t] < MaxRev /\ rev' = [rev EXCEPT ![t] = @ + 1]
    /\ UNCHANGED <<clock, maintenance, manual, upstream, ring, flow, lane, seal, notice, sent, opening, work, armed, moves>>
(* Anything else of the installation: time and the upstream; the settings,  *)
(* the tasks and the maintenance of the user.                               *)
World ==
    /\ \/ clock < MaxClock /\ clock' = clock + 1 /\ UNCHANGED <<maintenance, manual, rev, upstream>>
       \/ upstream < MaxVersion /\ upstream' = upstream + 1 /\ UNCHANGED <<clock, maintenance, manual, rev>>
    /\ UNCHANGED <<deployed, ring, flow, lane, effects, opening, work, calls, armed, moves>>
User ==
    /\ moves < MaxMoves /\ moves' = moves + 1
    /\ \/ manual' = ~manual /\ UNCHANGED <<maintenance, rev>>
       \/ maintenance' = ~maintenance /\ UNCHANGED <<manual, rev>>
       \/ \E t \in Lanes : rev[t] < MaxRev /\ rev' = [rev EXCEPT ![t] = @ + 1] /\ UNCHANGED <<maintenance, manual>>
    /\ UNCHANGED <<clock, upstream, deployed, ring, flow, lane, effects, opening, work, calls, armed>>
(* A restart forgets every call; what is in flight stays in flight.  The    *)
(* key of the snapshots may have been rotated.                              *)
Crash == /\ moves < MaxMoves /\ moves' = moves + 1
         /\ opening' = {} /\ work' = [w \in Windows |-> Idle] /\ calls' = {}
         /\ ring' \in {ring, ring + 1}
         /\ UNCHANGED <<clock, maintenance, manual, rev, upstream, deployed, flow, lane, effects, armed>>

(* The loop over the lanes runs to its next await with nothing in between.  *)
Turn(w) == Lane(w) \/ Finish(w)
Awaited == \A w \in Windows : work[w].pc # "lane"
Step(w) == \/ Turn(w)
           \/ /\ Awaited
              /\ Opened(w) \/ Coalesce(w) \/ Restore(w) \/ Plan(w) \/ Submit(w) \/ Admitted(w) \/ Notify(w) \/ Claim(w) \/ Answer(w)
Next == \/ \E w \in Windows : Step(w)
        \/ /\ Awaited
           /\ \/ World \/ User \/ Crash
              \/ \E w \in Windows : \/ Tick(w) \/ Cron(w)
                                    \/ \E t \in Lanes : TaskUnknown(w, t) \/ \E o \in Ended : TaskEnds(w, t, o)
Spec == Init /\ [][Next]_vars
(* A promise that is resolved goes on, an armed alarm fires and its cursor  *)
(* comes round to every flow, tasks come to an end.                         *)
Fairness == \A w \in Windows : /\ SF_vars(Tick(w)) /\ SF_vars(Step(w))
                               /\ \A t \in Lanes : WF_vars(\E o \in Ended : TaskEnds(w, t, o))
FairSpec == Spec /\ Fairness

-----------------------------------------------------------------------------
(* The type invariant. *)
TypeOK == /\ clock \in 1..MaxClock /\ upstream \in 1..MaxVersion
          /\ rev \in [Lanes -> 1..MaxRev] /\ deployed \in [Lanes -> 0..MaxVersion]
          /\ opening \subseteq Windows /\ calls \subseteq Windows
(* A lane says what became of its task, and a success, nothing else, is     *)
(* notified at most once, whatever answer is lost and whenever the process  *)
(* restarts (automation-flow.ts, webhook-outbox.ts).  One lane does not: it *)
(* is refused although its task was admitted, when the answer was lost and  *)
(* the key was rotated before it was submitted again.                       *)
LanesAreTrue ==
    /\ TypeOK
    /\ \A w \in Windows, t \in Lanes :
          /\ lane[w][t].state = "refused" => task[w][t] = "none" \/ seal[w][t] < ring
          /\ lane[w][t].state \in {"succeeded", "notification_rejected"} => task[w][t] = "succeeded"
          /\ lane[w][t].state = "failed" => task[w][t] \in {"failed", "cancelled"}
          /\ sent[w][t] <= 1 /\ (sent[w][t] = 1 => task[w][t] = "succeeded")
(* The decision of an older window never replaces what a newer one deployed.*)
NeverDowngrades == [][\A t \in Lanes : deployed'[t] >= deployed[t]]_vars
(* A flow that goes on with the alarm set comes to rest, over or parked, if *)
(* its tasks end, whatever is lost in a restart.                            *)
FlowsComeToRest ==
    \A w \in Windows : (armed /\ flow[w].state \in {"planning", "active"}) ~>
                           flow[w].state \in Over \union {"needs_review"} \/ maintenance
=============================================================================
