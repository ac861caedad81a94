-------------------------- MODULE AutomationProofs --------------------------
(***************************************************************************)
(* Proofs about the flows of periodic updates, for every number of         *)
(* templates and windows, however they overlap and whenever the process    *)
(* restarts.  FlowInv is their inductive invariant: what the lanes, the    *)
(* notices and the loop of a flow know of its tasks (TaskInv, LoopInv),    *)
(* and which version a decision may still deploy (VersionInv).             *)
(***************************************************************************)
EXTENDS Automation, TLAPS

LaneStates == {"none", "ready", "submitting", "running", "needs_review", "succeeded", "failed", "refused",
               "admission_unknown", "notification_unknown", "notification_rejected"}
TaskStates == {"none", "open", "unknown"} \union Ended
Notices == {"none", "queued", "in_flight", "delivered", "rejected", "unknown"}
FlowRecords == [state : {"none", "reserved", "planning", "active", "needs_review"} \union Over,
                deps : [Lanes -> 1..MaxRev], sealed : BOOLEAN, lanes : SUBSET Lanes, version : 0..MaxVersion]
LaneRecords == [state : LaneStates, known : BOOLEAN, attempts : Nat]
Loops == [pc : {"idle", "restore", "plan", "lane", "submit", "admitted", "notify", "claim", "answer"},
          fresh : BOOLEAN, left : Seq(Lanes)]

FlowTypes ==
  /\ TypeOK
  /\ flow \in [Windows -> FlowRecords]
  /\ lane \in [Windows -> [Lanes -> LaneRecords]]
  /\ task \in [Windows -> [Lanes -> TaskStates]]
  /\ notice \in [Windows -> [Lanes -> Notices]] /\ sent \in [Windows -> [Lanes -> Nat]]
  /\ work \in [Windows -> Loops]

Live(w, t) == task[w][t] \in {"open", "unknown"}
Unsent == {"none", "queued"}

(* What a lane and a notice say of the lane's task.                        *)
TaskInv(w, t) ==
  /\ lane[w][t].state \in {"running", "needs_review"} => task[w][t] # "none"
  /\ lane[w][t].state \in {"succeeded", "notification_unknown", "notification_rejected"} => task[w][t] = "succeeded"
  /\ lane[w][t].state = "failed" => task[w][t] \in {"failed", "cancelled"}
  /\ notice[w][t] # "none" => task[w][t] = "succeeded"
  /\ sent[w][t] = IF notice[w][t] \in Unsent THEN 0 ELSE 1

(* What the loop of a flow knows of the lane it is at: nothing of it was   *)
(* done before the decision was sealed, and nothing changes it meanwhile.  *)
LoopInv(w) ==
  /\ work[w].pc \in {"lane", "submit", "admitted", "notify", "claim", "answer"} =>
       flow[w].sealed /\ \A t \in flow[w].lanes : lane[w][t].state # "none"
  /\ work[w].pc \in {"submit", "admitted", "notify", "claim", "answer"} =>
       work[w].left # <<>> /\ Current(w) \in flow[w].lanes
  /\ work[w].pc = "plan" => ~flow[w].sealed
  /\ work[w].pc = "submit" => lane[w][Current(w)].state = "submitting"
  /\ work[w].pc = "admitted" => task[w][Current(w)] # "none"
  /\ work[w].pc \in {"notify", "claim", "answer"} => task[w][Current(w)] = "succeeded"
  /\ work[w].pc = "answer" => notice[w][Current(w)] \notin Unsent

(* A window that was never reserved has nothing.                           *)
Begun(w) == flow[w].state = "none" =>
  /\ ~flow[w].sealed /\ work[w].pc = "idle" /\ w \notin calls /\ w \notin opening
  /\ \A t \in Lanes : ~lane[w][t].known
(* A task is of a decision, and all that are not over are of one.          *)
Decided(w) == ~flow[w].sealed => \A t \in Lanes : task[w][t] = "none"
OneCycle == \A v, w \in Windows, t, u \in Lanes : Live(v, t) /\ Live(w, u) => v = w

(* The version of a decision is as new as what is deployed, as long as the *)
(* records are those that it was made for, or its task is under way.       *)
VersionInv ==
  /\ \A t \in Lanes : deployed[t] <= upstream
  /\ \A w \in Windows : flow[w].version <= upstream
  /\ \A w \in Windows, t \in Lanes :
       /\ flow[w].deps[t] <= rev[t]
       /\ Live(w, t) \/ (flow[w].sealed /\ t \in flow[w].lanes /\ flow[w].deps[t] = rev[t]) =>
            deployed[t] <= flow[w].version

FlowInv ==
  /\ FlowTypes
  /\ \A w \in Windows, t \in Lanes : TaskInv(w, t)
  /\ \A w \in Windows : LoopInv(w) /\ Begun(w) /\ Decided(w)
  /\ OneCycle /\ VersionInv

-----------------------------------------------------------------------------
(* The parts of FlowInv, for those who need one of them.                   *)
LEMMA Known ==
  ASSUME FlowInv, NEW w \in Windows, NEW t \in Lanes
  PROVE  /\ TaskInv(w, t) /\ LoopInv(w) /\ Begun(w) /\ Decided(w)
         /\ flow[w] \in FlowRecords /\ flow[w].lanes \subseteq Lanes
         /\ lane[w][t] \in LaneRecords /\ task[w][t] \in TaskStates /\ notice[w][t] \in Notices
         /\ work[w] \in Loops /\ work[w].left \in Seq(Lanes)
BY DEF FlowInv, FlowTypes, FlowRecords, Loops

LEMMA InitFlow == Init => FlowInv
<1> SUFFICES ASSUME Init PROVE FlowInv
  OBVIOUS
<1>1. 1 \in 1..MaxRev /\ 1 \in 1..MaxVersion /\ 1 \in 1..MaxClock /\ 0 \in 0..MaxVersion
  BY FlowBoundsAssumption
<1>2. rev \in [Lanes -> 1..MaxRev] /\ deployed \in [Lanes -> 0..MaxVersion]
  BY <1>1 DEF Init
<1>3. [state |-> "none", deps |-> rev, sealed |-> FALSE, lanes |-> {}, version |-> 0] \in FlowRecords
  BY <1>1, <1>2 DEF FlowRecords
<1>4. flow \in [Windows -> FlowRecords]
  BY <1>3 DEF Init
<1>5. [state |-> "none", known |-> FALSE, attempts |-> 0] \in LaneRecords
  BY DEF LaneRecords, LaneStates
<1>6. Idle \in Loops /\ Idle.pc = "idle"
  BY DEF Idle, Loops
<1>7. FlowTypes
  BY <1>1, <1>2, <1>4, <1>5, <1>6 DEF Init, FlowTypes, TypeOK, TaskStates, Notices
<1>8. \A w \in Windows, t \in Lanes : TaskInv(w, t)
  BY DEF Init, TaskInv, Unsent
<1>9. \A w \in Windows : LoopInv(w) /\ Begun(w) /\ Decided(w)
  BY <1>6 DEF Init, LoopInv, Begun, Decided
<1>10. OneCycle /\ VersionInv
  BY <1>1 DEF Init, OneCycle, VersionInv, Live
<1> QED
  BY <1>7, <1>8, <1>9, <1>10 DEF FlowInv

-----------------------------------------------------------------------------
(* A turn of a loop changes one lane.                                      *)
Elsewhere(w, t) ==
  /\ \A v \in Windows \ {w} : /\ lane'[v] = lane[v] /\ task'[v] = task[v] /\ notice'[v] = notice[v]
                              /\ sent'[v] = sent[v] /\ work'[v] = work[v]
  /\ \A u \in Lanes \ {t} : /\ lane'[w][u] = lane[w][u] /\ task'[w][u] = task[w][u]
                            /\ notice'[w][u] = notice[w][u] /\ sent'[w][u] = sent[w][u]

LEMMA OneLaneInv ==
  ASSUME FlowInv, NEW w \in Windows, NEW t \in Lanes, flow[w].sealed,
         UNCHANGED <<clock, rev, upstream, deployed, flow, opening, calls>>,
         FlowTypes', Elsewhere(w, t), TaskInv(w, t)', LoopInv(w)',
         task'[w][t] = task[w][t] \/ (/\ deployed[t] <= flow[w].version
                                      /\ \A v \in Windows, u \in Lanes : Live(v, u) => v = w)
  PROVE  FlowInv'
<1>1. ASSUME NEW v \in Windows, NEW u \in Lanes PROVE TaskInv(v, u)'
  <2>1. CASE v = w /\ u = t
    BY <2>1
  <2>2. CASE ~(v = w /\ u = t)
    BY <2>2, Known DEF Elsewhere, TaskInv
  <2> QED
    BY <2>1, <2>2
<1>2. ASSUME NEW v \in Windows \ {w} PROVE LoopInv(v)' /\ Begun(v)' /\ Decided(v)'
  <2>1. LoopInv(v) /\ Begun(v) /\ Decided(v) /\ flow[v].lanes \subseteq Lanes
    BY DEF FlowInv, FlowTypes, FlowRecords
  <2>2. /\ lane'[v] = lane[v] /\ task'[v] = task[v] /\ notice'[v] = notice[v]
        /\ work'[v] = work[v]
    BY DEF Elsewhere
  <2> QED
    BY <2>1, <2>2 DEF LoopInv, Begun, Decided, Current
<1>3. Begun(w)' /\ Decided(w)'
  <2>1. flow[w].state # "none"
    BY DEF FlowInv, Begun
  <2> QED
    BY <2>1 DEF Begun, Decided
<1>4. ASSUME NEW v \in Windows, NEW u \in Lanes, Live(v, u)'
      PROVE  \/ Live(v, u)
             \/ /\ v = w /\ u = t /\ deployed[t] <= flow[w].version
                /\ \A x \in Windows, y \in Lanes : Live(x, y) => x = w
  <2>1. CASE v = w /\ u = t
    BY <1>4, <2>1 DEF Live
  <2>2. CASE ~(v = w /\ u = t)
    BY <1>4, <2>2 DEF Live, Elsewhere
  <2> QED
    BY <2>1, <2>2
<1>5. OneCycle'
  <2> SUFFICES ASSUME NEW v \in Windows, NEW x \in Windows, NEW u \in Lanes, NEW y \in Lanes, Live(v, u)', Live(x, y)'
               PROVE  v = x
    BY DEF OneCycle
  <2> QED
    BY <1>4 DEF FlowInv, OneCycle
<1>6. VersionInv'
  BY <1>4 DEF FlowInv, VersionInv
<1> QED
  BY <1>1, <1>2, <1>3, <1>5, <1>6 DEF FlowInv

OneLane(w, t, s) ==
  /\ lane' \in [Windows -> [Lanes -> LaneRecords]] /\ lane'[w][t].state = s
  /\ \A u \in Lanes \ {t} : lane'[w][u] = lane[w][u]
  /\ \A v \in Windows \ {w} : lane'[v] = lane[v]

LEMMA SetLaneFacts ==
  ASSUME FlowInv, NEW w \in Windows, NEW t \in Lanes, NEW s \in LaneStates, SetLane(w, t, s)
  PROVE  OneLane(w, t, s)
<1> DEFINE r == [lane[w][t] EXCEPT !.state = s]
<1>1. lane \in [Windows -> [Lanes -> LaneRecords]]
  BY DEF FlowInv, FlowTypes
<1>2. r \in LaneRecords /\ r.state = s
  BY <1>1 DEF LaneRecords
<1>3. lane' = [lane EXCEPT ![w] = [lane[w] EXCEPT ![t] = r]]
  BY <1>1 DEF SetLane
<1> HIDE DEF r
<1> QED
  BY <1>1, <1>2, <1>3 DEF OneLane

LEMMA LoopFacts ==
  ASSUME FlowInv, NEW w \in Windows, work[w].left # <<>>, NEW p \in {"submit", "admitted", "notify", "claim", "answer"},
         NextLane(w) \/ Go(w, p)
  PROVE  /\ work' \in [Windows -> Loops]
         /\ \A v \in Windows \ {w} : work'[v] = work[v]
         /\ NextLane(w) => work'[w].pc = "lane"
         /\ Go(w, p) => work'[w].pc = p /\ work'[w].left = work[w].left
<1>1. work \in [Windows -> Loops] /\ work[w] \in Loops /\ work[w].left \in Seq(Lanes)
  BY DEF FlowInv, FlowTypes, Loops
<1>2. CASE NextLane(w)
  <2> DEFINE r == [work[w] EXCEPT !.pc = "lane", !.left = Tail(work[w].left)]
  <2>0. PICK s \in Seq(Lanes) : s = work[w].left
    BY <1>1
  <2>a. Tail(s) \in Seq(Lanes)
    BY <2>0
  <2>1. r \in Loops /\ r.pc = "lane"
    BY <1>1, <2>0, <2>a DEF Loops
  <2>2. work' = [work EXCEPT ![w] = r]
    BY <1>1, <1>2 DEF NextLane
  <2>3. ~Go(w, p)
    <3> SUFFICES ASSUME Go(w, p) PROVE FALSE
      OBVIOUS
    <3>1. work'[w].pc = p
      BY <1>1 DEF Go, Loops
    <3>2. work'[w].pc = "lane"
      BY <1>1, <2>1, <2>2
    <3> QED
      BY <3>1, <3>2
  <2> HIDE DEF r
  <2> QED
    BY <1>1, <2>1, <2>2, <2>3
<1>3. CASE Go(w, p) /\ ~NextLane(w)
  <2> DEFINE r == [work[w] EXCEPT !.pc = p]
  <2>1. r \in Loops /\ r.pc = p /\ r.left = work[w].left
    BY <1>1 DEF Loops
  <2>2. work' = [work EXCEPT ![w] = r]
    BY <1>1, <1>3 DEF Go
  <2> HIDE DEF r
  <2> QED
    BY <1>1, <1>3, <2>1, <2>2
<1> QED
  BY <1>2, <1>3

(* The loop is at lane t of its decision.                                  *)
AtLane(w, t) ==
  /\ t = Current(w) /\ t \in flow[w].lanes /\ flow[w].sealed /\ work[w].left # <<>>
  /\ \A u \in flow[w].lanes : lane[w][u].state # "none"

LEMMA AtCurrent ==
  ASSUME FlowInv, NEW w \in Windows,
         work[w].pc \in {"submit", "admitted", "notify", "claim", "answer"}
  PROVE  Current(w) \in Lanes /\ AtLane(w, Current(w))
BY Known DEF FlowInv, FlowTypes, FlowRecords, LoopInv, AtLane

(* The rest of the state is as it was.                                     *)
Rest == UNCHANGED <<clock, rev, upstream, deployed, flow, opening, calls>>
OneNotice(w, t) ==
  /\ notice' \in [Windows -> [Lanes -> Notices]] /\ sent' \in [Windows -> [Lanes -> Nat]]
  /\ \A v \in Windows \ {w} : notice'[v] = notice[v] /\ sent'[v] = sent[v]
  /\ \A u \in Lanes \ {t} : notice'[w][u] = notice[w][u] /\ sent'[w][u] = sent[w][u]

LEMMA SameNotice == ASSUME FlowInv, UNCHANGED <<notice, sent>>, NEW w, NEW t PROVE OneNotice(w, t)
BY DEF FlowInv, FlowTypes, OneNotice

(* The loop goes on to the next lane, or keeps the lane and awaits.        *)
LEMMA SettledInv ==
  ASSUME FlowInv, NEW w \in Windows, NEW t \in Lanes, AtLane(w, t), Rest, OneNotice(w, t), task' = task,
         NEW s \in LaneStates \ {"none"}, OneLane(w, t, s), NextLane(w), TaskInv(w, t)'
  PROVE  FlowInv'
<1>1. /\ lane' \in [Windows -> [Lanes -> LaneRecords]] /\ lane'[w][t].state = s
      /\ \A u \in Lanes \ {t} : lane'[w][u] = lane[w][u]
      /\ \A v \in Windows \ {w} : lane'[v] = lane[v]
  BY DEF OneLane
<1>2. /\ work' \in [Windows -> Loops] /\ work'[w].pc = "lane"
      /\ \A v \in Windows \ {w} : work'[v] = work[v]
  BY LoopFacts DEF AtLane
<1>3. FlowTypes'
  BY <1>1, <1>2 DEF FlowInv, FlowTypes, TypeOK, Rest, OneNotice
<1>4. flow[w].lanes \subseteq Lanes
  BY Known
<1>5. LoopInv(w)'
  <2>1. \A u \in flow[w].lanes : lane'[w][u].state # "none"
    BY <1>1, <1>4 DEF AtLane
  <2> QED
    BY <1>2, <2>1 DEF LoopInv, AtLane, Rest
<1>6. Elsewhere(w, t)
  BY <1>1, <1>2 DEF Elsewhere, OneNotice
<1> QED
  BY <1>3, <1>5, <1>6, OneLaneInv DEF AtLane, Rest

LEMMA KeptInv ==
  ASSUME FlowInv, NEW w \in Windows, NEW t \in Lanes, AtLane(w, t), Rest, OneNotice(w, t), task' = task,
         NEW s \in LaneStates \ {"none"}, OneLane(w, t, s), NEW p \in {"notify", "claim", "answer"}, Go(w, p),
         task[w][t] = "succeeded", p = "answer" => notice'[w][t] \notin Unsent, TaskInv(w, t)'
  PROVE  FlowInv'
<1>1. /\ work' \in [Windows -> Loops] /\ work'[w].pc = p /\ work'[w].left = work[w].left
      /\ \A v \in Windows \ {w} : work'[v] = work[v]
  BY LoopFacts DEF AtLane
<1>2. FlowTypes'
  BY <1>1 DEF FlowInv, FlowTypes, TypeOK, Rest, OneNotice, OneLane
<1>3. LoopInv(w)'
  <2>1. \A u \in flow[w].lanes : lane'[w][u].state # "none"
    BY Known DEF AtLane, OneLane
  <2> QED
    BY <1>1, <2>1 DEF LoopInv, AtLane, Rest, Current
<1>4. Elsewhere(w, t)
  BY <1>1 DEF Elsewhere, OneNotice, OneLane
<1> QED
  BY <1>2, <1>3, <1>4, OneLaneInv DEF AtLane, Rest

(* A lane that is left as it is.                                           *)
LEMMA SameLane ==
  ASSUME FlowInv, NEW w \in Windows, NEW t \in Lanes, UNCHANGED lane
  PROVE  \A s \in LaneStates : lane[w][t].state = s => OneLane(w, t, s)
BY DEF FlowInv, FlowTypes, OneLane

(* The lane of a task that is known.  The lane is as it was, or it has     *)
(* just been told its task.                                                *)
LEMMA FollowInv ==
  ASSUME FlowInv, NEW w \in Windows, NEW t \in Lanes, AtLane(w, t), Rest, UNCHANGED <<task, notice, sent>>,
         NEW known \in [Windows -> [Lanes -> LaneRecords]],
         \A u \in Lanes \ {t} : known[w][u] = lane[w][u],
         \A v \in Windows \ {w} : known[v] = lane[v],
         known[w][t].state \in {"running", lane[w][t].state},
         task[w][t] # "none", Follow(w, t, known)
  PROVE  FlowInv'
<1>1. ASSUME NEW s \in LaneStates, lane' = [known EXCEPT ![w][t].state = s]
      PROVE  OneLane(w, t, s)
  <2> DEFINE r == [known[w][t] EXCEPT !.state = s]
  <2>1. r \in LaneRecords /\ r.state = s
    BY DEF LaneRecords
  <2>2. lane' = [known EXCEPT ![w] = [known[w] EXCEPT ![t] = r]]
    BY <1>1
  <2> HIDE DEF r
  <2> QED
    BY <2>1, <2>2 DEF OneLane
<1>2. OneNotice(w, t) /\ TaskInv(w, t) /\ task[w][t] \in TaskStates
  BY SameNotice, Known
<1>3. CASE task[w][t] = "unknown"
  <2>1. OneLane(w, t, "needs_review") /\ NextLane(w)
    BY <1>1, <1>3 DEF Follow, LaneStates
  <2>2. TaskInv(w, t)'
    BY <1>2, <1>3, <2>1 DEF TaskInv, OneLane
  <2> QED
    BY <1>2, <2>1, <2>2, SettledInv DEF LaneStates
<1>4. CASE task[w][t] = "open"
  <2>1. OneLane(w, t, "running") /\ NextLane(w)
    BY <1>1, <1>4 DEF Follow, LaneStates
  <2>2. TaskInv(w, t)'
    BY <1>2, <1>4, <2>1 DEF TaskInv, OneLane
  <2> QED
    BY <1>2, <2>1, <2>2, SettledInv DEF LaneStates
<1>5. CASE task[w][t] = "succeeded" /\ t \in Webhooks
  <2>1. lane' = known /\ Go(w, "notify")
    BY <1>5 DEF Follow
  <2>2. PICK s \in LaneStates \ {"none"} : s = known[w][t].state
    BY DEF LaneRecords, AtLane, LaneStates
  <2>3. OneLane(w, t, s)
    BY <2>1, <2>2 DEF OneLane
  <2>4. TaskInv(w, t)'
    BY <1>2, <1>5, <2>2, <2>3 DEF TaskInv, OneLane
  <2> QED
    BY <1>2, <1>5, <2>1, <2>3, <2>4, KeptInv
<1>6. CASE task[w][t] = "succeeded" /\ t \notin Webhooks
  <2>1. OneLane(w, t, "succeeded") /\ NextLane(w)
    BY <1>1, <1>6 DEF Follow, LaneStates
  <2>2. TaskInv(w, t)'
    BY <1>2, <1>6, <2>1 DEF TaskInv, OneLane
  <2> QED
    BY <1>2, <2>1, <2>2, SettledInv DEF LaneStates
<1>7. CASE task[w][t] \in {"failed", "cancelled"}
  <2>1. OneLane(w, t, "failed") /\ NextLane(w)
    BY <1>1, <1>7 DEF Follow, LaneStates
  <2>2. TaskInv(w, t)'
    BY <1>2, <1>7, <2>1 DEF TaskInv, OneLane
  <2> QED
    BY <1>2, <2>1, <2>2, SettledInv DEF LaneStates
<1> QED
  BY <1>2, <1>3, <1>4, <1>5, <1>6, <1>7 DEF TaskStates, Ended

(* Steps that touch neither a lane nor a task.                             *)
LEMMA NoLaneInv ==
  ASSUME FlowInv, FlowTypes', UNCHANGED <<rev, deployed, lane, task, notice, sent>>,
         upstream' >= upstream,
         \A v \in Windows : /\ flow'[v].sealed = flow[v].sealed /\ flow'[v].lanes = flow[v].lanes
                            /\ flow'[v].version = flow[v].version
                            /\ flow'[v].deps = flow[v].deps \/ (flow'[v].deps = rev /\ ~flow[v].sealed)
                            /\ LoopInv(v)' /\ Begun(v)'
  PROVE  FlowInv'
<1>1. \A w \in Windows, t \in Lanes : TaskInv(w, t)'
  BY DEF FlowInv, TaskInv
<1>2. \A w \in Windows : Decided(w)'
  BY DEF FlowInv, Decided
<1>3. OneCycle'
  BY DEF FlowInv, OneCycle, Live
<1>4. VersionInv'
  <2>1. \A t \in Lanes : deployed[t] \in Nat /\ rev[t] \in Nat
    BY FlowBoundsAssumption DEF FlowInv, FlowTypes, TypeOK
  <2>2. \A t \in Lanes : deployed[t] <= upstream'
    BY <2>1, FlowBoundsAssumption DEF FlowInv, VersionInv, FlowTypes, TypeOK
  <2>a. \A w \in Windows : flow'[w].version <= upstream'
    <3> SUFFICES ASSUME NEW w \in Windows PROVE flow[w].version <= upstream'
      OBVIOUS
    <3>1. flow[w].version \in Nat /\ flow[w].version <= upstream /\ upstream \in Nat /\ upstream' \in Nat
      BY FlowBoundsAssumption DEF FlowInv, VersionInv, FlowTypes, TypeOK, FlowRecords
    <3> QED
      BY <3>1
  <2>3. ASSUME NEW w \in Windows, NEW t \in Lanes
        PROVE  /\ flow'[w].deps[t] <= rev[t]
               /\ Live(w, t)' \/ (flow'[w].sealed /\ t \in flow'[w].lanes /\ flow'[w].deps[t] = rev[t]) =>
                    deployed[t] <= flow'[w].version
    BY <2>1 DEF FlowInv, VersionInv, Live
  <2> QED
    BY <2>2, <2>a, <2>3 DEF VersionInv
<1> QED
  BY <1>1, <1>2, <1>3, <1>4 DEF FlowInv

LEMMA OneLoopInv ==
  ASSUME FlowInv, NEW w \in Windows, Rest, UNCHANGED <<lane, task, notice, sent>>,
         NEW r \in Loops, work' = [work EXCEPT ![w] = r],
         LoopInv(w)', flow[w].state = "none" => r.pc = "idle"
  PROVE  FlowInv'
<1>1. work' \in [Windows -> Loops] /\ work'[w] = r /\ \A v \in Windows \ {w} : work'[v] = work[v]
  BY DEF FlowInv, FlowTypes
<1>2. FlowTypes'
  BY <1>1 DEF FlowInv, FlowTypes, TypeOK, Rest
<1>3. \A v \in Windows : LoopInv(v)' /\ Begun(v)'
  BY <1>1 DEF FlowInv, LoopInv, Begun, Rest, Current
<1> QED
  BY <1>2, <1>3, NoLaneInv, FlowBoundsAssumption DEF Rest, FlowInv, FlowTypes, TypeOK

LEMMA LaneInv ==
  ASSUME FlowInv, NEW w \in Windows, Lane(w)
  PROVE  FlowInv'
<1>1. /\ work[w].pc = "lane" /\ work[w].left # <<>>
      /\ Rest /\ UNCHANGED <<task, notice, sent>>
  BY DEF Lane, world, effects, Rest
<1>2. PICK t \in Lanes : t = Current(w)
  BY <1>1 DEF FlowInv, FlowTypes, Loops, Current
<1>3. /\ flow[w].sealed /\ flow[w].state # "none"
      /\ \A u \in flow[w].lanes : lane[w][u].state # "none"
      /\ lane[w][t] \in LaneRecords /\ TaskInv(w, t) /\ OneNotice(w, t)
  BY <1>1, Known, SameNotice DEF LoopInv, Begun
<1>4. CASE maintenance
  <2>1. work' = [work EXCEPT ![w] = Idle] /\ UNCHANGED lane
    BY <1>2, <1>4 DEF Lane
  <2>2. PICK r \in Loops : r = Idle /\ r.pc = "idle"
    <3>1. Idle \in Loops /\ Idle.pc = "idle"
      BY DEF Idle, Loops
    <3> QED
      BY <3>1
  <2>3. LoopInv(w)'
    BY <2>1, <2>2 DEF LoopInv, FlowInv, FlowTypes
  <2> QED
    BY <1>1, <2>1, <2>2, <2>3, OneLoopInv
<1>5. CASE ~maintenance /\ t \notin flow[w].lanes
  <2>1. NextLane(w) /\ UNCHANGED lane
    BY <1>2, <1>3, <1>5, WindowsAssumption DEF Lane, LaneRecords
  <2>2. PICK s \in Seq(Lanes) : s = work[w].left
    BY Known, <1>2
  <2>3. Tail(s) \in Seq(Lanes)
    BY <1>1, <2>2
  <2>4. PICK r \in Loops : r = [work[w] EXCEPT !.pc = "lane", !.left = Tail(s)] /\ r.pc = "lane"
    <3>1. [work[w] EXCEPT !.pc = "lane", !.left = Tail(s)] \in Loops
      BY <2>3, Known, <1>2 DEF Loops
    <3>2. [work[w] EXCEPT !.pc = "lane", !.left = Tail(s)].pc = "lane"
      BY Known, <1>2 DEF Loops
    <3> QED
      BY <3>1, <3>2
  <2>5. work' = [work EXCEPT ![w] = r]
    BY <2>1, <2>2, <2>4 DEF NextLane
  <2>6. work'[w].pc = "lane"
    BY <2>4, <2>5 DEF FlowInv, FlowTypes
  <2>7. LoopInv(w)'
    BY <1>1, <1>3, <2>1, <2>6 DEF LoopInv, Rest
  <2> QED
    BY <1>1, <1>3, <2>1, <2>5, <2>7, OneLoopInv
<1>6. CASE ~maintenance /\ t \in flow[w].lanes
  <2>1. AtLane(w, t)
    BY <1>1, <1>2, <1>3, <1>6 DEF AtLane
  <2>2. CASE lane[w][t].state \in {"ready", "submitting"} /\ lane[w][t].attempts >= Budget
    <3>1. SetLane(w, t, "admission_unknown") /\ NextLane(w)
      BY <1>2, <1>3, <1>6, <2>2, WindowsAssumption DEF Lane, LaneRecords
    <3>2. OneLane(w, t, "admission_unknown")
      BY <3>1, SetLaneFacts DEF LaneStates
    <3>3. TaskInv(w, t)'
      BY <1>1, <1>3, <3>2 DEF TaskInv, OneLane
    <3> QED
      BY <1>1, <1>3, <2>1, <3>1, <3>2, <3>3, SettledInv DEF LaneStates
  <2>3. CASE lane[w][t].state \in {"ready", "submitting"} /\ lane[w][t].attempts < Budget
    <3>1. /\ lane' = [lane EXCEPT ![w][t].state = "submitting", ![w][t].attempts = @ + 1]
          /\ Go(w, "submit")
      BY <1>2, <1>3, <1>6, <2>3, WindowsAssumption DEF Lane, LaneRecords
    <3>2. OneLane(w, t, "submitting")
      <4>0. PICK x \in LaneRecords : x = lane[w][t]
        BY <1>3
      <4> DEFINE r == [x EXCEPT !.state = "submitting", !.attempts = x.attempts + 1]
      <4>1. r \in LaneRecords /\ r.state = "submitting"
        <5> DEFINE y == [x EXCEPT !.state = "submitting"]
        <5>1. y \in LaneRecords /\ y.state = "submitting" /\ x.attempts + 1 \in Nat
          BY DEF LaneRecords, LaneStates
        <5>2. r = [y EXCEPT !.attempts = x.attempts + 1]
          OBVIOUS
        <5> HIDE DEF y, r
        <5> QED
          BY <5>1, <5>2 DEF LaneRecords
      <4>2. lane' = [lane EXCEPT ![w] = [lane[w] EXCEPT ![t] = r]]
        BY <3>1, <4>0 DEF FlowInv, FlowTypes
      <4> HIDE DEF r
      <4> QED
        BY <4>1, <4>2 DEF OneLane, FlowInv, FlowTypes
    <3>3. TaskInv(w, t)'
      BY <1>1, <1>3, <3>2 DEF TaskInv, OneLane
    <3>4. /\ work' \in [Windows -> Loops] /\ work'[w].pc = "submit" /\ work'[w].left = work[w].left
          /\ \A v \in Windows \ {w} : work'[v] = work[v]
      BY <1>1, <3>1, LoopFacts
    <3>5. FlowTypes'
      BY <1>1, <3>2, <3>4 DEF FlowInv, FlowTypes, TypeOK, Rest, OneLane
    <3>6. LoopInv(w)'
      <4>1. \A u \in flow[w].lanes : lane'[w][u].state # "none"
        BY <1>3, <3>2, Known DEF OneLane
      <4> QED
        BY <1>1, <2>1, <3>2, <3>4, <4>1 DEF LoopInv, AtLane, Rest, Current, OneLane
    <3>7. Elsewhere(w, t)
      BY <1>1, <3>2, <3>4 DEF Elsewhere, OneLane
    <3> QED
      BY <1>1, <1>3, <3>3, <3>5, <3>6, <3>7, OneLaneInv DEF Rest
  <2>4. CASE lane[w][t].state \in {"refused", "admission_unknown"}
    <3>1. UNCHANGED lane /\ NextLane(w)
      BY <1>2, <1>6, <2>4 DEF Lane
    <3>2. PICK s \in LaneStates \ {"none"} : s = lane[w][t].state
      BY <1>3, <2>4 DEF LaneStates
    <3>3. OneLane(w, t, s) /\ TaskInv(w, t)'
      BY <1>1, <1>3, <3>1, <3>2, SameLane DEF TaskInv
    <3> QED
      BY <1>1, <1>3, <2>1, <3>1, <3>3, SettledInv
  <2>5. CASE lane[w][t].state \notin {"ready", "submitting", "refused", "admission_unknown"}
    <3>1. Follow(w, t, lane)
      BY <1>2, <1>6, <2>5 DEF Lane
    <3>2. task[w][t] # "none"
      BY <1>3, <1>6, <2>5 DEF TaskInv, LaneRecords, LaneStates
    <3>3. PICK known \in [Windows -> [Lanes -> LaneRecords]] : known = lane
      BY DEF FlowInv, FlowTypes
    <3>4. Follow(w, t, known)
      BY <3>1, <3>3
    <3> QED
      BY <1>1, <2>1, <3>2, <3>3, <3>4, FollowInv
  <2> QED
    BY <1>3, <2>2, <2>3, <2>4, <2>5, WindowsAssumption DEF LaneRecords
<1> QED
  BY <1>4, <1>5, <1>6

LEMMA SubmitInv ==
  ASSUME FlowInv, NEW w \in Windows, Submit(w)
  PROVE  FlowInv'
<1>1. work[w].pc = "submit" /\ Rest /\ UNCHANGED <<notice, sent>>
  BY DEF Submit, world, Rest
<1>2. PICK t \in Lanes : t = Current(w) /\ AtLane(w, t)
  BY <1>1, AtCurrent
<1>3. /\ lane[w][t].state = "submitting" /\ lane[w][t] \in LaneRecords /\ TaskInv(w, t) /\ OneNotice(w, t)
      /\ flow[w].lanes \subseteq Lanes
  BY <1>1, <1>2, Known, SameNotice DEF LoopInv
<1>4. CASE Insert(w, t) /\ Guard(w, t) /\ task[w][t] = "none" /\ UNCHANGED lane /\ (Go(w, "admitted") \/ NextLane(w))
  <2>1. /\ task' \in [Windows -> [Lanes -> TaskStates]] /\ task'[w][t] = "open"
        /\ \A u \in Lanes \ {t} : task'[w][u] = task[w][u]
        /\ \A v \in Windows \ {w} : task'[v] = task[v]
    BY <1>4 DEF Insert, FlowInv, FlowTypes, TaskStates
  <2>2. /\ work' \in [Windows -> Loops]
        /\ \A v \in Windows \ {w} : work'[v] = work[v]
        /\ \/ work'[w].pc = "lane"
           \/ work'[w].pc = "admitted" /\ work'[w].left = work[w].left
    BY <1>2, <1>4, LoopFacts DEF AtLane
  <2>3. FlowTypes'
    BY <1>1, <1>4, <2>1, <2>2 DEF FlowInv, FlowTypes, TypeOK, Rest
  <2>4. TaskInv(w, t)'
    BY <1>1, <1>3, <1>4, <2>1 DEF TaskInv
  <2>5. LoopInv(w)'
    BY <1>1, <1>2, <1>4, <2>1, <2>2 DEF LoopInv, AtLane, Rest, Current
  <2>6. Elsewhere(w, t)
    BY <1>1, <1>4, <2>1, <2>2 DEF Elsewhere
  <2>7. /\ deployed[t] <= flow[w].version
        /\ \A v \in Windows, u \in Lanes : Live(v, u) => v = w
    BY <1>2, <1>4 DEF Guard, FlowInv, VersionInv, AtLane, Live
  <2> QED
    BY <1>1, <1>2, <2>3, <2>4, <2>5, <2>6, <2>7, OneLaneInv DEF Rest, AtLane
<1>5. CASE task[w][t] # "none" /\ Go(w, "admitted") /\ UNCHANGED <<task, lane>>
  <2>1. /\ work' \in [Windows -> Loops] /\ work'[w].pc = "admitted" /\ work'[w].left = work[w].left
        /\ \A v \in Windows \ {w} : work'[v] = work[v]
    BY <1>2, <1>5, LoopFacts DEF AtLane
  <2>2. FlowTypes'
    BY <1>1, <1>5, <2>1 DEF FlowInv, FlowTypes, TypeOK, Rest
  <2>3. TaskInv(w, t)'
    BY <1>1, <1>3, <1>5 DEF TaskInv
  <2>4. LoopInv(w)'
    BY <1>1, <1>2, <1>5, <2>1 DEF LoopInv, AtLane, Rest, Current
  <2>5. Elsewhere(w, t)
    BY <1>1, <1>5, <2>1 DEF Elsewhere
  <2> QED
    BY <1>1, <1>2, <1>5, <2>2, <2>3, <2>4, <2>5, OneLaneInv DEF Rest, AtLane
<1>6. CASE SetLane(w, t, "refused") /\ NextLane(w) /\ UNCHANGED task
  <2>1. OneLane(w, t, "refused")
    BY <1>6, SetLaneFacts DEF LaneStates
  <2>2. TaskInv(w, t)'
    BY <1>1, <1>3, <1>6, <2>1 DEF TaskInv, OneLane
  <2> QED
    BY <1>1, <1>2, <1>3, <1>6, <2>1, <2>2, SettledInv DEF LaneStates
<1>7. CASE UNCHANGED lane /\ NextLane(w) /\ UNCHANGED task
  <2>1. OneLane(w, t, "submitting")
    BY <1>3, <1>7, SameLane DEF LaneStates
  <2>2. TaskInv(w, t)'
    BY <1>1, <1>3, <1>7, <2>1 DEF TaskInv, OneLane
  <2> QED
    BY <1>1, <1>2, <1>3, <1>7, <2>1, <2>2, SettledInv DEF LaneStates
<1> QED
  BY <1>2, <1>4, <1>5, <1>6, <1>7 DEF Submit, Unanswered

LEMMA AdmittedInv ==
  ASSUME FlowInv, NEW w \in Windows, Admitted(w)
  PROVE  FlowInv'
<1>1. work[w].pc = "admitted" /\ Rest /\ UNCHANGED <<task, notice, sent>>
  BY DEF Admitted, world, effects, Rest
<1>2. PICK t \in Lanes : t = Current(w) /\ AtLane(w, t)
  BY <1>1, AtCurrent
<1>3. task[w][t] # "none" /\ lane[w][t] \in LaneRecords
  BY <1>1, <1>2, Known DEF LoopInv
<1>4. lane \in [Windows -> [Lanes -> LaneRecords]]
  BY DEF FlowInv, FlowTypes
<1> DEFINE x == [lane EXCEPT ![w][t].state = "running", ![w][t].known = TRUE]
           r == [lane[w][t] EXCEPT !.state = "running", !.known = TRUE]
<1>5. r \in LaneRecords /\ r.state = "running"
  <2>1. PICK l \in LaneRecords : l = lane[w][t]
    BY <1>3
  <2> DEFINE y == [l EXCEPT !.state = "running"]
  <2>2. y \in LaneRecords /\ y.state = "running"
    BY DEF LaneRecords, LaneStates
  <2>3. r = [y EXCEPT !.known = TRUE]
    BY <2>1
  <2> HIDE DEF y, r
  <2> QED
    BY <2>2, <2>3 DEF LaneRecords
<1>6. x = [lane EXCEPT ![w] = [lane[w] EXCEPT ![t] = r]]
  BY <1>4
<1>7. Follow(w, t, x)
  BY <1>2 DEF Admitted
<1> HIDE DEF r, x
<1>8. PICK known \in [Windows -> [Lanes -> LaneRecords]] : known = x
  BY <1>4, <1>5, <1>6
<1>9. /\ \A u \in Lanes \ {t} : known[w][u] = lane[w][u]
      /\ \A v \in Windows \ {w} : known[v] = lane[v]
      /\ known[w][t].state = "running"
  BY <1>4, <1>5, <1>6, <1>8
<1>10. Follow(w, t, known)
  BY <1>7, <1>8
<1> QED
  BY <1>1, <1>2, <1>3, <1>9, <1>10, FollowInv

-----------------------------------------------------------------------------
(* The notice of a task that succeeded.                                    *)
LEMMA NoticeLane ==
  ASSUME FlowInv, NEW w \in Windows, NEW t \in Lanes, AtLane(w, t), Rest, OneNotice(w, t), task' = task,
         task[w][t] = "succeeded", sent'[w][t] = (IF notice'[w][t] \in Unsent THEN 0 ELSE 1),
         NEW n \in Notices, SetLane(w, t, NoticeState(n)), NextLane(w)
  PROVE  FlowInv'
<1>1. PICK s \in {"running", "succeeded", "notification_unknown", "notification_rejected"} : s = NoticeState(n)
  BY DEF NoticeState
<1>2. OneLane(w, t, s)
  BY <1>1, SetLaneFacts DEF LaneStates
<1>3. TaskInv(w, t)'
  BY <1>1, <1>2 DEF TaskInv, OneLane
<1> QED
  BY <1>2, <1>3, SettledInv DEF LaneStates

LEMMA NotifyInv ==
  ASSUME FlowInv, NEW w \in Windows, Notify(w)
  PROVE  FlowInv'
<1>1. work[w].pc = "notify" /\ Rest /\ UNCHANGED <<task, sent>>
  BY DEF Notify, world, Rest
<1>2. PICK t \in Lanes : t = Current(w) /\ AtLane(w, t)
  BY <1>1, AtCurrent
<1>3. task[w][t] = "succeeded" /\ TaskInv(w, t) /\ lane[w][t] \in LaneRecords /\ lane[w][t].state # "none"
      /\ notice[w][t] \in Notices
  BY <1>1, <1>2, Known DEF LoopInv, AtLane
<1>4. CASE notice[w][t] = "none" /\ maintenance
  <2>1. SetLane(w, t, "notification_unknown") /\ NextLane(w) /\ UNCHANGED notice
    BY <1>2, <1>4 DEF Notify
  <2>2. OneLane(w, t, "notification_unknown") /\ OneNotice(w, t)
    BY <1>1, <2>1, SetLaneFacts, SameNotice DEF LaneStates
  <2>3. TaskInv(w, t)'
    BY <1>1, <1>3, <2>1, <2>2 DEF TaskInv, OneLane
  <2> QED
    BY <1>1, <1>2, <2>1, <2>2, <2>3, SettledInv DEF LaneStates
<1>5. CASE notice[w][t] \in {"none", "queued"} /\ ~maintenance
  <2>1. notice' = [notice EXCEPT ![w][t] = "queued"] /\ Go(w, "claim") /\ UNCHANGED lane
    BY <1>2, <1>5 DEF Notify
  <2>2. OneNotice(w, t) /\ notice'[w][t] = "queued"
    BY <1>1, <2>1 DEF OneNotice, FlowInv, FlowTypes, Notices
  <2>3. PICK s \in LaneStates \ {"none"} : s = lane[w][t].state
    BY <1>3 DEF LaneRecords, LaneStates
  <2>4. OneLane(w, t, s)
    BY <2>1, <2>3, SameLane
  <2>5. TaskInv(w, t)'
    BY <1>1, <1>3, <1>5, <2>1, <2>2 DEF TaskInv, Unsent
  <2> QED
    BY <1>1, <1>2, <1>3, <2>1, <2>2, <2>4, <2>5, KeptInv
<1>6. CASE ~(notice[w][t] = "none" /\ maintenance) /\ ~(notice[w][t] \in {"none", "queued"} /\ ~maintenance)
  <2>1. SetLane(w, t, NoticeState(notice[w][t])) /\ NextLane(w) /\ UNCHANGED notice
    BY <1>2, <1>6 DEF Notify
  <2>2. PICK n \in Notices : n = notice[w][t]
    BY <1>3
  <2>3. SetLane(w, t, NoticeState(n)) /\ OneNotice(w, t)
    BY <1>1, <2>1, <2>2, SameNotice
  <2>4. sent'[w][t] = (IF notice'[w][t] \in Unsent THEN 0 ELSE 1)
    BY <1>1, <1>3, <2>1 DEF TaskInv
  <2> QED
    BY <1>1, <1>2, <1>3, <2>1, <2>3, <2>4, NoticeLane
<1> QED
  BY <1>4, <1>5, <1>6

LEMMA ClaimInv ==
  ASSUME FlowInv, NEW w \in Windows, Claim(w)
  PROVE  FlowInv'
<1>1. work[w].pc = "claim" /\ Rest /\ UNCHANGED task
  BY DEF Claim, world, Rest
<1>2. PICK t \in Lanes : t = Current(w) /\ AtLane(w, t)
  BY <1>1, AtCurrent
<1>3. task[w][t] = "succeeded" /\ TaskInv(w, t) /\ lane[w][t] \in LaneRecords /\ lane[w][t].state # "none"
      /\ notice[w][t] \in Notices
  BY <1>1, <1>2, Known DEF LoopInv, AtLane
<1>4. CASE notice[w][t] = "queued" /\ ~maintenance
  <2>1. /\ notice' = [notice EXCEPT ![w][t] = "in_flight"] /\ sent' = [sent EXCEPT ![w][t] = @ + 1]
        /\ Go(w, "answer") /\ UNCHANGED lane
    BY <1>2, <1>4 DEF Claim
  <2>2. sent \in [Windows -> [Lanes -> Nat]] /\ sent[w][t] = 0
    BY <1>3, <1>4 DEF FlowInv, FlowTypes, TaskInv, Unsent
  <2>3. sent' = [sent EXCEPT ![w][t] = 1]
    BY <2>1, <2>2
  <2>4. OneNotice(w, t) /\ notice'[w][t] = "in_flight" /\ sent'[w][t] = 1
    BY <2>1, <2>2, <2>3 DEF OneNotice, FlowInv, FlowTypes, Notices
  <2>5. PICK s \in LaneStates \ {"none"} : s = lane[w][t].state
    BY <1>3 DEF LaneRecords, LaneStates
  <2>6. OneLane(w, t, s)
    BY <2>1, <2>5, SameLane
  <2>7. TaskInv(w, t)'
    BY <1>1, <1>3, <2>1, <2>4 DEF TaskInv, Unsent
  <2> QED
    BY <1>1, <1>2, <1>3, <2>1, <2>4, <2>6, <2>7, KeptInv DEF Unsent
<1>5. CASE ~(notice[w][t] = "queued" /\ ~maintenance)
  <2>1. SetLane(w, t, NoticeState(notice[w][t])) /\ NextLane(w) /\ UNCHANGED <<notice, sent>>
    BY <1>2, <1>5 DEF Claim
  <2>2. PICK n \in Notices : n = notice[w][t]
    BY <1>3
  <2>3. SetLane(w, t, NoticeState(n)) /\ OneNotice(w, t)
    BY <2>1, <2>2, SameNotice
  <2>4. sent'[w][t] = (IF notice'[w][t] \in Unsent THEN 0 ELSE 1)
    BY <1>3, <2>1 DEF TaskInv
  <2> QED
    BY <1>1, <1>2, <1>3, <2>1, <2>3, <2>4, NoticeLane
<1> QED
  BY <1>4, <1>5

LEMMA AnswerInv ==
  ASSUME FlowInv, NEW w \in Windows, Answer(w)
  PROVE  FlowInv'
<1>1. work[w].pc = "answer" /\ Rest /\ UNCHANGED <<task, sent>> /\ NextLane(w)
  BY DEF Answer, world, Rest
<1>2. PICK t \in Lanes : t = Current(w) /\ AtLane(w, t)
  BY <1>1, AtCurrent
<1>3. task[w][t] = "succeeded" /\ notice[w][t] \notin Unsent /\ TaskInv(w, t)
  BY <1>1, <1>2, Known DEF LoopInv
<1>4. PICK n \in {"delivered", "rejected", "unknown"} :
        notice' = [notice EXCEPT ![w][t] = n] /\ SetLane(w, t, NoticeState(n))
  BY <1>2 DEF Answer
<1>5. n \in Notices /\ n \notin Unsent
  BY DEF Notices, Unsent
<1>6. OneNotice(w, t) /\ notice'[w][t] = n
  BY <1>1, <1>4, <1>5 DEF OneNotice, FlowInv, FlowTypes
<1>7. sent'[w][t] = (IF notice'[w][t] \in Unsent THEN 0 ELSE 1)
  BY <1>1, <1>3, <1>5, <1>6 DEF TaskInv
<1> QED
  BY <1>1, <1>2, <1>3, <1>4, <1>5, <1>6, <1>7, NoticeLane

-----------------------------------------------------------------------------
(* The beginning and the end of a loop.                                    *)
LEMMA StartInv ==
  ASSUME FlowInv, NEW w \in Windows, flow'[w].state # "none",
         flow' \in [Windows -> FlowRecords], \A v \in Windows \ {w} : flow'[v] = flow[v],
         flow'[w].sealed = flow[w].sealed, flow'[w].lanes = flow[w].lanes, flow'[w].version = flow[w].version,
         flow'[w].deps = flow[w].deps \/ (flow'[w].deps = rev /\ ~flow[w].sealed),
         UNCHANGED <<clock, rev, upstream, deployed, lane, task, notice, sent>>,
         opening' \subseteq opening \union {w}, calls' \subseteq calls,
         work' \in [Windows -> Loops], \A v \in Windows \ {w} : work'[v] = work[v],
         work'[w] = work[w] \/ work'[w].pc \in {"restore", "idle"}
  PROVE  FlowInv'
<1>1. opening' \subseteq Windows /\ calls' \subseteq Windows
  BY DEF FlowInv, FlowTypes, TypeOK
<1>2. FlowTypes'
  BY <1>1 DEF FlowInv, FlowTypes, TypeOK
<1>3. ASSUME NEW v \in Windows PROVE LoopInv(v)' /\ Begun(v)'
  <2>1. LoopInv(v) /\ Begun(v)
    BY DEF FlowInv
  <2>2. CASE v # w
    BY <2>1, <2>2 DEF LoopInv, Begun, Current
  <2>3. CASE v = w /\ work'[w] = work[w]
    BY <2>1, <2>3 DEF LoopInv, Begun, Current
  <2>4. CASE v = w /\ work'[w].pc \in {"restore", "idle"}
    BY <2>1, <2>4 DEF LoopInv, Begun
  <2> QED
    BY <2>2, <2>3, <2>4
<1>4. upstream' >= upstream
  BY FlowBoundsAssumption DEF FlowInv, FlowTypes, TypeOK
<1> QED
  BY <1>2, <1>3, <1>4, NoLaneInv

LEMMA DriveFacts ==
  ASSUME FlowInv, NEW w \in Windows, NEW fresh \in BOOLEAN, Drive(w, fresh)
  PROVE  /\ work' \in [Windows -> Loops] /\ \A v \in Windows \ {w} : work'[v] = work[v]
         /\ work'[w] = work[w] \/ work'[w].pc = "restore"
<1>1. work \in [Windows -> Loops]
  BY DEF FlowInv, FlowTypes
<1> DEFINE r == [pc |-> "restore", fresh |-> fresh, left |-> <<>>]
<1>2. r \in Loops /\ r.pc = "restore"
  BY DEF Loops
<1>3. work' = work \/ work' = [work EXCEPT ![w] = r]
  BY DEF Drive
<1> HIDE DEF r
<1> QED
  BY <1>1, <1>2, <1>3

LEMMA FlowState ==
  ASSUME FlowInv, NEW w \in Windows, NEW s \in {"reserved", "planning", "active", "needs_review"} \union Over,
         flow' = [flow EXCEPT ![w].state = s]
  PROVE  /\ flow' \in [Windows -> FlowRecords] /\ \A v \in Windows \ {w} : flow'[v] = flow[v]
         /\ flow'[w].sealed = flow[w].sealed /\ flow'[w].lanes = flow[w].lanes
         /\ flow'[w].version = flow[w].version /\ flow'[w].deps = flow[w].deps
         /\ flow'[w].state = s /\ s # "none"
<1>1. flow \in [Windows -> FlowRecords]
  BY DEF FlowInv, FlowTypes
<1> DEFINE r == [flow[w] EXCEPT !.state = s]
<1>2. /\ r \in FlowRecords /\ r.state = s /\ r.sealed = flow[w].sealed /\ r.lanes = flow[w].lanes
      /\ r.version = flow[w].version /\ r.deps = flow[w].deps
  BY <1>1 DEF FlowRecords
<1>3. flow' = [flow EXCEPT ![w] = r]
  OBVIOUS
<1> HIDE DEF r
<1> QED
  BY <1>1, <1>2, <1>3 DEF Over

LEMMA CronInv ==
  ASSUME FlowInv, NEW w \in Windows, Cron(w)
  PROVE  FlowInv'
<1>1. UNCHANGED <<clock, rev, upstream, deployed, lane, task, notice, sent, calls>>
  BY DEF Cron, world, effects
<1>2. /\ work \in [Windows -> Loops] /\ flow \in [Windows -> FlowRecords]
      /\ rev \in [Lanes -> 1..MaxRev]
  BY DEF FlowInv, FlowTypes, TypeOK
<1>3. CASE /\ flow[w].state = "none" /\ flow' = [flow EXCEPT ![w].state = "reserved", ![w].deps = rev]
           /\ opening' = opening \union {w} /\ UNCHANGED <<work, armed>>
  <2> DEFINE y == [flow[w] EXCEPT !.state = "reserved"]
             r == [y EXCEPT !.deps = rev]
  <2>1. /\ y \in FlowRecords /\ y.state = "reserved" /\ y.sealed = flow[w].sealed
        /\ y.lanes = flow[w].lanes /\ y.version = flow[w].version
    BY <1>2 DEF FlowRecords
  <2>2. flow' = [flow EXCEPT ![w] = r]
    BY <1>2, <1>3
  <2> HIDE DEF y
  <2>3. /\ r \in FlowRecords /\ r.state = "reserved" /\ r.sealed = flow[w].sealed
        /\ r.lanes = flow[w].lanes /\ r.version = flow[w].version /\ r.deps = rev
    BY <1>2, <2>1 DEF FlowRecords
  <2> HIDE DEF r
  <2>4. ~flow[w].sealed
    BY <1>3, Known DEF FlowInv, Begun
  <2>5. /\ flow' \in [Windows -> FlowRecords] /\ flow'[w] = r
        /\ \A v \in Windows \ {w} : flow'[v] = flow[v]
    BY <1>2, <2>2, <2>3
  <2>6. opening' \subseteq opening \union {w} /\ UNCHANGED work
    BY <1>3
  <2>7. flow'[w].state # "none" /\ (flow'[w].deps = rev /\ ~flow[w].sealed)
    BY <2>3, <2>4, <2>5
  <2> QED
    BY <1>1, <1>2, <2>3, <2>5, <2>6, <2>7, StartInv
<1>4. CASE flow[w].state = "reserved" /\ opening' = opening \union {w} /\ UNCHANGED <<flow, work, armed>>
  BY <1>1, <1>2, <1>4, StartInv
<1>5. CASE flow[w].state \notin {"none", "reserved"} /\ UNCHANGED <<flow, opening>> /\ Drive(w, FALSE)
  BY <1>1, <1>2, <1>5, DriveFacts, StartInv
<1> QED
  BY <1>3, <1>4, <1>5 DEF Cron

(* A new state of a flow, and its loop goes on, begins or ends.            *)
LEMMA StateInv ==
  ASSUME FlowInv, NEW w \in Windows, NEW s \in {"reserved", "planning", "active", "needs_review"} \union Over,
         flow' = [flow EXCEPT ![w].state = s],
         UNCHANGED <<clock, rev, upstream, deployed, lane, task, notice, sent>>,
         opening' \subseteq opening, calls' \subseteq calls,
         work' \in [Windows -> Loops], \A v \in Windows \ {w} : work'[v] = work[v],
         work'[w] = work[w] \/ work'[w].pc \in {"restore", "idle"}
  PROVE  FlowInv'
<1>1. /\ flow' \in [Windows -> FlowRecords] /\ \A v \in Windows \ {w} : flow'[v] = flow[v]
      /\ flow'[w].sealed = flow[w].sealed /\ flow'[w].lanes = flow[w].lanes
      /\ flow'[w].version = flow[w].version /\ flow'[w].deps = flow[w].deps /\ flow'[w].state # "none"
  BY FlowState
<1>2. opening' \subseteq opening \union {w}
  OBVIOUS
<1> QED
  BY <1>1, <1>2, StartInv

LEMMA OpenedInv ==
  ASSUME FlowInv, NEW w \in Windows, Opened(w)
  PROVE  FlowInv'
<1>1. /\ UNCHANGED <<clock, rev, upstream, deployed, lane, task, notice, sent, calls>>
      /\ opening' \subseteq opening /\ flow' = [flow EXCEPT ![w].state = "planning"] /\ Drive(w, TRUE)
  BY DEF Opened, world, effects
<1>2. /\ work' \in [Windows -> Loops] /\ \A v \in Windows \ {w} : work'[v] = work[v]
      /\ work'[w] = work[w] \/ work'[w].pc = "restore"
  BY <1>1, DriveFacts
<1>3. calls' \subseteq calls
  BY DEF Opened
<1> QED
  BY <1>1, <1>2, <1>3, StateInv

LEMMA TickInv ==
  ASSUME FlowInv, NEW w \in Windows, Tick(w) \/ Coalesce(w)
  PROVE  FlowInv'
<1>1. /\ UNCHANGED <<clock, rev, upstream, deployed, lane, task, notice, sent, opening, flow>>
      /\ calls' \subseteq calls
  BY DEF Tick, Coalesce, world, effects
<1>2. work \in [Windows -> Loops] /\ flow \in [Windows -> FlowRecords]
  BY DEF FlowInv, FlowTypes
<1>3. CASE flow[w].state # "none" /\ Drive(w, FALSE)
  BY <1>1, <1>2, <1>3, DriveFacts, StartInv
<1>4. CASE UNCHANGED <<work, calls>>
  <2>1. FlowTypes'
    BY <1>1, <1>4 DEF FlowInv, FlowTypes, TypeOK
  <2>2. \A v \in Windows : LoopInv(v)' /\ Begun(v)'
    BY <1>1, <1>4 DEF FlowInv, LoopInv, Begun, Current
  <2> QED
    BY <1>1, <2>1, <2>2, NoLaneInv, FlowBoundsAssumption DEF FlowInv, FlowTypes, TypeOK
<1>5. CASE Tick(w)
  BY <1>3, <1>4, <1>5 DEF Tick, Due
<1>6. CASE Coalesce(w)
  <2>1. w \in calls /\ Drive(w, FALSE)
    BY <1>6 DEF Coalesce
  <2>2. flow[w].state # "none"
    BY <2>1 DEF FlowInv, Begun
  <2> QED
    BY <1>3, <2>1, <2>2
<1> QED
  BY <1>5, <1>6

LEMMA FinishInv ==
  ASSUME FlowInv, NEW w \in Windows, Finish(w)
  PROVE  FlowInv'
<1>1. /\ UNCHANGED <<clock, rev, upstream, deployed, lane, task, notice, sent, opening, calls>>
      /\ work[w].pc = "lane" /\ work' = [work EXCEPT ![w] = Idle]
  BY DEF Finish, world, effects
<1>2. Idle \in Loops /\ Idle.pc = "idle" /\ work \in [Windows -> Loops]
  BY DEF Idle, Loops, FlowInv, FlowTypes
<1>3. work' \in [Windows -> Loops] /\ work'[w].pc = "idle" /\ \A v \in Windows \ {w} : work'[v] = work[v]
  BY <1>1, <1>2
<1>4. CASE UNCHANGED flow
  <2>1. flow[w].state # "none" /\ flow \in [Windows -> FlowRecords]
    BY <1>1 DEF FlowInv, Begun, FlowTypes
  <2> QED
    BY <1>1, <1>3, <1>4, <2>1, StartInv
<1>5. ASSUME NEW s \in {"active", "needs_review", "complete"}, flow' = [flow EXCEPT ![w].state = s] PROVE FlowInv'
  <2>1. s \in {"reserved", "planning", "active", "needs_review"} \union Over
    BY DEF Over
  <2> QED
    BY <1>1, <1>3, <1>5, <2>1, StateInv
<1> QED
  BY <1>4, <1>5 DEF Finish

-----------------------------------------------------------------------------
(* The decision.                                                           *)
LEMMA PlanInv ==
  ASSUME FlowInv, NEW w \in Windows, Plan(w)
  PROVE  FlowInv'
<1>1. /\ work[w].pc = "plan"
      /\ UNCHANGED <<clock, rev, upstream, deployed, lane, task, notice, sent, opening, calls>>
  BY DEF Plan, world, effects
<1>2. /\ flow[w].state # "none" /\ ~flow[w].sealed /\ \A t \in Lanes : task[w][t] = "none"
      /\ work \in [Windows -> Loops] /\ flow \in [Windows -> FlowRecords]
  BY <1>1 DEF FlowInv, Begun, Decided, LoopInv, FlowTypes
<1>3. CASE flow' = [flow EXCEPT ![w].state = "planning_failed"] /\ work' = [work EXCEPT ![w] = Idle]
  <2>1. Idle \in Loops /\ Idle.pc = "idle"
    BY DEF Idle, Loops
  <2>2. work' \in [Windows -> Loops] /\ work'[w].pc = "idle" /\ \A v \in Windows \ {w} : work'[v] = work[v]
    BY <1>2, <1>3, <2>1
  <2> QED
    BY <1>1, <1>3, <2>2, StateInv DEF Over
<1>4. ASSUME NEW ls \in SUBSET {t \in Lanes : ~Busy /\ deployed[t] # upstream /\ rev[t] = flow[w].deps[t]},
             flow' = [flow EXCEPT ![w].sealed = TRUE, ![w].lanes = ls,
                                  ![w].version = IF ls = {} THEN 0 ELSE upstream],
             work' = [work EXCEPT ![w].pc = "restore"]
      PROVE  FlowInv'
  <2>a. upstream \in 1..MaxVersion
    BY DEF FlowInv, FlowTypes, TypeOK
  <2>b. (IF ls = {} THEN 0 ELSE upstream) \in 0..MaxVersion
    BY <2>a, FlowBoundsAssumption
  <2>1. PICK n \in 0..MaxVersion : n = (IF ls = {} THEN 0 ELSE upstream)
    BY <2>b
  <2>2. PICK f \in FlowRecords : f = flow[w]
    BY <1>2
  <2> DEFINE x == [f EXCEPT !.sealed = TRUE]
             y == [x EXCEPT !.lanes = ls]
             r == [y EXCEPT !.version = n]
  <2>3. flow' = [flow EXCEPT ![w] = r]
    BY <1>2, <1>4, <2>1, <2>2
  <2>4. x \in FlowRecords /\ x.sealed = TRUE /\ x.deps = f.deps /\ x.state = f.state
    BY DEF FlowRecords
  <2> HIDE DEF x
  <2>5. y \in FlowRecords /\ y.sealed = TRUE /\ y.lanes = ls /\ y.deps = f.deps /\ y.state = f.state
    BY <2>4 DEF FlowRecords
  <2> HIDE DEF y
  <2>6. /\ r \in FlowRecords /\ r.sealed = TRUE /\ r.lanes = ls /\ r.deps = f.deps /\ r.state = f.state
        /\ r.version = n
    BY <2>5 DEF FlowRecords
  <2> HIDE DEF r
  <2>7. /\ flow' \in [Windows -> FlowRecords] /\ flow'[w] = r /\ \A v \in Windows \ {w} : flow'[v] = flow[v]
    BY <1>2, <2>3, <2>6
  <2>8. /\ work' \in [Windows -> Loops] /\ work'[w].pc = "restore" /\ \A v \in Windows \ {w} : work'[v] = work[v]
    <3> DEFINE l == [work[w] EXCEPT !.pc = "restore"]
    <3>1. l \in Loops /\ l.pc = "restore"
      BY <1>2 DEF Loops
    <3>2. work' = [work EXCEPT ![w] = l]
      BY <1>4
    <3> HIDE DEF l
    <3> QED
      BY <1>2, <3>1, <3>2
  <2>9. FlowTypes'
    BY <1>1, <2>7, <2>8 DEF FlowInv, FlowTypes, TypeOK
  <2>10. \A v \in Windows, t \in Lanes : TaskInv(v, t)'
    BY <1>1 DEF FlowInv, TaskInv
  <2>11. ASSUME NEW v \in Windows PROVE LoopInv(v)' /\ Begun(v)' /\ Decided(v)'
    <3>1. LoopInv(v) /\ Begun(v) /\ Decided(v)
      BY DEF FlowInv
    <3>2. CASE v = w
      BY <1>2, <2>2, <2>6, <2>7, <2>8, <3>2 DEF LoopInv, Begun, Decided
    <3>3. CASE v # w
      BY <1>1, <2>7, <2>8, <3>1, <3>3 DEF LoopInv, Begun, Decided, Current
    <3> QED
      BY <3>2, <3>3
  <2>12. OneCycle'
    BY <1>1 DEF FlowInv, OneCycle, Live
  <2>13. VersionInv'
    <3>1. n <= upstream /\ \A t \in ls : deployed[t] <= n
      BY <2>1, <2>a, FlowBoundsAssumption DEF FlowInv, VersionInv, FlowTypes, TypeOK
    <3>2. ASSUME NEW t \in Lanes
          PROVE  /\ flow'[w].deps[t] <= rev[t]
                 /\ Live(w, t)' \/ (flow'[w].sealed /\ t \in flow'[w].lanes /\ flow'[w].deps[t] = rev[t]) =>
                      deployed[t] <= flow'[w].version
      BY <1>1, <1>2, <2>2, <2>6, <2>7, <3>1 DEF FlowInv, VersionInv, Live
    <3>3. ASSUME NEW v \in Windows \ {w}, NEW t \in Lanes
          PROVE  /\ flow'[v].deps[t] <= rev[t] /\ flow'[v].version <= upstream
                 /\ Live(v, t)' \/ (flow'[v].sealed /\ t \in flow'[v].lanes /\ flow'[v].deps[t] = rev[t]) =>
                      deployed[t] <= flow'[v].version
      BY <1>1, <2>7 DEF FlowInv, VersionInv, Live
    <3>4. \A v \in Windows : flow'[v].version <= upstream
      BY <2>6, <2>7, <3>1 DEF FlowInv, VersionInv
    <3> QED
      BY <1>1, <3>2, <3>3, <3>4 DEF FlowInv, VersionInv
  <2> QED
    BY <2>9, <2>10, <2>11, <2>12, <2>13 DEF FlowInv
<1> QED
  BY <1>3, <1>4 DEF Plan

LEMMA RestoreInv ==
  ASSUME FlowInv, NEW w \in Windows, Restore(w)
  PROVE  FlowInv'
<1>1. /\ work[w].pc = "restore"
      /\ UNCHANGED <<clock, rev, upstream, deployed, task, notice, sent, opening, calls>>
  BY DEF Restore, world, effects
<1>2. /\ flow[w].state # "none" /\ flow[w] \in FlowRecords /\ flow[w].lanes \subseteq Lanes
      /\ work \in [Windows -> Loops] /\ flow \in [Windows -> FlowRecords]
      /\ lane \in [Windows -> [Lanes -> LaneRecords]] /\ lane[w] \in [Lanes -> LaneRecords]
  BY <1>1 DEF FlowInv, Begun, FlowTypes, FlowRecords
<1>3. CASE /\ flow[w].sealed
           /\ lane' = [lane EXCEPT ![w] = [t \in Lanes |-> IF t \in flow[w].lanes /\ lane[w][t].state = "none"
                                                              THEN [lane[w][t] EXCEPT !.state = "ready"] ELSE lane[w][t]]]
           /\ flow' = [flow EXCEPT ![w].state = "active"]
           /\ work' = [work EXCEPT ![w].pc = "lane", ![w].left = Templates]
  <2> DEFINE ls == [t \in Lanes |-> IF t \in flow[w].lanes /\ lane[w][t].state = "none"
                                       THEN [lane[w][t] EXCEPT !.state = "ready"] ELSE lane[w][t]]
  <2>1. /\ lane' = [lane EXCEPT ![w] = ls]
        /\ flow' = [flow EXCEPT ![w].state = "active"]
        /\ work' = [work EXCEPT ![w].pc = "lane", ![w].left = Templates]
    BY <1>3
  <2>2. ASSUME NEW t \in Lanes
        PROVE  /\ ls[t] \in LaneRecords
               /\ ls[t].known = lane[w][t].known
               /\ t \in flow[w].lanes => ls[t].state # "none"
               /\ ls[t].state \in {"none", "ready", lane[w][t].state}
    <3>1. PICK l \in LaneRecords : l = lane[w][t]
      BY <1>2
    <3>2. [l EXCEPT !.state = "ready"] \in LaneRecords
      BY DEF LaneRecords, LaneStates
    <3>3. [l EXCEPT !.state = "ready"].state = "ready" /\ [l EXCEPT !.state = "ready"].known = l.known
      BY DEF LaneRecords
    <3> QED
      BY <3>1, <3>2, <3>3
  <2>3. ls \in [Lanes -> LaneRecords]
    BY <2>2
  <2> HIDE DEF ls
  <2>4. /\ lane' \in [Windows -> [Lanes -> LaneRecords]] /\ lane'[w] = ls
        /\ \A v \in Windows \ {w} : lane'[v] = lane[v]
    BY <1>2, <2>1, <2>3
  <2>5. /\ flow' \in [Windows -> FlowRecords] /\ \A v \in Windows \ {w} : flow'[v] = flow[v]
        /\ flow'[w].sealed = flow[w].sealed /\ flow'[w].lanes = flow[w].lanes
        /\ flow'[w].version = flow[w].version /\ flow'[w].deps = flow[w].deps
        /\ flow'[w].state # "none"
    BY <2>1, FlowState
  <2>6. work' \in [Windows -> Loops] /\ work'[w].pc = "lane" /\ \A v \in Windows \ {w} : work'[v] = work[v]
    <3>1. PICK l \in Loops : l = work[w]
      BY <1>2
    <3> DEFINE y == [l EXCEPT !.pc = "lane"]
               r == [y EXCEPT !.left = Templates]
    <3>2. work' = [work EXCEPT ![w] = r]
      BY <1>2, <2>1, <3>1
    <3>3. y \in Loops /\ y.pc = "lane"
      BY DEF Loops
    <3> HIDE DEF y
    <3>4. r \in Loops /\ r.pc = "lane"
      BY <3>3, TemplatesAssumption DEF Loops
    <3> HIDE DEF r
    <3> QED
      BY <1>2, <3>2, <3>4
  <2>7. FlowTypes'
    BY <1>1, <2>4, <2>5, <2>6 DEF FlowInv, FlowTypes, TypeOK
  <2>8. ASSUME NEW v \in Windows, NEW t \in Lanes PROVE TaskInv(v, t)'
    <3>1. lane'[v][t].state \in {"none", "ready", lane[v][t].state}
      BY <2>2, <2>4
    <3> QED
      BY <1>1, <3>1, Known DEF TaskInv
  <2>9. ASSUME NEW v \in Windows PROVE LoopInv(v)' /\ Begun(v)' /\ Decided(v)'
    <3>1. LoopInv(v) /\ Begun(v) /\ Decided(v)
      BY DEF FlowInv
    <3>2. CASE v = w
      BY <1>1, <1>2, <1>3, <2>2, <2>4, <2>5, <2>6, <3>1, <3>2 DEF LoopInv, Begun, Decided
    <3>3. CASE v # w
      BY <1>1, <2>4, <2>5, <2>6, <3>1, <3>3 DEF LoopInv, Begun, Decided, Current
    <3> QED
      BY <3>2, <3>3
  <2>10. OneCycle'
    BY <1>1 DEF FlowInv, OneCycle, Live
  <2>11. VersionInv'
    <3>1. ASSUME NEW v \in Windows, NEW t \in Lanes
          PROVE  /\ flow'[v].version <= upstream /\ flow'[v].deps[t] <= rev[t]
                 /\ Live(v, t)' \/ (flow'[v].sealed /\ t \in flow'[v].lanes /\ flow'[v].deps[t] = rev[t]) =>
                      deployed[t] <= flow'[v].version
      <4>1. /\ flow'[v].version = flow[v].version /\ flow'[v].deps = flow[v].deps
            /\ flow'[v].sealed = flow[v].sealed /\ flow'[v].lanes = flow[v].lanes
        BY <2>5
      <4> QED
        BY <1>1, <4>1 DEF FlowInv, VersionInv, Live
    <3>2. \A v \in Windows : flow'[v].version <= upstream
      BY <2>5 DEF FlowInv, VersionInv
    <3> QED
      BY <1>1, <3>1, <3>2 DEF FlowInv, VersionInv
  <2> QED
    BY <2>7, <2>8, <2>9, <2>10, <2>11 DEF FlowInv
<1>4. CASE /\ ~flow[w].sealed /\ work[w].fresh
           /\ work' = [work EXCEPT ![w].pc = "plan"] /\ UNCHANGED <<flow, lane>>
  <2>1. work' = [work EXCEPT ![w].pc = "plan"] /\ UNCHANGED <<flow, lane>>
    BY <1>4
  <2>2. PICK l \in Loops : l = work[w]
    BY <1>2
  <2>3. PICK r \in Loops : r = [l EXCEPT !.pc = "plan"] /\ r.pc = "plan"
    <3>1. [l EXCEPT !.pc = "plan"] \in Loops /\ [l EXCEPT !.pc = "plan"].pc = "plan"
      BY DEF Loops
    <3> QED
      BY <3>1
  <2>4. work' = [work EXCEPT ![w] = r] /\ work'[w].pc = "plan"
    BY <1>2, <2>1, <2>2, <2>3
  <2>5. LoopInv(w)'
    BY <1>4, <2>1, <2>4 DEF LoopInv
  <2> QED
    BY <1>1, <1>2, <2>1, <2>4, <2>5, OneLoopInv DEF Rest
<1>5. CASE flow' = [flow EXCEPT ![w].state = "planning_failed"] /\ work' = [work EXCEPT ![w] = Idle] /\ UNCHANGED lane
  <2>2. Idle \in Loops /\ Idle.pc = "idle"
    BY DEF Idle, Loops
  <2>3. work' \in [Windows -> Loops] /\ work'[w].pc = "idle" /\ \A v \in Windows \ {w} : work'[v] = work[v]
    BY <1>2, <1>5, <2>2
  <2> QED
    BY <1>1, <1>5, <2>3, StateInv DEF Over
<1> QED
  BY <1>3, <1>4, <1>5 DEF Restore

-----------------------------------------------------------------------------
(* The rest of the installation.                                           *)
LEMMA CrashInv ==
  ASSUME FlowInv, Crash
  PROVE  FlowInv'
<1>1. /\ UNCHANGED <<clock, rev, upstream, deployed, flow, lane, task, notice, sent>>
      /\ opening' = {} /\ calls' = {} /\ work' = [w \in Windows |-> Idle]
  BY DEF Crash, effects
<1>2. Idle \in Loops /\ Idle.pc = "idle"
  BY DEF Idle, Loops
<1>3. work' \in [Windows -> Loops] /\ \A w \in Windows : work'[w].pc = "idle"
  BY <1>1, <1>2
<1>4. FlowTypes'
  BY <1>1, <1>3 DEF FlowInv, FlowTypes, TypeOK
<1>5. \A v \in Windows : LoopInv(v)' /\ Begun(v)'
  BY <1>1, <1>3 DEF FlowInv, LoopInv, Begun
<1> QED
  BY <1>1, <1>4, <1>5, NoLaneInv, FlowBoundsAssumption DEF FlowInv, FlowTypes, TypeOK

LEMMA WorldInv ==
  ASSUME FlowInv, World
  PROVE  FlowInv'
<1>1. UNCHANGED <<rev, deployed, flow, lane, task, notice, sent, opening, calls, work>>
  BY DEF World, effects
<1>2. /\ clock' \in 1..MaxClock /\ upstream' \in 1..MaxVersion /\ upstream' >= upstream
  BY FlowBoundsAssumption DEF World, FlowInv, FlowTypes, TypeOK
<1>3. FlowTypes'
  BY <1>1, <1>2 DEF FlowInv, FlowTypes, TypeOK
<1>4. \A v \in Windows : LoopInv(v)' /\ Begun(v)'
  BY <1>1 DEF FlowInv, LoopInv, Begun, Current
<1> QED
  BY <1>1, <1>2, <1>3, <1>4, NoLaneInv

(* New records of a template are not those that any decision was made for. *)
LEMMA EditedInv ==
  ASSUME VersionInv, FlowTypes, NEW t \in Lanes, rev' = [rev EXCEPT ![t] = @ + 1]
  PROVE  \A w \in Windows, u \in Lanes :
           flow[w].deps[u] <= rev'[u] /\ (flow[w].deps[u] = rev'[u] => flow[w].deps[u] = rev[u] /\ u # t)
<1> SUFFICES ASSUME NEW w \in Windows, NEW u \in Lanes
             PROVE  flow[w].deps[u] <= rev'[u] /\ (flow[w].deps[u] = rev'[u] => flow[w].deps[u] = rev[u] /\ u # t)
  OBVIOUS
<1>1. rev \in [Lanes -> 1..MaxRev] /\ rev[u] \in Nat /\ flow[w].deps[u] \in Nat /\ flow[w].deps[u] <= rev[u]
  BY FlowBoundsAssumption DEF VersionInv, FlowTypes, TypeOK, FlowRecords
<1>2. rev'[u] = IF u = t THEN rev[u] + 1 ELSE rev[u]
  BY <1>1
<1> QED
  BY <1>1, <1>2

LEMMA UserInv ==
  ASSUME FlowInv, User
  PROVE  FlowInv'
<1>1. UNCHANGED <<clock, upstream, deployed, flow, lane, task, notice, sent, opening, calls, work>>
  BY DEF User, effects
<1>2. CASE UNCHANGED rev
  <2>1. FlowTypes'
    BY <1>1, <1>2 DEF FlowInv, FlowTypes, TypeOK
  <2>2. \A v \in Windows : LoopInv(v)' /\ Begun(v)'
    BY <1>1 DEF FlowInv, LoopInv, Begun, Current
  <2> QED
    BY <1>1, <1>2, <2>1, <2>2, NoLaneInv, FlowBoundsAssumption DEF FlowInv, FlowTypes, TypeOK
<1>3. ASSUME NEW t \in Lanes, rev[t] < MaxRev, rev' = [rev EXCEPT ![t] = @ + 1] PROVE FlowInv'
  <2>1. rev' \in [Lanes -> 1..MaxRev]
    BY <1>3, FlowBoundsAssumption DEF FlowInv, FlowTypes, TypeOK
  <2>2. FlowTypes'
    BY <1>1, <2>1 DEF FlowInv, FlowTypes, TypeOK
  <2>3. \A v \in Windows : LoopInv(v)' /\ Begun(v)' /\ Decided(v)'
    BY <1>1 DEF FlowInv, LoopInv, Begun, Decided, Current
  <2>4. \A v \in Windows, u \in Lanes : TaskInv(v, u)'
    BY <1>1 DEF FlowInv, TaskInv
  <2>5. OneCycle'
    BY <1>1 DEF FlowInv, OneCycle, Live
  <2>6. \A w \in Windows, u \in Lanes :
           flow[w].deps[u] <= rev'[u] /\ (flow[w].deps[u] = rev'[u] => flow[w].deps[u] = rev[u])
    <3>1. VersionInv /\ FlowTypes
      BY DEF FlowInv
    <3>2. \A w \in Windows, u \in Lanes :
             flow[w].deps[u] <= rev'[u] /\ (flow[w].deps[u] = rev'[u] => flow[w].deps[u] = rev[u] /\ u # t)
      BY <1>3, <3>1, EditedInv
    <3> QED
      BY <3>2
  <2>7. VersionInv'
    BY <1>1, <2>6 DEF FlowInv, VersionInv, Live
  <2> QED
    BY <2>2, <2>3, <2>4, <2>5, <2>7 DEF FlowInv
<1> QED
  BY <1>2, <1>3 DEF User

-----------------------------------------------------------------------------
(* The tasks.                                                              *)
LEMMA OneTaskInv ==
  ASSUME FlowInv, NEW w \in Windows, NEW t \in Lanes, Live(w, t), NEW s \in TaskStates \ {"none"},
         task' = [task EXCEPT ![w][t] = s], Observe(w, t),
         UNCHANGED <<clock, upstream, flow, lane, notice, sent, opening, work>>,
         rev' \in [Lanes -> 1..MaxRev], deployed' \in [Lanes -> 0..MaxVersion], VersionInv'
  PROVE  FlowInv'
<1>1. /\ task' \in [Windows -> [Lanes -> TaskStates]] /\ task'[w][t] = s
      /\ \A u \in Lanes \ {t} : task'[w][u] = task[w][u]
      /\ \A v \in Windows \ {w} : task'[v] = task[v]
  BY DEF FlowInv, FlowTypes
<1>2. calls' \in SUBSET Windows /\ \A v \in Windows : v \in calls' => v \in calls \/ (v = w /\ lane[w][t].known)
  BY DEF Observe, FlowInv, FlowTypes, TypeOK
<1>3. FlowTypes'
  BY <1>1, <1>2 DEF FlowInv, FlowTypes, TypeOK
<1>4. ASSUME NEW v \in Windows, NEW u \in Lanes PROVE TaskInv(v, u)'
  <2>1. TaskInv(v, u)
    BY Known
  <2>2. CASE v = w /\ u = t
    BY <1>1, <2>1, <2>2 DEF TaskInv, Live, Unsent
  <2>3. CASE ~(v = w /\ u = t)
    BY <1>1, <2>1, <2>3 DEF TaskInv
  <2> QED
    BY <2>2, <2>3
<1>5. ASSUME NEW v \in Windows PROVE LoopInv(v)' /\ Begun(v)' /\ Decided(v)'
  <2>1. LoopInv(v) /\ Begun(v) /\ Decided(v) /\ flow[v].lanes \subseteq Lanes
    BY DEF FlowInv, FlowTypes, FlowRecords
  <2>2. \A u \in Lanes : task'[v][u] = task[v][u] \/ (v = w /\ u = t /\ task'[v][u] = s)
    BY <1>1
  <2>3. LoopInv(v)'
    BY <2>1, <2>2 DEF LoopInv, Current, Live
  <2>4. Begun(v)'
    BY <1>2, <2>1 DEF Begun
  <2>5. Decided(v)'
    BY <2>1, <2>2 DEF Decided, Live
  <2> QED
    BY <2>3, <2>4, <2>5
<1>6. OneCycle'
  <2>1. \A v \in Windows, u \in Lanes : Live(v, u)' => Live(v, u)
    BY <1>1 DEF Live
  <2> QED
    BY <2>1 DEF FlowInv, OneCycle
<1> QED
  BY <1>3, <1>4, <1>5, <1>6 DEF FlowInv

LEMMA TaskUnknownInv ==
  ASSUME FlowInv, NEW w \in Windows, NEW t \in Lanes, TaskUnknown(w, t)
  PROVE  FlowInv'
<1>1. /\ task[w][t] = "open" /\ task' = [task EXCEPT ![w][t] = "unknown"] /\ Observe(w, t)
      /\ UNCHANGED <<clock, rev, upstream, deployed, flow, lane, notice, sent, opening, work>>
  BY DEF TaskUnknown, world
<1>2. task \in [Windows -> [Lanes -> TaskStates]] /\ FlowTypes
  BY DEF FlowInv, FlowTypes
<1>3. \A v \in Windows, u \in Lanes : Live(v, u)' => Live(v, u)
  BY <1>1, <1>2 DEF Live
<1>4. VersionInv'
  BY <1>1, <1>3 DEF FlowInv, VersionInv
<1> QED
  BY <1>1, <1>2, <1>4, OneTaskInv DEF Live, TaskStates, FlowTypes, TypeOK

LEMMA TaskEndsInv ==
  ASSUME FlowInv, NEW w \in Windows, NEW t \in Lanes, NEW o \in Ended, TaskEnds(w, t, o)
  PROVE  FlowInv'
<1>1. /\ Live(w, t) /\ task' = [task EXCEPT ![w][t] = o] /\ Observe(w, t)
      /\ deployed' = IF o = "succeeded" THEN [deployed EXCEPT ![t] = flow[w].version] ELSE deployed
      /\ IF o = "cancelled" THEN rev' = rev ELSE rev[t] < MaxRev /\ rev' = [rev EXCEPT ![t] = @ + 1]
      /\ UNCHANGED <<clock, upstream, flow, lane, notice, sent, opening, work>>
  BY DEF TaskEnds, Live
<1>2. /\ task \in [Windows -> [Lanes -> TaskStates]] /\ FlowTypes /\ VersionInv /\ OneCycle
      /\ rev \in [Lanes -> 1..MaxRev] /\ deployed \in [Lanes -> 0..MaxVersion]
      /\ flow[w].version \in 0..MaxVersion /\ flow[w].version <= upstream
  BY DEF FlowInv, FlowTypes, TypeOK, FlowRecords, VersionInv
<1>3. o \in TaskStates \ {"none"} /\ o \notin {"open", "unknown"}
  BY DEF TaskStates, Ended
<1>4. rev' \in [Lanes -> 1..MaxRev] /\ deployed' \in [Lanes -> 0..MaxVersion]
  BY <1>1, <1>2, FlowBoundsAssumption
<1>5. \A u \in Lanes : deployed'[u] = deployed[u] \/ (u = t /\ deployed'[u] = flow[w].version /\ o = "succeeded")
  BY <1>1, <1>2
<1>6. \A v \in Windows, u \in Lanes : Live(v, u)' => Live(v, u) /\ v = w /\ u # t
  BY <1>1, <1>2, <1>3 DEF Live, OneCycle
<1>7. \A v \in Windows, u \in Lanes :
        /\ flow[v].deps[u] <= rev'[u]
        /\ flow[v].deps[u] = rev'[u] => flow[v].deps[u] = rev[u] /\ (u # t \/ o = "cancelled")
  <2>1. CASE o = "cancelled"
    BY <1>1, <1>2, <2>1 DEF VersionInv
  <2>2. CASE o # "cancelled"
    BY <1>1, <1>2, <2>2, EditedInv
  <2> QED
    BY <2>1, <2>2
<1>8. VersionInv'
  <2>1. ASSUME NEW v \in Windows, NEW u \in Lanes,
               Live(v, u)' \/ (flow[v].sealed /\ u \in flow[v].lanes /\ flow[v].deps[u] = rev'[u])
        PROVE  deployed'[u] <= flow[v].version
    <3>1. deployed'[u] = deployed[u]
      BY <1>5, <1>6, <1>7, <2>1
    <3>2. Live(v, u) \/ (flow[v].sealed /\ u \in flow[v].lanes /\ flow[v].deps[u] = rev[u])
      BY <1>6, <1>7, <2>1
    <3> QED
      BY <1>2, <3>1, <3>2 DEF VersionInv
  <2>2. \A u \in Lanes : deployed'[u] <= upstream
    BY <1>2, <1>5 DEF VersionInv
  <2> QED
    BY <1>1, <1>2, <1>7, <2>1, <2>2 DEF VersionInv
<1> QED
  BY <1>1, <1>3, <1>4, <1>8, OneTaskInv

LEMMA FlowStep == FlowInv /\ [Next]_vars => FlowInv'
<1> SUFFICES ASSUME FlowInv, [Next]_vars PROVE FlowInv'
  OBVIOUS
<1>1. CASE UNCHANGED vars
  <2>1. UNCHANGED <<clock, rev, upstream, deployed, flow, lane, task, notice, sent, opening, work, calls>>
    BY <1>1 DEF vars
  <2>2. FlowTypes'
    BY <2>1 DEF FlowInv, FlowTypes, TypeOK
  <2>3. \A v \in Windows : LoopInv(v)' /\ Begun(v)'
    BY <2>1 DEF FlowInv, LoopInv, Begun, Current
  <2> QED
    BY <2>1, <2>2, <2>3, NoLaneInv, FlowBoundsAssumption DEF FlowInv, FlowTypes, TypeOK
<1>2. ASSUME NEW w \in Windows, Step(w) PROVE FlowInv'
  <2>1. CASE Lane(w) \/ Finish(w)
    BY <2>1, LaneInv, FinishInv
  <2>2. CASE Opened(w) \/ Coalesce(w) \/ Restore(w) \/ Plan(w)
    BY <2>2, OpenedInv, TickInv, RestoreInv, PlanInv
  <2>3. CASE Submit(w) \/ Admitted(w) \/ Notify(w) \/ Claim(w) \/ Answer(w)
    BY <2>3, SubmitInv, AdmittedInv, NotifyInv, ClaimInv, AnswerInv
  <2> QED
    BY <1>2, <2>1, <2>2, <2>3 DEF Step, Turn
<1>3. CASE World \/ User \/ Crash
  BY <1>3, WorldInv, UserInv, CrashInv
<1>4. ASSUME NEW w \in Windows, Tick(w) \/ Cron(w) PROVE FlowInv'
  BY <1>4, TickInv, CronInv
<1>5. ASSUME NEW w \in Windows, NEW t \in Lanes, TaskUnknown(w, t) \/ \E o \in Ended : TaskEnds(w, t, o) PROVE FlowInv'
  BY <1>5, TaskUnknownInv, TaskEndsInv
<1> QED
  BY <1>1, <1>2, <1>3, <1>4, <1>5 DEF Next

-----------------------------------------------------------------------------
(* What the lanes, the notices and the loops of overlapping flows know of  *)
(* their tasks, and that no decision outlives the records it was made for. *)
THEOREM FlowInvariant == Spec => []FlowInv
BY InitFlow, FlowStep, PTL DEF Spec

(* A task whose snapshot is sealed with an older key than the current one  *)
(* is not found again: its lane may be refused.  Nothing else has a lane   *)
(* refused, and a lane that was refused is left alone.                     *)
SealInv ==
  /\ ring \in Nat /\ seal \in [Windows -> [Lanes -> Nat]]
  /\ \A w \in Windows, t \in Lanes :
       /\ seal[w][t] <= ring
       /\ lane[w][t].state = "refused" => task[w][t] = "none" \/ seal[w][t] < ring

(* The lanes that a step refuses are those that were refused.              *)
Quiet == \A v \in Windows, u \in Lanes : lane'[v][u].state = "refused" => lane[v][u].state = "refused"

LEMMA QuietSeal ==
  ASSUME SealInv, Quiet, seal' = seal, ring' \in {ring, ring + 1},
         \A v \in Windows, u \in Lanes : task[v][u] = "none" => task'[v][u] = "none"
  PROVE  SealInv'
<1>1. ring \in Nat /\ ring' \in Nat /\ ring <= ring'
  BY DEF SealInv
<1>2. ASSUME NEW v \in Windows, NEW u \in Lanes
      PROVE  /\ seal[v][u] <= ring'
             /\ lane'[v][u].state = "refused" => task'[v][u] = "none" \/ seal[v][u] < ring'
  <2>1. seal[v][u] \in Nat /\ seal[v][u] <= ring
    BY DEF SealInv
  <2>2. seal[v][u] <= ring' /\ (seal[v][u] < ring => seal[v][u] < ring')
    BY <1>1, <2>1
  <2> QED
    BY <2>2 DEF SealInv, Quiet
<1> QED
  BY <1>1, <1>2 DEF SealInv

LEMMA QuietLane ==
  ASSUME FlowInv, NEW w \in Windows, NEW t \in Lanes, NEW s \in LaneStates \ {"refused"}, OneLane(w, t, s)
  PROVE  Quiet
BY DEF OneLane, Quiet

(* The lane of a task that is known is not refused.                        *)
LEMMA QuietFollow ==
  ASSUME FlowInv, NEW w \in Windows, NEW t \in Lanes,
         NEW known \in [Windows -> [Lanes -> LaneRecords]],
         \A u \in Lanes \ {t} : known[w][u] = lane[w][u],
         \A v \in Windows \ {w} : known[v] = lane[v],
         known[w][t].state \in {"running", lane[w][t].state},
         Follow(w, t, known)
  PROVE  Quiet
<1>1. ASSUME NEW s, s # "refused", lane' = [known EXCEPT ![w][t].state = s]
      PROVE  Quiet
  <2> DEFINE r == [known[w][t] EXCEPT !.state = s]
  <2>1. r.state = s
    BY DEF LaneRecords
  <2>2. lane' = [known EXCEPT ![w] = [known[w] EXCEPT ![t] = r]]
    BY <1>1
  <2> HIDE DEF r
  <2> QED
    BY <1>1, <2>1, <2>2 DEF Quiet
<1>2. CASE lane' = known
  BY <1>2 DEF Quiet
<1>3. \/ lane' = known
      \/ \E s \in {"needs_review", "running", "succeeded", "failed"} : lane' = [known EXCEPT ![w][t].state = s]
  BY DEF Follow
<1> QED
  BY <1>1, <1>2, <1>3

LEMMA SubmitSeal ==
  ASSUME FlowInv, SealInv, NEW w \in Windows, Submit(w)
  PROVE  SealInv'
<1>1. PICK t \in Lanes : t = Current(w)
  BY AtCurrent DEF Submit
<1>2. /\ lane[w][t].state = "submitting" /\ ring' = ring /\ ring \in Nat
      /\ seal \in [Windows -> [Lanes -> Nat]] /\ task \in [Windows -> [Lanes -> TaskStates]]
      /\ seal[w][t] \in Nat /\ seal[w][t] <= ring
  BY <1>1, Known DEF Submit, world, LoopInv, SealInv, FlowInv, FlowTypes
<1>3. CASE UNCHANGED <<seal, lane, task>>
  BY <1>2, <1>3 DEF SealInv
<1>4. CASE SetLane(w, t, "refused") /\ UNCHANGED task /\ UNCHANGED seal /\ seal[w][t] \notin {0, ring}
  <2>1. OneLane(w, t, "refused")
    BY <1>4, SetLaneFacts DEF LaneStates
  <2>0. seal[w][t] # ring /\ UNCHANGED <<seal, task>>
    BY <1>4
  <2>a. \A m, n \in Nat : m <= n /\ m # n => m < n
    OBVIOUS
  <2>2. seal[w][t] < ring
    BY <1>2, <2>0, <2>a, Zenon
  <2> QED
    BY <1>2, <2>0, <2>1, <2>2 DEF SealInv, OneLane
<1>5. CASE seal' = [seal EXCEPT ![w][t] = ring]
  <2>1. /\ seal' \in [Windows -> [Lanes -> Nat]] /\ seal'[w][t] = ring
        /\ \A u \in Lanes \ {t} : seal'[w][u] = seal[w][u]
        /\ \A v \in Windows \ {w} : seal'[v] = seal[v]
    BY <1>2, <1>5
  <2>2. ASSUME UNCHANGED lane, task' = task \/ Insert(w, t)
        PROVE  SealInv'
    <3>1. /\ \A u \in Lanes \ {t} : task'[w][u] = task[w][u]
          /\ \A v \in Windows \ {w} : task'[v] = task[v]
      BY <1>2, <2>2 DEF Insert
    <3> QED
      BY <1>2, <2>1, <2>2, <3>1 DEF SealInv
  <2>3. ASSUME SetLane(w, t, "refused"), UNCHANGED task, task[w][t] = "none"
        PROVE  SealInv'
    <3>1. OneLane(w, t, "refused")
      BY <2>3, SetLaneFacts DEF LaneStates
    <3>2. ASSUME NEW v \in Windows, NEW u \in Lanes
          PROVE  /\ seal'[v][u] <= ring
                 /\ lane'[v][u].state = "refused" => task[v][u] = "none" \/ seal'[v][u] < ring
      <4>1. CASE v = w /\ u = t
        BY <1>2, <2>1, <2>3, <4>1
      <4>2. CASE v # w \/ u # t
        <5>1. seal'[v][u] = seal[v][u] /\ lane'[v][u] = lane[v][u]
          BY <2>1, <3>1, <4>2 DEF OneLane
        <5> QED
          BY <5>1 DEF SealInv
      <4> QED
        BY <4>1, <4>2
    <3> QED
      BY <1>2, <2>1, <2>3, <3>2 DEF SealInv
  <2>4. \/ UNCHANGED lane /\ (task' = task \/ Insert(w, t))
        \/ SetLane(w, t, "refused") /\ UNCHANGED task /\ task[w][t] = "none"
        \/ UNCHANGED <<seal, lane, task>>
        \/ SetLane(w, t, "refused") /\ UNCHANGED task /\ UNCHANGED seal /\ seal[w][t] \notin {0, ring}
    BY <1>1 DEF Submit, Unanswered
  <2> QED
    BY <1>3, <1>4, <2>2, <2>3, <2>4
<1>6. seal' = [seal EXCEPT ![w][t] = ring] \/ UNCHANGED <<seal, lane, task>>
        \/ (SetLane(w, t, "refused") /\ UNCHANGED task /\ UNCHANGED seal /\ seal[w][t] \notin {0, ring})
  BY <1>1 DEF Submit, Unanswered
<1> QED
  BY <1>3, <1>4, <1>5, <1>6

LEMMA TurnQuiet ==
  ASSUME FlowInv, NEW w \in Windows,
         Lane(w) \/ Restore(w) \/ Admitted(w) \/ Notify(w) \/ Claim(w) \/ Answer(w)
  PROVE  Quiet
<1>0. lane \in [Windows -> [Lanes -> LaneRecords]]
  BY DEF FlowInv, FlowTypes
<1>1. ASSUME NEW t \in Lanes, NEW s \in LaneStates \ {"refused"}, SetLane(w, t, s) PROVE Quiet
  BY <1>1, SetLaneFacts, QuietLane
<1>2. CASE UNCHANGED lane
  BY <1>2 DEF Quiet
<1>3. CASE Lane(w)
  <2>0. work[w].pc = "lane" /\ work[w].left # <<>>
    BY <1>3 DEF Lane
  <2>1. PICK t \in Lanes : t = Current(w)
    BY <2>0 DEF FlowInv, FlowTypes, Loops, Current
  <2>2. CASE lane' = [lane EXCEPT ![w][t].state = "submitting", ![w][t].attempts = @ + 1]
    <3> DEFINE r == [lane[w][t] EXCEPT !.state = "submitting", !.attempts = lane[w][t].attempts + 1]
    <3>1. r.state = "submitting"
      BY <1>0 DEF LaneRecords
    <3>2. lane' = [lane EXCEPT ![w] = [lane[w] EXCEPT ![t] = r]]
      BY <1>0, <2>2
    <3> HIDE DEF r
    <3> QED
      BY <1>0, <3>1, <3>2 DEF Quiet
  <2>3. CASE SetLane(w, t, "admission_unknown")
    BY <1>1, <2>3 DEF LaneStates
  <2>4. CASE Follow(w, t, lane)
    BY <1>0, <2>4, QuietFollow
  <2>5. \/ UNCHANGED lane \/ SetLane(w, t, "admission_unknown") \/ Follow(w, t, lane)
        \/ lane' = [lane EXCEPT ![w][t].state = "submitting", ![w][t].attempts = @ + 1]
    BY <1>3, <2>1 DEF Lane
  <2> QED
    BY <1>2, <2>2, <2>3, <2>4, <2>5
<1>4. CASE Restore(w)
  <2>1. ASSUME NEW t \in Lanes PROVE [lane[w][t] EXCEPT !.state = "ready"].state = "ready"
    BY <1>0 DEF LaneRecords
  <2>2. CASE lane' = [lane EXCEPT ![w] = [t \in Lanes |-> IF t \in flow[w].lanes /\ lane[w][t].state = "none"
                                              THEN [lane[w][t] EXCEPT !.state = "ready"] ELSE lane[w][t]]]
    BY <1>0, <2>1, <2>2 DEF Quiet
  <2> QED
    BY <1>2, <1>4, <2>2 DEF Restore
<1>5. CASE Admitted(w)
  <2>1. PICK t \in Lanes : t = Current(w)
    BY <1>5, AtCurrent DEF Admitted
  <2> DEFINE r == [lane[w][t] EXCEPT !.state = "running", !.known = TRUE]
             x == [lane EXCEPT ![w][t].state = "running", ![w][t].known = TRUE]
  <2>2. r \in LaneRecords /\ r.state = "running"
    <3>1. PICK l \in LaneRecords : l = lane[w][t]
      BY <1>0
    <3> DEFINE y == [l EXCEPT !.state = "running"]
    <3>2. y \in LaneRecords /\ y.state = "running"
      BY DEF LaneRecords, LaneStates
    <3>3. r = [y EXCEPT !.known = TRUE]
      BY <3>1
    <3> HIDE DEF y, r
    <3> QED
      BY <3>2, <3>3 DEF LaneRecords
  <2>3. x = [lane EXCEPT ![w] = [lane[w] EXCEPT ![t] = r]]
    BY <1>0
  <2>4. Follow(w, t, x)
    BY <1>5, <2>1 DEF Admitted
  <2> HIDE DEF r, x
  <2>5. /\ x \in [Windows -> [Lanes -> LaneRecords]] /\ x[w][t].state = "running"
        /\ \A u \in Lanes \ {t} : x[w][u] = lane[w][u]
        /\ \A v \in Windows \ {w} : x[v] = lane[v]
    BY <1>0, <2>2, <2>3
  <2> QED
    BY <2>4, <2>5, QuietFollow
<1>6. ASSUME NEW n, NEW t \in Lanes, SetLane(w, t, NoticeState(n)) PROVE Quiet
  <2>1. NoticeState(n) \in LaneStates \ {"refused"}
    BY DEF NoticeState, LaneStates
  <2> QED
    BY <1>1, <1>6, <2>1
<1>7. CASE Notify(w) \/ Claim(w) \/ Answer(w)
  <2>1. PICK t \in Lanes : t = Current(w)
    BY <1>7, AtCurrent DEF Notify, Claim, Answer
  <2>2. UNCHANGED lane \/ SetLane(w, t, "notification_unknown") \/ \E n : SetLane(w, t, NoticeState(n))
    BY <1>7, <2>1 DEF Notify, Claim, Answer
  <2>3. CASE SetLane(w, t, "notification_unknown")
    BY <1>1, <2>3 DEF LaneStates
  <2> QED
    BY <1>2, <1>6, <2>2, <2>3
<1> QED
  BY <1>3, <1>4, <1>5, <1>7

LEMMA SealStep == FlowInv /\ SealInv /\ [Next]_vars => SealInv'
<1> SUFFICES ASSUME FlowInv, SealInv, [Next]_vars PROVE SealInv'
  OBVIOUS
<1>1. ASSUME UNCHANGED <<lane, seal, task>>, ring' \in {ring, ring + 1} PROVE SealInv'
  BY <1>1, QuietSeal DEF Quiet
<1>2. CASE UNCHANGED vars
  BY <1>1, <1>2 DEF vars
<1>3. ASSUME NEW w \in Windows, Step(w) PROVE SealInv'
  <2>1. CASE Submit(w)
    BY <2>1, SubmitSeal
  <2>2. CASE Lane(w) \/ Restore(w) \/ Admitted(w) \/ Notify(w) \/ Claim(w) \/ Answer(w)
    <3>1. UNCHANGED <<ring, seal, task>>
      BY <2>2 DEF Lane, Restore, Admitted, Notify, Claim, Answer, world, effects
    <3> QED
      BY <2>2, <3>1, TurnQuiet, QuietSeal
  <2>3. CASE Finish(w) \/ Opened(w) \/ Coalesce(w) \/ Plan(w)
    <3>1. UNCHANGED <<ring, lane, seal, task>>
      BY <2>3 DEF Finish, Opened, Coalesce, Plan, world, effects
    <3> QED
      BY <1>1, <3>1
  <2> QED
    BY <1>3, <2>1, <2>2, <2>3 DEF Step, Turn
<1>4. CASE World \/ User \/ Crash
  <2>1. UNCHANGED <<lane, seal, task>> /\ ring' \in {ring, ring + 1}
    BY <1>4 DEF World, User, Crash, effects
  <2> QED
    BY <1>1, <2>1
<1>5. ASSUME NEW w \in Windows, Tick(w) \/ Cron(w) PROVE SealInv'
  <2>1. UNCHANGED <<ring, lane, seal, task>>
    BY <1>5 DEF Tick, Cron, world, effects
  <2> QED
    BY <1>1, <2>1
<1>6. ASSUME NEW w \in Windows, NEW t \in Lanes, TaskUnknown(w, t) \/ \E o \in Ended : TaskEnds(w, t, o)
      PROVE  SealInv'
  <2>1. UNCHANGED <<ring, lane, seal>> /\ task[w][t] \in {"open", "unknown"} /\ \E x : task' = [task EXCEPT ![w][t] = x]
    BY <1>6 DEF TaskUnknown, TaskEnds, world
  <2>2. PICK x : task' = [task EXCEPT ![w][t] = x]
    BY <2>1
  <2>3. task \in [Windows -> [Lanes -> TaskStates]]
    BY DEF FlowInv, FlowTypes
  <2>4. \A v \in Windows, u \in Lanes : task[v][u] = "none" => task'[v][u] = "none"
    BY <2>1, <2>2, <2>3
  <2>5. Quiet /\ seal' = seal /\ ring' \in {ring, ring + 1}
    BY <2>1 DEF Quiet
  <2> QED
    BY <2>4, <2>5, QuietSeal
<1> QED
  BY <1>2, <1>3, <1>4, <1>5, <1>6 DEF Next

(* A lane says what became of its task, and a success, nothing else, is    *)
(* notified at most once, whatever answer is lost and whenever the process *)
(* restarts and with whichever key (automation-flow.ts, webhook-outbox.ts, *)
(* sealed-store.ts): a lane is refused although its task was admitted only *)
(* if the task was sealed with an older key than the current one.          *)
THEOREM LanesStayTrue == Spec => []LanesAreTrue
<1>1. Init => SealInv
  BY DEF Init, SealInv
<1>2. ASSUME FlowInv, SealInv PROVE LanesAreTrue
  <2>1. TypeOK
    BY <1>2 DEF FlowInv, FlowTypes
  <2>2. ASSUME NEW w \in Windows, NEW t \in Lanes
        PROVE  /\ lane[w][t].state = "refused" => task[w][t] = "none" \/ seal[w][t] < ring
               /\ lane[w][t].state \in {"succeeded", "notification_rejected"} => task[w][t] = "succeeded"
               /\ lane[w][t].state = "failed" => task[w][t] \in {"failed", "cancelled"}
               /\ sent[w][t] <= 1 /\ (sent[w][t] = 1 => task[w][t] = "succeeded")
    <3>1. TaskInv(w, t)
      BY <1>2 DEF FlowInv
    <3> QED
      BY <1>2, <3>1 DEF TaskInv, Unsent, SealInv
  <2> QED
    BY <2>1, <2>2 DEF LanesAreTrue
<1>3. Spec => []SealInv
  BY <1>1, SealStep, FlowInvariant, PTL DEF Spec
<1> QED
  BY <1>2, <1>3, FlowInvariant, PTL

(* The decision of an older window never replaces what a newer one         *)
(* deployed, although their flows overlap: a task is only inserted on the  *)
(* records its decision was made for, while no other cycle has one.        *)
THEOREM NothingIsDowngraded == Spec => NeverDowngrades
<1>1. ASSUME FlowInv, [Next]_vars PROVE [\A t \in Lanes : deployed'[t] >= deployed[t]]_vars
  <2>1. deployed \in [Lanes -> 0..MaxVersion]
    BY <1>1 DEF FlowInv, FlowTypes, TypeOK
  <2>2. CASE UNCHANGED deployed
    BY <2>1, <2>2, FlowBoundsAssumption
  <2>3. ASSUME NEW w \in Windows, NEW t \in Lanes, NEW o \in Ended, TaskEnds(w, t, o)
        PROVE  \A u \in Lanes : deployed'[u] >= deployed[u]
    <3>1. deployed[t] <= flow[w].version /\ flow[w].version \in 0..MaxVersion
      BY <1>1, <2>3 DEF TaskEnds, FlowInv, VersionInv, Live, FlowTypes, FlowRecords
    <3> QED
      BY <2>1, <2>3, <3>1, FlowBoundsAssumption DEF TaskEnds
  <2>4. ASSUME NEW w \in Windows, Step(w) PROVE UNCHANGED deployed
    BY <2>4 DEF Step, Turn, Lane, Finish, Opened, Coalesce, Restore, Plan, Submit, Admitted, Notify, Claim,
                Answer, world
  <2>5. ASSUME World \/ User \/ Crash PROVE UNCHANGED deployed
    BY <2>5 DEF World, User, Crash, world
  <2>6. ASSUME NEW w \in Windows, Tick(w) \/ Cron(w) PROVE UNCHANGED deployed
    BY <2>6 DEF Tick, Cron, world
  <2>7. ASSUME NEW w \in Windows, NEW t \in Lanes, TaskUnknown(w, t) PROVE UNCHANGED deployed
    BY <2>7 DEF TaskUnknown, world
  <2> QED
    BY <1>1, <2>2, <2>3, <2>4, <2>5, <2>6, <2>7 DEF Next, vars
<1> QED
  BY <1>1, FlowInvariant, PTL DEF Spec, NeverDowngrades
=============================================================================
