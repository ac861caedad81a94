------------------------------- MODULE Drain --------------------------------
(* Replacing the generation of the authority: the accounts are drained and   *)
(* sealed (authority-drain.ts, account-drain.ts), an archived source is      *)
(* imported next to the live generation (generation-import.ts), and one      *)
(* transaction activates it (generation-activation.ts).  The requests to an  *)
(* account may arrive late and more than once; their answers may be lost.    *)
EXTENDS Naturals, FiniteSets

CONSTANTS Accounts, Tasks, On,   \* On[t]: the account of a task
          Drains,                \* ids of drain sessions
          MaxEpoch, MaxGeneration, MaxRev  \* bounds; after MaxEpoch no maintenance begins

VARIABLES meta, rev,             \* config_meta; content of the configuration records
          outbox, gen,           \* per task: its dispatch, and the generation it was admitted in
          job, acked,            \* at its account: its job, and whether its receipt was acknowledged
          drain, report,         \* authority_drains, authority_drain_accounts
          fence,                 \* account_drain_fences
          sent, answers,         \* requests that may arrive (again), reports that may come back
          source, import         \* the captured archive and its import

vars == <<meta, rev, outbox, gen, job, acked, drain, report, fence, sent, answers, source, import>>
tasks == <<outbox, gen, job, acked>>
drains == <<drain, report, fence, sent, answers>>
imports == <<source, import>>

Init == /\ meta = [maintenance |-> FALSE, epoch |-> 1, generation |-> 1] /\ rev = 1
        /\ outbox = [t \in Tasks |-> "none"] /\ gen = [t \in Tasks |-> 0]
        /\ job = outbox /\ acked = [t \in Tasks |-> FALSE]
        /\ drain = [d \in Drains |-> [state |-> "none", basis |-> <<>>]]
        /\ report = [d \in Drains |-> [a \in Accounts |-> "none"]] /\ fence = report
        /\ sent = {} /\ answers = {}
        /\ source = [basis |-> <<>>, rev |-> 0] /\ import = [state |-> "none", baseline |-> <<>>]

Basis == <<meta, rev>>
Generation(d) == drain[d].basis[1].generation
OpenDrain(d) == drain[d].state \in {"probing", "ready", "releasing"}
Blocked == \E t \in Tasks : outbox[t] = "open"
Barrier(d) == meta.maintenance /\ drain[d].basis = Basis /\ ~Blocked
Move(d, state) == drain' = [drain EXCEPT ![d].state = state]

-----------------------------------------------------------------------------
(* Tasks: admitted outside of maintenance, delivered until their receipt is *)
(* in.  A delivery never enters an account that is sealed for its           *)
(* generation.                                                              *)
Submit(t) == /\ ~meta.maintenance /\ outbox[t] = "none"
             /\ outbox' = [outbox EXCEPT ![t] = "open"] /\ gen' = [gen EXCEPT ![t] = meta.generation]
             /\ UNCHANGED <<meta, rev, job, acked, drains, imports>>
Sealed(a, g) == \E d \in Drains : fence[d][a] = "sealed" /\ Generation(d) = g
Deliver(t) == /\ outbox[t] = "open" /\ job[t] = "none" /\ ~Sealed(On[t], gen[t])
              /\ job' = [job EXCEPT ![t] = "open"]
              /\ UNCHANGED <<meta, rev, outbox, gen, acked, drains, imports>>
Work(t) == /\ job[t] = "open" /\ job' = [job EXCEPT ![t] = "over"]
           /\ UNCHANGED <<meta, rev, outbox, gen, acked, drains, imports>>
Receipt(t) == /\ job[t] = "over" /\ outbox[t] = "open" /\ outbox' = [outbox EXCEPT ![t] = "terminal"]
              /\ UNCHANGED <<meta, rev, gen, job, acked, drains, imports>>
Acknowledge(t) == /\ outbox[t] = "terminal" /\ acked' = [acked EXCEPT ![t] = TRUE]
                  /\ UNCHANGED <<meta, rev, outbox, gen, job, drains, imports>>
Edit == /\ ~meta.maintenance /\ rev < MaxRev /\ rev' = rev + 1
        /\ UNCHANGED <<meta, tasks, drains, imports>>

(* Maintenance ends only when no drain of the generation is under way.      *)
SetMaintenance(enabled) ==
    /\ meta.maintenance # enabled /\ (enabled => meta.epoch < MaxEpoch)
    /\ enabled \/ \A d \in Drains : OpenDrain(d) => Generation(d) # meta.generation
    /\ meta' = [meta EXCEPT !.maintenance = enabled, !.epoch = @ + 1]
    /\ UNCHANGED <<rev, tasks, drains, imports>>

-----------------------------------------------------------------------------
Begin(d) ==
    /\ drain[d].state = "none" /\ meta.maintenance /\ ~Blocked
    /\ \A e \in Drains : OpenDrain(e) => Generation(e) # meta.generation
    /\ drain' = [drain EXCEPT ![d] = [state |-> "probing", basis |-> Basis]]
    /\ UNCHANGED <<meta, rev, tasks, report, fence, sent, answers, imports>>
(* advance: the accounts without a report that is ready are probed; the     *)
(* answers are saved under the barrier, and when all are ready so is the    *)
(* drain.                                                                   *)
SendProbe(d, a) ==
    /\ drain[d].state \in {"probing", "ready"} /\ Barrier(d) /\ report[d][a] # "ready"
    /\ sent' = sent \union {<<"probe", d, a>>}
    /\ UNCHANGED <<meta, rev, tasks, drain, report, fence, answers, imports>>
\* Faulty: receipts that are not acknowledged do not matter.
QuietJobs(a) == \A t \in Tasks : On[t] = a /\ job[t] # "none" => job[t] = "over"
(* The account counts what is not over, and the receipts it still sends.    *)
Quiet(a) == \A t \in Tasks : On[t] = a /\ job[t] # "none" => job[t] = "over" /\ acked[t]
Probe(d, a) ==
    /\ <<"probe", d, a>> \in sent
    /\ fence[d][a] # "released" /\ \A e \in Drains \ {d} : fence[e][a] = "sealed" => Generation(e) # Generation(d)
    /\ fence' = [fence EXCEPT ![d][a] = IF Quiet(a) \/ @ = "sealed" THEN "sealed" ELSE "waiting"]
    /\ answers' = answers \union {<<d, a, Quiet(a)>>}
    /\ UNCHANGED <<meta, rev, tasks, drain, report, sent, imports>>
Report(d, a, ready) ==
    /\ <<d, a, ready>> \in answers /\ answers' = answers \ {<<d, a, ready>>}
    /\ Barrier(d) /\ drain[d].state \in {"probing", "ready"}
    /\ report' = [report EXCEPT ![d][a] = IF ready THEN "ready" ELSE "busy"]
    /\ UNCHANGED <<meta, rev, tasks, drain, fence, sent, imports>>
Advanced(d) ==
    /\ drain[d].state = "probing" /\ Barrier(d) /\ \A a \in Accounts : report[d][a] = "ready"
    /\ Move(d, "ready")
    /\ UNCHANGED <<meta, rev, tasks, report, fence, sent, answers, imports>>

(* release: the session stays in the way of everything until every account  *)
(* has answered.  The account keeps the row of a session it never heard of. *)
Release(d) ==
    /\ drain[d].state \in {"probing", "ready", "releasing"} /\ meta.maintenance /\ meta.generation = Generation(d)
    /\ Move(d, "releasing") /\ sent' = sent \union {<<"release", d, a>> : a \in {b \in Accounts : report[d][b] # "released"}}
    /\ UNCHANGED <<meta, rev, tasks, report, fence, answers, imports>>
\* Faulty: nothing is kept of a session the account never heard of.
ReleaseAtUnheard(d, a) ==
    /\ <<"release", d, a>> \in sent
    /\ fence' = [fence EXCEPT ![d][a] = IF @ = "none" THEN "none" ELSE "released"]
    /\ report' = [report EXCEPT ![d][a] = "released"] /\ UNCHANGED <<meta, rev, tasks, drain, sent, answers, imports>>
ReleaseAt(d, a) ==
    /\ <<"release", d, a>> \in sent /\ fence' = [fence EXCEPT ![d][a] = "released"]
    /\ \/ report' = [report EXCEPT ![d][a] = "released"]   \* its answer comes back,
       \/ UNCHANGED report                                  \* or is lost
    /\ UNCHANGED <<meta, rev, tasks, drain, sent, answers, imports>>
Released(d) ==
    /\ drain[d].state = "releasing" /\ \A a \in Accounts : report[d][a] = "released"
    /\ Move(d, "released")
    /\ UNCHANGED <<meta, rev, tasks, report, fence, sent, answers, imports>>

-----------------------------------------------------------------------------
(* The archive is captured with the basis it was read at.  An import is     *)
(* prepared, staged and verified; each step requires the baseline it began  *)
(* with.                                                                    *)
Capture == /\ meta.maintenance /\ source' = [basis |-> Basis, rev |-> rev]
           /\ UNCHANGED <<meta, rev, tasks, drains, import>>
BeginImport == /\ meta.maintenance /\ source.rev # 0 /\ import.state = "none"
               /\ import' = [state |-> "preparing", baseline |-> Basis, source |-> source]
               /\ UNCHANGED <<meta, rev, tasks, drains, source>>
Unchanged == meta.maintenance /\ import.baseline = Basis
Resume == /\ \/ import.state = "preparing" /\ import' = [import EXCEPT !.state = "staging"]
             \/ import.state = "staging" /\ import' = [import EXCEPT !.state = "verified"]
          /\ Unchanged
          /\ UNCHANGED <<meta, rev, tasks, drains, source>>
(* The operator gives up an import and begins another under a new id.       *)
Abandon == /\ import.state # "none" /\ import' = [state |-> "none", baseline |-> <<>>]
           /\ UNCHANGED <<meta, rev, tasks, drains, source>>

(* The source is what is live and what was drained: the same basis, the     *)
(* same records.                                                            *)
Current(d) == drain[d].state = "ready" /\ import.source.basis = drain[d].basis /\ import.source.rev = rev
Activate(d) ==
    /\ import.state = "verified" /\ Current(d) /\ Barrier(d) /\ Unchanged
    /\ \A a \in Accounts : report[d][a] = "ready"
    /\ meta.generation < MaxGeneration
    /\ meta' = [meta EXCEPT !.generation = @ + 1, !.epoch = @ + 1] /\ rev' = import.source.rev
    /\ Move(d, "consumed") /\ import' = [import EXCEPT !.state = "activated"]
    /\ UNCHANGED <<tasks, report, fence, sent, answers, source>>

Next ==
    \/ \E t \in Tasks : Submit(t) \/ Deliver(t) \/ Work(t) \/ Receipt(t) \/ Acknowledge(t)
    \/ Edit \/ \E enabled \in BOOLEAN : SetMaintenance(enabled)
    \/ \E d \in Drains : \/ Begin(d) \/ Advanced(d) \/ Release(d) \/ Released(d) \/ Activate(d)
                         \/ \E a \in Accounts : \/ SendProbe(d, a) \/ Probe(d, a) \/ ReleaseAt(d, a)
                                                \/ \E ready \in BOOLEAN : Report(d, a, ready)
    \/ Capture \/ BeginImport \/ Resume \/ Abandon
Spec == Init /\ [][Next]_vars

-----------------------------------------------------------------------------
TypeOK == /\ meta \in [maintenance : BOOLEAN, epoch : Nat, generation : 1..MaxGeneration] /\ rev \in 1..MaxRev
          /\ outbox \in [Tasks -> {"none", "open", "terminal"}] /\ job \in [Tasks -> {"none", "open", "over"}]
          /\ fence \in [Drains -> [Accounts -> {"none", "waiting", "sealed", "released"}]]
(* A seal on the live generation is held by a drain that is under way, in   *)
(* maintenance: no probe that arrives late leaves an account that refuses   *)
(* its deliveries for good.                                                 *)
SealsAreLifted ==
    /\ TypeOK
    /\ \A d \in Drains, a \in Accounts :
          fence[d][a] = "sealed" /\ Generation(d) = meta.generation => meta.maintenance /\ OpenDrain(d)
(* When a generation is retired its accounts have nothing left to do or to  *)
(* send for it.                                                             *)
RetiredIsQuiet == \A t \in Tasks : gen[t] \in 1..(meta.generation - 1) => job[t] = "over" /\ acked[t]
=============================================================================
