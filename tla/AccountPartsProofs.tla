------------------------- MODULE AccountPartsProofs -------------------------
(***************************************************************************)
(* Proofs about the drain of a generation, the flows of periodic updates,  *)
(* the release and the programs of steps, for every number of accounts,    *)
(* tasks, sessions, templates, windows, runs and namespaces, as parts of   *)
(* what is about an account.  DrainInv, MoveInv and ExecInv are their      *)
(* inductive invariants; the flows are those of AutomationProofs.          *)
(***************************************************************************)
EXTENDS AccountParts, TLAPS

-----------------------------------------------------------------------------
(* The drain.                                                              *)

Metas == [maintenance : BOOLEAN, epoch : Nat, generation : 1..MaxGeneration]
Bases == Metas \X (1..MaxEdits)
DrainTypes ==
  /\ Draining!TypeOK
  /\ acked \in [Tasks -> BOOLEAN] /\ gen \in [Tasks -> Nat]
  /\ drain \in [Drains -> [state : {"none", "probing", "ready", "releasing", "released", "consumed"},
                           basis : {<<>>} \union Bases]]
  /\ report \in [Drains -> [Accounts -> {"none", "busy", "ready", "released"}]]

Begun(d) == drain[d].state # "none"
(* A session that was not begun is unknown everywhere.                     *)
Unheard(d) == ~Begun(d) => \A a \in Accounts :
  /\ report[d][a] = "none" /\ fence[d][a] = "none"
  /\ <<"probe", d, a>> \notin sent /\ \A ready \in BOOLEAN : <<d, a, ready>> \notin answers
(* A session is of this generation or an older one; as long as one of this *)
(* is under way there is maintenance.                                      *)
Dated(d) == Begun(d) =>
  /\ drain[d].basis \in Bases /\ drain[d].basis[1].maintenance
  /\ Draining!Generation(d) <= meta.generation /\ drain[d].basis[1].epoch <= meta.epoch
  /\ Draining!OpenDrain(d) /\ Draining!Generation(d) = meta.generation => meta.maintenance
  /\ drain[d].state = "consumed" => Draining!Generation(d) < meta.generation
(* An account that has released the seal of a session remembers it.        *)
Lifted(d) == \A a \in Accounts :
  /\ <<"release", d, a>> \in sent \/ report[d][a] = "released" => drain[d].state \in {"releasing", "released"}
  /\ report[d][a] = "released" => fence[d][a] = "released"
  /\ drain[d].state = "released" => report[d][a] = "released"
(* While nothing is changed the tasks of the accounts that are ready are   *)
(* over, and known to be.                                                  *)
Finished(a) == \A t \in Tasks : On[t] = a /\ outbox[t] # "none" => job[t] = "over" /\ acked[t]
Drained(d) == Begun(d) /\ drain[d].basis = Draining!Basis =>
  /\ meta.maintenance /\ ~Draining!Blocked
  /\ \A a \in Accounts : report[d][a] = "ready" \/ <<d, a, TRUE>> \in answers => Finished(a)

TaskInv(t) ==
  /\ gen[t] <= meta.generation /\ (gen[t] > 0 => outbox[t] # "none")
  /\ outbox[t] = "terminal" => job[t] = "over"
  /\ gen[t] \in 1..(meta.generation - 1) => job[t] = "over" /\ acked[t]
DrainInv ==
  /\ DrainTypes
  /\ \A d \in Drains : Unheard(d) /\ Dated(d) /\ Lifted(d) /\ Drained(d)
  /\ \A t \in Tasks : TaskInv(t)

LEMMA KnownDrain ==
  ASSUME DrainInv, NEW d \in Drains
  PROVE  /\ Unheard(d) /\ Dated(d) /\ Lifted(d) /\ Drained(d)
         /\ meta \in Metas /\ rev \in 1..MaxEdits /\ Draining!Basis \in Bases
         /\ Draining!Basis[1] = meta /\ meta.epoch \in Nat /\ meta.generation \in Nat
         /\ drain[d].state \in {"none", "probing", "ready", "releasing", "released", "consumed"}
BY GenerationsAssumption DEF DrainInv, DrainTypes, Draining!TypeOK, Metas, Bases, Draining!Basis

LEMMA InitDrain == Draining!Init => DrainInv
<1> SUFFICES ASSUME Draining!Init PROVE DrainInv
  OBVIOUS
<1>1. DrainTypes
  BY GenerationsAssumption DEF Draining!Init, DrainTypes, Draining!TypeOK
<1>2. ASSUME NEW d \in Drains PROVE Unheard(d) /\ Dated(d) /\ Lifted(d) /\ Drained(d)
  BY DEF Draining!Init, Unheard, Dated, Lifted, Drained, Begun
<1>3. ASSUME NEW t \in Tasks PROVE TaskInv(t)
  BY DEF Draining!Init, TaskInv
<1> QED
  BY <1>1, <1>2, <1>3 DEF DrainInv

(* A task is only begun outside of maintenance, and what is over stays so. *)
LEMMA TasksInv ==
  ASSUME DrainInv, NEW t \in Tasks,
         \/ Draining!Submit(t) \/ Draining!Deliver(t) \/ Draining!Work(t) \/ Draining!Receipt(t) \/ Draining!Acknowledge(t)
  PROVE  DrainInv'
<1>1. UNCHANGED <<meta, rev, drain, report, fence, sent, answers>>
  BY DEF Draining!Submit, Draining!Deliver, Draining!Work, Draining!Receipt, Draining!Acknowledge, Draining!drains
<1>2. /\ outbox \in [Tasks -> {"none", "open", "terminal"}] /\ job \in [Tasks -> {"none", "open", "over"}]
      /\ acked \in [Tasks -> BOOLEAN] /\ gen \in [Tasks -> Nat] /\ TaskInv(t)
      /\ meta.generation \in Nat
  BY GenerationsAssumption DEF DrainInv, DrainTypes, Draining!TypeOK
<1>3. /\ outbox' \in [Tasks -> {"none", "open", "terminal"}] /\ job' \in [Tasks -> {"none", "open", "over"}]
      /\ acked' \in [Tasks -> BOOLEAN] /\ gen' \in [Tasks -> Nat]
      /\ \A u \in Tasks \ {t} : outbox'[u] = outbox[u] /\ job'[u] = job[u] /\ acked'[u] = acked[u] /\ gen'[u] = gen[u]
  BY <1>2 DEF Draining!Submit, Draining!Deliver, Draining!Work, Draining!Receipt, Draining!Acknowledge
<1>4. /\ TaskInv(t)'
      /\ job[t] = "over" => job'[t] = "over"
      /\ acked[t] => acked'[t]
      /\ meta.maintenance => (outbox'[t] = "open" => outbox[t] = "open") /\ (outbox'[t] # "none" => outbox[t] # "none")
  BY <1>1, <1>2, <1>3 DEF TaskInv, Draining!Submit, Draining!Deliver, Draining!Work, Draining!Receipt, Draining!Acknowledge
<1>5. DrainTypes'
  BY <1>1, <1>3 DEF DrainInv, DrainTypes, Draining!TypeOK
<1>6. ASSUME NEW u \in Tasks PROVE TaskInv(u)'
  <2>1. CASE u = t
    BY <1>4, <2>1
  <2>2. CASE u # t
    BY <1>1, <1>3, <2>2 DEF DrainInv, TaskInv
  <2> QED
    BY <2>1, <2>2
<1>7. ASSUME NEW d \in Drains PROVE Unheard(d)' /\ Dated(d)' /\ Lifted(d)' /\ Drained(d)'
  <2>1. Unheard(d)' /\ Dated(d)' /\ Lifted(d)'
    BY <1>1, KnownDrain DEF Unheard, Dated, Lifted, Begun, Draining!Generation, Draining!OpenDrain
  <2>2. Drained(d)'
    <3> SUFFICES ASSUME Begun(d), drain[d].basis = Draining!Basis PROVE Drained(d)'
      BY <1>1 DEF Drained, Begun, Draining!Basis
    <3>1. /\ meta.maintenance /\ ~Draining!Blocked
          /\ \A a \in Accounts : report[d][a] = "ready" \/ <<d, a, TRUE>> \in answers => Finished(a)
      BY KnownDrain DEF Drained
    <3>2. \A u \in Tasks : outbox'[u] # "open"
      BY <1>3, <1>4, <3>1 DEF Draining!Blocked
    <3>3. ASSUME NEW a \in Accounts, Finished(a) PROVE Finished(a)'
      BY <1>3, <1>4, <3>1, <3>3 DEF Finished
    <3> QED
      BY <1>1, <3>1, <3>2, <3>3 DEF Drained, Draining!Blocked
  <2> QED
    BY <2>1, <2>2
<1> QED
  BY <1>5, <1>6, <1>7 DEF DrainInv

(* The tasks stay as they are.                                             *)
LEMMA SameTasks ==
  ASSUME DrainInv, UNCHANGED <<meta, outbox, gen, job, acked>>
  PROVE  /\ \A t \in Tasks : TaskInv(t)'
         /\ \A a : Finished(a)' <=> Finished(a)
         /\ Draining!Blocked' <=> Draining!Blocked
BY DEF DrainInv, TaskInv, Finished, Draining!Blocked

LEMMA ImportInv ==
  ASSUME DrainInv, UNCHANGED <<meta, rev, outbox, gen, job, acked, drain, report, fence, sent, answers>>
  PROVE  DrainInv'
<1>1. DrainTypes'
  BY DEF DrainInv, DrainTypes, Draining!TypeOK
<1>2. ASSUME NEW d \in Drains PROVE Unheard(d)' /\ Dated(d)' /\ Lifted(d)' /\ Drained(d)'
  BY KnownDrain, SameTasks DEF Unheard, Dated, Lifted, Drained, Begun, Draining!Generation, Draining!OpenDrain, Draining!Basis
<1> QED
  BY <1>1, <1>2, SameTasks DEF DrainInv

LEMMA EditInv ==
  ASSUME DrainInv, Draining!Edit
  PROVE  DrainInv'
<1>1. /\ ~meta.maintenance /\ rev' = rev + 1 /\ rev < MaxEdits
      /\ UNCHANGED <<meta, outbox, gen, job, acked, drain, report, fence, sent, answers>>
  BY DEF Draining!Edit, Draining!tasks, Draining!drains
<1>2. DrainTypes'
  BY <1>1, GenerationsAssumption DEF DrainInv, DrainTypes, Draining!TypeOK
<1>3. ASSUME NEW d \in Drains PROVE Unheard(d)' /\ Dated(d)' /\ Lifted(d)' /\ Drained(d)'
  <2>1. Unheard(d)' /\ Dated(d)' /\ Lifted(d)'
    BY <1>1, KnownDrain DEF Unheard, Dated, Lifted, Begun, Draining!Generation, Draining!OpenDrain
  <2>2. Drained(d)'
    <3>1. Begun(d) => drain[d].basis[1].maintenance
      BY KnownDrain DEF Dated
    <3> QED
      BY <1>1, <3>1 DEF Drained, Begun, Draining!Basis
  <2> QED
    BY <2>1, <2>2
<1> QED
  BY <1>1, <1>2, <1>3, SameTasks DEF DrainInv

LEMMA MaintenanceInv ==
  ASSUME DrainInv, NEW enabled \in BOOLEAN, Draining!SetMaintenance(enabled)
  PROVE  DrainInv'
<1>1. /\ enabled \/ \A d \in Drains : Draining!OpenDrain(d) => Draining!Generation(d) # meta.generation
      /\ meta' = [meta EXCEPT !.maintenance = enabled, !.epoch = @ + 1]
      /\ UNCHANGED <<rev, outbox, gen, job, acked, drain, report, fence, sent, answers>>
  BY DEF Draining!SetMaintenance, Draining!tasks, Draining!drains
<1>2. PICK m \in Metas : m = meta
  BY DEF DrainInv, DrainTypes, Draining!TypeOK, Metas
<1> DEFINE x == [m EXCEPT !.maintenance = enabled]
           y == [x EXCEPT !.epoch = m.epoch + 1]
<1>3. meta' = y
  BY <1>1, <1>2
<1>4. x \in Metas /\ x.maintenance = enabled /\ x.generation = m.generation /\ m.epoch \in Nat
  BY DEF Metas
<1> HIDE DEF x
<1>5. y \in Metas /\ y.maintenance = enabled /\ y.generation = m.generation /\ y.epoch = m.epoch + 1
  BY <1>4 DEF Metas
<1> HIDE DEF y
<1>6. /\ meta' \in Metas /\ meta'.maintenance = enabled /\ meta'.generation = meta.generation
      /\ meta'.epoch = meta.epoch + 1 /\ meta.epoch \in Nat
  BY <1>2, <1>3, <1>4, <1>5
<1>7. DrainTypes'
  BY <1>1, <1>6 DEF DrainInv, DrainTypes, Draining!TypeOK, Metas
<1>8. ASSUME NEW d \in Drains PROVE Unheard(d)' /\ Dated(d)' /\ Lifted(d)' /\ Drained(d)'
  <2>1. Unheard(d)' /\ Lifted(d)'
    BY <1>1, KnownDrain DEF Unheard, Lifted, Begun
  <2>2. Begun(d) => drain[d].basis \in Bases /\ drain[d].basis[1].epoch \in Nat
    BY KnownDrain DEF Dated, Bases, Metas
  <2>3. Dated(d)'
    BY <1>1, <1>6, <2>2, KnownDrain DEF Dated, Begun, Draining!Generation, Draining!OpenDrain
  <2>4. Begun(d) => drain[d].basis[1].epoch <= meta.epoch
    BY KnownDrain DEF Dated
  <2>5. Drained(d)'
    <3>1. Begun(d) => drain[d].basis[1].epoch # meta'.epoch
      BY <1>6, <2>2, <2>4
    <3>2. <<meta', rev'>>[1] = meta' /\ (Draining!Basis)' = <<meta', rev'>>
      BY DEF Draining!Basis
    <3>3. Begun(d) => drain[d].basis # (Draining!Basis)'
      BY <3>1, <3>2
    <3>4. drain'[d] = drain[d]
      BY <1>1
    <3> QED
      BY <3>3, <3>4 DEF Drained, Begun
  <2> QED
    BY <2>1, <2>3, <2>5
<1>9. \A t \in Tasks : TaskInv(t)'
  BY <1>1, <1>6 DEF DrainInv, TaskInv
<1> QED
  BY <1>7, <1>8, <1>9 DEF DrainInv

-----------------------------------------------------------------------------
(* The sessions.                                                           *)
LEMMA BeginInv ==
  ASSUME DrainInv, NEW d \in Drains, Draining!Begin(d)
  PROVE  DrainInv'
<1>1. /\ ~Begun(d) /\ meta.maintenance /\ ~Draining!Blocked
      /\ drain' = [drain EXCEPT ![d] = [state |-> "probing", basis |-> Draining!Basis]]
      /\ UNCHANGED <<meta, rev, outbox, gen, job, acked, report, fence, sent, answers>>
  BY DEF Draining!Begin, Draining!tasks, Begun
<1>2. /\ drain'[d].state = "probing" /\ drain'[d].basis = Draining!Basis
      /\ \A e \in Drains \ {d} : drain'[e] = drain[e]
  BY <1>1 DEF DrainInv, DrainTypes
<1>3. DrainTypes'
  BY <1>1, KnownDrain DEF DrainInv, DrainTypes, Draining!TypeOK
<1>4. ASSUME NEW e \in Drains \ {d} PROVE Unheard(e)' /\ Dated(e)' /\ Lifted(e)' /\ Drained(e)'
  <2>1. /\ Unheard(e) /\ Dated(e) /\ Lifted(e) /\ Drained(e)
        /\ drain'[e] = drain[e] /\ UNCHANGED <<meta, rev, report, fence, sent, answers>>
    BY <1>1, <1>2, KnownDrain
  <2>2. /\ \A a : Finished(a)' <=> Finished(a)
        /\ Draining!Blocked' <=> Draining!Blocked
    BY <1>1, SameTasks
  <2>3. Unheard(e)' /\ Lifted(e)'
    BY <2>1 DEF Unheard, Lifted, Begun
  <2>4. Dated(e)'
    BY <2>1 DEF Dated, Begun, Draining!Generation, Draining!OpenDrain
  <2>5. Drained(e)'
    BY <2>1, <2>2 DEF Drained, Begun, Draining!Basis
  <2> QED
    BY <2>3, <2>4, <2>5
<1>5. Unheard(d)' /\ Dated(d)'
  BY <1>1, <1>2, KnownDrain DEF Unheard, Dated, Begun, Draining!Generation, Draining!Basis
<1>6. Lifted(d)'
  BY <1>1, <1>2, KnownDrain DEF Unheard, Lifted, Begun
<1>7. Drained(d)'
  BY <1>1, <1>2, KnownDrain, SameTasks DEF Unheard, Drained
<1> QED
  BY <1>1, <1>3, <1>4, <1>5, <1>6, <1>7, SameTasks DEF DrainInv

(* The other sessions.                                                     *)
SameDrain(d) ==
  /\ drain'[d] = drain[d]
  /\ \A a \in Accounts : /\ report'[d][a] = report[d][a] /\ fence'[d][a] = fence[d][a]
                         /\ (<<"probe", d, a>> \in sent') <=> (<<"probe", d, a>> \in sent)
                         /\ (<<"release", d, a>> \in sent') <=> (<<"release", d, a>> \in sent)
                         /\ \A ready \in BOOLEAN : (<<d, a, ready>> \in answers') <=> (<<d, a, ready>> \in answers)

LEMMA OneDrainInv ==
  ASSUME DrainInv, NEW d \in Drains, UNCHANGED <<meta, rev, outbox, gen, job, acked>>,
         DrainTypes', \A e \in Drains \ {d} : SameDrain(e),
         Unheard(d)', Dated(d)', Lifted(d)', Drained(d)'
  PROVE  DrainInv'
<1>1. ASSUME NEW e \in Drains \ {d} PROVE Unheard(e)' /\ Dated(e)' /\ Lifted(e)' /\ Drained(e)'
  <2>1. /\ Unheard(e) /\ Dated(e) /\ Lifted(e) /\ Drained(e) /\ SameDrain(e)
        /\ \A a : Finished(a)' <=> Finished(a)
        /\ Draining!Blocked' <=> Draining!Blocked
    BY KnownDrain, SameTasks
  <2>2. Unheard(e)'
    BY <2>1 DEF SameDrain, Unheard, Begun
  <2>5. Lifted(e)'
    BY <2>1 DEF SameDrain, Lifted
  <2>3. Dated(e)'
    BY <2>1 DEF SameDrain, Dated, Begun, Draining!Generation, Draining!OpenDrain
  <2>4. Drained(e)'
    BY <2>1 DEF SameDrain, Drained, Begun, Draining!Basis
  <2> QED
    BY <2>2, <2>3, <2>4, <2>5
<1> QED
  BY <1>1, SameTasks DEF DrainInv

(* Only the state of the session changes.                                  *)
LEMMA Moved ==
  ASSUME DrainInv, NEW d \in Drains,
         NEW s \in {"probing", "ready", "releasing", "released", "consumed"}, Draining!Move(d, s)
  PROVE  /\ drain'[d].state = s /\ drain'[d].basis = drain[d].basis
         /\ \A e \in Drains \ {d} : drain'[e] = drain[e]
         /\ drain' \in [Drains -> [state : {"none", "probing", "ready", "releasing", "released", "consumed"},
                                   basis : {<<>>} \union Bases]]
<1> DEFINE S == [state : {"none", "probing", "ready", "releasing", "released", "consumed"}, basis : {<<>>} \union Bases]
           r == [drain[d] EXCEPT !.state = s]
<1>1. drain \in [Drains -> S] /\ drain' = [drain EXCEPT ![d] = r]
  BY DEF DrainInv, DrainTypes, Draining!Move
<1>2. r \in S /\ r.state = s /\ r.basis = drain[d].basis
  BY <1>1
<1> HIDE DEF r
<1>3. drain'[d] = r /\ drain' \in [Drains -> S] /\ \A e \in Drains \ {d} : drain'[e] = drain[e]
  BY <1>1, <1>2
<1> QED
  BY <1>2, <1>3

LEMMA SendProbeInv ==
  ASSUME DrainInv, NEW d \in Drains, NEW a \in Accounts, Draining!SendProbe(d, a)
  PROVE  DrainInv'
<1>1. /\ Begun(d) /\ sent' = sent \union {<<"probe", d, a>>}
      /\ UNCHANGED <<meta, rev, outbox, gen, job, acked, drain, report, fence, answers>>
  BY DEF Draining!SendProbe, Draining!tasks, Begun
<1>2. DrainTypes' /\ \A e \in Drains \ {d} : SameDrain(e)
  BY <1>1 DEF DrainInv, DrainTypes, Draining!TypeOK, SameDrain
<1>3. Unheard(d)' /\ Dated(d)'
  BY <1>1, KnownDrain DEF Unheard, Dated, Begun, Draining!Generation, Draining!OpenDrain
<1>4. Lifted(d)' /\ Drained(d)'
  BY <1>1, KnownDrain, SameTasks DEF Lifted, Drained, Begun, Draining!Basis
<1> QED
  BY <1>1, <1>2, <1>3, <1>4, OneDrainInv

LEMMA ProbeInv ==
  ASSUME DrainInv, NEW d \in Drains, NEW a \in Accounts, Draining!Probe(d, a)
  PROVE  DrainInv'
<1>1. /\ <<"probe", d, a>> \in sent /\ fence[d][a] # "released"
      /\ fence' = [fence EXCEPT ![d][a] = IF Draining!Quiet(a) \/ @ = "sealed" THEN "sealed" ELSE "waiting"]
      /\ answers' = answers \union {<<d, a, Draining!Quiet(a)>>}
      /\ UNCHANGED <<meta, rev, outbox, gen, job, acked, drain, report, sent>>
  BY DEF Draining!Probe, Draining!tasks
<1>2. /\ \A e \in Drains \ {d} : fence'[e] = fence[e]
      /\ \A b \in Accounts \ {a} : fence'[d][b] = fence[d][b]
      /\ fence' \in [Drains -> [Accounts -> {"none", "waiting", "sealed", "released"}]]
  BY <1>1 DEF DrainInv, DrainTypes, Draining!TypeOK
<1>3. Begun(d) /\ Begun(d)'
  BY <1>1, KnownDrain DEF Unheard, Begun
<1>4. DrainTypes' /\ \A e \in Drains \ {d} : SameDrain(e)
  BY <1>1, <1>2 DEF DrainInv, DrainTypes, Draining!TypeOK, SameDrain
<1>5. Unheard(d)' /\ Dated(d)'
  BY <1>1, <1>3, KnownDrain DEF Unheard, Dated, Begun, Draining!Generation, Draining!OpenDrain
<1>6. Lifted(d)'
  <2>1. report[d][a] # "released"
    BY <1>1, KnownDrain DEF Lifted
  <2> QED
    BY <1>1, <1>2, <2>1, KnownDrain DEF Lifted
<1>7. Drained(d)'
  <2> SUFFICES ASSUME drain[d].basis = Draining!Basis PROVE Drained(d)'
    BY <1>1 DEF Drained, Draining!Basis
  <2>1. /\ meta.maintenance /\ ~Draining!Blocked
        /\ \A b \in Accounts : report[d][b] = "ready" \/ <<d, b, TRUE>> \in answers => Finished(b)
    BY <1>3, KnownDrain DEF Drained
  <2>2. ASSUME Draining!Quiet(a) PROVE Finished(a)
    <3> SUFFICES ASSUME NEW t \in Tasks, On[t] = a, outbox[t] # "none" PROVE job[t] = "over" /\ acked[t]
      BY DEF Finished
    <3>1. outbox[t] = "terminal"
      BY <2>1 DEF DrainInv, DrainTypes, Draining!TypeOK, Draining!Blocked
    <3>2. job[t] = "over"
      BY <3>1 DEF DrainInv, TaskInv
    <3> QED
      BY <2>2, <3>2 DEF Draining!Quiet
  <2>3. \A b \in Accounts : report'[d][b] = "ready" \/ <<d, b, TRUE>> \in answers' => Finished(b)
    BY <1>1, <2>1, <2>2
  <2> QED
    BY <1>1, <2>1, <2>3, SameTasks DEF Drained
<1> QED
  BY <1>1, <1>4, <1>5, <1>6, <1>7, OneDrainInv

LEMMA ReportInv ==
  ASSUME DrainInv, NEW d \in Drains, NEW a \in Accounts, NEW ready \in BOOLEAN, Draining!Report(d, a, ready)
  PROVE  DrainInv'
<1>1. /\ <<d, a, ready>> \in answers /\ answers' = answers \ {<<d, a, ready>>}
      /\ drain[d].state \in {"probing", "ready"}
      /\ report' = [report EXCEPT ![d][a] = IF ready THEN "ready" ELSE "busy"]
      /\ UNCHANGED <<meta, rev, outbox, gen, job, acked, drain, fence, sent>>
  BY DEF Draining!Report, Draining!tasks
<1>2. /\ \A e \in Drains \ {d} : report'[e] = report[e]
      /\ \A b \in Accounts \ {a} : report'[d][b] = report[d][b]
      /\ report'[d][a] = IF ready THEN "ready" ELSE "busy"
      /\ report' \in [Drains -> [Accounts -> {"none", "busy", "ready", "released"}]]
  BY <1>1 DEF DrainInv, DrainTypes
<1>3. DrainTypes' /\ \A e \in Drains \ {d} : SameDrain(e)
  BY <1>1, <1>2 DEF DrainInv, DrainTypes, Draining!TypeOK, SameDrain
<1>4. Unheard(d)' /\ Dated(d)'
  BY <1>1, KnownDrain DEF Unheard, Dated, Begun, Draining!Generation, Draining!OpenDrain
<1>5. Lifted(d)'
  BY <1>1, <1>2, KnownDrain DEF Lifted
<1>6. Drained(d)'
  <2> SUFFICES ASSUME Begun(d), drain[d].basis = Draining!Basis PROVE Drained(d)'
    BY <1>1 DEF Drained, Draining!Basis, Begun
  <2>1. /\ meta.maintenance /\ ~Draining!Blocked
        /\ \A b \in Accounts : report[d][b] = "ready" \/ <<d, b, TRUE>> \in answers => Finished(b)
    BY KnownDrain DEF Drained
  <2>2. \A b \in Accounts : report'[d][b] = "ready" \/ <<d, b, TRUE>> \in answers' => Finished(b)
    BY <1>1, <1>2, <2>1
  <2> QED
    BY <1>1, <2>1, <2>2, SameTasks DEF Drained
<1> QED
  BY <1>1, <1>3, <1>4, <1>5, <1>6, OneDrainInv

LEMMA AdvancedInv ==
  ASSUME DrainInv, NEW d \in Drains, Draining!Advanced(d)
  PROVE  DrainInv'
<1>1. /\ drain[d].state = "probing" /\ Draining!Move(d, "ready")
      /\ UNCHANGED <<meta, rev, outbox, gen, job, acked, report, fence, sent, answers>>
  BY DEF Draining!Advanced, Draining!tasks
<1>2. /\ drain'[d].state = "ready" /\ drain'[d].basis = drain[d].basis
      /\ DrainTypes' /\ \A e \in Drains \ {d} : SameDrain(e)
  BY <1>1, Moved DEF DrainInv, DrainTypes, Draining!TypeOK, SameDrain
<1>3. Unheard(d)' /\ Dated(d)' /\ Lifted(d)'
  BY <1>1, <1>2, KnownDrain DEF Unheard, Dated, Lifted, Begun, Draining!Generation, Draining!OpenDrain
<1>4. Drained(d)'
  BY <1>1, <1>2, KnownDrain, SameTasks DEF Drained, Begun, Draining!Basis
<1> QED
  BY <1>1, <1>2, <1>3, <1>4, OneDrainInv

LEMMA ReleaseInv ==
  ASSUME DrainInv, NEW d \in Drains, Draining!Release(d)
  PROVE  DrainInv'
<1>1. /\ drain[d].state \in {"probing", "ready", "releasing"} /\ meta.maintenance
      /\ Draining!Move(d, "releasing")
      /\ sent' = sent \union {<<"release", d, a>> : a \in {b \in Accounts : report[d][b] # "released"}}
      /\ UNCHANGED <<meta, rev, outbox, gen, job, acked, report, fence, answers>>
  BY DEF Draining!Release, Draining!tasks
<1>2. /\ drain'[d].state = "releasing" /\ drain'[d].basis = drain[d].basis /\ DrainTypes'
      /\ \A e \in Drains \ {d} : drain'[e] = drain[e]
  BY <1>1, Moved DEF DrainInv, DrainTypes, Draining!TypeOK
<1>3. \A e \in Drains \ {d} : SameDrain(e)
  BY <1>1, <1>2 DEF SameDrain
<1>4. Unheard(d)' /\ Dated(d)' /\ Lifted(d)'
  BY <1>1, <1>2, KnownDrain DEF Unheard, Dated, Lifted, Begun, Draining!Generation, Draining!OpenDrain
<1>5. Drained(d)'
  BY <1>1, <1>2, KnownDrain, SameTasks DEF Drained, Begun, Draining!Basis
<1> QED
  BY <1>1, <1>2, <1>3, <1>4, <1>5, OneDrainInv

LEMMA ReleaseAtInv ==
  ASSUME DrainInv, NEW d \in Drains, NEW a \in Accounts, Draining!ReleaseAt(d, a)
  PROVE  DrainInv'
<1>1. /\ <<"release", d, a>> \in sent /\ fence' = [fence EXCEPT ![d][a] = "released"]
      /\ report' = [report EXCEPT ![d][a] = "released"] \/ report' = report
      /\ UNCHANGED <<meta, rev, outbox, gen, job, acked, drain, sent, answers>>
  BY DEF Draining!ReleaseAt, Draining!tasks
<1>2. /\ \A e \in Drains \ {d} : fence'[e] = fence[e] /\ report'[e] = report[e]
      /\ \A b \in Accounts \ {a} : fence'[d][b] = fence[d][b] /\ report'[d][b] = report[d][b]
      /\ fence'[d][a] = "released" /\ (report'[d][a] = report[d][a] \/ report'[d][a] = "released")
      /\ report' \in [Drains -> [Accounts -> {"none", "busy", "ready", "released"}]]
      /\ fence' \in [Drains -> [Accounts -> {"none", "waiting", "sealed", "released"}]]
  <2>1. /\ report \in [Drains -> [Accounts -> {"none", "busy", "ready", "released"}]]
        /\ fence \in [Drains -> [Accounts -> {"none", "waiting", "sealed", "released"}]]
    BY DEF DrainInv, DrainTypes, Draining!TypeOK
  <2>2. CASE report' = report
    BY <1>1, <2>1, <2>2
  <2>3. CASE report' = [report EXCEPT ![d][a] = "released"]
    BY <1>1, <2>1, <2>3
  <2> QED
    BY <1>1, <2>2, <2>3
<1>3. drain[d].state \in {"releasing", "released"}
  BY <1>1, KnownDrain DEF Lifted
<1>4. DrainTypes' /\ \A e \in Drains \ {d} : SameDrain(e)
  BY <1>1, <1>2 DEF DrainInv, DrainTypes, Draining!TypeOK, SameDrain
<1>5. Unheard(d)' /\ Dated(d)'
  BY <1>1, <1>3, KnownDrain DEF Unheard, Dated, Begun, Draining!Generation, Draining!OpenDrain
<1>6. Lifted(d)'
  BY <1>1, <1>2, <1>3, KnownDrain DEF Lifted
<1>7. Drained(d)'
  <2> SUFFICES ASSUME Begun(d), drain[d].basis = Draining!Basis PROVE Drained(d)'
    BY <1>1 DEF Drained, Draining!Basis, Begun
  <2>1. /\ meta.maintenance /\ ~Draining!Blocked
        /\ \A b \in Accounts : report[d][b] = "ready" \/ <<d, b, TRUE>> \in answers => Finished(b)
    BY KnownDrain DEF Drained
  <2>2. ASSUME NEW b \in Accounts, report'[d][b] = "ready" \/ <<d, b, TRUE>> \in answers' PROVE Finished(b)
    <3>1. report'[d][b] = "ready" => report[d][b] = "ready"
      <4>1. CASE b = a
        BY <1>2, <4>1
      <4>2. CASE b # a
        BY <1>2, <4>2
      <4> QED
        BY <4>1, <4>2
    <3>2. answers' = answers
      BY <1>1
    <3> QED
      BY <2>1, <2>2, <3>1, <3>2
  <2> QED
    BY <1>1, <2>1, <2>2, SameTasks DEF Drained
<1> QED
  BY <1>1, <1>4, <1>5, <1>6, <1>7, OneDrainInv

LEMMA ReleasedInv ==
  ASSUME DrainInv, NEW d \in Drains, Draining!Released(d)
  PROVE  DrainInv'
<1>1. /\ drain[d].state = "releasing" /\ \A a \in Accounts : report[d][a] = "released"
      /\ Draining!Move(d, "released")
      /\ UNCHANGED <<meta, rev, outbox, gen, job, acked, report, fence, sent, answers>>
  BY DEF Draining!Released, Draining!tasks
<1>2. /\ drain'[d].state = "released" /\ drain'[d].basis = drain[d].basis
      /\ DrainTypes' /\ \A e \in Drains \ {d} : SameDrain(e)
  BY <1>1, Moved DEF DrainInv, DrainTypes, Draining!TypeOK, SameDrain
<1>3. Unheard(d)' /\ Dated(d)' /\ Lifted(d)'
  BY <1>1, <1>2, KnownDrain DEF Unheard, Dated, Lifted, Begun, Draining!Generation, Draining!OpenDrain
<1>4. Drained(d)'
  BY <1>1, <1>2, KnownDrain, SameTasks DEF Drained, Begun, Draining!Basis
<1> QED
  BY <1>1, <1>2, <1>3, <1>4, OneDrainInv

(* The next generation.  No session was begun at what is live now; what    *)
(* the retired generation admitted is finished, since its drain was ready. *)
LEMMA ActivateInv ==
  ASSUME DrainInv, NEW d \in Drains, Draining!Activate(d)
  PROVE  DrainInv'
<1>1. /\ drain[d].state = "ready" /\ drain[d].basis = Draining!Basis /\ meta.maintenance
      /\ \A a \in Accounts : report[d][a] = "ready"
      /\ meta.generation < MaxGeneration /\ rev' = rev
      /\ meta' = [meta EXCEPT !.generation = @ + 1, !.epoch = @ + 1]
      /\ Draining!Move(d, "consumed")
      /\ UNCHANGED <<outbox, gen, job, acked, report, fence, sent, answers>>
  BY DEF Draining!Activate, Draining!tasks, Draining!Current, Draining!Barrier
<1>2. PICK m \in Metas : m = meta
  BY KnownDrain
<1> DEFINE x == [m EXCEPT !.generation = m.generation + 1]
           y == [x EXCEPT !.epoch = m.epoch + 1]
<1>3. meta' = y
  BY <1>1, <1>2
<1>4. /\ x \in Metas /\ x.maintenance = m.maintenance /\ x.generation = m.generation + 1
      /\ m.epoch \in Nat /\ m.generation \in Nat \ {0}
  BY <1>1, <1>2, GenerationsAssumption DEF Metas
<1> HIDE DEF x
<1>5. y \in Metas /\ y.maintenance = m.maintenance /\ y.generation = m.generation + 1 /\ y.epoch = m.epoch + 1
  BY <1>4 DEF Metas
<1> HIDE DEF y
<1>6. /\ meta' \in Metas /\ meta'.maintenance /\ meta'.generation = meta.generation + 1
      /\ meta'.epoch = meta.epoch + 1 /\ meta.epoch \in Nat /\ meta.generation \in Nat \ {0}
  BY <1>1, <1>2, <1>3, <1>4, <1>5
<1>7. /\ drain'[d].state = "consumed" /\ drain'[d].basis = drain[d].basis
      /\ \A e \in Drains \ {d} : drain'[e] = drain[e]
  BY <1>1, Moved
<1>8. DrainTypes'
  BY <1>1, <1>6, Moved DEF DrainInv, DrainTypes, Draining!TypeOK, Metas
<1>9. ASSUME NEW e \in Drains PROVE Unheard(e)' /\ Dated(e)' /\ Lifted(e)' /\ Drained(e)'
  <2>1. /\ drain'[e].basis = drain[e].basis /\ Begun(e)' = Begun(e)
        /\ drain'[e].state = IF e = d THEN "consumed" ELSE drain[e].state
    BY <1>1, <1>7 DEF Begun
  <2>2. Begun(e) => /\ drain[e].basis \in Bases /\ drain[e].basis[1].maintenance
                    /\ drain[e].basis[1].epoch \in Nat /\ drain[e].basis[1].generation \in Nat
                    /\ drain[e].basis[1].epoch <= meta.epoch
                    /\ drain[e].basis[1].generation <= meta.generation
                    /\ drain[e].state = "consumed" => drain[e].basis[1].generation < meta.generation
    BY KnownDrain, GenerationsAssumption DEF Dated, Bases, Metas, Draining!Generation
  <2>3. Unheard(e)' /\ Lifted(e)'
    BY <1>1, <2>1, KnownDrain DEF Unheard, Lifted, Begun
  <2>4. Dated(e)'
    BY <1>6, <2>1, <2>2 DEF Dated, Draining!Generation, Draining!OpenDrain
  <2>5. Drained(e)'
    <3>1. <<meta', rev'>>[1] = meta' /\ (Draining!Basis)' = <<meta', rev'>>
      BY DEF Draining!Basis
    <3>2. Begun(e) => drain[e].basis # (Draining!Basis)'
      BY <1>6, <2>2, <3>1
    <3> QED
      BY <2>1, <3>2 DEF Drained
  <2> QED
    BY <2>3, <2>4, <2>5
<1>10. ASSUME NEW t \in Tasks PROVE TaskInv(t)'
  <2>1. TaskInv(t) /\ gen[t] \in Nat
    BY DEF DrainInv, DrainTypes
  <2>2. \A a \in Accounts : Finished(a)
    BY <1>1, KnownDrain DEF Drained, Begun
  <2>3. gen[t] > 0 => job[t] = "over" /\ acked[t]
    BY <2>1, <2>2, AddressesAssumption DEF TaskInv, Finished
  <2> QED
    BY <1>1, <1>6, <2>1, <2>3 DEF TaskInv
<1> QED
  BY <1>8, <1>9, <1>10 DEF DrainInv

-----------------------------------------------------------------------------
LEMMA DrainStep ==
  ASSUME DrainInv, [PartsNext]_partVars
  PROVE  DrainInv'
<1>1. CASE UNCHANGED drainVars
  BY <1>1, ImportInv DEF drainVars
<1>2. CASE Draining!Next
  <2>1. ASSUME NEW t \in Tasks,
               \/ Draining!Submit(t) \/ Draining!Deliver(t) \/ Draining!Work(t)
               \/ Draining!Receipt(t) \/ Draining!Acknowledge(t)
        PROVE  DrainInv'
    BY <2>1, TasksInv
  <2>2. ASSUME NEW d \in Drains, \/ Draining!Begin(d) \/ Draining!Advanced(d) \/ Draining!Release(d)
                                 \/ Draining!Released(d) \/ Draining!Activate(d)
        PROVE  DrainInv'
    BY <2>2, BeginInv, AdvancedInv, ReleaseInv, ReleasedInv, ActivateInv
  <2>3. ASSUME NEW d \in Drains, NEW a \in Accounts,
               \/ Draining!SendProbe(d, a) \/ Draining!Probe(d, a) \/ Draining!ReleaseAt(d, a)
               \/ \E ready \in BOOLEAN : Draining!Report(d, a, ready)
        PROVE  DrainInv'
    BY <2>3, SendProbeInv, ProbeInv, ReleaseAtInv, ReportInv
  <2>4. CASE Draining!Capture \/ Draining!BeginImport \/ Draining!Resume \/ Draining!Abandon
    BY <2>4, ImportInv DEF Draining!Capture, Draining!BeginImport, Draining!Resume, Draining!Abandon,
                           Draining!tasks, Draining!drains
  <2> QED
    BY <1>2, <2>1, <2>2, <2>3, <2>4, EditInv, MaintenanceInv DEF Draining!Next
<1> QED
  BY <1>1, <1>2 DEF PartsNext, NextLedger, NextProgram, NextDrain, NextFlows, NextRelease, partVars, drainVars

(* The invariant of the drain holds of every run.                          *)
THEOREM DrainInvariant == PartsSpec => []DrainInv
<1>1. PartsInit => DrainInv
  BY InitDrain DEF PartsInit
<1> QED
  BY <1>1, DrainStep, PTL DEF PartsSpec

(* No probe that arrives late leaves an account sealed for good: a seal on *)
(* the live generation belongs to a drain that is under way and that       *)
(* maintenance waits for (account-drain.ts, authority-drain.ts), for any   *)
(* number of accounts, sessions and generations.                           *)
THEOREM SealsStayLifted == PartsSpec => []SealsAreLifted
<1>1. ASSUME DrainInv PROVE SealsAreLifted
  <2>1. ASSUME NEW d \in Drains, NEW a \in Accounts,
               fence[d][a] = "sealed", Draining!Generation(d) = meta.generation
        PROVE  meta.maintenance /\ Draining!OpenDrain(d)
    <3>3. Begun(d) /\ drain[d].state # "none"
      BY <1>1, <2>1, KnownDrain DEF Unheard, Begun
    <3>4. drain[d].state # "released"
      BY <1>1, <2>1, KnownDrain DEF Lifted
    <3>5. drain[d].state # "consumed"
      BY <1>1, <2>1, <3>3, KnownDrain DEF Dated
    <3>1. Begun(d) /\ drain[d].state \notin {"none", "consumed", "released"}
      BY <3>3, <3>4, <3>5
    <3>2. Draining!OpenDrain(d)
      BY <1>1, <3>1, KnownDrain DEF Draining!OpenDrain
    <3> QED
      BY <1>1, <2>1, <3>1, <3>2, KnownDrain DEF Dated
  <2> QED
    BY <1>1, <2>1 DEF SealsAreLifted, Draining!SealsAreLifted, DrainInv, DrainTypes
<1> QED
  BY <1>1, DrainInvariant, PTL

(* Nothing that a retired generation admitted is still at work or has a    *)
(* receipt to send (generation-activation.ts).                             *)
THEOREM RetiredStaysQuiet == PartsSpec => []RetiredIsQuiet
<1>1. DrainInv => RetiredIsQuiet
  BY DEF DrainInv, TaskInv, RetiredIsQuiet, Draining!RetiredIsQuiet
<1> QED
  BY <1>1, DrainInvariant, PTL

-----------------------------------------------------------------------------
(* The flows, as AutomationProofs has them.                                *)
FlowProofs == INSTANCE AutomationProofs WITH rev <- edition, sent <- requests

LEMMA SameNext == Flows!Next <=> FlowProofs!Next
BY DEF Flows!Lanes, Flows!Ended, Flows!Over, Flows!Idle, Flows!Current, Flows!Busy, Flows!Init,
       Flows!Drive, Flows!Cron, Flows!Opened, Flows!Due, Flows!Tick, Flows!Coalesce,
       Flows!Restore, Flows!Plan, Flows!SetLane, Flows!NextLane, Flows!Go, Flows!Follow,
       Flows!Lane, Flows!Guard, Flows!Insert, Flows!Unanswered, Flows!Submit, Flows!Admitted,
       Flows!NoticeState, Flows!Notify, Flows!Claim, Flows!Answer, Flows!States, Flows!Finish,
       Flows!Observe, Flows!TaskUnknown, Flows!TaskEnds, Flows!World, Flows!User, Flows!Crash,
       Flows!Turn, Flows!Awaited, Flows!Step, Flows!Next, Flows!vars, Flows!world,
       Flows!effects, FlowProofs!Lanes, FlowProofs!Ended, FlowProofs!Over, FlowProofs!Idle,
       FlowProofs!Current, FlowProofs!Busy, FlowProofs!Init, FlowProofs!Drive, FlowProofs!Cron,
       FlowProofs!Opened, FlowProofs!Due, FlowProofs!Tick, FlowProofs!Coalesce,
       FlowProofs!Restore, FlowProofs!Plan, FlowProofs!SetLane, FlowProofs!NextLane,
       FlowProofs!Go, FlowProofs!Follow, FlowProofs!Lane, FlowProofs!Guard, FlowProofs!Insert,
       FlowProofs!Unanswered, FlowProofs!Submit, FlowProofs!Admitted, FlowProofs!NoticeState,
       FlowProofs!Notify, FlowProofs!Claim, FlowProofs!Answer, FlowProofs!States,
       FlowProofs!Finish, FlowProofs!Observe, FlowProofs!TaskUnknown, FlowProofs!TaskEnds,
       FlowProofs!World, FlowProofs!User, FlowProofs!Crash, FlowProofs!Turn,
       FlowProofs!Awaited, FlowProofs!Step, FlowProofs!Next, FlowProofs!vars, FlowProofs!world,
       FlowProofs!effects

LEMMA SameInit == Flows!Init <=> FlowProofs!Init
BY DEF Flows!Init, FlowProofs!Init, Flows!Lanes, FlowProofs!Lanes, Flows!Idle, FlowProofs!Idle

LEMMA FlowStep == [PartsNext]_partVars => [FlowProofs!Next]_(FlowProofs!vars)
<1>1. UNCHANGED flowVars => UNCHANGED FlowProofs!vars
  BY DEF flowVars, FlowProofs!vars, FlowProofs!world, FlowProofs!effects
<1> QED
  BY <1>1, SameNext DEF PartsNext, NextLedger, NextProgram, NextDrain, NextFlows, NextRelease, partVars

(* What a newer window deployed is never replaced by the decision of an    *)
(* older one (automation-flow.ts), however many windows overlap.           *)
THEOREM FlowsNeverDowngrade == PartsSpec => NeverDowngrades
<1> DEFINE Forward == \A t \in Flows!Lanes : deployed'[t] >= deployed[t]
           ForwardProofs == \A t \in FlowProofs!Lanes : deployed'[t] >= deployed[t]
<1>1. PartsInit => FlowProofs!Init
  BY SameInit DEF PartsInit
<1>4. /\ Templates \in Seq(FlowProofs!Lanes) /\ Windows \subseteq Nat /\ Late \in Nat /\ Budget \in Nat
      /\ MaxRev \in Nat \ {0} /\ MaxVersion \in Nat \ {0} /\ MaxClock \in Nat \ {0} /\ MaxMoves \in Nat
  BY FlowsAssumption DEF Flows!Lanes, FlowProofs!Lanes
<1>2. FlowProofs!Spec => FlowProofs!NeverDowngrades
  BY <1>4, FlowProofs!NothingIsDowngraded, PTL
<1>3. [ForwardProofs]_(FlowProofs!vars) => [Forward]_(Flows!vars)
  BY DEF Flows!Lanes, FlowProofs!Lanes, Flows!vars, FlowProofs!vars, Flows!world, FlowProofs!world,
         Flows!effects, FlowProofs!effects
<1> QED
  BY <1>1, <1>2, <1>3, FlowStep, PTL DEF PartsSpec, FlowProofs!Spec, FlowProofs!NeverDowngrades,
                                         NeverDowngrades, Flows!NeverDowngrades

-----------------------------------------------------------------------------
(* The ledger of an account among the parts behaves as AccountQueue by      *)
(* itself: what AccountQueueProofs proves holds of the parts                *)
(* (account-queue.ts).                                                   *)
THEOREM PartsKeepQueue == PartsSpec => Spec
<1>1. PartsInit => Init
  BY DEF PartsInit
<1>2. [PartsNext]_partVars => [Next]_queueVars
  BY DEF PartsNext, NextLedger, NextProgram, NextDrain, NextFlows, NextRelease, partVars
<1> QED
  BY <1>1, <1>2, PTL DEF PartsSpec, Spec

-----------------------------------------------------------------------------
(* The release.                                                            *)


Controls == [script : {"legacy", "frozen", "pinned"}, cron : BOOLEAN]
States == {"unprepared", "prepared", "dispatched", "verified"}
Steps == {"idle", "begin", "sealed", "dispatch", "send", "readback", "started", "second", "import", "activated", "audit", "finish"}
Found == States \union 0..MaxWrites \union {None}
RunRecords == [phase : Move!Phase \union {None}, step : Steps, found : Found]
MoveTypes ==
  /\ Move!TypeOK
  /\ plan \in [Move!Mutations -> Controls \union {None}] /\ control \in Controls
  /\ auth \in [stage : Move!Stages, data : 0..MaxWrites \union {None}, open : BOOLEAN]
  /\ run \in [Runs -> RunRecords]
  /\ puts \in [Move!Requests -> Nat] /\ due \in 0..MaxWrites \union {None}

(* The request of a mutation was carried out.                              *)
Arrived(p) == puts[p] = 1 /\ p \notin wire
(* The controls before a mutation.                                         *)
Sealed == [freeze_worker |-> [script |-> "legacy", cron |-> TRUE], disable_cron |-> [script |-> "frozen", cron |-> TRUE],
           install_pin |-> [script |-> "frozen", cron |-> FALSE], restore_cron |-> [script |-> "pinned", cron |-> FALSE]]
Before(p) == \A q \in Move!Phase : Move!Place[q] < Move!Place[p] => journal[q] = "verified"

JournalInv(p) ==
  /\ journal[p] # "unprepared" => Before(p)
  /\ p \in Move!Mutations =>
       /\ plan[p] \in {None, Sealed[p]}
       /\ puts[p] <= 1 /\ (p \in wire => puts[p] = 1)
       /\ journal[p] \in {"unprepared", "prepared"} => puts[p] = 0
       /\ journal[p] = "verified" => Arrived(p)
ControlInv ==
  /\ control.script = IF Arrived("install_pin") THEN "pinned" ELSE IF Arrived("freeze_worker") THEN "frozen" ELSE "legacy"
  /\ control.cron = (Arrived("restore_cron") \/ ~Arrived("disable_cron"))
AuthorityInv ==
  /\ journal["initial_cutover"] = "verified" => auth.stage = "active"
  /\ journal["resume_authority"] = "verified" => auth.open
  /\ due # None => due <= kv
  /\ "open" \in wire \/ auth.open => due # None /\ auth.stage = "active" /\ auth.data # None /\ auth.data >= due
RunInv(x) ==
  /\ x.phase = None => x = Move!Rest
  /\ x.phase # None => Before(x.phase) /\ x.step # "idle"
  /\ x.step \in {"sealed", "dispatch", "send", "readback"} => x.phase \in Move!Mutations /\ plan[x.phase] # None
  /\ x.step \in {"started", "second", "import", "activated", "audit"} => x.phase \notin Move!Mutations
  /\ x.step = "send" => journal[x.phase] = "dispatched" /\ puts[x.phase] = 0
  /\ x.step = "second" \/ (x.step = "finish" /\ x.phase = "source_backup") => x.found \in 0..MaxWrites
  /\ x.step \in {"started", "audit", "finish"} /\ x.phase = "resume_authority" => due # None
  /\ x.step = "finish" =>
       /\ x.phase \in Move!Mutations => Arrived(x.phase)
       /\ x.phase = "initial_cutover" => auth.stage = "active"
       /\ x.phase = "resume_authority" => auth.open
OneSends == \A r, s \in Runs : run[r].step = "send" /\ run[s].step = "send" /\ run[r].phase = run[s].phase => r = s
MoveInv == /\ MoveTypes /\ \A p \in Move!Phase : JournalInv(p)
           /\ ControlInv /\ AuthorityInv /\ (\A r \in Runs : RunInv(run[r])) /\ OneSends

LEMMA Places ==
  /\ Move!Phase = {"preflight", "freeze_worker", "disable_cron", "legacy_drain", "source_backup", "source_package", "install_pin",
                   "initial_cutover", "maintenance_acceptance", "resume_authority", "restore_cron", "online_acceptance"}
  /\ Move!Place \in [Move!Phase -> Nat] /\ Move!Mutations \subseteq Move!Phase
  /\ Move!Place["freeze_worker"] < Move!Place["install_pin"] /\ Move!Place["disable_cron"] < Move!Place["restore_cron"]
BY DEF Move!Phase, Move!Place, Move!Mutations

LEMMA KnownMove ==
  ASSUME MoveInv
  PROVE  /\ journal \in [Move!Phase -> States] /\ plan \in [Move!Mutations -> Controls \union {None}]
         /\ control \in Controls /\ wire \subseteq Move!Requests
         /\ kv \in 0..MaxWrites /\ written \in 0..MaxWrites \union {None}
         /\ auth \in [stage : Move!Stages, data : 0..MaxWrites \union {None}, open : BOOLEAN]
         /\ run \in [Runs -> RunRecords] /\ puts \in [Move!Requests -> Nat]
         /\ due \in 0..MaxWrites \union {None} /\ None \notin Nat /\ None \notin Move!Phase /\ None \notin Controls
         /\ \A p \in Move!Phase : JournalInv(p)
         /\ \A r \in Runs : RunInv(run[r])
         /\ ControlInv /\ AuthorityInv /\ OneSends
BY NoneIsNoValue DEF MoveInv, MoveTypes, Move!TypeOK, States, Controls

(* What a run knows stays true: nothing that was achieved is undone.       *)
Onwards ==
  /\ \A p \in Move!Phase : journal[p] = "verified" => journal'[p] = "verified"
  /\ \A p \in Move!Mutations : (plan[p] # None => plan'[p] # None) /\ (Arrived(p) => Arrived(p)')
  /\ auth.stage = "active" => auth'.stage = "active"
  /\ auth.open => auth'.open
  /\ due # None => due' # None
SendsStay(r) == run[r].step = "send" => /\ journal'[run[r].phase] = "dispatched"
                                        /\ puts'[run[r].phase] = puts[run[r].phase]
LEMMA RunStays ==
  ASSUME MoveInv, Onwards, NEW r \in Runs, SendsStay(r), run'[r] = run[r]
  PROVE  RunInv(run[r])'
<1> PICK x \in RunRecords : x = run[r]
  BY KnownMove
<1>1. RunInv(x) /\ run'[r] = x /\ (x.phase = None \/ x.phase \in Move!Phase)
  BY KnownMove DEF RunRecords
<1>2. x.phase # None => Before(x.phase)'
  BY <1>1 DEF Before, Onwards, RunInv
<1>3. x.step = "send" => journal'[x.phase] = "dispatched" /\ puts'[x.phase] = 0
  BY <1>1 DEF SendsStay, RunInv
<1>4. x.phase \in Move!Mutations => (plan[x.phase] # None => plan'[x.phase] # None) /\ (Arrived(x.phase) => Arrived(x.phase)')
  BY DEF Onwards
<1>5. RunInv(x)'
  BY <1>1, <1>2, <1>3, <1>4 DEF RunInv, Onwards
<1> QED
  BY <1>1, <1>5

LEMMA RunsStay ==
  ASSUME MoveInv, Onwards, \A r \in Runs : (run'[r] = run[r] /\ SendsStay(r)) \/ RunInv(run[r])'
  PROVE  \A r \in Runs : RunInv(run[r])'
BY RunStays


LEMMA DoesLemma ==
  ASSUME MoveInv, NEW r \in Runs, NEW step \in Steps, NEW found \in Found, Move!Does(r, step, found)
  PROVE  \E x \in RunRecords : /\ run' = [run EXCEPT ![r] = x]
                               /\ x.phase = run[r].phase /\ x.step = step /\ x.found = found
<1>1. run \in [Runs -> RunRecords] /\ run[r] \in RunRecords
  BY KnownMove
<1> DEFINE one == [run EXCEPT ![r].step = step]
           x == [[run[r] EXCEPT !.step = step] EXCEPT !.found = found]
<1>2. x \in RunRecords /\ x.phase = run[r].phase /\ x.step = step /\ x.found = found
  BY <1>1 DEF RunRecords
<1>3. run' = [one EXCEPT ![r].found = found] /\ one = [run EXCEPT ![r] = [run[r] EXCEPT !.step = step]]
  BY DEF Move!Does
<1>4. [one EXCEPT ![r].found = found] = [run EXCEPT ![r] = x]
  BY <1>1
<1> QED
  BY <1>2, <1>3, <1>4

(* A run looks at something and goes on; nothing else changes.             *)
Still == UNCHANGED <<journal, plan, wire, control, written, auth, puts, due>> /\ kv' = kv
LEMMA RunMoves ==
  ASSUME MoveInv, Still, NEW r \in Runs, NEW x \in RunRecords, run' = [run EXCEPT ![r] = x],
         RunInv(x), x.step # "send"
  PROVE  MoveInv'
<1>1. Onwards /\ \A s \in Runs : SendsStay(s)
  BY KnownMove DEF Onwards, SendsStay, Still, Arrived, OneSends, RunInv
<1>2. RunInv(x)'
  BY DEF RunInv, Still, Before, Arrived
<1>3. \A s \in Runs : RunInv(run[s])'
  <2>1. ASSUME NEW s \in Runs PROVE (run'[s] = run[s] /\ SendsStay(s)) \/ RunInv(run[s])'
    BY <1>1, <1>2, KnownMove
  <2> QED
    BY <2>1, <1>1, RunsStay
<1>4. MoveTypes'
  BY KnownMove DEF MoveInv, MoveTypes, Move!TypeOK, Still
<1>5. (\A p \in Move!Phase : JournalInv(p)') /\ ControlInv' /\ AuthorityInv'
  BY KnownMove DEF JournalInv, ControlInv, AuthorityInv, Still, Before, Arrived
<1>6. OneSends'
  BY KnownMove DEF OneSends
<1> QED
  BY <1>3, <1>4, <1>5, <1>6 DEF MoveInv

LEMMA AtLemma ==
  ASSUME MoveInv, NEW r \in Runs, NEW p \in Move!Phase, NEW step \in Steps, Move!At(r, p, step)
  PROVE  run[r] \in RunRecords /\ run[r].phase = p /\ run[r].step = step /\ p # None /\ RunInv(run[r])
BY KnownMove DEF Move!At

LEMMA EnterStep ==
  ASSUME MoveInv, NEW r \in Runs, NEW p \in Move!Phase, Move!Enter(r, p)
  PROVE  MoveInv'
<1> DEFINE x == [phase |-> p, step |-> "begin", found |-> journal[p]]
<1>1. x \in RunRecords /\ run' = [run EXCEPT ![r] = x] /\ x.step # "send" /\ Still
  BY KnownMove DEF Move!Enter, RunRecords, Steps, Found, Still, Move!world, Move!history
<1>2. Before(p)
  BY DEF Move!Enter, Move!Current, Before
<1>3. RunInv(x)
  BY <1>2, NoneIsNoValue DEF RunInv
<1> QED
  BY <1>1, <1>3, RunMoves

LEMMA StopStep ==
  ASSUME MoveInv, NEW r \in Runs, Move!Stop(r)
  PROVE  MoveInv'
<1>1. Move!Rest \in RunRecords /\ RunInv(Move!Rest) /\ Move!Rest.step # "send"
  BY DEF RunRecords, Move!Rest, RunInv, Steps, Found, Move!Phase, Move!Mutations
<1> QED
  BY <1>1, RunMoves DEF Move!Stop, Move!Stops, Still, Move!world, Move!history

(* The steps that look at the provider, the old store or the authority.    *)
LEMMA LookStep ==
  ASSUME MoveInv, NEW r \in Runs, NEW p \in Move!Phase, NEW step \in Steps, Move!At(r, p, step),
         NEW next \in Steps, NEW found \in Found, Move!Does(r, next, found), Still,
         next # "send", next # "idle",
         next \in {"sealed", "dispatch", "readback"} => p \in Move!Mutations /\ plan[p] # None,
         next \in {"started", "second", "import", "activated", "audit"} => p \notin Move!Mutations,
         next = "second" \/ (next = "finish" /\ p = "source_backup") => found \in 0..MaxWrites,
         next \in {"started", "audit", "finish"} /\ p = "resume_authority" => due # None,
         next = "finish" => /\ p \in Move!Mutations => Arrived(p)
                            /\ p = "initial_cutover" => auth.stage = "active"
                            /\ p = "resume_authority" => auth.open
  PROVE  MoveInv'
<1>1. PICK x \in RunRecords : /\ run' = [run EXCEPT ![r] = x]
                              /\ x.phase = run[r].phase /\ x.step = next /\ x.found = found
  BY DoesLemma
<1>2. x.phase = p /\ p # None /\ Before(p)
  BY <1>1, AtLemma DEF RunInv
<1>3. RunInv(x)
  BY <1>1, <1>2 DEF RunInv
<1> QED
  BY <1>1, <1>3, RunMoves

LEMMA LooksStep ==
  ASSUME MoveInv, NEW r \in Runs,
         Move!Verify(r) \/ Move!Backup(r) \/ Move!BackupAgain(r) \/ Move!Cutover(r) \/ Move!Activated(r) \/ Move!Audit(r)
  PROVE  MoveInv'
<1> USE DEF Still, Move!world, Move!history
<1>1. /\ {"finish", "second", "import", "activated", "started", "audit"} \subseteq Steps
      /\ None \in Found /\ kv \in 0..MaxWrites /\ 0..MaxWrites \subseteq Found
  BY KnownMove DEF Steps, Found
<1>2. /\ {"preflight", "legacy_drain", "source_backup", "source_package", "initial_cutover", "maintenance_acceptance",
          "resume_authority", "online_acceptance"} \subseteq Move!Phase \ Move!Mutations
  BY Places DEF Move!Mutations
<1>3. ASSUME NEW p \in {"preflight", "legacy_drain", "source_package", "maintenance_acceptance", "online_acceptance"},
             Move!Looks(r, p, "finish")
      PROVE  MoveInv'
  BY <1>1, <1>2, <1>3, LookStep DEF Move!Looks
<1>4. CASE Move!Verify(r)
  BY <1>3, <1>4 DEF Move!Verify
<1>5. CASE Move!Backup(r)
  <2>1. Move!At(r, "source_backup", "started") /\ Move!Does(r, "second", kv) /\ Still
    BY <1>5 DEF Move!Backup
  <2> QED
    BY <1>1, <1>2, <2>1, LookStep
<1>6. CASE Move!BackupAgain(r)
  <2>1. Move!At(r, "source_backup", "second") /\ Move!Does(r, "finish", kv) /\ Still
    BY <1>6 DEF Move!BackupAgain
  <2> QED
    BY <1>1, <1>2, <2>1, LookStep
<1>7. CASE Move!Cutover(r)
  <2>1. PICK next \in {"activated", "import"} : Move!Does(r, next, None)
    BY <1>7 DEF Move!Cutover
  <2>2. Move!At(r, "initial_cutover", "started") /\ Still
    BY <1>7 DEF Move!Cutover
  <2> QED
    BY <1>1, <1>2, <2>1, <2>2, LookStep
<1>8. CASE Move!Activated(r)
  <2>1. Move!At(r, "initial_cutover", "activated") /\ auth.stage = "active" /\ Move!Does(r, "finish", None) /\ Still
    BY <1>8 DEF Move!Activated
  <2> QED
    BY <1>1, <1>2, <2>1, LookStep
<1>9. CASE Move!Audit(r)
  <2>1. Move!At(r, "resume_authority", "audit") /\ auth.open /\ Move!Does(r, "finish", None) /\ Still
    BY <1>9 DEF Move!Audit
  <2>2. RunInv(run[r]) /\ run[r].step = "audit" /\ run[r].phase = "resume_authority"
    BY <1>1, <1>2, <2>1, AtLemma
  <2>3. due # None
    BY <2>2 DEF RunInv
  <2> QED
    BY <1>1, <1>2, <2>1, <2>3, LookStep
<1> QED
  BY <1>4, <1>5, <1>6, <1>7, <1>8, <1>9

(* A read-back that fits was made after the request was carried out.       *)
LEMMA CheckStep ==
  ASSUME MoveInv, NEW r \in Runs, NEW p \in Move!Phase, Move!Check(r, p)
  PROVE  MoveInv'
<1>1. p \in Move!Mutations /\ plan[p] = Sealed[p] /\ Before(p) /\ Move!At(r, p, "readback")
  <2>1. Move!At(r, p, "readback") /\ "readback" \in Steps
    BY DEF Move!Check, Steps
  <2>2. RunInv(run[r]) /\ run[r].step = "readback" /\ run[r].phase = p /\ p # None
    BY <2>1, AtLemma
  <2>3. p \in Move!Mutations /\ plan[p] # None /\ Before(p)
    BY <2>2 DEF RunInv
  <2>4. plan[p] \in {None, Sealed[p]}
    BY <2>3, KnownMove DEF JournalInv
  <2> QED
    BY <2>1, <2>3, <2>4
<1>2. control = Move!Applied(p, Sealed[p])
  BY <1>1 DEF Move!Check, Move!ReadBack
<1>3. Arrived(p)
  <2>1. CASE p = "freeze_worker"
    BY <1>2, <2>1, KnownMove DEF Move!Applied, Sealed, ControlInv
  <2>2. CASE p = "install_pin"
    BY <1>2, <2>2, KnownMove DEF Move!Applied, Sealed, ControlInv
  <2>3. CASE p = "disable_cron"
    BY <1>2, <2>3, KnownMove DEF Move!Applied, Sealed, ControlInv
  <2>4. CASE p = "restore_cron"
    <3>1. Arrived("disable_cron")
      BY <1>1, <2>4, Places, KnownMove DEF Before, JournalInv, Move!Mutations
    <3> QED
      BY <1>2, <2>4, <3>1, KnownMove DEF Move!Applied, Sealed, ControlInv
  <2> QED
    BY <1>1, <2>1, <2>2, <2>3, <2>4 DEF Move!Mutations
<1> QED
  BY <1>1, <1>3, LookStep DEF Move!Check, Still, Move!world, Move!history, Steps, Found,
     Move!Mutations

LEMMA WorldStep ==
  ASSUME MoveInv, Move!LegacyWorks \/ Move!PinExpires
  PROVE  MoveInv'
<1> USE DEF Move!LegacyWorks, Move!PinExpires, Move!history
<1>1. UNCHANGED <<journal, plan, control, wire, written, auth, run, puts, due>> /\ kv' \in 0..MaxWrites /\ kv <= kv'
  BY KnownMove, WritesAssumption
<1>2. \A r \in Runs : RunInv(run[r])'
  BY <1>1, RunsStay, KnownMove DEF Onwards, Arrived, SendsStay, RunInv
<1> HIDE DEF Move!LegacyWorks, Move!PinExpires
<1>3. MoveTypes'
  BY <1>1, KnownMove DEF MoveInv, MoveTypes, Move!TypeOK
<1>4. (\A p \in Move!Phase : JournalInv(p)') /\ ControlInv'
  BY <1>1, KnownMove DEF JournalInv, ControlInv, Before, Arrived
<1>5. AuthorityInv'
  BY <1>1, KnownMove DEF AuthorityInv
<1>6. OneSends'
  BY <1>1, KnownMove DEF OneSends
<1> QED
  BY <1>2, <1>3, <1>4, <1>5, <1>6 DEF MoveInv

(* A request that was sent had all that comes before it verified.          *)
LEMMA SentInOrder ==
  ASSUME MoveInv, NEW p \in Move!Mutations, puts[p] # 0
  PROVE  Before(p) /\ journal[p] \in {"dispatched", "verified"}
BY KnownMove, Places DEF JournalInv, States

LEMMA ProviderStep ==
  ASSUME MoveInv, NEW p \in Move!Mutations, Move!Provider(p)
  PROVE  MoveInv'
<1> USE DEF Move!Provider, Move!history
<1>1. puts[p] = 1 /\ puts[p] \in Nat
  BY KnownMove, Places DEF JournalInv, Move!Requests
<1>2. Onwards /\ \A r \in Runs : SendsStay(r)
  BY KnownMove DEF Onwards, SendsStay, Arrived, RunInv
<1>3. \A r \in Runs : RunInv(run[r])'
  BY <1>2, RunsStay
<1>4. MoveTypes'
  <2>1. control' \in Controls
    BY KnownMove DEF Move!Applied, Controls
  <2> QED
    BY <2>1, KnownMove DEF MoveInv, MoveTypes, Move!TypeOK
<1>5. \A q \in Move!Phase : JournalInv(q)'
  BY KnownMove DEF JournalInv, Before, Arrived
<1>6. AuthorityInv'
  BY KnownMove DEF AuthorityInv, Move!Mutations
<1>7. ControlInv'
  <2>0. \A q \in Move!Mutations : Arrived(q)' <=> Arrived(q) \/ q = p
    BY <1>1 DEF Arrived
  <2>1. CASE p = "freeze_worker"
    <3>1. puts["install_pin"] = 0
      BY <2>1, SentInOrder, KnownMove, Places DEF Before, JournalInv, Arrived, Move!Mutations
    <3> QED
      BY <2>0, <2>1, <3>1, KnownMove DEF ControlInv, Move!Applied, Move!Mutations, Arrived, Controls
  <2>2. CASE p = "disable_cron"
    <3>1. puts["restore_cron"] = 0
      BY <2>2, SentInOrder, KnownMove, Places DEF Before, JournalInv, Arrived, Move!Mutations
    <3> QED
      BY <2>0, <2>2, <3>1, KnownMove DEF ControlInv, Move!Applied, Move!Mutations, Arrived, Controls
  <2>3. CASE p = "install_pin"
    BY <2>0, <2>3, KnownMove DEF ControlInv, Move!Applied, Move!Mutations, Controls
  <2>4. CASE p = "restore_cron"
    BY <2>0, <2>4, KnownMove DEF ControlInv, Move!Applied, Move!Mutations, Controls
  <2> QED
    BY <2>1, <2>2, <2>3, <2>4 DEF Move!Mutations
<1>8. OneSends'
  BY KnownMove DEF OneSends
<1> QED
  BY <1>3, <1>4, <1>5, <1>6, <1>7, <1>8 DEF MoveInv

(* The steps of the authority.                                             *)
LEMMA AuthStep ==
  ASSUME MoveInv, Move!Activate \/ Move!OpenAuthority \/ \E r \in Runs : Move!Import(r)
  PROVE  MoveInv'
<1>1. /\ auth' \in [stage : Move!Stages, data : 0..MaxWrites \union {None}, open : BOOLEAN]
      /\ auth.stage = "active" => auth'.stage = "active" /\ auth'.data = auth.data
      /\ auth.open => auth'.open
      /\ auth'.open => auth.open \/ ("open" \in wire /\ auth.stage = "active")
  <2>1. CASE Move!Activate
    BY <2>1, KnownMove DEF Move!Activate, Move!Fillable, Move!Stages
  <2>2. CASE Move!OpenAuthority
    BY <2>2, KnownMove DEF Move!OpenAuthority
  <2>3. CASE \E r \in Runs : Move!Import(r)
    BY <2>3, KnownMove DEF Move!Import, Move!Fillable, Move!Stages, Move!NextStage
  <2> QED
    BY <2>1, <2>2, <2>3
<1>2. UNCHANGED <<journal, plan, control, kv, written, run, puts, due>> /\ wire' \subseteq wire /\ wire \ wire' \subseteq {"activate", "open"}
  BY DEF Move!Activate, Move!OpenAuthority, Move!Import, Move!world, Move!history
<1>3. Onwards /\ \A s \in Runs : SendsStay(s)
  BY <1>1, <1>2, KnownMove DEF Onwards, SendsStay, Arrived, RunInv
<1>4. \A s \in Runs : RunInv(run[s])'
  BY <1>2, <1>3, RunsStay
<1>5. MoveTypes'
  BY <1>1, <1>2, KnownMove DEF MoveInv, MoveTypes, Move!TypeOK
<1>6. \A q \in Move!Mutations : q \in wire' <=> q \in wire
  BY <1>2 DEF Move!Mutations
<1>7. (\A q \in Move!Phase : JournalInv(q)') /\ ControlInv'
  BY <1>2, <1>6, KnownMove DEF JournalInv, ControlInv, Before, Arrived, Move!Mutations
<1>8. AuthorityInv'
  BY <1>1, <1>2, KnownMove DEF AuthorityInv
<1>9. OneSends'
  BY <1>2, KnownMove DEF OneSends
<1> QED
  BY <1>4, <1>5, <1>7, <1>8, <1>9 DEF MoveInv

(* A run takes a step, and the rest goes onwards.                          *)
LEMMA RunsGoOn ==
  ASSUME MoveInv, Onwards, \A s \in Runs : SendsStay(s),
         NEW r \in Runs, NEW x \in RunRecords, run' = [run EXCEPT ![r] = x], RunInv(x)'
  PROVE  (\A s \in Runs : RunInv(run[s])') /\ run' \in [Runs -> RunRecords] /\ run'[r] = x
<1>1. run' \in [Runs -> RunRecords] /\ run'[r] = x
  BY KnownMove
<1>2. ASSUME NEW s \in Runs PROVE (run'[s] = run[s] /\ SendsStay(s)) \/ RunInv(run[s])'
  BY <1>1, KnownMove
<1> QED
  BY <1>1, <1>2, RunsStay

LEMMA SealedControls ==
  /\ Sealed["freeze_worker"] = [script |-> "legacy", cron |-> TRUE] /\ Sealed["disable_cron"] = [script |-> "frozen", cron |-> TRUE]
  /\ Sealed["install_pin"] = [script |-> "frozen", cron |-> FALSE] /\ Sealed["restore_cron"] = [script |-> "pinned", cron |-> FALSE]
  /\ \A q \in Move!Mutations : Sealed[q] # None
<1>1. \A script \in {"legacy", "frozen", "pinned"}, cron \in BOOLEAN : [script |-> script, cron |-> cron] # None
  BY NoneIsNoValue
<1>2. /\ Sealed["freeze_worker"] = [script |-> "legacy", cron |-> TRUE] /\ Sealed["disable_cron"] = [script |-> "frozen", cron |-> TRUE]
      /\ Sealed["install_pin"] = [script |-> "frozen", cron |-> FALSE] /\ Sealed["restore_cron"] = [script |-> "pinned", cron |-> FALSE]
  BY DEF Sealed
<1>3. ASSUME NEW q \in Move!Mutations PROVE Sealed[q] # None
  <2>1. CASE q = "freeze_worker"
    BY <1>1, <1>2, <2>1
  <2>2. CASE q = "disable_cron"
    BY <1>1, <1>2, <2>2
  <2>3. CASE q = "install_pin"
    BY <1>1, <1>2, <2>3
  <2>4. CASE q = "restore_cron"
    BY <1>1, <1>2, <2>4
  <2> QED
    BY <2>1, <2>2, <2>3, <2>4 DEF Move!Mutations
<1> QED
  BY <1>2, <1>3

LEMMA SealStep ==
  ASSUME MoveInv, NEW r \in Runs, NEW p \in Move!Phase, Move!Seal(r, p)
  PROVE  MoveInv'
<1> USE DEF Move!world, Move!history
<1>1. p \in Move!Mutations /\ Move!At(r, p, "begin")
  BY DEF Move!Seal
<1>2. plan' \in [Move!Mutations -> Controls \union {None}] /\ plan'[p] = Sealed[p] /\ \A q \in Move!Mutations \ {p} : plan'[q] = plan[q]
  <2>1. CASE plan[p] # None
    BY <1>1, <2>1, KnownMove, Places DEF Move!Seal, JournalInv
  <2>2. CASE plan[p] = None
    <3>0. Move!Ready(p) /\ plan' = [plan EXCEPT ![p] = control]
      BY <2>2 DEF Move!Seal
    <3>1. control = Sealed[p]
      BY <1>1, <3>0, SealedControls DEF Move!Ready, Move!Mutations
    <3> QED
      BY <1>1, <3>0, <3>1, KnownMove
  <2> QED
    BY <2>1, <2>2
<1>3. Sealed[p] # None /\ \A q \in Move!Mutations : plan[q] \in {None, Sealed[q]}
  BY <1>1, SealedControls, KnownMove, Places DEF JournalInv
<1>4. UNCHANGED <<journal, wire, control, kv, written, auth, puts, due>>
  BY DEF Move!Seal
<1>5. Onwards /\ \A s \in Runs : SendsStay(s)
  BY <1>2, <1>3, <1>4, KnownMove DEF Onwards, SendsStay, Arrived, RunInv
<1>6. PICK x \in RunRecords : run' = [run EXCEPT ![r] = x] /\ x.phase = p /\ x.step = "sealed" /\ x.found = None
  BY <1>1, DoesLemma, AtLemma DEF Move!Seal, Steps, Found
<1>7. Before(p)
  BY <1>1, AtLemma DEF RunInv, Steps
<1>8. RunInv(x)'
  BY <1>1, <1>2, <1>3, <1>4, <1>6, <1>7, NoneIsNoValue DEF RunInv, Before
<1>9. (\A s \in Runs : RunInv(run[s])') /\ run' \in [Runs -> RunRecords] /\ run'[r] = x
  BY <1>5, <1>6, <1>8, RunsGoOn
<1>10. MoveTypes'
  BY <1>2, <1>4, <1>9, KnownMove DEF MoveInv, MoveTypes, Move!TypeOK
<1>11. (\A q \in Move!Phase : JournalInv(q)') /\ ControlInv' /\ AuthorityInv'
  BY <1>1, <1>2, <1>3, <1>4, KnownMove DEF JournalInv, ControlInv, AuthorityInv, Before, Arrived
<1>12. OneSends'
  BY <1>6, KnownMove DEF OneSends
<1> QED
  BY <1>9, <1>10, <1>11, <1>12 DEF MoveInv

(* A step of the journal: one phase goes from one state to another.        *)
LEMMA JournalStep ==
  ASSUME MoveInv, NEW p \in Move!Phase, NEW state \in States,
         journal' = [journal EXCEPT ![p] = state],
         journal[p] # "verified", Before(p),
         state \in {"unprepared", "prepared"} => journal[p] \in {"unprepared", "prepared"},
         state = "verified" /\ p \in Move!Mutations => Arrived(p),
         plan' = plan, puts' = puts, wire' = wire
  PROVE  (\A q \in Move!Phase : JournalInv(q)') /\ \A q \in Move!Phase : journal[q] = "verified" => journal'[q] = "verified"
<1>1. \A q \in Move!Phase : journal'[q] = IF q = p THEN state ELSE journal[q]
  BY KnownMove
<1>2. \A q \in Move!Phase : journal[q] = "verified" => journal'[q] = "verified"
  BY <1>1
<1>3. \A q \in Move!Phase : Before(q) => Before(q)'
  BY <1>2 DEF Before
<1> QED
  BY <1>1, <1>2, <1>3, KnownMove DEF JournalInv, Arrived

LEMMA PrepareStep ==
  ASSUME MoveInv, NEW r \in Runs, NEW p \in Move!Phase, Move!Prepare(r, p)
  PROVE  MoveInv'
<1> USE DEF Move!world, Move!history
<1>1. Move!At(r, p, "sealed") /\ p \in Move!Mutations /\ plan[p] # None /\ Before(p)
  BY AtLemma DEF Move!Prepare, RunInv, Steps
<1>2. CASE journal[p] # "unprepared"
  <2>1. journal' = journal
    BY <1>2 DEF Move!Prepare
  <2> QED
    BY <1>1, <2>1, LookStep DEF Move!Prepare, Still, Steps, Found
<1>3. CASE journal[p] = "unprepared"
  <2>1. journal' = [journal EXCEPT ![p] = "prepared"] /\ journal'[p] = "prepared"
    BY <1>3, KnownMove DEF Move!Prepare
  <2>2. UNCHANGED <<plan, wire, control, kv, written, auth, puts, due>> /\ Move!Does(r, "dispatch", None)
    BY <2>1 DEF Move!Prepare
  <2>3. (\A q \in Move!Phase : JournalInv(q)') /\ \A q \in Move!Phase : journal[q] = "verified" => journal'[q] = "verified"
    BY <1>1, <1>3, <2>1, <2>2, JournalStep DEF States
  <2>4. Onwards /\ \A s \in Runs : SendsStay(s)
    BY <1>3, <2>1, <2>2, <2>3, KnownMove DEF Onwards, SendsStay, Arrived, RunInv
  <2>5. PICK x \in RunRecords : run' = [run EXCEPT ![r] = x] /\ x.phase = p /\ x.step = "dispatch" /\ x.found = None
    BY <1>1, <2>2, DoesLemma, AtLemma DEF Steps, Found
  <2>6. RunInv(x)'
    BY <1>1, <2>2, <2>3, <2>5, NoneIsNoValue DEF RunInv, Before
  <2>7. (\A s \in Runs : RunInv(run[s])') /\ run' \in [Runs -> RunRecords] /\ run'[r] = x
    BY <2>4, <2>5, <2>6, RunsGoOn
  <2>8. MoveTypes'
    BY <2>1, <2>2, <2>7, KnownMove DEF MoveInv, MoveTypes, Move!TypeOK, States
  <2>9. ControlInv' /\ AuthorityInv'
    BY <1>1, <2>1, <2>2, KnownMove, Places DEF ControlInv, AuthorityInv, Arrived, Move!Mutations
  <2>10. OneSends'
    BY <2>5, KnownMove DEF OneSends
  <2> QED
    BY <2>3, <2>7, <2>8, <2>9, <2>10 DEF MoveInv
<1> QED
  BY <1>2, <1>3

LEMMA DispatchStep ==
  ASSUME MoveInv, NEW r \in Runs, NEW p \in Move!Phase, Move!Dispatch(r, p)
  PROVE  MoveInv'
<1> USE DEF Move!world, Move!history
<1>1. Move!At(r, p, "dispatch") /\ p \in Move!Mutations /\ plan[p] # None /\ Before(p) /\ journal[p] = "prepared" /\ puts[p] = 0
  <2>1. Move!At(r, p, "dispatch") /\ "dispatch" \in Steps /\ journal[p] = "prepared"
    BY DEF Move!Dispatch, Move!Dispatched, Steps
  <2>2. RunInv(run[r]) /\ run[r].step = "dispatch" /\ run[r].phase = p /\ p # None
    BY <2>1, AtLemma
  <2>3. p \in Move!Mutations /\ plan[p] # None /\ Before(p)
    BY <2>2 DEF RunInv
  <2>4. puts[p] = 0
    BY <2>1, <2>3, KnownMove DEF JournalInv
  <2> QED
    BY <2>1, <2>3, <2>4
<1>2. journal' = [journal EXCEPT ![p] = "dispatched"] /\ journal'[p] = "dispatched"
  BY KnownMove DEF Move!Dispatch, Move!Dispatched
<1>3. UNCHANGED <<plan, wire, control, kv, written, auth, puts, due>> /\ Move!Does(r, "send", None)
  BY DEF Move!Dispatch
<1>4. (\A q \in Move!Phase : JournalInv(q)') /\ \A q \in Move!Phase : journal[q] = "verified" => journal'[q] = "verified"
  BY <1>1, <1>2, <1>3, JournalStep DEF States
<1>5. Onwards /\ \A s \in Runs : SendsStay(s)
  BY <1>1, <1>2, <1>3, <1>4, KnownMove DEF Onwards, SendsStay, Arrived, RunInv
<1>6. PICK x \in RunRecords : run' = [run EXCEPT ![r] = x] /\ x.phase = p /\ x.step = "send" /\ x.found = None
  BY <1>1, <1>3, DoesLemma, AtLemma DEF Steps, Found
<1>7. RunInv(x)'
  BY <1>1, <1>2, <1>3, <1>4, <1>6, NoneIsNoValue DEF RunInv, Before
<1>8. (\A s \in Runs : RunInv(run[s])') /\ run' \in [Runs -> RunRecords] /\ run'[r] = x
  BY <1>5, <1>6, <1>7, RunsGoOn
<1>9. MoveTypes'
  BY <1>2, <1>3, <1>8, KnownMove DEF MoveInv, MoveTypes, Move!TypeOK, States
<1>10. ControlInv' /\ AuthorityInv'
  BY <1>1, <1>2, <1>3, KnownMove, Places DEF ControlInv, AuthorityInv, Arrived, Move!Mutations
<1>11. OneSends'
  <2>1. ASSUME NEW s \in Runs \ {r} PROVE ~(run[s].step = "send" /\ run[s].phase = p)
    BY <1>1, KnownMove DEF RunInv
  <2> QED
    BY <1>6, <2>1, KnownMove DEF OneSends
<1> QED
  BY <1>4, <1>8, <1>9, <1>10, <1>11 DEF MoveInv

LEMMA PutStep ==
  ASSUME MoveInv, NEW r \in Runs, NEW p \in Move!Phase, Move!Put(r, p)
  PROVE  MoveInv'
<1> USE DEF Move!world
<1>1. Move!At(r, p, "send") /\ p \in Move!Mutations /\ plan[p] # None /\ Before(p) /\ journal[p] = "dispatched" /\ puts[p] = 0 /\ p \notin wire
  <2>1. Move!At(r, p, "send") /\ "send" \in Steps
    BY DEF Move!Put, Steps
  <2>2. RunInv(run[r]) /\ run[r].step = "send" /\ run[r].phase = p /\ p # None
    BY <2>1, AtLemma
  <2>3. p \in Move!Mutations /\ plan[p] # None /\ Before(p) /\ journal[p] = "dispatched" /\ puts[p] = 0
    BY <2>2 DEF RunInv
  <2>4. p \notin wire
    BY <2>3, KnownMove DEF JournalInv
  <2> QED
    BY <2>1, <2>3, <2>4
<1>2. UNCHANGED <<journal, plan, control, kv, written, auth, due>> /\ Move!Does(r, "readback", None)
  BY DEF Move!Put
<1>3. /\ wire' = wire \union {p} /\ puts' \in [Move!Requests -> Nat] /\ wire' \subseteq Move!Requests
      /\ \A q \in Move!Requests : puts'[q] = IF q = p THEN 1 ELSE puts[q]
  BY <1>1, KnownMove DEF Move!Put, Move!Sends, Move!Requests
<1>4. \A q \in Move!Mutations : Arrived(q)' <=> Arrived(q)
  BY <1>1, <1>3 DEF Arrived, Move!Requests
<1>5. Onwards
  BY <1>2, <1>4 DEF Onwards
<1>6. ASSUME NEW s \in Runs \ {r} PROVE SendsStay(s)
  <2>1. ~(run[s].step = "send" /\ run[s].phase = p)
    BY <1>1, KnownMove DEF OneSends, Move!At
  <2>2. run[s].step = "send" => run[s].phase \in Move!Requests /\ journal[run[s].phase] = "dispatched"
    BY KnownMove DEF RunInv, Move!Requests
  <2> QED
    BY <1>2, <1>3, <2>1, <2>2 DEF SendsStay
<1>7. PICK x \in RunRecords : run' = [run EXCEPT ![r] = x] /\ x.phase = p /\ x.step = "readback" /\ x.found = None
  BY <1>1, <1>2, DoesLemma, AtLemma DEF Steps, Found
<1>8. RunInv(x)'
  BY <1>1, <1>2, <1>7, NoneIsNoValue DEF RunInv, Before
<1>9. \A s \in Runs : RunInv(run[s])'
  <2>1. ASSUME NEW s \in Runs PROVE (run'[s] = run[s] /\ SendsStay(s)) \/ RunInv(run[s])'
    BY <1>6, <1>7, <1>8, KnownMove
  <2> QED
    BY <2>1, <1>5, RunsStay
<1>10. MoveTypes'
  BY <1>2, <1>3, <1>7, KnownMove DEF MoveInv, MoveTypes, Move!TypeOK
<1>11. \A q \in Move!Phase : JournalInv(q)'
  BY <1>1, <1>2, <1>3, <1>4, KnownMove DEF JournalInv, Before, Move!Requests
<1>12. ControlInv' /\ AuthorityInv'
  BY <1>1, <1>2, <1>3, <1>4, KnownMove DEF ControlInv, AuthorityInv, Move!Mutations
<1>13. OneSends'
  BY <1>7, KnownMove DEF OneSends
<1> QED
  BY <1>9, <1>10, <1>11, <1>12, <1>13 DEF MoveInv

LEMMA StartStep ==
  ASSUME MoveInv, NEW r \in Runs, NEW p \in Move!Phase, Move!Start(r, p)
  PROVE  MoveInv'
<1> USE DEF Move!world
<1>1. Move!At(r, p, "begin") /\ p \notin Move!Mutations /\ Before(p)
  BY AtLemma DEF Move!Start, RunInv, Steps
<1>2. UNCHANGED <<plan, control, wire, kv, written, auth, puts>> /\ Move!Does(r, "started", run[r].found)
  BY DEF Move!Start
<1>3. (\A q \in Move!Phase : JournalInv(q)') /\ (\A q \in Move!Phase : journal[q] = "verified" => journal'[q] = "verified")
      /\ journal' \in [Move!Phase -> States] /\ \A q \in Move!Phase \ {p} : journal'[q] = journal[q]
  <2>1. CASE Move!Current(p)
    <3>1. journal' = [journal EXCEPT ![p] = "dispatched"] /\ journal[p] # "verified"
      BY <2>1 DEF Move!Start, Move!Current
    <3> QED
      BY <1>1, <1>2, <3>1, JournalStep, KnownMove DEF States
  <2>2. CASE ~Move!Current(p)
    BY <1>2, <2>2, KnownMove DEF Move!Start, JournalInv, Before, Arrived
  <2> QED
    BY <2>1, <2>2
<1>4. /\ due' \in 0..MaxWrites \union {None} /\ (due # None => due' = due) /\ (p = "resume_authority" => due' # None)
      /\ due' # None => due' = due \/ due' = kv
  BY KnownMove DEF Move!Start
<1>5. Onwards /\ \A s \in Runs : SendsStay(s)
  <2>1. ASSUME NEW s \in Runs,
               run[s].step = "send" PROVE run[s].phase \in Move!Phase \ {p} /\ journal[run[s].phase] = "dispatched"
    <3>1. RunInv(run[s])
      BY <2>1, KnownMove
    <3>2. run[s].phase \in Move!Mutations /\ journal[run[s].phase] = "dispatched"
      BY <2>1, <3>1 DEF RunInv
    <3> QED
      BY <1>1, <3>2, Places
  <2>2. \A s \in Runs : SendsStay(s)
    BY <1>2, <1>3, <2>1 DEF SendsStay
  <2>3. Onwards
    BY <1>2, <1>3, <1>4 DEF Onwards, Arrived
  <2> QED
    BY <2>2, <2>3
<1>6. PICK x \in RunRecords : run' = [run EXCEPT ![r] = x] /\ x.phase = p /\ x.step = "started"
  BY <1>1, <1>2, DoesLemma, AtLemma DEF Steps, RunRecords
<1>7. RunInv(x)'
  BY <1>1, <1>2, <1>3, <1>4, <1>6, NoneIsNoValue DEF RunInv, Before
<1>8. (\A s \in Runs : RunInv(run[s])') /\ run' \in [Runs -> RunRecords] /\ run'[r] = x
  BY <1>5, <1>6, <1>7, RunsGoOn
<1>9. MoveTypes'
  BY <1>2, <1>3, <1>4, <1>8, KnownMove DEF MoveInv, MoveTypes, Move!TypeOK, States
<1>10. journal'["initial_cutover"] = "verified" => journal["initial_cutover"] = "verified"
  BY <1>3, KnownMove, Places DEF Move!Start, Move!Current
<1>11. journal'["resume_authority"] = "verified" => journal["resume_authority"] = "verified"
  BY <1>3, KnownMove, Places DEF Move!Start, Move!Current
<1>12. ControlInv' /\ AuthorityInv'
  BY <1>2, <1>4, <1>10, <1>11, KnownMove DEF ControlInv, AuthorityInv, Arrived
<1>13. OneSends'
  BY <1>6, KnownMove DEF OneSends
<1> QED
  BY <1>3, <1>8, <1>9, <1>12, <1>13 DEF MoveInv

(* The two commands to the authority.                                      *)
LEMMA CommandStep ==
  ASSUME MoveInv, NEW r \in Runs, Move!BeforeActivate(r) \/ Move!Resume(r)
  PROVE  MoveInv'
<1> USE DEF Move!world, Move!history
<1>1. PICK p \in {"initial_cutover", "resume_authority"}, step \in {"import", "started"}, next \in {"activated", "audit"} :
         /\ Move!At(r, p, step) /\ Move!Does(r, next, None) /\ (next = "audit" => p = "resume_authority" /\ step = "started")
  BY DEF Move!BeforeActivate, Move!Resume
<1>2. UNCHANGED <<journal, plan, control, kv, written, auth, due>>
  BY DEF Move!BeforeActivate, Move!Resume
<1>3. /\ wire \subseteq wire' /\ wire' \subseteq wire \union {"activate", "open"} /\ puts' \in [Move!Requests -> Nat]
      /\ \A q \in Move!Mutations : puts'[q] = puts[q]
  BY KnownMove DEF Move!BeforeActivate, Move!Resume, Move!Sends, Move!Requests, Move!Mutations
<1>4. p \in Move!Phase /\ p \notin Move!Mutations /\ Before(p) /\ (next = "audit" => due # None)
  <2>1. p \in Move!Phase /\ p \notin Move!Mutations /\ step \in Steps
    BY Places DEF Move!Mutations, Steps
  <2>2. run[r].phase = p /\ run[r].step = step /\ p # None /\ RunInv(run[r])
    BY <1>1, <2>1, AtLemma
  <2> QED
    BY <1>1, <2>1, <2>2 DEF RunInv
<1>5. \A q \in Move!Mutations : (q \in wire' <=> q \in wire) /\ (Arrived(q)' <=> Arrived(q))
  BY <1>3 DEF Move!Mutations, Arrived
<1>6. Onwards
  BY <1>2, <1>5 DEF Onwards
<1>7. \A s \in Runs : SendsStay(s)
  BY <1>2, <1>3, KnownMove DEF SendsStay, RunInv
<1>8. PICK x \in RunRecords : run' = [run EXCEPT ![r] = x] /\ x.phase = p /\ x.step = next /\ x.found = None
  BY <1>1, <1>4, DoesLemma, AtLemma DEF Steps, Found
<1>9. RunInv(x)'
  BY <1>2, <1>4, <1>8, NoneIsNoValue DEF RunInv, Before
<1>10. (\A s \in Runs : RunInv(run[s])') /\ run' \in [Runs -> RunRecords] /\ run'[r] = x
  BY <1>6, <1>7, <1>8, <1>9, RunsGoOn
<1>11. MoveTypes'
  BY <1>2, <1>3, <1>10, KnownMove DEF MoveInv, MoveTypes, Move!TypeOK, Move!Requests
<1>12. (\A q \in Move!Phase : JournalInv(q)') /\ ControlInv'
  BY <1>2, <1>3, <1>5, KnownMove DEF JournalInv, ControlInv, Before, Move!Mutations
<1>13. AuthorityInv'
  <2>1. CASE "open" \in wire' \ wire
    <3>1. Move!Resume(r)
      BY <2>1 DEF Move!BeforeActivate
    <3>2. Move!At(r, "resume_authority", "started") /\ Move!Opens
      BY <2>1, <3>1 DEF Move!Resume
    <3>3. due # None
      BY <3>2, AtLemma, Places DEF RunInv, Steps
    <3> QED
      BY <1>2, <3>2, <3>3, KnownMove DEF AuthorityInv, Move!Opens, Move!Unchanged
  <2>2. CASE "open" \notin wire' \ wire
    BY <1>2, <1>3, <2>2, KnownMove DEF AuthorityInv
  <2> QED
    BY <2>1, <2>2
<1>14. OneSends'
  BY <1>8, KnownMove DEF OneSends
<1> QED
  BY <1>10, <1>11, <1>12, <1>13, <1>14 DEF MoveInv

LEMMA FinishStep ==
  ASSUME MoveInv, NEW r \in Runs, NEW p \in Move!Phase, Move!Finish(r, p)
  PROVE  MoveInv'
<1> USE DEF Move!world, Move!history
<1>1. Move!At(r, p, "finish") /\ Before(p) /\ journal[p] = "dispatched" /\ RunInv(run[r]) /\ run[r].step = "finish" /\ run[r].phase = p
  <2>1. Move!At(r, p, "finish") /\ "finish" \in Steps /\ journal[p] = "dispatched"
    BY DEF Move!Finish, Steps
  <2>2. RunInv(run[r]) /\ run[r].step = "finish" /\ run[r].phase = p /\ p # None
    BY <2>1, AtLemma
  <2> QED
    BY <2>1, <2>2 DEF RunInv
<1>2. journal' = [journal EXCEPT ![p] = "verified"] /\ run' = [run EXCEPT ![r] = Move!Rest]
  BY DEF Move!Finish, Move!Stops
<1>3. UNCHANGED <<plan, wire, control, kv, auth, puts, due>> /\ written' \in 0..MaxWrites \union {None}
  BY <1>1, KnownMove DEF Move!Finish, RunInv
<1>4. (\A q \in Move!Phase : JournalInv(q)') /\ \A q \in Move!Phase : journal[q] = "verified" => journal'[q] = "verified"
  BY <1>1, <1>2, <1>3, JournalStep DEF States, RunInv
<1>5. ASSUME NEW s \in Runs PROVE SendsStay(s)
  <2>1. ~(run[s].step = "send" /\ run[s].phase = p)
    BY <1>1, KnownMove DEF RunInv, Arrived
  <2> QED
    BY <1>2, <1>3, <2>1, KnownMove DEF SendsStay, RunInv
<1>6. Onwards
  BY <1>3, <1>4 DEF Onwards, Arrived
<1>7. Move!Rest \in RunRecords /\ RunInv(Move!Rest)'
  BY DEF RunRecords, Move!Rest, RunInv, Steps, Found, Move!Phase, Move!Mutations
<1>8. (\A s \in Runs : RunInv(run[s])') /\ run' \in [Runs -> RunRecords] /\ run'[r] = Move!Rest
  BY <1>2, <1>5, <1>6, <1>7, RunsGoOn
<1>9. MoveTypes'
  BY <1>2, <1>3, <1>8, KnownMove DEF MoveInv, MoveTypes, Move!TypeOK, States
<1>10. ControlInv' /\ AuthorityInv'
  BY <1>1, <1>2, <1>3, KnownMove, Places DEF ControlInv, AuthorityInv, Arrived, RunInv
<1>11. OneSends'
  BY <1>8, <1>2, KnownMove DEF OneSends, Move!Rest
<1> QED
  BY <1>4, <1>8, <1>9, <1>10, <1>11 DEF MoveInv

LEMMA InitMove == Move!Init => MoveInv
<1> SUFFICES ASSUME Move!Init PROVE MoveInv
  OBVIOUS
<1> USE DEF Move!Init
<1>1. MoveTypes
  BY Places, WritesAssumption DEF MoveTypes, Move!TypeOK, States, Controls, RunRecords, Steps,
     Found, Move!Rest, Move!Stages
<1>2. (\A p \in Move!Phase : JournalInv(p)) /\ ControlInv /\ AuthorityInv /\ OneSends
  <2>1. ASSUME NEW p \in Move!Phase PROVE JournalInv(p)
    BY Places DEF JournalInv, Move!Requests
  <2>4. \A q \in Move!Mutations : ~Arrived(q)
    BY DEF Move!Requests, Arrived
  <2>2. ControlInv /\ AuthorityInv
    BY <2>4, Places DEF ControlInv, AuthorityInv, Move!Mutations
  <2>3. OneSends
    BY DEF OneSends, Move!Rest
  <2> QED
    BY <2>1, <2>2, <2>3
<1>3. \A r \in Runs : RunInv(run[r])
  BY NoneIsNoValue DEF RunInv, Move!Rest
<1> QED
  BY <1>1, <1>2, <1>3 DEF MoveInv

LEMMA MoveStep == MoveInv /\ [Move!Next]_(Move!vars) => MoveInv'
<1>1. ASSUME MoveInv, UNCHANGED Move!vars PROVE MoveInv'
  BY <1>1 DEF Move!vars, MoveInv, MoveTypes, Move!TypeOK, JournalInv, ControlInv, AuthorityInv,
     RunInv, OneSends, Before, Arrived
<1>2. ASSUME MoveInv, Move!Next PROVE MoveInv'
  <2>1. CASE Move!LegacyWorks \/ Move!PinExpires
    BY <1>2, <2>1, WorldStep
  <2>2. CASE Move!Activate \/ Move!OpenAuthority
    BY <1>2, <2>2, AuthStep
  <2>3. ASSUME NEW p \in Move!Mutations, Move!Provider(p) PROVE MoveInv'
    BY <1>2, <2>3, ProviderStep
  <2>4. ASSUME NEW r \in Runs, NEW p \in Move!Phase,
               \/ Move!Enter(r, p) \/ Move!Seal(r, p) \/ Move!Prepare(r, p) \/ Move!Dispatch(r, p)
               \/ Move!Put(r, p) \/ Move!Check(r, p) \/ Move!Start(r, p) \/ Move!Finish(r, p)
        PROVE  MoveInv'
    BY <1>2, <2>4, EnterStep, SealStep, PrepareStep, DispatchStep, PutStep, CheckStep, StartStep,
       FinishStep
  <2>5. ASSUME NEW r \in Runs,
               \/ Move!Stop(r) \/ Move!Verify(r) \/ Move!Backup(r) \/ Move!BackupAgain(r) \/ Move!Cutover(r) \/ Move!Import(r)
               \/ Move!BeforeActivate(r) \/ Move!Activated(r) \/ Move!Resume(r) \/ Move!Audit(r)
        PROVE  MoveInv'
    BY <1>2, <2>5, StopStep, LooksStep, AuthStep, CommandStep
  <2> QED
    BY <1>2, <2>1, <2>2, <2>3, <2>4, <2>5 DEF Move!Next
<1> QED
  BY <1>1, <1>2

LEMMA ReleaseStep == MoveInv /\ [PartsNext]_partVars => MoveInv'
<1>1. [PartsNext]_partVars => [Move!Next]_(Move!vars)
  BY DEF PartsNext, NextLedger, NextProgram, NextDrain, NextFlows, NextRelease, partVars,
     releaseVars, Move!vars
<1> QED
  BY <1>1, MoveStep

(* Of the release, for any number of runs and writes: what the journals say *)
(* of each phase agrees with the controls, the authority and the requests   *)
(* under way (production-data-release.cjs).                                *)
THEOREM MoveInvariant == PartsSpec => []MoveInv
<1>1. PartsInit => MoveInv
  BY InitMove DEF PartsInit
<1> QED
  BY <1>1, ReleaseStep, PTL DEF PartsSpec

(* What a phase was verified to have done is still so, and no request went  *)
(* out twice, however many runs of the scripts overlap and whichever       *)
(* answers are lost (production-data-release.cjs).                         *)
THEOREM VerifiedStaysSo == PartsSpec => []VerifiedHolds
<1>1. ASSUME MoveInv PROVE VerifiedHolds
  <2>1. \A p \in Move!Mutations : JournalInv(p) /\ puts[p] \in Nat
    BY <1>1, KnownMove, Places DEF Move!Requests
  <2>2. ControlInv /\ AuthorityInv
    BY <1>1, KnownMove
  <2>3. journal["restore_cron"] \in States
    BY <1>1, KnownMove, Places
  <2>4. \A p \in Move!Mutations : /\ puts[p] <= 1 /\ (journal[p] = "verified" => Arrived(p))
                                  /\ journal[p] \in {"unprepared", "prepared"} => ~Arrived(p)
    BY <2>1 DEF JournalInv, Arrived
  <2>5. \A p \in Move!Mutations : journal[p] = "verified" => Arrived(p)
    BY <2>4
  <2>6. control.script # "legacy" \/ journal["freeze_worker"] # "verified"
    BY <2>2, <2>5 DEF ControlInv, Move!Mutations
  <2>7. control.script = "pinned" \/ journal["install_pin"] # "verified"
    BY <2>2, <2>5 DEF ControlInv, Move!Mutations
  <2>8. journal["disable_cron"] = "verified" /\ journal["restore_cron"] \notin {"dispatched", "verified"} => ~control.cron
    BY <2>2, <2>3, <2>4, <2>5 DEF ControlInv, Move!Mutations, States
  <2>9. journal["restore_cron"] = "verified" => control.cron
    BY <2>2, <2>5 DEF ControlInv, Move!Mutations
  <2>10. Move!VerifiedHolds
    BY <2>2, <2>4, <2>6, <2>7, <2>8, <2>9 DEF Move!VerifiedHolds, AuthorityInv
  <2> QED
    BY <2>10 DEF VerifiedHolds
<1> QED
  BY <1>1, MoveInvariant, PTL

(* The authority is opened with every write of the old worker made before  *)
(* its opening was dispatched (production-data-release.cjs).               *)
THEOREM OpensWithEverything == PartsSpec => []OpenedWithEverything
<1>1. MoveInv => OpenedWithEverything
  BY KnownMove DEF MoveInv, MoveTypes, AuthorityInv, OpenedWithEverything, Move!OpenedWithEverything
<1> QED
  BY <1>1, MoveInvariant, PTL

-----------------------------------------------------------------------------
(* The programs of steps.                                                  *)

(* The state is known to be p; a write may have taken it from p to q.      *)
Rest(p) == now = p /\ before = p
Wrote(p, q) == now \in {p, q} /\ before \in {p, q} /\ (before = q => now = q)

(* Where a program is, and what the provider is like there.                *)
Made == Program!Applied("create_kv", start)
Placed(p) == Program!Applied("upload", p)
Ready == IF start.titled = {} THEN Made ELSE start
Freed == Program!Applied("delete_kv", start)
Known == {"rename_subdomain", "change_subdomain", "rotate_subdomain", "create_worker", "replace_worker", "upload", "manual_upload",
          "repair_worker", "remove_worker", "delete_worker", "cleanup_kv", "delete_kv", "configure_domain", "write_nodes"}
CommandInv ==
  /\ start \in Program!Provider /\ Program!Real(start) /\ command.kind \in Known /\ command.namespace \in Namespaces
  /\ command.bindings = IF command.kind \in Program!Titling /\ start.titled = {} THEN {command.namespace}
                        ELSE IF command.kind \in Program!Titling THEN start.titled ELSE start.bound
InstallInv(i) ==
  /\ pc \in i..(i + 2) => Rest(start)
  /\ pc \in (i + 2)..(i + 3) => start.titled = {}
  /\ pc = i + 3 => Wrote(start, Made)
  /\ pc = i + 4 => Rest(Ready)
  /\ pc \in (i + 5)..(i + 6) => Wrote(Ready, Placed(Ready))
  /\ pc = i + 6 => start.script = "new" \/ Rest(Placed(Ready))
Positions(n) == pc \in 1..n \union Program!Outcomes
CreateInv == Positions(8) /\ (pc = 1 => Rest(start)) /\ InstallInv(2)
ReplaceWorkerInv == Positions(9) /\ (pc \in 1..2 => Rest(start)) /\ InstallInv(3)
UploadInv == Positions(3) /\ (pc \in 1..2 => Rest(start)) /\ (pc = 3 => Wrote(start, Placed(start)))
ManualUploadInv ==
  /\ Positions(5) /\ (pc \in 1..3 => Rest(start)) /\ (pc \in 4..5 => Wrote(start, Placed(start)))
  /\ pc = 5 => start.script = "new" \/ Rest(Placed(start))
(* The worker is in place again; the hostname and workers.dev are restored *)
(* in turn.                                                                *)
Whole(p) == p \in Program!Provider /\ p.script = "new" /\ p.bound = start.bound
Unrouted(p) == p.domain = FALSE
Routed(p) == p.domain = start.domain
Unflagged(p) == p.flag = FALSE
Flagged(p) == p.flag = start.flag
Restoring ==
  /\ pc \in 9..11 => Whole(now) /\ Whole(before) /\ Unflagged(before)
  /\ pc \in 9..10 => Unflagged(now)
  /\ pc = 9 => (Unrouted(now) \/ Routed(now)) /\ Unrouted(before)
  /\ pc \in 10..11 => Routed(now) /\ Routed(before)
  /\ pc = 11 => Unflagged(now) \/ Flagged(now)
RepairInv ==
  /\ Positions(11) /\ pc # Program!Failed /\ (pc \in 1..3 => Rest(start)) /\ (pc \in 2..4 => start.script # "absent")
  /\ pc = 4 => Wrote(start, Program!Gone(start))
  /\ pc = 5 => Rest(Program!Gone(start))
  /\ pc = 6 => Wrote(Program!Gone(start), Placed(Program!Gone(start)))
  /\ pc \in 7..8 => Rest(Placed(Program!Gone(start)))
  /\ Restoring
RemoveWorkerInv ==
  /\ Positions(4) /\ (pc \in 1..3 => Rest(start)) /\ (pc \in 2..4 => start.script # "absent")
  /\ pc = 4 => Wrote(start, Program!Gone(start))
DeleteWorkerInv == Positions(2) /\ (pc = 1 => Rest(start)) /\ (pc = 2 => Wrote(start, Program!Gone(start)))
CleanupKvInv ==
  /\ Positions(4) /\ (pc \in 1..3 => Rest(start)) /\ (pc \in 2..4 => start.script = "absent")
  /\ pc = 4 => Wrote(start, Freed)
DeleteKvInv == Positions(2) /\ (pc = 1 => Rest(start)) /\ (pc = 2 => Wrote(start, Freed))
ConfigureDomainInv ==
  /\ Positions(2) /\ (pc = 1 => Rest(start))
  /\ pc = 2 => ~command.hostname /\ Wrote(start, Program!Applied("enable", start))
WriteNodesInv == Positions(3) /\ (pc \in 1..2 => Rest(start)) /\ (pc = 3 => Wrote(start, Program!Applied("nodes", start)))
(* The programs about the name change nothing but the name.                *)
Called(x) == [start EXCEPT !.sub = x]
NamingInv == now = Called(now.sub) /\ before = Called(before.sub)
Same == now.sub = start.sub /\ before.sub = start.sub
RenameInv ==
  /\ Positions(6) /\ NamingInv /\ (pc \in {1, 2, 3, 5} => Same) /\ (pc \in {2, 3, 5} => start.sub # "new")
  /\ pc = 4 => now.sub # "new" /\ before.sub # "new"
  /\ pc = 6 => before.sub # "new"
ChangeInv ==
  /\ Positions(11) /\ NamingInv /\ (pc \in {1, 3, 4, 5} => Same)
  /\ pc = 2 => before.sub = start.sub /\ now.sub \in {start.sub, "new"}
  /\ pc = 4 => start.sub # "none"
  /\ pc \in 5..11 => start.sub = "old"
  /\ pc = 6 => before.sub = "old" /\ now.sub \in {"old", "none"}
  /\ pc = 7 => now.sub = "none" /\ before.sub = "none"
  /\ pc \in 8..10 => before.sub = "none" /\ now.sub \in {"none", "new"}
  /\ pc = 11 => before.sub # "old"
RotateInv ==
  /\ Positions(6) /\ NamingInv /\ (pc \in 1..3 => Same) /\ (pc = 3 => start.sub # "new")
  /\ pc \in 4..5 => now.sub # "new" /\ before.sub # "new"
  /\ pc = 6 => before.sub # "new"
ProgramInv ==
  /\ command.kind = "rename_subdomain" => RenameInv
  /\ command.kind = "change_subdomain" => ChangeInv
  /\ command.kind = "rotate_subdomain" => RotateInv
  /\ command.kind = "create_worker" => CreateInv
  /\ command.kind = "replace_worker" => ReplaceWorkerInv
  /\ command.kind = "upload" => UploadInv
  /\ command.kind = "manual_upload" => ManualUploadInv
  /\ command.kind = "repair_worker" => RepairInv
  /\ command.kind = "remove_worker" => RemoveWorkerInv
  /\ command.kind = "delete_worker" => DeleteWorkerInv
  /\ command.kind = "cleanup_kv" => CleanupKvInv
  /\ command.kind = "delete_kv" => DeleteKvInv
  /\ command.kind = "configure_domain" => ConfigureDomainInv
  /\ command.kind = "write_nodes" => WriteNodesInv
(* A program is where its reads and writes left it, and a result is true.  *)
ExecInv == CommandInv /\ ProgramInv /\ Program!ResultIsTrue

LEMMA HoldsIs ==
  ASSUME NEW p
  PROVE  /\ Program!Holds("named", p) <=> p.sub = "new"
         /\ Program!Holds("unnamed", p) <=> p.sub = "none"
         /\ Program!Holds("restored", p) <=> p.sub = start.sub
         /\ Program!Holds("absent", p) <=> p.script = "absent"
         /\ Program!Holds("present", p) <=> p.script # "absent"
         /\ Program!Holds("uploaded", p) <=> p.script = "new"
         /\ Program!Holds("bindings", p) <=> p.bound = command.bindings
         /\ Program!Holds("titled", p) <=> p.titled # {}
         /\ Program!Holds("deleted", p) <=> command.namespace \notin p.kv
         /\ Program!Holds("domain", p) <=> p.domain = start.domain
         /\ Program!Holds("flag", p) <=> p.flag = start.flag
         /\ Program!Holds("enabled", p) <=> p.flag
         /\ Program!Holds("written", p) <=> p.nodes = "new"
BY DEF Program!Holds

LEMMA AppliedIs ==
  ASSUME NEW p
  PROVE  /\ Program!Applied("name", p) = [p EXCEPT !.sub = "new"]
         /\ Program!Applied("restore", p) = [p EXCEPT !.sub = start.sub]
         /\ Program!Applied("unname", p) = [p EXCEPT !.sub = "none"]
         /\ Program!Applied("create_kv", p) = [p EXCEPT !.kv = @ \union {command.namespace}, !.titled = {command.namespace}]
         /\ Program!Applied("delete_kv", p) = [p EXCEPT !.kv = @ \ {command.namespace}, !.titled = @ \ {command.namespace}]
         /\ Program!Applied("upload", p) = [p EXCEPT !.script = "new", !.bound = command.bindings]
         /\ Program!Applied("delete", p) = Program!Gone(p)
         /\ Program!Applied("assign", p) = [p EXCEPT !.domain = TRUE]
         /\ Program!Applied("reassign", p) = [p EXCEPT !.domain = start.domain]
         /\ Program!Applied("enable", p) = [p EXCEPT !.flag = TRUE]
         /\ Program!Applied("reset", p) = [p EXCEPT !.flag = start.flag]
         /\ Program!Applied("nodes", p) = [p EXCEPT !.nodes = "new"]
BY DEF Program!Applied

(* A read of p goes on.                                                    *)
Answered(test, p, yes, no) == (Program!Holds(test, p) => pc' = yes) /\ (~Program!Holds(test, p) => pc' = no)

LEMMA ReadEffect ==
  ASSUME NEW test, NEW yes, NEW no, Program!At = Program!Get(test, yes, no), Program!Next
  PROVE  /\ UNCHANGED <<command, start, now>>
         /\ \/ pc' = Program!Unknown /\ before' = before
            \/ \E p \in {now, before} : before' = p /\ Answered(test, p, yes, no)
<1>1. Program!At.test = test /\ Program!At.yes = yes /\ Program!At.no = no /\ Program!IsGet
  BY DEF Program!Get, Program!IsGet
<1>2. /\ UNCHANGED <<command, start, now>>
      /\ \/ pc' = Program!Unknown /\ before' = before
         \/ \E p \in {now, before} : before' = p /\ pc' = IF Program!Holds(Program!At.test, p) THEN Program!At.yes ELSE Program!At.no
  BY <1>1 DEF Program!Next, Program!Read, Program!Write
<1>3. ASSUME NEW p,
             pc' = IF Program!Holds(Program!At.test, p) THEN Program!At.yes ELSE Program!At.no PROVE Answered(test, p, yes, no)
  <2>1. CASE Program!Holds(test, p)
    BY <1>1, <1>3, <2>1 DEF Answered
  <2>2. CASE ~Program!Holds(test, p)
    BY <1>1, <1>3, <2>2 DEF Answered
  <2> QED
    BY <2>1, <2>2
<1> QED
  BY <1>2, <1>3

LEMMA WriteEffect ==
  ASSUME NEW write, NEW then, NEW rejected, Program!At = Program!Put(write, then, rejected),
         Program!Next
  PROVE  /\ UNCHANGED <<command, start>>
         /\ \/ now' = Program!Applied(write, now) /\ before' = now /\ pc' \in {then, Program!Unknown}
            \/ /\ now' = now /\ before' = before /\ pc' \in {then, Program!Unknown, rejected}
               /\ pc' # Program!Verified
<1>1. Program!At.write = write /\ Program!At.then = then /\ Program!At.rejected = rejected /\ ~Program!IsGet
  BY DEF Program!Put, Program!IsGet
<1> QED
  BY <1>1 DEF Program!Next, Program!Read, Program!Write

LEMMA RestRead ==
  ASSUME NEW p, Rest(p), NEW test, NEW yes, NEW no, Program!At = Program!Get(test, yes, no),
         Program!Next
  PROVE  UNCHANGED <<command, start>> /\ Rest(p)' /\ (pc' = Program!Unknown \/ Answered(test, p, yes, no))
BY ReadEffect DEF Rest

LEMMA RestWrite ==
  ASSUME NEW p, NEW q, Rest(p), NEW write, NEW then, NEW rejected,
         Program!At = Program!Put(write, then, rejected), Program!Next,
         q = Program!Applied(write, p)
  PROVE  /\ UNCHANGED <<command, start>>
         /\ (pc' \in {then, Program!Unknown} /\ Wrote(p, q)') \/ (pc' = rejected /\ Rest(p)')
BY WriteEffect DEF Rest, Wrote

LEMMA WroteRead ==
  ASSUME NEW p, NEW q, Wrote(p, q), NEW test, NEW yes, NEW no,
         Program!At = Program!Get(test, yes, no), Program!Next
  PROVE  /\ UNCHANGED <<command, start, now>> /\ Wrote(p, q)'
         /\ pc' = Program!Unknown \/ Answered(test, p, yes, no) \/ (Rest(q)' /\ Answered(test, q, yes, no))
<1>1. /\ UNCHANGED <<command, start, now>>
      /\ \/ pc' = Program!Unknown /\ before' = before
         \/ \E r \in {now, before} : before' = r /\ Answered(test, r, yes, no)
  BY ReadEffect
<1>2. CASE pc' = Program!Unknown /\ before' = before
  BY <1>1, <1>2 DEF Wrote
<1>3. ASSUME NEW r \in {now, before}, before' = r, Answered(test, r, yes, no)
      PROVE  Wrote(p, q)' /\ (Answered(test, p, yes, no) \/ (Rest(q)' /\ Answered(test, q, yes, no)))
  <2>1. r \in {p, q} /\ (r = q => now = q)
    BY <1>3 DEF Wrote
  <2>2. Wrote(p, q)'
    BY <1>1, <1>3, <2>1 DEF Wrote
  <2>3. CASE r = p
    <3>1. Answered(test, p, yes, no)
      BY <1>3, <2>3
    <3> QED
      BY <2>2, <3>1
  <2>4. CASE r = q
    <3>1. Answered(test, q, yes, no)
      BY <1>3, <2>4
    <3>2. Rest(q)'
      BY <1>1, <1>3, <2>1, <2>4 DEF Rest
    <3> QED
      BY <2>2, <3>1, <3>2
  <2> QED
    BY <2>1, <2>3, <2>4
<1> QED
  BY <1>1, <1>2, <1>3

LEMMA ProgramIs ==
  /\ command.kind = "rename_subdomain" => Program!Program = Program!Rename
  /\ command.kind = "change_subdomain" => Program!Program = Program!Change
  /\ command.kind = "rotate_subdomain" => Program!Program = Program!Rotate
  /\ command.kind = "create_worker" => Program!Program = Program!Create
  /\ command.kind = "replace_worker" => Program!Program = Program!ReplaceWorker
  /\ command.kind = "upload" => Program!Program = Program!Upload
  /\ command.kind = "manual_upload" => Program!Program = Program!ManualUpload
  /\ command.kind = "repair_worker" => Program!Program = Program!Repair
  /\ command.kind = "remove_worker" => Program!Program = Program!RemoveWorker
  /\ command.kind = "delete_worker" => Program!Program = Program!DeleteWorker(1)
  /\ command.kind = "cleanup_kv" => Program!Program = Program!CleanupKv
  /\ command.kind = "delete_kv" => Program!Program = Program!DeleteKv(1)
  /\ command.kind = "configure_domain" => Program!Program = IF command.hostname THEN Program!AssignDomain ELSE Program!EnableSubdomain
  /\ command.kind = "write_nodes" => Program!Program = Program!WriteNodes
BY DEF Program!Program

(* The programs that are put together.                                     *)
LEMMA InstallIs ==
  ASSUME NEW i \in Nat
  PROVE  /\ Len(Program!Install(i)) = 7
         /\ Program!Install(i)[1] = Program!Get("ambiguous", Program!Failed, i + 1) /\ Program!Install(i)[2] = Program!Get("titled", i + 4, i + 2)
         /\ Program!Install(i)[3] = Program!Put("create_kv", i + 3, Program!Failed) /\ Program!Install(i)[4] = Program!Get("titled", i + 4, Program!Unknown)
         /\ Program!Install(i)[5] = Program!Put("upload", i + 5, Program!Failed) /\ Program!Install(i)[6] = Program!Get("uploaded", i + 6, Program!Unknown)
         /\ Program!Install(i)[7] = Program!Get("bindings", Program!Verified, Program!Unknown)
BY DEF Program!Install

LEMMA AfterOne ==
  ASSUME NEW a, NEW s, Len(s) \in Nat
  PROVE  (<<a>> \o s)[1] = a /\ \A k \in 1..Len(s) : (<<a>> \o s)[k + 1] = s[k]
OBVIOUS

LEMMA AfterTwo ==
  ASSUME NEW a, NEW b, NEW s, Len(s) \in Nat
  PROVE  (<<a, b>> \o s)[1] = a /\ (<<a, b>> \o s)[2] = b /\ \A k \in 1..Len(s) : (<<a, b>> \o s)[k + 2] = s[k]
OBVIOUS

LEMMA CreateIs ==
  /\ Program!Create[1] = Program!Get("absent", 2, Program!Failed)
  /\ \A k \in 1..7 : Program!Create[k + 1] = Program!Install(2)[k]
<1>1. Len(Program!Install(2)) = 7
  BY InstallIs
<1> QED
  BY <1>1, AfterOne DEF Program!Create

LEMMA ReplaceWorkerIs ==
  /\ Program!ReplaceWorker[1] = Program!Get("present", 2, Program!Failed) /\ Program!ReplaceWorker[2] = Program!Get("plain", 3, Program!Unknown)
  /\ \A k \in 1..7 : Program!ReplaceWorker[k + 2] = Program!Install(3)[k]
<1>1. Len(Program!Install(3)) = 7
  BY InstallIs
<1>2. Program!ReplaceWorker = <<Program!Get("present", 2, Program!Failed), Program!Get("plain", 3, Program!Unknown)>> \o Program!Install(3)
  BY DEF Program!ReplaceWorker
<1> PICK a, b, s : a = Program!Get("present", 2, Program!Failed) /\ b = Program!Get("plain", 3, Program!Unknown) /\ s = Program!Install(3)
  OBVIOUS
<1> QED
  BY <1>1, <1>2, AfterTwo

LEMMA ChangeIs ==
  /\ Program!Change[1] = Program!Put("name", 2, 3) /\ Program!Change[2] = Program!Get("named", Program!Verified, Program!Unknown)
  /\ Program!Change[3] = Program!Get("unnamed", Program!Failed, 4) /\ Program!Change[4] = Program!Get("named", Program!Verified, 5) /\ Program!Change[5] = Program!Put("unname", 6, Program!Failed)
  /\ Program!Change[6] = Program!Get("unnamed", 7, Program!Unknown) /\ Program!Change[7] = Program!Put("name", 8, 10) /\ Program!Change[8] = Program!Get("named", Program!Verified, 9)
  /\ Program!Change[9] = Program!Get("unnamed", 10, Program!Unknown) /\ Program!Change[10] = Program!Put("restore", 11, Program!Unknown)
  /\ Program!Change[11] = Program!Get("restored", Program!Failed, Program!Unknown)
<1>1. Len(Program!Replace) = 9
  BY DEF Program!Replace
<1>2. Program!Change[1] = Program!Put("name", 2, 3) /\ Program!Change[2] = Program!Get("named", Program!Verified, Program!Unknown) /\ \A k \in 1..9 : Program!Change[k + 2] = Program!Replace[k]
  <2> PICK a, b, s : a = Program!Put("name", 2, 3) /\ b = Program!Get("named", Program!Verified, Program!Unknown) /\ s = Program!Replace
    OBVIOUS
  <2>1. Program!Change = <<a, b>> \o s /\ Len(s) = 9
    BY <1>1 DEF Program!Change
  <2>2. (<<a, b>> \o s)[1] = a /\ (<<a, b>> \o s)[2] = b /\ \A k \in 1..Len(s) : (<<a, b>> \o s)[k + 2] = s[k]
    <3>1. Len(s) \in Nat
      BY <2>1
    <3> QED
      BY <3>1, AfterTwo
  <2>3. Program!Change[1] = a /\ Program!Change[2] = b /\ \A k \in 1..Len(s) : Program!Change[k + 2] = s[k]
    BY <2>1, <2>2, Zenon
  <2> QED
    BY <2>1, <2>3
<1>3. /\ Program!Change[3] = Program!Replace[1] /\ Program!Change[4] = Program!Replace[2] /\ Program!Change[5] = Program!Replace[3] /\ Program!Change[6] = Program!Replace[4]
      /\ Program!Change[7] = Program!Replace[5] /\ Program!Change[8] = Program!Replace[6] /\ Program!Change[9] = Program!Replace[7] /\ Program!Change[10] = Program!Replace[8]
      /\ Program!Change[11] = Program!Replace[9]
  BY <1>2
<1> QED
  BY <1>2, <1>3 DEF Program!Replace

LEMMA RemoveWorkerIs ==
  /\ Program!RemoveWorker[1] = Program!Get("present", 2, Program!Failed) /\ Program!RemoveWorker[2] = Program!Get("planned", 3, Program!Failed)
  /\ Program!RemoveWorker[3] = Program!Put("delete", 4, Program!Failed) /\ Program!RemoveWorker[4] = Program!Get("absent", Program!Verified, Program!Unknown)
<1>1. /\ Len(Program!DeleteWorker(3)) = 2
      /\ Program!DeleteWorker(3)[1] = Program!Put("delete", 4, Program!Failed) /\ Program!DeleteWorker(3)[2] = Program!Get("absent", Program!Verified, Program!Unknown)
  BY DEF Program!DeleteWorker
<1>2. /\ Program!RemoveWorker[1] = Program!Get("present", 2, Program!Failed) /\ Program!RemoveWorker[2] = Program!Get("planned", 3, Program!Failed)
      /\ \A k \in 1..2 : Program!RemoveWorker[k + 2] = Program!DeleteWorker(3)[k]
  BY <1>1, AfterTwo DEF Program!RemoveWorker
<1>3. Program!RemoveWorker[3] = Program!DeleteWorker(3)[1] /\ Program!RemoveWorker[4] = Program!DeleteWorker(3)[2]
  BY <1>2
<1> QED
  BY <1>1, <1>2, <1>3

LEMMA CleanupKvIs ==
  /\ Program!CleanupKv[1] = Program!Get("absent", 2, Program!Failed) /\ Program!CleanupKv[2] = Program!Get("shared", Program!Verified, 3)
  /\ Program!CleanupKv[3] = Program!Put("delete_kv", 4, Program!Failed) /\ Program!CleanupKv[4] = Program!Get("deleted", Program!Verified, Program!Unknown)
<1>1. /\ Len(Program!DeleteKv(3)) = 2
      /\ Program!DeleteKv(3)[1] = Program!Put("delete_kv", 4, Program!Failed) /\ Program!DeleteKv(3)[2] = Program!Get("deleted", Program!Verified, Program!Unknown)
  BY DEF Program!DeleteKv
<1>2. /\ Program!CleanupKv[1] = Program!Get("absent", 2, Program!Failed) /\ Program!CleanupKv[2] = Program!Get("shared", Program!Verified, 3)
      /\ \A k \in 1..2 : Program!CleanupKv[k + 2] = Program!DeleteKv(3)[k]
  <2> PICK a, b, s : a = Program!Get("absent", 2, Program!Failed) /\ b = Program!Get("shared", Program!Verified, 3) /\ s = Program!DeleteKv(3)
    OBVIOUS
  <2>1. Program!CleanupKv = <<a, b>> \o s /\ Len(s) = 2
    BY <1>1 DEF Program!CleanupKv
  <2>2. (<<a, b>> \o s)[1] = a /\ (<<a, b>> \o s)[2] = b /\ \A k \in 1..Len(s) : (<<a, b>> \o s)[k + 2] = s[k]
    <3>1. Len(s) \in Nat
      BY <2>1
    <3> QED
      BY <3>1, AfterTwo
  <2>3. Program!CleanupKv[1] = a /\ Program!CleanupKv[2] = b /\ \A k \in 1..Len(s) : Program!CleanupKv[k + 2] = s[k]
    BY <2>1, <2>2, Zenon
  <2> QED
    BY <2>1, <2>3
<1>3. Program!CleanupKv[3] = Program!DeleteKv(3)[1] /\ Program!CleanupKv[4] = Program!DeleteKv(3)[2]
  BY <1>2
<1> QED
  BY <1>1, <1>2, <1>3

LEMMA AnsweredIs ==
  ASSUME NEW test, NEW p, NEW yes, NEW no, Answered(test, p, yes, no)
  PROVE  (pc' = yes /\ Program!Holds(test, p)) \/ (pc' = no /\ ~Program!Holds(test, p))
<1>1. CASE Program!Holds(test, p)
  BY <1>1 DEF Answered
<1>2. CASE ~Program!Holds(test, p)
  BY <1>2 DEF Answered
<1> QED
  BY <1>1, <1>2

(* What a command is about does not change.                                *)
LEMMA SameCommand ==
  ASSUME UNCHANGED <<command, start>>
  PROVE  /\ Made' = Made /\ Ready' = Ready /\ Freed' = Freed /\ Placed(start)' = Placed(start)
         /\ Placed(Ready)' = Placed(Ready) /\ Program!Gone(start)' = Program!Gone(start) /\ Placed(Program!Gone(start))' = Placed(Program!Gone(start))
         /\ Program!Applied("assign", start)' = Program!Applied("assign", start) /\ Program!Applied("enable", start)' = Program!Applied("enable", start)
         /\ Program!Applied("nodes", start)' = Program!Applied("nodes", start)
         /\ CommandInv => CommandInv'
<1>1. /\ Made' = Made /\ Freed' = Freed /\ Program!Gone(start)' = Program!Gone(start)
      /\ Program!Applied("assign", start)' = Program!Applied("assign", start) /\ Program!Applied("enable", start)' = Program!Applied("enable", start)
      /\ Program!Applied("nodes", start)' = Program!Applied("nodes", start)
  BY DEF Made, Freed, Program!Gone, Program!Applied
<1>2. Ready' = Ready
  BY <1>1 DEF Ready
<1>3. ASSUME NEW p PROVE Program!Applied("upload", p)' = Program!Applied("upload", p)
  BY DEF Program!Applied
<1>4. Placed(start)' = Placed(start) /\ Placed(Ready)' = Placed(Ready) /\ Placed(Program!Gone(start))' = Placed(Program!Gone(start))
  BY <1>1, <1>2, <1>3 DEF Placed
<1>5. CommandInv => CommandInv'
  BY DEF CommandInv, Program!Real, Program!Provider, Program!Titling
<1> QED
  BY <1>1, <1>2, <1>4, <1>5

(* The outcomes.                                                           *)
LEMMA NotYet ==
  ASSUME pc' \notin {Program!Verified, Program!Failed}
  PROVE  Program!ResultIsTrue'
BY DEF Program!ResultIsTrue, Program!VerifiedIsDone, Program!FailedIsUndone, Program!Verified,
   Program!Failed

LEMMA Undone ==
  ASSUME CommandInv, UNCHANGED <<command, start>>, pc' = Program!Failed, now' \in {start, Made}
  PROVE  Program!ResultIsTrue'
<1>1. start \in Program!Provider
  BY DEF CommandInv
<1>2. CASE now' = start
  <2>1. start = [start EXCEPT !.kv = start.kv, !.titled = start.titled]
    BY <1>1 DEF Program!Provider
  <2> QED
    BY <1>2, <2>1 DEF Program!ResultIsTrue, Program!VerifiedIsDone, Program!FailedIsUndone,
       Program!Verified, Program!Failed
<1>3. CASE now' = Made
  <2>1. Made = [start EXCEPT !.kv = @ \union {command.namespace}, !.titled = {command.namespace}]
    BY AppliedIs DEF Made
  <2>2. start = [Made EXCEPT !.kv = start.kv, !.titled = start.titled] /\ start.kv \subseteq Made.kv
    BY <1>1, <2>1 DEF Program!Provider
  <2> QED
    BY <1>3, <2>2 DEF Program!ResultIsTrue, Program!VerifiedIsDone, Program!FailedIsUndone,
       Program!Verified, Program!Failed
<1> QED
  BY <1>2, <1>3

LEMMA Done ==
  ASSUME pc' = Program!Verified, Program!Meaning'
  PROVE  Program!ResultIsTrue'
BY DEF Program!ResultIsTrue, Program!VerifiedIsDone, Program!FailedIsUndone, Program!Verified,
   Program!Failed

(* What a verified command must have done.                                 *)
LEMMA MeaningIs ==
  ASSUME UNCHANGED <<command, start>>
  PROVE  /\ command.kind \in Program!Naming /\ now' = Called("new") => Program!Meaning'
         /\ command.kind \in Program!Titling /\ now'.script = "new" /\ now'.bound = command.bindings /\ now'.bound \subseteq now'.kv => Program!Meaning'
         /\ command.kind = "upload" /\ now'.script = "new" /\ now'.domain = start.domain => Program!Meaning'
         /\ command.kind = "manual_upload" /\ now'.script = "new" /\ now'.bound = start.bound /\ now'.domain = start.domain => Program!Meaning'
         /\ command.kind = "repair_worker" /\ now'.script = "new" /\ now'.bound = start.bound /\ now'.domain = start.domain
              /\ now'.flag = start.flag => Program!Meaning'
         /\ command.kind \in {"remove_worker", "delete_worker"} /\ now' = Program!Gone(start) => Program!Meaning'
         /\ command.kind = "cleanup_kv" /\ now'.script = "absent" /\ (command.namespace \in now'.kv => now' = start) => Program!Meaning'
         /\ command.kind = "delete_kv" /\ command.namespace \notin now'.kv /\ now'.script = start.script => Program!Meaning'
         /\ command.kind = "configure_domain" /\ (IF command.hostname THEN now'.domain ELSE now'.flag) => Program!Meaning'
         /\ command.kind = "write_nodes" /\ now'.nodes = "new" /\ now'.script = start.script => Program!Meaning'
<1>1. command.kind \in Program!Naming /\ now' = Called("new") => Program!Meaning'
  <2>1. Called("new") = [start' EXCEPT !.sub = "new"]
    BY DEF Called
  <2>2. command'.kind \in Program!Naming /\ now' = [start' EXCEPT !.sub = "new"] => Program!Meaning'
    BY DEF Program!Meaning, Program!Naming, Program!Titling
  <2> QED
    BY <2>1, <2>2
<1>2. command.kind \in Program!Titling /\ now'.script = "new" /\ now'.bound = command.bindings /\ now'.bound \subseteq now'.kv => Program!Meaning'
  BY DEF Program!Meaning, Program!Naming, Program!Titling
<1>3. command.kind = "upload" /\ now'.script = "new" /\ now'.domain = start.domain => Program!Meaning'
  BY DEF Program!Meaning, Program!Naming, Program!Titling
<1>4. command.kind = "manual_upload" /\ now'.script = "new" /\ now'.bound = start.bound /\ now'.domain = start.domain => Program!Meaning'
  BY DEF Program!Meaning, Program!Naming, Program!Titling
<1>5. command.kind = "repair_worker" /\ now'.script = "new" /\ now'.bound = start.bound /\ now'.domain = start.domain
        /\ now'.flag = start.flag => Program!Meaning'
  BY DEF Program!Meaning, Program!Naming, Program!Titling
<1>6. command.kind \in {"remove_worker", "delete_worker"} /\ now' = Program!Gone(start) => Program!Meaning'
  <2>1. Program!Gone(start)' = Program!Gone(start)
    BY DEF Program!Gone
  <2> QED
    BY <2>1 DEF Program!Meaning, Program!Naming, Program!Titling
<1>7. command.kind = "cleanup_kv" /\ now'.script = "absent" /\ (command.namespace \in now'.kv => now' = start) => Program!Meaning'
  BY DEF Program!Meaning, Program!Naming, Program!Titling
<1>8. command.kind = "delete_kv" /\ command.namespace \notin now'.kv /\ now'.script = start.script => Program!Meaning'
  BY DEF Program!Meaning, Program!Naming, Program!Titling
<1>9. command.kind = "configure_domain" /\ (IF command.hostname THEN now'.domain ELSE now'.flag) => Program!Meaning'
  BY DEF Program!Meaning, Program!Naming, Program!Titling
<1>10. command.kind = "write_nodes" /\ now'.nodes = "new" /\ now'.script = start.script => Program!Meaning'
  BY DEF Program!Meaning, Program!Naming, Program!Titling
<1> QED
  BY <1>1, <1>2, <1>3, <1>4, <1>5, <1>6, <1>7, <1>8, <1>9, <1>10

(* What the writes leave.                                                  *)
LEMMA PlacedIs ==
  ASSUME NEW p \in Program!Provider
  PROVE  /\ Placed(p).script = "new" /\ Placed(p).bound = command.bindings
         /\ Placed(p).domain = p.domain /\ Placed(p).flag = p.flag /\ Placed(p).kv = p.kv
         /\ command.bindings \in SUBSET Namespaces => Placed(p) \in Program!Provider
<1>1. Placed(p) = [p EXCEPT !.script = "new", !.bound = command.bindings]
  BY AppliedIs DEF Placed
<1> QED
  BY <1>1 DEF Program!Provider

LEMMA GoneIs ==
  ASSUME NEW p \in Program!Provider
  PROVE  /\ Program!Gone(p) \in Program!Provider /\ Program!Gone(p).script = "absent" /\ Program!Gone(p).flag = FALSE /\ Program!Gone(p).domain = FALSE
         /\ p.script = "absent" /\ Program!Real(p) => Program!Gone(p) = p
BY DEF Program!Gone, Program!Provider, Program!Real

LEMMA FreedIs ==
  ASSUME start \in Program!Provider
  PROVE  Freed.script = start.script /\ command.namespace \notin Freed.kv
<1>1. Freed = [start EXCEPT !.kv = @ \ {command.namespace}, !.titled = @ \ {command.namespace}]
  BY AppliedIs DEF Freed
<1> QED
  BY <1>1 DEF Program!Provider

LEMMA UploadKeeps ==
  ASSUME CommandInv, command.kind = "upload", UploadInv, Program!Next
  PROVE  UNCHANGED <<command, start>> /\ UploadInv' /\ Program!ResultIsTrue'
<1> PICK s, q : s = start /\ q = Placed(start)
  OBVIOUS
<1>0. Program!At = Program!Upload[pc] /\ pc \in 1..3 /\ s \in Program!Provider
  BY ProgramIs DEF Program!At, Program!Next, Program!Read, Program!Write, CommandInv, UploadInv,
     Positions
<1> USE DEF Program!Verified, Program!Failed, Program!Unknown
<1>1. CASE pc = 1
  <2>1. Program!At = Program!Get("plain", 2, Program!Unknown) /\ Rest(s)
    BY <1>0, <1>1 DEF Program!Upload, UploadInv
  <2>2. UNCHANGED <<command, start>> /\ Rest(s)' /\ (pc' = Program!Unknown \/ pc' = 2)
    BY <2>1, RestRead, AnsweredIs, HoldsIs
  <2>6. Program!ResultIsTrue'
    BY <2>2, NotYet
  <2>7. UploadInv'
    BY <1>1, <2>1, <2>2, SameCommand DEF UploadInv, Positions, Program!Outcomes
  <2> QED
    BY <2>2, <2>6, <2>7
<1>2. CASE pc = 2
  <2>1. Program!At = Program!Put("upload", 3, Program!Failed) /\ Rest(s)
    BY <1>0, <1>2 DEF Program!Upload, UploadInv
  <2>0. q = Program!Applied("upload", s)
    BY AppliedIs DEF Placed, Made, Freed, Program!Gone
  <2>2. UNCHANGED <<command, start>> /\ ((pc' \in {3, Program!Unknown} /\ Wrote(s, q)') \/ (pc' = Program!Failed /\ Rest(s)'))
    BY <2>0, <2>1, RestWrite
  <2>3. pc' = Program!Failed => Program!ResultIsTrue'
    BY <2>2, Undone DEF Rest
  <2>6. Program!ResultIsTrue'
    BY <2>2, <2>3, NotYet
  <2>7. UploadInv'
    BY <1>2, <2>1, <2>2, SameCommand DEF UploadInv, Positions, Program!Outcomes
  <2> QED
    BY <2>2, <2>6, <2>7
<1>3. CASE pc = 3
  <2>1. Program!At = Program!Get("uploaded", Program!Verified, Program!Unknown) /\ Wrote(s, q)
    BY <1>0, <1>3 DEF Program!Upload, UploadInv
  <2>2. UNCHANGED <<command, start, now>> /\ Wrote(s, q)' /\ (pc' = Program!Unknown \/ (pc' = Program!Verified /\ s.script = "new") \/ (pc' = Program!Verified /\ Rest(q)'))
    BY <2>1, WroteRead, AnsweredIs, HoldsIs
  <2>4. ASSUME pc' = Program!Verified PROVE now'.script = "new" /\ now'.domain = start.domain
    <3>1. q.script = "new" /\ q.domain = s.domain
      BY <1>0, PlacedIs
    <3> QED
      BY <2>2, <2>4, <3>1 DEF Wrote, Rest
  <2>5. pc' = Program!Verified => Program!ResultIsTrue'
    BY <2>2, <2>4, MeaningIs, Done
  <2>6. Program!ResultIsTrue'
    BY <2>2, <2>5, NotYet
  <2>7. UploadInv'
    BY <1>3, <2>1, <2>2, SameCommand DEF UploadInv, Positions, Program!Outcomes
  <2> QED
    BY <2>2, <2>6, <2>7
<1> QED
  BY <1>0, <1>1, <1>2, <1>3

LEMMA ManualUploadKeeps ==
  ASSUME CommandInv, command.kind = "manual_upload", ManualUploadInv, Program!Next
  PROVE  UNCHANGED <<command, start>> /\ ManualUploadInv' /\ Program!ResultIsTrue'
<1> PICK s, q : s = start /\ q = Placed(start)
  OBVIOUS
<1>0. Program!At = Program!ManualUpload[pc] /\ pc \in 1..5 /\ s \in Program!Provider
  BY ProgramIs DEF Program!At, Program!Next, Program!Read, Program!Write, CommandInv,
     ManualUploadInv, Positions
<1> USE DEF Program!Verified, Program!Failed, Program!Unknown
<1>1. CASE pc = 1
  <2>1. Program!At = Program!Get("present", 2, Program!Failed) /\ Rest(s)
    BY <1>0, <1>1 DEF Program!ManualUpload, ManualUploadInv
  <2>2. UNCHANGED <<command, start>> /\ Rest(s)' /\ (pc' = Program!Unknown \/ (pc' = 2 /\ s.script # "absent") \/ pc' = Program!Failed)
    BY <2>1, RestRead, AnsweredIs, HoldsIs
  <2>3. pc' = Program!Failed => Program!ResultIsTrue'
    BY <2>2, Undone DEF Rest
  <2>6. Program!ResultIsTrue'
    BY <2>2, <2>3, NotYet
  <2>7. ManualUploadInv'
    BY <1>1, <2>1, <2>2, SameCommand DEF ManualUploadInv, Positions, Program!Outcomes
  <2> QED
    BY <2>2, <2>6, <2>7
<1>2. CASE pc = 2
  <2>1. Program!At = Program!Get("plain", 3, Program!Unknown) /\ Rest(s)
    BY <1>0, <1>2 DEF Program!ManualUpload, ManualUploadInv
  <2>2. UNCHANGED <<command, start>> /\ Rest(s)' /\ (pc' = Program!Unknown \/ pc' = 3)
    BY <2>1, RestRead, AnsweredIs, HoldsIs
  <2>6. Program!ResultIsTrue'
    BY <2>2, NotYet
  <2>7. ManualUploadInv'
    BY <1>2, <2>1, <2>2, SameCommand DEF ManualUploadInv, Positions, Program!Outcomes
  <2> QED
    BY <2>2, <2>6, <2>7
<1>3. CASE pc = 3
  <2>1. Program!At = Program!Put("upload", 4, Program!Failed) /\ Rest(s)
    BY <1>0, <1>3 DEF Program!ManualUpload, ManualUploadInv
  <2>0. q = Program!Applied("upload", s)
    BY AppliedIs DEF Placed, Made, Freed, Program!Gone
  <2>2. UNCHANGED <<command, start>> /\ ((pc' \in {4, Program!Unknown} /\ Wrote(s, q)') \/ (pc' = Program!Failed /\ Rest(s)'))
    BY <2>0, <2>1, RestWrite
  <2>3. pc' = Program!Failed => Program!ResultIsTrue'
    BY <2>2, Undone DEF Rest
  <2>6. Program!ResultIsTrue'
    BY <2>2, <2>3, NotYet
  <2>7. ManualUploadInv'
    BY <1>3, <2>1, <2>2, SameCommand DEF ManualUploadInv, Positions, Program!Outcomes
  <2> QED
    BY <2>2, <2>6, <2>7
<1>4. CASE pc = 4
  <2>1. Program!At = Program!Get("uploaded", 5, Program!Unknown) /\ Wrote(s, q)
    BY <1>0, <1>4 DEF Program!ManualUpload, ManualUploadInv
  <2>2. UNCHANGED <<command, start, now>> /\ Wrote(s, q)' /\ (pc' = Program!Unknown \/ (pc' = 5 /\ s.script = "new") \/ (pc' = 5 /\ Rest(q)'))
    BY <2>1, WroteRead, AnsweredIs, HoldsIs
  <2>6. Program!ResultIsTrue'
    BY <2>2, NotYet
  <2>7. ManualUploadInv'
    BY <1>4, <2>1, <2>2, SameCommand DEF ManualUploadInv, Positions, Program!Outcomes
  <2> QED
    BY <2>2, <2>6, <2>7
<1>5. CASE pc = 5
  <2>1. Program!At = Program!Get("bindings", Program!Verified, Program!Unknown) /\ Wrote(s, q) /\ (s.script = "new" \/ now = q)
    BY <1>0, <1>5 DEF Program!ManualUpload, ManualUploadInv, Rest
  <2>2. UNCHANGED <<command, start, now>> /\ Wrote(s, q)' /\ (pc' = Program!Unknown \/ (pc' = Program!Verified /\ s.bound = command.bindings) \/ (pc' = Program!Verified /\ Rest(q)'))
    BY <2>1, WroteRead, AnsweredIs, HoldsIs
  <2>4. ASSUME pc' = Program!Verified PROVE now'.script = "new" /\ now'.bound = start.bound /\ now'.domain = start.domain
    <3>1. q.script = "new" /\ q.domain = s.domain /\ q.bound = s.bound
      BY <1>0, PlacedIs DEF CommandInv, Program!Titling
    <3>2. now' \in {s, q} /\ (s.script = "new" \/ now' = q)
      BY <2>1, <2>2 DEF Wrote
    <3> QED
      BY <3>1, <3>2
  <2>5. pc' = Program!Verified => Program!ResultIsTrue'
    BY <2>2, <2>4, MeaningIs, Done
  <2>6. Program!ResultIsTrue'
    BY <2>2, <2>5, NotYet
  <2>7. ManualUploadInv'
    BY <1>5, <2>1, <2>2, SameCommand DEF ManualUploadInv, Positions, Program!Outcomes
  <2> QED
    BY <2>2, <2>6, <2>7
<1> QED
  BY <1>0, <1>1, <1>2, <1>3, <1>4, <1>5

LEMMA RemoveWorkerKeeps ==
  ASSUME CommandInv, command.kind = "remove_worker", RemoveWorkerInv, Program!Next
  PROVE  UNCHANGED <<command, start>> /\ RemoveWorkerInv' /\ Program!ResultIsTrue'
<1> PICK s, g : s = start /\ g = Program!Gone(start)
  OBVIOUS
<1>0. Program!At = Program!RemoveWorker[pc] /\ pc \in 1..4 /\ s \in Program!Provider
  BY ProgramIs DEF Program!At, Program!Next, Program!Read, Program!Write, CommandInv,
     RemoveWorkerInv, Positions
<1> USE DEF Program!Verified, Program!Failed, Program!Unknown
<1>1. CASE pc = 1
  <2>1. Program!At = Program!Get("present", 2, Program!Failed) /\ Rest(s)
    BY <1>0, <1>1, RemoveWorkerIs DEF RemoveWorkerInv
  <2>2. UNCHANGED <<command, start>> /\ Rest(s)' /\ (pc' = Program!Unknown \/ (pc' = 2 /\ s.script # "absent") \/ pc' = Program!Failed)
    BY <2>1, RestRead, AnsweredIs, HoldsIs
  <2>3. pc' = Program!Failed => Program!ResultIsTrue'
    BY <2>2, Undone DEF Rest
  <2>6. Program!ResultIsTrue'
    BY <2>2, <2>3, NotYet
  <2>7. RemoveWorkerInv'
    BY <1>1, <2>1, <2>2, SameCommand DEF RemoveWorkerInv, Positions, Program!Outcomes
  <2> QED
    BY <2>2, <2>6, <2>7
<1>2. CASE pc = 2
  <2>1. Program!At = Program!Get("planned", 3, Program!Failed) /\ Rest(s) /\ s.script # "absent"
    BY <1>0, <1>2, RemoveWorkerIs DEF RemoveWorkerInv
  <2>2. UNCHANGED <<command, start>> /\ Rest(s)' /\ (pc' = Program!Unknown \/ pc' = 3 \/ pc' = Program!Failed)
    BY <2>1, RestRead, AnsweredIs, HoldsIs
  <2>3. pc' = Program!Failed => Program!ResultIsTrue'
    BY <2>2, Undone DEF Rest
  <2>6. Program!ResultIsTrue'
    BY <2>2, <2>3, NotYet
  <2>7. RemoveWorkerInv'
    BY <1>2, <2>1, <2>2, SameCommand DEF RemoveWorkerInv, Positions, Program!Outcomes
  <2> QED
    BY <2>2, <2>6, <2>7
<1>3. CASE pc = 3
  <2>1. Program!At = Program!Put("delete", 4, Program!Failed) /\ Rest(s) /\ s.script # "absent"
    BY <1>0, <1>3, RemoveWorkerIs DEF RemoveWorkerInv
  <2>0. g = Program!Applied("delete", s)
    BY AppliedIs DEF Placed, Made, Freed, Program!Gone
  <2>2. UNCHANGED <<command, start>> /\ ((pc' \in {4, Program!Unknown} /\ Wrote(s, g)') \/ (pc' = Program!Failed /\ Rest(s)'))
    BY <2>0, <2>1, RestWrite
  <2>3. pc' = Program!Failed => Program!ResultIsTrue'
    BY <2>2, Undone DEF Rest
  <2>6. Program!ResultIsTrue'
    BY <2>2, <2>3, NotYet
  <2>7. RemoveWorkerInv'
    BY <1>3, <2>1, <2>2, SameCommand DEF RemoveWorkerInv, Positions, Program!Outcomes
  <2> QED
    BY <2>2, <2>6, <2>7
<1>4. CASE pc = 4
  <2>1. Program!At = Program!Get("absent", Program!Verified, Program!Unknown) /\ Wrote(s, g) /\ s.script # "absent"
    BY <1>0, <1>4, RemoveWorkerIs DEF RemoveWorkerInv
  <2>2. UNCHANGED <<command, start, now>> /\ Wrote(s, g)' /\ (pc' = Program!Unknown \/ (pc' = Program!Verified /\ s.script = "absent") \/ (pc' = Program!Verified /\ Rest(g)'))
    BY <2>1, WroteRead, AnsweredIs, HoldsIs
  <2>4. ASSUME pc' = Program!Verified PROVE now' = Program!Gone(start)
    BY <2>1, <2>2, <2>4 DEF Rest
  <2>5. pc' = Program!Verified => Program!ResultIsTrue'
    BY <2>2, <2>4, MeaningIs, Done
  <2>6. Program!ResultIsTrue'
    BY <2>2, <2>5, NotYet
  <2>7. RemoveWorkerInv'
    BY <1>4, <2>1, <2>2, SameCommand DEF RemoveWorkerInv, Positions, Program!Outcomes
  <2> QED
    BY <2>2, <2>6, <2>7
<1> QED
  BY <1>0, <1>1, <1>2, <1>3, <1>4

LEMMA DeleteWorkerKeeps ==
  ASSUME CommandInv, command.kind = "delete_worker", DeleteWorkerInv, Program!Next
  PROVE  UNCHANGED <<command, start>> /\ DeleteWorkerInv' /\ Program!ResultIsTrue'
<1> PICK s, g : s = start /\ g = Program!Gone(start)
  OBVIOUS
<1>0. Program!At = Program!DeleteWorker(1)[pc] /\ pc \in 1..2 /\ s \in Program!Provider
  BY ProgramIs DEF Program!At, Program!Next, Program!Read, Program!Write, CommandInv,
     DeleteWorkerInv, Positions
<1> USE DEF Program!Verified, Program!Failed, Program!Unknown
<1>1. CASE pc = 1
  <2>1. Program!At = Program!Put("delete", 2, Program!Failed) /\ Rest(s)
    BY <1>0, <1>1 DEF Program!DeleteWorker, DeleteWorkerInv
  <2>0. g = Program!Applied("delete", s)
    BY AppliedIs DEF Placed, Made, Freed, Program!Gone
  <2>2. UNCHANGED <<command, start>> /\ ((pc' \in {2, Program!Unknown} /\ Wrote(s, g)') \/ (pc' = Program!Failed /\ Rest(s)'))
    BY <2>0, <2>1, RestWrite
  <2>3. pc' = Program!Failed => Program!ResultIsTrue'
    BY <2>2, Undone DEF Rest
  <2>6. Program!ResultIsTrue'
    BY <2>2, <2>3, NotYet
  <2>7. DeleteWorkerInv'
    BY <1>1, <2>1, <2>2, SameCommand DEF DeleteWorkerInv, Positions, Program!Outcomes
  <2> QED
    BY <2>2, <2>6, <2>7
<1>2. CASE pc = 2
  <2>1. Program!At = Program!Get("absent", Program!Verified, Program!Unknown) /\ Wrote(s, g)
    BY <1>0, <1>2 DEF Program!DeleteWorker, DeleteWorkerInv
  <2>2. UNCHANGED <<command, start, now>> /\ Wrote(s, g)' /\ (pc' = Program!Unknown \/ (pc' = Program!Verified /\ s.script = "absent") \/ (pc' = Program!Verified /\ Rest(g)'))
    BY <2>1, WroteRead, AnsweredIs, HoldsIs
  <2>4. ASSUME pc' = Program!Verified PROVE now' = Program!Gone(start)
    <3>1. s.script = "absent" => g = s
      BY <1>0, GoneIs DEF CommandInv
    <3> QED
      BY <2>2, <2>4, <3>1 DEF Wrote, Rest
  <2>5. pc' = Program!Verified => Program!ResultIsTrue'
    BY <2>2, <2>4, MeaningIs, Done
  <2>6. Program!ResultIsTrue'
    BY <2>2, <2>5, NotYet
  <2>7. DeleteWorkerInv'
    BY <1>2, <2>1, <2>2, SameCommand DEF DeleteWorkerInv, Positions, Program!Outcomes
  <2> QED
    BY <2>2, <2>6, <2>7
<1> QED
  BY <1>0, <1>1, <1>2

LEMMA CleanupKvKeeps ==
  ASSUME CommandInv, command.kind = "cleanup_kv", CleanupKvInv, Program!Next
  PROVE  UNCHANGED <<command, start>> /\ CleanupKvInv' /\ Program!ResultIsTrue'
<1> PICK s, q : s = start /\ q = Freed
  OBVIOUS
<1>0. Program!At = Program!CleanupKv[pc] /\ pc \in 1..4 /\ s \in Program!Provider
  BY ProgramIs DEF Program!At, Program!Next, Program!Read, Program!Write, CommandInv,
     CleanupKvInv, Positions
<1> USE DEF Program!Verified, Program!Failed, Program!Unknown
<1>1. CASE pc = 1
  <2>1. Program!At = Program!Get("absent", 2, Program!Failed) /\ Rest(s)
    BY <1>0, <1>1, CleanupKvIs DEF CleanupKvInv
  <2>2. UNCHANGED <<command, start>> /\ Rest(s)' /\ (pc' = Program!Unknown \/ (pc' = 2 /\ s.script = "absent") \/ (pc' = Program!Failed /\ s.script # "absent"))
    BY <2>1, RestRead, AnsweredIs, HoldsIs
  <2>3. pc' = Program!Failed => Program!ResultIsTrue'
    BY <2>2, Undone DEF Rest
  <2>6. Program!ResultIsTrue'
    BY <2>2, <2>3, NotYet
  <2>7. CleanupKvInv'
    BY <1>1, <2>1, <2>2, SameCommand DEF CleanupKvInv, Positions, Program!Outcomes
  <2> QED
    BY <2>2, <2>6, <2>7
<1>2. CASE pc = 2
  <2>1. Program!At = Program!Get("shared", Program!Verified, 3) /\ Rest(s) /\ s.script = "absent"
    BY <1>0, <1>2, CleanupKvIs DEF CleanupKvInv
  <2>2. UNCHANGED <<command, start>> /\ Rest(s)' /\ (pc' = Program!Unknown \/ pc' = Program!Verified \/ pc' = 3)
    BY <2>1, RestRead, AnsweredIs, HoldsIs
  <2>4. ASSUME pc' = Program!Verified PROVE now' = start /\ now'.script = "absent"
    BY <2>1, <2>2 DEF Rest
  <2>5. pc' = Program!Verified => Program!ResultIsTrue'
    BY <2>2, <2>4, MeaningIs, Done
  <2>6. Program!ResultIsTrue'
    BY <2>2, <2>5, NotYet
  <2>7. CleanupKvInv'
    BY <1>2, <2>1, <2>2, SameCommand DEF CleanupKvInv, Positions, Program!Outcomes
  <2> QED
    BY <2>2, <2>6, <2>7
<1>3. CASE pc = 3
  <2>1. Program!At = Program!Put("delete_kv", 4, Program!Failed) /\ Rest(s) /\ s.script = "absent"
    BY <1>0, <1>3, CleanupKvIs DEF CleanupKvInv
  <2>0. q = Program!Applied("delete_kv", s)
    BY AppliedIs DEF Placed, Made, Freed, Program!Gone
  <2>2. UNCHANGED <<command, start>> /\ ((pc' \in {4, Program!Unknown} /\ Wrote(s, q)') \/ (pc' = Program!Failed /\ Rest(s)'))
    BY <2>0, <2>1, RestWrite
  <2>3. pc' = Program!Failed => Program!ResultIsTrue'
    BY <2>2, Undone DEF Rest
  <2>6. Program!ResultIsTrue'
    BY <2>2, <2>3, NotYet
  <2>7. CleanupKvInv'
    BY <1>3, <2>1, <2>2, SameCommand DEF CleanupKvInv, Positions, Program!Outcomes
  <2> QED
    BY <2>2, <2>6, <2>7
<1>4. CASE pc = 4
  <2>1. Program!At = Program!Get("deleted", Program!Verified, Program!Unknown) /\ Wrote(s, q) /\ s.script = "absent"
    BY <1>0, <1>4, CleanupKvIs DEF CleanupKvInv
  <2>2. UNCHANGED <<command, start, now>> /\ Wrote(s, q)' /\ (pc' = Program!Unknown \/ (pc' = Program!Verified /\ command.namespace \notin s.kv) \/ (pc' = Program!Verified /\ Rest(q)'))
    BY <2>1, WroteRead, AnsweredIs, HoldsIs
  <2>4. ASSUME pc' = Program!Verified PROVE now'.script = "absent" /\ command.namespace \notin now'.kv
    <3>1. q.script = s.script /\ command.namespace \notin q.kv
      BY <1>0, FreedIs
    <3> QED
      BY <2>1, <2>2, <2>4, <3>1 DEF Wrote, Rest
  <2>5. pc' = Program!Verified => Program!ResultIsTrue'
    BY <2>2, <2>4, MeaningIs, Done
  <2>6. Program!ResultIsTrue'
    BY <2>2, <2>5, NotYet
  <2>7. CleanupKvInv'
    BY <1>4, <2>1, <2>2, SameCommand DEF CleanupKvInv, Positions, Program!Outcomes
  <2> QED
    BY <2>2, <2>6, <2>7
<1> QED
  BY <1>0, <1>1, <1>2, <1>3, <1>4

LEMMA DeleteKvKeeps ==
  ASSUME CommandInv, command.kind = "delete_kv", DeleteKvInv, Program!Next
  PROVE  UNCHANGED <<command, start>> /\ DeleteKvInv' /\ Program!ResultIsTrue'
<1> PICK s, q : s = start /\ q = Freed
  OBVIOUS
<1>0. Program!At = Program!DeleteKv(1)[pc] /\ pc \in 1..2 /\ s \in Program!Provider
  BY ProgramIs DEF Program!At, Program!Next, Program!Read, Program!Write, CommandInv, DeleteKvInv,
     Positions
<1> USE DEF Program!Verified, Program!Failed, Program!Unknown
<1>1. CASE pc = 1
  <2>1. Program!At = Program!Put("delete_kv", 2, Program!Failed) /\ Rest(s)
    BY <1>0, <1>1 DEF Program!DeleteKv, DeleteKvInv
  <2>0. q = Program!Applied("delete_kv", s)
    BY AppliedIs DEF Placed, Made, Freed, Program!Gone
  <2>2. UNCHANGED <<command, start>> /\ ((pc' \in {2, Program!Unknown} /\ Wrote(s, q)') \/ (pc' = Program!Failed /\ Rest(s)'))
    BY <2>0, <2>1, RestWrite
  <2>3. pc' = Program!Failed => Program!ResultIsTrue'
    BY <2>2, Undone DEF Rest
  <2>6. Program!ResultIsTrue'
    BY <2>2, <2>3, NotYet
  <2>7. DeleteKvInv'
    BY <1>1, <2>1, <2>2, SameCommand DEF DeleteKvInv, Positions, Program!Outcomes
  <2> QED
    BY <2>2, <2>6, <2>7
<1>2. CASE pc = 2
  <2>1. Program!At = Program!Get("deleted", Program!Verified, Program!Unknown) /\ Wrote(s, q)
    BY <1>0, <1>2 DEF Program!DeleteKv, DeleteKvInv
  <2>2. UNCHANGED <<command, start, now>> /\ Wrote(s, q)' /\ (pc' = Program!Unknown \/ (pc' = Program!Verified /\ command.namespace \notin s.kv) \/ (pc' = Program!Verified /\ Rest(q)'))
    BY <2>1, WroteRead, AnsweredIs, HoldsIs
  <2>4. ASSUME pc' = Program!Verified PROVE now'.script = start.script /\ command.namespace \notin now'.kv
    <3>1. q.script = s.script /\ command.namespace \notin q.kv
      BY <1>0, FreedIs
    <3> QED
      BY <2>1, <2>2, <2>4, <3>1 DEF Wrote, Rest
  <2>5. pc' = Program!Verified => Program!ResultIsTrue'
    BY <2>2, <2>4, MeaningIs, Done
  <2>6. Program!ResultIsTrue'
    BY <2>2, <2>5, NotYet
  <2>7. DeleteKvInv'
    BY <1>2, <2>1, <2>2, SameCommand DEF DeleteKvInv, Positions, Program!Outcomes
  <2> QED
    BY <2>2, <2>6, <2>7
<1> QED
  BY <1>0, <1>1, <1>2

LEMMA WriteNodesKeeps ==
  ASSUME CommandInv, command.kind = "write_nodes", WriteNodesInv, Program!Next
  PROVE  UNCHANGED <<command, start>> /\ WriteNodesInv' /\ Program!ResultIsTrue'
<1> PICK s, q : s = start /\ q = Program!Applied("nodes", start)
  OBVIOUS
<1>0. Program!At = Program!WriteNodes[pc] /\ pc \in 1..3 /\ s \in Program!Provider
  BY ProgramIs DEF Program!At, Program!Next, Program!Read, Program!Write, CommandInv,
     WriteNodesInv, Positions
<1> USE DEF Program!Verified, Program!Failed, Program!Unknown
<1>1. CASE pc = 1
  <2>1. Program!At = Program!Get("single", 2, Program!Unknown) /\ Rest(s)
    BY <1>0, <1>1 DEF Program!WriteNodes, WriteNodesInv
  <2>2. UNCHANGED <<command, start>> /\ Rest(s)' /\ (pc' = Program!Unknown \/ pc' = 2)
    BY <2>1, RestRead, AnsweredIs, HoldsIs
  <2>6. Program!ResultIsTrue'
    BY <2>2, NotYet
  <2>7. WriteNodesInv'
    BY <1>1, <2>1, <2>2, SameCommand DEF WriteNodesInv, Positions, Program!Outcomes
  <2> QED
    BY <2>2, <2>6, <2>7
<1>2. CASE pc = 2
  <2>1. Program!At = Program!Put("nodes", 3, Program!Failed) /\ Rest(s)
    BY <1>0, <1>2 DEF Program!WriteNodes, WriteNodesInv
  <2>0. q = Program!Applied("nodes", s)
    BY AppliedIs DEF Placed, Made, Freed, Program!Gone
  <2>2. UNCHANGED <<command, start>> /\ ((pc' \in {3, Program!Unknown} /\ Wrote(s, q)') \/ (pc' = Program!Failed /\ Rest(s)'))
    BY <2>0, <2>1, RestWrite
  <2>3. pc' = Program!Failed => Program!ResultIsTrue'
    BY <2>2, Undone DEF Rest
  <2>6. Program!ResultIsTrue'
    BY <2>2, <2>3, NotYet
  <2>7. WriteNodesInv'
    BY <1>2, <2>1, <2>2, SameCommand DEF WriteNodesInv, Positions, Program!Outcomes
  <2> QED
    BY <2>2, <2>6, <2>7
<1>3. CASE pc = 3
  <2>1. Program!At = Program!Get("written", Program!Verified, Program!Unknown) /\ Wrote(s, q)
    BY <1>0, <1>3 DEF Program!WriteNodes, WriteNodesInv
  <2>2. UNCHANGED <<command, start, now>> /\ Wrote(s, q)' /\ (pc' = Program!Unknown \/ (pc' = Program!Verified /\ s.nodes = "new") \/ (pc' = Program!Verified /\ Rest(q)'))
    BY <2>1, WroteRead, AnsweredIs, HoldsIs
  <2>4. ASSUME pc' = Program!Verified PROVE now'.nodes = "new" /\ now'.script = start.script
    <3>0. q = [s EXCEPT !.nodes = "new"]
      BY AppliedIs
    <3>1. q.nodes = "new" /\ q.script = s.script
      BY <1>0, <3>0 DEF Program!Provider
    <3> QED
      BY <2>2, <2>4, <3>1 DEF Wrote, Rest
  <2>5. pc' = Program!Verified => Program!ResultIsTrue'
    BY <2>2, <2>4, MeaningIs, Done
  <2>6. Program!ResultIsTrue'
    BY <2>2, <2>5, NotYet
  <2>7. WriteNodesInv'
    BY <1>3, <2>1, <2>2, SameCommand DEF WriteNodesInv, Positions, Program!Outcomes
  <2> QED
    BY <2>2, <2>6, <2>7
<1> QED
  BY <1>0, <1>1, <1>2, <1>3

LEMMA ConfigureDomainKeeps ==
  ASSUME CommandInv, command.kind = "configure_domain", ConfigureDomainInv, Program!Next
  PROVE  UNCHANGED <<command, start>> /\ ConfigureDomainInv' /\ Program!ResultIsTrue'
<1> PICK s : s = start
  OBVIOUS
<1>0. /\ Program!At = (IF command.hostname THEN Program!AssignDomain ELSE Program!EnableSubdomain)[pc]
      /\ pc \in 1..2 /\ s \in Program!Provider /\ (pc = 2 => ~command.hostname)
  BY ProgramIs DEF Program!At, Program!Next, Program!Read, Program!Write, CommandInv,
     ConfigureDomainInv, Positions
<1> USE DEF Program!Verified, Program!Failed, Program!Unknown
\* The answer of the only write shows the hostname.
<1>1. CASE command.hostname
  <2> PICK q : q = Program!Applied("assign", start)
    OBVIOUS
  <2>1. Program!At = Program!Put("assign", Program!Verified, Program!Failed) /\ Rest(s)
    BY <1>0, <1>1 DEF Program!AssignDomain, ConfigureDomainInv
  <2>2. /\ UNCHANGED <<command, start>> /\ pc' \in Program!Outcomes
        /\ pc' = Program!Failed => Rest(s)'
        /\ pc' = Program!Verified => now' = q
    BY <2>1, WriteEffect DEF Rest, Program!Outcomes
  <2>3. pc' = Program!Failed => Program!ResultIsTrue'
    BY <2>2, Undone DEF Rest
  <2>4. pc' = Program!Verified => now'.domain
    <3>1. q = [s EXCEPT !.domain = TRUE]
      BY AppliedIs
    <3>2. q.domain = TRUE
      BY <1>0, <3>1 DEF Program!Provider
    <3> QED
      BY <2>2, <3>2
  <2>5. pc' = Program!Verified => Program!ResultIsTrue'
    BY <1>1, <2>2, <2>4, MeaningIs, Done
  <2>6. Program!ResultIsTrue' /\ ConfigureDomainInv'
    BY <2>2, <2>3, <2>5, NotYet DEF ConfigureDomainInv, Positions, Program!Outcomes
  <2> QED
    BY <2>2, <2>6
<1>2. CASE ~command.hostname /\ pc = 1
  <2> PICK q : q = Program!Applied("enable", start)
    OBVIOUS
  <2>1. Program!At = Program!Put("enable", 2, Program!Failed) /\ Rest(s)
    BY <1>0, <1>2 DEF Program!EnableSubdomain, ConfigureDomainInv
  <2>2. UNCHANGED <<command, start>> /\ ((pc' \in {2, Program!Unknown} /\ Wrote(s, q)') \/ (pc' = Program!Failed /\ Rest(s)'))
    BY <2>1, RestWrite
  <2>3. pc' = Program!Failed => Program!ResultIsTrue'
    BY <2>2, Undone DEF Rest
  <2>4. Program!ResultIsTrue'
    BY <2>2, <2>3, NotYet
  <2>5. Program!Applied("enable", start)' = q
    BY <2>2, SameCommand
  <2>6. ConfigureDomainInv'
    BY <1>2, <2>2, <2>5 DEF ConfigureDomainInv, Positions, Program!Outcomes
  <2> QED
    BY <2>2, <2>4, <2>6
<1>3. CASE ~command.hostname /\ pc = 2
  <2> PICK q : q = Program!Applied("enable", start)
    OBVIOUS
  <2>1. Program!At = Program!Get("enabled", Program!Verified, Program!Unknown) /\ Wrote(s, q)
    BY <1>0, <1>3 DEF Program!EnableSubdomain, ConfigureDomainInv
  <2>2. /\ UNCHANGED <<command, start, now>>
        /\ pc' = Program!Unknown \/ (pc' = Program!Verified /\ Program!Holds("enabled", s)) \/ (pc' = Program!Verified /\ Rest(q)')
    BY <2>1, WroteRead, AnsweredIs
  <2>3. ASSUME pc' = Program!Verified PROVE now'.flag
    <3>1. now' \in {s, q} /\ (Program!Holds("enabled", s) \/ now' = q)
      BY <2>1, <2>2, <2>3 DEF Wrote, Rest
    <3>2. q = [s EXCEPT !.flag = TRUE] /\ (Program!Holds("enabled", s) <=> s.flag)
      BY AppliedIs, HoldsIs
    <3>3. q.flag = TRUE
      BY <1>0, <3>2 DEF Program!Provider
    <3> QED
      BY <3>1, <3>2, <3>3
  <2>4. pc' = Program!Verified => Program!ResultIsTrue'
    BY <1>3, <2>2, <2>3, MeaningIs, Done
  <2>5. Program!ResultIsTrue' /\ ConfigureDomainInv'
    BY <2>2, <2>4, NotYet DEF ConfigureDomainInv, Positions, Program!Outcomes
  <2> QED
    BY <2>2, <2>5
<1> QED
  BY <1>0, <1>1, <1>2, <1>3

LEMMA RepairKeeps ==
  ASSUME CommandInv, command.kind = "repair_worker", RepairInv, Program!Next
  PROVE  UNCHANGED <<command, start>> /\ RepairInv' /\ Program!ResultIsTrue'
<1> PICK s, g, u : s = start /\ g = Program!Gone(start) /\ u = Placed(Program!Gone(start))
  OBVIOUS
<1>0. Program!At = Program!Repair[pc] /\ pc \in 1..11 /\ s \in Program!Provider
  BY ProgramIs DEF Program!At, Program!Next, Program!Read, Program!Write, CommandInv, RepairInv,
     Positions
<1> USE DEF Program!Verified, Program!Failed, Program!Unknown
<1>12. /\ g \in Program!Provider /\ g.script = "absent" /\ g.flag = FALSE /\ g.domain = FALSE
       /\ u \in Program!Provider /\ u.script = "new" /\ u.bound = s.bound /\ u.flag = FALSE /\ u.domain = FALSE
  <2>1. command.bindings = s.bound /\ s.bound \in SUBSET Namespaces
    BY <1>0 DEF CommandInv, Program!Titling, Program!Provider
  <2>2. g \in Program!Provider /\ g.script = "absent" /\ g.flag = FALSE /\ g.domain = FALSE
    BY <1>0, GoneIs
  <2> QED
    BY <2>1, <2>2, PlacedIs
<1>1. CASE pc = 1
  <2>1. Program!At = Program!Get("present", 2, Program!Unknown) /\ Rest(s)
    BY <1>0, <1>1 DEF Program!Repair, RepairInv
  <2>2. UNCHANGED <<command, start>> /\ Rest(s)' /\ (pc' = Program!Unknown \/ (pc' = 2 /\ s.script # "absent"))
    BY <2>1, RestRead, AnsweredIs, HoldsIs
  <2>6. Program!ResultIsTrue'
    BY <2>2, NotYet
  <2>8. Restoring'
    BY <2>2 DEF Restoring
  <2>7. RepairInv'
    BY <1>1, <2>1, <2>2, <2>8, SameCommand DEF RepairInv, Positions, Program!Outcomes
  <2> QED
    BY <2>2, <2>6, <2>7
<1>2. CASE pc = 2
  <2>1. Program!At = Program!Get("plain", 3, Program!Unknown) /\ Rest(s) /\ s.script # "absent"
    BY <1>0, <1>2 DEF Program!Repair, RepairInv
  <2>2. UNCHANGED <<command, start>> /\ Rest(s)' /\ (pc' = Program!Unknown \/ pc' = 3)
    BY <2>1, RestRead, AnsweredIs, HoldsIs
  <2>6. Program!ResultIsTrue'
    BY <2>2, NotYet
  <2>8. Restoring'
    BY <2>2 DEF Restoring
  <2>7. RepairInv'
    BY <1>2, <2>1, <2>2, <2>8, SameCommand DEF RepairInv, Positions, Program!Outcomes
  <2> QED
    BY <2>2, <2>6, <2>7
<1>3. CASE pc = 3
  <2>1. Program!At = Program!Put("delete", 4, Program!Unknown) /\ Rest(s) /\ s.script # "absent"
    BY <1>0, <1>3 DEF Program!Repair, RepairInv
  <2>0. g = Program!Applied("delete", s)
    BY AppliedIs DEF Placed, Made, Freed, Program!Gone
  <2>2. UNCHANGED <<command, start>> /\ ((pc' \in {4, Program!Unknown} /\ Wrote(s, g)') \/ (pc' = Program!Unknown /\ Rest(s)'))
    BY <2>0, <2>1, RestWrite
  <2>6. Program!ResultIsTrue'
    BY <2>2, NotYet
  <2>8. Restoring'
    BY <2>2 DEF Restoring
  <2>7. RepairInv'
    BY <1>3, <2>1, <2>2, <2>8, SameCommand DEF RepairInv, Positions, Program!Outcomes
  <2> QED
    BY <2>2, <2>6, <2>7
<1>4. CASE pc = 4
  <2>1. Program!At = Program!Get("absent", 5, Program!Unknown) /\ Wrote(s, g) /\ s.script # "absent"
    BY <1>0, <1>4 DEF Program!Repair, RepairInv
  <2>2. UNCHANGED <<command, start, now>> /\ Wrote(s, g)' /\ (pc' = Program!Unknown \/ (pc' = 5 /\ s.script = "absent") \/ (pc' = 5 /\ Rest(g)'))
    BY <2>1, WroteRead, AnsweredIs, HoldsIs
  <2>6. Program!ResultIsTrue'
    BY <2>2, NotYet
  <2>8. Restoring'
    BY <2>2 DEF Restoring
  <2>7. RepairInv'
    BY <1>4, <2>1, <2>2, <2>8, SameCommand DEF RepairInv, Positions, Program!Outcomes
  <2> QED
    BY <2>2, <2>6, <2>7
<1>5. CASE pc = 5
  <2>1. Program!At = Program!Put("upload", 6, Program!Unknown) /\ Rest(g)
    BY <1>0, <1>5 DEF Program!Repair, RepairInv
  <2>0. u = Program!Applied("upload", g)
    BY AppliedIs DEF Placed, Made, Freed, Program!Gone
  <2>2. UNCHANGED <<command, start>> /\ ((pc' \in {6, Program!Unknown} /\ Wrote(g, u)') \/ (pc' = Program!Unknown /\ Rest(g)'))
    BY <2>0, <2>1, RestWrite
  <2>6. Program!ResultIsTrue'
    BY <2>2, NotYet
  <2>8. Restoring'
    BY <2>2 DEF Restoring
  <2>7. RepairInv'
    BY <1>5, <2>1, <2>2, <2>8, SameCommand DEF RepairInv, Positions, Program!Outcomes
  <2> QED
    BY <2>2, <2>6, <2>7
<1>6. CASE pc = 6
  <2>1. Program!At = Program!Get("uploaded", 7, Program!Unknown) /\ Wrote(g, u)
    BY <1>0, <1>6 DEF Program!Repair, RepairInv
  <2>2. UNCHANGED <<command, start, now>> /\ Wrote(g, u)' /\ (pc' = Program!Unknown \/ (pc' = 7 /\ g.script = "new") \/ (pc' = 7 /\ Rest(u)'))
    BY <2>1, WroteRead, AnsweredIs, HoldsIs
  <2>6. Program!ResultIsTrue'
    BY <2>2, NotYet
  <2>8. Restoring'
    BY <2>2 DEF Restoring
  <2>7. RepairInv'
    BY <1>6, <1>12, <2>1, <2>2, <2>8, SameCommand DEF RepairInv, Positions, Program!Outcomes
  <2> QED
    BY <2>2, <2>6, <2>7
<1>7. CASE pc = 7
  <2>1. Program!At = Program!Get("bindings", 8, Program!Unknown) /\ Rest(u)
    BY <1>0, <1>7 DEF Program!Repair, RepairInv
  <2>2. UNCHANGED <<command, start>> /\ Rest(u)' /\ (pc' = Program!Unknown \/ (pc' = 8 /\ u.bound = command.bindings))
    BY <2>1, RestRead, AnsweredIs, HoldsIs
  <2>6. Program!ResultIsTrue'
    BY <2>2, NotYet
  <2>8. Restoring'
    BY <2>2 DEF Restoring
  <2>7. RepairInv'
    BY <1>7, <2>1, <2>2, <2>8, SameCommand DEF RepairInv, Positions, Program!Outcomes
  <2> QED
    BY <2>2, <2>6, <2>7
<1>8. CASE pc = 8
  <2>1. Program!At = Program!Put("reassign", 9, Program!Unknown) /\ Rest(u)
    BY <1>0, <1>8 DEF Program!Repair, RepairInv
  <2>2. UNCHANGED <<command, start>> /\ pc' \in {9, Program!Unknown} /\ before' = u /\ (now' = u \/ now' = Program!Applied("reassign", u))
    BY <2>1, WriteEffect DEF Rest
  <2> PICK v : v = [u EXCEPT !.domain = s.domain]
    OBVIOUS
  <2>3. v \in Program!Provider /\ v.script = "new" /\ v.bound = s.bound /\ Unflagged(v) /\ Routed(v)
    BY <1>0, <1>12 DEF Program!Provider, Routed, Unflagged
  <2>4. Program!Applied("reassign", u) = v
    BY AppliedIs
  <2>5. Whole(u) /\ Whole(v) /\ Unflagged(u) /\ Unrouted(u)
    BY <1>12, <2>3 DEF Whole, Unflagged, Unrouted
  <2>6. Restoring'
    <3>1. CASE pc' = 9 /\ now' = u
      BY <2>2, <2>5, <3>1 DEF Restoring, Whole, Unflagged, Unrouted
    <3>2. CASE pc' = 9 /\ now' = v
      BY <2>2, <2>3, <2>5, <3>2 DEF Restoring, Whole, Unflagged, Unrouted, Routed
    <3>3. CASE pc' = Program!Unknown
      BY <3>3 DEF Restoring
    <3> QED
      BY <2>2, <2>4, <3>1, <3>2, <3>3
  <2>7. RepairInv'
    BY <2>2, <2>6 DEF RepairInv, Positions, Program!Outcomes
  <2>8. Program!ResultIsTrue'
    BY <2>2, NotYet
  <2> QED
    BY <2>2, <2>7, <2>8
<1>9. CASE pc = 9
  <2>1. /\ Program!At = Program!Get("domain", 10, Program!Unknown) /\ Whole(now) /\ Whole(before) /\ Unflagged(now) /\ Unflagged(before)
        /\ Unrouted(now) \/ Routed(now)
        /\ Unrouted(before)
    BY <1>0, <1>9 DEF Program!Repair, RepairInv, Restoring
  <2>2. /\ UNCHANGED <<command, start, now>> /\ before' \in {now, before}
        /\ pc' = Program!Unknown \/ (pc' = 10 /\ Program!Holds("domain", before'))
    BY <2>1, ReadEffect, AnsweredIs
  <2>3. Whole(now)' /\ Whole(before)' /\ Unflagged(before)' /\ Unflagged(now)'
    BY <2>1, <2>2 DEF Whole, Unflagged
  <2>4. ASSUME pc' = 10 PROVE Routed(now)' /\ Routed(before)'
    <3>1. Program!Holds("domain", before') <=> before'.domain = start.domain
      BY HoldsIs
    <3>2. before'.domain = start.domain
      BY <2>2, <2>4, <3>1
    <3>3. now.domain = start.domain
      BY <2>1, <2>2, <3>2 DEF Unrouted, Routed
    <3> QED
      BY <2>2, <3>2, <3>3 DEF Routed
  <2>5. Restoring'
    BY <2>2, <2>3, <2>4 DEF Restoring
  <2>6. RepairInv'
    BY <2>2, <2>5 DEF RepairInv, Positions, Program!Outcomes
  <2>7. Program!ResultIsTrue'
    BY <2>2, NotYet
  <2> QED
    BY <2>2, <2>6, <2>7
<1>10. CASE pc = 10
  <2>1. /\ Program!At = Program!Put("reset", 11, Program!Unknown) /\ Whole(now) /\ Whole(before) /\ Unflagged(now) /\ Unflagged(before)
        /\ Routed(now) /\ Routed(before)
    BY <1>0, <1>10 DEF Program!Repair, RepairInv, Restoring
  <2>2. /\ UNCHANGED <<command, start>> /\ pc' \in {11, Program!Unknown} /\ before' \in {now, before}
        /\ (now' = now \/ now' = Program!Applied("reset", now))
    BY <2>1, WriteEffect
  <2> PICK n, v : n = now /\ v = [now EXCEPT !.flag = s.flag]
    OBVIOUS
  <2>3. Program!Applied("reset", now) = v
    BY AppliedIs
  <2>11. v = [n EXCEPT !.flag = start.flag] /\ n \in Program!Provider /\ start.flag \in BOOLEAN
    BY <1>0, <2>1 DEF Whole, Program!Provider
  <2>12. v \in Program!Provider
    BY <2>11 DEF Program!Provider
  <2>13. /\ v.script = n.script /\ v.bound = n.bound /\ v.domain = n.domain /\ v.flag = start.flag
    BY <2>11 DEF Program!Provider
  <2>4. Whole(v) /\ Routed(v) /\ Flagged(v)
    BY <2>1, <2>12, <2>13 DEF Whole, Routed, Flagged
  <2>5. Whole(n) /\ Routed(n) /\ Unflagged(n)
    BY <2>1
  <2>14. start' = start /\ (now' = n \/ now' = v)
    BY <2>2, <2>3
  <2>15. now' = n => Whole(now)' /\ Routed(now)' /\ Unflagged(now)'
    BY <2>5, <2>14 DEF Whole, Routed, Unflagged
  <2>16. now' = v => Whole(now)' /\ Routed(now)' /\ Flagged(now)'
    BY <2>4, <2>14 DEF Whole, Routed, Flagged
  <2>6. Whole(now)' /\ Routed(now)' /\ (Unflagged(now)' \/ Flagged(now)')
    BY <2>14, <2>15, <2>16
  <2>7. Whole(before)' /\ Routed(before)' /\ Unflagged(before)'
    BY <2>1, <2>2 DEF Whole, Routed, Unflagged
  <2>8. Restoring'
    BY <2>2, <2>6, <2>7 DEF Restoring
  <2>9. RepairInv'
    BY <2>2, <2>8 DEF RepairInv, Positions, Program!Outcomes
  <2>10. Program!ResultIsTrue'
    BY <2>2, NotYet
  <2> QED
    BY <2>2, <2>9, <2>10
<1>11. CASE pc = 11
  <2>1. /\ Program!At = Program!Get("flag", Program!Verified, Program!Unknown) /\ Whole(now) /\ Unflagged(before) /\ Routed(now)
        /\ Unflagged(now) \/ Flagged(now)
    BY <1>0, <1>11 DEF Program!Repair, RepairInv, Restoring
  <2>2. /\ UNCHANGED <<command, start, now>> /\ before' \in {now, before}
        /\ pc' = Program!Unknown \/ (pc' = Program!Verified /\ Program!Holds("flag", before'))
    BY <2>1, ReadEffect, AnsweredIs
  <2>3. ASSUME pc' = Program!Verified
        PROVE  now'.script = "new" /\ now'.bound = start.bound /\ now'.domain = start.domain /\ now'.flag = start.flag
    <3>1. Program!Holds("flag", before') <=> before'.flag = start.flag
      BY HoldsIs
    <3>2. before'.flag = start.flag
      BY <2>2, <2>3, <3>1
    <3>3. now.flag = start.flag
      BY <2>1, <2>2, <3>2 DEF Unflagged, Flagged
    <3> QED
      BY <2>1, <2>2, <3>3 DEF Whole, Routed
  <2>4. pc' = Program!Verified => Program!ResultIsTrue'
    BY <2>2, <2>3, MeaningIs, Done
  <2>5. Program!ResultIsTrue'
    BY <2>2, <2>4, NotYet
  <2>6. Restoring'
    BY <2>2 DEF Restoring
  <2>7. RepairInv'
    BY <2>2, <2>6 DEF RepairInv, Positions, Program!Outcomes
  <2> QED
    BY <2>2, <2>5, <2>7
<1> QED
  BY <1>0, <1>1, <1>2, <1>3, <1>4, <1>5, <1>6, <1>7, <1>8, <1>9, <1>10, <1>11

(* The installation of a worker, from its first position i.                *)
LEMMA InstallKeeps ==
  ASSUME CommandInv, command.kind \in Program!Titling, NEW i \in {2, 3}, InstallInv(i),
         pc \in i..(i + 6), Program!At = Program!Install(i)[pc - i + 1], Program!Next
  PROVE  UNCHANGED <<command, start>> /\ InstallInv(i)' /\ Program!ResultIsTrue' /\ pc' \in i..(i + 6) \union Program!Outcomes
<1> PICK s, m, r, q : s = start /\ m = Made /\ r = Ready /\ q = Placed(Ready)
  OBVIOUS
<1> USE DEF Program!Verified, Program!Failed, Program!Unknown
<1>0. s \in Program!Provider /\ i \in Nat
  BY DEF CommandInv
<1>a. m \in Program!Provider /\ m.script = s.script /\ m.kv = s.kv \union {command.namespace}
  <2>1. m = [s EXCEPT !.kv = @ \union {command.namespace}, !.titled = {command.namespace}]
    BY AppliedIs DEF Made
  <2>2. command.namespace \in Namespaces
    BY DEF CommandInv
  <2>3. s.kv \union {command.namespace} \in SUBSET Namespaces /\ {command.namespace} \in SUBSET Namespaces
    BY <1>0, <2>2 DEF Program!Provider
  <2> QED
    BY <1>0, <2>1, <2>3 DEF Program!Provider
<1>b. r = IF s.titled = {} THEN m ELSE s
  BY DEF Ready
<1>c. r \in Program!Provider /\ r.script = s.script
  BY <1>0, <1>a, <1>b
<1>d. command.bindings \subseteq r.kv
  <2>1. CASE s.titled = {}
    BY <1>a, <1>b, <2>1 DEF CommandInv
  <2>2. CASE s.titled # {}
    BY <1>b, <2>2 DEF CommandInv, Program!Real
  <2> QED
    BY <2>1, <2>2
<1>e. q.script = "new" /\ q.bound = command.bindings /\ q.kv = r.kv
  BY <1>c, PlacedIs
<1>1. CASE pc = i
  <2>1. Program!At = Program!Get("ambiguous", Program!Failed, i + 1) /\ Rest(s)
    BY <1>0, <1>1, InstallIs DEF InstallInv
  <2>2. UNCHANGED <<command, start>> /\ Rest(s)' /\ pc' \in {Program!Unknown, Program!Failed, i + 1}
    BY <2>1, RestRead, AnsweredIs
  <2>3. pc' = Program!Failed => Program!ResultIsTrue'
    BY <2>2, Undone DEF Rest
  <2>4. Program!ResultIsTrue'
    BY <1>0, <2>2, <2>3, NotYet
  <2>5. InstallInv(i)'
    BY <1>0, <2>2 DEF InstallInv
  <2> QED
    BY <1>0, <2>2, <2>4, <2>5 DEF Program!Outcomes
<1>2. CASE pc = i + 1
  <2>1. Program!At = Program!Get("titled", i + 4, i + 2) /\ Rest(s)
    BY <1>0, <1>2, InstallIs DEF InstallInv
  <2>2. /\ UNCHANGED <<command, start>> /\ Rest(s)'
        /\ pc' = Program!Unknown \/ (pc' = i + 4 /\ s.titled # {}) \/ (pc' = i + 2 /\ s.titled = {})
    BY <2>1, RestRead, AnsweredIs, HoldsIs
  <2>3. Program!ResultIsTrue'
    BY <1>0, <2>2, NotYet
  <2>4. pc' = i + 4 => Rest(r)'
    BY <1>0, <1>b, <2>2
  <2>5. InstallInv(i)'
    BY <1>0, <2>2, <2>4, SameCommand DEF InstallInv
  <2> QED
    BY <1>0, <2>2, <2>3, <2>5 DEF Program!Outcomes
<1>3. CASE pc = i + 2
  <2>1. Program!At = Program!Put("create_kv", i + 3, Program!Failed) /\ Rest(s) /\ s.titled = {}
    BY <1>0, <1>3, InstallIs DEF InstallInv
  <2>2. UNCHANGED <<command, start>> /\ ((pc' \in {i + 3, Program!Unknown} /\ Wrote(s, m)') \/ (pc' = Program!Failed /\ Rest(s)'))
    BY <2>1, RestWrite DEF Made
  <2>3. pc' = Program!Failed => Program!ResultIsTrue'
    BY <1>0, <2>2, Undone DEF Rest
  <2>4. Program!ResultIsTrue'
    BY <1>0, <2>2, <2>3, NotYet
  <2>5. InstallInv(i)'
    BY <1>0, <2>1, <2>2, SameCommand DEF InstallInv
  <2> QED
    BY <1>0, <2>2, <2>4, <2>5 DEF Program!Outcomes
<1>4. CASE pc = i + 3
  <2>1. Program!At = Program!Get("titled", i + 4, Program!Unknown) /\ Wrote(s, m) /\ s.titled = {}
    BY <1>0, <1>4, InstallIs DEF InstallInv
  <2>2. UNCHANGED <<command, start>> /\ (pc' = Program!Unknown \/ (pc' = i + 4 /\ Rest(m)'))
    BY <2>1, WroteRead, AnsweredIs, HoldsIs
  <2>3. Program!ResultIsTrue'
    BY <1>0, <2>2, NotYet
  <2>4. pc' = i + 4 => Rest(r)'
    BY <1>0, <1>b, <2>1, <2>2
  <2>5. InstallInv(i)'
    BY <1>0, <2>2, <2>4, SameCommand DEF InstallInv
  <2> QED
    BY <1>0, <2>2, <2>3, <2>5 DEF Program!Outcomes
<1>5. CASE pc = i + 4
  <2>1. Program!At = Program!Put("upload", i + 5, Program!Failed) /\ Rest(r)
    BY <1>0, <1>5, InstallIs DEF InstallInv
  <2>2. UNCHANGED <<command, start>> /\ ((pc' \in {i + 5, Program!Unknown} /\ Wrote(r, q)') \/ (pc' = Program!Failed /\ Rest(r)'))
    BY <2>1, RestWrite DEF Placed
  <2>3. ASSUME pc' = Program!Failed PROVE Program!ResultIsTrue'
    <3>1. now' \in {start, Made}
      BY <1>0, <1>b, <2>2, <2>3 DEF Rest
    <3> QED
      BY <2>2, <2>3, <3>1, Undone
  <2>4. Program!ResultIsTrue'
    BY <1>0, <2>2, <2>3, NotYet
  <2>5. InstallInv(i)'
    BY <1>0, <2>2, SameCommand DEF InstallInv
  <2> QED
    BY <1>0, <2>2, <2>4, <2>5 DEF Program!Outcomes
<1>6. CASE pc = i + 5
  <2>1. Program!At = Program!Get("uploaded", i + 6, Program!Unknown) /\ Wrote(r, q)
    BY <1>0, <1>6, InstallIs DEF InstallInv
  <2>2. /\ UNCHANGED <<command, start>> /\ Wrote(r, q)'
        /\ pc' = Program!Unknown \/ (pc' = i + 6 /\ (r.script = "new" \/ Rest(q)'))
    BY <2>1, WroteRead, AnsweredIs, HoldsIs
  <2>3. Program!ResultIsTrue'
    BY <1>0, <2>2, NotYet
  <2>4. pc' = i + 6 => start'.script = "new" \/ Rest(q)'
    BY <1>0, <1>c, <2>2
  <2>5. InstallInv(i)'
    BY <1>0, <2>2, <2>4, SameCommand DEF InstallInv
  <2> QED
    BY <1>0, <2>2, <2>3, <2>5 DEF Program!Outcomes
<1>7. CASE pc = i + 6
  <2>1. Program!At = Program!Get("bindings", Program!Verified, Program!Unknown) /\ Wrote(r, q) /\ (s.script = "new" \/ now = q)
    BY <1>0, <1>7, InstallIs DEF InstallInv, Rest
  <2>2. /\ UNCHANGED <<command, start, now>>
        /\ pc' = Program!Unknown \/ (pc' = Program!Verified /\ (r.bound = command.bindings \/ Rest(q)'))
    BY <2>1, WroteRead, AnsweredIs, HoldsIs
  <2>3. ASSUME pc' = Program!Verified PROVE now'.script = "new" /\ now'.bound = command.bindings /\ now'.bound \subseteq now'.kv
    <3>1. now' = q \/ (now' = r /\ r.bound = command.bindings /\ s.script = "new")
      BY <2>1, <2>2, <2>3 DEF Wrote, Rest
    <3> QED
      BY <1>c, <1>d, <1>e, <3>1
  <2>4. pc' = Program!Verified => Program!ResultIsTrue'
    BY <2>2, <2>3, MeaningIs, Done
  <2>5. Program!ResultIsTrue'
    BY <1>0, <2>2, <2>4, NotYet
  <2>6. InstallInv(i)'
    BY <1>0, <2>2 DEF InstallInv
  <2> QED
    BY <1>0, <2>2, <2>5, <2>6 DEF Program!Outcomes
<1>8. pc \in {i, i + 1, i + 2, i + 3, i + 4, i + 5, i + 6}
  BY <1>0
<1> QED
  BY <1>1, <1>2, <1>3, <1>4, <1>5, <1>6, <1>7, <1>8

LEMMA CreateKeeps ==
  ASSUME CommandInv, command.kind = "create_worker", CreateInv, Program!Next
  PROVE  UNCHANGED <<command, start>> /\ CreateInv' /\ Program!ResultIsTrue'
<1> PICK s : s = start
  OBVIOUS
<1> USE DEF Program!Verified, Program!Failed, Program!Unknown
<1>0. Program!At = Program!Create[pc] /\ pc \in 1..8
  BY ProgramIs DEF Program!At, Program!Next, Program!Read, Program!Write, CreateInv, Positions
<1>1. CASE pc = 1
  <2>1. Program!At = Program!Get("absent", 2, Program!Failed) /\ Rest(s)
    BY <1>0, <1>1, CreateIs DEF CreateInv
  <2>2. UNCHANGED <<command, start>> /\ Rest(s)' /\ pc' \in {2, Program!Unknown, Program!Failed}
    BY <2>1, RestRead, AnsweredIs
  <2>3. pc' = Program!Failed => Program!ResultIsTrue'
    BY <2>2, Undone DEF Rest
  <2>4. Program!ResultIsTrue'
    BY <2>2, <2>3, NotYet
  <2>5. CreateInv'
    BY <2>2 DEF CreateInv, InstallInv, Positions, Program!Outcomes
  <2> QED
    BY <2>2, <2>4, <2>5
<1>2. CASE pc # 1
  <2>1. pc \in 2..8 /\ Program!At = Program!Install(2)[pc - 1]
    <3>1. pc - 1 \in 1..7 /\ (pc - 1) + 1 = pc
      BY <1>0, <1>2
    <3>2. Program!Create[(pc - 1) + 1] = Program!Install(2)[pc - 1]
      BY <3>1, CreateIs
    <3> QED
      BY <1>0, <1>2, <3>1, <3>2
  <2>2. pc - 2 + 1 = pc - 1 /\ InstallInv(2)
    BY <2>1 DEF CreateInv
  <2>3. UNCHANGED <<command, start>> /\ InstallInv(2)' /\ Program!ResultIsTrue' /\ pc' \in 2..8 \union Program!Outcomes
    BY <2>1, <2>2, InstallKeeps DEF Program!Titling
  <2>4. CreateInv'
    BY <2>3 DEF CreateInv, Positions, Program!Outcomes
  <2> QED
    BY <2>3, <2>4
<1> QED
  BY <1>1, <1>2

LEMMA ReplaceWorkerKeeps ==
  ASSUME CommandInv, command.kind = "replace_worker", ReplaceWorkerInv, Program!Next
  PROVE  UNCHANGED <<command, start>> /\ ReplaceWorkerInv' /\ Program!ResultIsTrue'
<1> PICK s : s = start
  OBVIOUS
<1> USE DEF Program!Verified, Program!Failed, Program!Unknown
<1>0. Program!At = Program!ReplaceWorker[pc] /\ pc \in 1..9
  BY ProgramIs DEF Program!At, Program!Next, Program!Read, Program!Write, ReplaceWorkerInv,
     Positions
<1>1. CASE pc \in 1..2
  <2>1. Rest(s) /\ (Program!At = Program!Get("present", 2, Program!Failed) \/ Program!At = Program!Get("plain", 3, Program!Unknown))
    BY <1>0, <1>1, ReplaceWorkerIs DEF ReplaceWorkerInv
  <2>2. UNCHANGED <<command, start>> /\ Rest(s)' /\ pc' \in {2, 3, Program!Unknown, Program!Failed}
    BY <2>1, RestRead, AnsweredIs
  <2>3. pc' = Program!Failed => Program!ResultIsTrue'
    BY <2>2, Undone DEF Rest
  <2>4. Program!ResultIsTrue'
    BY <2>2, <2>3, NotYet
  <2>5. ReplaceWorkerInv'
    BY <2>2 DEF ReplaceWorkerInv, InstallInv, Positions, Program!Outcomes
  <2> QED
    BY <2>2, <2>4, <2>5
<1>2. CASE pc \notin 1..2
  <2>1. pc \in 3..9 /\ Program!At = Program!Install(3)[pc - 2]
    <3>1. pc - 2 \in 1..7 /\ (pc - 2) + 2 = pc
      BY <1>0, <1>2
    <3>2. Program!ReplaceWorker[(pc - 2) + 2] = Program!Install(3)[pc - 2]
      BY <3>1, ReplaceWorkerIs
    <3> QED
      BY <1>0, <1>2, <3>1, <3>2
  <2>2. pc - 3 + 1 = pc - 2 /\ InstallInv(3)
    BY <2>1 DEF ReplaceWorkerInv
  <2>3. UNCHANGED <<command, start>> /\ InstallInv(3)' /\ Program!ResultIsTrue' /\ pc' \in 3..9 \union Program!Outcomes
    BY <2>1, <2>2, InstallKeeps DEF Program!Titling
  <2>4. ReplaceWorkerInv'
    BY <2>3 DEF ReplaceWorkerInv, Positions, Program!Outcomes
  <2> QED
    BY <2>3, <2>4
<1> QED
  BY <1>1, <1>2


(* A program about the name reads or writes it.                            *)
LEMMA NameRead ==
  ASSUME NamingInv, NEW test, NEW yes, NEW no, Program!At = Program!Get(test, yes, no), Program!Next
  PROVE  /\ UNCHANGED <<command, start, now>> /\ NamingInv' /\ before'.sub \in {now.sub, before.sub}
         /\ pc' = Program!Unknown \/ (pc' = yes /\ Program!Holds(test, before')) \/ (pc' = no /\ ~Program!Holds(test, before'))
<1>1. /\ UNCHANGED <<command, start, now>> /\ before' \in {now, before}
      /\ pc' = Program!Unknown \/ (pc' = yes /\ Program!Holds(test, before')) \/ (pc' = no /\ ~Program!Holds(test, before'))
  BY ReadEffect, AnsweredIs
<1>2. NamingInv'
  BY <1>1 DEF NamingInv, Called
<1> QED
  BY <1>1, <1>2

LEMMA NameWrite ==
  ASSUME CommandInv, NamingInv, NEW write, NEW then, NEW rejected,
         Program!At = Program!Put(write, then, rejected), Program!Next, NEW x,
         Program!Applied(write, now) = [now EXCEPT !.sub = x]
  PROVE  /\ UNCHANGED <<command, start>> /\ NamingInv'
         /\ \/ now'.sub = x /\ before'.sub = now.sub /\ pc' \in {then, Program!Unknown}
            \/ now'.sub = now.sub /\ before'.sub = before.sub /\ pc' \in {then, Program!Unknown, rejected}
<1> PICK s, n, b : s = start /\ n = now /\ b = before
  OBVIOUS
<1>1. /\ UNCHANGED <<command, start>>
      /\ \/ now' = [n EXCEPT !.sub = x] /\ before' = n /\ pc' \in {then, Program!Unknown}
         \/ now' = n /\ before' = b /\ pc' \in {then, Program!Unknown, rejected}
  BY WriteEffect
<1>2. n = [s EXCEPT !.sub = n.sub] /\ b = [s EXCEPT !.sub = b.sub] /\ s \in Program!Provider
  BY DEF NamingInv, Called, CommandInv
<1>3. [n EXCEPT !.sub = x] = [s EXCEPT !.sub = x] /\ [n EXCEPT !.sub = x].sub = x
  BY <1>2 DEF Program!Provider
<1>4. CASE now' = [n EXCEPT !.sub = x] /\ before' = n /\ pc' \in {then, Program!Unknown}
  <2>1. now' = [start' EXCEPT !.sub = now'.sub] /\ before' = [start' EXCEPT !.sub = before'.sub]
    BY <1>1, <1>2, <1>3, <1>4
  <2>2. NamingInv'
    BY <2>1 DEF NamingInv, Called
  <2> QED
    BY <1>1, <1>3, <1>4, <2>2
<1>5. CASE now' = n /\ before' = b /\ pc' \in {then, Program!Unknown, rejected}
  <2>1. now' = [start' EXCEPT !.sub = now'.sub] /\ before' = [start' EXCEPT !.sub = before'.sub]
    BY <1>1, <1>2, <1>5
  <2>2. NamingInv'
    BY <2>1 DEF NamingInv, Called
  <2> QED
    BY <1>1, <1>5, <2>2
<1> QED
  BY <1>1, <1>4, <1>5

LEMMA NameOutcome ==
  ASSUME CommandInv, command.kind \in Program!Naming, UNCHANGED <<command, start>>, NamingInv',
         pc' = Program!Verified => now'.sub = "new", pc' = Program!Failed => now'.sub = start.sub
  PROVE  Program!ResultIsTrue'
<1> PICK s : s = start
  OBVIOUS
<1>1. now' = [s EXCEPT !.sub = now'.sub] /\ s \in Program!Provider
  BY DEF NamingInv, Called, CommandInv
<1>2. CASE pc' = Program!Verified
  <2>1. now' = Called("new")
    BY <1>1, <1>2 DEF Called
  <2> QED
    BY <1>2, <2>1, MeaningIs, Done
<1>3. CASE pc' = Program!Failed
  <2>1. now' = s
    BY <1>1, <1>3 DEF Program!Provider
  <2> QED
    BY <1>3, <2>1, Undone
<1> QED
  BY <1>2, <1>3, NotYet


LEMMA RenameKeeps ==
  ASSUME CommandInv, command.kind = "rename_subdomain", RenameInv, Program!Next
  PROVE  UNCHANGED <<command, start>> /\ RenameInv' /\ Program!ResultIsTrue'
<1> PICK o, n, b : o = start.sub /\ n = now.sub /\ b = before.sub
  OBVIOUS
<1>0. Program!At = Program!Rename[pc] /\ pc \in 1..6 /\ NamingInv /\ o \in {"none", "old", "new"} /\ command.kind \in Program!Naming
  BY ProgramIs DEF Program!At, Program!Next, Program!Read, Program!Write, CommandInv,
     Program!Provider, RenameInv, Positions, Program!Naming
<1> USE DEF Program!Verified, Program!Failed, Program!Unknown
<1>1. CASE pc = 1
  <2>1. Program!At = Program!Get("named", Program!Verified, 2)
    BY <1>0, <1>1 DEF Program!Rename
  <2>2. /\ UNCHANGED <<command, start, now>> /\ NamingInv' /\ before'.sub \in {n, b}
        /\ pc' = Program!Unknown \/ (pc' = Program!Verified /\ before'.sub = "new") \/ (pc' = 2 /\ before'.sub # "new")
    BY <1>0, <2>1, NameRead, HoldsIs
  <2>3. (pc' = Program!Verified => now'.sub = "new") /\ (pc' = Program!Failed => now'.sub = start.sub)
    BY <1>0, <1>1, <2>2 DEF RenameInv, Same
  <2>4. Program!ResultIsTrue'
    BY <1>0, <2>2, <2>3, NameOutcome
  <2>5. RenameInv'
    BY <1>0, <1>1, <2>2 DEF RenameInv, Same, Positions, Program!Outcomes
  <2> QED
    BY <2>2, <2>4, <2>5
<1>2. CASE pc = 2
  <2>1. Program!At = Program!Get("unnamed", 5, 3)
    BY <1>0, <1>2 DEF Program!Rename
  <2>2. /\ UNCHANGED <<command, start, now>> /\ NamingInv' /\ before'.sub \in {n, b}
        /\ pc' = Program!Unknown \/ (pc' = 5 /\ before'.sub = "none") \/ (pc' = 3 /\ before'.sub # "none")
    BY <1>0, <2>1, NameRead, HoldsIs
  <2>3. (pc' = Program!Verified => now'.sub = "new") /\ (pc' = Program!Failed => now'.sub = start.sub)
    BY <1>0, <1>2, <2>2 DEF RenameInv, Same
  <2>4. Program!ResultIsTrue'
    BY <1>0, <2>2, <2>3, NameOutcome
  <2>5. RenameInv'
    BY <1>0, <1>2, <2>2 DEF RenameInv, Same, Positions, Program!Outcomes
  <2> QED
    BY <2>2, <2>4, <2>5
<1>3. CASE pc = 3
  <2>1. Program!At = Program!Put("unname", 4, Program!Unknown)
    BY <1>0, <1>3 DEF Program!Rename
  <2>0. Program!Applied("unname", now) = [now EXCEPT !.sub = "none"]
    BY AppliedIs
  <2>2. /\ UNCHANGED <<command, start>> /\ NamingInv'
        /\ \/ now'.sub = "none" /\ before'.sub = n /\ pc' \in {4, Program!Unknown}
           \/ now'.sub = n /\ before'.sub = b /\ pc' \in {4, Program!Unknown}
    BY <1>0, <2>0, <2>1, NameWrite
  <2>3. (pc' = Program!Verified => now'.sub = "new") /\ (pc' = Program!Failed => now'.sub = start.sub)
    BY <1>0, <1>3, <2>2 DEF RenameInv, Same
  <2>4. Program!ResultIsTrue'
    BY <1>0, <2>2, <2>3, NameOutcome
  <2>5. RenameInv'
    BY <1>0, <1>3, <2>2 DEF RenameInv, Same, Positions, Program!Outcomes
  <2> QED
    BY <2>2, <2>4, <2>5
<1>4. CASE pc = 4
  <2>1. Program!At = Program!Put("name", 6, Program!Unknown)
    BY <1>0, <1>4 DEF Program!Rename
  <2>0. Program!Applied("name", now) = [now EXCEPT !.sub = "new"]
    BY AppliedIs
  <2>2. /\ UNCHANGED <<command, start>> /\ NamingInv'
        /\ \/ now'.sub = "new" /\ before'.sub = n /\ pc' \in {6, Program!Unknown}
           \/ now'.sub = n /\ before'.sub = b /\ pc' \in {6, Program!Unknown}
    BY <1>0, <2>0, <2>1, NameWrite
  <2>3. (pc' = Program!Verified => now'.sub = "new") /\ (pc' = Program!Failed => now'.sub = start.sub)
    BY <1>0, <1>4, <2>2 DEF RenameInv, Same
  <2>4. Program!ResultIsTrue'
    BY <1>0, <2>2, <2>3, NameOutcome
  <2>5. RenameInv'
    BY <1>0, <1>4, <2>2 DEF RenameInv, Same, Positions, Program!Outcomes
  <2> QED
    BY <2>2, <2>4, <2>5
<1>5. CASE pc = 5
  <2>1. Program!At = Program!Put("name", 6, Program!Failed)
    BY <1>0, <1>5 DEF Program!Rename
  <2>0. Program!Applied("name", now) = [now EXCEPT !.sub = "new"]
    BY AppliedIs
  <2>2. /\ UNCHANGED <<command, start>> /\ NamingInv'
        /\ \/ now'.sub = "new" /\ before'.sub = n /\ pc' \in {6, Program!Unknown}
           \/ now'.sub = n /\ before'.sub = b /\ pc' \in {6, Program!Unknown, Program!Failed}
    BY <1>0, <2>0, <2>1, NameWrite
  <2>3. (pc' = Program!Verified => now'.sub = "new") /\ (pc' = Program!Failed => now'.sub = start.sub)
    BY <1>0, <1>5, <2>2 DEF RenameInv, Same
  <2>4. Program!ResultIsTrue'
    BY <1>0, <2>2, <2>3, NameOutcome
  <2>5. RenameInv'
    BY <1>0, <1>5, <2>2 DEF RenameInv, Same, Positions, Program!Outcomes
  <2> QED
    BY <2>2, <2>4, <2>5
<1>6. CASE pc = 6
  <2>1. Program!At = Program!Get("named", Program!Verified, Program!Unknown)
    BY <1>0, <1>6 DEF Program!Rename
  <2>2. /\ UNCHANGED <<command, start, now>> /\ NamingInv' /\ before'.sub \in {n, b}
        /\ pc' = Program!Unknown \/ (pc' = Program!Verified /\ before'.sub = "new")
    BY <1>0, <2>1, NameRead, HoldsIs
  <2>3. (pc' = Program!Verified => now'.sub = "new") /\ (pc' = Program!Failed => now'.sub = start.sub)
    BY <1>0, <1>6, <2>2 DEF RenameInv, Same
  <2>4. Program!ResultIsTrue'
    BY <1>0, <2>2, <2>3, NameOutcome
  <2>5. RenameInv'
    BY <1>0, <1>6, <2>2 DEF RenameInv, Same, Positions, Program!Outcomes
  <2> QED
    BY <2>2, <2>4, <2>5
<1> QED
  BY <1>0, <1>1, <1>2, <1>3, <1>4, <1>5, <1>6

LEMMA ChangeKeeps ==
  ASSUME CommandInv, command.kind = "change_subdomain", ChangeInv, Program!Next
  PROVE  UNCHANGED <<command, start>> /\ ChangeInv' /\ Program!ResultIsTrue'
<1> PICK o, n, b : o = start.sub /\ n = now.sub /\ b = before.sub
  OBVIOUS
<1>0. Program!At = Program!Change[pc] /\ pc \in 1..11 /\ NamingInv /\ o \in {"none", "old", "new"} /\ command.kind \in Program!Naming
  BY ProgramIs DEF Program!At, Program!Next, Program!Read, Program!Write, CommandInv,
     Program!Provider, ChangeInv, Positions, Program!Naming
<1> USE DEF Program!Verified, Program!Failed, Program!Unknown
<1>1. CASE pc = 1
  <2>1. Program!At = Program!Put("name", 2, 3)
    BY <1>0, <1>1, ChangeIs
  <2>0. Program!Applied("name", now) = [now EXCEPT !.sub = "new"]
    BY AppliedIs
  <2>2. /\ UNCHANGED <<command, start>> /\ NamingInv'
        /\ \/ now'.sub = "new" /\ before'.sub = n /\ pc' \in {2, Program!Unknown}
           \/ now'.sub = n /\ before'.sub = b /\ pc' \in {2, Program!Unknown, 3}
    BY <1>0, <2>0, <2>1, NameWrite
  <2>3. (pc' = Program!Verified => now'.sub = "new") /\ (pc' = Program!Failed => now'.sub = start.sub)
    BY <1>0, <1>1, <2>2 DEF ChangeInv, Same
  <2>4. Program!ResultIsTrue'
    BY <1>0, <2>2, <2>3, NameOutcome
  <2>5. ChangeInv'
    BY <1>0, <1>1, <2>2 DEF ChangeInv, Same, Positions, Program!Outcomes
  <2> QED
    BY <2>2, <2>4, <2>5
<1>2. CASE pc = 2
  <2>1. Program!At = Program!Get("named", Program!Verified, Program!Unknown)
    BY <1>0, <1>2, ChangeIs
  <2>2. /\ UNCHANGED <<command, start, now>> /\ NamingInv' /\ before'.sub \in {n, b}
        /\ pc' = Program!Unknown \/ (pc' = Program!Verified /\ before'.sub = "new")
    BY <1>0, <2>1, NameRead, HoldsIs
  <2>3. (pc' = Program!Verified => now'.sub = "new") /\ (pc' = Program!Failed => now'.sub = start.sub)
    BY <1>0, <1>2, <2>2 DEF ChangeInv, Same
  <2>4. Program!ResultIsTrue'
    BY <1>0, <2>2, <2>3, NameOutcome
  <2>5. ChangeInv'
    BY <1>0, <1>2, <2>2 DEF ChangeInv, Same, Positions, Program!Outcomes
  <2> QED
    BY <2>2, <2>4, <2>5
<1>3. CASE pc = 3
  <2>1. Program!At = Program!Get("unnamed", Program!Failed, 4)
    BY <1>0, <1>3, ChangeIs
  <2>2. /\ UNCHANGED <<command, start, now>> /\ NamingInv' /\ before'.sub \in {n, b}
        /\ pc' = Program!Unknown \/ (pc' = Program!Failed /\ before'.sub = "none") \/ (pc' = 4 /\ before'.sub # "none")
    BY <1>0, <2>1, NameRead, HoldsIs
  <2>3. (pc' = Program!Verified => now'.sub = "new") /\ (pc' = Program!Failed => now'.sub = start.sub)
    BY <1>0, <1>3, <2>2 DEF ChangeInv, Same
  <2>4. Program!ResultIsTrue'
    BY <1>0, <2>2, <2>3, NameOutcome
  <2>5. ChangeInv'
    BY <1>0, <1>3, <2>2 DEF ChangeInv, Same, Positions, Program!Outcomes
  <2> QED
    BY <2>2, <2>4, <2>5
<1>4. CASE pc = 4
  <2>1. Program!At = Program!Get("named", Program!Verified, 5)
    BY <1>0, <1>4, ChangeIs
  <2>2. /\ UNCHANGED <<command, start, now>> /\ NamingInv' /\ before'.sub \in {n, b}
        /\ pc' = Program!Unknown \/ (pc' = Program!Verified /\ before'.sub = "new") \/ (pc' = 5 /\ before'.sub # "new")
    BY <1>0, <2>1, NameRead, HoldsIs
  <2>3. (pc' = Program!Verified => now'.sub = "new") /\ (pc' = Program!Failed => now'.sub = start.sub)
    BY <1>0, <1>4, <2>2 DEF ChangeInv, Same
  <2>4. Program!ResultIsTrue'
    BY <1>0, <2>2, <2>3, NameOutcome
  <2>5. ChangeInv'
    BY <1>0, <1>4, <2>2 DEF ChangeInv, Same, Positions, Program!Outcomes
  <2> QED
    BY <2>2, <2>4, <2>5
<1>5. CASE pc = 5
  <2>1. Program!At = Program!Put("unname", 6, Program!Failed)
    BY <1>0, <1>5, ChangeIs
  <2>0. Program!Applied("unname", now) = [now EXCEPT !.sub = "none"]
    BY AppliedIs
  <2>2. /\ UNCHANGED <<command, start>> /\ NamingInv'
        /\ \/ now'.sub = "none" /\ before'.sub = n /\ pc' \in {6, Program!Unknown}
           \/ now'.sub = n /\ before'.sub = b /\ pc' \in {6, Program!Unknown, Program!Failed}
    BY <1>0, <2>0, <2>1, NameWrite
  <2>3. (pc' = Program!Verified => now'.sub = "new") /\ (pc' = Program!Failed => now'.sub = start.sub)
    BY <1>0, <1>5, <2>2 DEF ChangeInv, Same
  <2>4. Program!ResultIsTrue'
    BY <1>0, <2>2, <2>3, NameOutcome
  <2>5. ChangeInv'
    BY <1>0, <1>5, <2>2 DEF ChangeInv, Same, Positions, Program!Outcomes
  <2> QED
    BY <2>2, <2>4, <2>5
<1>6. CASE pc = 6
  <2>1. Program!At = Program!Get("unnamed", 7, Program!Unknown)
    BY <1>0, <1>6, ChangeIs
  <2>2. /\ UNCHANGED <<command, start, now>> /\ NamingInv' /\ before'.sub \in {n, b}
        /\ pc' = Program!Unknown \/ (pc' = 7 /\ before'.sub = "none")
    BY <1>0, <2>1, NameRead, HoldsIs
  <2>3. (pc' = Program!Verified => now'.sub = "new") /\ (pc' = Program!Failed => now'.sub = start.sub)
    BY <1>0, <1>6, <2>2 DEF ChangeInv, Same
  <2>4. Program!ResultIsTrue'
    BY <1>0, <2>2, <2>3, NameOutcome
  <2>5. ChangeInv'
    BY <1>0, <1>6, <2>2 DEF ChangeInv, Same, Positions, Program!Outcomes
  <2> QED
    BY <2>2, <2>4, <2>5
<1>7. CASE pc = 7
  <2>1. Program!At = Program!Put("name", 8, 10)
    BY <1>0, <1>7, ChangeIs
  <2>0. Program!Applied("name", now) = [now EXCEPT !.sub = "new"]
    BY AppliedIs
  <2>2. /\ UNCHANGED <<command, start>> /\ NamingInv'
        /\ \/ now'.sub = "new" /\ before'.sub = n /\ pc' \in {8, Program!Unknown}
           \/ now'.sub = n /\ before'.sub = b /\ pc' \in {8, Program!Unknown, 10}
    BY <1>0, <2>0, <2>1, NameWrite
  <2>3. (pc' = Program!Verified => now'.sub = "new") /\ (pc' = Program!Failed => now'.sub = start.sub)
    BY <1>0, <1>7, <2>2 DEF ChangeInv, Same
  <2>4. Program!ResultIsTrue'
    BY <1>0, <2>2, <2>3, NameOutcome
  <2>5. ChangeInv'
    BY <1>0, <1>7, <2>2 DEF ChangeInv, Same, Positions, Program!Outcomes
  <2> QED
    BY <2>2, <2>4, <2>5
<1>8. CASE pc = 8
  <2>1. Program!At = Program!Get("named", Program!Verified, 9)
    BY <1>0, <1>8, ChangeIs
  <2>2. /\ UNCHANGED <<command, start, now>> /\ NamingInv' /\ before'.sub \in {n, b}
        /\ pc' = Program!Unknown \/ (pc' = Program!Verified /\ before'.sub = "new") \/ (pc' = 9 /\ before'.sub # "new")
    BY <1>0, <2>1, NameRead, HoldsIs
  <2>3. (pc' = Program!Verified => now'.sub = "new") /\ (pc' = Program!Failed => now'.sub = start.sub)
    BY <1>0, <1>8, <2>2 DEF ChangeInv, Same
  <2>4. Program!ResultIsTrue'
    BY <1>0, <2>2, <2>3, NameOutcome
  <2>5. ChangeInv'
    BY <1>0, <1>8, <2>2 DEF ChangeInv, Same, Positions, Program!Outcomes
  <2> QED
    BY <2>2, <2>4, <2>5
<1>9. CASE pc = 9
  <2>1. Program!At = Program!Get("unnamed", 10, Program!Unknown)
    BY <1>0, <1>9, ChangeIs
  <2>2. /\ UNCHANGED <<command, start, now>> /\ NamingInv' /\ before'.sub \in {n, b}
        /\ pc' = Program!Unknown \/ (pc' = 10 /\ before'.sub = "none")
    BY <1>0, <2>1, NameRead, HoldsIs
  <2>3. (pc' = Program!Verified => now'.sub = "new") /\ (pc' = Program!Failed => now'.sub = start.sub)
    BY <1>0, <1>9, <2>2 DEF ChangeInv, Same
  <2>4. Program!ResultIsTrue'
    BY <1>0, <2>2, <2>3, NameOutcome
  <2>5. ChangeInv'
    BY <1>0, <1>9, <2>2 DEF ChangeInv, Same, Positions, Program!Outcomes
  <2> QED
    BY <2>2, <2>4, <2>5
<1>10. CASE pc = 10
  <2>1. Program!At = Program!Put("restore", 11, Program!Unknown)
    BY <1>0, <1>10, ChangeIs
  <2>0. Program!Applied("restore", now) = [now EXCEPT !.sub = o]
    BY AppliedIs
  <2>2. /\ UNCHANGED <<command, start>> /\ NamingInv'
        /\ \/ now'.sub = o /\ before'.sub = n /\ pc' \in {11, Program!Unknown}
           \/ now'.sub = n /\ before'.sub = b /\ pc' \in {11, Program!Unknown}
    BY <1>0, <2>0, <2>1, NameWrite
  <2>3. (pc' = Program!Verified => now'.sub = "new") /\ (pc' = Program!Failed => now'.sub = start.sub)
    BY <1>0, <1>10, <2>2 DEF ChangeInv, Same
  <2>4. Program!ResultIsTrue'
    BY <1>0, <2>2, <2>3, NameOutcome
  <2>5. ChangeInv'
    BY <1>0, <1>10, <2>2 DEF ChangeInv, Same, Positions, Program!Outcomes
  <2> QED
    BY <2>2, <2>4, <2>5
<1>11. CASE pc = 11
  <2>1. Program!At = Program!Get("restored", Program!Failed, Program!Unknown)
    BY <1>0, <1>11, ChangeIs
  <2>2. /\ UNCHANGED <<command, start, now>> /\ NamingInv' /\ before'.sub \in {n, b}
        /\ pc' = Program!Unknown \/ (pc' = Program!Failed /\ before'.sub = o)
    BY <1>0, <2>1, NameRead, HoldsIs
  <2>3. (pc' = Program!Verified => now'.sub = "new") /\ (pc' = Program!Failed => now'.sub = start.sub)
    BY <1>0, <1>11, <2>2 DEF ChangeInv, Same
  <2>4. Program!ResultIsTrue'
    BY <1>0, <2>2, <2>3, NameOutcome
  <2>5. ChangeInv'
    BY <1>0, <1>11, <2>2 DEF ChangeInv, Same, Positions, Program!Outcomes
  <2> QED
    BY <2>2, <2>4, <2>5
<1> QED
  BY <1>0, <1>1, <1>2, <1>3, <1>4, <1>5, <1>6, <1>7, <1>8, <1>9, <1>10, <1>11

LEMMA RotateKeeps ==
  ASSUME CommandInv, command.kind = "rotate_subdomain", RotateInv, Program!Next
  PROVE  UNCHANGED <<command, start>> /\ RotateInv' /\ Program!ResultIsTrue'
<1> PICK o, n, b : o = start.sub /\ n = now.sub /\ b = before.sub
  OBVIOUS
<1>0. Program!At = Program!Rotate[pc] /\ pc \in 1..6 /\ NamingInv /\ o \in {"none", "old", "new"} /\ command.kind \in Program!Naming
  BY ProgramIs DEF Program!At, Program!Next, Program!Read, Program!Write, CommandInv,
     Program!Provider, RotateInv, Positions, Program!Naming
<1> USE DEF Program!Verified, Program!Failed, Program!Unknown
<1>1. CASE pc = 1
  <2>1. Program!At = Program!Get("unnamed", Program!Failed, 2)
    BY <1>0, <1>1 DEF Program!Rotate
  <2>2. /\ UNCHANGED <<command, start, now>> /\ NamingInv' /\ before'.sub \in {n, b}
        /\ pc' = Program!Unknown \/ (pc' = Program!Failed /\ before'.sub = "none") \/ (pc' = 2 /\ before'.sub # "none")
    BY <1>0, <2>1, NameRead, HoldsIs
  <2>3. (pc' = Program!Verified => now'.sub = "new") /\ (pc' = Program!Failed => now'.sub = start.sub)
    BY <1>0, <1>1, <2>2 DEF RotateInv, Same
  <2>4. Program!ResultIsTrue'
    BY <1>0, <2>2, <2>3, NameOutcome
  <2>5. RotateInv'
    BY <1>0, <1>1, <2>2 DEF RotateInv, Same, Positions, Program!Outcomes
  <2> QED
    BY <2>2, <2>4, <2>5
<1>2. CASE pc = 2
  <2>1. Program!At = Program!Get("named", Program!Unknown, 3)
    BY <1>0, <1>2 DEF Program!Rotate
  <2>2. /\ UNCHANGED <<command, start, now>> /\ NamingInv' /\ before'.sub \in {n, b}
        /\ pc' = Program!Unknown \/ (pc' = Program!Unknown /\ before'.sub = "new") \/ (pc' = 3 /\ before'.sub # "new")
    BY <1>0, <2>1, NameRead, HoldsIs
  <2>3. (pc' = Program!Verified => now'.sub = "new") /\ (pc' = Program!Failed => now'.sub = start.sub)
    BY <1>0, <1>2, <2>2 DEF RotateInv, Same
  <2>4. Program!ResultIsTrue'
    BY <1>0, <2>2, <2>3, NameOutcome
  <2>5. RotateInv'
    BY <1>0, <1>2, <2>2 DEF RotateInv, Same, Positions, Program!Outcomes
  <2> QED
    BY <2>2, <2>4, <2>5
<1>3. CASE pc = 3
  <2>1. Program!At = Program!Put("unname", 4, Program!Unknown)
    BY <1>0, <1>3 DEF Program!Rotate
  <2>0. Program!Applied("unname", now) = [now EXCEPT !.sub = "none"]
    BY AppliedIs
  <2>2. /\ UNCHANGED <<command, start>> /\ NamingInv'
        /\ \/ now'.sub = "none" /\ before'.sub = n /\ pc' \in {4, Program!Unknown}
           \/ now'.sub = n /\ before'.sub = b /\ pc' \in {4, Program!Unknown}
    BY <1>0, <2>0, <2>1, NameWrite
  <2>3. (pc' = Program!Verified => now'.sub = "new") /\ (pc' = Program!Failed => now'.sub = start.sub)
    BY <1>0, <1>3, <2>2 DEF RotateInv, Same
  <2>4. Program!ResultIsTrue'
    BY <1>0, <2>2, <2>3, NameOutcome
  <2>5. RotateInv'
    BY <1>0, <1>3, <2>2 DEF RotateInv, Same, Positions, Program!Outcomes
  <2> QED
    BY <2>2, <2>4, <2>5
<1>4. CASE pc = 4
  <2>1. Program!At = Program!Get("unnamed", 5, Program!Unknown)
    BY <1>0, <1>4 DEF Program!Rotate
  <2>2. /\ UNCHANGED <<command, start, now>> /\ NamingInv' /\ before'.sub \in {n, b}
        /\ pc' = Program!Unknown \/ (pc' = 5 /\ before'.sub = "none")
    BY <1>0, <2>1, NameRead, HoldsIs
  <2>3. (pc' = Program!Verified => now'.sub = "new") /\ (pc' = Program!Failed => now'.sub = start.sub)
    BY <1>0, <1>4, <2>2 DEF RotateInv, Same
  <2>4. Program!ResultIsTrue'
    BY <1>0, <2>2, <2>3, NameOutcome
  <2>5. RotateInv'
    BY <1>0, <1>4, <2>2 DEF RotateInv, Same, Positions, Program!Outcomes
  <2> QED
    BY <2>2, <2>4, <2>5
<1>5. CASE pc = 5
  <2>1. Program!At = Program!Put("name", 6, Program!Unknown)
    BY <1>0, <1>5 DEF Program!Rotate
  <2>0. Program!Applied("name", now) = [now EXCEPT !.sub = "new"]
    BY AppliedIs
  <2>2. /\ UNCHANGED <<command, start>> /\ NamingInv'
        /\ \/ now'.sub = "new" /\ before'.sub = n /\ pc' \in {6, Program!Unknown}
           \/ now'.sub = n /\ before'.sub = b /\ pc' \in {6, Program!Unknown}
    BY <1>0, <2>0, <2>1, NameWrite
  <2>3. (pc' = Program!Verified => now'.sub = "new") /\ (pc' = Program!Failed => now'.sub = start.sub)
    BY <1>0, <1>5, <2>2 DEF RotateInv, Same
  <2>4. Program!ResultIsTrue'
    BY <1>0, <2>2, <2>3, NameOutcome
  <2>5. RotateInv'
    BY <1>0, <1>5, <2>2 DEF RotateInv, Same, Positions, Program!Outcomes
  <2> QED
    BY <2>2, <2>4, <2>5
<1>6. CASE pc = 6
  <2>1. Program!At = Program!Get("named", Program!Verified, Program!Unknown)
    BY <1>0, <1>6 DEF Program!Rotate
  <2>2. /\ UNCHANGED <<command, start, now>> /\ NamingInv' /\ before'.sub \in {n, b}
        /\ pc' = Program!Unknown \/ (pc' = Program!Verified /\ before'.sub = "new")
    BY <1>0, <2>1, NameRead, HoldsIs
  <2>3. (pc' = Program!Verified => now'.sub = "new") /\ (pc' = Program!Failed => now'.sub = start.sub)
    BY <1>0, <1>6, <2>2 DEF RotateInv, Same
  <2>4. Program!ResultIsTrue'
    BY <1>0, <2>2, <2>3, NameOutcome
  <2>5. RotateInv'
    BY <1>0, <1>6, <2>2 DEF RotateInv, Same, Positions, Program!Outcomes
  <2> QED
    BY <2>2, <2>4, <2>5
<1> QED
  BY <1>0, <1>1, <1>2, <1>3, <1>4, <1>5, <1>6

(* A pause changes nothing of this.                                        *)
LEMMA ExecPause ==
  ASSUME ExecInv, UNCHANGED Program!vars
  PROVE  ExecInv'
<1>1. UNCHANGED <<command, start, now, before, pc>>
  BY DEF Program!vars
<1>2. CommandInv'
  BY <1>1, SameCommand DEF ExecInv
<1>3. RenameInv => RenameInv'
  BY <1>1, SameCommand DEF RenameInv, Positions, Program!Outcomes, Rest, Wrote, NamingInv, Called,
     Same
<1>4. ChangeInv => ChangeInv'
  BY <1>1, SameCommand DEF ChangeInv, Positions, Program!Outcomes, Rest, Wrote, NamingInv, Called,
     Same
<1>5. RotateInv => RotateInv'
  BY <1>1, SameCommand DEF RotateInv, Positions, Program!Outcomes, Rest, Wrote, NamingInv, Called,
     Same
<1>6. CreateInv => CreateInv'
  BY <1>1, SameCommand DEF CreateInv, Positions, Program!Outcomes, Rest, Wrote, InstallInv
<1>7. ReplaceWorkerInv => ReplaceWorkerInv'
  BY <1>1, SameCommand DEF ReplaceWorkerInv, Positions, Program!Outcomes, Rest, Wrote, InstallInv
<1>8. UploadInv => UploadInv'
  BY <1>1, SameCommand DEF UploadInv, Positions, Program!Outcomes, Rest, Wrote
<1>9. ManualUploadInv => ManualUploadInv'
  BY <1>1, SameCommand DEF ManualUploadInv, Positions, Program!Outcomes, Rest, Wrote
<1>10. RepairInv => RepairInv'
  BY <1>1, SameCommand DEF RepairInv, Positions, Program!Outcomes, Rest, Wrote, Restoring, Whole,
     Unrouted, Routed, Unflagged, Flagged
<1>11. RemoveWorkerInv => RemoveWorkerInv'
  BY <1>1, SameCommand DEF RemoveWorkerInv, Positions, Program!Outcomes, Rest, Wrote
<1>12. DeleteWorkerInv => DeleteWorkerInv'
  BY <1>1, SameCommand DEF DeleteWorkerInv, Positions, Program!Outcomes, Rest, Wrote
<1>13. CleanupKvInv => CleanupKvInv'
  BY <1>1, SameCommand DEF CleanupKvInv, Positions, Program!Outcomes, Rest, Wrote
<1>14. DeleteKvInv => DeleteKvInv'
  BY <1>1, SameCommand DEF DeleteKvInv, Positions, Program!Outcomes, Rest, Wrote
<1>15. ConfigureDomainInv => ConfigureDomainInv'
  <2>1. Program!Applied(IF command.hostname THEN "assign" ELSE "enable", start)' = Program!Applied(IF command.hostname THEN "assign" ELSE "enable", start)
    <3>1. CASE command.hostname
      BY <1>1, <3>1, SameCommand
    <3>2. CASE ~command.hostname
      BY <1>1, <3>2, SameCommand
    <3> QED
      BY <3>1, <3>2
  <2> QED
    BY <1>1, <2>1 DEF ConfigureDomainInv, Positions, Program!Outcomes, Rest, Wrote
<1>16. WriteNodesInv => WriteNodesInv'
  BY <1>1, SameCommand DEF WriteNodesInv, Positions, Program!Outcomes, Rest, Wrote
<1>17. ProgramInv'
  BY <1>1, <1>3, <1>4, <1>5, <1>6, <1>7, <1>8, <1>9, <1>10, <1>11, <1>12, <1>13, <1>14, <1>15,
     <1>16 DEF ExecInv, ProgramInv
<1>18. Program!ResultIsTrue'
  <2>1. Program!Meaning => Program!Meaning'
    BY <1>1 DEF Program!Meaning, Program!Gone, Program!Naming, Program!Titling
  <2>2. Program!Verified # Program!Failed /\ (pc = Program!Verified => Program!Meaning) /\ Program!FailedIsUndone
    BY DEF ExecInv, Program!ResultIsTrue, Program!VerifiedIsDone, Program!Verified, Program!Failed
  <2>3. Program!FailedIsUndone'
    BY <1>1, <2>2 DEF Program!FailedIsUndone
  <2>4. Program!VerifiedIsDone'
    BY <1>1, <2>1, <2>2 DEF Program!VerifiedIsDone
  <2> QED
    BY <2>3, <2>4 DEF Program!ResultIsTrue
<1> QED
  BY <1>2, <1>17, <1>18 DEF ExecInv

LEMMA ExecStep ==
  ASSUME ExecInv, Program!Next
  PROVE  ExecInv'
<1>1. CASE command.kind = "rename_subdomain"
  <2>1. UNCHANGED <<command, start>> /\ RenameInv' /\ Program!ResultIsTrue'
    BY <1>1, RenameKeeps DEF ExecInv, ProgramInv
  <2>2. ProgramInv'
    BY <1>1, <2>1 DEF ProgramInv
  <2> QED
    BY <2>1, <2>2, SameCommand DEF ExecInv
<1>2. CASE command.kind = "change_subdomain"
  <2>1. UNCHANGED <<command, start>> /\ ChangeInv' /\ Program!ResultIsTrue'
    BY <1>2, ChangeKeeps DEF ExecInv, ProgramInv
  <2>2. ProgramInv'
    BY <1>2, <2>1 DEF ProgramInv
  <2> QED
    BY <2>1, <2>2, SameCommand DEF ExecInv
<1>3. CASE command.kind = "rotate_subdomain"
  <2>1. UNCHANGED <<command, start>> /\ RotateInv' /\ Program!ResultIsTrue'
    BY <1>3, RotateKeeps DEF ExecInv, ProgramInv
  <2>2. ProgramInv'
    BY <1>3, <2>1 DEF ProgramInv
  <2> QED
    BY <2>1, <2>2, SameCommand DEF ExecInv
<1>4. CASE command.kind = "create_worker"
  <2>1. UNCHANGED <<command, start>> /\ CreateInv' /\ Program!ResultIsTrue'
    BY <1>4, CreateKeeps DEF ExecInv, ProgramInv
  <2>2. ProgramInv'
    BY <1>4, <2>1 DEF ProgramInv
  <2> QED
    BY <2>1, <2>2, SameCommand DEF ExecInv
<1>5. CASE command.kind = "replace_worker"
  <2>1. UNCHANGED <<command, start>> /\ ReplaceWorkerInv' /\ Program!ResultIsTrue'
    BY <1>5, ReplaceWorkerKeeps DEF ExecInv, ProgramInv
  <2>2. ProgramInv'
    BY <1>5, <2>1 DEF ProgramInv
  <2> QED
    BY <2>1, <2>2, SameCommand DEF ExecInv
<1>6. CASE command.kind = "upload"
  <2>1. UNCHANGED <<command, start>> /\ UploadInv' /\ Program!ResultIsTrue'
    BY <1>6, UploadKeeps DEF ExecInv, ProgramInv
  <2>2. ProgramInv'
    BY <1>6, <2>1 DEF ProgramInv
  <2> QED
    BY <2>1, <2>2, SameCommand DEF ExecInv
<1>7. CASE command.kind = "manual_upload"
  <2>1. UNCHANGED <<command, start>> /\ ManualUploadInv' /\ Program!ResultIsTrue'
    BY <1>7, ManualUploadKeeps DEF ExecInv, ProgramInv
  <2>2. ProgramInv'
    BY <1>7, <2>1 DEF ProgramInv
  <2> QED
    BY <2>1, <2>2, SameCommand DEF ExecInv
<1>8. CASE command.kind = "repair_worker"
  <2>1. UNCHANGED <<command, start>> /\ RepairInv' /\ Program!ResultIsTrue'
    BY <1>8, RepairKeeps DEF ExecInv, ProgramInv
  <2>2. ProgramInv'
    BY <1>8, <2>1 DEF ProgramInv
  <2> QED
    BY <2>1, <2>2, SameCommand DEF ExecInv
<1>9. CASE command.kind = "remove_worker"
  <2>1. UNCHANGED <<command, start>> /\ RemoveWorkerInv' /\ Program!ResultIsTrue'
    BY <1>9, RemoveWorkerKeeps DEF ExecInv, ProgramInv
  <2>2. ProgramInv'
    BY <1>9, <2>1 DEF ProgramInv
  <2> QED
    BY <2>1, <2>2, SameCommand DEF ExecInv
<1>10. CASE command.kind = "delete_worker"
  <2>1. UNCHANGED <<command, start>> /\ DeleteWorkerInv' /\ Program!ResultIsTrue'
    BY <1>10, DeleteWorkerKeeps DEF ExecInv, ProgramInv
  <2>2. ProgramInv'
    BY <1>10, <2>1 DEF ProgramInv
  <2> QED
    BY <2>1, <2>2, SameCommand DEF ExecInv
<1>11. CASE command.kind = "cleanup_kv"
  <2>1. UNCHANGED <<command, start>> /\ CleanupKvInv' /\ Program!ResultIsTrue'
    BY <1>11, CleanupKvKeeps DEF ExecInv, ProgramInv
  <2>2. ProgramInv'
    BY <1>11, <2>1 DEF ProgramInv
  <2> QED
    BY <2>1, <2>2, SameCommand DEF ExecInv
<1>12. CASE command.kind = "delete_kv"
  <2>1. UNCHANGED <<command, start>> /\ DeleteKvInv' /\ Program!ResultIsTrue'
    BY <1>12, DeleteKvKeeps DEF ExecInv, ProgramInv
  <2>2. ProgramInv'
    BY <1>12, <2>1 DEF ProgramInv
  <2> QED
    BY <2>1, <2>2, SameCommand DEF ExecInv
<1>13. CASE command.kind = "configure_domain"
  <2>1. UNCHANGED <<command, start>> /\ ConfigureDomainInv' /\ Program!ResultIsTrue'
    BY <1>13, ConfigureDomainKeeps DEF ExecInv, ProgramInv
  <2>2. ProgramInv'
    BY <1>13, <2>1 DEF ProgramInv
  <2> QED
    BY <2>1, <2>2, SameCommand DEF ExecInv
<1>14. CASE command.kind = "write_nodes"
  <2>1. UNCHANGED <<command, start>> /\ WriteNodesInv' /\ Program!ResultIsTrue'
    BY <1>14, WriteNodesKeeps DEF ExecInv, ProgramInv
  <2>2. ProgramInv'
    BY <1>14, <2>1 DEF ProgramInv
  <2> QED
    BY <2>1, <2>2, SameCommand DEF ExecInv
<1> QED
  BY <1>1, <1>2, <1>3, <1>4, <1>5, <1>6, <1>7, <1>8, <1>9, <1>10, <1>11, <1>12, <1>13,
     <1>14 DEF ExecInv, CommandInv, Known

LEMMA ExecInit ==
  ASSUME Program!Init
  PROVE  ExecInv
<1> PICK s : s = start
  OBVIOUS
<1>1. s \in Program!Provider /\ Program!Real(s) /\ now = s /\ before = s /\ pc = 1
  BY DEF Program!Init
<1>2. PICK kind \in Kinds, n \in Namespaces, hostname \in BOOLEAN, planned \in {s.bound, {}} :
        command = [kind |-> kind, namespace |-> n, hostname |-> hostname, planned |-> planned, bindings |-> Program!Meant(kind, s, n)]
  BY DEF Program!Init
<1>3. /\ command.kind = kind /\ command.namespace = n /\ command.bindings = Program!Meant(kind, s, n) /\ kind \in Known
  BY <1>2, KindsAssumption DEF Known
<1>4. Program!Meant(kind, s, n) = IF kind \in Program!Titling /\ s.titled = {} THEN {n} ELSE IF kind \in Program!Titling THEN s.titled ELSE s.bound
  BY DEF Program!Meant
<1>5. CommandInv
  BY <1>1, <1>2, <1>3, <1>4 DEF CommandInv
<1>6. s = Called(s.sub)
  BY <1>1 DEF Called, Program!Provider
<1>7. RenameInv
  BY <1>1, <1>6 DEF RenameInv, Positions, Program!Outcomes, Rest, Program!Verified,
     Program!Failed, Program!Unknown, NamingInv, Same
<1>8. ChangeInv
  BY <1>1, <1>6 DEF ChangeInv, Positions, Program!Outcomes, Rest, Program!Verified,
     Program!Failed, Program!Unknown, NamingInv, Same
<1>9. RotateInv
  BY <1>1, <1>6 DEF RotateInv, Positions, Program!Outcomes, Rest, Program!Verified,
     Program!Failed, Program!Unknown, NamingInv, Same
<1>10. CreateInv
  BY <1>1, <1>6 DEF CreateInv, Positions, Program!Outcomes, Rest, Program!Verified,
     Program!Failed, Program!Unknown, InstallInv
<1>11. ReplaceWorkerInv
  BY <1>1, <1>6 DEF ReplaceWorkerInv, Positions, Program!Outcomes, Rest, Program!Verified,
     Program!Failed, Program!Unknown, InstallInv
<1>12. UploadInv
  BY <1>1, <1>6 DEF UploadInv, Positions, Program!Outcomes, Rest, Program!Verified,
     Program!Failed, Program!Unknown
<1>13. ManualUploadInv
  BY <1>1, <1>6 DEF ManualUploadInv, Positions, Program!Outcomes, Rest, Program!Verified,
     Program!Failed, Program!Unknown
<1>14. RepairInv
  BY <1>1, <1>6 DEF RepairInv, Positions, Program!Outcomes, Rest, Program!Verified,
     Program!Failed, Program!Unknown, Restoring
<1>15. RemoveWorkerInv
  BY <1>1, <1>6 DEF RemoveWorkerInv, Positions, Program!Outcomes, Rest, Program!Verified,
     Program!Failed, Program!Unknown
<1>16. DeleteWorkerInv
  BY <1>1, <1>6 DEF DeleteWorkerInv, Positions, Program!Outcomes, Rest, Program!Verified,
     Program!Failed, Program!Unknown
<1>17. CleanupKvInv
  BY <1>1, <1>6 DEF CleanupKvInv, Positions, Program!Outcomes, Rest, Program!Verified,
     Program!Failed, Program!Unknown
<1>18. DeleteKvInv
  BY <1>1, <1>6 DEF DeleteKvInv, Positions, Program!Outcomes, Rest, Program!Verified,
     Program!Failed, Program!Unknown
<1>19. ConfigureDomainInv
  BY <1>1, <1>6 DEF ConfigureDomainInv, Positions, Program!Outcomes, Rest, Program!Verified,
     Program!Failed, Program!Unknown
<1>20. WriteNodesInv
  BY <1>1, <1>6 DEF WriteNodesInv, Positions, Program!Outcomes, Rest, Program!Verified,
     Program!Failed, Program!Unknown
<1>21. Program!ResultIsTrue
  BY <1>1 DEF Program!ResultIsTrue, Program!VerifiedIsDone, Program!FailedIsUndone,
     Program!Verified, Program!Failed
<1> QED
  BY <1>5, <1>7, <1>8, <1>9, <1>10, <1>11, <1>12, <1>13, <1>14, <1>15, <1>16, <1>17, <1>18, <1>19,
     <1>20, <1>21 DEF ExecInv, ProgramInv

LEMMA ProgramStep ==
  ASSUME part = "program" => ExecInv, [PartsNext]_partVars
  PROVE  (part = "program" => ExecInv)'
<1> SUFFICES ASSUME part' = "program" PROVE ExecInv'
  OBVIOUS
<1>1. part = "program" /\ (Program!Next \/ UNCHANGED Program!vars)
  BY DEF PartsNext, NextLedger, NextProgram, NextDrain, NextFlows, NextRelease, partVars,
     programVars, Program!vars
<1> QED
  BY <1>1, ExecStep, ExecPause

(* A program that runs is where its reads and writes left it.               *)
THEOREM ProgramInvariant == PartsSpec => [](part = "program" => ExecInv)
<1>1. PartsInit => (part = "program" => ExecInv)
  BY ExecInit DEF PartsInit
<1>2. (part = "program" => ExecInv) /\ [PartsNext]_partVars => (part = "program" => ExecInv)'
  BY ProgramStep
<1> QED
  BY <1>1, <1>2, PTL DEF PartsSpec

(* A verified step did what its command means, and a failed one left the   *)
(* account as it was, whatever the provider applies, ignores or refuses    *)
(* and whichever answers are lost or stale (business-executor.ts,          *)
(* repair-executor.ts).                                                    *)
THEOREM ResultsAreTrue == PartsSpec => []ResultIsTrue
<1>1. (part = "program" => ExecInv) => ResultIsTrue
  BY DEF ExecInv, ResultIsTrue
<1> QED
  BY <1>1, ProgramInvariant, PTL
=============================================================================
