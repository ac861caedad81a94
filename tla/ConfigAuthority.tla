-------------------------- MODULE ConfigAuthority --------------------------
(* The configuration of the global object: the revisioned records of        *)
(* config-store.ts, the idempotent edits of config-editor.ts, the           *)
(* credentials of credential-authority.ts, what verified steps merge into   *)
(* the accounts (business-effects.ts) and the revision hints of             *)
(* config-projection.ts.  An edit awaits a digest, and an account edit the  *)
(* encryption of its credentials too: between two awaits anything else of   *)
(* this module may run, and a restart forgets whoever was waiting.          *)
EXTENDS Naturals, Sequences, FiniteSets, SequencesExt

CONSTANTS Accounts,  \* accounts that are stored or may be added
          Requests,  \* calls of edit
          KeyOf,     \* idempotency key of a request: a retry has the same key
          KindsOf,   \* bound: the kinds of edits composed under a key
          Tasks,     \* operations planned for an account
          MaxRev,    \* bound: revisions of a record
          MaxEpoch,  \* bound: maintenance switches
          None

VARIABLES maintenance, epoch, observing,  \* config_meta and the observation window of the policy
          accounts,   \* value of the record "accounts": credential revision (0: absent) and registered worker
          override,   \* does an account have an override record that is not null
          favorites,  \* value of the record "favorites": keys of the edits that added one
          rev,        \* revision of every record
          outbox, acked, projection, seeded,  \* config_outbox and config_projection
          receipts,   \* keys in config_edit_receipts
          base,       \* what the author of a key saw and asked for
          req, task

vars == <<maintenance, epoch, observing, accounts, override, favorites, rev, outbox, acked,
          projection, seeded, receipts, base, req, task>>
values == <<accounts, override, favorites, rev, outbox>>
control == <<maintenance, epoch, observing>>
hints == <<acked, projection, seeded>>

Keys == {KeyOf[r] : r \in Requests}
Domains == {"accounts", "favorites"} \union Accounts
Ops == [kind : {"add", "replace", "remove", "forget", "import"}, account : Accounts]
       \union [kind : {"favorite"}, account : {None}]
Target(op) == IF op.kind = "favorite" THEN "favorites" ELSE "accounts"
Values == [Accounts -> [cred : 0..MaxRev, worker : BOOLEAN]]
Composed == [op : Ops, epoch : 1..MaxEpoch, revision : 0..MaxRev, seen : Values \union SUBSET Keys]

ASSUME AccountsAssumption == IsFiniteSet(Accounts) /\ {"accounts", "favorites"} \intersect Accounts = {}
ASSUME BoundsAssumption == MaxRev \in Nat \ {0} /\ MaxEpoch \in Nat \ {0}
ASSUME NoneAssumption == None \notin Composed

Open == {t \in Tasks : task[t].state \in {"open", "verified"}}
Idle(as) == \A t \in Open : task[t].account \notin as
Waiting == {"digest", "merging", "encrypting"}

(* The value an account edit stores: the browser sends the whole list, and  *)
(* a changed credential gets the next revision.                             *)
Edited(op, acc) ==
    CASE op.kind = "add" -> [acc EXCEPT ![op.account] = [cred |-> 1, worker |-> FALSE]]
      [] op.kind \in {"replace", "import"} -> [acc EXCEPT ![op.account].cred = @ + 1]
      [] op.kind = "remove" -> [acc EXCEPT ![op.account] = [cred |-> 0, worker |-> FALSE]]
      [] OTHER -> [acc EXCEPT ![op.account].worker = FALSE]
Changed(old, new) == {a \in Accounts : old[a].cred # new[a].cred}
Removed(old, new) == {a \in Changed(old, new) : new[a].cred = 0}

Init == /\ maintenance = FALSE /\ epoch = 1 /\ observing \in BOOLEAN
        /\ \E stored \in SUBSET Accounts :
              accounts = [a \in Accounts |-> [cred |-> IF a \in stored THEN 1 ELSE 0, worker |-> FALSE]]
        /\ override = [a \in Accounts |-> FALSE] /\ favorites = {}
        /\ rev = [d \in Domains |-> IF d = "accounts" THEN 1 ELSE 0]
        /\ outbox = <<[domain |-> "accounts", revision |-> 1]>>
        /\ acked = 0 /\ projection = [d \in Domains |-> 0] /\ seeded = FALSE
        /\ receipts = {} /\ base = [k \in Keys |-> None]
        /\ req = [r \in Requests |-> [state |-> "idle", revs |-> None, watermark |-> 0, closed |-> FALSE]]
        /\ task = [t \in Tasks |-> [state |-> "none"]]

(* Every write of a record raises its revision and appends to the outbox.   *)
Store(ds) ==
    /\ \A d \in ds : rev[d] < MaxRev
    /\ rev' = [d \in Domains |-> IF d \in ds THEN rev[d] + 1 ELSE rev[d]]
    /\ outbox' = outbox \o [i \in 1..Cardinality(ds) |->
                    [domain |-> SetToSeq(ds)[i], revision |-> rev[SetToSeq(ds)[i]] + 1]]

-----------------------------------------------------------------------------
(* Maintenance, and the end of the observation window.                      *)
SetMaintenance == /\ epoch < MaxEpoch
                  /\ maintenance' = ~maintenance /\ epoch' = epoch + 1
                  /\ UNCHANGED <<observing, values, hints, receipts, base, req, task>>
ObservationEnds == /\ observing /\ observing' = FALSE
                   /\ UNCHANGED <<maintenance, epoch, values, hints, receipts, base, req, task>>

-----------------------------------------------------------------------------
(* An author reads a record and composes an edit of what it saw.            *)
Compose(k, op) ==
    /\ base[k] = None /\ op.kind \in KindsOf[k]
    /\ CASE op.kind = "add" -> accounts[op.account].cred = 0
         [] op.kind = "favorite" -> TRUE
         [] OTHER -> accounts[op.account].cred > 0
    /\ base' = [base EXCEPT ![k] = [op |-> op, epoch |-> epoch, revision |-> rev[Target(op)],
                                    seen |-> IF op.kind = "favorite" THEN favorites ELSE accounts]]
    /\ UNCHANGED <<control, values, hints, receipts, req, task>>

Send(r) == /\ req[r].state = "idle" /\ base[KeyOf[r]] # None
           /\ req' = [req EXCEPT ![r].state = "digest"]
           /\ UNCHANGED <<control, values, hints, receipts, base, task>>

Answered(r, how) == req' = [req EXCEPT ![r] = [state |-> how, revs |-> None, watermark |-> 0, closed |-> FALSE]]
(* replay: a receipt under the key answers the request.                     *)
Replay(r) == /\ KeyOf[r] \in receipts /\ Answered(r, "duplicate")
             /\ UNCHANGED <<control, values, hints, receipts, base, task>>
(* An error is answered by the receipt of a matching edit that committed.   *)
Fail(r) == \/ Replay(r)
           \/ /\ KeyOf[r] \notin receipts /\ Answered(r, "refused")
              /\ UNCHANGED <<control, values, hints, receipts, base, task>>
Stale(r) == LET b == base[KeyOf[r]] IN epoch # b.epoch \/ rev[Target(b.op)] # b.revision
Op(r) == base[KeyOf[r]].op

(* The edit goes on after its digest; an edit without encryption commits.   *)
Begin(r) ==
    /\ req[r].state = "digest"
    /\ \/ Replay(r)
       \/ KeyOf[r] \notin receipts /\ Stale(r) /\ Fail(r)
       \/ /\ KeyOf[r] \notin receipts /\ ~Stale(r) /\ Op(r).kind = "favorite" /\ maintenance /\ Fail(r)
       \/ /\ KeyOf[r] \notin receipts /\ ~Stale(r) /\ Op(r).kind = "favorite" /\ ~maintenance
          /\ favorites' = base[KeyOf[r]].seen \union {KeyOf[r]} /\ Store({"favorites"})
          /\ receipts' = receipts \union {KeyOf[r]} /\ Answered(r, "committed")
          /\ UNCHANGED <<control, accounts, override, hints, base, task>>
       \/ /\ KeyOf[r] \notin receipts /\ ~Stale(r) /\ Op(r).kind = "import"
          /\ IF maintenance \/ observing THEN Fail(r)
             ELSE /\ req' = [req EXCEPT ![r].state = "merging"]
                  /\ UNCHANGED <<control, values, hints, receipts, base, task>>
(* CredentialAuthority.write up to its await: the policy, the accounts and  *)
(* a complete view with its watermark.                                      *)
StartWrite(r) ==
    /\ \/ req[r].state = "digest" /\ KeyOf[r] \notin receipts /\ Op(r).kind \notin {"favorite", "import"}
       \/ req[r].state = "merging"
    /\ IF Stale(r) THEN Fail(r)
       ELSE /\ req' = [req EXCEPT ![r] = [state |-> "encrypting", closed |-> observing, watermark |-> Len(outbox),
                          revs |-> [a \in {x \in Accounts : override[x]} |-> rev[a]]]]
            /\ UNCHANGED <<control, values, hints, receipts, base, task>>
(* The transaction of compareAndSet with its barrier and its last guard.    *)
Cleanup(r, next) == Removed(accounts, next) \intersect DOMAIN req[r].revs
\* Faulty: no watermark is taken when an account is removed.
AllowedUnwatched(r, next) ==
    /\ ~(req[r].closed /\ Changed(base[KeyOf[r]].seen, next) # {})
    /\ ~maintenance /\ ~Stale(r) /\ \A a \in Cleanup(r, next) : rev[a] = req[r].revs[a]
    /\ (Op(r).kind = "import" => ~observing)
    /\ Idle(Changed(accounts, next)) /\ KeyOf[r] \notin receipts
\* Faulty: the view is compared before the encryption only.
AllowedOnOldView(r, next) ==
    /\ ~maintenance /\ Idle(Changed(accounts, next)) /\ KeyOf[r] \notin receipts
    /\ \A a \in Cleanup(r, next) : rev[a] = req[r].revs[a]
    /\ (Removed(accounts, next) # {} => Len(outbox) = req[r].watermark)
Allowed(r, next) ==
    /\ ~(req[r].closed /\ Changed(base[KeyOf[r]].seen, next) # {})
    /\ ~maintenance /\ ~Stale(r)
    /\ \A a \in Cleanup(r, next) : rev[a] = req[r].revs[a]
    /\ Removed(accounts, next) # {} => Len(outbox) = req[r].watermark
    /\ Op(r).kind = "import" => ~observing
    /\ Idle(Changed(accounts, next)) /\ KeyOf[r] \notin receipts
Commit(r) ==
    LET next == Edited(Op(r), base[KeyOf[r]].seen) IN
    /\ req[r].state = "encrypting"
    /\ IF ~Allowed(r, next) THEN Fail(r)
       ELSE /\ accounts' = next /\ Store({"accounts"} \union Cleanup(r, next))
            /\ override' = [a \in Accounts |-> override[a] /\ a \notin Cleanup(r, next)]
            /\ receipts' = receipts \union {KeyOf[r]} /\ Answered(r, "committed")
            /\ UNCHANGED <<control, favorites, hints, base, task>>
Restart == /\ \E r \in Requests : req[r].state \in Waiting
           /\ req' = [r \in Requests |-> IF req[r].state \in Waiting
                         THEN [req[r] EXCEPT !.state = "lost", !.revs = None, !.watermark = 0, !.closed = FALSE] ELSE req[r]]
           /\ UNCHANGED <<control, values, hints, receipts, base, task>>

-----------------------------------------------------------------------------
(* A task is planned on a view, admitted only if that view still stands,    *)
(* and merges what its steps verified into the current accounts.            *)
Plan(t, a, kind) ==
    /\ task[t].state = "none" /\ accounts[a].cred > 0
    /\ kind = "create" => ~accounts[a].worker
    /\ kind = "remove" => accounts[a].worker
    /\ task' = [task EXCEPT ![t] = [state |-> "planned", kind |-> kind, account |-> a, cred |-> accounts[a].cred,
                   epoch |-> epoch, accountsRev |-> rev["accounts"], overrideRev |-> rev[a]]]
    /\ UNCHANGED <<control, values, hints, receipts, base, req>>
Admit(t) ==
    /\ task[t].state = "planned" /\ ~maintenance /\ epoch = task[t].epoch
    /\ rev["accounts"] = task[t].accountsRev /\ rev[task[t].account] = task[t].overrideRev
    /\ task' = [task EXCEPT ![t].state = "open"]
    /\ IF task[t].kind = "override"
       THEN override' = [override EXCEPT ![task[t].account] = TRUE] /\ Store({task[t].account})
       ELSE UNCHANGED <<override, rev, outbox>>
    /\ UNCHANGED <<control, accounts, favorites, hints, receipts, base, req>>
\* Faulty: the merged accounts are not announced to the projection.
VerifyUnannounced(t) ==
    /\ task[t].state = "open" /\ task[t].kind # "override" /\ rev["accounts"] < MaxRev
    /\ task' = [task EXCEPT ![t].state = "verified"]
    /\ accounts' = [accounts EXCEPT ![task[t].account].worker = (task[t].kind = "create")]
    /\ rev' = [rev EXCEPT !["accounts"] = @ + 1]
    /\ UNCHANGED <<control, override, favorites, outbox, hints, receipts, base, req>>
Verify(t) ==
    LET a == task[t].account
        clears == task[t].kind = "remove" /\ override[a] /\ rev[a] = task[t].overrideRev IN
    /\ task[t].state = "open" /\ task[t].kind # "override"
    /\ task' = [task EXCEPT ![t].state = "verified"]
    /\ IF accounts[a].worker = (task[t].kind = "create") THEN UNCHANGED values
       ELSE /\ accounts' = [accounts EXCEPT ![a].worker = (task[t].kind = "create")]
            /\ Store({"accounts"} \union (IF clears THEN {a} ELSE {}))
            /\ override' = [override EXCEPT ![a] = @ /\ ~clears]
            /\ UNCHANGED favorites
    /\ UNCHANGED <<control, hints, receipts, base, req>>
Complete(t) == /\ t \in Open /\ task' = [task EXCEPT ![t].state = "over"]
               /\ UNCHANGED <<control, values, hints, receipts, base, req>>

-----------------------------------------------------------------------------
(* The projection is seeded from the records once, then fed by the outbox.  *)
MaxOf(S) == CHOOSE m \in S : \A n \in S : m >= n
Consume ==
    LET revisions(d) == {outbox[i].revision : i \in {j \in acked + 1 .. Len(outbox) : outbox[j].domain = d}} IN
    /\ acked < Len(outbox) \/ ~seeded
    /\ projection' = [d \in Domains |-> MaxOf({projection[d]} \union revisions(d) \union (IF seeded THEN {} ELSE {rev[d]}))]
    /\ acked' = Len(outbox) /\ seeded' = TRUE
    /\ UNCHANGED <<control, values, receipts, base, req, task>>

Next == \/ SetMaintenance \/ ObservationEnds \/ Restart
        \/ \E k \in Keys, op \in Ops : Compose(k, op)
        \/ \E r \in Requests : Send(r) \/ Begin(r) \/ StartWrite(r) \/ Commit(r)
        \/ \E t \in Tasks : \/ \E a \in Accounts, kind \in {"create", "remove", "override"} : Plan(t, a, kind)
                            \/ Admit(t) \/ Verify(t) \/ Complete(t)
        \/ Consume
Spec == Init /\ [][Next]_vars

-----------------------------------------------------------------------------
TypeOK ==
    /\ maintenance \in BOOLEAN /\ epoch \in 1..MaxEpoch /\ observing \in BOOLEAN
    /\ accounts \in Values
    /\ override \in [Accounts -> BOOLEAN] /\ favorites \subseteq Keys
    /\ rev \in [Domains -> 0..MaxRev] /\ receipts \subseteq Keys
    /\ acked \in 0..Len(outbox) /\ projection \in [Domains -> 0..MaxRev] /\ seeded \in BOOLEAN
    /\ \A r \in Requests : req[r].state \in Waiting \union {"idle", "committed", "duplicate", "refused", "lost"}
    /\ \A t \in Tasks : task[t].state \in {"none", "planned", "open", "verified", "over"}
(* Nobody writes a record without its event: the projection is never ahead  *)
(* of the records, and up to date in every record without a pending event.  *)
Pending(d) == \E i \in acked + 1 .. Len(outbox) : outbox[i].domain = d
ProjectionInSync ==
    \A d \in Domains : /\ projection[d] <= rev[d]
                       /\ seeded /\ ~Pending(d) => projection[d] = rev[d]
(* The records of the authority keep their types, and the hints that are    *)
(* projected from them (config-projection.ts) say what the records say.     *)
AuthorityIsConsistent == TypeOK /\ ProjectionInSync

(* The watermark and the barrier (config-store.ts:105-110): whatever is     *)
(* admitted while a removal is encrypted, no override outlives its account. *)
NoOverrideOutlivesItsAccount == \A a \in Accounts : override[a] => accounts[a].cred > 0

(* assertAccountsIdle and the barrier of the admission together: the        *)
(* credential a permit was planned with is the current one as long as the   *)
(* permit is open, so that its writes are not refused half-way.             *)
PermitsHoldCurrentCredentials == \A t \in Open : accounts[task[t].account].cred = task[t].cred

(* Credentials are current wherever they are used or referred to.           *)
CredentialsAreCurrent == NoOverrideOutlivesItsAccount /\ PermitsHoldCurrentCredentials

(* Every edit that commits was composed from the value it replaces, in the  *)
(* epoch it commits in: no edit undoes another one, or what a step merged   *)
(* into the accounts, without having seen it.                               *)
EditSeesTheLatest ==
    \A k \in receipts' \ receipts :
          /\ base[k].epoch = epoch
          /\ base[k].seen = IF base[k].op.kind = "favorite" THEN favorites ELSE accounts

(* One transaction stores an edit and its receipt, and errors ask for the   *)
(* receipt (config-editor.ts:169-228): an edit commits once, a duplicate    *)
(* was stored, and a refused edit was not.                                  *)
AnswerIsTrue ==
    \A r \in Requests : req'[r].state # req[r].state =>
          /\ req'[r].state = "committed" => KeyOf[r] \in receipts' \ receipts
          /\ req'[r].state = "duplicate" => KeyOf[r] \in receipts
          /\ req'[r].state = "refused" => KeyOf[r] \notin receipts'
(* Edits are neither lost nor blind, and their authors are told the truth.  *)
EditsAreTrue == [][EditSeesTheLatest /\ AnswerIsTrue]_vars
=============================================================================
