---------------------- MODULE ConfigurationPartsProofs ----------------------
(***************************************************************************)
(* Proofs about the authority of the configuration, the deployments before *)
(* there was one and a tab of the panel, for every set of accounts,        *)
(* requests, keys, tasks and workers and every bound.  AuthorityInv is the *)
(* inductive invariant of the authority: a revision stands for the value   *)
(* that was read with it, and a watermark for the overrides that were      *)
(* seen; the theorems about it are about ConfigAuthority by itself.        *)
(* LegacyInv and TabInv are those of the deployments and of the tab.       *)
(***************************************************************************)
EXTENDS ConfigurationParts, TLAPS, FiniteSetTheorems, SequenceTheorems

-----------------------------------------------------------------------------
(* The authority of the configuration.                                       *)
States == Waiting \union {"idle", "committed", "duplicate", "refused", "lost"}
Views == UNION {[S -> 0..MaxRev] : S \in SUBSET Accounts}
Event == [domain : Domains, revision : 0..MaxRev]
Planned == [state : {"planned", "open", "verified", "over"}, kind : {"create", "remove", "override"},
            account : Accounts, cred : 1..MaxRev, epoch : 1..MaxEpoch,
            accountsRev : 0..MaxRev, overrideRev : 0..MaxRev]

(* The types of what TypeOK leaves open. *)
RowTypes ==
    /\ outbox \in Seq(Event)
    /\ base \in [Keys -> {None} \union Composed]
    /\ req \in [Requests -> [state : States, revs : {None} \union Views, watermark : Nat, closed : BOOLEAN]]
    /\ task \in [Tasks -> [state : {"none"}] \union Planned]

(* A credential was changed at most as often as its record. *)
CredsCounted(acc, n) == \A a \in Accounts : acc[a].cred <= n

(* As long as a record has the revision an author read, it has the value    *)
(* the author saw.                                                          *)
RevisionNamesValue(b) ==
    /\ b.revision <= rev[Target(b.op)]
    /\ b.op.kind = "favorite" => /\ b.seen \subseteq Keys
                                 /\ rev["favorites"] = b.revision => favorites = b.seen
    /\ b.op.kind # "favorite" => /\ b.seen \in Values /\ CredsCounted(b.seen, b.revision)
                                 /\ rev["accounts"] = b.revision => accounts = b.seen
AuthorsKnowTheValue ==
    /\ CredsCounted(accounts, rev["accounts"])
    /\ \A k \in Keys : base[k] # None => RevisionNamesValue(base[k])

(* A request that is under way was composed.  As long as nothing was        *)
(* announced since its view was taken, the view has every override.         *)
RequestInv(r) ==
    /\ req[r].state \in Waiting => base[KeyOf[r]] # None
    /\ req[r].state \in {"merging", "encrypting"} => Op(r).kind # "favorite"
    /\ req[r].state = "encrypting" =>
          /\ req[r].revs \in Views /\ req[r].watermark <= Len(outbox)
          /\ req[r].watermark = Len(outbox) => DOMAIN req[r].revs = {a \in Accounts : override[a]}
RequestsAreWatched == \A r \in Requests : RequestInv(r)

(* The credential of a plan is the current one while the plan may be        *)
(* admitted, and from then on until its permit is given back.               *)
PlansKnowTheCredential ==
    \A t \in Tasks :
        task[t].state = "planned" =>
          /\ task[t].accountsRev <= rev["accounts"]
          /\ rev["accounts"] = task[t].accountsRev => accounts[task[t].account].cred = task[t].cred

(* No event is ahead of its record, and once the projection was seeded it   *)
(* has the last revision of a record, or an event that brings it waits.     *)
EventsAreOld == \A i \in 1..Len(outbox) : outbox[i].revision <= rev[outbox[i].domain]
Announced(d) == \E i \in acked + 1 .. Len(outbox) : outbox[i].domain = d /\ outbox[i].revision = rev[d]
ProjectionIsFed ==
    \A d \in Domains : projection[d] <= rev[d] /\ (seeded => projection[d] = rev[d] \/ Announced(d))

AuthorityInv ==
    /\ TypeOK /\ RowTypes
    /\ AuthorsKnowTheValue
    /\ RequestsAreWatched
    /\ PlansKnowTheCredential
    /\ NoOverrideOutlivesItsAccount
    /\ PermitsHoldCurrentCredentials
    /\ EventsAreOld
    /\ ProjectionIsFed

-----------------------------------------------------------------------------
(* SetToSeq lists every element of a finite set. *)
LEMMA SetToSeqCovers ==
  ASSUME NEW S, IsFiniteSet(S)
  PROVE  /\ Cardinality(S) \in Nat
         /\ S # {} => Cardinality(S) > 0
         /\ SetToSeq(S) \in [1..Cardinality(S) -> S]
         /\ \A x \in S : \E i \in 1..Cardinality(S) : SetToSeq(S)[i] = x
<1> DEFINE n == Cardinality(S)
<1>1. n \in Nat /\ ExistsBijection(1..n, S)
  BY FS_CardinalityType
<1>2. S # {} => n > 0
  BY <1>1, FS_EmptySet
<1>3. \E f \in [1..n -> S] : IsInjective(f)
  BY <1>1, FS_CardinalityType DEF ExistsBijection, Bijection, Injection
<1>4. SetToSeq(S) \in Injection(1..n, S)
  BY <1>3 DEF SetToSeq, Injection
<1>5. IsFiniteSet(1..n) /\ Cardinality(1..n) = n
  BY <1>1, FS_Interval
<1>6. SetToSeq(S) \in Surjection(1..n, S)
  BY <1>4, <1>5, FS_Injection
<1> QED
  BY <1>1, <1>2, <1>4, <1>6 DEF Injection, Surjection

(* What a transaction that writes the records ds does to the revisions and  *)
(* to the outbox.                                                           *)
Announces(ds) ==
    /\ rev' \in [Domains -> 0..MaxRev]
    /\ \A d \in Domains : rev'[d] = IF d \in ds THEN rev[d] + 1 ELSE rev[d]
    /\ outbox' \in Seq(Event)
    /\ Len(outbox) <= Len(outbox') /\ (ds # {} => Len(outbox) < Len(outbox'))
    /\ \A i \in 1..Len(outbox) : outbox'[i] = outbox[i]
    /\ \A i \in Len(outbox) + 1 .. Len(outbox') : outbox'[i].revision = rev'[outbox'[i].domain]
    /\ \A d \in ds : \E i \in Len(outbox) + 1 .. Len(outbox') : outbox'[i].domain = d

LEMMA StoreAnnounces ==
  ASSUME rev \in [Domains -> 0..MaxRev], outbox \in Seq(Event),
         NEW ds, ds \subseteq Domains, IsFiniteSet(ds), Store(ds)
  PROVE  Announces(ds)
<1> DEFINE n == Cardinality(ds)
           f == SetToSeq(ds)
           es == [i \in 1..n |-> [domain |-> f[i], revision |-> rev[f[i]] + 1]]
<1>1. /\ n \in Nat /\ (ds # {} => n > 0) /\ f \in [1..n -> ds]
      /\ \A x \in ds : \E i \in 1..n : f[i] = x
  BY SetToSeqCovers
<1>2. /\ \A d \in ds : rev[d] + 1 \in 0..MaxRev
      /\ rev' = [d \in Domains |-> IF d \in ds THEN rev[d] + 1 ELSE rev[d]]
      /\ outbox' = outbox \o es
  BY BoundsAssumption DEF Store
<1>3. \A i \in 1..n : es[i] \in Event /\ es[i].domain = f[i] /\ es[i].revision = rev[f[i]] + 1
  BY <1>1, <1>2 DEF Event
<1>4. es \in Seq(Event) /\ Len(es) = n
  <2>1. es \in [1..n -> Event]
    BY <1>3
  <2> HIDE DEF es
  <2>2. es \in Seq(Event)
    <3>1. es \in UNION {[1..m -> Event] : m \in Nat}
      BY <2>1, <1>1, Zenon
    <3> QED
      BY <3>1, SeqDef, Zenon
  <2>3. DOMAIN es = 1..n /\ DOMAIN es = 1..Len(es) /\ Len(es) \in Nat
    BY <2>1, <2>2, LenProperties
  <2> QED
    BY <2>2, <2>3, <1>1
<1> HIDE DEF es, f, n
<1>5. /\ outbox' \in Seq(Event) /\ Len(outbox') = Len(outbox) + n
      /\ \A i \in 1..Len(outbox') :
            outbox'[i] = IF i <= Len(outbox) THEN outbox[i] ELSE es[i - Len(outbox)]
  <2>1. /\ outbox \o es \in Seq(Event) /\ Len(outbox \o es) = Len(outbox) + Len(es)
        /\ \A i \in 1..Len(outbox) + Len(es) :
              (outbox \o es)[i] = IF i <= Len(outbox) THEN outbox[i] ELSE es[i - Len(outbox)]
    BY <1>4, ConcatProperties
  <2> QED
    BY <1>2, <1>4, <2>1
<1>6. Len(outbox) \in Nat /\ n \in Nat
  BY <1>1
<1>7. \A i \in 1..Len(outbox) : outbox'[i] = outbox[i]
  BY <1>5, <1>6
<1>8. \A i \in Len(outbox) + 1 .. Len(outbox') :
         i - Len(outbox) \in 1..n /\ outbox'[i] = es[i - Len(outbox)]
  BY <1>5, <1>6
<1>9. \A i \in Len(outbox) + 1 .. Len(outbox') : outbox'[i].revision = rev'[outbox'[i].domain]
  <2> TAKE i \in Len(outbox) + 1 .. Len(outbox')
  <2> DEFINE j == i - Len(outbox)
  <2>1. j \in 1..n /\ outbox'[i] = es[j]
    BY <1>8
  <2>2. f[j] \in ds /\ f[j] \in Domains
    BY <2>1, <1>1
  <2> QED
    BY <2>1, <2>2, <1>2, <1>3
<1>10. \A d \in ds : \E i \in Len(outbox) + 1 .. Len(outbox') : outbox'[i].domain = d
  <2> TAKE d \in ds
  <2>1. PICK j \in 1..n : f[j] = d
    BY <1>1
  <2>2. Len(outbox) + j \in Len(outbox) + 1 .. Len(outbox') /\ (Len(outbox) + j) - Len(outbox) = j
    BY <2>1, <1>5, <1>6
  <2>3. outbox'[Len(outbox) + j] = es[j]
    BY <2>2, <1>8
  <2> QED
    BY <2>1, <2>2, <2>3, <1>3
<1>11. /\ rev' \in [Domains -> 0..MaxRev]
       /\ \A d \in Domains : rev'[d] = IF d \in ds THEN rev[d] + 1 ELSE rev[d]
  BY <1>2
<1>12. Len(outbox) <= Len(outbox') /\ (ds # {} => Len(outbox) < Len(outbox'))
  BY <1>1, <1>5, <1>6
<1> QED
  BY <1>5, <1>7, <1>9, <1>10, <1>11, <1>12 DEF Announces

(* Such a transaction announces what it writes: the projection is fed. *)
LEMMA WritesFeedTheProjection ==
  ASSUME AuthorityInv, NEW ds, ds \subseteq Domains, Announces(ds), UNCHANGED hints
  PROVE  EventsAreOld' /\ ProjectionIsFed'
<1>1. /\ rev \in [Domains -> 0..MaxRev] /\ projection \in [Domains -> 0..MaxRev]
      /\ outbox \in Seq(Event) /\ acked \in 0..Len(outbox)
      /\ EventsAreOld /\ ProjectionIsFed
      /\ acked' = acked /\ projection' = projection /\ seeded' = seeded
  BY DEF AuthorityInv, TypeOK, RowTypes, hints
<1>2. ASSUME NEW d \in Domains
      PROVE  rev[d] \in Nat /\ rev'[d] \in Nat /\ rev[d] <= rev'[d]
  <2>1. rev'[d] = (IF d \in ds THEN rev[d] + 1 ELSE rev[d])
    BY DEF Announces
  <2>2. rev[d] \in 0..MaxRev
    BY <1>1
  <2> QED
    BY <2>1, <2>2, BoundsAssumption
<1>3. ASSUME NEW i \in 1..Len(outbox') PROVE outbox'[i].revision <= rev'[outbox'[i].domain]
  <2>1. outbox' \in Seq(Event) /\ Len(outbox) \in Nat /\ Len(outbox') \in Nat
    BY <1>1 DEF Announces
  <2>2. outbox'[i].domain \in Domains /\ outbox'[i].revision \in 0..MaxRev
    <3>1. outbox'[i] \in Event
      BY <2>1, ElementOfSeq
    <3> QED
      BY <3>1 DEF Event
  <2>3. CASE i \in 1..Len(outbox)
    <3>1. outbox'[i] = outbox[i] /\ outbox[i].revision <= rev[outbox[i].domain]
      BY <2>3, <1>1 DEF EventsAreOld, Announces
    <3> QED
      BY <3>1, <2>2, <1>2, BoundsAssumption
  <2>4. CASE i \in Len(outbox) + 1 .. Len(outbox')
    BY <2>2, <2>4, <1>2 DEF Announces
  <2> QED
    BY <2>1, <2>3, <2>4
<1>4. ASSUME NEW d \in Domains
      PROVE  projection[d] <= rev'[d] /\ (seeded => projection[d] = rev'[d] \/ Announced(d)')
  <2>1. projection[d] \in Nat /\ projection[d] <= rev[d]
    BY <1>1, BoundsAssumption DEF ProjectionIsFed
  <2>2. CASE d \in ds
    <3>1. PICK i \in Len(outbox) + 1 .. Len(outbox') : outbox'[i].domain = d
      BY <2>2 DEF Announces
    <3>2. i \in acked + 1 .. Len(outbox') /\ outbox'[i].revision = rev'[d]
      BY <3>1, <1>1 DEF Announces
    <3> QED
      BY <3>1, <3>2, <2>1, <1>1, <1>2 DEF Announced
  <2>3. CASE d \notin ds
    <3>1. rev'[d] = rev[d]
      BY <2>3 DEF Announces
    <3>2. ASSUME NEW i \in acked + 1 .. Len(outbox), outbox[i].domain = d, outbox[i].revision = rev[d]
          PROVE  Announced(d)'
      <4>1. i \in acked + 1 .. Len(outbox') /\ outbox'[i] = outbox[i]
        BY <1>1, <3>2 DEF Announces
      <4> QED
        BY <4>1, <3>1, <3>2, <1>1 DEF Announced
    <3> QED
      BY <2>1, <3>1, <3>2, <1>1 DEF ProjectionIsFed, Announced
  <2> QED
    BY <2>2, <2>3
<1> QED
  BY <1>1, <1>3, <1>4 DEF EventsAreOld, ProjectionIsFed

(* Whoever encrypts while a record is written has an old watermark. *)
LEMMA WritesAreNoticed ==
  ASSUME AuthorityInv, NEW ds, ds # {}, Announces(ds), UNCHANGED base,
         \A r \in Requests : req'[r] = req[r] \/ req'[r].state \notin Waiting
  PROVE  RequestsAreWatched'
<1> SUFFICES ASSUME NEW r \in Requests PROVE RequestInv(r)'
  BY DEF RequestsAreWatched
<1>1. Len(outbox) \in Nat /\ Len(outbox') \in Nat /\ Len(outbox) < Len(outbox')
  BY DEF Announces, AuthorityInv, RowTypes
<1>2. req[r].watermark \in Nat /\ RequestInv(r)
  BY DEF AuthorityInv, RowTypes, RequestsAreWatched
<1>3. CASE req'[r] = req[r]
  BY <1>1, <1>2, <1>3 DEF RequestInv, Op
<1>4. CASE req'[r].state \notin Waiting
  BY <1>4 DEF RequestInv, Waiting
<1> QED
  BY <1>3, <1>4

(* Steps that change nothing but a request: its type and its bond to what   *)
(* it has seen are all there is to show.                                    *)
LEMMA OnlyRequests ==
  ASSUME AuthorityInv, UNCHANGED <<control, values, hints, receipts, base, task>>,
         req' \in [Requests -> [state : States, revs : {None} \union Views, watermark : Nat, closed : BOOLEAN]],
         \A r \in Requests : req'[r] = req[r] \/ RequestInv(r)'
  PROVE  AuthorityInv'
<1> USE DEF AuthorityInv, control, values, hints
<1>1. TypeOK' /\ RowTypes'
  BY DEF TypeOK, RowTypes, States
<1>2. AuthorsKnowTheValue' /\ PlansKnowTheCredential'
  BY DEF AuthorsKnowTheValue, RevisionNamesValue, CredsCounted, PlansKnowTheCredential
<1>3. NoOverrideOutlivesItsAccount' /\ PermitsHoldCurrentCredentials'
  BY DEF NoOverrideOutlivesItsAccount, PermitsHoldCurrentCredentials, Open
<1>4. EventsAreOld' /\ ProjectionIsFed'
  BY DEF EventsAreOld, ProjectionIsFed, Announced
<1>5. RequestsAreWatched'
  BY DEF RequestsAreWatched, RequestInv, Op
<1> QED
  BY <1>1, <1>2, <1>3, <1>4, <1>5

LEMMA AnsweredRequest ==
  ASSUME AuthorityInv, NEW r \in Requests,
         NEW how \in {"committed", "duplicate", "refused"}, Answered(r, how)
  PROVE  /\ req' \in [Requests -> [state : States, revs : {None} \union Views, watermark : Nat, closed : BOOLEAN]]
         /\ req'[r].state = how
         /\ \A s \in Requests \ {r} : req'[s] = req[s]
BY DEF Answered, AuthorityInv, RowTypes, States

LEMMA FailInv ==
  ASSUME AuthorityInv, NEW r \in Requests, Fail(r)
  PROVE  AuthorityInv'
<1>1. UNCHANGED <<control, values, hints, receipts, base, task>>
  BY DEF Fail, Replay
<1>2. PICK how \in {"duplicate", "refused"} : Answered(r, how)
  BY DEF Fail, Replay
<1>3. /\ req' \in [Requests -> [state : States, revs : {None} \union Views, watermark : Nat, closed : BOOLEAN]]
      /\ req'[r].state = how /\ \A s \in Requests \ {r} : req'[s] = req[s]
  BY <1>2, AnsweredRequest
<1>4. RequestInv(r)'
  BY <1>3 DEF RequestInv, Waiting
<1> QED
  BY <1>1, <1>3, <1>4, OnlyRequests

-----------------------------------------------------------------------------
(* What the requests of the editor do. *)
LEMMA RequestSteps ==
  ASSUME AuthorityInv, NEW r \in Requests,
         Send(r) \/ StartWrite(r)
  PROVE  AuthorityInv'
<1>1. KeyOf[r] \in Keys /\ RequestInv(r)
  BY DEF Keys, AuthorityInv, RequestsAreWatched
<1>2. CASE Send(r)
  <2>1. /\ req' \in [Requests -> [state : States, revs : {None} \union Views, watermark : Nat, closed : BOOLEAN]]
        /\ \A s \in Requests \ {r} : req'[s] = req[s]
    BY <1>2 DEF Send, AuthorityInv, RowTypes, States, Waiting
  <2>2. req'[r].state = "digest" /\ base[KeyOf[r]] # None /\ base' = base
    BY <1>2 DEF Send, AuthorityInv, RowTypes
  <2>3. RequestInv(r)'
    BY <2>2 DEF RequestInv
  <2> QED
    BY <1>2, <2>1, <2>3, OnlyRequests DEF Send
<1>3. CASE StartWrite(r)
  <2>1. CASE Stale(r)
    BY <1>3, <2>1, FailInv DEF StartWrite
  <2>2. CASE ~Stale(r)
    <3> DEFINE view == [a \in {x \in Accounts : override[x]} |-> rev[a]]
    <3>1. /\ req' = [req EXCEPT ![r] = [state |-> "encrypting", closed |-> observing,
                                        watermark |-> Len(outbox), revs |-> view]]
          /\ UNCHANGED <<control, values, hints, receipts, base, task>>
      BY <1>3, <2>2 DEF StartWrite
    <3>2. view \in Views /\ DOMAIN view = {x \in Accounts : override[x]}
      <4>1. \A a \in Accounts : rev[a] \in 0..MaxRev
        BY DEF AuthorityInv, TypeOK, Domains
      <4>2. view \in [{x \in Accounts : override[x]} -> 0..MaxRev]
        BY <4>1
      <4>3. {x \in Accounts : override[x]} \in SUBSET Accounts
        OBVIOUS
      <4> QED
        BY <4>2, <4>3 DEF Views
    <3>3. Len(outbox) \in Nat /\ observing \in BOOLEAN
      BY DEF AuthorityInv, TypeOK, RowTypes
    <3> HIDE DEF view
    <3>4. /\ req' \in [Requests -> [state : States, revs : {None} \union Views, watermark : Nat, closed : BOOLEAN]]
          /\ \A s \in Requests \ {r} : req'[s] = req[s]
      BY <3>1, <3>2, <3>3 DEF AuthorityInv, RowTypes, States, Waiting
    <3>5. /\ req'[r].state = "encrypting" /\ req'[r].revs = view /\ req'[r].watermark = Len(outbox)
          /\ UNCHANGED <<base, outbox, override>>
      BY <3>1 DEF AuthorityInv, RowTypes, values
    <3>6. base[KeyOf[r]] # None /\ Op(r).kind # "favorite"
      BY <1>1, <1>3 DEF StartWrite, RequestInv, Waiting
    <3>7. RequestInv(r)'
      BY <3>2, <3>3, <3>5, <3>6 DEF RequestInv, Op
    <3> QED
      BY <3>1, <3>4, <3>7, OnlyRequests
  <2> QED
    BY <2>1, <2>2
<1> QED
  BY <1>2, <1>3

LEMMA RestartInv ==
  ASSUME AuthorityInv, Restart
  PROVE  AuthorityInv'
<1>1. req' \in [Requests -> [state : States, revs : {None} \union Views, watermark : Nat, closed : BOOLEAN]]
  <2> DEFINE Row == [state : States, revs : {None} \union Views, watermark : Nat, closed : BOOLEAN]
             Lost(q) == [q EXCEPT !.state = "lost", !.revs = None, !.watermark = 0, !.closed = FALSE]
  <2>1. req \in [Requests -> Row] /\ req' = [r \in Requests |-> IF req[r].state \in Waiting THEN Lost(req[r]) ELSE req[r]]
    BY DEF Restart, AuthorityInv, RowTypes
  <2>2. ASSUME NEW q \in Row PROVE Lost(q) \in Row
    BY DEF States
  <2> HIDE DEF Row, Lost
  <2>3. req' \in [Requests -> Row]
    BY <2>1, <2>2
  <2> QED
    BY <2>3 DEF Row
<1>2. \A r \in Requests : req'[r].state \notin Waiting
  BY DEF Restart, AuthorityInv, RowTypes, Waiting
<1>3. \A r \in Requests : RequestInv(r)'
  BY <1>2 DEF RequestInv, Waiting
<1> QED
  BY <1>1, <1>3, OnlyRequests DEF Restart

LEMMA ComposeInv ==
  ASSUME AuthorityInv, NEW k \in Keys, NEW op \in Ops, Compose(k, op)
  PROVE  AuthorityInv'
<1> DEFINE seen == IF op.kind = "favorite" THEN favorites ELSE accounts
           b == [op |-> op, epoch |-> epoch, revision |-> rev[Target(op)], seen |-> seen]
<1>1. /\ base[k] = None /\ base' = [base EXCEPT ![k] = b]
      /\ UNCHANGED <<control, values, hints, receipts, req, task>>
  BY DEF Compose
<1>2. Target(op) \in Domains
  BY DEF Target, Domains
<1>3. PICK c \in Composed : c = b
  <2>1. epoch \in 1..MaxEpoch /\ rev[Target(op)] \in 0..MaxRev
    BY <1>2 DEF AuthorityInv, TypeOK
  <2>2. seen \in Values \union SUBSET Keys
    BY DEF AuthorityInv, TypeOK
  <2> HIDE DEF seen
  <2>3. b \in Composed
    BY <2>1, <2>2 DEF Composed
  <2> QED
    BY <2>3
<1>4. TypeOK' /\ RowTypes'
  BY <1>1, <1>3 DEF AuthorityInv, TypeOK, RowTypes, control, values, hints
<1>5. AuthorsKnowTheValue'
  <2>1. CredsCounted(accounts, rev["accounts"])'
    BY <1>1 DEF AuthorityInv, AuthorsKnowTheValue, CredsCounted, values
  <2>2. RevisionNamesValue(c)'
    <3>1. rev[Target(op)] \in Nat
      BY <1>2, BoundsAssumption DEF AuthorityInv, TypeOK
    <3>2. UNCHANGED <<rev, favorites, accounts>> /\ favorites \subseteq Keys /\ accounts \in Values
      BY <1>1 DEF values, AuthorityInv, TypeOK
    <3> QED
      BY <1>3, <3>1, <3>2 DEF RevisionNamesValue, Target, AuthorityInv, AuthorsKnowTheValue, CredsCounted
  <2> HIDE DEF b
  <2>3. ASSUME NEW j \in Keys, base'[j] # None PROVE RevisionNamesValue(base[j])'
    <3>1. CASE j = k
      BY <2>2, <3>1, <1>1, <1>3 DEF AuthorityInv, RowTypes
    <3>2. CASE j # k
      <4>1. base'[j] = base[j] /\ RevisionNamesValue(base[j])
        BY <3>2, <2>3, <1>1 DEF AuthorityInv, RowTypes, AuthorsKnowTheValue
      <4> QED
        BY <4>1, <1>1 DEF RevisionNamesValue, CredsCounted, values
    <3> QED
      BY <3>1, <3>2
  <2> QED
    BY <2>1, <2>3 DEF AuthorsKnowTheValue
<1>6. RequestsAreWatched'
  <2> SUFFICES ASSUME NEW r \in Requests PROVE RequestInv(r)'
    BY DEF RequestsAreWatched
  <2>1. RequestInv(r) /\ KeyOf[r] \in Keys
    BY DEF AuthorityInv, RequestsAreWatched, Keys
  <2>2. base[KeyOf[r]] # None => base'[KeyOf[r]] = base[KeyOf[r]]
    BY <1>1, <2>1 DEF AuthorityInv, RowTypes
  <2>3. UNCHANGED <<req, outbox, override>>
    BY <1>1 DEF values
  <2> QED
    BY <2>1, <2>2, <2>3 DEF RequestInv, Op, Waiting
<1>7. PlansKnowTheCredential' /\ NoOverrideOutlivesItsAccount' /\ PermitsHoldCurrentCredentials'
  BY <1>1 DEF AuthorityInv, PlansKnowTheCredential, NoOverrideOutlivesItsAccount,
              PermitsHoldCurrentCredentials, Open, values
<1>8. EventsAreOld' /\ ProjectionIsFed'
  BY <1>1 DEF AuthorityInv, EventsAreOld, ProjectionIsFed, Announced, values, hints
<1> QED
  BY <1>4, <1>5, <1>6, <1>7, <1>8 DEF AuthorityInv

-----------------------------------------------------------------------------
(* A record that is written gets a revision nobody has read. *)
LEMMA RevisionsNameValues ==
  ASSUME AuthorityInv, NEW ds, ds \subseteq Domains, Announces(ds), UNCHANGED base,
         "accounts" \in ds \/ accounts' = accounts,
         "favorites" \in ds \/ favorites' = favorites,
         CredsCounted(accounts, rev["accounts"])'
  PROVE  AuthorsKnowTheValue'
<1> SUFFICES ASSUME NEW k \in Keys, base[k] # None PROVE RevisionNamesValue(base[k])'
  BY DEF AuthorsKnowTheValue
<1>1. PICK b \in Composed : b = base[k]
  BY DEF AuthorityInv, RowTypes
<1>2. \A d \in Domains : rev[d] \in Nat /\ rev'[d] = IF d \in ds THEN rev[d] + 1 ELSE rev[d]
  BY BoundsAssumption DEF AuthorityInv, TypeOK, Announces
<1>3. {"accounts", "favorites"} \subseteq Domains /\ Target(b.op) \in {"accounts", "favorites"}
  BY DEF Domains, Target
<1>4. b.revision \in Nat
  BY BoundsAssumption DEF Composed
<1>5. RevisionNamesValue(b)
  BY <1>1 DEF AuthorityInv, AuthorsKnowTheValue
<1>6. RevisionNamesValue(b)'
  BY <1>2, <1>3, <1>4, <1>5 DEF RevisionNamesValue, CredsCounted, Target
<1> QED
  BY <1>1, <1>6

LEMMA PlansNameCredentials ==
  ASSUME AuthorityInv, NEW ds, ds \subseteq Domains, Announces(ds),
         \A t \in Tasks : task'[t] = task[t] \/ task'[t].state # "planned",
         "accounts" \in ds \/ accounts' = accounts
  PROVE  PlansKnowTheCredential'
<1> SUFFICES ASSUME NEW t \in Tasks, task'[t].state = "planned"
             PROVE  /\ task'[t].accountsRev <= rev'["accounts"]
                    /\ rev'["accounts"] = task'[t].accountsRev
                         => accounts'[task'[t].account].cred = task'[t].cred
  BY DEF PlansKnowTheCredential
<1>1. task'[t] = task[t] /\ task[t] \in Planned
  BY DEF AuthorityInv, RowTypes
<1>2. /\ rev["accounts"] \in Nat
      /\ rev'["accounts"] = IF "accounts" \in ds THEN rev["accounts"] + 1 ELSE rev["accounts"]
  BY BoundsAssumption DEF AuthorityInv, TypeOK, Announces, Domains
<1>3. task[t].accountsRev \in Nat
  BY <1>1, BoundsAssumption DEF Planned
<1>4. /\ task[t].accountsRev <= rev["accounts"]
      /\ rev["accounts"] = task[t].accountsRev => accounts[task[t].account].cred = task[t].cred
  BY <1>1 DEF AuthorityInv, PlansKnowTheCredential
<1> QED
  BY <1>1, <1>2, <1>3, <1>4

(* The value an edit stores. *)
LEMMA EditedValue ==
  ASSUME NEW op \in Ops, op.kind # "favorite", NEW acc \in Values, NEW n \in 0..MaxRev,
         CredsCounted(acc, n), n < MaxRev
  PROVE  Edited(op, acc) \in Values /\ CredsCounted(Edited(op, acc), n + 1)
<1>1. op.account \in Accounts /\ op.kind \in {"add", "replace", "remove", "forget", "import"}
  BY DEF Ops
<1>2. \A a \in Accounts : acc[a].cred \in 0..MaxRev /\ acc[a].worker \in BOOLEAN /\ acc[a].cred <= n
  BY DEF Values, CredsCounted
<1>3. 1 \in 0..MaxRev /\ n \in Nat /\ MaxRev \in Nat
  BY BoundsAssumption
<1>4. CASE op.kind = "add"
  BY <1>1, <1>2, <1>3, <1>4 DEF Edited, Values, CredsCounted
<1>5. CASE op.kind \in {"replace", "import"}
  <2>1. /\ Edited(op, acc) = [acc EXCEPT ![op.account].cred = @ + 1]
        /\ acc[op.account].cred + 1 \in 0..MaxRev /\ acc[op.account].cred + 1 <= n + 1
    BY <1>1, <1>2, <1>3, <1>5 DEF Edited
  <2> QED
    BY <1>1, <1>2, <1>3, <2>1 DEF Values, CredsCounted
<1>6. CASE op.kind = "remove"
  BY <1>1, <1>2, <1>3, <1>6 DEF Edited, Values, CredsCounted
<1>7. CASE op.kind = "forget"
  <2>1. Edited(op, acc) = [acc EXCEPT ![op.account].worker = FALSE]
    BY <1>7 DEF Edited
  <2>2. Edited(op, acc) \in Values
    BY <1>1, <2>1 DEF Values
  <2>3. \A a \in Accounts : Edited(op, acc)[a].cred = acc[a].cred
    BY <1>1, <2>1 DEF Values
  <2> QED
    BY <1>2, <1>3, <2>2, <2>3 DEF CredsCounted
<1> QED
  BY <1>1, <1>4, <1>5, <1>6, <1>7

(* A favorite is stored. *)
LEMMA FavoriteInv ==
  ASSUME AuthorityInv, NEW r \in Requests, base[KeyOf[r]] # None, Op(r).kind = "favorite",
         favorites' = base[KeyOf[r]].seen \union {KeyOf[r]}, Store({"favorites"}),
         receipts' = receipts \union {KeyOf[r]}, Answered(r, "committed"),
         UNCHANGED <<control, accounts, override, hints, base, task>>
  PROVE  AuthorityInv'
<1> DEFINE ds == {"favorites"}
<1>1. ds \subseteq Domains /\ ds # {} /\ "accounts" \notin ds
  BY DEF Domains
<1>2. Announces(ds)
  BY <1>1, StoreAnnounces, FS_Singleton DEF AuthorityInv, TypeOK, RowTypes
<1> HIDE DEF ds
<1>3. KeyOf[r] \in Keys /\ base[KeyOf[r]].seen \subseteq Keys
  BY DEF Keys, AuthorityInv, AuthorsKnowTheValue, RevisionNamesValue, Op
<1>4. /\ req' \in [Requests -> [state : States, revs : {None} \union Views, watermark : Nat, closed : BOOLEAN]]
      /\ req'[r].state = "committed" /\ \A s \in Requests \ {r} : req'[s] = req[s]
  BY AnsweredRequest
<1>5. RowTypes'
  BY <1>2, <1>4 DEF AuthorityInv, RowTypes, Announces
<1>6. TypeOK'
  <2>1. Len(outbox) \in Nat /\ Len(outbox') \in Nat /\ Len(outbox) <= Len(outbox')
    BY <1>2 DEF AuthorityInv, RowTypes, Announces
  <2> QED
    BY <1>2, <1>3, <1>4, <2>1 DEF AuthorityInv, TypeOK, control, hints, Announces, States
<1>7. AuthorsKnowTheValue'
  <2>1. rev'["accounts"] = rev["accounts"]
    BY <1>1, <1>2 DEF Announces, Domains
  <2>2. CredsCounted(accounts, rev["accounts"])'
    BY <2>1 DEF AuthorityInv, AuthorsKnowTheValue, CredsCounted
  <2> QED
    BY <1>1, <1>2, <2>2, RevisionsNameValues DEF ds
<1>8. RequestsAreWatched'
  BY <1>1, <1>2, <1>4, WritesAreNoticed DEF Waiting
<1>9. PlansKnowTheCredential'
  BY <1>1, <1>2, PlansNameCredentials
<1>10. NoOverrideOutlivesItsAccount' /\ PermitsHoldCurrentCredentials'
  BY DEF AuthorityInv, NoOverrideOutlivesItsAccount, PermitsHoldCurrentCredentials, Open
<1>11. EventsAreOld' /\ ProjectionIsFed'
  BY <1>1, <1>2, WritesFeedTheProjection
<1> QED
  BY <1>5, <1>6, <1>7, <1>8, <1>9, <1>10, <1>11 DEF AuthorityInv

LEMMA BeginInv ==
  ASSUME AuthorityInv, NEW r \in Requests, Begin(r)
  PROVE  AuthorityInv'
<1>1. req[r].state = "digest" /\ base[KeyOf[r]] # None
  BY DEF Begin, AuthorityInv, RequestsAreWatched, RequestInv, Waiting
<1>2. CASE Fail(r)
  BY <1>2, FailInv
<1>3. CASE Replay(r)
  BY <1>3, FailInv DEF Fail
<1>4. CASE /\ Op(r).kind = "favorite"
           /\ favorites' = base[KeyOf[r]].seen \union {KeyOf[r]} /\ Store({"favorites"})
           /\ receipts' = receipts \union {KeyOf[r]} /\ Answered(r, "committed")
           /\ UNCHANGED <<control, accounts, override, hints, base, task>>
  BY <1>1, <1>4, FavoriteInv
<1>5. CASE /\ Op(r).kind = "import" /\ req' = [req EXCEPT ![r].state = "merging"]
           /\ UNCHANGED <<control, values, hints, receipts, base, task>>
  <2>1. /\ req' \in [Requests -> [state : States, revs : {None} \union Views, watermark : Nat, closed : BOOLEAN]]
        /\ req'[r].state = "merging" /\ \A s \in Requests \ {r} : req'[s] = req[s]
    BY <1>5 DEF AuthorityInv, RowTypes, States, Waiting
  <2>2. RequestInv(r)'
    BY <1>1, <1>5, <2>1 DEF RequestInv, Op
  <2> QED
    BY <1>5, <2>1, <2>2, OnlyRequests
<1> QED
  BY <1>2, <1>3, <1>4, <1>5 DEF Begin

(* An account edit is stored, with the overrides it cleans up. *)
LEMMA CommitInv ==
  ASSUME AuthorityInv, NEW r \in Requests, Commit(r)
  PROVE  AuthorityInv'
<1> DEFINE b == base[KeyOf[r]]
           next == Edited(Op(r), b.seen)
           cleanup == Cleanup(r, next)
           ds == {"accounts"} \union cleanup
<1> SUFFICES ASSUME Allowed(r, next) PROVE AuthorityInv'
  BY FailInv DEF Commit
<1>1. /\ accounts' = next /\ Store(ds)
      /\ override' = [a \in Accounts |-> override[a] /\ a \notin cleanup]
      /\ receipts' = receipts \union {KeyOf[r]} /\ Answered(r, "committed")
      /\ UNCHANGED <<control, favorites, hints, base, task>> /\ req[r].state = "encrypting"
  BY DEF Commit
<1>2. KeyOf[r] \in Keys /\ RequestInv(r)
  BY DEF Keys, AuthorityInv, RequestsAreWatched
<1>3. b \in Composed /\ Op(r).kind # "favorite" /\ Op(r) = b.op /\ b.op \in Ops
  BY <1>1, <1>2 DEF RequestInv, Waiting, Op, AuthorityInv, RowTypes, Composed
<1>4. rev["accounts"] = b.revision
  BY <1>3 DEF Allowed, Stale, Target
<1>5. b.seen = accounts /\ accounts \in Values /\ CredsCounted(accounts, rev["accounts"])
  BY <1>1, <1>2, <1>3, <1>4 DEF AuthorityInv, AuthorsKnowTheValue, RevisionNamesValue, RequestInv, Waiting, TypeOK
<1>6. cleanup \subseteq Accounts /\ IsFiniteSet(cleanup) /\ IsFiniteSet(ds)
  <2>1. cleanup \subseteq Accounts
    BY DEF Cleanup, Removed, Changed
  <2>2. IsFiniteSet(cleanup)
    BY <2>1, AccountsAssumption, FS_Subset
  <2> QED
    BY <2>1, <2>2, FS_Singleton, FS_Union
<1>7. ds \subseteq Domains /\ ds # {} /\ "accounts" \in ds /\ "favorites" \notin ds
  BY <1>6, AccountsAssumption DEF Domains
<1>8. rev["accounts"] \in 0..MaxRev /\ rev["accounts"] < MaxRev
  BY <1>1, <1>7 DEF Store, AuthorityInv, TypeOK, Domains
<1>9. next \in Values /\ CredsCounted(next, rev["accounts"] + 1)
  BY <1>3, <1>5, <1>8, EditedValue
<1> HIDE DEF next, cleanup, ds
<1>10. Announces(ds)
  BY <1>1, <1>6, <1>7, StoreAnnounces DEF AuthorityInv, TypeOK, RowTypes
<1>11. /\ req' \in [Requests -> [state : States, revs : {None} \union Views, watermark : Nat, closed : BOOLEAN]]
       /\ req'[r].state = "committed" /\ \A s \in Requests \ {r} : req'[s] = req[s]
  BY <1>1, AnsweredRequest
<1>12. RowTypes'
  BY <1>1, <1>10, <1>11 DEF AuthorityInv, RowTypes, Announces
<1>13. TypeOK'
  <2>1. Len(outbox) \in Nat /\ Len(outbox') \in Nat /\ Len(outbox) <= Len(outbox')
    BY <1>10 DEF AuthorityInv, RowTypes, Announces
  <2>2. override' \in [Accounts -> BOOLEAN]
    BY <1>1
  <2> QED
    BY <1>1, <1>2, <1>9, <1>10, <1>11, <2>1, <2>2 DEF AuthorityInv, TypeOK, control, hints, Announces, States
<1>14. AuthorsKnowTheValue'
  <2>1. rev'["accounts"] = rev["accounts"] + 1
    BY <1>7, <1>10 DEF Announces
  <2>2. CredsCounted(accounts, rev["accounts"])'
    BY <1>1, <1>9, <2>1 DEF CredsCounted
  <2> QED
    BY <1>1, <1>7, <1>10, <2>2, RevisionsNameValues
<1>15. RequestsAreWatched'
  BY <1>1, <1>7, <1>10, <1>11, WritesAreNoticed DEF Waiting
<1>16. PlansKnowTheCredential'
  BY <1>1, <1>7, <1>10, PlansNameCredentials
<1>17. NoOverrideOutlivesItsAccount'
  <2> SUFFICES ASSUME NEW a \in Accounts, override'[a], next[a].cred = 0 PROVE FALSE
    <3>1. \A a \in Accounts : next[a].cred \in Nat
      BY <1>9, BoundsAssumption DEF Values
    <3> QED
      BY <1>1, <3>1 DEF NoOverrideOutlivesItsAccount
  <2>1. override[a] /\ a \notin cleanup
    BY <1>1
  <2>2. accounts[a].cred > 0
    BY <2>1 DEF AuthorityInv, NoOverrideOutlivesItsAccount
  <2>3. a \in Removed(accounts, next)
    BY <2>2 DEF Removed, Changed
  <2>4. Len(outbox) = req[r].watermark
    BY <2>3 DEF Allowed
  <2>5. a \in DOMAIN req[r].revs
    BY <1>1, <1>2, <2>1, <2>4 DEF RequestInv
  <2> QED
    BY <2>1, <2>3, <2>5 DEF cleanup, Cleanup
<1>18. PermitsHoldCurrentCredentials'
  <2> SUFFICES ASSUME NEW t \in Open PROVE accounts'[task[t].account].cred = task[t].cred
    BY <1>1 DEF PermitsHoldCurrentCredentials, Open
  <2>1. accounts[task[t].account].cred = task[t].cred /\ task[t].account \in Accounts
    BY DEF AuthorityInv, PermitsHoldCurrentCredentials, Open, RowTypes, Planned
  <2>2. task[t].account \notin Changed(accounts, next)
    BY DEF Allowed, Idle
  <2> QED
    BY <1>1, <2>1, <2>2 DEF Changed
<1>19. EventsAreOld' /\ ProjectionIsFed'
  BY <1>1, <1>7, <1>10, WritesFeedTheProjection
<1> QED
  BY <1>12, <1>13, <1>14, <1>15, <1>16, <1>17, <1>18, <1>19 DEF AuthorityInv

-----------------------------------------------------------------------------
(* Maintenance, the observation window, and what tasks do. *)
LEMMA ControlInv ==
  ASSUME AuthorityInv, SetMaintenance \/ ObservationEnds
  PROVE  AuthorityInv'
<1>1. UNCHANGED <<values, hints, receipts, base, req, task>>
  BY DEF SetMaintenance, ObservationEnds
<1>2. maintenance' \in BOOLEAN /\ observing' \in BOOLEAN /\ epoch' \in 1..MaxEpoch
  <2>1. maintenance \in BOOLEAN /\ observing \in BOOLEAN /\ epoch \in 1..MaxEpoch
    BY DEF AuthorityInv, TypeOK
  <2>2. CASE SetMaintenance
    BY <2>1, <2>2, BoundsAssumption DEF SetMaintenance
  <2>3. CASE ObservationEnds
    BY <2>1, <2>3 DEF ObservationEnds
  <2> QED
    BY <2>2, <2>3
<1>3. TypeOK' /\ RowTypes'
  BY <1>1, <1>2 DEF AuthorityInv, TypeOK, RowTypes, values, hints
<1>4. AuthorsKnowTheValue' /\ RequestsAreWatched'
  BY <1>1 DEF AuthorityInv, AuthorsKnowTheValue, RevisionNamesValue, CredsCounted,
              RequestsAreWatched, RequestInv, Op, values
<1>5. PlansKnowTheCredential' /\ NoOverrideOutlivesItsAccount' /\ PermitsHoldCurrentCredentials'
  BY <1>1 DEF AuthorityInv, PlansKnowTheCredential, NoOverrideOutlivesItsAccount,
              PermitsHoldCurrentCredentials, Open, values
<1>6. EventsAreOld' /\ ProjectionIsFed'
  BY <1>1 DEF AuthorityInv, EventsAreOld, ProjectionIsFed, Announced, values, hints
<1> QED
  BY <1>3, <1>4, <1>5, <1>6 DEF AuthorityInv

(* A task that only changes its own row. *)
LEMMA OnlyTasks ==
  ASSUME AuthorityInv, UNCHANGED <<control, values, hints, receipts, base, req>>,
         task' \in [Tasks -> [state : {"none"}] \union Planned],
         PlansKnowTheCredential', PermitsHoldCurrentCredentials'
  PROVE  AuthorityInv'
<1>1. TypeOK' /\ RowTypes'
  BY DEF AuthorityInv, TypeOK, RowTypes, Planned, control, values, hints
<1>2. AuthorsKnowTheValue' /\ RequestsAreWatched'
  BY DEF AuthorityInv, AuthorsKnowTheValue, RevisionNamesValue, CredsCounted,
         RequestsAreWatched, RequestInv, Op, values
<1>3. NoOverrideOutlivesItsAccount' /\ EventsAreOld' /\ ProjectionIsFed'
  BY DEF AuthorityInv, NoOverrideOutlivesItsAccount, EventsAreOld, ProjectionIsFed, Announced, values, hints
<1> QED
  BY <1>1, <1>2, <1>3 DEF AuthorityInv

LEMMA PlanInv ==
  ASSUME AuthorityInv, NEW t \in Tasks, NEW a \in Accounts,
         NEW kind \in {"create", "remove", "override"}, Plan(t, a, kind)
  PROVE  AuthorityInv'
<1> DEFINE p == [state |-> "planned", kind |-> kind, account |-> a, cred |-> accounts[a].cred,
                 epoch |-> epoch, accountsRev |-> rev["accounts"], overrideRev |-> rev[a]]
<1>1. p \in Planned
  <2>1. accounts[a].cred \in 1..MaxRev
    BY BoundsAssumption DEF Plan, AuthorityInv, TypeOK, Values
  <2>2. rev["accounts"] \in 0..MaxRev /\ rev[a] \in 0..MaxRev /\ epoch \in 1..MaxEpoch
    BY DEF AuthorityInv, TypeOK, Domains
  <2> QED
    BY <2>1, <2>2 DEF Planned
<1>2. task' = [task EXCEPT ![t] = p] /\ UNCHANGED <<control, values, hints, receipts, base, req>>
  BY DEF Plan
<1>3. task' \in [Tasks -> [state : {"none"}] \union Planned]
  BY <1>1, <1>2 DEF AuthorityInv, RowTypes
<1>4. PlansKnowTheCredential'
  <2> SUFFICES ASSUME NEW u \in Tasks, task'[u].state = "planned"
               PROVE  /\ task'[u].accountsRev <= rev["accounts"]
                      /\ rev["accounts"] = task'[u].accountsRev
                           => accounts[task'[u].account].cred = task'[u].cred
    BY <1>2 DEF PlansKnowTheCredential, values
  <2>1. CASE u = t
    <3>1. rev["accounts"] \in Nat
      BY BoundsAssumption DEF AuthorityInv, TypeOK, Domains
    <3> QED
      BY <2>1, <3>1, <1>2 DEF AuthorityInv, RowTypes
  <2>2. CASE u # t
    BY <2>2, <1>2 DEF AuthorityInv, RowTypes, PlansKnowTheCredential
  <2> QED
    BY <2>1, <2>2
<1>5. PermitsHoldCurrentCredentials'
  BY <1>2 DEF AuthorityInv, RowTypes, PermitsHoldCurrentCredentials, Open, values
<1> QED
  BY <1>2, <1>3, <1>4, <1>5, OnlyTasks

LEMMA CompleteInv ==
  ASSUME AuthorityInv, NEW t \in Tasks, Complete(t)
  PROVE  AuthorityInv'
<1>1. task[t] \in Planned /\ t \in Open
  BY DEF Complete, Open, AuthorityInv, RowTypes
<1>2. task' = [task EXCEPT ![t].state = "over"] /\ UNCHANGED <<control, values, hints, receipts, base, req>>
  BY DEF Complete
<1>3. /\ task' \in [Tasks -> [state : {"none"}] \union Planned]
      /\ task'[t].state = "over" /\ \A u \in Tasks \ {t} : task'[u] = task[u]
  BY <1>1, <1>2 DEF AuthorityInv, RowTypes, Planned
<1>4. PlansKnowTheCredential' /\ PermitsHoldCurrentCredentials'
  BY <1>2, <1>3 DEF AuthorityInv, PlansKnowTheCredential, PermitsHoldCurrentCredentials, Open, values
<1> QED
  BY <1>2, <1>3, <1>4, OnlyTasks

LEMMA AdmitInv ==
  ASSUME AuthorityInv, NEW t \in Tasks, Admit(t)
  PROVE  AuthorityInv'
<1> DEFINE a == task[t].account
<1>1. task[t] \in Planned /\ task[t].state = "planned" /\ a \in Accounts /\ task[t].cred > 0
  BY BoundsAssumption DEF Admit, AuthorityInv, RowTypes, Planned
<1>2. task' = [task EXCEPT ![t].state = "open"]
  BY DEF Admit
<1>3. /\ task' \in [Tasks -> [state : {"none"}] \union Planned] /\ task'[t].state = "open"
      /\ task'[t].account = a /\ task'[t].cred = task[t].cred
      /\ \A u \in Tasks \ {t} : task'[u] = task[u]
  BY <1>1, <1>2 DEF AuthorityInv, RowTypes, Planned
<1>4. accounts[a].cred = task[t].cred
  BY <1>1 DEF Admit, AuthorityInv, PlansKnowTheCredential
<1>5. UNCHANGED <<control, accounts, favorites, hints, receipts, base, req>>
  BY DEF Admit
<1>6. PermitsHoldCurrentCredentials'
  BY <1>3, <1>4, <1>5 DEF AuthorityInv, PermitsHoldCurrentCredentials, Open
<1>7. CASE task[t].kind # "override"
  <2>1. UNCHANGED values
    BY <1>5, <1>7 DEF Admit, values
  <2>2. PlansKnowTheCredential'
    BY <1>3, <2>1 DEF AuthorityInv, PlansKnowTheCredential, values
  <2> QED
    BY <1>3, <1>5, <1>6, <2>1, <2>2, OnlyTasks
<1>8. CASE task[t].kind = "override"
  <2> DEFINE ds == {a}
  <2>1. override' = [override EXCEPT ![a] = TRUE] /\ Store(ds)
    BY <1>8 DEF Admit
  <2>2. ds \subseteq Domains /\ ds # {} /\ "accounts" \notin ds
    BY <1>1, AccountsAssumption DEF Domains
  <2>3. Announces(ds)
    BY <2>1, <2>2, StoreAnnounces, FS_Singleton DEF AuthorityInv, TypeOK, RowTypes
  <2> HIDE DEF ds
  <2>4. RowTypes'
    BY <1>3, <1>5, <2>3 DEF AuthorityInv, RowTypes, Announces
  <2>5. TypeOK'
    <3>1. Len(outbox) \in Nat /\ Len(outbox') \in Nat /\ Len(outbox) <= Len(outbox')
      BY <2>3 DEF AuthorityInv, RowTypes, Announces
    <3>2. override' \in [Accounts -> BOOLEAN]
      BY <1>1, <2>1 DEF AuthorityInv, TypeOK
    <3>3. \A u \in Tasks : task'[u].state \in {"none", "planned", "open", "verified", "over"}
      BY <1>3 DEF AuthorityInv, TypeOK
    <3> QED
      BY <1>5, <2>3, <3>1, <3>2, <3>3 DEF AuthorityInv, TypeOK, control, hints, Announces
  <2>6. AuthorsKnowTheValue'
    <3>1. rev'["accounts"] = rev["accounts"]
      BY <2>2, <2>3 DEF Announces, Domains
    <3>2. CredsCounted(accounts, rev["accounts"])'
      BY <1>5, <3>1 DEF AuthorityInv, AuthorsKnowTheValue, CredsCounted
    <3> QED
      BY <1>5, <2>2, <2>3, <3>2, RevisionsNameValues
  <2>7. RequestsAreWatched'
    BY <1>5, <2>2, <2>3, WritesAreNoticed
  <2>8. PlansKnowTheCredential'
    BY <1>3, <1>5, <2>2, <2>3, PlansNameCredentials
  <2>9. NoOverrideOutlivesItsAccount'
    BY <1>1, <1>4, <1>5, <2>1 DEF AuthorityInv, TypeOK, NoOverrideOutlivesItsAccount
  <2>10. EventsAreOld' /\ ProjectionIsFed'
    BY <1>5, <2>2, <2>3, WritesFeedTheProjection
  <2> QED
    BY <1>6, <2>4, <2>5, <2>6, <2>7, <2>8, <2>9, <2>10 DEF AuthorityInv
<1> QED
  BY <1>7, <1>8

LEMMA VerifyInv ==
  ASSUME AuthorityInv, NEW t \in Tasks, Verify(t)
  PROVE  AuthorityInv'
<1> DEFINE a == task[t].account
           added == task[t].kind = "create"
           clears == task[t].kind = "remove" /\ override[a] /\ rev[a] = task[t].overrideRev
           ds == {"accounts"} \union (IF clears THEN {a} ELSE {})
<1>1. task[t] \in Planned /\ task[t].state = "open" /\ a \in Accounts
  BY DEF Verify, AuthorityInv, RowTypes, Planned
<1>2. task' = [task EXCEPT ![t].state = "verified"]
  BY DEF Verify
<1>3. /\ task' \in [Tasks -> [state : {"none"}] \union Planned] /\ task'[t].state = "verified"
      /\ task'[t].account = a /\ task'[t].cred = task[t].cred
      /\ \A u \in Tasks \ {t} : task'[u] = task[u]
  BY <1>1, <1>2 DEF AuthorityInv, RowTypes, Planned
<1>4. UNCHANGED <<control, hints, receipts, base, req>>
  BY DEF Verify
<1>5. CASE accounts[a].worker = added
  <2>1. UNCHANGED values
    BY <1>5 DEF Verify
  <2>2. PlansKnowTheCredential' /\ PermitsHoldCurrentCredentials'
    BY <1>1, <1>3, <2>1 DEF AuthorityInv, PlansKnowTheCredential, PermitsHoldCurrentCredentials, Open, values
  <2> QED
    BY <1>3, <1>4, <2>1, <2>2, OnlyTasks
<1>6. CASE accounts[a].worker # added
  <2>1. /\ accounts' = [accounts EXCEPT ![a].worker = added] /\ Store(ds)
        /\ override' = [override EXCEPT ![a] = @ /\ ~clears] /\ UNCHANGED favorites
    BY <1>6 DEF Verify
  <2>2. ds \subseteq Domains /\ ds # {} /\ "accounts" \in ds /\ IsFiniteSet(ds)
    BY <1>1, FS_Singleton, FS_EmptySet, FS_Union DEF Domains
  <2>3. Announces(ds)
    BY <2>1, <2>2, StoreAnnounces DEF AuthorityInv, TypeOK, RowTypes
  <2>4. /\ accounts' \in Values
        /\ \A x \in Accounts : accounts'[x].cred = accounts[x].cred
    <3>1. added \in BOOLEAN /\ accounts \in Values
      BY DEF AuthorityInv, TypeOK
    <3> HIDE DEF added
    <3>2. accounts' \in Values
      BY <1>1, <2>1, <3>1 DEF Values
    <3>3. \A x \in Accounts : accounts'[x].cred = accounts[x].cred
      BY <1>1, <2>1, <3>1 DEF Values
    <3> QED
      BY <3>2, <3>3
  <2>5. override' \in [Accounts -> BOOLEAN] /\ \A x \in Accounts : override'[x] => override[x]
    BY <1>1, <2>1 DEF AuthorityInv, TypeOK
  <2> HIDE DEF ds, clears, added
  <2>6. RowTypes'
    BY <1>3, <1>4, <2>3 DEF AuthorityInv, RowTypes, Announces
  <2>7. TypeOK'
    <3>1. Len(outbox) \in Nat /\ Len(outbox') \in Nat /\ Len(outbox) <= Len(outbox')
      BY <2>3 DEF AuthorityInv, RowTypes, Announces
    <3>2. \A u \in Tasks : task'[u].state \in {"none", "planned", "open", "verified", "over"}
      BY <1>3 DEF AuthorityInv, TypeOK
    <3> QED
      BY <1>4, <2>1, <2>3, <2>4, <2>5, <3>1, <3>2 DEF AuthorityInv, TypeOK, control, hints, Announces
  <2>8. AuthorsKnowTheValue'
    <3>1. rev'["accounts"] = rev["accounts"] + 1 /\ rev["accounts"] \in Nat
      BY <2>2, <2>3, BoundsAssumption DEF Announces, AuthorityInv, TypeOK
    <3>2. \A x \in Accounts : accounts[x].cred \in Nat /\ accounts[x].cred <= rev["accounts"]
      BY BoundsAssumption DEF AuthorityInv, TypeOK, Values, AuthorsKnowTheValue, CredsCounted
    <3>3. CredsCounted(accounts, rev["accounts"])'
      BY <2>4, <3>1, <3>2 DEF CredsCounted
    <3> QED
      BY <1>4, <2>1, <2>2, <2>3, <3>3, RevisionsNameValues
  <2>9. RequestsAreWatched'
    BY <1>4, <2>2, <2>3, WritesAreNoticed
  <2>10. PlansKnowTheCredential'
    BY <1>3, <2>2, <2>3, PlansNameCredentials
  <2>11. NoOverrideOutlivesItsAccount'
    BY <2>4, <2>5 DEF AuthorityInv, NoOverrideOutlivesItsAccount
  <2>12. PermitsHoldCurrentCredentials'
    <3> SUFFICES ASSUME NEW u \in Tasks, task'[u].state \in {"open", "verified"}
                 PROVE  accounts'[task'[u].account].cred = task'[u].cred
      BY DEF PermitsHoldCurrentCredentials, Open
    <3>1. task[u] \in Planned /\ u \in Open /\ task'[u].account = task[u].account /\ task'[u].cred = task[u].cred
      BY <1>1, <1>3 DEF Open, AuthorityInv, RowTypes
    <3>2. task[u].account \in Accounts /\ accounts[task[u].account].cred = task[u].cred
      BY <3>1 DEF AuthorityInv, PermitsHoldCurrentCredentials, Planned
    <3> QED
      BY <2>4, <3>1, <3>2
  <2>13. EventsAreOld' /\ ProjectionIsFed'
    BY <1>4, <2>2, <2>3, WritesFeedTheProjection
  <2> QED
    BY <2>6, <2>7, <2>8, <2>9, <2>10, <2>11, <2>12, <2>13 DEF AuthorityInv
<1> QED
  BY <1>5, <1>6

-----------------------------------------------------------------------------
LEMMA GreatestElement ==
  ASSUME NEW S, S \subseteq Nat, NEW m \in S, \A n \in S : m >= n
  PROVE  MaxOf(S) = m
<1>1. MaxOf(S) \in S /\ \A n \in S : MaxOf(S) >= n
  BY DEF MaxOf
<1>2. MaxOf(S) \in Nat /\ m \in Nat /\ MaxOf(S) >= m /\ m >= MaxOf(S)
  BY <1>1
<1> HIDE DEF MaxOf
<1> QED
  BY <1>2

LEMMA ConsumeInv ==
  ASSUME AuthorityInv, Consume
  PROVE  AuthorityInv'
<1>1. UNCHANGED <<control, values, receipts, base, req, task>> /\ acked' = Len(outbox) /\ seeded' = TRUE
  BY DEF Consume
<1>2. Len(outbox) \in Nat /\ acked \in 0..Len(outbox) /\ \A d \in Domains : rev[d] \in Nat /\ projection[d] \in Nat
  BY BoundsAssumption DEF AuthorityInv, TypeOK, RowTypes
<1>3. projection' = rev
  <2> DEFINE events(d) == {outbox[i].revision : i \in {j \in acked + 1 .. Len(outbox) : outbox[j].domain = d}}
             news(d) == {projection[d]} \union events(d) \union (IF seeded THEN {} ELSE {rev[d]})
  <2>1. projection' = [d \in Domains |-> MaxOf(news(d))]
    BY DEF Consume
  <2>2. ASSUME NEW d \in Domains PROVE MaxOf(news(d)) = rev[d]
    <3>1. \A n \in events(d) : n \in Nat /\ n <= rev[d]
      <4> SUFFICES ASSUME NEW i \in acked + 1 .. Len(outbox), outbox[i].domain = d
                   PROVE  outbox[i].revision \in Nat /\ outbox[i].revision <= rev[d]
        OBVIOUS
      <4>1. i \in 1..Len(outbox) /\ outbox[i] \in Event
        BY <1>2, ElementOfSeq DEF AuthorityInv, RowTypes
      <4> QED
        BY <4>1, BoundsAssumption DEF AuthorityInv, EventsAreOld, Event
    <3>2. projection[d] <= rev[d] /\ rev[d] \in news(d)
      BY DEF AuthorityInv, ProjectionIsFed, Announced
    <3>3. news(d) \subseteq Nat /\ \A n \in news(d) : rev[d] >= n
      BY <1>2, <3>1, <3>2
    <3> HIDE DEF news
    <3> QED
      BY <3>2, <3>3, GreatestElement
  <2> QED
    BY <2>1, <2>2 DEF AuthorityInv, TypeOK
<1>4. TypeOK' /\ RowTypes'
  BY <1>1, <1>2, <1>3 DEF AuthorityInv, TypeOK, RowTypes, control, values
<1>5. AuthorsKnowTheValue' /\ RequestsAreWatched'
  BY <1>1 DEF AuthorityInv, AuthorsKnowTheValue, RevisionNamesValue, CredsCounted,
              RequestsAreWatched, RequestInv, Op, values
<1>6. PlansKnowTheCredential' /\ NoOverrideOutlivesItsAccount' /\ PermitsHoldCurrentCredentials'
  BY <1>1 DEF AuthorityInv, PlansKnowTheCredential, NoOverrideOutlivesItsAccount,
              PermitsHoldCurrentCredentials, Open, values
<1>7. EventsAreOld' /\ ProjectionIsFed'
  BY <1>1, <1>2, <1>3 DEF AuthorityInv, EventsAreOld, ProjectionIsFed, Announced, values
<1> QED
  BY <1>4, <1>5, <1>6, <1>7 DEF AuthorityInv

-----------------------------------------------------------------------------
LEMMA InitAuthority == Init => AuthorityInv
<1> SUFFICES ASSUME Init PROVE AuthorityInv
  OBVIOUS
<1>1. PICK stored \in SUBSET Accounts :
        accounts = [a \in Accounts |-> [cred |-> IF a \in stored THEN 1 ELSE 0, worker |-> FALSE]]
  BY DEF Init
<1>2. accounts \in Values
  BY <1>1, BoundsAssumption DEF Values
<1>3. 0 \in 0..MaxRev /\ 1 \in 0..MaxRev /\ 1 \in 1..MaxEpoch
  BY BoundsAssumption
<1>4. /\ rev = [d \in Domains |-> IF d = "accounts" THEN 1 ELSE 0]
      /\ "accounts" \in Domains /\ rev["accounts"] = 1
  BY DEF Init, Domains
<1>5. outbox = <<[domain |-> "accounts", revision |-> 1]>> /\ Len(outbox) = 1 /\ outbox \in Seq(Event)
  BY <1>3, <1>4 DEF Init, Event
<1>6. TypeOK
  <2>1. rev \in [Domains -> 0..MaxRev] /\ projection \in [Domains -> 0..MaxRev] /\ acked \in 0..Len(outbox)
    BY <1>3, <1>4, <1>5 DEF Init
  <2>2. /\ \A r \in Requests : req[r].state = "idle"
        /\ \A t \in Tasks : task[t].state = "none"
    BY DEF Init
  <2> QED
    BY <1>2, <1>3, <2>1, <2>2 DEF Init, TypeOK
<1>7. RowTypes
  BY <1>5 DEF Init, RowTypes, States
<1>8. AuthorsKnowTheValue /\ RequestsAreWatched
  BY <1>1, <1>4 DEF Init, AuthorsKnowTheValue, CredsCounted, RequestsAreWatched, RequestInv, Waiting, Keys
<1>9. PlansKnowTheCredential /\ NoOverrideOutlivesItsAccount /\ PermitsHoldCurrentCredentials
  BY DEF Init, PlansKnowTheCredential, NoOverrideOutlivesItsAccount, PermitsHoldCurrentCredentials, Open
<1>10. EventsAreOld /\ ProjectionIsFed
  BY <1>4, <1>5 DEF Init, EventsAreOld, ProjectionIsFed
<1> QED
  BY <1>6, <1>7, <1>8, <1>9, <1>10 DEF AuthorityInv

LEMMA AuthorityStep ==
  ASSUME AuthorityInv, [Next]_vars
  PROVE  AuthorityInv'
<1>1. CASE SetMaintenance \/ ObservationEnds
  BY <1>1, ControlInv
<1>2. CASE Restart
  BY <1>2, RestartInv
<1>3. ASSUME NEW k \in Keys, NEW op \in Ops, Compose(k, op)
      PROVE  AuthorityInv'
  BY <1>3, ComposeInv
<1>4. ASSUME NEW r \in Requests, Send(r) \/ Begin(r) \/ StartWrite(r) \/ Commit(r)
      PROVE  AuthorityInv'
  BY <1>4, RequestSteps, BeginInv, CommitInv
<1>5. ASSUME NEW t \in Tasks,
             \/ \E a \in Accounts, kind \in {"create", "remove", "override"} : Plan(t, a, kind)
             \/ Admit(t) \/ Verify(t) \/ Complete(t)
      PROVE  AuthorityInv'
  BY <1>5, PlanInv, AdmitInv, VerifyInv, CompleteInv
<1>6. CASE Consume
  BY <1>6, ConsumeInv
<1>7. CASE UNCHANGED vars
  <2>1. UNCHANGED <<control, values, hints, receipts, base, task, req>>
    BY <1>7 DEF vars, control, values, hints
  <2>2. req' \in [Requests -> [state : States, revs : {None} \union Views, watermark : Nat, closed : BOOLEAN]]
    BY <2>1 DEF AuthorityInv, RowTypes
  <2> QED
    BY <2>1, <2>2, OnlyRequests
<1>8. CASE Next
  BY <1>1, <1>2, <1>3, <1>4, <1>5, <1>6, <1>8 DEF Next
<1> QED
  BY <1>7, <1>8

(* The inductive invariant holds in every reachable state. *)
THEOREM AuthorityInvariant == Spec => []AuthorityInv
<1>1. Init => AuthorityInv
  BY InitAuthority
<1>2. AuthorityInv /\ [Next]_vars => AuthorityInv'
  BY AuthorityStep
<1> QED
  BY <1>1, <1>2, PTL DEF Spec

(* The records keep their types; the hints are never ahead of the records,  *)
(* and as new as they are where no event waits (config-projection.ts).      *)
THEOREM HintsSayWhatTheRecordsSay == Spec => []AuthorityIsConsistent
<1>1. AuthorityInv => AuthorityIsConsistent
  BY DEF AuthorityInv, AuthorityIsConsistent, ProjectionInSync, ProjectionIsFed, Announced, Pending
<1> QED
  BY <1>1, AuthorityInvariant, PTL

(* Whatever is encrypted, planned, merged and removed at the same time, no  *)
(* override outlives its account and no open permit loses its credential    *)
(* (config-store.ts:105-110, credential-authority.ts).                      *)
THEOREM CredentialsStayCurrent == Spec => []CredentialsAreCurrent
<1>1. AuthorityInv => CredentialsAreCurrent
  BY DEF AuthorityInv, CredentialsAreCurrent
<1> QED
  BY <1>1, AuthorityInvariant, PTL

(* An edit that commits was composed of the value it replaces, and its      *)
(* author is told the truth about it (config-editor.ts:169-228).            *)
LEMMA EditStep ==
  ASSUME AuthorityInv, [Next]_vars
  PROVE  [EditSeesTheLatest /\ AnswerIsTrue]_vars
<1> SUFFICES ASSUME Next PROVE EditSeesTheLatest /\ AnswerIsTrue
  OBVIOUS
<1>1. ASSUME UNCHANGED receipts, \A r \in Requests : req'[r] = req[r] \/ req'[r].state \in Waiting \union {"lost"}
      PROVE  EditSeesTheLatest /\ AnswerIsTrue
  BY <1>1 DEF EditSeesTheLatest, AnswerIsTrue, Waiting
<1>2. ASSUME NEW r \in Requests, Fail(r)
      PROVE  EditSeesTheLatest /\ AnswerIsTrue
  <2>1. UNCHANGED receipts /\ \A s \in Requests \ {r} : req'[s] = req[s]
    BY <1>2 DEF Fail, Replay, Answered, AuthorityInv, RowTypes
  <2>2. \/ KeyOf[r] \in receipts /\ req'[r].state = "duplicate"
        \/ KeyOf[r] \notin receipts /\ req'[r].state = "refused"
    BY <1>2 DEF Fail, Replay, Answered, AuthorityInv, RowTypes
  <2> QED
    BY <2>1, <2>2 DEF EditSeesTheLatest, AnswerIsTrue
<1>3. ASSUME NEW r \in Requests, KeyOf[r] \notin receipts, receipts' = receipts \union {KeyOf[r]},
             Answered(r, "committed"), base[KeyOf[r]] # None, ~Stale(r)
      PROVE  EditSeesTheLatest /\ AnswerIsTrue
  <2>1. req'[r].state = "committed" /\ \A s \in Requests \ {r} : req'[s] = req[s]
    BY <1>3, AnsweredRequest
  <2>2. RevisionNamesValue(base[KeyOf[r]]) /\ receipts' \ receipts = {KeyOf[r]}
    BY <1>3 DEF AuthorityInv, AuthorsKnowTheValue, Keys
  <2>3. EditSeesTheLatest
    BY <1>3, <2>2 DEF EditSeesTheLatest, RevisionNamesValue, Stale, Target
  <2> QED
    BY <2>1, <2>2, <2>3 DEF AnswerIsTrue
<1>4. ASSUME NEW r \in Requests, Send(r) \/ Begin(r) \/ StartWrite(r) \/ Commit(r)
      PROVE  EditSeesTheLatest /\ AnswerIsTrue
  <2>1. \/ Fail(r)
        \/ /\ UNCHANGED receipts
           /\ \E state \in Waiting : \E revs, n, c : req' \in
                {[req EXCEPT ![r].state = state],
                 [req EXCEPT ![r] = [state |-> state, revs |-> revs, watermark |-> n, closed |-> c]]}
        \/ /\ KeyOf[r] \notin receipts /\ receipts' = receipts \union {KeyOf[r]}
           /\ Answered(r, "committed") /\ ~Stale(r) /\ req[r].state \in Waiting
    <3>1. CASE Send(r)
      BY <1>4, <3>1 DEF Send, Waiting
    <3>2. CASE Begin(r)
      BY <3>2 DEF Begin, Fail, Waiting
    <3>3. CASE StartWrite(r)
      BY <3>3 DEF StartWrite, Waiting
    <3>4. CASE Commit(r)
      BY <3>4 DEF Commit, Allowed, Waiting
    <3> QED
      BY <1>4, <3>1, <3>2, <3>3, <3>4
  <2>2. base[KeyOf[r]] # None \/ req[r].state \notin Waiting
    BY DEF AuthorityInv, RequestsAreWatched, RequestInv
  <2> QED
    BY <1>1, <1>2, <1>3, <2>1, <2>2 DEF AuthorityInv, RowTypes
<1>5. CASE Restart
  BY <1>1, <1>5 DEF Restart, AuthorityInv, RowTypes
<1>6. CASE UNCHANGED <<receipts, req>>
  BY <1>1, <1>6
<1> QED
  BY <1>4, <1>5, <1>6 DEF Next, SetMaintenance, ObservationEnds, Compose, Plan, Admit, Verify, Complete, Consume

THEOREM EditsTellTheTruth == Spec => EditsAreTrue
BY AuthorityInvariant, EditStep, PTL DEF Spec, EditsAreTrue

(* The authority among the parts behaves as ConfigAuthority by itself: what  *)
(* is proved of it holds of the parts (credential-authority.ts).                *)
THEOREM PartsKeepAuthority == PartsSpec => Spec
<1>1. PartsInit => Init
  BY DEF PartsInit
<1>2. [NextAuthority \/ NextLegacy \/ NextPanel]_partsVars => [Next]_vars
  BY DEF NextAuthority, NextLegacy, NextPanel, partsVars
<1> QED
  BY <1>1, <1>2, PTL DEF PartsSpec, Spec

-----------------------------------------------------------------------------
(* The deployments before there was an authority.                            *)
Deploying == {"manual", "batch", "repair", "rotation", "update"}
Jobs == [kind : Deploying \union {"none", "cron", "delete"}, fuse : SUBSET Legacy!Holders, scope : {"full", "partial"}, sha : Nat,
         latest : BOOLEAN, ok : SUBSET Targets, bad : SUBSET Targets, was : [Legacy!Holders -> Nat]]
Runs(h, m) == [sha : 0..h \union {Legacy!Chosen}, uuid : 0..m]
Ledgers(h) == [latest : BOOLEAN, sha : 0..h, pending : SUBSET Targets, pendingSha : 0..h]
LegacyTypes ==
  /\ head \in 1..MaxSha /\ minted \in Nat /\ table \subseteq Targets /\ owed \subseteq table
  /\ code \in [Targets -> Runs(head, minted)] /\ ledger \in Ledgers(head) /\ uuids \in [Legacy!Holders -> 0..minted]
  /\ job \in Jobs /\ job.sha <= head /\ job.ok \intersect job.bad = {}

(* The commit that a deployment puts on a worker.                          *)
Fixed(d) == d.kind = "manual" /\ ~d.latest
Uploaded(d) == IF Fixed(d) THEN Legacy!Chosen ELSE d.sha
JobInv ==
  /\ job.kind \notin Deploying => job.ok = {} /\ job.bad = {}
  /\ job.kind \in Deploying => /\ ledger.sha <= job.sha \/ Fixed(job)
                               /\ job.scope = "full" => table \subseteq job.ok \union job.bad
                               /\ \A t \in job.ok : t \in missed \/ job.sha <= code[t].sha
(* Where the ledger is at the newest commit nothing is behind, but what a   *)
(* dropped upload left behind unread; and what failed is pending.           *)
Behind(t) == 0 < code[t].sha /\ code[t].sha < head /\ t \notin missed
LedgerInv ==
  /\ ledger.latest => ledger.pendingSha = 0 \/ ledger.sha <= ledger.pendingSha
  /\ ledger.sha = head => \A t \in table : ~Behind(t)
  /\ ledger.latest /\ ledger.sha = head => \A t \in owed : ledger.pendingSha = head /\ t \in ledger.pending
LegacyInv == LegacyTypes /\ JobInv /\ LedgerInv

LEMMA KnownLegacy ==
  ASSUME LegacyInv
  PROVE  /\ head \in Nat /\ head \in 1..MaxSha /\ minted \in Nat /\ table \subseteq Targets /\ owed \subseteq table
         /\ code \in [Targets -> Runs(head, minted)] /\ ledger \in Ledgers(head) /\ uuids \in [Legacy!Holders -> 0..minted]
         /\ job \in Jobs /\ job.sha <= head /\ job.ok \intersect job.bad = {}
         /\ Legacy!Chosen \in Nat /\ head < Legacy!Chosen /\ MaxSha \in Nat
         /\ JobInv /\ LedgerInv
BY PartBoundsAssumption DEF LegacyInv, LegacyTypes, Legacy!Chosen

LEMMA NoJobIsOne == Legacy!NoJob \in Jobs /\ Legacy!NoJob.kind = "none" /\ Legacy!NoJob.sha = 0 /\ Legacy!NoJob.ok = {} /\ Legacy!NoJob.bad = {}
BY DEF Legacy!NoJob, Jobs, Legacy!Nobody

(* What a deployment leaves on the workers, and what it reports of them.   *)
LEMMA UploadsEffect ==
  ASSUME code \in [Targets -> Runs(head, minted)], head \in Nat, minted \in Nat, minted' \in Nat,
         minted <= minted', head < Legacy!Chosen, Legacy!Chosen \in Nat,
         NEW d \in Jobs, d.sha <= head, NEW goals \in SUBSET Targets,
         NEW uses \in [Legacy!Holders -> 0..minted'],
         Legacy!Uploads(d, goals, uses)
  PROVE  /\ code' \in [Targets -> Runs(head, minted')]
         /\ \A t \in Targets : code'[t] = code[t] \/
              (t \in goals /\ code'[t].sha \in {0, Uploaded(d)} /\ code'[t].uuid \in {code[t].uuid, uses[AccountOf[t]]})
         /\ \A t \in Targets : t \in missed /\ t \notin missed' => code'[t].sha \in {0, Uploaded(d)}
         /\ job' = [d EXCEPT !.ok = job'.ok, !.bad = job'.bad] /\ job'.ok \union job'.bad = goals
         /\ job'.ok \intersect job'.bad = {} /\ \A t \in job'.ok : t \in missed' \/ d.sha <= code'[t].sha
<1> DEFINE Fate == {"kept", "deployed", "unread", "lost", "deleted"}
<1> PICK fate \in [goals -> Fate] :
           /\ \A t \in goals : fate[t] \in Legacy!Fates(d.kind, t)
           /\ code' = Legacy!Ran(d, uses, fate)
           /\ missed' = (missed \ Legacy!With(fate, {"deployed", "lost", "deleted"}))
                           \union {t \in Legacy!With(fate, {"unread"}) : code'[t].sha < d.sha}
           /\ job' = [d EXCEPT !.ok = Legacy!With(fate, {"deployed", "unread"}),
                               !.bad = Legacy!With(fate, {"kept", "lost", "deleted"})]
  BY DEF Legacy!Uploads
<1>0. DOMAIN fate = goals
  OBVIOUS
<1>1. ASSUME NEW t \in Targets
      PROVE  /\ code'[t] \in Runs(head, minted')
             /\ code'[t] = code[t] \/
                  (t \in goals /\ code'[t].sha \in {0, Uploaded(d)} /\ code'[t].uuid \in {code[t].uuid, uses[AccountOf[t]]})
             /\ t \in goals /\ fate[t] \in {"deployed", "lost"} => code'[t].sha = Uploaded(d)
             /\ t \in goals /\ fate[t] = "deleted" => code'[t].sha = 0
  <2>1. code[t] \in Runs(head, minted) /\ code[t] \in Runs(head, minted')
    BY DEF Runs
  <2>2. uses[AccountOf[t]] \in 0..minted' /\ Uploaded(d) \in 0..head \union {Legacy!Chosen}
    BY DEF Legacy!Holders, Uploaded, Jobs
  <2>3. CASE t \notin goals \/ fate[t] = "kept" \/ (fate[t] = "unread" /\ d.kind # "repair")
    <3>1. code'[t] = code[t]
      BY <1>0, <2>3 DEF Legacy!Ran
    <3> QED
      BY <2>1, <2>3, <3>1
  <2>4. CASE t \in goals /\ (fate[t] = "deleted" \/ (fate[t] = "unread" /\ d.kind = "repair"))
    <3>1. code'[t] = [code[t] EXCEPT !.sha = 0]
      BY <1>0, <2>4 DEF Legacy!Ran
    <3>2. code'[t] \in Runs(head, minted') /\ code'[t].sha = 0 /\ code'[t].uuid = code[t].uuid
      BY <2>1, <3>1 DEF Runs
    <3> QED
      BY <2>4, <3>2
  <2>5. CASE t \in goals /\ fate[t] \in {"deployed", "lost"}
    <3>1. code'[t] = [sha |-> Uploaded(d), uuid |-> uses[AccountOf[t]]]
      BY <1>0, <2>5 DEF Legacy!Ran, Uploaded, Fixed
    <3>2. code'[t] \in Runs(head, minted') /\ code'[t].sha = Uploaded(d) /\ code'[t].uuid = uses[AccountOf[t]]
      BY <2>2, <3>1 DEF Runs
    <3> QED
      BY <2>5, <3>2
  <2> QED
    BY <2>3, <2>4, <2>5
<1>2. code' = [t \in Targets |-> code'[t]]
  BY DEF Legacy!Ran
<1>3. /\ job'.ok = {t \in goals : fate[t] \in {"deployed", "unread"}}
      /\ job'.bad = {t \in goals : fate[t] \in {"kept", "lost", "deleted"}}
  BY <1>0 DEF Jobs, Legacy!With
<1>4. job'.ok \union job'.bad = goals /\ job'.ok \intersect job'.bad = {}
  BY <1>3
<1>5. ASSUME NEW t \in job'.ok PROVE t \in missed' \/ d.sha <= code'[t].sha
  <2>0. t \in goals /\ t \in Targets /\ code'[t].sha \in Nat /\ d.sha \in Nat
    BY <1>1, <1>3, <1>5 DEF Runs, Jobs
  <2>1. CASE fate[t] = "deployed"
    <3>1. d.sha <= Uploaded(d)
      BY DEF Uploaded, Jobs
    <3> QED
      BY <1>1, <2>0, <2>1, <3>1
  <2>2. CASE fate[t] = "unread"
    <3>1. t \in Legacy!With(fate, {"unread"})
      BY <1>0, <2>0, <2>2 DEF Legacy!With
    <3> QED
      BY <2>0, <3>1
  <2> QED
    BY <1>3, <1>5, <2>1, <2>2
<1>6. ASSUME NEW t \in Targets, t \in missed, t \notin missed' PROVE code'[t].sha \in {0, Uploaded(d)}
  <2>1. t \in goals /\ fate[t] \in {"deployed", "lost", "deleted"}
    BY <1>0, <1>6 DEF Legacy!With
  <2> QED
    BY <1>1, <2>1
<1>7. job' = [d EXCEPT !.ok = job'.ok, !.bad = job'.bad]
  BY <1>0, <1>3 DEF Legacy!With
<1> QED
  BY <1>1, <1>2, <1>4, <1>5, <1>6, <1>7

(* A deployment d of some targets, all that are managed if it is full.     *)
LEMMA DeployStep ==
  ASSUME LegacyInv, NEW d \in Jobs, d.kind \in Deploying, d.sha <= head,
         NEW goals \in SUBSET Targets, NEW uses \in [Legacy!Holders -> 0..minted'],
         Legacy!Uploads(d, goals, uses),
         minted' \in Nat, minted <= minted', uuids' \in [Legacy!Holders -> 0..minted'], UNCHANGED <<table, ledger, head, owed>>,
         ledger.sha <= d.sha \/ Fixed(d),
         d.scope = "full" => table \subseteq goals
  PROVE  LegacyInv'
<1>1. /\ code' \in [Targets -> Runs(head, minted')]
      /\ \A t \in Targets : code'[t].sha = code[t].sha \/ code'[t].sha \in {0, Uploaded(d)}
      /\ \A t \in Targets : t \in missed /\ t \notin missed' => code'[t].sha \in {0, Uploaded(d)}
      /\ job' = [d EXCEPT !.ok = job'.ok, !.bad = job'.bad] /\ job'.ok \union job'.bad = goals
      /\ job'.ok \intersect job'.bad = {} /\ \A t \in job'.ok : t \in missed' \/ d.sha <= code'[t].sha
  BY UploadsEffect, KnownLegacy
<1>2. LedgerInv'
  <2>1. ASSUME NEW t \in table, Behind(t)', ledger.sha = head PROVE Behind(t)
    <3>1. Uploaded(d) \in {head, Legacy!Chosen}
      BY <2>1, KnownLegacy DEF Uploaded, Jobs
    <3>2. 0 < code'[t].sha /\ code'[t].sha < head /\ t \notin missed' /\ t \in Targets
      BY <2>1, KnownLegacy DEF Behind
    <3>3. code'[t].sha = code[t].sha /\ t \notin missed
      BY <1>1, <3>1, <3>2, KnownLegacy
    <3> QED
      BY <3>2, <3>3 DEF Behind
  <2> QED
    BY <2>1, KnownLegacy DEF LedgerInv
<1> PICK ok, bad : ok = job'.ok /\ bad = job'.bad
  OBVIOUS
<1>3. /\ job' = [d EXCEPT !.ok = ok, !.bad = bad] /\ ok \union bad = goals
      /\ ok \intersect bad = {} /\ \A t \in ok : t \in missed' \/ d.sha <= code'[t].sha
  BY <1>1
<1>4. ok \in SUBSET Targets /\ bad \in SUBSET Targets
  BY <1>3
<1>5. /\ job' \in Jobs /\ job'.kind = d.kind /\ job'.sha = d.sha /\ job'.latest = d.latest /\ job'.scope = d.scope
      /\ job'.ok = ok /\ job'.bad = bad
  BY <1>3, <1>4 DEF Jobs
<1>6. Fixed(job)' <=> Fixed(d)
  BY <1>5 DEF Fixed
<1>7. JobInv'
  BY <1>3, <1>5, <1>6 DEF JobInv
<1> QED
  BY <1>1, <1>2, <1>3, <1>5, <1>7, KnownLegacy DEF LegacyInv, LegacyTypes

LEMMA ManualStep ==
  ASSUME LegacyInv, NEW as \in SUBSET Legacy!Holders, NEW sha \in 0..MaxSha, Legacy!Manual(as, sha)
  PROVE  LegacyInv'
<1> PICK goals : goals = IF as = {} THEN table ELSE table \intersect Legacy!Of(as)
  OBVIOUS
<1> PICK scope : scope = IF as = {} THEN "full" ELSE "partial"
  OBVIOUS
<1> PICK commit : commit = IF sha = 0 THEN head ELSE sha
  OBVIOUS
<1> PICK d : d = [Legacy!NoJob EXCEPT !.kind = "manual", !.scope = scope, !.sha = commit, !.latest = (sha = 0)]
  OBVIOUS
<1>0. commit \in Nat /\ scope \in {"full", "partial"}
  BY KnownLegacy
<1>1. d \in Jobs /\ d.kind = "manual" /\ d.scope = scope /\ d.sha = commit /\ d.latest = (sha = 0)
  BY <1>0, NoJobIsOne DEF Jobs, Deploying
<1>2. /\ sha <= head /\ Legacy!Uploads(d, goals, Legacy!Nobody) /\ UNCHANGED <<table, ledger, head, minted, owed>>
      /\ uuids' = [a \in Legacy!Holders |-> IF a \in Legacy!Owners(goals) THEN 0 ELSE uuids[a]]
  BY DEF Legacy!Manual, Legacy!outside
<1>3. goals \in SUBSET Targets /\ (d.scope = "full" => table \subseteq goals)
  <2>1. CASE as = {}
    <3>1. goals = table
      BY <2>1
    <3> QED
      BY <3>1, KnownLegacy
  <2>2. CASE as # {}
    <3>1. goals = table \intersect Legacy!Of(as) /\ scope = "partial"
      BY <2>2
    <3> QED
      BY <1>1, <3>1, KnownLegacy
  <2> QED
    BY <2>1, <2>2
<1>4. minted' \in Nat /\ minted <= minted' /\ minted' = minted
  BY <1>2, KnownLegacy
<1>5. Legacy!Nobody \in [Legacy!Holders -> 0..minted'] /\ uuids' \in [Legacy!Holders -> 0..minted']
  <2>1. Legacy!Nobody \in [Legacy!Holders -> 0..minted']
    BY <1>4 DEF Legacy!Nobody
  <2>2. \A a \in Legacy!Holders : uuids[a] \in 0..minted'
    BY <1>4, KnownLegacy
  <2>3. \A a \in Legacy!Holders : (IF a \in Legacy!Owners(goals) THEN 0 ELSE uuids[a]) \in 0..minted'
    <3>1. 0 \in 0..minted'
      BY <1>4
    <3> QED
      BY <2>2, <3>1
  <2>4. uuids' \in [Legacy!Holders -> 0..minted']
    BY <1>2, <2>3
  <2> QED
    BY <2>1, <2>4
<1>6. d.sha <= head /\ ledger.sha <= head /\ ledger.sha \in Nat
  BY <1>1, <1>2, KnownLegacy DEF Ledgers
<1>7. Fixed(d) \/ d.sha = head
  BY <1>1 DEF Fixed
<1>8. ledger.sha <= d.sha \/ Fixed(d)
  BY <1>6, <1>7
<1> QED
  BY <1>1, <1>2, <1>3, <1>4, <1>5, <1>6, <1>7, <1>8, DeployStep DEF Deploying

LEMMA BatchStep ==
  ASSUME LegacyInv, NEW goals \in SUBSET Targets, Legacy!Batch(goals)
  PROVE  LegacyInv'
<1> PICK d : d = [Legacy!NoJob EXCEPT !.kind = "batch", !.scope = "partial", !.sha = head]
  OBVIOUS
<1>1. d \in Jobs /\ d.kind = "batch" /\ d.scope = "partial" /\ d.sha = head
  BY KnownLegacy, NoJobIsOne DEF Jobs, Deploying
<1>2. Legacy!Uploads(d, goals, Legacy!Nobody) /\ UNCHANGED <<table, ledger, head, minted, owed, uuids>>
  BY DEF Legacy!Batch, Legacy!outside
<1>3. minted' \in Nat /\ minted <= minted' /\ Legacy!Nobody \in [Legacy!Holders -> 0..minted'] /\ uuids' \in [Legacy!Holders -> 0..minted']
  BY <1>2, KnownLegacy DEF Legacy!Nobody
<1>4. d.sha <= head /\ ledger.sha <= d.sha
  BY <1>1, KnownLegacy DEF Ledgers
<1> QED
  BY <1>1, <1>2, <1>3, <1>4, DeployStep DEF Deploying

LEMMA RepairStep ==
  ASSUME LegacyInv, Legacy!Repair
  PROVE  LegacyInv'
<1> PICK d : d = [Legacy!NoJob EXCEPT !.kind = "repair", !.sha = head]
  OBVIOUS
<1>1. d \in Jobs /\ d.kind = "repair" /\ d.sha = head
  BY KnownLegacy, NoJobIsOne DEF Jobs, Deploying
<1>2. Legacy!Uploads(d, table, Legacy!Nobody) /\ UNCHANGED <<table, ledger, head, minted, owed, uuids>> /\ table \in SUBSET Targets
  BY KnownLegacy DEF Legacy!Repair, Legacy!outside
<1>3. minted' \in Nat /\ minted <= minted' /\ Legacy!Nobody \in [Legacy!Holders -> 0..minted'] /\ uuids' \in [Legacy!Holders -> 0..minted']
  BY <1>2, KnownLegacy DEF Legacy!Nobody
<1>4. d.sha <= head /\ ledger.sha <= d.sha
  BY <1>1, KnownLegacy DEF Ledgers
<1> QED
  BY <1>1, <1>2, <1>3, <1>4, DeployStep DEF Deploying

(* Only the job changes, to one that deploys nothing.                      *)
LEMMA IdleStep ==
  ASSUME LegacyInv, NEW j \in Jobs, job' = j, j.kind \notin Deploying, j.ok = {}, j.bad = {},
         j.sha <= head,
         uuids' \in [Legacy!Holders -> 0..minted'], minted' \in Nat, minted <= minted',
         UNCHANGED <<table, code, ledger, head, owed, missed>>
  PROVE  LegacyInv'
<1>1. code' \in [Targets -> Runs(head', minted')]
  BY KnownLegacy DEF Runs
<1>2. JobInv' /\ LedgerInv'
  BY KnownLegacy DEF JobInv, LedgerInv, Behind
<1> QED
  BY <1>1, <1>2, KnownLegacy DEF LegacyInv, LegacyTypes
LEMMA UpstreamStep ==
  ASSUME LegacyInv, Legacy!UpstreamMoves
  PROVE  LegacyInv'
<1>1. head' = head + 1 /\ head < MaxSha /\ UNCHANGED <<table, code, ledger, uuids, minted, job, owed, missed>>
  BY DEF Legacy!UpstreamMoves
<1>2. code' \in [Targets -> Runs(head', minted')] /\ ledger' \in Ledgers(head') /\ head' \in 1..MaxSha
  <2>1. Runs(head, minted) \subseteq Runs(head', minted') /\ Ledgers(head) \subseteq Ledgers(head')
    BY <1>1, KnownLegacy DEF Runs, Ledgers
  <2> QED
    BY <1>1, <2>1, KnownLegacy
<1>3. ledger.sha # head'
  BY <1>1, KnownLegacy DEF Ledgers
<1>4. job.sha <= head'
  BY <1>1, KnownLegacy DEF Jobs
<1>5. JobInv'
  BY <1>1, KnownLegacy DEF JobInv, Fixed
<1>6. LedgerInv'
  BY <1>1, <1>3, KnownLegacy DEF LedgerInv
<1> QED
  BY <1>1, <1>2, <1>4, <1>5, <1>6, KnownLegacy DEF LegacyInv, LegacyTypes

LEMMA CronStep ==
  ASSUME LegacyInv, NEW over \in SUBSET Legacy!Owners(table), Legacy!Cron(over)
  PROVE  LegacyInv'
<1> PICK j : j = [Legacy!NoJob EXCEPT !.kind = "cron", !.fuse = over, !.was = uuids]
  OBVIOUS
<1>1. over \in SUBSET Legacy!Holders /\ uuids \in [Legacy!Holders -> Nat]
  BY KnownLegacy DEF Legacy!Owners, Legacy!Holders
<1>2. j \in Jobs /\ j.kind = "cron" /\ j.ok = {} /\ j.bad = {} /\ j.sha = 0
  BY <1>1, NoJobIsOne DEF Jobs
<1>3. job' = j /\ UNCHANGED <<table, code, ledger, uuids, head, minted, owed, missed>>
  BY DEF Legacy!Cron, Legacy!outside
<1>4. uuids' \in [Legacy!Holders -> 0..minted'] /\ minted' \in Nat /\ minted <= minted' /\ j.sha <= head
  BY <1>2, <1>3, KnownLegacy
<1> QED
  BY <1>2, <1>3, <1>4, IdleStep DEF Deploying

LEMMA CutOffStep ==
  ASSUME LegacyInv, Legacy!CutOff
  PROVE  LegacyInv'
<1>1. job' = Legacy!NoJob /\ UNCHANGED <<table, code, ledger, uuids, head, minted, owed, missed>>
  BY DEF Legacy!CutOff, Legacy!outside
<1>2. uuids' \in [Legacy!Holders -> 0..minted'] /\ minted' \in Nat /\ minted <= minted' /\ Legacy!NoJob.sha <= head
  BY <1>1, NoJobIsOne, KnownLegacy
<1> QED
  BY <1>1, <1>2, IdleStep, NoJobIsOne DEF Deploying

(* The rotation of an account, as far as it is the same whatever follows.  *)
LEMMA RotateEffect ==
  ASSUME LegacyInv, NEW a \in Legacy!Holders, Legacy!Rotate(a)
  PROVE  /\ job.kind = "cron" /\ minted' = minted + 1 /\ UNCHANGED <<table, ledger, head, owed>>
         /\ uuids' \in [Legacy!Holders -> 0..minted']
         /\ \/ \E j \in Jobs : job' = j /\ j.kind \notin Deploying /\ j.ok = {} /\ j.bad = {} /\ j.sha <= head /\ code' = code /\ missed' = missed
            \/ \E d \in Jobs : /\ d.kind = "rotation" /\ d.scope = "partial" /\ d.sha \in {head, ledger.sha} /\ ledger.sha <= d.sha
                               /\ Legacy!Uploads(d, table \intersect Legacy!Of({a}), uuids')
<1> PICK on : on = [job EXCEPT !.fuse = @ \ {a}]
  OBVIOUS
<1> PICK newest : newest = (ledger.latest \/ ledger.sha = 0)
  OBVIOUS
<1> PICK commit : commit = IF newest THEN head ELSE ledger.sha
  OBVIOUS
<1> PICK d : d = [on EXCEPT !.kind = "rotation", !.scope = "partial", !.latest = newest, !.sha = commit]
  OBVIOUS
<1>1. /\ job.kind = "cron" /\ minted' = minted + 1 /\ UNCHANGED <<table, ledger, head, owed>>
      /\ uuids' = [uuids EXCEPT ![a] = minted + 1]
      /\ \/ job' \in {on, Legacy!NoJob} /\ code' = code /\ missed' = missed
         \/ Legacy!Uploads(d, table \intersect Legacy!Of({a}), uuids')
  BY DEF Legacy!Rotate
<1>2. uuids' \in [Legacy!Holders -> 0..minted']
  <2>1. minted \in Nat /\ uuids \in [Legacy!Holders -> 0..minted]
    BY KnownLegacy
  <2>2. \A b \in Legacy!Holders : uuids'[b] \in 0..minted'
    BY <1>1, <2>1
  <2>3. uuids' = [b \in Legacy!Holders |-> uuids'[b]]
    BY <1>1, <2>1
  <2> QED
    BY <2>2, <2>3
<1>3. commit \in Nat /\ commit \in {head, ledger.sha} /\ ledger.sha <= commit /\ newest \in BOOLEAN
  BY KnownLegacy DEF Ledgers
<1>4. on \in Jobs /\ on.kind = "cron" /\ on.ok = {} /\ on.bad = {} /\ on.sha <= head
  <2>1. job \in Jobs /\ job.kind = "cron" /\ job.ok = {} /\ job.bad = {} /\ job.sha <= head
    BY <1>1, KnownLegacy DEF JobInv, Deploying
  <2> QED
    BY <2>1 DEF Jobs
<1>5. d \in Jobs /\ d.kind = "rotation" /\ d.scope = "partial" /\ d.sha = commit
  BY <1>3, <1>4, KnownLegacy DEF Jobs, Ledgers, Deploying
<1>6. CASE job' \in {on, Legacy!NoJob} /\ code' = code /\ missed' = missed
  <2>1. Legacy!NoJob.sha <= head
    BY NoJobIsOne, KnownLegacy
  <2>2. CASE job' = on
    <3>1. on.kind \notin Deploying
      BY <1>4 DEF Deploying
    <3> QED
      BY <1>1, <1>2, <1>4, <1>6, <2>2, <3>1
  <2>3. CASE job' = Legacy!NoJob
    <3>1. Legacy!NoJob.kind \notin Deploying
      BY NoJobIsOne DEF Deploying
    <3> QED
      BY <1>1, <1>2, <1>6, <2>1, <2>3, <3>1, NoJobIsOne
  <2> QED
    BY <1>6, <2>2, <2>3
<1>7. CASE Legacy!Uploads(d, table \intersect Legacy!Of({a}), uuids')
  BY <1>1, <1>2, <1>3, <1>5, <1>7
<1> QED
  BY <1>1, <1>6, <1>7

LEMMA RotateStep ==
  ASSUME LegacyInv, NEW a \in Legacy!Holders, Legacy!Rotate(a)
  PROVE  LegacyInv'
<1>1. /\ minted' \in Nat /\ minted <= minted' /\ UNCHANGED <<table, ledger, head, owed>>
      /\ uuids' \in [Legacy!Holders -> 0..minted']
  <2>1. minted' = minted + 1 /\ UNCHANGED <<table, ledger, head, owed>> /\ uuids' \in [Legacy!Holders -> 0..minted']
    BY RotateEffect
  <2>2. minted \in Nat
    BY KnownLegacy
  <2> QED
    BY <2>1, <2>2
<1>2. ASSUME NEW j \in Jobs, job' = j, j.kind \notin Deploying, j.ok = {}, j.bad = {},
             j.sha <= head, code' = code, missed' = missed
      PROVE  LegacyInv'
  BY <1>1, <1>2, IdleStep
<1>3. ASSUME NEW d \in Jobs, d.kind = "rotation", d.scope = "partial",
             d.sha \in {head, ledger.sha}, ledger.sha <= d.sha,
             Legacy!Uploads(d, table \intersect Legacy!Of({a}), uuids')
      PROVE  LegacyInv'
  <2>1. d.sha <= head
    BY <1>3, KnownLegacy DEF Ledgers
  <2>2. table \intersect Legacy!Of({a}) \in SUBSET Targets
    BY KnownLegacy
  <2> QED
    BY <1>1, <1>3, <2>1, <2>2, DeployStep DEF Deploying
<1> QED
  BY <1>2, <1>3, RotateEffect

(* The scheduled update: it deploys what is planned and managed, or ends.  *)
LEMMA UpdateEffect ==
  ASSUME LegacyInv, Legacy!Update
  PROVE  /\ job.kind = "cron" /\ UNCHANGED <<table, ledger, uuids, head, minted, owed>>
         /\ \/ job' = Legacy!NoJob /\ code' = code /\ missed' = missed
            \/ \E d \in Jobs : \E uses \in [Legacy!Holders -> 0..minted] :
                 /\ d.kind = "update" /\ d.scope = (IF ledger.sha # head THEN "full" ELSE "partial") /\ d.sha = head
                 /\ \A a \in Legacy!Holders : uses[a] \in Legacy!Seen[a]
                 /\ Legacy!Uploads(d, Legacy!Plan \intersect table, uses)
<1> PICK scope : scope = IF ledger.sha # head THEN "full" ELSE "partial"
  OBVIOUS
<1> PICK d : d = [Legacy!NoJob EXCEPT !.kind = "update", !.scope = scope, !.sha = head]
  OBVIOUS
<1>1. scope \in {"full", "partial"}
  OBVIOUS
<1>2. d \in Jobs /\ d.kind = "update" /\ d.scope = scope /\ d.sha = head
  BY <1>1, KnownLegacy, NoJobIsOne DEF Jobs, Deploying
<1>3. /\ job.kind = "cron" /\ UNCHANGED <<table, ledger, uuids, head, minted, owed>>
      /\ \/ job' = Legacy!NoJob /\ code' = code /\ missed' = missed
         \/ \E uses \in [Legacy!Holders -> 0..minted] : (\A a \in Legacy!Holders : uses[a] \in Legacy!Seen[a]) /\ Legacy!Uploads(d, Legacy!Plan \intersect table, uses)
  BY DEF Legacy!Update, Legacy!outside
<1> QED
  BY <1>2, <1>3

LEMMA UpdateStep ==
  ASSUME LegacyInv, Legacy!Update
  PROVE  LegacyInv'
<1>1. /\ minted' = minted /\ minted' \in Nat /\ minted <= minted' /\ UNCHANGED <<table, ledger, head, owed>>
      /\ uuids' = uuids /\ uuids' \in [Legacy!Holders -> 0..minted']
  BY UpdateEffect, KnownLegacy
<1>2. CASE job' = Legacy!NoJob /\ code' = code /\ missed' = missed
  <2>1. Legacy!NoJob.sha <= head
    BY NoJobIsOne, KnownLegacy
  <2> QED
    BY <1>1, <1>2, <2>1, IdleStep, NoJobIsOne DEF Deploying
<1>3. ASSUME NEW d \in Jobs, NEW uses \in [Legacy!Holders -> 0..minted], d.kind = "update",
             d.sha = head,
             d.scope = (IF ledger.sha # head THEN "full" ELSE "partial"), Legacy!Uploads(d, Legacy!Plan \intersect table, uses)
      PROVE  LegacyInv'
  <2>1. d.sha <= head /\ ledger.sha <= d.sha
    BY <1>3, KnownLegacy DEF Ledgers
  <2>2. Legacy!Plan \intersect table \in SUBSET Targets
    BY KnownLegacy
  <2>3. ASSUME d.scope = "full" PROVE table \subseteq Legacy!Plan \intersect table
    <3>1. ledger.sha # head
      BY <1>3, <2>3
    <3> QED
      BY <3>1, KnownLegacy DEF Legacy!Plan
  <2>4. uses \in [Legacy!Holders -> 0..minted']
    BY <1>1, <1>3
  <2> QED
    BY <1>1, <1>3, <2>1, <2>2, <2>3, <2>4, DeployStep DEF Deploying
<1> QED
  BY <1>2, <1>3, UpdateEffect

LEMMA RegisterStep ==
  ASSUME LegacyInv, Legacy!Register
  PROVE  LegacyInv'
<1>1. /\ job.kind = "batch" /\ table' = table \union job.ok
      /\ UNCHANGED <<code, ledger, uuids, job, head, minted, owed, missed>>
  BY DEF Legacy!Register, Legacy!outside
<1>2. job.ok \subseteq Targets
  BY KnownLegacy DEF Jobs
<1>3. JobInv'
  BY <1>1, KnownLegacy DEF JobInv, Fixed
<1>4. ASSUME NEW t \in table', ledger.sha = head PROVE ~Behind(t)
  <2>1. CASE t \in table
    BY <1>4, <2>1, KnownLegacy DEF LedgerInv
  <2>2. CASE t \in job.ok
    <3>1. ledger.sha <= job.sha /\ (t \in missed \/ job.sha <= code[t].sha)
      BY <1>1, <2>2, KnownLegacy DEF JobInv, Fixed, Deploying
    <3>2. code[t].sha \in Nat /\ job.sha \in Nat
      BY <1>2, <2>2, KnownLegacy DEF Runs, Jobs
    <3> QED
      BY <1>4, <3>1, <3>2, KnownLegacy DEF Behind
  <2> QED
    BY <1>1, <1>4, <2>1, <2>2
<1>5. \A t : Behind(t)' <=> Behind(t)
  BY <1>1 DEF Behind
<1>6. LedgerInv'
  BY <1>1, <1>4, <1>5, KnownLegacy DEF LedgerInv
<1>7. table' \subseteq Targets /\ owed' \subseteq table'
  BY <1>1, <1>2, KnownLegacy
<1> QED
  BY <1>1, <1>3, <1>6, <1>7, KnownLegacy DEF LegacyInv, LegacyTypes

LEMMA DeleteStep ==
  ASSUME LegacyInv, NEW t \in Targets, Legacy!Delete(t)
  PROVE  LegacyInv'
<1>1. /\ code' = [code EXCEPT ![t] = [sha |-> 0, uuid |-> 0]] /\ owed' = owed \intersect table'
      /\ table' \subseteq table /\ missed' = missed \ {t} /\ UNCHANGED <<ledger, uuids, head, minted>>
      /\ job' \in {Legacy!NoJob, [Legacy!NoJob EXCEPT !.kind = "delete", !.fuse = {AccountOf[t]}]}
  BY DEF Legacy!Delete, Legacy!outside
<1>2. /\ job' \in Jobs /\ job'.kind \notin Deploying /\ job'.ok = {} /\ job'.bad = {} /\ job'.sha = 0
  <2>1. {AccountOf[t]} \in SUBSET Legacy!Holders
    BY DEF Legacy!Holders
  <2>2. CASE job' = Legacy!NoJob
    BY <2>2, NoJobIsOne DEF Deploying
  <2>3. CASE job' = [Legacy!NoJob EXCEPT !.kind = "delete", !.fuse = {AccountOf[t]}]
    BY <2>1, <2>3, NoJobIsOne DEF Jobs, Deploying
  <2> QED
    BY <1>1, <2>2, <2>3
<1>3. code' \in [Targets -> Runs(head, minted)] /\ \A u \in Targets : code'[u].sha = IF u = t THEN 0 ELSE code[u].sha
  <2>1. [sha |-> 0, uuid |-> 0] \in Runs(head, minted)
    BY KnownLegacy DEF Runs
  <2> QED
    BY <1>1, <2>1, KnownLegacy
<1>4. ASSUME NEW u \in table', Behind(u)' PROVE Behind(u)
  BY <1>1, <1>3, <1>4, KnownLegacy DEF Behind
<1>5. JobInv' /\ LedgerInv'
  BY <1>1, <1>2, <1>4, KnownLegacy DEF JobInv, LedgerInv
<1> QED
  BY <1>1, <1>2, <1>3, <1>5, KnownLegacy DEF LegacyInv, LegacyTypes

LEMMA ResetStep ==
  ASSUME LegacyInv, Legacy!Reset
  PROVE  LegacyInv'
<1>1. /\ job' = Legacy!NoJob /\ ledger' = (IF table = {} THEN Legacy!Empty ELSE ledger) /\ UNCHANGED <<table, code, head, minted, owed, missed>>
      /\ uuids' = [a \in Legacy!Holders |-> IF a \in job.fuse \ Legacy!Owners(table) THEN 0 ELSE uuids[a]]
  BY DEF Legacy!Reset, Legacy!outside
<1>2. \A a \in Legacy!Holders : (IF a \in job.fuse \ Legacy!Owners(table) THEN 0 ELSE uuids[a]) \in 0..minted
  BY KnownLegacy
<1>3. uuids' \in [Legacy!Holders -> 0..minted]
  BY <1>1, <1>2
<1>4. ledger' \in Ledgers(head)
  BY <1>1, KnownLegacy DEF Ledgers, Legacy!Empty
<1>5. LedgerInv'
  BY <1>1, KnownLegacy DEF LedgerInv, Behind, Legacy!Empty
<1>6. JobInv'
  BY <1>1, NoJobIsOne DEF JobInv, Deploying
<1>7. job'.sha <= head
  BY <1>1, NoJobIsOne, KnownLegacy
<1> QED
  BY <1>1, <1>3, <1>4, <1>5, <1>6, <1>7, NoJobIsOne, KnownLegacy DEF LegacyInv, LegacyTypes

(* The record of a deployment that ended.                                  *)
LEMMA FinalizedKeeps ==
  ASSUME LegacyInv, job.kind \in Deploying, ledger' = Legacy!Finalized,
         owed' = ((owed \ job.ok) \union job.bad) \intersect table,
         UNCHANGED <<table, code, head, missed>>
  PROVE  ledger' \in Ledgers(head) /\ LedgerInv'
<1>1. /\ ledger \in Ledgers(head) /\ job \in Jobs /\ job.sha \in 0..head /\ ledger.sha \in 0..head
      /\ ledger.pendingSha \in 0..head /\ head \in Nat /\ table \subseteq Targets
  BY KnownLegacy DEF Ledgers, Jobs
<1>2. /\ ledger.sha <= job.sha \/ Fixed(job)
      /\ job.scope = "full" => table \subseteq job.ok \union job.bad
      /\ \A t \in job.ok : t \in missed \/ job.sha <= code[t].sha
      /\ job.latest => ~Fixed(job)
  BY KnownLegacy DEF JobInv, Fixed
<1>3. Legacy!Merged \in SUBSET Targets /\ job.bad \in SUBSET Targets
  BY <1>1 DEF Legacy!Merged, Ledgers, Jobs
<1>4. /\ \A t : Behind(t)' <=> Behind(t)
      /\ ledger.sha = head => \A t \in table : ~Behind(t)
      /\ ledger.latest /\ ledger.sha = head => \A t \in owed : ledger.pendingSha = head /\ t \in ledger.pending
  BY KnownLegacy DEF Behind, LedgerInv
<1>5. CASE job.scope = "full" /\ job.bad = {}
  <2>1. ledger' = [latest |-> job.latest, sha |-> job.sha, pending |-> {}, pendingSha |-> 0]
    BY <1>5 DEF Legacy!Finalized, Legacy!Advanced
  <2>2. ledger' \in Ledgers(head) /\ ledger'.pendingSha = 0 /\ ledger'.sha = job.sha
    BY <1>1, <2>1 DEF Ledgers, Jobs
  <2>3. owed' = {} /\ table \subseteq job.ok
    BY <1>2, <1>5, KnownLegacy
  <2>4. ASSUME NEW t \in table, job.sha = head PROVE ~Behind(t)
    <3>1. code[t].sha \in Nat /\ (t \in missed \/ head <= code[t].sha)
      BY <1>1, <1>2, <2>3, <2>4, KnownLegacy DEF Runs
    <3> QED
      BY <1>1, <3>1 DEF Behind
  <2> QED
    BY <1>4, <2>2, <2>3, <2>4 DEF LedgerInv
<1>6. CASE job.scope = "full" /\ job.bad # {} /\ job.kind # "repair"
  <2> PICK waiting : waiting = IF ledger.pendingSha # job.sha THEN job.bad ELSE Legacy!Merged
    OBVIOUS
  <2>1. ledger' = [ledger EXCEPT !.latest = job.latest, !.pendingSha = job.sha, !.pending = waiting]
    BY <1>6 DEF Legacy!Finalized
  <2>2. waiting \in SUBSET Targets /\ job.bad \subseteq waiting
    BY <1>3 DEF Legacy!Merged
  <2>3. /\ ledger' \in Ledgers(head) /\ ledger'.latest = job.latest /\ ledger'.pendingSha = job.sha
        /\ ledger'.pending = waiting /\ ledger'.sha = ledger.sha
    BY <1>1, <2>1, <2>2 DEF Ledgers, Jobs
  <2>4. ASSUME job.latest PROVE ledger.sha <= job.sha
    BY <1>2, <2>4
  <2>5. owed' \subseteq job.bad
    BY <1>2, <1>6
  <2>6. job.latest /\ ledger.sha = head => job.sha = head
    BY <1>1, <2>4
  <2> QED
    BY <1>4, <2>2, <2>3, <2>4, <2>5, <2>6 DEF LedgerInv
<1>7. CASE ~(job.scope = "full" /\ job.bad = {}) /\ ~(job.scope = "full" /\ job.kind # "repair")
  <2> PICK commit : commit = IF ledger.pendingSha # 0 THEN ledger.pendingSha ELSE ledger.sha
    OBVIOUS
  <2>1. ledger' = [ledger EXCEPT !.pendingSha = commit, !.pending = Legacy!Merged]
    BY <1>7 DEF Legacy!Finalized, Legacy!Partial
  <2>2. /\ ledger' \in Ledgers(head) /\ ledger'.latest = ledger.latest /\ ledger'.sha = ledger.sha
        /\ ledger'.pendingSha = commit /\ ledger'.pending = Legacy!Merged
    BY <1>1, <1>3, <2>1 DEF Ledgers
  <2>3. ledger.latest => ledger.sha <= commit
    BY <1>1, KnownLegacy DEF LedgerInv
  <2>4. ledger.latest /\ ledger.sha = head => commit = head
    BY <1>1, <2>3
  <2>5. ASSUME NEW t \in owed', ledger.latest, ledger.sha = head PROVE t \in Legacy!Merged
    BY <1>4, <2>5 DEF Legacy!Merged
  <2> QED
    BY <1>4, <2>2, <2>3, <2>4, <2>5 DEF LedgerInv
<1> QED
  BY <1>5, <1>6, <1>7

LEMMA FinishStep ==
  ASSUME LegacyInv, Legacy!Finish
  PROVE  LegacyInv'
<1>1. /\ job.ok \union job.bad # {} /\ UNCHANGED <<table, code, uuids, head, minted, missed>>
      /\ \/ ledger' = ledger /\ owed' = owed
         \/ ledger' = Legacy!Finalized /\ owed' = ((owed \ job.ok) \union job.bad) \intersect table
      /\ job' \in {Legacy!NoJob, [Legacy!NoJob EXCEPT !.kind = "cron", !.fuse = job.fuse, !.was = job.was]}
  BY DEF Legacy!Finish, Legacy!outside
<1>2. job.kind \in Deploying
  BY <1>1, KnownLegacy DEF JobInv
<1>3. job' \in Jobs /\ job'.kind \notin Deploying /\ job'.ok = {} /\ job'.bad = {} /\ job'.sha = 0
  BY <1>1, NoJobIsOne, KnownLegacy DEF Jobs, Deploying
<1>4. ledger' \in Ledgers(head) /\ LedgerInv' /\ owed' \subseteq table
  <2>1. CASE ledger' = ledger /\ owed' = owed
    BY <1>1, <2>1, KnownLegacy DEF LedgerInv, Behind
  <2>2. CASE ledger' = Legacy!Finalized /\ owed' = ((owed \ job.ok) \union job.bad) \intersect table
    BY <1>1, <1>2, <2>2, FinalizedKeeps
  <2> QED
    BY <1>1, <2>1, <2>2
<1>5. JobInv'
  BY <1>3 DEF JobInv
<1>6. job'.sha <= head /\ job'.ok \intersect job'.bad = {}
  BY <1>3, KnownLegacy
<1> QED
  BY <1>1, <1>3, <1>4, <1>5, <1>6, KnownLegacy DEF LegacyInv, LegacyTypes

LEMMA LegacyStep ==
  ASSUME LegacyInv, [Legacy!Next]_(Legacy!vars)
  PROVE  LegacyInv'
<1>1. CASE UNCHANGED Legacy!vars
  <2>1. UNCHANGED <<table, code, ledger, uuids, head, minted, job, owed, missed>>
    BY <1>1 DEF Legacy!vars
  <2>2. LegacyTypes' /\ JobInv' /\ LedgerInv'
    BY <2>1, KnownLegacy DEF LegacyTypes, JobInv, LedgerInv, Behind, Fixed
  <2> QED
    BY <2>2 DEF LegacyInv
<1>2. CASE Legacy!Next
  BY <1>2, UpstreamStep, RepairStep, UpdateStep, RegisterStep, FinishStep, ResetStep, CutOffStep,
     ManualStep, CronStep,
     BatchStep, RotateStep, DeleteStep DEF Legacy!Next
<1> QED
  BY <1>1, <1>2

LEMMA LegacyInit ==
  ASSUME Legacy!Init
  PROVE  LegacyInv
<1>1. /\ table = Installed /\ head = 1 /\ minted = 0 /\ uuids = Legacy!Nobody /\ job = Legacy!NoJob /\ owed = {}
      /\ code = [t \in Targets |-> [sha |-> IF t \in Installed THEN 1 ELSE 0, uuid |-> 0]]
      /\ ledger \in {Legacy!Empty, [Legacy!Empty EXCEPT !.sha = 1]}
  BY DEF Legacy!Init
<1>2. code \in [Targets -> Runs(head, minted)] /\ \A t \in Targets : code[t].sha \in {0, 1}
  <2>1. \A t \in Targets : code[t] \in Runs(head, minted) /\ code[t].sha \in {0, 1}
    BY <1>1 DEF Runs
  <2> QED
    BY <1>1, <2>1
<1>3. ledger \in Ledgers(head) /\ ledger.pendingSha = 0
  <2>1. ledger = Legacy!Empty \/ ledger = [latest |-> TRUE, sha |-> 1, pending |-> {}, pendingSha |-> 0]
    BY <1>1 DEF Legacy!Empty
  <2>2. 0 \in 0..head /\ 1 \in 0..head
    BY <1>1
  <2>3. CASE ledger = Legacy!Empty
    BY <2>2, <2>3 DEF Ledgers, Legacy!Empty
  <2>4. CASE ledger = [latest |-> TRUE, sha |-> 1, pending |-> {}, pendingSha |-> 0]
    BY <2>2, <2>4 DEF Ledgers
  <2> QED
    BY <2>1, <2>3, <2>4
<1>4. uuids \in [Legacy!Holders -> 0..minted] /\ head \in 1..MaxSha /\ minted \in Nat
  BY <1>1, PartBoundsAssumption DEF Legacy!Nobody
<1>5. job \in Jobs /\ job.sha <= head /\ job.ok \intersect job.bad = {} /\ JobInv
  BY <1>1, NoJobIsOne DEF JobInv, Deploying
<1>6. ASSUME NEW t \in table PROVE ~Behind(t)
  <2>1. t \in Targets /\ t \in Installed
    BY <1>1, TargetsAssumption
  <2>2. code[t].sha = 1
    BY <1>1, <2>1
  <2> QED
    BY <1>1, <2>2 DEF Behind
<1>7. LedgerInv
  <2>1. owed = {}
    BY <1>1
  <2>2. ledger.pendingSha = 0
    BY <1>3
  <2>3. \A t \in table : ~Behind(t)
    BY <1>6
  <2> QED
    BY <2>1, <2>2, <2>3 DEF LedgerInv
<1> QED
  BY <1>1, <1>2, <1>3, <1>4, <1>5, <1>7, TargetsAssumption DEF LegacyInv, LegacyTypes

(* What the parts do to the deployments is what LegacyDeploy does.          *)
LEMMA PartsLegacy == [NextAuthority \/ NextLegacy \/ NextPanel]_partsVars => [Legacy!Next]_(Legacy!vars)
BY DEF NextAuthority, NextLegacy, NextPanel, partsVars, legacyVars, Legacy!vars

(* Of the deployments, for any number of workers, commits and rotations: a  *)
(* ledger at the newest commit has every worker that failed as pending, and *)
(* no other runs an older one, but for a dropped upload that was not read   *)
(* back (deploy.ts, auto-update.ts, deploy-utils.ts).                       *)
THEOREM LegacyInvariant == PartsSpec => []LegacyInv
<1>1. PartsInit => LegacyInv
  BY LegacyInit DEF PartsInit
<1>2. LegacyInv /\ [NextAuthority \/ NextLegacy \/ NextPanel]_partsVars => LegacyInv'
  BY PartsLegacy, LegacyStep
<1> QED
  BY <1>1, <1>2, PTL DEF PartsSpec

LEMMA LegacyImplies ==
  ASSUME LegacyInv
  PROVE  Legacy!NoWorkerIsForgotten
<1>1. Legacy!TypeOK
  BY KnownLegacy DEF Legacy!TypeOK, Ledgers, Runs
<1>2. ASSUME ledger.latest, NEW t \in table, t \in owed \/ Behind(t) PROVE t \in Legacy!Plan
  <2>1. CASE ledger.sha # head
    BY <2>1, KnownLegacy DEF Legacy!Plan
  <2>2. CASE ledger.sha = head
    BY <1>2, <2>2, KnownLegacy DEF Legacy!Plan, LedgerInv
  <2> QED
    BY <2>1, <2>2
<1>3. ASSUME NEW t \in table, ledger.sha < head PROVE t \in Legacy!Plan
  BY <1>3, KnownLegacy DEF Legacy!Plan, Ledgers
<1> QED
  BY <1>1, <1>2, <1>3 DEF Legacy!NoWorkerIsForgotten, Behind

(* Whatever is deployed, rotated, deleted, dropped or cut off, the next     *)
(* update covers every worker whose update failed or that is behind; for    *)
(* one whose dropped upload could not be read back this is said from the    *)
(* next commit on (auto-update.ts, deploy-utils.ts).                        *)
THEOREM NoWorkerIsEverForgotten == PartsSpec => []NoWorkerIsForgotten
<1>1. LegacyInv => NoWorkerIsForgotten
  BY LegacyImplies DEF NoWorkerIsForgotten
<1> QED
  BY <1>1, LegacyInvariant, PTL

(* While a scheduled run goes on, a worker with the UUID of its account     *)
(* gets another one only by a read that is as old as the run.               *)
LEMMA UuidStays ==
  ASSUME LegacyInv, [Legacy!Next]_(Legacy!vars), NEW t \in Targets,
         job.kind = "cron",
         uuids'[AccountOf[t]] = uuids[AccountOf[t]], code[t].uuid = uuids[AccountOf[t]],
         code'[t].uuid # uuids[AccountOf[t]]
  PROVE  StaleReads /\ job.was[AccountOf[t]] # uuids[AccountOf[t]] /\ code'[t].uuid = job.was[AccountOf[t]]
<1> PICK a : a = AccountOf[t]
  OBVIOUS
<1>0. a \in Legacy!Holders
  BY DEF Legacy!Holders
<1>1. ASSUME NEW d \in Jobs, d.sha <= head, NEW goals \in SUBSET Targets,
             NEW uses \in [Legacy!Holders -> 0..minted'],
             minted' \in Nat, minted <= minted', Legacy!Uploads(d, goals, uses)
      PROVE  code'[t].uuid = uses[a]
  <2>1. code'[t] = code[t] \/ code'[t].uuid \in {code[t].uuid, uses[AccountOf[t]]}
    BY <1>1, UploadsEffect, KnownLegacy
  <2> QED
    BY <1>1, <2>1
<1>2. ASSUME NEW b \in Legacy!Holders, Legacy!Rotate(b) PROVE FALSE
  <2>1. /\ minted' = minted + 1 /\ uuids' \in [Legacy!Holders -> 0..minted'] /\ minted' \in Nat /\ minted <= minted'
        /\ table \intersect Legacy!Of({b}) \in SUBSET Targets /\ ledger.sha <= head
    <3>1. minted' = minted + 1 /\ uuids' \in [Legacy!Holders -> 0..minted']
      BY <1>2, RotateEffect
    <3>2. minted \in Nat /\ table \subseteq Targets /\ ledger.sha \in 0..head /\ head \in Nat
      BY KnownLegacy DEF Ledgers
    <3> QED
      BY <3>1, <3>2
  <2>2. \/ code' = code
        \/ \E d \in Jobs : d.sha \in {head, ledger.sha} /\ Legacy!Uploads(d, table \intersect Legacy!Of({b}), uuids')
    BY <1>2, RotateEffect
  <2>3. ASSUME NEW d \in Jobs, d.sha \in {head, ledger.sha},
               Legacy!Uploads(d, table \intersect Legacy!Of({b}), uuids')
        PROVE  code'[t].uuid = uuids'[a]
    <3>1. d.sha <= head
      BY <2>1, <2>3, KnownLegacy
    <3> QED
      BY <1>1, <2>1, <2>3, <3>1
  <2> QED
    BY <2>2, <2>3
<1>3. CASE Legacy!Update
  <2>1. /\ minted' = minted /\ minted' \in Nat /\ minted <= minted' /\ Legacy!Plan \intersect table \in SUBSET Targets
    BY <1>3, UpdateEffect, KnownLegacy
  <2>2. \/ code' = code
        \/ \E d \in Jobs : \E uses \in [Legacy!Holders -> 0..minted] :
             d.sha = head /\ (\A h \in Legacy!Holders : uses[h] \in Legacy!Seen[h]) /\ Legacy!Uploads(d, Legacy!Plan \intersect table, uses)
    BY <1>3, UpdateEffect
  <2>3. ASSUME NEW d \in Jobs, NEW uses \in [Legacy!Holders -> 0..minted], d.sha = head,
               \A h \in Legacy!Holders : uses[h] \in Legacy!Seen[h],
               Legacy!Uploads(d, Legacy!Plan \intersect table, uses)
        PROVE  StaleReads /\ job.was[a] # uuids[a] /\ code'[t].uuid = job.was[a]
    <3>1. uses[a] = uuids[a] \/ (StaleReads /\ uses[a] = job.was[a])
      BY <1>0, <2>3 DEF Legacy!Seen
    <3>2. d.sha <= head /\ uses \in [Legacy!Holders -> 0..minted']
      BY <2>1, <2>3, KnownLegacy
    <3>3. code'[t].uuid = uses[a]
      BY <1>1, <2>1, <2>3, <3>2
    <3> QED
      BY <3>1, <3>3
  <2> QED
    BY <2>2, <2>3
<1>4. job.ok \union job.bad = {}
  BY KnownLegacy DEF JobInv, Deploying
<1>5. (\E b \in Legacy!Holders : Legacy!Rotate(b)) \/ Legacy!Update \/ code' = code
  BY <1>4 DEF Legacy!Next, Legacy!vars, Legacy!UpstreamMoves, Legacy!Repair, Legacy!Register,
     Legacy!Finish, Legacy!Reset, Legacy!CutOff, Legacy!Manual, Legacy!Cron, Legacy!Batch, Legacy!Delete
<1> QED
  BY <1>2, <1>3, <1>5

(* No update undoes a rotation of the fuse, however late the store is, but  *)
(* one in the same scheduled run, and that one only to what the account had *)
(* before the run (auto-update.ts).                                         *)
THEOREM RotationsStick == PartsSpec => RotationSticks
<1> DEFINE Sticks == job.kind = "cron" =>
                       \A t \in Targets :
                           LET a == AccountOf[t]
                               own == uuids[a] IN
                           own # 0 /\ uuids'[a] = own /\ code[t].uuid = own /\ code'[t].uuid # own
                             => StaleReads /\ job.was[a] # own /\ code'[t].uuid = job.was[a]
<1>1. ASSUME LegacyInv, [Legacy!Next]_(Legacy!vars) PROVE [Sticks]_(Legacy!vars)
  <2>1. ASSUME NEW t \in Targets, job.kind = "cron", uuids'[AccountOf[t]] = uuids[AccountOf[t]],
               code[t].uuid = uuids[AccountOf[t]], code'[t].uuid # uuids[AccountOf[t]]
        PROVE  StaleReads /\ job.was[AccountOf[t]] # uuids[AccountOf[t]] /\ code'[t].uuid = job.was[AccountOf[t]]
    BY <1>1, <2>1, UuidStays
  <2> QED
    BY <2>1
<1> QED
  BY <1>1, PartsLegacy, LegacyInvariant, PTL DEF PartsSpec, RotationSticks, Legacy!RotationSticks

-----------------------------------------------------------------------------
(* A tab of the panel.                                                       *)
Hows == {"form", "removal", "merge", "retry"}
Edits == Tab!Mine \union Tab!Others
Posts == [how : Hows, base : Nat, body : SUBSET Edits, again : BOOLEAN]
Tickets == [e : Tab!Mine, conflict : BOOLEAN]
Pages == [rows : SUBSET Edits, seen : Nat, pin : Nat \union {None}, open : BOOLEAN, ticket : Tickets \union {None},
          waits : SUBSET [how : Hows, e : Tab!Mine, was : SUBSET Edits]]
TabTypes ==
  /\ domainRev \in Nat /\ content \subseteq Edits /\ done \subseteq Edits /\ shown \subseteq Edits /\ made \in 0..MaxMine
  /\ post \in [Tab!Mine -> Posts \union {None}] /\ page \in Pages
  /\ reads \subseteq [rev : Nat, rows : SUBSET Edits]

(* Whoever has the current revision has seen all that is stored.           *)
Known == content \subseteq shown \union Tab!Mine
Dated(r) == r <= domainRev /\ (r = domainRev => Known)
PostInv(e) ==
  /\ post[e] # None => /\ post[e] \in Posts /\ post[e].body \subseteq shown \union Tab!Mine
                       /\ e \notin done => Dated(post[e].base)
                       /\ e \in done => Dated(post[e].base + 1)
  /\ e \in done => post[e] # None
  /\ e > made => post[e] = None
PageInv == /\ page.rows \subseteq shown /\ Dated(page.seen) /\ (page.pin # None => page.pin \in Nat /\ Dated(page.pin))
           /\ page.ticket # None => page.ticket \in Tickets /\ post[page.ticket.e] # None
ReadInv(m) == m.rev <= domainRev /\ (m.rev = domainRev => m.rows = content)
TabInv == /\ TabTypes /\ (\A e \in Tab!Mine : PostInv(e)) /\ PageInv /\ \A m \in reads : ReadInv(m)

LEMMA KnownTab ==
  ASSUME TabInv
  PROVE  /\ domainRev \in Nat /\ content \subseteq Edits /\ done \subseteq Edits /\ shown \subseteq Edits
         /\ made \in Nat /\ made <= MaxMine /\ MaxMine \in Nat
         /\ post \in [Tab!Mine -> Posts \union {None}] /\ page \in Pages
         /\ reads \subseteq [rev : Nat, rows : SUBSET Edits]
         /\ \A e \in Tab!Mine : PostInv(e)
         /\ PageInv /\ \A m \in reads : ReadInv(m)
BY PartBoundsAssumption DEF TabInv, TabTypes

(* What is known of a page, after it has shown its rows.                   *)
Fits(next) == /\ next \in Pages /\ Dated(next.seen)' /\ (next.pin # None => next.pin \in Nat /\ Dated(next.pin)')
              /\ next.ticket # None => next.ticket \in Tickets /\ post'[next.ticket.e] # None
(* The tab and its requests change, the server does not.                   *)
LEMMA TabMoves ==
  ASSUME TabInv, NEW next, Tab!Shows(next), Fits(next), UNCHANGED Tab!server,
         post' \in [Tab!Mine -> Posts \union {None}], made' \in 0..MaxMine,
         \A e \in Tab!Mine : PostInv(e)',
         reads' \subseteq reads \union {Tab!Now}
  PROVE  TabInv'
<1> USE DEF Tab!server
<1>1. TabTypes'
  <2>1. page' \in Pages /\ shown' \subseteq Edits
    BY KnownTab DEF Tab!Shows, Fits, Pages
  <2>2. Tab!Now \in [rev : Nat, rows : SUBSET Edits]
    BY KnownTab DEF Tab!Now
  <2> QED
    BY <2>1, <2>2, KnownTab DEF TabTypes
<1>2. PageInv'
  BY DEF Tab!Shows, Fits, PageInv
<1>3. \A m \in reads' : ReadInv(m)'
  BY KnownTab DEF ReadInv, Tab!Now
<1> QED
  BY <1>1, <1>2, <1>3 DEF TabInv

LEMMA StaysDated ==
  ASSUME TabInv, UNCHANGED Tab!server, shown \subseteq shown', NEW r, Dated(r)
  PROVE  Dated(r)'
BY DEF Tab!server, Dated, Known

LEMMA PostsStay ==
  ASSUME TabInv, UNCHANGED Tab!server, shown \subseteq shown', made <= made', made' \in Nat,
         NEW e \in Tab!Mine, post'[e] = post[e], PostInv(e)
  PROVE  PostInv(e)'
<1>1. post[e] # None => post[e].base \in Nat /\ post[e] \in Posts
  BY DEF PostInv, Posts
<1> PICK b : b = post[e].base
  OBVIOUS
<1>2. Dated(b) => Dated(b)'
  BY StaysDated
<1>3. Dated(b + 1) => Dated(b + 1)'
  BY StaysDated
<1> QED
  BY <1>1, <1>2, <1>3, KnownTab DEF PostInv, Tab!server, Tab!Mine

(* Nothing is posted, and the tab accepts no other revision.               *)
LEMMA PageMoves ==
  ASSUME TabInv, NEW next \in Pages, Tab!Shows(next), UNCHANGED <<Tab!server, post, made>>,
         reads' \subseteq reads \union {Tab!Now},
         next.seen = page.seen \/ Dated(next.seen)', next.pin \in {None, page.pin, page.seen} \/ Dated(next.pin)',
         next.ticket # None => page.ticket # None /\ next.ticket.e = page.ticket.e
  PROVE  TabInv'
<1>0. shown \subseteq shown'
  BY DEF Tab!Shows
<1>1. \A r : Dated(r) => Dated(r)'
  BY <1>0, StaysDated
<1>2. Fits(next)
  BY <1>1, KnownTab DEF Fits, PageInv, Pages
<1>3. \A e \in Tab!Mine : PostInv(e)'
  BY <1>0, PostsStay, KnownTab
<1> QED
  BY <1>2, <1>3, TabMoves, KnownTab

LEMMA ReadingStep ==
  ASSUME TabInv,
         Tab!Reload \/ Tab!Reread \/ (\E m \in reads : Tab!Show(m) \/ Tab!ReadFails(m)) \/ Tab!Open \/ Tab!Cancel
  PROVE  TabInv'
<1> USE DEF Tab!server
<1>1. CASE Tab!Reload
  <2>1. Tab!Fresh(content, domainRev) \in Pages
    BY KnownTab DEF Tab!Fresh, Pages
  <2>2. Dated(domainRev)'
    BY <1>1, KnownTab DEF Tab!Reload, Tab!Shows, Tab!Fresh, Dated, Known
  <2> QED
    BY <1>1, <2>1, <2>2, PageMoves DEF Tab!Reload, Tab!Fresh
<1>2. CASE Tab!Reread \/ \E m \in reads : Tab!ReadFails(m)
  <2>1. UNCHANGED <<Tab!server, post, made, page, shown>> /\ reads' \subseteq reads \union {Tab!Now}
    BY <1>2 DEF Tab!Reread, Tab!ReadFails
  <2>2. page \in Pages /\ Tab!Shows(page)
    BY <2>1, KnownTab DEF Tab!Shows, PageInv
  <2> QED
    BY <2>1, <2>2, PageMoves
<1>3. ASSUME NEW m \in reads, Tab!Show(m) PROVE TabInv'
  <2>1. m \in [rev : Nat, rows : SUBSET Edits] /\ ReadInv(m)
    BY KnownTab
  <2> PICK next : next = Tab!Accepted(m)
    OBVIOUS
  <2>2. /\ next \in Pages /\ next.seen = m.rev /\ next.rows = m.rows /\ next.pin = page.pin
        /\ next.ticket # None => next.ticket = page.ticket
    BY <2>1, KnownTab DEF Tab!Accepted, Pages
  <2>3. Tab!Shows(next) /\ UNCHANGED <<Tab!server, post, made>> /\ reads' \subseteq reads \union {Tab!Now}
    BY <1>3 DEF Tab!Show
  <2>4. Dated(m.rev)'
    BY <2>1, <2>2, <2>3 DEF ReadInv, Dated, Known, Tab!Shows
  <2> QED
    BY <2>2, <2>3, <2>4, PageMoves
<1>4. CASE Tab!Open
  <2> PICK next : next = [page EXCEPT !.pin = page.seen, !.open = TRUE]
    OBVIOUS
  <2>1. next \in Pages /\ next.seen = page.seen /\ next.pin = page.seen /\ next.ticket = page.ticket
    BY KnownTab DEF Pages
  <2> QED
    BY <1>4, <2>1, PageMoves DEF Tab!Open
<1>5. CASE Tab!Cancel
  <2> PICK next : next = [page EXCEPT !.pin = None, !.open = FALSE]
    OBVIOUS
  <2>1. next \in Pages /\ next.seen = page.seen /\ next.pin = None /\ next.ticket = page.ticket
    BY KnownTab DEF Pages
  <2> QED
    BY <1>5, <2>1, PageMoves DEF Tab!Cancel
<1> QED
  BY <1>1, <1>2, <1>3, <1>4, <1>5

(* The server: what is stored gets a new revision, and a save is taken     *)
(* only from a tab that has seen the current one.                          *)
LEMMA ServerStep ==
  ASSUME TabInv, UNCHANGED <<post, page, reads, made, shown>>, domainRev' = domainRev + 1,
         content' \subseteq Edits, NEW e \in Edits, done' = done \union {e}, e \notin done,
         e \in Tab!Mine => post[e] # None /\ post[e].base = domainRev /\ Known'
  PROVE  TabInv'
<1>1. \A r \in Nat : Dated(r) => Dated(r)' /\ r # domainRev'
  BY KnownTab DEF Dated
<1>2. ASSUME NEW f \in Tab!Mine PROVE PostInv(f)'
  <2>1. CASE post[f] = None
    BY <2>1, KnownTab DEF PostInv
  <2>2. CASE post[f] # None /\ f # e
    <3> PICK b \in Nat : b = post[f].base
      BY <2>2, KnownTab DEF PostInv, Posts
    <3>1. (Dated(b) => Dated(b)') /\ (Dated(b + 1) => Dated(b + 1)')
      BY <1>1
    <3> QED
      BY <2>2, <3>1, KnownTab DEF PostInv
  <2>3. CASE post[f] # None /\ f = e
    <3>1. Dated(post[f].base + 1)'
      BY <2>3, KnownTab DEF Dated
    <3> QED
      BY <2>3, <3>1, KnownTab DEF PostInv
  <2> QED
    BY <2>1, <2>2, <2>3
<1>3. PageInv'
  BY <1>1, KnownTab DEF PageInv, Pages
<1>4. \A m \in reads' : ReadInv(m)'
  BY KnownTab DEF ReadInv
<1>5. TabTypes'
  BY KnownTab DEF TabTypes
<1> QED
  BY <1>2, <1>3, <1>4, <1>5 DEF TabInv

LEMMA ServeStep ==
  ASSUME TabInv, (\E e \in Tab!Mine : Tab!Serve(e)) \/ (\E e \in Tab!Others : Tab!SomebodyElse(e))
  PROVE  TabInv'
<1>1. ASSUME NEW e \in Tab!Mine, Tab!Serve(e) PROVE TabInv'
  <2>1. post[e] # None /\ e \notin done /\ post[e].base = domainRev /\ post[e] \in Posts /\ post[e].body \subseteq shown \union Tab!Mine /\ Known
    BY <1>1, KnownTab DEF Tab!Serve, PostInv, Dated
  <2>2. content' \subseteq content \union post[e].body
    BY <1>1 DEF Tab!Serve
  <2>3. Known' /\ content' \subseteq Edits
    BY <1>1, <2>1, <2>2, KnownTab DEF Tab!Serve, Known, Posts
  <2> QED
    BY <1>1, <2>1, <2>3, ServerStep DEF Tab!Serve, Edits
<1>2. ASSUME NEW e \in Tab!Others, Tab!SomebodyElse(e) PROVE TabInv'
  <2>1. e \notin Tab!Mine /\ e \in Edits
    BY PartBoundsAssumption DEF Tab!Mine, Tab!Others, Edits
  <2>2. content' \subseteq Edits
    BY <1>2, <2>1, KnownTab DEF Tab!SomebodyElse
  <2> QED
    BY <1>2, <2>1, <2>2, ServerStep DEF Tab!SomebodyElse
<1> QED
  BY <1>1, <1>2

(* A save goes out again.                                                  *)
LEMMA AgainLemma ==
  ASSUME TabInv, UNCHANGED Tab!server, shown \subseteq shown', made' = made, NEW e \in Tab!Mine,
         post[e] # None,
         post' = [post EXCEPT ![e].again = TRUE]
  PROVE  post' \in [Tab!Mine -> Posts \union {None}] /\ (\A f \in Tab!Mine : PostInv(f)') /\ post'[e] # None
<1> USE DEF Tab!server
<1> PICK new : new = [post[e] EXCEPT !.again = TRUE]
  OBVIOUS
<1>1. post[e] \in Posts
  BY KnownTab DEF PostInv
<1>2. new \in Posts /\ new.base = post[e].base /\ new.body = post[e].body
  BY <1>1 DEF Posts
<1>3. new # None
  BY <1>2, NoneIsNoRecord DEF Posts, Hows, Edits
<1>4. post' \in [Tab!Mine -> Posts \union {None}] /\ post'[e] = new /\ \A f \in Tab!Mine \ {e} : post'[f] = post[f]
  BY <1>2, KnownTab
<1>5. ASSUME NEW f \in Tab!Mine \ {e} PROVE PostInv(f)'
  BY <1>4, PostsStay, KnownTab
<1>6. PostInv(e)'
  <2> PICK b \in Nat : b = post[e].base
    BY <1>1 DEF Posts
  <2>1. (Dated(b) => Dated(b)') /\ (Dated(b + 1) => Dated(b + 1)')
    BY StaysDated
  <2>2. post'[e].base = b /\ post'[e].body = post[e].body /\ post'[e] \in Posts
    BY <1>2, <1>4
  <2>3. PostInv(e) /\ done' = done
    BY KnownTab
  <2>4. e \notin done => Dated(b)
    BY <2>3 DEF PostInv
  <2>5. e \in done => Dated(b + 1)
    BY <2>3 DEF PostInv
  <2>6. post'[e].body \subseteq shown' \union Tab!Mine /\ ~(e > made')
    BY <2>2, <2>3 DEF PostInv
  <2> QED
    BY <1>3, <1>4, <2>1, <2>2, <2>3, <2>4, <2>5, <2>6 DEF PostInv
<1> QED
  BY <1>3, <1>4, <1>5, <1>6

(* What a save is based on is what the tab accepted.                       *)
LEMMA SaveStep ==
  ASSUME TabInv, NEW how \in {"form", "removal", "merge"}, NEW e \in Tab!Mine, Tab!Save(how, e)
  PROVE  TabInv'
<1> USE DEF Tab!server
<1> PICK body : body = Tab!Body(how, e)
  OBVIOUS
<1> PICK pin : pin = IF Tab!Importing(how) THEN page.seen ELSE page.pin
  OBVIOUS
<1> PICK from : from = IF pin # None THEN pin ELSE page.seen
  OBVIOUS
<1> PICK rows : rows = IF how = "form" THEN page.rows \union {e} ELSE page.rows
  OBVIOUS
<1> PICK ticket : ticket = [e |-> e, conflict |-> FALSE]
  OBVIOUS
<1> PICK waits : waits = page.waits \union {[how |-> how, e |-> e, was |-> page.rows]}
  OBVIOUS
<1> PICK next : next = [page EXCEPT !.rows = rows, !.pin = pin, !.ticket = ticket, !.waits = waits]
  OBVIOUS
<1>1. body \subseteq Edits /\ body \subseteq shown \union Tab!Mine
  BY KnownTab DEF Tab!Body, PageInv, Edits, Pages
<1>2. pin \in Nat \union {None} /\ from \in Nat /\ Dated(from) /\ (pin # None => Dated(pin))
  BY KnownTab DEF PageInv, Pages
<1> PICK new : new = [how |-> how, base |-> from, body |-> body, again |-> FALSE]
  OBVIOUS
<1>3. new \in Posts /\ new.base = from /\ new.body = body
  BY <1>1, <1>2 DEF Posts, Hows
<1>4. \/ page.ticket = None /\ e = made + 1 /\ made' = e /\ post' = [post EXCEPT ![e] = new]
      \/ page.ticket = [e |-> e, conflict |-> FALSE] /\ made' = made /\ post' = [post EXCEPT ![e].again = TRUE]
  BY DEF Tab!Save
<1>5. Tab!Shows(next) /\ UNCHANGED <<form, Tab!server, reads, rereads>>
  BY DEF Tab!Save
<1>6. next \in Pages /\ next.seen = page.seen /\ next.pin = pin /\ next.ticket \in Tickets /\ next.ticket.e = e
  <2>1. rows \in SUBSET Edits /\ ticket \in Tickets /\ ticket.e = e
    BY KnownTab DEF Pages, Tickets, Edits
  <2>2. waits \in SUBSET [how : Hows, e : Tab!Mine, was : SUBSET Edits]
    BY KnownTab DEF Pages, Hows
  <2>3. page \in Pages /\ pin \in Nat \union {None}
    BY <1>2, KnownTab
  <2>4. /\ next.rows = rows /\ next.seen = page.seen /\ next.pin = pin /\ next.ticket = ticket
        /\ next.waits = waits /\ next.open = page.open
        /\ next = [rows |-> rows, seen |-> page.seen, pin |-> pin, open |-> page.open, ticket |-> ticket, waits |-> waits]
    BY <2>3 DEF Pages
  <2>5. page.seen \in Nat /\ page.open \in BOOLEAN
    BY <2>3 DEF Pages
  <2>6. next \in Pages
    BY <2>1, <2>2, <2>3, <2>4, <2>5 DEF Pages
  <2> QED
    BY <2>1, <2>4, <2>6
<1>7. \A r : Dated(r) => Dated(r)'
  BY <1>5, StaysDated DEF Tab!Shows
<1>8. made' \in 0..MaxMine /\ made <= made'
  BY <1>4, KnownTab, PartBoundsAssumption DEF Tab!Mine
<1>9. post' \in [Tab!Mine -> Posts \union {None}] /\ (\A f \in Tab!Mine : PostInv(f)') /\ post'[e] # None
  <2>1. CASE page.ticket = None /\ e = made + 1 /\ made' = e /\ post' = [post EXCEPT ![e] = new]
    <3>1. post' \in [Tab!Mine -> Posts \union {None}] /\ post'[e] = new /\ e \notin done
      BY <1>3, <2>1, KnownTab DEF PostInv
    <3>2. ASSUME NEW f \in Tab!Mine \ {e} PROVE PostInv(f)'
      BY <1>5, <1>8, <2>1, PostsStay, KnownTab DEF Tab!Shows
    <3>3. PostInv(e)'
      <4>1. done' = done /\ shown \subseteq shown' /\ Dated(from)' /\ ~(e > made')
        BY <1>2, <1>5, <1>7, <2>1, KnownTab DEF Tab!Shows
      <4> QED
        BY <1>1, <1>3, <3>1, <4>1 DEF PostInv
    <3>4. new # None
      BY <1>3, NoneIsNoRecord DEF Posts, Hows, Edits
    <3> QED
      BY <3>1, <3>2, <3>3, <3>4
  <2>2. CASE page.ticket = [e |-> e, conflict |-> FALSE] /\ made' = made /\ post' = [post EXCEPT ![e].again = TRUE]
    <3>0. ticket \in [e : Nat, conflict : BOOLEAN] /\ ticket.e = e
      BY DEF Tab!Mine
    <3>3. ticket # None
      BY <3>0, NoneIsNoRecord
    <3>1. page.ticket # None /\ page.ticket.e = e
      BY <2>2, <3>0, <3>3
    <3>2. post[e] # None /\ post[e] \in Posts
      BY <3>1, KnownTab DEF PageInv
    <3> QED
      BY <1>5, <1>8, <2>2, <3>2, AgainLemma DEF Tab!Shows
  <2> QED
    BY <1>4, <2>1, <2>2
<1>10. Fits(next)
  BY <1>2, <1>6, <1>7, <1>9, KnownTab DEF Fits, PageInv
<1> QED
  BY <1>5, <1>8, <1>9, <1>10, TabMoves

LEMMA RetryStep ==
  ASSUME TabInv, Tab!Retry
  PROVE  TabInv'
<1> USE DEF Tab!server
<1> PICK e : e = page.ticket.e
  OBVIOUS
<1>1. e \in Tab!Mine /\ post[e] # None /\ page.ticket \in Tickets
  BY KnownTab DEF Tab!Retry, PageInv, Tickets
<1> PICK next : next = [page EXCEPT !.waits = @ \union {[how |-> "retry", e |-> e, was |-> {}]}]
  OBVIOUS
<1>2. Tab!Shows(next) /\ UNCHANGED <<Tab!server, reads, made>> /\ post' = [post EXCEPT ![e].again = TRUE]
  BY DEF Tab!Retry
<1>3. next \in Pages /\ next.seen = page.seen /\ next.pin = page.pin /\ next.ticket = page.ticket
  BY <1>1, KnownTab DEF Pages, Hows
<1>4. post' \in [Tab!Mine -> Posts \union {None}] /\ (\A f \in Tab!Mine : PostInv(f)') /\ post'[e] # None
  BY <1>1, <1>2, AgainLemma DEF Tab!Shows
<1>5. \A r : Dated(r) => Dated(r)'
  BY <1>2, StaysDated DEF Tab!Shows
<1>6. Fits(next)
  BY <1>3, <1>4, <1>5, KnownTab DEF Fits, PageInv
<1>7. made' \in 0..MaxMine /\ reads' \subseteq reads \union {Tab!Now} /\ UNCHANGED Tab!server
  BY <1>2, KnownTab
<1> QED
  BY <1>2, <1>4, <1>6, <1>7, TabMoves

(* What a caller makes of an answer.                                       *)
LEMMA CallersLemma ==
  ASSUME TabInv, NEW w \in page.waits, NEW next \in Pages
  PROVE  /\ Tab!AfterSuccess(next, w) \in Pages /\ Tab!AfterFailure(next, w) \in Pages
         /\ Tab!AfterSuccess(next, w).seen = next.seen /\ Tab!AfterFailure(next, w).seen = next.seen
         /\ Tab!AfterSuccess(next, w).ticket = next.ticket /\ Tab!AfterFailure(next, w).ticket = next.ticket
         /\ Tab!AfterSuccess(next, w).pin \in {None, next.pin} /\ Tab!AfterFailure(next, w).pin \in {None, next.pin}
<1>1. w.e \in Edits /\ w.was \subseteq Edits
  BY KnownTab DEF Pages, Edits
<1> PICK mid : mid = Tab!Released(next, w)
  OBVIOUS
<1>2. mid \in Pages /\ mid.seen = next.seen /\ mid.ticket = next.ticket /\ mid.pin \in {None, next.pin}
  BY DEF Tab!Released, Pages
<1>3. /\ Tab!AfterSuccess(next, w) \in Pages
      /\ Tab!AfterSuccess(next, w).seen = mid.seen /\ Tab!AfterSuccess(next, w).ticket = mid.ticket /\ Tab!AfterSuccess(next, w).pin = mid.pin
  BY <1>1, <1>2 DEF Tab!AfterSuccess, Pages
<1>4. /\ Tab!AfterFailure(next, w) \in Pages
      /\ Tab!AfterFailure(next, w).seen = mid.seen /\ Tab!AfterFailure(next, w).ticket = mid.ticket /\ Tab!AfterFailure(next, w).pin = mid.pin
  BY <1>1, <1>2 DEF Tab!AfterFailure, Pages
<1> QED
  BY <1>2, <1>3, <1>4

LEMMA AnsweredStep ==
  ASSUME TabInv, NEW w \in page.waits, NEW next \in Pages, Tab!Answered(w, next),
         reads' \subseteq reads \union {Tab!Now},
         next.seen = page.seen \/ Dated(next.seen)', next.pin \in {None, page.pin} \/ Dated(next.pin)',
         next.ticket # None => page.ticket # None /\ next.ticket.e = page.ticket.e,
         post' = post \/ (/\ w.e \notin done /\ post' = [post EXCEPT ![w.e] = None]
                         /\ next.ticket = None)
  PROVE  TabInv'
<1> USE DEF Tab!server
<1> PICK last : last = [next EXCEPT !.waits = @ \ {w}]
  OBVIOUS
<1>1. last \in Pages /\ last.seen = next.seen /\ last.pin = next.pin /\ last.ticket = next.ticket
  BY DEF Pages
<1>2. Tab!Shows(last) /\ UNCHANGED <<Tab!server, made>>
  BY DEF Tab!Answered
<1>3. CASE post' = post
  BY <1>1, <1>2, <1>3, PageMoves
<1>4. CASE w.e \notin done /\ post' = [post EXCEPT ![w.e] = None] /\ next.ticket = None
  <2>1. w.e \in Tab!Mine /\ post' \in [Tab!Mine -> Posts \union {None}]
    BY <1>4, KnownTab DEF Pages
  <2>2. \A f \in Tab!Mine : PostInv(f)'
    <3>1. ASSUME NEW f \in Tab!Mine, f # w.e PROVE PostInv(f)'
      BY <1>2, <1>4, <3>1, PostsStay, KnownTab DEF Tab!Shows
    <3>2. PostInv(w.e)'
      BY <1>2, <1>4, <2>1, KnownTab DEF PostInv, Tab!Shows
    <3> QED
      BY <3>1, <3>2
  <2>3. \A r : Dated(r) => Dated(r)'
    BY <1>2, StaysDated DEF Tab!Shows
  <2>4. Fits(last)
    BY <1>1, <1>4, <2>3, KnownTab DEF Fits, PageInv, Pages
  <2> QED
    BY <1>2, <2>1, <2>2, <2>4, TabMoves, KnownTab
<1> QED
  BY <1>3, <1>4

LEMMA AnswerStep ==
  ASSUME TabInv, NEW w \in page.waits,
         Tab!Saved(w) \/ Tab!Conflict(w) \/ Tab!Lost(w) \/ Tab!Refused(w)
  PROVE  TabInv'
<1>1. w.e \in Tab!Mine /\ page \in Pages
  BY KnownTab DEF Pages
<1>2. CASE Tab!Saved(w)
  <2> PICK mid : mid = Tab!Confirmed(w.e)
    OBVIOUS
  <2> PICK next : next = Tab!AfterSuccess(mid, w)
    OBVIOUS
  <2>1. Tab!Answered(w, next) /\ post' = post /\ reads' \subseteq reads \union {Tab!Now} /\ w.e \in done
    BY <1>2 DEF Tab!Saved
  <2>2. CASE ~Tab!Pending(w.e)
    <3>1. mid = page
      BY <2>2 DEF Tab!Confirmed
    <3> QED
      BY <1>1, <2>1, <3>1, CallersLemma, AnsweredStep
  <2>3. CASE Tab!Pending(w.e)
    <3> PICK last : last = post[w.e].base + 1
      OBVIOUS
    <3>1. last \in Nat /\ Dated(last)
      BY <1>1, <2>1, KnownTab DEF PostInv, Posts
    <3>2. mid = [page EXCEPT !.seen = last, !.ticket = None, !.pin = IF page.pin = None THEN None ELSE last]
      BY <2>3 DEF Tab!Confirmed
    <3> PICK pin : pin = IF page.pin = None THEN None ELSE last
      OBVIOUS
    <3>3. mid \in Pages /\ mid.seen = last /\ mid.ticket = None /\ mid.pin = pin /\ pin \in {None, last}
      BY <1>1, <3>1, <3>2 DEF Pages
    <3>4. Dated(last)'
      BY <2>1, <3>1, StaysDated DEF Tab!Answered, Tab!Shows
    <3> QED
      BY <2>1, <3>3, <3>4, CallersLemma, AnsweredStep
  <2> QED
    BY <2>2, <2>3
<1>3. CASE Tab!Conflict(w)
  <2> PICK mid : mid = Tab!Conflicted(w.e)
    OBVIOUS
  <2>1. mid \in Pages /\ mid.seen = page.seen /\ mid.pin = page.pin /\ (mid.ticket # None => page.ticket # None /\ mid.ticket.e = page.ticket.e)
    <3>1. CASE ~Tab!Pending(w.e)
      BY <1>1, <3>1 DEF Tab!Conflicted
    <3>2. CASE Tab!Pending(w.e)
      BY <1>1, <3>2 DEF Tab!Conflicted, Tab!Pending, Pages, Tickets
    <3> QED
      BY <3>1, <3>2
  <2>2. Tab!Answered(w, Tab!AfterFailure(mid, w)) /\ post' = post /\ reads' \subseteq reads \union {Tab!Now}
    BY <1>3 DEF Tab!Conflict
  <2> QED
    BY <2>1, <2>2, CallersLemma, AnsweredStep
<1>4. CASE Tab!Lost(w)
  BY <1>1, <1>4, CallersLemma, AnsweredStep DEF Tab!Lost
<1>5. CASE Tab!Refused(w)
  <2> PICK mid : mid = [page EXCEPT !.ticket = None]
    OBVIOUS
  <2>1. mid \in Pages /\ mid.seen = page.seen /\ mid.pin = page.pin /\ mid.ticket = None
    BY <1>1 DEF Pages
  <2>2. /\ Tab!Answered(w, Tab!AfterFailure(mid, w)) /\ reads' \subseteq reads \union {Tab!Now}
        /\ post' = post \/ (w.e \notin done /\ post' = [post EXCEPT ![w.e] = None])
    BY <1>5 DEF Tab!Refused
  <2> QED
    BY <2>1, <2>2, CallersLemma, AnsweredStep
<1> QED
  BY <1>2, <1>3, <1>4, <1>5

LEMMA InitTab == Tab!Init => TabInv
<1> SUFFICES ASSUME Tab!Init PROVE TabInv
  OBVIOUS
<1>1. TabTypes
  BY PartBoundsAssumption DEF Tab!Init, TabTypes, Tab!Fresh, Pages
<1>2. (\A e \in Tab!Mine : PostInv(e)) /\ PageInv /\ \A m \in reads : ReadInv(m)
  BY DEF Tab!Init, PostInv, PageInv, Tab!Fresh, Dated, Known
<1> QED
  BY <1>1, <1>2 DEF TabInv

LEMMA TabStep == TabInv /\ [Tab!Next]_(Tab!vars) => TabInv'
<1>1. ASSUME TabInv, UNCHANGED Tab!vars PROVE TabInv'
  <2>1. page \in Pages /\ Tab!Shows(page)
    BY <1>1, KnownTab DEF Tab!vars, Tab!Shows, PageInv
  <2> QED
    BY <1>1, <2>1, PageMoves DEF Tab!vars, Tab!server
<1>2. ASSUME TabInv, Tab!Next PROVE TabInv'
  BY <1>2, ReadingStep, RetryStep, SaveStep, AnswerStep, ServeStep DEF Tab!Next
<1> QED
  BY <1>1, <1>2

(* What the parts do to the tab is what Panel does.                         *)
LEMMA PartsTab == [NextAuthority \/ NextLegacy \/ NextPanel]_partsVars => [Tab!Next]_(Tab!vars)
BY DEF NextAuthority, NextLegacy, NextPanel, partsVars, panelVars, Tab!vars

(* Of a tab and the server, for any number of edits: whoever saves at the    *)
(* current revision has seen all that is stored (config-protocol.js).       *)
THEOREM TabInvariant == PartsSpec => []TabInv
<1>1. PartsInit => TabInv
  BY InitTab DEF PartsInit
<1>2. TabInv /\ [NextAuthority \/ NextLegacy \/ NextPanel]_partsVars => TabInv'
  BY PartsTab, TabStep
<1> QED
  BY <1>1, <1>2, PTL DEF PartsSpec

(* A save takes away only what the tab showed or its user wrote, whatever  *)
(* others store meanwhile and whichever answers are lost                   *)
(* (config-protocol.js).                                                   *)
THEOREM NothingUnseenIsEverLost == PartsSpec => NothingUnseenIsLost
<1> DEFINE Kept == \A e \in (done' \ done) \intersect Tab!Mine : content \ content' \subseteq shown \union Tab!Mine
<1>1. ASSUME TabInv, [Tab!Next]_(Tab!vars) PROVE [Kept]_(Tab!vars)
  <2>1. SUFFICES ASSUME NEW e \in Tab!Mine, e \in done', e \notin done, Tab!Next PROVE content \ content' \subseteq shown \union Tab!Mine
    BY <1>1
  <2>2. CASE \E f \in Tab!Mine : Tab!Serve(f)
    BY <1>1, <2>2, KnownTab DEF Tab!Serve, PostInv, Dated, Known
  <2>3. CASE \E f \in Tab!Others : Tab!SomebodyElse(f)
    BY <2>1, <2>3, PartBoundsAssumption DEF Tab!SomebodyElse, Tab!Mine, Tab!Others
  <2>4. CASE ~(\E f \in Tab!Mine : Tab!Serve(f)) /\ ~(\E f \in Tab!Others : Tab!SomebodyElse(f))
    BY <2>1, <2>4 DEF Tab!Next, Tab!Reload, Tab!Reread, Tab!Open, Tab!Cancel, Tab!Retry, Tab!Save,
       Tab!Saved, Tab!Conflict, Tab!Lost, Tab!Refused, Tab!Answered, Tab!Show, Tab!ReadFails, Tab!server
  <2> QED
    BY <2>2, <2>3, <2>4
<1> QED
  BY <1>1, PartsTab, TabInvariant, PTL DEF PartsSpec, NothingUnseenIsLost, Tab!NothingUnseenIsLost
=============================================================================
