------------------------------- MODULE Panel -------------------------------
(* A tab of the control panel that edits one domain of the configuration,   *)
(* the list of accounts or the variables of a template, while other tabs    *)
(* and tools edit it too.  A tab shows what it read, posts the whole domain *)
(* with the revision it accepted, and keeps a save without an answer in     *)
(* memory for the user to repeat (modules/config-protocol.js, accounts.js,  *)
(* accounts-io.js, vars.js, deploy.js, yxip.js).  The server compares the   *)
(* revision and remembers what it committed; ConfigAuthority models it.     *)
(*                                                                          *)
(* What is stored is the set of edits made to it; the removal of an account *)
(* is an edit as well.  An edit of the tab is named by its number, which is *)
(* also the idempotency key of its save.                                    *)
EXTENDS Naturals, FiniteSets

CONSTANTS MaxMine, MaxOthers,  \* bounds: edits of this tab and of others
          MaxRereads,          \* bound: reads the tab starts by itself
          None

VARIABLES form,           \* what is edited: "accounts" or "variables"
          rev, content,   \* the domain on the server
          done,           \* receipts of the saves that were committed
          post,           \* what was sent to save an edit; it may arrive at any time, and again
          page,           \* the memory of the tab
          reads,          \* answers to reads of the domain that are on their way
          made, rereads,  \* edits made and reads started by the tab
          shown           \* history: all that the tab has shown

vars == <<form, rev, content, done, post, page, reads, made, rereads, shown>>
server == <<rev, content, done>>

Mine == 1..MaxMine
Others == (MaxMine + 1)..(MaxMine + MaxOthers)
(* rows: what is shown; seen: accepted revision; pin: revision when the     *)
(* form was opened; open: the form of an account is open; ticket: the save  *)
(* without an answer; waits: requests without an answer.                    *)
Fresh(rows, r) == [rows |-> rows, seen |-> r, pin |-> None, open |-> FALSE, ticket |-> None, waits |-> {}]
Now == [rev |-> rev, rows |-> content]

Init == /\ form \in {"accounts", "variables"} /\ rev = 0 /\ content = {} /\ done = {}
        /\ post = [e \in Mine |-> None] /\ page = Fresh({}, 0) /\ reads = {}
        /\ made = 0 /\ rereads = 0 /\ shown = {}

Shows(next) == page' = next /\ shown' = shown \union next.rows

(* Somebody else saves an edit, on the current revision; what he removes he *)
(* has seen.                                                                *)
SomebodyElse(e) == /\ e \notin done /\ done' = done \union {e} /\ rev' = rev + 1
                   /\ \E kept \in SUBSET content : content' = kept \union {e}
                   /\ UNCHANGED <<form, post, page, reads, made, rereads, shown>>

-----------------------------------------------------------------------------
(* init: the page is loaded again; its memory and its requests are lost.    *)
Reload == /\ page # Fresh(content, rev) /\ Shows(Fresh(content, rev)) /\ reads' = {}
          /\ UNCHANGED <<form, server, post, made, rereads>>
(* loadAccounts after something else the user did; the variables are only   *)
(* read with the page.                                                      *)
Reread == /\ form = "accounts" /\ rereads < MaxRereads
          /\ rereads' = rereads + 1 /\ reads' = reads \union {Now}
          /\ UNCHANGED <<form, server, post, page, made, shown>>
\* Faulty: only the revision of what was read is taken.
AcceptedUnseen(m) == [page EXCEPT !.seen = m.rev]
(* accept: the list and its revision are taken together; a conflict is      *)
(* settled by that unless a form is still pinned.                           *)
Accepted(m) == [page EXCEPT !.seen = m.rev, !.rows = m.rows,
                            !.ticket = IF page.pin = None /\ @ # None /\ @.conflict THEN None ELSE @]
Show(m) == Shows(Accepted(m)) /\ reads' = reads \ {m} /\ UNCHANGED <<form, server, post, made, rereads>>
ReadFails(m) == reads' = reads \ {m} /\ UNCHANGED <<form, server, post, page, made, rereads, shown>>

(* editAccount and resetFormForAdd; cancelEdit.                             *)
Open == /\ form = "accounts" /\ Shows([page EXCEPT !.pin = page.seen, !.open = TRUE])
        /\ UNCHANGED <<form, server, post, reads, made, rereads>>
Cancel == /\ page.open /\ Shows([page EXCEPT !.pin = None, !.open = FALSE])
          /\ UNCHANGED <<form, server, post, reads, made, rereads>>

-----------------------------------------------------------------------------
Waits(how) == \E w \in page.waits : w.how = how
Importing(how) == how = "merge" /\ form = "accounts"
(* What is posted: the whole domain, or only the edit itself.               *)
Body(how, e) == IF how = "merge" THEN {e} ELSE page.rows \union {e}
(* saveAccount ("form"), confirmAccountRemoval ("removal"), importAccounts  *)
(* ("merge"); deploy, which saves the variables ("form"), and doYxipDeploy  *)
(* ("merge").  prepare lets no other save replace one without an answer;    *)
(* the same one goes out again with its key and its revision, but not after *)
(* a conflict.                                                              *)
Save(how, e) ==
    LET body == Body(how, e)
        pin == IF Importing(how) THEN page.seen ELSE page.pin
        base == IF pin # None THEN pin ELSE page.seen IN
    /\ how = "form" /\ form = "accounts" => page.open
    /\ how = "removal" => form = "accounts"
    /\ ~Waits(how) /\ (Importing(how) => page.ticket = None)
    /\ \/ /\ page.ticket = None /\ e = made + 1 /\ made' = e
          /\ post' = [post EXCEPT ![e] = [how |-> how, base |-> base, body |-> body, again |-> FALSE]]
       \/ /\ page.ticket = [e |-> e, conflict |-> FALSE] /\ made' = made
          /\ post[e].how = how /\ post[e].body = body /\ post' = [post EXCEPT ![e].again = TRUE]
    /\ Shows([page EXCEPT !.rows = IF how = "form" THEN @ \union {e} ELSE @, !.pin = pin,
                          !.ticket = [e |-> e, conflict |-> FALSE],
                          !.waits = @ \union {[how |-> how, e |-> e, was |-> page.rows]}])
    /\ UNCHANGED <<form, server, reads, rereads>>
(* retry: the same request, from the list of unconfirmed saves.             *)
Retry == /\ page.ticket # None /\ ~Waits("retry") /\ ~page.ticket.conflict
         /\ post' = [post EXCEPT ![page.ticket.e].again = TRUE]
         /\ Shows([page EXCEPT !.waits = @ \union {[how |-> "retry", e |-> page.ticket.e, was |-> {}]}])
         /\ UNCHANGED <<form, server, reads, made, rereads>>

(* The server commits a save on the revision it is based on, once.          *)
Serve(e) == /\ post[e] # None /\ e \notin done /\ post[e].base = rev
            /\ rev' = rev + 1 /\ done' = done \union {e}
            /\ content' = IF post[e].how = "merge" THEN content \union post[e].body ELSE post[e].body
            /\ UNCHANGED <<form, post, page, reads, made, rereads, shown>>

(* finish, if the save is still the pending one.  Confirmed: its revision   *)
(* is accepted, and the pin moves with it.  A conflict: it stays, but does  *)
(* not go out any more.  Refused: it is forgotten.                          *)
Pending(e) == page.ticket # None /\ page.ticket.e = e
Confirmed(e) == IF ~Pending(e) THEN page
                ELSE [page EXCEPT !.seen = post[e].base + 1, !.ticket = None,
                                  !.pin = IF @ = None THEN None ELSE post[e].base + 1]
\* Faulty: the revision of the conflict is accepted, so that saving again succeeds.
RebasedOnConflict(e) == IF ~Pending(e) THEN page ELSE [page EXCEPT !.seen = rev, !.pin = None, !.ticket = None]
Conflicted(e) == IF ~Pending(e) THEN page ELSE [page EXCEPT !.ticket.conflict = TRUE]
(* What the caller does next.  The list of accounts shows the edit while it *)
(* is saved, and goes back when that failed; a removal shows when it is     *)
(* confirmed, if nothing else changed the list.  An import releases its pin.*)
Released(next, w) == IF Importing(w.how) THEN [next EXCEPT !.pin = None] ELSE next
AfterSuccess(next, w) == [Released(next, w) EXCEPT
    !.open = IF w.how = "form" /\ form = "accounts" THEN FALSE ELSE @,
    !.rows = IF w.how = "removal" /\ @ = w.was THEN @ \union {w.e} ELSE @]
AfterFailure(next, w) == [Released(next, w) EXCEPT
    !.rows = IF w.how = "form" /\ form = "accounts" THEN w.was ELSE @]
Answered(w, next) == Shows([next EXCEPT !.waits = @ \ {w}]) /\ UNCHANGED <<form, server, made, rereads>>

(* loadAccounts follows the save of a form and an import.                   *)
Saved(w) == /\ w.e \in done /\ Answered(w, AfterSuccess(Confirmed(w.e), w)) /\ post' = post
            /\ reads' = IF form = "accounts" /\ w.how \in {"form", "merge"} THEN reads \union {Now} ELSE reads
Conflict(w) == /\ w.e \notin done /\ post[w.e].base # rev
               /\ Answered(w, AfterFailure(Conflicted(w.e), w)) /\ UNCHANGED <<post, reads>>
(* The request or its answer is lost; the save may still be committed.      *)
Lost(w) == Answered(w, AfterFailure(page, w)) /\ UNCHANGED <<post, reads>>
(* Refused before it could be committed (400, 401, ...): the ticket is given *)
(* up.  What went out again may be committed all the same: its first copy   *)
(* may be on the way, or done.                                              *)
Refused(w) == /\ Pending(w.e) /\ (w.e \in done => post[w.e].again)
              /\ post' = (IF post[w.e].again THEN post ELSE [post EXCEPT ![w.e] = None]) /\ reads' = reads
              /\ Answered(w, AfterFailure([page EXCEPT !.ticket = None], w))

Next == \/ Reload \/ Reread \/ Open \/ Cancel \/ Retry
        \/ \E how \in {"form", "removal", "merge"}, e \in Mine : Save(how, e)
        \/ \E w \in page.waits : Saved(w) \/ Conflict(w) \/ Lost(w) \/ Refused(w)
        \/ \E m \in reads : Show(m) \/ ReadFails(m)
        \/ \E e \in Mine : Serve(e)
        \/ \E e \in Others : SomebodyElse(e)
Spec == Init /\ [][Next]_vars

-----------------------------------------------------------------------------
(* The type invariant. *)
TypeOK == /\ rev = Cardinality(done) /\ content \subseteq Mine \union Others
          /\ page.rows \subseteq Mine \union Others /\ page.seen \in 0..rev
          /\ made \in 0..MaxMine /\ rereads \in 0..MaxRereads

(* No blind overwrite (config-protocol.js:2): what a save of the tab takes  *)
(* away from the configuration was made in the tab or was shown in it,      *)
(* whatever answers were lost, late or out of order.                        *)
NothingUnseenIsLost ==
    [][\A e \in (done' \ done) \intersect Mine : content \ content' \subseteq shown \union Mine]_vars
=============================================================================
