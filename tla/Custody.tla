------------------------------ MODULE Custody ------------------------------
(***************************************************************************)
(* The custody loop of internal/stockroom: checkout, return, the admin's   *)
(* stock changes and the accounts they refer to, as the statements each    *)
(* handler sends to Postgres (READ COMMITTED, row locks).                  *)
(*                                                                         *)
(* A request is one handler running in its own goroutine.  Each of its     *)
(* steps is one statement, or the last statement it can block on together  *)
(* with the writes and the commit after it: other requests run between     *)
(* steps, and only the row locks keep them apart.  No unique index keeps a *)
(* second open custody row out: the locks and the checks under them do.    *)
(***************************************************************************)
EXTENDS Naturals, FiniteSetsExt

CONSTANTS
    Assets,         \* asset ids; numbers, for the order the cart locks them in
    People,         \* account ids
    Admins,         \* the accounts that are admins
    Events,         \* ids a custody row can get (a bound on checkouts)
    Kits,
    Requests,       \* the handlers that may run at the same time
    OverdueBlocks,  \* the "overdue blocks checkout" setting
    Calls,          \* the operations an instance lets clients call
    Ways,           \* how its returns arrive
    Notes,          \* whether they carry a damage note
    None

ASSUME ConstantsFit ==
    /\ Assets \subseteq Nat
    /\ Admins \subseteq People
    /\ OverdueBlocks \in BOOLEAN
    /\ Ways \subseteq {"button", "scan", "typed", "kit"} /\ Notes \subseteq BOOLEAN
    /\ None \notin Assets \cup People \cup Events \cup Kits \cup Requests
    /\ People \cap {"gone", "shelf", "away"} = {}      \* the places of Lending

VARIABLES
    status,      \* assets.status, "absent" when there is no row
    retired,     \* the assets whose retired_at is set
    kitOf,       \* kit_items: the kit an asset is in
    account,     \* profiles: "active", "archived" or "deleted"
    custody,     \* custody_events, None for an id not given out yet
    assetLock,   \* assets rows locked FOR UPDATE
    shareLock,   \* profiles rows locked FOR SHARE
    updateLock,  \* profiles rows locked FOR UPDATE
    job          \* what each request is doing

tables == <<status, retired, kitOf, account, custody>>
locks == <<assetLock, shareLock, updateLock>>
vars == <<tables, locks, job>>

Status == {"absent", "available", "checked_out", "unavailable"}
Reasons == {"damage", "not_scanned"}
Via == {"button", "scan", "typed", "kit"}

Row == [asset : Assets, who : People, by : People,
        outcome : {"open", "returned", "lost"},
        inBy : People \cup {None}, via : Via \cup {"none", "lost"},
        \* The clock, as far as a handler still asks about it:
        late : BOOLEAN,          \* open, and due_at has passed
        recent : BOOLEAN,        \* open, checked out within recentCheckoutWindow
        noteable : BOOLEAN,      \* returned within noteWindow
        reasons : SUBSET Reasons, reviewed : BOOLEAN]

ASSUME NoneIsNoRow == None \notin Row

Ops == {"none", "checkout", "scan", "checkin", "lost", "retire", "unretire",
        "available", "unavailable", "delete", "archive", "unarchive",
        "delete_user", "add_to_kit"}

Stage == {"idle", "share", "overdue", "cart", "lock", "look", "ask", "held",
          "next", "unit", "read", "profile", "write"}

Job == [pc : Stage,
       op : Ops,
        actor : People \cup {None},
        who : People \cup {None},       \* the custodian, or the account changed
        cart : SUBSET Assets,
        asset : Assets \cup {None},
        kit : Kits \cup {None},
        flag : BOOLEAN,                 \* override, damage note or lost
        via : Via,
        todo : SUBSET Assets,           \* rows still to lock, or units to return
        seen : SUBSET Assets,           \* open when the cart's statement began
        refused : BOOLEAN,
        found : Events \cup {None}]     \* the open row currentCustody returned

Idle == [pc |-> "idle", op |-> "none", actor |-> None, who |-> None,
         cart |-> {}, asset |-> None, kit |-> None, flag |-> FALSE,
         via |-> "button", todo |-> {}, seen |-> {}, refused |-> FALSE,
         found |-> None]

TypeOK ==
    /\ status \in [Assets -> Status]
    /\ retired \in SUBSET Assets
    /\ kitOf \in [Assets -> Kits \cup {None}]
    /\ account \in [People -> {"active", "archived", "deleted"}]
    /\ custody \in [Events -> Row \cup {None}]
    /\ assetLock \in [Assets -> Requests \cup {None}]
    /\ shareLock \in [People -> SUBSET Requests]
    /\ updateLock \in [People -> Requests \cup {None}]
    /\ job \in [Requests -> Job]

Init ==
    /\ status = [a \in Assets |-> "available"]
    /\ retired = {}
    /\ kitOf = [a \in Assets |-> None]
    /\ account = [p \in People |-> "active"]
    /\ custody = [e \in Events |-> None]
    /\ assetLock = [a \in Assets |-> None]
    /\ shareLock = [p \in People |-> {}]
    /\ updateLock = [p \in People |-> None]
    /\ job = [r \in Requests |-> Idle]

-----------------------------------------------------------------------------
(* Reading the tables.                                                      *)

Free == {e \in Events : custody[e] = None}
Given == Events \ Free
IsOpen(e) == custody[e] # None /\ custody[e].outcome = "open"
OpenOn(a) == {e \in Given : custody[e].asset = a /\ custody[e].outcome = "open"}
Holding(p) == {e \in Given : custody[e].who = p /\ custody[e].outcome = "open"}
EverOut(a) == \E e \in Given : custody[e].asset = a
Referenced(p) == \E e \in Given : p \in {custody[e].who, custody[e].by, custody[e].inBy}

CurrentCustody(a) == IF OpenOn(a) = {} THEN None ELSE CHOOSE e \in OpenOn(a) : TRUE

Running(op) == {r \in Requests : job[r].op = op}

\* A foreign key to an account takes its row's key lock, which a FOR UPDATE of
\* another request holds off, and needs the row to be there.
CanReference(r, p) == updateLock[p] \in {None, r}

-----------------------------------------------------------------------------
(* Steps every handler shares.                                              *)

Becomes(r, j) == job' = [job EXCEPT ![r] = j]

Go(r, pc) == Becomes(r, [job[r] EXCEPT !.pc = pc])

\* Commit and rollback both end the transaction and drop its row locks.
Release(r) ==
    /\ assetLock' = [a \in Assets |-> IF assetLock[a] = r THEN None ELSE assetLock[a]]
    /\ shareLock' = [p \in People |-> shareLock[p] \ {r}]
    /\ updateLock' = [p \in People |-> IF updateLock[p] = r THEN None ELSE updateLock[p]]

\* A kit return goes on to its next unit, anything else answers the client.
Finish(r) ==
    Becomes(r, IF job[r].via = "kit" /\ job[r].todo # {}
               THEN [job[r] EXCEPT !.pc = "next", !.found = None]
               ELSE Idle)

Refuse(r) == Release(r) /\ Finish(r) /\ UNCHANGED tables

Begin(r, op, actor, fields, pc) ==
    /\ op \in Calls
    /\ job[r].pc = "idle"
    /\ account[actor] = "active"
    /\ Becomes(r, [fields EXCEPT !.pc = pc, !.op = op, !.actor = actor])
    /\ UNCHANGED <<tables, locks>>

\* The client hangs up or the server stops: the request's context is cancelled
\* and what it had not committed rolls back, between any two statements.
Abandon(r) ==
    /\ job[r].pc # "idle"
    /\ Release(r)
    /\ Becomes(r, Idle)
    /\ UNCHANGED tables

At(r, op, pc) == job[r].op = op /\ job[r].pc = pc

-----------------------------------------------------------------------------
(* CheckOutAssets.                                                          *)

\* Ids for every cart already under way, so that a commit never lacks one.
Reserved == MapThenSumSet(LAMBDA r : Cardinality(job[r].cart), Running("checkout"))

CheckOutAssets(r) ==
    \E actor \in People, who \in People, cart \in (SUBSET Assets) \ {{}}, override \in BOOLEAN :
        /\ who # actor \/ override => actor \in Admins
        /\ account[who] # "deleted"
        /\ Reserved + Cardinality(cart) <= Cardinality(Free)
        /\ Begin(r, "checkout", actor,
                 [Idle EXCEPT !.who = who, !.cart = cart, !.flag = override], "share")

\* Bug: the archived check made outside the transaction.
ShareCustodian_Unlocked(r) ==
    /\ At(r, "checkout", "share")
    /\ \/ account[job[r].who] = "active" /\ Go(r, "overdue") /\ UNCHANGED <<tables, locks>>
       \/ account[job[r].who] # "active" /\ Refuse(r)

ShareCustodian(r) ==
    LET p == job[r].who IN
    /\ At(r, "checkout", "share")
    /\ updateLock[p] = None
    /\ \/ /\ account[p] = "active"
          /\ shareLock' = [shareLock EXCEPT ![p] = @ \cup {r}]
          /\ Go(r, "overdue")
          /\ UNCHANGED <<tables, assetLock, updateLock>>
       \/ account[p] # "active" /\ Refuse(r)

CheckOverdue(r) ==
    LET blocked == /\ OverdueBlocks
                   /\ ~job[r].flag
                   /\ \E e \in Holding(job[r].who) : custody[e].late IN
    /\ At(r, "checkout", "overdue")
    /\ \/ blocked /\ Refuse(r)
       \/ ~blocked /\ Go(r, "cart") /\ UNCHANGED <<tables, locks>>

\* The cart's SELECT ... FOR UPDATE takes its snapshot when it begins: the
\* open-custody subquery answers from it however long the rows are waited for.
BeginCart(r) ==
    /\ At(r, "checkout", "cart")
    /\ Becomes(r, [job[r] EXCEPT !.pc = "lock", !.todo = job[r].cart,
                                 !.seen = {a \in job[r].cart : OpenOn(a) # {}}])
    /\ UNCHANGED <<tables, locks>>

\* Bug: "the open row decides" taken at its word, so only the snapshot does.
LockCartAsset_StatusUnread(r) ==
    /\ At(r, "checkout", "lock")
    /\ \E a \in job[r].todo :
          /\ \A b \in job[r].todo : a <= b
          /\ assetLock[a] = None
          /\ assetLock' = [assetLock EXCEPT ![a] = IF status[a] = "absent" THEN None ELSE r]
          /\ Becomes(r, [job[r] EXCEPT !.todo = @ \ {a},
                                       !.refused = @ \/ status[a] = "absent" \/ a \in job[r].seen])
    /\ UNCHANGED <<tables, shareLock, updateLock>>

\* Bug: the rows locked in the order the cart lists them.
LockCartAsset_CartOrder(r) ==
    /\ At(r, "checkout", "lock")
    /\ \E a \in job[r].todo :
          /\ assetLock[a] = None
          /\ assetLock' = [assetLock EXCEPT ![a] = IF status[a] = "absent" THEN None ELSE r]
          /\ Becomes(r, [job[r] EXCEPT !.todo = @ \ {a},
                                       !.refused = @ \/ status[a] # "available" \/ a \in job[r].seen])
    /\ UNCHANGED <<tables, shareLock, updateLock>>

\* Rows are locked in id order; a row that was waited for is read again, so
\* its status is the newest one.
LockCartAsset(r) ==
    /\ At(r, "checkout", "lock")
    /\ \E a \in job[r].todo :
          /\ \A b \in job[r].todo : a <= b
          /\ assetLock[a] = None
          /\ assetLock' = [assetLock EXCEPT ![a] = IF status[a] = "absent" THEN None ELSE r]
          /\ Becomes(r, [job[r] EXCEPT !.todo = @ \ {a},
                                       !.refused = @ \/ status[a] # "available" \/ a \in job[r].seen])
    /\ UNCHANGED <<tables, shareLock, updateLock>>

Loan(a, who, by) ==
    [asset |-> a, who |-> who, by |-> by, outcome |-> "open", inBy |-> None,
     via |-> "none", late |-> FALSE, recent |-> TRUE, noteable |-> FALSE,
     reasons |-> {}, reviewed |-> FALSE]

CommitCart(r) ==
    LET j == job[r] IN
    /\ At(r, "checkout", "lock")
    /\ j.todo = {}
    /\ \/ j.refused /\ Refuse(r)
       \/ ~j.refused /\ CanReference(r, j.actor) /\ account[j.actor] = "deleted" /\ Refuse(r)
       \/ /\ ~j.refused /\ CanReference(r, j.actor) /\ account[j.actor] # "deleted"
          /\ \E id \in Injection(j.cart, Free) :
                custody' = [e \in Events |->
                              IF \E a \in j.cart : id[a] = e
                              THEN Loan(CHOOSE a \in j.cart : id[a] = e, j.who, j.actor)
                              ELSE custody[e]]
          /\ status' = [a \in Assets |-> IF a \in j.cart THEN "checked_out" ELSE status[a]]
          /\ Release(r) /\ Finish(r)
          /\ UNCHANGED <<retired, kitOf, account>>

-----------------------------------------------------------------------------
(* Work on one unit: every handler locks the asset row first, reads under   *)
(* the lock, then writes and commits.                                       *)

Returns == {"scan", "checkin"}
StockOps == {"lost", "retire", "unretire", "available", "unavailable", "delete"}

ScanItemVia(r) ==
    \E actor \in People, a \in Assets, via \in Ways \cap {"scan", "typed"} :
        /\ status[a] # "absent"
        /\ Begin(r, "scan", actor, [Idle EXCEPT !.asset = a, !.via = via], "look")

\* Not out: the scan opens the item.  Out: a return, after one more question
\* when it came at scanner speed.
ScanLook(r) ==
    /\ At(r, "scan", "look")
    /\ \/ OpenOn(job[r].asset) = {} /\ Finish(r)
       \/ OpenOn(job[r].asset) # {} /\ Go(r, IF job[r].via = "scan" THEN "ask" ELSE "unit")
    /\ UNCHANGED <<tables, locks>>

ScanAsk(r) ==
    LET justTaken == \E e \in OpenOn(job[r].asset) :
                        custody[e].recent /\ job[r].actor \in {custody[e].who, custody[e].by} IN
    /\ At(r, "scan", "ask")
    /\ Go(r, IF justTaken THEN "held" ELSE "unit")
    /\ UNCHANGED <<tables, locks>>

\* Who has it is a read of its own, after the recent one: the question is asked
\* only while somebody still does.
ScanHeld(r) ==
    /\ At(r, "scan", "held")
    /\ \/ OpenOn(job[r].asset) # {} /\ Finish(r)
       \/ OpenOn(job[r].asset) = {} /\ Go(r, "unit")
    /\ UNCHANGED <<tables, locks>>

CheckInAssetVia(r) ==
    \E actor \in People, a \in Assets, note \in Notes, via \in Ways \cap {"button", "scan"} :
        Begin(r, "checkin", actor, [Idle EXCEPT !.asset = a, !.flag = note, !.via = via], "unit")

\* GetKit reads the members and who has them; each unit that was out is then
\* returned in a transaction of its own.
CheckInKit(r) ==
    \E actor \in People, k \in Kits :
        LET out == {a \in Assets : kitOf[a] = k /\ OpenOn(a) # {}} IN
        /\ "kit" \in Ways /\ out # {}
        /\ Begin(r, "checkin", actor, [Idle EXCEPT !.via = "kit", !.todo = out], "next")

\* Bug: a kit return that trusts the members it read and locks nothing.
NextKitUnit_TrustsRead(r) ==
    /\ At(r, "checkin", "next")
    /\ \E a \in job[r].todo :
          Becomes(r, [job[r] EXCEPT !.pc = "write", !.asset = a, !.todo = @ \ {a},
                                    !.found = CurrentCustody(a)])
    /\ UNCHANGED <<tables, locks>>

NextKitUnit(r) ==
    /\ At(r, "checkin", "next")
    /\ \E a \in job[r].todo :
          Becomes(r, [job[r] EXCEPT !.pc = "unit", !.asset = a, !.todo = @ \ {a}])
    /\ UNCHANGED <<tables, locks>>

ChangeStock(r) ==
    \E op \in StockOps, actor \in Admins, a \in Assets, lost \in BOOLEAN :
        /\ lost => op = "retire"
        /\ Begin(r, op, actor, [Idle EXCEPT !.asset = a, !.flag = lost], "unit")

\* Bug: the asset read without FOR UPDATE.
LockUnit_Unlocked(r) ==
    /\ job[r].pc = "unit"
    /\ \/ status[job[r].asset] = "absent" /\ Refuse(r)
       \/ status[job[r].asset] # "absent" /\ Go(r, "read") /\ UNCHANGED <<tables, locks>>

LockUnit(r) ==
    LET a == job[r].asset IN
    /\ job[r].pc = "unit"
    /\ \/ status[a] = "absent" /\ Refuse(r)
       \/ /\ status[a] # "absent"
          /\ assetLock[a] = None
          /\ assetLock' = [assetLock EXCEPT ![a] = r]
          /\ Go(r, "read")
          /\ UNCHANGED <<tables, shareLock, updateLock>>

\* What each handler reads under the lock, and ends on.
Nothing(op, a, lost) ==
    LET open == OpenOn(a) # {} IN
    \/ op \in Returns \cup {"lost"} /\ ~open
    \/ op = "retire" /\ (a \in retired \/ (open /\ ~lost))
    \/ op = "unretire" /\ (open \/ a \notin retired)
    \/ op = "available" /\ (open \/ a \in retired)
    \/ op = "unavailable" /\ open
    \/ op = "delete" /\ EverOut(a)

ReadUnit(r) ==
    LET j == job[r] IN
    /\ j.op \in Returns \cup StockOps /\ j.pc = "read"
    /\ \/ Nothing(j.op, j.asset, j.flag) /\ Refuse(r)
       \/ /\ ~Nothing(j.op, j.asset, j.flag)
          /\ Becomes(r, [j EXCEPT !.pc = "write", !.found = CurrentCustody(j.asset)])
          /\ UNCHANGED <<tables, locks>>

ReviewReasonsFor(actor, note, via) ==
    (IF note THEN {"damage"} ELSE {})
        \cup (IF actor \notin Admins /\ via # "scan" THEN {"not_scanned"} ELSE {})

Returned(row, j) ==
    [row EXCEPT !.outcome = "returned", !.inBy = j.actor, !.via = j.via,
                !.late = FALSE, !.recent = FALSE, !.noteable = TRUE,
                !.reasons = ReviewReasonsFor(j.actor, j.flag, j.via)]

Lost(row, j) ==
    [row EXCEPT !.outcome = "lost", !.inBy = j.actor, !.via = "lost",
                !.late = FALSE, !.recent = FALSE]

\* The row found is closed by its id.
Close(r, How(_, _)) ==
    LET j == job[r] IN
    custody' = [e \in Events |-> IF e = j.found THEN How(custody[e], j) ELSE custody[e]]

SetStatus(a, s) == status' = [status EXCEPT ![a] = s]

\* checked_in_by references the actor's account.
CommitReturn(r) ==
    /\ job[r].op \in Returns \cup {"lost"} /\ job[r].pc = "write"
    /\ CanReference(r, job[r].actor)
    /\ \/ account[job[r].actor] = "deleted" /\ Refuse(r)
       \/ /\ account[job[r].actor] # "deleted"
          /\ \/ /\ job[r].op # "lost"
                /\ Close(r, Returned) /\ SetStatus(job[r].asset, "available")
             \/ /\ job[r].op = "lost"
                /\ Close(r, Lost) /\ SetStatus(job[r].asset, "unavailable")
          /\ Release(r) /\ Finish(r)
          /\ UNCHANGED <<retired, kitOf, account>>

CommitRetire(r) ==
    LET a == job[r].asset IN
    /\ At(r, "retire", "write")
    /\ job[r].found # None => CanReference(r, job[r].actor)
    /\ \/ job[r].found # None /\ account[job[r].actor] = "deleted" /\ Refuse(r)
       \/ /\ job[r].found # None => account[job[r].actor] # "deleted"
          /\ kitOf' = [kitOf EXCEPT ![a] = None]
          /\ Close(r, Lost)
          /\ SetStatus(a, "unavailable")
          /\ retired' = retired \cup {a}
          /\ Release(r) /\ Finish(r)
          /\ UNCHANGED account

CommitUnretire(r) ==
    /\ At(r, "unretire", "write")
    /\ SetStatus(job[r].asset, "available")
    /\ retired' = retired \ {job[r].asset}
    /\ Release(r) /\ Finish(r)
    /\ UNCHANGED <<kitOf, account, custody>>

CommitStatus(r) ==
    /\ job[r].op \in {"available", "unavailable"} /\ job[r].pc = "write"
    /\ SetStatus(job[r].asset, job[r].op)
    /\ Release(r) /\ Finish(r)
    /\ UNCHANGED <<retired, kitOf, account, custody>>

\* Custody rows and kit membership cascade with the asset's row.
CommitDelete(r) ==
    LET a == job[r].asset IN
    /\ At(r, "delete", "write")
    /\ SetStatus(a, "absent")
    /\ retired' = retired \ {a}
    /\ kitOf' = [kitOf EXCEPT ![a] = None]
    /\ custody' = [e \in Events |-> IF e \in Given /\ custody[e].asset = a THEN None ELSE custody[e]]
    /\ Release(r) /\ Finish(r)
    /\ UNCHANGED account

CreateAsset(a) ==
    /\ "delete" \in Calls
    /\ status[a] = "absent"
    /\ SetStatus(a, "available")
    /\ UNCHANGED <<retired, kitOf, account, custody, locks, job>>

-----------------------------------------------------------------------------
(* Accounts and kits.                                                       *)

SetUserArchived(r) ==
    \E op \in {"archive", "unarchive"}, actor \in Admins, who \in People :
        /\ op = "archive" => who # actor
        /\ Begin(r, op, actor, [Idle EXCEPT !.who = who], "profile")

LockProfile(r) ==
    LET p == job[r].who IN
    /\ job[r].op \in {"archive", "unarchive"} /\ job[r].pc = "profile"
    /\ shareLock[p] = {} /\ updateLock[p] = None
    /\ \/ account[p] = "deleted" /\ Refuse(r)
       \/ /\ account[p] # "deleted"
          /\ updateLock' = [updateLock EXCEPT ![p] = r]
          /\ Go(r, IF job[r].op = "archive" THEN "read" ELSE "write")
          /\ UNCHANGED <<tables, assetLock, shareLock>>

ReadHoldings(r) ==
    /\ At(r, "archive", "read")
    /\ \/ Holding(job[r].who) # {} /\ Refuse(r)
       \/ Holding(job[r].who) = {} /\ Go(r, "write") /\ UNCHANGED <<tables, locks>>

CommitArchive(r) ==
    /\ job[r].op \in {"archive", "unarchive"} /\ job[r].pc = "write"
    /\ account' = [account EXCEPT ![job[r].who] =
                     IF job[r].op = "archive" THEN "archived" ELSE "active"]
    /\ Release(r) /\ Finish(r)
    /\ UNCHANGED <<status, retired, kitOf, custody>>

\* What the account holds is read outside the transaction; the foreign keys of
\* custody_events refuse whatever that read came too early for.
DeleteUser(r) ==
    \E actor \in Admins, who \in People :
        who # actor /\ Begin(r, "delete_user", actor, [Idle EXCEPT !.who = who], "look")

LookAtHoldings(r) ==
    /\ At(r, "delete_user", "look")
    /\ \/ Holding(job[r].who) # {} /\ Finish(r)
       \/ Holding(job[r].who) = {} /\ Go(r, "write")
    /\ UNCHANGED <<tables, locks>>

DeleteProfile(r) ==
    LET p == job[r].who IN
    /\ At(r, "delete_user", "write")
    /\ shareLock[p] = {} /\ updateLock[p] = None
    /\ \/ (account[p] = "deleted" \/ Referenced(p)) /\ Refuse(r)
       \/ /\ account[p] # "deleted" /\ ~Referenced(p)
          /\ account' = [account EXCEPT ![p] = "deleted"]
          /\ Finish(r)
          /\ UNCHANGED <<status, retired, kitOf, custody, locks>>

\* retired_at is read without a lock.  The insert then waits for a FOR UPDATE
\* on the asset (its foreign key takes the row's key lock) but does not read
\* the row again.
AddAssetToKit(r) ==
    \E actor \in Admins, a \in Assets, k \in Kits :
        Begin(r, "add_to_kit", actor, [Idle EXCEPT !.asset = a, !.kit = k], "look")

LookAtRetired(r) ==
    /\ At(r, "add_to_kit", "look")
    /\ \/ job[r].asset \in retired /\ Finish(r)
       \/ job[r].asset \notin retired /\ Go(r, "write")
    /\ UNCHANGED <<tables, locks>>

InsertKitItem(r) ==
    LET a == job[r].asset IN
    /\ At(r, "add_to_kit", "write")
    /\ assetLock[a] = None
    /\ \/ (status[a] = "absent" \/ kitOf[a] # None) /\ Refuse(r)
       \/ /\ status[a] # "absent" /\ kitOf[a] = None
          /\ kitOf' = [kitOf EXCEPT ![a] = job[r].kit]
          /\ Finish(r)
          /\ UNCHANGED <<status, retired, account, custody, locks>>

RemoveAssetFromKit(a) ==
    /\ "add_to_kit" \in Calls
    /\ kitOf[a] # None
    /\ kitOf' = [kitOf EXCEPT ![a] = None]
    /\ UNCHANGED <<status, retired, account, custody, locks, job>>

-----------------------------------------------------------------------------
(* Single statements on a closed row, and time.                             *)

Change(e, row) ==
    /\ custody' = [custody EXCEPT ![e] = row]
    /\ UNCHANGED <<status, retired, kitOf, account, locks, job>>

\* Bug: the note replaces the reasons instead of joining them.
AnnotateCustodyEvent_Replaces(actor, e) ==
    /\ "review" \in Calls
    /\ e \in Given
    /\ custody[e].outcome = "returned"
    /\ actor \in Admins \/ (~custody[e].reviewed /\ custody[e].noteable)
    /\ Change(e, [custody[e] EXCEPT !.reasons = {"damage"}, !.reviewed = FALSE])

AnnotateCustodyEvent(actor, e) ==
    /\ "review" \in Calls
    /\ e \in Given
    /\ custody[e].outcome = "returned"
    /\ actor \in Admins \/ (~custody[e].reviewed /\ custody[e].noteable)
    /\ Change(e, [custody[e] EXCEPT !.reasons = @ \cup {"damage"}, !.reviewed = FALSE])

ResolveReview(e) ==
    /\ "review" \in Calls
    /\ e \in Given
    /\ ~custody[e].reviewed /\ custody[e].reasons # {}
    /\ Change(e, [custody[e] EXCEPT !.reviewed = TRUE])

FallDue(e) ==
    /\ "time" \in Calls
    /\ IsOpen(e) /\ ~custody[e].late
    /\ Change(e, [custody[e] EXCEPT !.late = TRUE])

WindowPasses(e) ==
    /\ "time" \in Calls
    /\ e \in Given
    /\ \/ custody[e].recent /\ Change(e, [custody[e] EXCEPT !.recent = FALSE])
       \/ custody[e].noteable /\ Change(e, [custody[e] EXCEPT !.noteable = FALSE])

-----------------------------------------------------------------------------
Call(r) ==
    \/ CheckOutAssets(r) \/ ScanItemVia(r) \/ CheckInAssetVia(r) \/ CheckInKit(r)
    \/ ChangeStock(r) \/ SetUserArchived(r) \/ DeleteUser(r) \/ AddAssetToKit(r)

Step(r) ==
    \/ ShareCustodian(r) \/ CheckOverdue(r) \/ BeginCart(r) \/ LockCartAsset(r) \/ CommitCart(r)
    \/ ScanLook(r) \/ ScanAsk(r) \/ ScanHeld(r) \/ NextKitUnit(r)
    \/ LockUnit(r) \/ ReadUnit(r)
    \/ CommitReturn(r) \/ CommitRetire(r) \/ CommitUnretire(r) \/ CommitStatus(r) \/ CommitDelete(r)
    \/ LockProfile(r) \/ ReadHoldings(r) \/ CommitArchive(r)
    \/ LookAtHoldings(r) \/ DeleteProfile(r)
    \/ LookAtRetired(r) \/ InsertKitItem(r)

Direct ==
    \/ \E a \in Assets : CreateAsset(a) \/ RemoveAssetFromKit(a)
    \/ \E e \in Events : ResolveReview(e) \/ FallDue(e) \/ WindowPasses(e)
    \/ \E actor \in People, e \in Events : AnnotateCustodyEvent(actor, e)

Next == (\E r \in Requests : Call(r) \/ Step(r) \/ Abandon(r)) \/ Direct

Spec == Init /\ [][Next]_vars

\* Postgres hands a row lock to its waiters in turn, and a handler runs on.
Fairness == \A r \in Requests : SF_vars(Step(r))

-----------------------------------------------------------------------------
(* What must hold.                                                          *)

\* A unit is never out twice.  Nothing in the schema says so (there is no
\* unique index on open rows): it rests on lockCartAssets and checkIn reading
\* under the row lock, and on the status read being newer than the snapshot.
OneOpenLoan ==
    \A e, f \in Given : IsOpen(e) /\ IsOpen(f) /\ custody[e].asset = custody[f].asset => e = f

\* The status column and the open custody row, which different handlers decide
\* by, never drift apart while the app is the only writer.
StatusTellsCustody == \A a \in Assets : status[a] = "checked_out" <=> OpenOn(a) # {}

\* A retired unit is out of circulation: whatever was in flight when it was
\* retired, it is neither lent nor put back on the shelf.
RetiredIsPutAway == \A a \in retired : status[a] = "unavailable"

\* An account that cannot sign in holds nothing, so no item is out to somebody
\* who can no longer bring it back (SetUserArchived, DeleteUser).
ClosedAccountsHoldNothing == \A p \in People : account[p] # "active" => Holding(p) = {}

\* A student's return that nothing shows came back carries its mark whatever
\* happens to the row afterwards (reviewReasonsFor, AnnotateCustodyEvent).
UnscannedReturnsAreMarked ==
    \A e \in Given :
        custody[e].outcome = "returned" /\ custody[e].inBy \notin Admins /\ custody[e].via # "scan"
            => "not_scanned" \in custody[e].reasons

\* Every request is answered: carts that share units lock them in one order, so
\* no two requests wait on each other.
EveryRequestEnds == \A r \in Requests : job[r].pc # "idle" ~> job[r].pc = "idle"

\* "Retired item... unavailable, hidden from browse, out of its kit"
\* (CONTEXT.md).
RetiredIsInNoKit == \A a \in retired : kitOf[a] = None

-----------------------------------------------------------------------------
(* Why they hold: what a request read under its row locks is still so when  *)
(* it writes.  Inductive is the invariant the proofs are by.                *)

Stages(op) ==
    CASE op = "none" -> {"idle"}
      [] op = "checkout" -> {"share", "overdue", "cart", "lock"}
      [] op = "scan" -> {"look", "ask", "held", "unit", "read", "write"}
      [] op = "checkin" -> {"next", "unit", "read", "write"}
      [] op \in StockOps -> {"unit", "read", "write"}
      [] op \in {"archive", "unarchive"} -> {"profile", "read", "write"}
      [] op \in {"delete_user", "add_to_kit"} -> {"look", "write"}

WellFormed(j) ==
    /\ j.pc \in Stages(j.op)
    /\ j.op # "none" => j.actor \in People
    /\ j.op \in {"checkout", "archive", "unarchive", "delete_user"} => j.who \in People
    /\ j.op \in Returns \cup StockOps \cup {"add_to_kit"} /\ j.pc # "next" => j.asset \in Assets
    /\ j.op = "add_to_kit" => j.kit \in Kits
    /\ j.via = "kit" => j.op = "checkin"

CartSecured(r) ==
    LET j == job[r] IN
    /\ j.op = "checkout" /\ j.pc \in {"overdue", "cart", "lock"} =>
          r \in shareLock[j.who] /\ account[j.who] = "active"
    /\ At(r, "checkout", "lock") =>
          /\ j.todo \subseteq j.cart
          /\ \A a \in j.cart \ j.todo : j.refused \/ (assetLock[a] = r /\ status[a] = "available")

UnitSecured(r) ==
    LET j == job[r] IN
    j.op \in Returns \cup StockOps =>
        /\ j.pc \in {"read", "write"} => assetLock[j.asset] = r /\ status[j.asset] # "absent"
        /\ j.pc = "write" => j.found = CurrentCustody(j.asset) /\ ~Nothing(j.op, j.asset, j.flag)

AccountSecured(r) ==
    LET j == job[r] IN
    j.op \in {"archive", "unarchive"} =>
        /\ j.pc \in {"read", "write"} => updateLock[j.who] = r
        /\ j.op = "archive" /\ j.pc = "write" => Holding(j.who) = {}

LocksExclude == \A p \in People : updateLock[p] = None \/ shareLock[p] = {}

\* No handler commits on what another has changed since it read it: its cart
\* is on the shelf, its unit is as it was, its account holds nothing.
LocksSecureReads ==
    /\ LocksExclude
    /\ \A r \in Requests : CartSecured(r) /\ UnitSecured(r) /\ AccountSecured(r)

Inductive ==
    /\ TypeOK
    /\ \A r \in Requests : WellFormed(job[r])
    /\ LocksSecureReads
    /\ OneOpenLoan
    /\ StatusTellsCustody
    /\ RetiredIsPutAway
    /\ ClosedAccountsHoldNothing

-----------------------------------------------------------------------------
(* The promise of Lending, kept.                                            *)

\* The loop keeps the closet's promise: each commit is one step of Lending.
Place(a) ==
    IF status[a] = "absent" THEN "gone"
    ELSE IF OpenOn(a) # {} THEN custody[CurrentCustody(a)].who
    ELSE IF status[a] = "available" THEN "shelf" ELSE "away"

Closet == INSTANCE Lending WITH
            place <- [a \in Assets |-> Place(a)],
            members <- {p \in People : account[p] = "active"}

LendsLikeACloset == Closet!LendingSpec
=============================================================================
