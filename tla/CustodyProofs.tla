--------------------------- MODULE CustodyProofs ---------------------------
(***************************************************************************)
(* Custody, proved for every set of units, people, requests and calls.     *)
(***************************************************************************)
EXTENDS Custody, TLAPS

-----------------------------------------------------------------------------
(* The job records.                                                         *)

\* A request becomes what it is told to, and no other request changes.
LEMMA BecomesJob ==
    ASSUME job \in [Requests -> Job], NEW r \in Requests, NEW j \in Job, Becomes(r, j)
    PROVE  /\ job' \in [Requests -> Job]
           /\ job'[r] = j
           /\ \A q \in Requests \ {r} : job'[q] = job[q]
  BY DEF Becomes

\* A request with nothing to do is a well-formed job.
LEMMA IdleJob == Idle \in Job /\ WellFormed(Idle)
  BY DEF Idle, Job, Stage, Ops, Via, WellFormed, Stages, Returns, StockOps

\* What a finished request turns into.
Finished(j) == IF j.via = "kit" /\ j.todo # {}
               THEN [j EXCEPT !.pc = "next", !.found = None]
               ELSE Idle

\* Finishing leaves a well-formed job: an answered request, or a kit return at its next unit.
LEMMA FinishedJob ==
    ASSUME NEW j \in Job, WellFormed(j)
    PROVE  /\ Finished(j) \in Job
           /\ WellFormed(Finished(j))
           /\ Finished(j).pc \in {"idle", "next"}
  <1>1. CASE ~(j.via = "kit" /\ j.todo # {})
    BY <1>1, IdleJob DEF Finished, Idle
  <1>2. CASE j.via = "kit" /\ j.todo # {}
    <2> DEFINE k == [j EXCEPT !.pc = "next", !.found = None]
    <2>1. k \in Job
      BY DEF Job, Stage
    <2>2. k.pc = "next" /\ k.op = j.op /\ k.actor = j.actor /\ k.via = j.via
      BY DEF Job, Stage
    <2> HIDE DEF k
    <2>3. j.op = "checkin"
      BY <1>2 DEF WellFormed
    <2>4. j.actor \in People
      BY <2>3 DEF WellFormed
    <2>5. WellFormed(k)
      BY <2>2, <2>3, <2>4 DEF WellFormed, Stages, StockOps
    <2>6. QED
      BY <1>2, <2>1, <2>2, <2>5 DEF Finished, k
  <1>3. QED
    BY <1>1, <1>2

-----------------------------------------------------------------------------
(* What one request may do while another holds locks.                       *)

LocksTyped ==
    /\ assetLock \in [Assets -> Requests \cup {None}]
    /\ shareLock \in [People -> SUBSET Requests]
    /\ updateLock \in [People -> Requests \cup {None}]

TablesTyped ==
    /\ status \in [Assets -> Status]
    /\ retired \in SUBSET Assets
    /\ kitOf \in [Assets -> Kits \cup {None}]
    /\ account \in [People -> {"active", "archived", "deleted"}]
    /\ custody \in [Events -> Row \cup {None}]

Data == OneOpenLoan /\ StatusTellsCustody /\ RetiredIsPutAway /\ ClosedAccountsHoldNothing

Secured(r) == CartSecured(r) /\ UnitSecured(r) /\ AccountSecured(r)

SameUnit(a) ==
    /\ status'[a] = status[a]
    /\ a \in retired' <=> a \in retired
    /\ OpenOn(a)' = OpenOn(a)
    /\ EverOut(a)' <=> EverOut(a)

\* A step takes no lock away from q ...
KeepsLocksOf(q) ==
    /\ \A a \in Assets : assetLock[a] = q => assetLock'[a] = q
    /\ \A p \in People : q \in shareLock[p] => q \in shareLock'[p]
    /\ \A p \in People : updateLock[p] = q => updateLock'[p] = q

\* ... and writes nothing that q has locked.
RespectsLocksOf(q) ==
    /\ \A a \in Assets : assetLock[a] = q => SameUnit(a)
    /\ \A p \in People : q \in shareLock[p] => account'[p] = account[p]
    /\ \A p \in People : updateLock[p] = q /\ Holding(p) = {} => Holding(p)' = {}

KeepsLocks(r) == \A q \in Requests \ {r} : KeepsLocksOf(q)
RespectsLocks(r) == \A q \in Requests \ {r} : RespectsLocksOf(q)

\* The invariant, taken apart into tables, locks, jobs and what the jobs rely on.
LEMMA InductiveParts ==
    Inductive <=> /\ TablesTyped /\ LocksTyped /\ job \in [Requests -> Job]
                  /\ \A q \in Requests : WellFormed(job[q])
                  /\ LocksExclude /\ \A q \in Requests : Secured(q)
                  /\ Data
  BY DEF Inductive, TypeOK, TablesTyped, LocksTyped, LocksSecureReads, Secured, Data

\* A cart stays secured when its row locks and what they protect stay as they are.
LEMMA CartSecuredKept ==
    ASSUME NEW q \in Requests, job \in [Requests -> Job],
           WellFormed(job[q]), CartSecured(q), job'[q] = job[q],
           KeepsLocksOf(q), RespectsLocksOf(q)
    PROVE  CartSecured(q)'
  <1>1. job[q] \in Job
    OBVIOUS
  <1>2. job[q].cart \subseteq Assets /\ (job[q].op = "checkout" => job[q].who \in People)
    BY <1>1 DEF Job, WellFormed
  <1>3. QED
    BY <1>2 DEF CartSecured, KeepsLocksOf, RespectsLocksOf, SameUnit, At

\* A unit at work stays secured while its row's lock and facts stay as they are.
LEMMA UnitSecuredKept ==
    ASSUME NEW q \in Requests, job \in [Requests -> Job],
           WellFormed(job[q]), UnitSecured(q), job'[q] = job[q],
           KeepsLocksOf(q), RespectsLocksOf(q)
    PROVE  UnitSecured(q)'
  <1> DEFINE a == job[q].asset
  <1> SUFFICES ASSUME job[q].op \in Returns \cup StockOps, job[q].pc \in {"read", "write"}
               PROVE  /\ assetLock'[a] = q /\ status'[a] # "absent"
                      /\ job[q].pc = "write" =>
                            job[q].found = CurrentCustody(a)' /\ ~Nothing(job[q].op, a, job[q].flag)'
    BY DEF UnitSecured
  <1>1. a \in Assets
    BY DEF WellFormed
  <1>2. assetLock[a] = q /\ status[a] # "absent"
    BY DEF UnitSecured
  <1>3. assetLock'[a] = q /\ SameUnit(a)
    BY <1>1, <1>2 DEF KeepsLocksOf, RespectsLocksOf
  <1>4. CurrentCustody(a)' = CurrentCustody(a)
    BY <1>3 DEF SameUnit, CurrentCustody
  <1>5. Nothing(job[q].op, a, job[q].flag)' <=> Nothing(job[q].op, a, job[q].flag)
    BY <1>3 DEF SameUnit, Nothing
  <1>6. QED
    BY <1>2, <1>3, <1>4, <1>5 DEF SameUnit, UnitSecured

\* An account being archived stays secured while its lock and holdings do.
LEMMA AccountSecuredKept ==
    ASSUME NEW q \in Requests, job \in [Requests -> Job],
           WellFormed(job[q]), AccountSecured(q), job'[q] = job[q],
           KeepsLocksOf(q), RespectsLocksOf(q)
    PROVE  AccountSecured(q)'
  BY DEF WellFormed, AccountSecured, KeepsLocksOf, RespectsLocksOf

\* A step that keeps the types, respects what others have locked and secures
\* its own request keeps the invariant.
LEMMA StepKeeps ==
    ASSUME Inductive, NEW r \in Requests, NEW j \in Job, WellFormed(j), Becomes(r, j),
           TablesTyped', LocksTyped', LocksExclude', KeepsLocks(r), RespectsLocks(r),
           Secured(r)', Data'
    PROVE  Inductive'
  <1>1. job \in [Requests -> Job] /\ \A q \in Requests : WellFormed(job[q]) /\ Secured(q)
    BY InductiveParts
  <1>2. /\ job' \in [Requests -> Job] /\ job'[r] = j
        /\ \A q \in Requests \ {r} : job'[q] = job[q]
    BY <1>1, BecomesJob
  <1>3. \A q \in Requests : WellFormed(job'[q])
    BY <1>1, <1>2
  <1>4. \A q \in Requests \ {r} : Secured(q)'
    BY <1>1, <1>2, CartSecuredKept, UnitSecuredKept, AccountSecuredKept
       DEF Secured, KeepsLocks, RespectsLocks
  <1>5. QED
    BY <1>2, <1>3, <1>4
       DEF Inductive, TypeOK, TablesTyped, LocksTyped, LocksSecureReads, Secured, Data

\* Nothing is claimed of a request that is only about to lock something.
Early == {"idle", "next", "share", "look", "ask", "held", "unit", "profile"}

\* A request before its first lock relies on nothing.
LEMMA AtRest ==
    ASSUME NEW r \in Requests, job'[r].pc \in Early
    PROVE  Secured(r)'
  BY DEF Early, Secured, CartSecured, UnitSecured, AccountSecured, At

\* A step that writes no table respects every lock.
LEMMA SameTables ==
    ASSUME Inductive, NEW r \in Requests, UNCHANGED tables
    PROVE  TablesTyped' /\ RespectsLocks(r) /\ Data'
  <1>1. TablesTyped' /\ Data'
    BY InductiveParts
       DEF tables, TablesTyped, Data, OneOpenLoan, StatusTellsCustody, RetiredIsPutAway,
           ClosedAccountsHoldNothing, IsOpen, Given, Free, OpenOn, Holding
  <1>2. \A a \in Assets : SameUnit(a)
    BY DEF tables, SameUnit, OpenOn, EverOut, Given, Free
  <1>3. \A p \in People : Holding(p)' = Holding(p) /\ account'[p] = account[p]
    BY DEF tables, Holding, Given, Free
  <1>4. QED
    BY <1>1, <1>2, <1>3 DEF RespectsLocks, RespectsLocksOf

\* A step that takes and drops no lock keeps everybody's.
LEMMA SameLocks ==
    ASSUME Inductive, NEW r \in Requests, UNCHANGED locks
    PROVE  LocksTyped' /\ LocksExclude' /\ KeepsLocks(r)
  BY InductiveParts DEF locks, LocksTyped, LocksExclude, KeepsLocks, KeepsLocksOf

\* Ending a transaction drops its own locks and nobody else's.
LEMMA ReleaseKeeps ==
    ASSUME Inductive, NEW r \in Requests, Release(r)
    PROVE  LocksTyped' /\ LocksExclude' /\ KeepsLocks(r)
  <1>1. LocksTyped /\ LocksExclude
    BY InductiveParts
  <1>2. LocksTyped'
    BY <1>1 DEF LocksTyped, Release
  <1>3. LocksExclude' /\ KeepsLocks(r)
    BY <1>1, <1>2 DEF LocksTyped, LocksExclude, KeepsLocks, KeepsLocksOf, Release
  <1>4. QED
    BY <1>2, <1>3

\* Answering the client leaves a well-formed request that relies on nothing.
LEMMA FinishKeeps ==
    ASSUME Inductive, NEW r \in Requests, Finish(r)
    PROVE  \E j \in Job : WellFormed(j) /\ Becomes(r, j) /\ Secured(r)'
  <1>1. job \in [Requests -> Job] /\ WellFormed(job[r])
    BY InductiveParts
  <1>2. job[r] \in Job
    BY <1>1
  <1>3. Becomes(r, Finished(job[r]))
    BY DEF Finish, Finished
  <1>4. Finished(job[r]) \in Job /\ WellFormed(Finished(job[r])) /\ Finished(job[r]).pc \in Early
    BY <1>1, <1>2, FinishedJob DEF Early
  <1>5. Secured(r)'
    BY <1>1, <1>3, <1>4, BecomesJob, AtRest
  <1>6. QED
    BY <1>3, <1>4, <1>5

\* A step that reads and perhaps locks.
LEMMA ReadingStep ==
    ASSUME Inductive, NEW r \in Requests, NEW j \in Job, WellFormed(j), Becomes(r, j),
           UNCHANGED tables, LocksTyped', LocksExclude', KeepsLocks(r), Secured(r)'
    PROVE  Inductive'
  BY SameTables, StepKeeps

\* A step that neither writes nor locks, to a stage before the first lock.
LEMMA EarlyStep ==
    ASSUME Inductive, NEW r \in Requests, NEW j \in Job, WellFormed(j), Becomes(r, j),
           j.pc \in Early, UNCHANGED <<tables, locks>>
    PROVE  Inductive'
  <1>1. job'[r] = j
    BY InductiveParts, BecomesJob
  <1>2. Secured(r)'
    BY <1>1, AtRest
  <1>3. UNCHANGED tables /\ UNCHANGED locks
    OBVIOUS
  <1>4. QED
    BY <1>2, <1>3, SameLocks, ReadingStep

\* Ending a request that has locked nothing keeps the invariant.
LEMMA FinishStep ==
    ASSUME Inductive, NEW r \in Requests, Finish(r), UNCHANGED <<tables, locks>>
    PROVE  Inductive'
  <1>1. UNCHANGED tables /\ UNCHANGED locks
    OBVIOUS
  <1>2. QED
    BY <1>1, SameLocks, FinishKeeps, ReadingStep

\* Rolling back keeps the invariant.
LEMMA RefuseStep ==
    ASSUME Inductive, NEW r \in Requests, Refuse(r)
    PROVE  Inductive'
  BY FinishKeeps, ReleaseKeeps, ReadingStep DEF Refuse

\* A client that hangs up between two statements keeps the invariant.
LEMMA AbandonStep ==
    ASSUME Inductive, NEW r \in Requests, Abandon(r)
    PROVE  Inductive'
  <1>1. Becomes(r, Idle) /\ Release(r) /\ UNCHANGED tables
    BY DEF Abandon
  <1>2. job'[r] = Idle
    BY <1>1, InductiveParts, IdleJob, BecomesJob
  <1>3. Secured(r)'
    BY <1>2, AtRest DEF Idle, Early
  <1>4. QED
    BY <1>1, <1>3, IdleJob, ReleaseKeeps, ReadingStep

\* A commit is its writes and the end of the transaction.
LEMMA CommitStep ==
    ASSUME Inductive, NEW r \in Requests, Release(r), Finish(r),
           TablesTyped', RespectsLocks(r), Data'
    PROVE  Inductive'
  BY FinishKeeps, ReleaseKeeps, StepKeeps

-----------------------------------------------------------------------------
(* The steps that only read or lock.                                        *)

\* The stages of each operation, spelled out.
LEMMA StagesOf ==
    /\ Stages("none") = {"idle"}
    /\ Stages("checkout") = {"share", "overdue", "cart", "lock"}
    /\ Stages("scan") = {"look", "ask", "held", "unit", "read", "write"}
    /\ Stages("checkin") = {"next", "unit", "read", "write"}
    /\ \A op \in StockOps : Stages(op) = {"unit", "read", "write"}
    /\ \A op \in {"archive", "unarchive"} : Stages(op) = {"profile", "read", "write"}
    /\ \A op \in {"delete_user", "add_to_kit"} : Stages(op) = {"look", "write"}
  BY DEF Stages, StockOps

\* Moving to another stage of the same operation leaves a well-formed job.
LEMMA GoJob ==
    ASSUME Inductive, NEW r \in Requests, NEW pc \in Stages(job[r].op), Go(r, pc),
           job[r].pc \notin {"idle", "next"}
    PROVE  \E j \in Job :
              /\ WellFormed(j) /\ Becomes(r, j) /\ job'[r] = j
              /\ j.pc = pc /\ j.op = job[r].op /\ j.actor = job[r].actor /\ j.who = job[r].who
              /\ j.cart = job[r].cart /\ j.asset = job[r].asset /\ j.flag = job[r].flag
              /\ j.found = job[r].found
  <1> DEFINE j == [job[r] EXCEPT !.pc = pc]
  <1>1. job[r] \in Job /\ WellFormed(job[r])
    BY InductiveParts
  <1>2. job[r].op \in Ops /\ job[r].op # "none"
    BY <1>1, StagesOf DEF Job, WellFormed
  <1>3. pc \in Stage
    BY <1>2, StagesOf DEF Ops, StockOps, Stage
  <1>4. j \in Job
    BY <1>1, <1>3 DEF Job
  <1>5. /\ j.pc = pc /\ j.op = job[r].op /\ j.actor = job[r].actor /\ j.who = job[r].who
        /\ j.cart = job[r].cart /\ j.asset = job[r].asset /\ j.flag = job[r].flag
        /\ j.found = job[r].found /\ j.kit = job[r].kit /\ j.via = job[r].via
    BY <1>1 DEF Job
  <1>6. Becomes(r, j)
    BY DEF Go
  <1> HIDE DEF j
  <1>7. WellFormed(j)
    BY <1>1, <1>5 DEF WellFormed
  <1>8. job'[r] = j
    BY <1>4, <1>6, InductiveParts, BecomesJob
  <1>9. QED
    BY <1>4, <1>5, <1>6, <1>7, <1>8

\* Reading the custodian's account under a share lock keeps the invariant: an
\* archive cannot hold the row.
LEMMA ShareCustodianStep ==
    ASSUME Inductive, NEW r \in Requests, ShareCustodian(r)
    PROVE  Inductive'
  <1> DEFINE p == job[r].who
  <1>1. p \in People /\ At(r, "checkout", "share") /\ updateLock[p] = None
    BY InductiveParts DEF ShareCustodian, At, WellFormed
  <1>2. CASE Refuse(r)
    BY <1>2, RefuseStep
  <1>3. CASE /\ account[p] = "active"
             /\ shareLock' = [shareLock EXCEPT ![p] = @ \cup {r}]
             /\ Go(r, "overdue")
             /\ UNCHANGED <<tables, assetLock, updateLock>>
    <2>1. LocksTyped' /\ LocksExclude' /\ KeepsLocks(r)
      BY <1>1, <1>3, InductiveParts DEF LocksTyped, LocksExclude, KeepsLocks, KeepsLocksOf
    <2>2. PICK j \in Job : /\ WellFormed(j) /\ Becomes(r, j) /\ job'[r] = j
                           /\ j.pc = "overdue" /\ j.op = "checkout" /\ j.who = p
      BY <1>1, <1>3, GoJob, StagesOf DEF At
    <2>3. Secured(r)'
      BY <1>1, <1>3, <2>2, InductiveParts
         DEF Secured, CartSecured, UnitSecured, AccountSecured, At, tables, LocksTyped, Returns, StockOps
    <2>4. UNCHANGED tables
      BY <1>3
    <2>5. QED
      BY <2>1, <2>2, <2>3, <2>4, ReadingStep
  <1>4. QED
    BY <1>2, <1>3 DEF ShareCustodian

\* The overdue check locks and writes nothing.
LEMMA CheckOverdueStep ==
    ASSUME Inductive, NEW r \in Requests, CheckOverdue(r)
    PROVE  Inductive'
  <1>1. CASE Refuse(r)
    BY <1>1, RefuseStep
  <1>2. CASE Go(r, "cart") /\ UNCHANGED tables /\ UNCHANGED locks
    <2>1. At(r, "checkout", "overdue") /\ CartSecured(r)
      BY InductiveParts DEF CheckOverdue, Secured
    <2>2. PICK j \in Job : /\ WellFormed(j) /\ Becomes(r, j) /\ job'[r] = j
                           /\ j.pc = "cart" /\ j.op = "checkout" /\ j.who = job[r].who
      BY <1>2, <2>1, GoJob, StagesOf DEF At
    <2>3. Secured(r)'
      BY <1>2, <2>1, <2>2
         DEF Secured, CartSecured, UnitSecured, AccountSecured, At, tables, locks, Returns, StockOps
    <2>4. QED
      BY <1>2, <2>2, <2>3, SameLocks, ReadingStep
  <1>3. QED
    BY <1>1, <1>2 DEF CheckOverdue, At

\* The cart's statement begins with its snapshot and no unit locked yet.
LEMMA BeginCartStep ==
    ASSUME Inductive, NEW r \in Requests, BeginCart(r)
    PROVE  Inductive'
  <1> DEFINE j == [job[r] EXCEPT !.pc = "lock", !.todo = job[r].cart,
                                 !.seen = {a \in job[r].cart : OpenOn(a) # {}}]
  <1>1. job[r] \in Job /\ WellFormed(job[r]) /\ CartSecured(r) /\ At(r, "checkout", "cart")
    BY InductiveParts DEF BeginCart, Secured
  <1>2. job[r].cart \in SUBSET Assets
    BY <1>1 DEF Job
  <1>3. {a \in job[r].cart : OpenOn(a) # {}} \in SUBSET Assets
    BY <1>2
  <1>4. j \in Job
    BY <1>1, <1>2, <1>3 DEF Job, Stage
  <1>5. /\ j.pc = "lock" /\ j.op = job[r].op /\ j.actor = job[r].actor /\ j.who = job[r].who
        /\ j.cart = job[r].cart /\ j.todo = job[r].cart /\ j.via = job[r].via
    BY <1>1 DEF Job
  <1>6. Becomes(r, j) /\ UNCHANGED tables /\ UNCHANGED locks
    BY DEF BeginCart
  <1> HIDE DEF j
  <1>7. WellFormed(j)
    BY <1>1, <1>5 DEF At, WellFormed, Stages, Returns, StockOps
  <1>8. job'[r] = j
    BY <1>4, <1>6, InductiveParts, BecomesJob
  <1>9. Secured(r)'
    BY <1>1, <1>5, <1>6, <1>8
       DEF Secured, CartSecured, UnitSecured, AccountSecured, At, tables, locks, Returns, StockOps
  <1>10. QED
    BY <1>4, <1>6, <1>7, <1>9, SameLocks, ReadingStep

\* A unit locked for the cart was available when locked, or the cart is refused.
LEMMA LockCartAssetStep ==
    ASSUME Inductive, NEW r \in Requests, LockCartAsset(r)
    PROVE  Inductive'
  <1>1. PICK a \in job[r].todo :
           /\ assetLock[a] = None
           /\ assetLock' = [assetLock EXCEPT ![a] = IF status[a] = "absent" THEN None ELSE r]
           /\ Becomes(r, [job[r] EXCEPT !.todo = @ \ {a},
                                        !.refused = @ \/ status[a] # "available" \/ a \in job[r].seen])
    BY DEF LockCartAsset
  <1> DEFINE refused == job[r].refused \/ status[a] # "available" \/ a \in job[r].seen
             j == [job[r] EXCEPT !.todo = job[r].todo \ {a}, !.refused = refused]
  <1>2. job[r] \in Job /\ WellFormed(job[r]) /\ CartSecured(r) /\ At(r, "checkout", "lock")
    BY InductiveParts DEF LockCartAsset, Secured
  <1>3. job[r].todo \in SUBSET Assets /\ job[r].cart \in SUBSET Assets /\ a \in Assets
    BY <1>2 DEF Job
  <1>4. j \in Job
    BY <1>2, <1>3, ZenonT(30) DEF Job
  <1>5. /\ j.pc = job[r].pc /\ j.op = job[r].op /\ j.actor = job[r].actor /\ j.who = job[r].who
        /\ j.cart = job[r].cart /\ j.todo = job[r].todo \ {a} /\ j.via = job[r].via
        /\ j.refused = refused
    BY <1>2 DEF Job
  <1>6. Becomes(r, j) /\ UNCHANGED tables /\ UNCHANGED <<shareLock, updateLock>>
    BY <1>1 DEF LockCartAsset
  <1> HIDE DEF j
  <1>7. WellFormed(j)
    BY <1>2, <1>5 DEF At, WellFormed, Returns, StockOps
  <1>8. job'[r] = j
    BY <1>4, <1>6, InductiveParts, BecomesJob
  <1>9. LocksTyped' /\ LocksExclude' /\ KeepsLocks(r)
    BY <1>1, <1>3, <1>6, InductiveParts, ConstantsFit DEF LocksTyped, LocksExclude, KeepsLocks, KeepsLocksOf
  <1>10. \A b \in j.cart \ j.todo : j.refused \/ (assetLock'[b] = r /\ status'[b] = "available")
    <2> SUFFICES ASSUME NEW b \in j.cart \ j.todo, ~j.refused
                 PROVE  assetLock'[b] = r /\ status'[b] = "available"
      OBVIOUS
    <2>1. b \in Assets /\ assetLock \in [Assets -> Requests \cup {None}] /\ status' = status
      BY <1>3, <1>5, <1>6, InductiveParts DEF LocksTyped, tables
    <2>2. CASE b = a
      BY <1>1, <1>5, <2>1, <2>2
    <2>3. CASE b # a
      BY <1>1, <1>2, <1>5, <2>1, <2>3 DEF CartSecured
    <2>4. QED
      BY <2>2, <2>3
  <1>11. Secured(r)'
    BY <1>2, <1>5, <1>6, <1>8, <1>10
       DEF Secured, CartSecured, UnitSecured, AccountSecured, At, tables, Returns, StockOps
  <1>12. QED
    BY <1>4, <1>6, <1>7, <1>9, <1>11, ReadingStep

\* A scan's reads lock and write nothing.
LEMMA ScanStep ==
    ASSUME Inductive, NEW r \in Requests, ScanLook(r) \/ ScanAsk(r) \/ ScanHeld(r)
    PROVE  Inductive'
  <1>1. /\ job[r].op = "scan" /\ job[r].pc \in {"look", "ask", "held"} /\ UNCHANGED <<tables, locks>>
        /\ Finish(r) \/ \E pc \in {"ask", "held", "unit"} : Go(r, pc)
    BY DEF ScanLook, ScanAsk, ScanHeld, At
  <1>2. CASE Finish(r)
    BY <1>1, <1>2, FinishStep
  <1>3. ASSUME NEW pc \in {"ask", "held", "unit"}, Go(r, pc) PROVE Inductive'
    <2>1. PICK j \in Job : WellFormed(j) /\ Becomes(r, j) /\ j.pc = pc
      BY <1>1, <1>3, GoJob, StagesOf
    <2>2. QED
      BY <1>1, <2>1, EarlyStep DEF Early
  <1>4. QED
    BY <1>1, <1>2, <1>3

\* A kit return goes on to a unit it has not locked yet.
LEMMA NextKitUnitStep ==
    ASSUME Inductive, NEW r \in Requests, NextKitUnit(r)
    PROVE  Inductive'
  <1>1. PICK a \in job[r].todo : Becomes(r, [job[r] EXCEPT !.pc = "unit", !.asset = a, !.todo = @ \ {a}])
    BY DEF NextKitUnit
  <1> DEFINE j == [job[r] EXCEPT !.pc = "unit", !.asset = a, !.todo = job[r].todo \ {a}]
  <1>2. job[r] \in Job /\ WellFormed(job[r]) /\ At(r, "checkin", "next")
    BY InductiveParts DEF NextKitUnit
  <1>3. job[r].todo \in SUBSET Assets /\ a \in Assets
    BY <1>2 DEF Job
  <1>4. j \in Job
    BY <1>2, <1>3 DEF Job, Stage
  <1>5. /\ j.pc = "unit" /\ j.op = job[r].op /\ j.actor = job[r].actor /\ j.who = job[r].who
        /\ j.asset = a /\ j.via = job[r].via
    BY <1>2 DEF Job
  <1>6. Becomes(r, j) /\ UNCHANGED <<tables, locks>>
    BY <1>1 DEF NextKitUnit
  <1> HIDE DEF j
  <1>7. WellFormed(j)
    BY <1>2, <1>3, <1>5, StagesOf DEF At, WellFormed
  <1>8. QED
    BY <1>4, <1>5, <1>6, <1>7, EarlyStep DEF Early

\* Only a return or a stock change is about to lock a unit.
LEMMA UnitStage ==
    ASSUME Inductive, NEW r \in Requests, job[r].pc = "unit"
    PROVE  /\ job[r].op \in Returns \cup StockOps
           /\ job[r].asset \in Assets
           /\ {"read", "write"} \subseteq Stages(job[r].op)
  <1>1. job[r] \in Job /\ WellFormed(job[r])
    BY InductiveParts
  <1>2. job[r].op \in Ops /\ job[r].pc \in Stages(job[r].op)
    BY <1>1 DEF Job, WellFormed
  <1>3. job[r].op \in Returns \cup StockOps
    BY <1>2, StagesOf DEF Ops, Returns, StockOps
  <1>4. QED
    BY <1>1, <1>3, StagesOf DEF WellFormed, Returns

\* Locking a unit's row keeps the invariant.
LEMMA LockUnitStep ==
    ASSUME Inductive, NEW r \in Requests, LockUnit(r)
    PROVE  Inductive'
  <1> DEFINE a == job[r].asset
  <1>1. CASE Refuse(r)
    BY <1>1, RefuseStep
  <1>2. CASE /\ status[a] # "absent" /\ assetLock[a] = None
             /\ assetLock' = [assetLock EXCEPT ![a] = r]
             /\ Go(r, "read")
             /\ UNCHANGED <<tables, shareLock, updateLock>>
    <2>1. job[r].pc = "unit" /\ a \in Assets /\ job[r].op \in Returns \cup StockOps
      BY UnitStage DEF LockUnit
    <2>2. PICK j \in Job : /\ WellFormed(j) /\ Becomes(r, j) /\ job'[r] = j
                           /\ j.pc = "read" /\ j.op = job[r].op /\ j.asset = a
      BY <1>2, <2>1, UnitStage, GoJob
    <2>3. LocksTyped' /\ LocksExclude' /\ KeepsLocks(r)
      BY <1>2, <2>1, InductiveParts, ConstantsFit DEF LocksTyped, LocksExclude, KeepsLocks, KeepsLocksOf
    <2>4. Secured(r)'
      BY <1>2, <2>1, <2>2, InductiveParts
         DEF Secured, CartSecured, UnitSecured, AccountSecured, At, tables, LocksTyped, Returns, StockOps
    <2>5. UNCHANGED tables
      BY <1>2
    <2>6. QED
      BY <2>2, <2>3, <2>4, <2>5, ReadingStep
  <1>3. QED
    BY <1>1, <1>2 DEF LockUnit

\* The open row currentCustody answers with is one of the unit's, if it has any.
LEMMA CurrentCustodyIsOpen ==
    ASSUME NEW a
    PROVE  /\ OpenOn(a) # {} => CurrentCustody(a) \in OpenOn(a)
           /\ OpenOn(a) = {} => CurrentCustody(a) = None
           /\ OpenOn(a) \subseteq Events
  BY DEF CurrentCustody, OpenOn, Given

\* What a handler reads under its unit's lock is what it will write by.
LEMMA ReadUnitStep ==
    ASSUME Inductive, NEW r \in Requests, ReadUnit(r)
    PROVE  Inductive'
  <1>1. /\ job[r] \in Job /\ WellFormed(job[r]) /\ UnitSecured(r)
        /\ job[r].op \in Returns \cup StockOps /\ job[r].pc = "read"
    BY InductiveParts DEF ReadUnit, Secured
  <1>2. PICK a \in Assets : a = job[r].asset
    BY <1>1 DEF WellFormed
  <1>3. CASE Refuse(r)
    BY <1>3, RefuseStep
  <1>4. CASE /\ ~Nothing(job[r].op, a, job[r].flag)
             /\ Becomes(r, [job[r] EXCEPT !.pc = "write", !.found = CurrentCustody(a)])
             /\ UNCHANGED tables /\ UNCHANGED locks
    <2> DEFINE jr == [job[r] EXCEPT !.pc = "write", !.found = CurrentCustody(a)]
    <2>1. CurrentCustody(a) \in Events \cup {None}
      BY CurrentCustodyIsOpen
    <2>2. jr \in Job
      BY <1>1, <2>1 DEF Job, Stage
    <2>3. PICK j \in Job : j = jr
      BY <2>2
    <2>4. /\ j.pc = "write" /\ j.op = job[r].op /\ j.actor = job[r].actor /\ j.who = job[r].who
          /\ j.asset = a /\ j.via = job[r].via /\ j.flag = job[r].flag
          /\ j.found = CurrentCustody(a)
      BY <1>1, <1>2, <2>3 DEF Job
    <2>5. WellFormed(j)
      BY <1>1, <2>4, StagesOf DEF WellFormed, Returns, StockOps
    <2>6. Becomes(r, j) /\ job'[r] = j
      BY <1>4, <2>3, InductiveParts, BecomesJob
    <2>7. UnitSecured(r)'
      <3>1. CurrentCustody(a)' = CurrentCustody(a)
        BY <1>4 DEF CurrentCustody, OpenOn, Given, Free, tables
      <3>2. Nothing(j.op, a, j.flag)' <=> Nothing(j.op, a, j.flag)
        BY <1>4 DEF Nothing, OpenOn, EverOut, Given, Free, tables
      <3>3. assetLock'[a] = r /\ status'[a] # "absent"
        BY <1>1, <1>2, <1>4 DEF UnitSecured, tables, locks
      <3>4. QED
        BY <1>4, <2>4, <2>6, <3>1, <3>2, <3>3 DEF UnitSecured
    <2>8. Secured(r)'
      BY <1>1, <2>4, <2>6, <2>7 DEF Secured, CartSecured, AccountSecured, At, Returns, StockOps
    <2>9. QED
      BY <1>4, <2>5, <2>6, <2>8, SameLocks, ReadingStep
  <1>5. QED
    BY <1>2, <1>3, <1>4 DEF ReadUnit

\* Locking an account for update excludes every checkout to it.
LEMMA LockProfileStep ==
    ASSUME Inductive, NEW r \in Requests, LockProfile(r)
    PROVE  Inductive'
  <1> DEFINE p == job[r].who
             pc == IF job[r].op = "archive" THEN "read" ELSE "write"
  <1>1. /\ p \in People /\ job[r].op \in {"archive", "unarchive"} /\ job[r].pc = "profile"
        /\ shareLock[p] = {} /\ updateLock[p] = None
    BY InductiveParts DEF LockProfile, WellFormed
  <1>2. CASE Refuse(r)
    BY <1>2, RefuseStep
  <1>3. CASE /\ updateLock' = [updateLock EXCEPT ![p] = r]
             /\ Go(r, pc)
             /\ UNCHANGED <<tables, assetLock, shareLock>>
    <2>1. LocksTyped' /\ LocksExclude' /\ KeepsLocks(r)
      BY <1>1, <1>3, InductiveParts, ConstantsFit DEF LocksTyped, LocksExclude, KeepsLocks, KeepsLocksOf
    <2>2. pc \in Stages(job[r].op) /\ job[r].pc \notin {"idle", "next"}
      BY <1>1, StagesOf
    <2>3. PICK j \in Job : /\ WellFormed(j) /\ Becomes(r, j) /\ job'[r] = j
                           /\ j.pc = pc /\ j.op = job[r].op /\ j.who = p
      BY <1>3, <2>2, GoJob
    <2>4. Secured(r)'
      BY <1>1, <1>3, <2>3, InductiveParts
         DEF Secured, CartSecured, UnitSecured, AccountSecured, At, tables, LocksTyped, Returns, StockOps
    <2>5. UNCHANGED tables
      BY <1>3
    <2>6. QED
      BY <2>1, <2>3, <2>4, <2>5, ReadingStep
  <1>4. QED
    BY <1>2, <1>3 DEF LockProfile

\* An archive goes on only for an account that holds nothing.
LEMMA ReadHoldingsStep ==
    ASSUME Inductive, NEW r \in Requests, ReadHoldings(r)
    PROVE  Inductive'
  <1>1. At(r, "archive", "read") /\ AccountSecured(r) /\ WellFormed(job[r])
    BY InductiveParts DEF ReadHoldings, Secured
  <1>2. PICK p \in People : p = job[r].who
    BY <1>1 DEF WellFormed, At
  <1>3. CASE Refuse(r)
    BY <1>3, RefuseStep
  <1>4. CASE Holding(p) = {} /\ Go(r, "write") /\ UNCHANGED tables /\ UNCHANGED locks
    <2>1. PICK j \in Job : /\ WellFormed(j) /\ Becomes(r, j) /\ job'[r] = j
                           /\ j.pc = "write" /\ j.op = "archive" /\ j.who = p
      BY <1>1, <1>2, <1>4, GoJob, StagesOf DEF At
    <2>2. Holding(p)' = {}
      BY <1>4 DEF Holding, Given, Free, tables
    <2>3. Secured(r)'
      BY <1>1, <1>2, <1>4, <2>1, <2>2
         DEF Secured, CartSecured, UnitSecured, AccountSecured, At, locks, Returns, StockOps
    <2>4. QED
      BY <1>4, <2>1, <2>3, SameLocks, ReadingStep
  <1>5. QED
    BY <1>2, <1>3, <1>4 DEF ReadHoldings

\* delete_user and add_to_kit claim nothing between their read and their write.
LEMMA UnlockedLookStep ==
    ASSUME Inductive, NEW r \in Requests, LookAtHoldings(r) \/ LookAtRetired(r)
    PROVE  Inductive'
  <1>1. /\ job[r].op \in {"delete_user", "add_to_kit"} /\ job[r].pc = "look"
        /\ UNCHANGED tables /\ UNCHANGED locks
        /\ Finish(r) \/ Go(r, "write")
    BY DEF LookAtHoldings, LookAtRetired, At
  <1>2. CASE Finish(r)
    BY <1>1, <1>2, FinishStep
  <1>3. CASE Go(r, "write")
    <2>1. PICK j \in Job : /\ WellFormed(j) /\ Becomes(r, j) /\ job'[r] = j
                           /\ j.op \in {"delete_user", "add_to_kit"}
      BY <1>1, <1>3, GoJob, StagesOf
    <2>2. Secured(r)'
      BY <2>1 DEF Secured, CartSecured, UnitSecured, AccountSecured, At, Returns, StockOps
    <2>3. QED
      BY <1>1, <2>1, <2>2, SameLocks, ReadingStep
  <1>4. QED
    BY <1>1, <1>2, <1>3

-----------------------------------------------------------------------------
(* New requests.                                                            *)

\* A request begins with nothing locked.
LEMMA BeginStep ==
    ASSUME Inductive, NEW r \in Requests, NEW op \in Ops, NEW actor \in People,
           NEW fields \in Job, NEW pc \in Stages(op) \cap Early,
           Begin(r, op, actor, fields, pc),
           op \in {"checkout", "archive", "unarchive", "delete_user"} => fields.who \in People,
           op \in Returns \cup StockOps \cup {"add_to_kit"} /\ pc # "next" => fields.asset \in Assets,
           op = "add_to_kit" => fields.kit \in Kits,
           fields.via = "kit" => op = "checkin"
    PROVE  Inductive'
  <1> DEFINE j == [fields EXCEPT !.pc = pc, !.op = op, !.actor = actor]
  <1>1. pc \in Stage
    BY DEF Early, Stage
  <1>2. j \in Job
    BY <1>1 DEF Job
  <1>3. /\ j.pc = pc /\ j.op = op /\ j.actor = actor /\ j.who = fields.who
        /\ j.asset = fields.asset /\ j.kit = fields.kit /\ j.via = fields.via
    BY DEF Job
  <1>4. Becomes(r, j) /\ UNCHANGED <<tables, locks>>
    BY DEF Begin
  <1> HIDE DEF j
  <1>5. WellFormed(j)
    BY <1>3 DEF WellFormed
  <1>6. QED
    BY <1>2, <1>3, <1>4, <1>5, EarlyStep

\* Every call a client can make keeps the invariant.
LEMMA CallStep ==
    ASSUME Inductive, NEW r \in Requests, Call(r)
    PROVE  Inductive'
  <1>1. CASE CheckOutAssets(r)
    <2>1. PICK actor \in People, who \in People, cart \in SUBSET Assets, override \in BOOLEAN :
             Begin(r, "checkout", actor, [Idle EXCEPT !.who = who, !.cart = cart, !.flag = override], "share")
      BY <1>1 DEF CheckOutAssets
    <2> DEFINE f == [Idle EXCEPT !.who = who, !.cart = cart, !.flag = override]
    <2>2. f \in Job /\ f.who = who /\ f.via = "button"
      BY IdleJob DEF Job, Idle
    <2> HIDE DEF f
    <2>3. "checkout" \in Ops /\ "share" \in Stages("checkout") \cap Early
      BY StagesOf DEF Ops, Early
    <2>4. Begin(r, "checkout", actor, f, "share")
      BY <2>1 DEF f
    <2>5. QED
      BY <2>2, <2>3, <2>4, BeginStep DEF Returns, StockOps
  <1>2. CASE ScanItemVia(r)
    <2>1. PICK actor \in People, a \in Assets, via \in {"scan", "typed"} :
             Begin(r, "scan", actor, [Idle EXCEPT !.asset = a, !.via = via], "look")
      BY <1>2 DEF ScanItemVia
    <2> DEFINE f == [Idle EXCEPT !.asset = a, !.via = via]
    <2>2. f \in Job /\ f.asset = a /\ f.via = via
      BY IdleJob DEF Job, Idle, Via
    <2> HIDE DEF f
    <2>3. "scan" \in Ops /\ "look" \in Stages("scan") \cap Early
      BY StagesOf DEF Ops, Early
    <2>4. Begin(r, "scan", actor, f, "look")
      BY <2>1 DEF f
    <2>5. QED
      BY <2>2, <2>3, <2>4, BeginStep DEF Returns, StockOps
  <1>3. CASE CheckInAssetVia(r)
    <2>1. PICK actor \in People, a \in Assets, note \in Notes, via \in {"button", "scan"} :
             Begin(r, "checkin", actor, [Idle EXCEPT !.asset = a, !.flag = note, !.via = via], "unit")
      BY <1>3 DEF CheckInAssetVia
    <2> DEFINE f == [Idle EXCEPT !.asset = a, !.flag = note, !.via = via]
    <2>2. f \in Job /\ f.asset = a /\ f.via = via
      BY IdleJob, ConstantsFit DEF Job, Idle, Via
    <2> HIDE DEF f
    <2>3. "checkin" \in Ops /\ "unit" \in Stages("checkin") \cap Early
      BY StagesOf DEF Ops, Early
    <2>4. Begin(r, "checkin", actor, f, "unit")
      BY <2>1 DEF f
    <2>5. QED
      BY <2>2, <2>3, <2>4, BeginStep DEF Returns, StockOps
  <1>4. CASE CheckInKit(r)
    <2>1. PICK actor \in People, out \in SUBSET Assets :
             Begin(r, "checkin", actor, [Idle EXCEPT !.via = "kit", !.todo = out], "next")
      BY <1>4 DEF CheckInKit
    <2> DEFINE f == [Idle EXCEPT !.via = "kit", !.todo = out]
    <2>2. f \in Job
      BY IdleJob DEF Job, Idle, Via
    <2> HIDE DEF f
    <2>3. "checkin" \in Ops /\ "next" \in Stages("checkin") \cap Early
      BY StagesOf DEF Ops, Early
    <2>4. Begin(r, "checkin", actor, f, "next")
      BY <2>1 DEF f
    <2>5. QED
      BY <2>2, <2>3, <2>4, BeginStep
  <1>5. CASE ChangeStock(r)
    <2>1. PICK op \in StockOps, actor \in People, a \in Assets, lost \in BOOLEAN :
             Begin(r, op, actor, [Idle EXCEPT !.asset = a, !.flag = lost], "unit")
      BY <1>5, ConstantsFit DEF ChangeStock
    <2> DEFINE f == [Idle EXCEPT !.asset = a, !.flag = lost]
    <2>2. f \in Job /\ f.asset = a /\ f.via = "button"
      BY IdleJob DEF Job, Idle
    <2> HIDE DEF f
    <2>3. op \in Ops /\ "unit" \in Stages(op) \cap Early
      BY StagesOf DEF Ops, Early, StockOps
    <2>4. Begin(r, op, actor, f, "unit")
      BY <2>1 DEF f
    <2>5. QED
      BY <2>2, <2>3, <2>4, BeginStep DEF StockOps
  <1>6. CASE SetUserArchived(r)
    <2>1. PICK op \in {"archive", "unarchive"}, actor \in People, who \in People :
             Begin(r, op, actor, [Idle EXCEPT !.who = who], "profile")
      BY <1>6, ConstantsFit DEF SetUserArchived
    <2> DEFINE f == [Idle EXCEPT !.who = who]
    <2>2. f \in Job /\ f.who = who /\ f.via = "button"
      BY IdleJob DEF Job, Idle
    <2> HIDE DEF f
    <2>3. op \in Ops /\ "profile" \in Stages(op) \cap Early
      BY StagesOf DEF Ops, Early
    <2>4. Begin(r, op, actor, f, "profile")
      BY <2>1 DEF f
    <2>5. QED
      BY <2>2, <2>3, <2>4, BeginStep DEF Returns, StockOps
  <1>7. CASE DeleteUser(r)
    <2>1. PICK actor \in People, who \in People :
             Begin(r, "delete_user", actor, [Idle EXCEPT !.who = who], "look")
      BY <1>7, ConstantsFit DEF DeleteUser
    <2> DEFINE f == [Idle EXCEPT !.who = who]
    <2>2. f \in Job /\ f.who = who /\ f.via = "button"
      BY IdleJob DEF Job, Idle
    <2> HIDE DEF f
    <2>3. "delete_user" \in Ops /\ "look" \in Stages("delete_user") \cap Early
      BY StagesOf DEF Ops, Early
    <2>4. Begin(r, "delete_user", actor, f, "look")
      BY <2>1 DEF f
    <2>5. QED
      BY <2>2, <2>3, <2>4, BeginStep DEF Returns, StockOps
  <1>8. CASE AddAssetToKit(r)
    <2>1. PICK actor \in People, a \in Assets, k \in Kits :
             Begin(r, "add_to_kit", actor, [Idle EXCEPT !.asset = a, !.kit = k], "look")
      BY <1>8, ConstantsFit DEF AddAssetToKit
    <2> DEFINE f == [Idle EXCEPT !.asset = a, !.kit = k]
    <2>2. f \in Job /\ f.asset = a /\ f.kit = k /\ f.via = "button"
      BY IdleJob DEF Job, Idle
    <2> HIDE DEF f
    <2>3. "add_to_kit" \in Ops /\ "look" \in Stages("add_to_kit") \cap Early
      BY StagesOf DEF Ops, Early
    <2>4. Begin(r, "add_to_kit", actor, f, "look")
      BY <2>1 DEF f
    <2>5. QED
      BY <2>2, <2>3, <2>4, BeginStep DEF Returns, StockOps
  <1>9. QED
    BY <1>1, <1>2, <1>3, <1>4, <1>5, <1>6, <1>7, <1>8 DEF Call

-----------------------------------------------------------------------------
(* Commits that leave custody alone.                                        *)

\* With the custody rows as they were, so is all that is read from them.
LEMMA SameCustody ==
    ASSUME UNCHANGED custody
    PROVE  /\ \A a \in Assets : OpenOn(a)' = OpenOn(a) /\ (EverOut(a)' <=> EverOut(a))
           /\ \A p \in People : Holding(p)' = Holding(p)
           /\ OneOpenLoan => OneOpenLoan'
  BY DEF OpenOn, EverOut, Holding, Given, Free, OneOpenLoan, IsOpen

\* A unit nobody has moves between the shelf, the cupboard and the bin, by
\* somebody who has it locked or with nobody having it locked.
LEMMA MoveUnit ==
    ASSUME Inductive, NEW r \in Requests, NEW a \in Assets, NEW s \in Status \ {"checked_out"},
           assetLock[a] \in {None, r}, OpenOn(a) = {},
           status' = [status EXCEPT ![a] = s],
           retired' \in {retired, retired \ {a}, retired \cup {a}},
           a \in retired' => s = "unavailable",
           kitOf' \in [Assets -> Kits \cup {None}],
           UNCHANGED <<account, custody>>
    PROVE  TablesTyped' /\ RespectsLocks(r) /\ Data'
  <1>1. TablesTyped /\ LocksTyped /\ Data
    BY InductiveParts
  <1>2. TablesTyped'
    BY <1>1 DEF TablesTyped
  <1>3. \A b \in Assets \ {a} : SameUnit(b)
    BY <1>1, SameCustody DEF TablesTyped, SameUnit
  <1>4. RespectsLocks(r)
    BY <1>3, SameCustody, ConstantsFit DEF RespectsLocks, RespectsLocksOf
  <1>5. StatusTellsCustody'
    BY <1>1, <1>2, SameCustody DEF TablesTyped, Data, StatusTellsCustody
  <1>6. RetiredIsPutAway'
    BY <1>1, <1>2 DEF TablesTyped, Data, RetiredIsPutAway
  <1>7. OneOpenLoan' /\ ClosedAccountsHoldNothing'
    BY <1>1, SameCustody DEF Data, ClosedAccountsHoldNothing
  <1>8. QED
    BY <1>2, <1>4, <1>5, <1>6, <1>7 DEF Data

\* What a stock handler knows when it writes.
LEMMA UnitAtWrite ==
    ASSUME Inductive, NEW r \in Requests, job[r].op \in Returns \cup StockOps, job[r].pc = "write"
    PROVE  /\ job[r].asset \in Assets /\ job[r].actor \in People
           /\ assetLock[job[r].asset] = r /\ status[job[r].asset] # "absent"
           /\ job[r].found = CurrentCustody(job[r].asset)
           /\ ~Nothing(job[r].op, job[r].asset, job[r].flag)
  BY InductiveParts DEF Secured, UnitSecured, WellFormed, Returns, StockOps

\* Bringing a retired unit back keeps the invariant.
LEMMA CommitUnretireStep ==
    ASSUME Inductive, NEW r \in Requests, CommitUnretire(r)
    PROVE  Inductive'
  <1>1. PICK a \in Assets : a = job[r].asset
    BY UnitAtWrite DEF CommitUnretire, At, StockOps
  <1>2. assetLock[a] = r /\ OpenOn(a) = {}
    BY <1>1, UnitAtWrite DEF CommitUnretire, At, StockOps, Nothing
  <1>3. TablesTyped' /\ RespectsLocks(r) /\ Data'
    BY <1>1, <1>2, MoveUnit, InductiveParts DEF CommitUnretire, SetStatus, Status, TablesTyped
  <1>4. QED
    BY <1>3, CommitStep DEF CommitUnretire

\* The available/unavailable toggle keeps the invariant.
LEMMA CommitStatusStep ==
    ASSUME Inductive, NEW r \in Requests, CommitStatus(r)
    PROVE  Inductive'
  <1>1. job[r].op \in {"available", "unavailable"} /\ job[r].op \in StockOps
    BY DEF CommitStatus, StockOps
  <1>2. PICK a \in Assets : a = job[r].asset
    BY <1>1, UnitAtWrite DEF CommitStatus
  <1>3. assetLock[a] = r /\ OpenOn(a) = {} /\ (job[r].op = "available" => a \notin retired)
    BY <1>1, <1>2, UnitAtWrite DEF CommitStatus, Nothing
  <1>4. TablesTyped' /\ RespectsLocks(r) /\ Data'
    BY <1>1, <1>2, <1>3, MoveUnit, InductiveParts DEF CommitStatus, SetStatus, Status, TablesTyped
  <1>5. QED
    BY <1>4, CommitStep DEF CommitStatus

\* Deleting a unit that never was out keeps the invariant.
LEMMA CommitDeleteStep ==
    ASSUME Inductive, NEW r \in Requests, CommitDelete(r)
    PROVE  Inductive'
  <1>1. PICK a \in Assets : a = job[r].asset
    BY UnitAtWrite DEF CommitDelete, At, StockOps
  <1>2. assetLock[a] = r /\ ~EverOut(a)
    BY <1>1, UnitAtWrite DEF CommitDelete, At, StockOps, Nothing
  <1>3. OpenOn(a) = {} /\ TablesTyped
    BY <1>2, InductiveParts DEF OpenOn, EverOut
  <1>4. custody' = custody
    BY <1>1, <1>2, <1>3 DEF CommitDelete, EverOut, TablesTyped
  <1>5. kitOf' \in [Assets -> Kits \cup {None}]
    BY <1>3 DEF CommitDelete, TablesTyped
  <1>6. TablesTyped' /\ RespectsLocks(r) /\ Data'
    BY <1>1, <1>2, <1>3, <1>4, <1>5, MoveUnit DEF CommitDelete, SetStatus, Status
  <1>7. QED
    BY <1>6, CommitStep DEF CommitDelete

\* An account nobody has locked, or only r, stops or starts being active.
LEMMA MoveAccount ==
    ASSUME Inductive, NEW r \in Requests, NEW p \in People,
           NEW s \in {"active", "archived", "deleted"},
           shareLock[p] = {}, s # "active" => Holding(p) = {},
           account' = [account EXCEPT ![p] = s],
           UNCHANGED <<status, retired, kitOf, custody>>
    PROVE  TablesTyped' /\ RespectsLocks(r) /\ Data'
  <1>1. TablesTyped /\ LocksTyped /\ Data
    BY InductiveParts
  <1>2. TablesTyped'
    BY <1>1 DEF TablesTyped
  <1>3. \A b \in Assets : SameUnit(b)
    BY SameCustody DEF SameUnit
  <1>4. RespectsLocks(r)
    BY <1>1, <1>3, SameCustody DEF RespectsLocks, RespectsLocksOf, TablesTyped
  <1>5. ClosedAccountsHoldNothing'
    BY <1>1, SameCustody DEF TablesTyped, Data, ClosedAccountsHoldNothing
  <1>6. OneOpenLoan' /\ StatusTellsCustody' /\ RetiredIsPutAway'
    BY <1>1, SameCustody DEF Data, StatusTellsCustody, RetiredIsPutAway
  <1>7. QED
    BY <1>2, <1>4, <1>5, <1>6 DEF Data

\* Archiving or restoring an account keeps the invariant.
LEMMA CommitArchiveStep ==
    ASSUME Inductive, NEW r \in Requests, CommitArchive(r)
    PROVE  Inductive'
  <1> DEFINE p == job[r].who
  <1>1. p \in People /\ updateLock[p] = r /\ (job[r].op = "archive" => Holding(p) = {})
    BY InductiveParts DEF CommitArchive, WellFormed, Secured, AccountSecured
  <1>2. shareLock[p] = {}
    BY <1>1, InductiveParts, ConstantsFit DEF LocksExclude
  <1>3. TablesTyped' /\ RespectsLocks(r) /\ Data'
    BY <1>1, <1>2, MoveAccount DEF CommitArchive
  <1>4. QED
    BY <1>3, CommitStep DEF CommitArchive

\* A write of a request that has locked nothing.
LEMMA UnlockedCommitStep ==
    ASSUME Inductive, NEW r \in Requests, Finish(r), UNCHANGED locks,
           TablesTyped', RespectsLocks(r), Data'
    PROVE  Inductive'
  BY FinishKeeps, SameLocks, StepKeeps

\* Deleting an account keeps the invariant: the foreign keys refuse one that
\* holds anything.
LEMMA DeleteProfileStep ==
    ASSUME Inductive, NEW r \in Requests, DeleteProfile(r)
    PROVE  Inductive'
  <1> DEFINE p == job[r].who
  <1>1. p \in People /\ shareLock[p] = {}
    BY InductiveParts DEF DeleteProfile, At, WellFormed
  <1>2. CASE Refuse(r)
    BY <1>2, RefuseStep
  <1>3. CASE /\ ~Referenced(p)
             /\ account' = [account EXCEPT ![p] = "deleted"]
             /\ Finish(r)
             /\ UNCHANGED <<status, retired, kitOf, custody>> /\ UNCHANGED locks
    <2>1. Holding(p) = {}
      BY <1>3 DEF Referenced, Holding
    <2>2. QED
      BY <1>1, <1>3, <2>1, MoveAccount, UnlockedCommitStep
  <1>4. QED
    BY <1>2, <1>3 DEF DeleteProfile

\* Kit membership is nothing the loans depend on.
LEMMA MoveKit ==
    ASSUME Inductive, NEW r \in Requests, kitOf' \in [Assets -> Kits \cup {None}],
           UNCHANGED <<status, retired, account, custody>>
    PROVE  TablesTyped' /\ RespectsLocks(r) /\ Data'
  <1>1. TablesTyped /\ Data
    BY InductiveParts
  <1>2. TablesTyped'
    BY <1>1 DEF TablesTyped
  <1>3. RespectsLocks(r)
    BY SameCustody DEF SameUnit, RespectsLocks, RespectsLocksOf
  <1>4. Data'
    BY <1>1, SameCustody
       DEF Data, StatusTellsCustody, RetiredIsPutAway, ClosedAccountsHoldNothing
  <1>5. QED
    BY <1>2, <1>3, <1>4

\* Putting a unit in a kit keeps the invariant.
LEMMA InsertKitItemStep ==
    ASSUME Inductive, NEW r \in Requests, InsertKitItem(r)
    PROVE  Inductive'
  <1>1. CASE Refuse(r)
    BY <1>1, RefuseStep
  <1>2. CASE /\ kitOf' = [kitOf EXCEPT ![job[r].asset] = job[r].kit]
             /\ Finish(r)
             /\ UNCHANGED <<status, retired, account, custody>> /\ UNCHANGED locks
    <2>1. job[r].kit \in Kits /\ kitOf \in [Assets -> Kits \cup {None}]
      BY InductiveParts DEF InsertKitItem, At, WellFormed, TablesTyped
    <2>2. kitOf' \in [Assets -> Kits \cup {None}]
      BY <1>2, <2>1
    <2>3. QED
      BY <1>2, <2>2, MoveKit, UnlockedCommitStep
  <1>3. QED
    BY <1>1, <1>2 DEF InsertKitItem

-----------------------------------------------------------------------------
(* Commits that close a loan.                                               *)

\* Closing the one open row of a unit that is out.
LEMMA CloseLoan ==
    ASSUME Inductive, NEW r \in Requests, NEW a \in Assets, NEW e0 \in OpenOn(a),
           NEW s \in {"available", "unavailable"}, assetLock[a] = r,
           NEW row \in Row, row.asset = custody[e0].asset, row.who = custody[e0].who,
           row.outcome # "open",
           custody' = [e \in Events |-> IF e = e0 THEN row ELSE custody[e]],
           status' = [status EXCEPT ![a] = s],
           retired' \in {retired, retired \cup {a}},
           retired' # retired => s = "unavailable",
           kitOf' \in [Assets -> Kits \cup {None}],
           UNCHANGED account
    PROVE  TablesTyped' /\ RespectsLocks(r) /\ Data'
  <1>1. TablesTyped /\ LocksTyped /\ Data
    BY InductiveParts
  <1>2. e0 \in Events /\ e0 \in Given /\ custody[e0].asset = a /\ custody[e0].outcome = "open"
    BY DEF OpenOn, Given
  <1>3. TablesTyped'
    BY <1>1 DEF TablesTyped, Status
  <1>4. \A e \in Events : custody'[e] = None <=> custody[e] = None
    BY <1>2, NoneIsNoRow DEF Given, Free
  <1>5. \A e \in Given : /\ custody'[e].asset = custody[e].asset /\ custody'[e].who = custody[e].who
                          /\ e # e0 => custody'[e] = custody[e]
    BY <1>2 DEF Given, Free
  <1>6. custody'[e0] = row
    BY <1>2
  <1>7. \A e \in OpenOn(a) : e = e0
    BY <1>1, <1>2 DEF OpenOn, Data, OneOpenLoan, IsOpen, Given, Free
  <1>8. OpenOn(a)' = {}
    <2>1. \A e \in OpenOn(a)' : FALSE
      BY <1>4, <1>5, <1>6, <1>7 DEF OpenOn, Given, Free
    <2>2. QED
      BY <2>1
  <1>9. \A b \in Assets \ {a} : OpenOn(b)' = OpenOn(b)
    <2> SUFFICES ASSUME NEW b \in Assets \ {a}, NEW e
                 PROVE  e \in OpenOn(b)' <=> e \in OpenOn(b)
      BY DEF OpenOn
    <2>1. QED
      BY <1>2, <1>4, <1>5, <1>6 DEF OpenOn, Given, Free
  <1>10. \A b \in Assets : EverOut(b)' <=> EverOut(b)
    BY <1>4, <1>5 DEF EverOut, Given, Free
  <1>11. \A p \in People : Holding(p)' \subseteq Holding(p)
    BY <1>4, <1>5, <1>6 DEF Holding, Given, Free
  <1>12. \A b \in Assets \ {a} : SameUnit(b)
    BY <1>1, <1>9, <1>10 DEF SameUnit, TablesTyped
  <1>13. RespectsLocks(r)
    BY <1>11, <1>12 DEF RespectsLocks, RespectsLocksOf
  <1>14. OneOpenLoan'
    <2>1. \A e \in Events : IsOpen(e)' => IsOpen(e) /\ custody'[e] = custody[e]
      BY <1>4, <1>5, <1>6 DEF IsOpen, Given, Free
    <2>2. QED
      BY <1>1, <1>4, <2>1 DEF Data, OneOpenLoan, Given, Free
  <1>15. StatusTellsCustody'
    BY <1>1, <1>8, <1>9 DEF TablesTyped, Data, StatusTellsCustody
  <1>16. RetiredIsPutAway'
    <2>1. a \notin retired
      BY <1>1 DEF Data, StatusTellsCustody, RetiredIsPutAway
    <2>2. QED
      BY <1>1, <2>1 DEF TablesTyped, Data, RetiredIsPutAway
  <1>17. ClosedAccountsHoldNothing'
    BY <1>1, <1>11 DEF Data, ClosedAccountsHoldNothing
  <1>18. QED
    BY <1>3, <1>13, <1>14, <1>15, <1>16, <1>17 DEF Data

\* Both ways of closing a loan keep its unit and custodian and make a row of
\* the right type.
LEMMA ReturnedRow ==
    ASSUME NEW row \in Row, NEW j \in Job, j.actor \in People
    PROVE  /\ Returned(row, j) \in Row /\ Lost(row, j) \in Row
           /\ Returned(row, j).asset = row.asset /\ Lost(row, j).asset = row.asset
           /\ Returned(row, j).who = row.who /\ Lost(row, j).who = row.who
           /\ Returned(row, j).outcome = "returned" /\ Lost(row, j).outcome = "lost"
  <1>1. ReviewReasonsFor(j.actor, j.flag, j.via) \in SUBSET Reasons
    BY DEF ReviewReasonsFor, Reasons
  <1>2. j.via \in Via
    BY DEF Job
  <1>3. Returned(row, j) \in Row
    BY <1>1, <1>2 DEF Returned, Row
  <1>4. Lost(row, j) \in Row
    BY DEF Lost, Row
  <1>5. Returned(row, j).asset = row.asset /\ Returned(row, j).who = row.who
        /\ Returned(row, j).outcome = "returned"
    BY DEF Returned, Row
  <1>6. Lost(row, j).asset = row.asset /\ Lost(row, j).who = row.who
        /\ Lost(row, j).outcome = "lost"
    BY DEF Lost, Row
  <1>7. QED
    BY <1>3, <1>4, <1>5, <1>6

\* Committing a return or a loss keeps the invariant.
LEMMA CommitReturnStep ==
    ASSUME Inductive, NEW r \in Requests, CommitReturn(r)
    PROVE  Inductive'
  <1> DEFINE j == job[r]
             e0 == j.found
  <1>1. CASE Refuse(r)
    BY <1>1, RefuseStep
  <1>2. ASSUME NEW row, NEW s \in {"available", "unavailable"},
               row \in {Returned(custody[e0], j), Lost(custody[e0], j)},
               custody' = [e \in Events |-> IF e = e0 THEN row ELSE custody[e]],
               SetStatus(j.asset, s), Release(r), Finish(r), UNCHANGED <<retired, kitOf, account>>
        PROVE  Inductive'
    <2>1. j.op \in Returns \cup StockOps /\ j.op \in Returns \cup {"lost"}
      BY DEF CommitReturn, Returns, StockOps
    <2>2. PICK a \in Assets : a = j.asset
      BY <2>1, UnitAtWrite DEF CommitReturn
    <2>3. assetLock[a] = r /\ OpenOn(a) # {} /\ e0 = CurrentCustody(a) /\ j.actor \in People
      BY <2>1, <2>2, UnitAtWrite DEF CommitReturn, Nothing
    <2>4. e0 \in OpenOn(a)
      BY <2>3, CurrentCustodyIsOpen
    <2>5. TablesTyped /\ j \in Job
      BY InductiveParts
    <2>6. custody[e0] \in Row
      BY <2>4, <2>5 DEF TablesTyped, OpenOn, Given, Free
    <2>7. row \in Row /\ row.asset = custody[e0].asset /\ row.who = custody[e0].who
          /\ row.outcome # "open"
      BY <1>2, <2>3, <2>5, <2>6, ReturnedRow
    <2>8. kitOf' \in [Assets -> Kits \cup {None}]
      BY <1>2, <2>5 DEF TablesTyped
    <2>9. TablesTyped' /\ RespectsLocks(r) /\ Data'
      BY <1>2, <2>2, <2>3, <2>4, <2>7, <2>8, CloseLoan, ZenonT(30) DEF SetStatus
    <2>10. QED
      BY <1>2, <2>9, CommitStep
  <1>3. CASE Close(r, Returned) /\ SetStatus(j.asset, "available")
             /\ Release(r) /\ Finish(r) /\ UNCHANGED <<retired, kitOf, account>>
    <2>1. custody' = [e \in Events |-> IF e = e0 THEN Returned(custody[e0], j) ELSE custody[e]]
      BY <1>3 DEF Close
    <2>2. QED
      BY <1>2, <1>3, <2>1
  <1>4. CASE Close(r, Lost) /\ SetStatus(j.asset, "unavailable")
             /\ Release(r) /\ Finish(r) /\ UNCHANGED <<retired, kitOf, account>>
    <2>1. custody' = [e \in Events |-> IF e = e0 THEN Lost(custody[e0], j) ELSE custody[e]]
      BY <1>4 DEF Close
    <2>2. QED
      BY <1>2, <1>4, <2>1
  <1>5. QED
    BY <1>1, <1>3, <1>4 DEF CommitReturn

\* Retiring a unit, closing its loan as lost if it is out, keeps the invariant.
LEMMA CommitRetireStep ==
    ASSUME Inductive, NEW r \in Requests, CommitRetire(r)
    PROVE  Inductive'
  <1> DEFINE j == job[r]
  <1>1. CASE Refuse(r)
    BY <1>1, RefuseStep
  <1>2. CASE /\ kitOf' = [kitOf EXCEPT ![j.asset] = None]
             /\ Close(r, Lost) /\ SetStatus(j.asset, "unavailable")
             /\ retired' = retired \cup {j.asset}
             /\ Release(r) /\ Finish(r) /\ UNCHANGED account
    <2>1. j.op = "retire" /\ j.op \in StockOps /\ j.pc = "write"
      BY DEF CommitRetire, At, StockOps
    <2>2. PICK a \in Assets : a = j.asset
      BY <2>1, UnitAtWrite
    <2>3. assetLock[a] = r /\ j.found = CurrentCustody(a) /\ j.actor \in People /\ a \notin retired
      BY <2>1, <2>2, UnitAtWrite DEF Nothing
    <2>4. TablesTyped /\ j \in Job
      BY InductiveParts
    <2>5. kitOf' \in [Assets -> Kits \cup {None}]
      BY <1>2, <2>4 DEF TablesTyped
    <2>6. CASE OpenOn(a) = {}
      <3>1. j.found = None
        BY <2>3, <2>6, CurrentCustodyIsOpen
      <3>2. custody' = [e \in Events |-> custody[e]]
        BY <1>2, <3>1, ConstantsFit DEF Close
      <3>3. custody' = custody
        BY <2>4, <3>2 DEF TablesTyped
      <3>4. TablesTyped' /\ RespectsLocks(r) /\ Data'
        BY <1>2, <2>2, <2>3, <2>5, <2>6, <3>3, MoveUnit DEF SetStatus, Status
      <3>5. QED
        BY <1>2, <3>4, CommitStep
    <2>7. CASE OpenOn(a) # {}
      <3> DEFINE e0 == j.found
      <3>1. e0 \in OpenOn(a)
        BY <2>3, <2>7, CurrentCustodyIsOpen
      <3>2. custody[e0] \in Row
        BY <2>4, <3>1 DEF TablesTyped, OpenOn, Given, Free
      <3>3. PICK row \in Row : row = Lost(custody[e0], j)
        BY <2>3, <2>4, <3>2, ReturnedRow
      <3>4. row.asset = custody[e0].asset /\ row.who = custody[e0].who /\ row.outcome # "open"
        BY <2>3, <2>4, <3>2, <3>3, ReturnedRow
      <3>5. custody' = [e \in Events |-> IF e = e0 THEN row ELSE custody[e]]
        BY <1>2, <3>3 DEF Close
      <3>6. TablesTyped' /\ RespectsLocks(r) /\ Data'
        <4>1. PICK e1 \in OpenOn(a) : e1 = e0
          BY <3>1
        <4>2. row.asset = custody[e1].asset /\ row.who = custody[e1].who
          BY <3>4, <4>1
        <4>3. custody' = [e \in Events |-> IF e = e1 THEN row ELSE custody[e]]
          BY <3>5, <4>1
        <4>4. /\ status' = [status EXCEPT ![a] = "unavailable"] /\ retired' = retired \cup {a}
              /\ UNCHANGED account
          BY <1>2, <2>2 DEF SetStatus
        <4>5. QED
          BY <2>3, <2>5, <3>4, <4>2, <4>3, <4>4, CloseLoan
      <3>7. QED
        BY <1>2, <3>6, CommitStep
    <2>8. QED
      BY <2>6, <2>7
  <1>3. QED
    BY <1>1, <1>2 DEF CommitRetire

-----------------------------------------------------------------------------
(* The commit that opens loans.                                             *)

\* A new loan is an open row for its unit and custodian.
LEMMA LoanRow ==
    ASSUME NEW a \in Assets, NEW who \in People, NEW by \in People
    PROVE  /\ Loan(a, who, by) \in Row
           /\ Loan(a, who, by).asset = a /\ Loan(a, who, by).who = who
           /\ Loan(a, who, by).outcome = "open"
  <1>1. Loan(a, who, by) \in Row
    BY DEF Loan, Row
  <1>2. QED
    BY <1>1 DEF Loan

\* Opening a loan for every unit of a locked cart keeps the tables' promises.
LEMMA OpenCart ==
    ASSUME Inductive, NEW r \in Requests, NEW C \in SUBSET Assets, NEW who \in People, NEW by \in People,
           \A a \in C : assetLock[a] = r /\ status[a] = "available",
           r \in shareLock[who], account[who] = "active",
           NEW id, id \in Injection(C, Free),
           custody' = [e \in Events |-> IF \E a \in C : id[a] = e
                                       THEN Loan(CHOOSE a \in C : id[a] = e, who, by)
                                       ELSE custody[e]],
           status' = [a \in Assets |-> IF a \in C THEN "checked_out" ELSE status[a]],
           UNCHANGED <<retired, kitOf, account>>
    PROVE  TablesTyped' /\ RespectsLocks(r) /\ Data'
  <1>1. TablesTyped /\ LocksTyped /\ Data /\ LocksExclude
    BY InductiveParts
  <1>2. /\ id \in [C -> Free]
        /\ \A a, b \in C : id[a] = id[b] => a = b
    BY DEF Injection, IsInjective
  <1>3. \A a \in C : /\ id[a] \in Events /\ custody[id[a]] = None
                     /\ custody'[id[a]] = Loan(a, who, by)
    <2> SUFFICES ASSUME NEW a \in C
                 PROVE  /\ id[a] \in Events /\ custody[id[a]] = None
                        /\ custody'[id[a]] = Loan(a, who, by)
      OBVIOUS
    <2>1. id[a] \in Events /\ custody[id[a]] = None
      BY <1>2 DEF Free
    <2>2. (CHOOSE b \in C : id[b] = id[a]) = a
      BY <1>2
    <2>3. QED
      BY <2>1, <2>2
  <1>4. \A e \in Events : custody'[e] = custody[e] \/ \E a \in C : e = id[a]
    OBVIOUS
  <1>5. \A e \in Events : custody[e] # None => custody'[e] = custody[e]
    BY <1>3, <1>4
  <1>6. TablesTyped'
    <2>1. \A e \in Events : custody'[e] \in Row \cup {None}
      BY <1>1, <1>3, <1>4, LoanRow DEF TablesTyped
    <2>2. QED
      BY <1>1, <2>1 DEF TablesTyped, Status
  <1>7. \A a \in C : custody'[id[a]] # None /\ custody'[id[a]].asset = a
                     /\ custody'[id[a]].who = who /\ custody'[id[a]].outcome = "open"
    BY <1>3, LoanRow, NoneIsNoRow
  <1>8. \A a \in C : OpenOn(a) = {}
    BY <1>1 DEF Data, StatusTellsCustody
  <1>9. \A a \in Assets \ C : OpenOn(a)' = OpenOn(a)
    <2> SUFFICES ASSUME NEW a \in Assets \ C, NEW e
                 PROVE  e \in OpenOn(a)' <=> e \in OpenOn(a)
      BY DEF OpenOn
    <2>1. QED
      BY <1>3, <1>4, <1>5, <1>7 DEF OpenOn, Given, Free
  <1>10. \A a \in Assets \ C : EverOut(a)' <=> EverOut(a)
    <2> SUFFICES ASSUME NEW a \in Assets \ C
                 PROVE  EverOut(a)' <=> EverOut(a)
      OBVIOUS
    <2>1. ASSUME NEW e \in Events, custody'[e] # None, custody'[e].asset = a
          PROVE  custody[e] # None /\ custody[e].asset = a
      BY <1>4, <1>7, <2>1
    <2>2. QED
      BY <1>5, <2>1 DEF EverOut, Given, Free
  <1>11. \A p \in People \ {who} : Holding(p)' = Holding(p)
    <2> SUFFICES ASSUME NEW p \in People \ {who}, NEW e
                 PROVE  e \in Holding(p)' <=> e \in Holding(p)
      BY DEF Holding
    <2>1. QED
      BY <1>3, <1>4, <1>5, <1>7 DEF Holding, Given, Free
  <1>12. \A a \in Assets \ C : SameUnit(a)
    BY <1>9, <1>10 DEF SameUnit
  <1>13. RespectsLocks(r)
    BY <1>1, <1>11, <1>12, ConstantsFit DEF RespectsLocks, RespectsLocksOf, LocksExclude
  <1>14. OneOpenLoan'
    <2> SUFFICES ASSUME NEW e \in Events, NEW f \in Events, IsOpen(e)', IsOpen(f)',
                        custody'[e].asset = custody'[f].asset
                 PROVE  e = f
      BY DEF OneOpenLoan, Given, Free
    <2>1. ASSUME NEW g \in Events, IsOpen(g)'
          PROVE  \/ IsOpen(g) /\ custody'[g] = custody[g] /\ custody[g].asset \notin C
                 \/ \E a \in C : g = id[a] /\ custody'[g].asset = a
      <3>1. CASE custody'[g] = custody[g]
        <4>1. IsOpen(g)
          BY <2>1, <3>1 DEF IsOpen
        <4>2. custody[g].asset \in C => g \in OpenOn(custody[g].asset)
          BY <4>1 DEF IsOpen, OpenOn, Given, Free
        <4>3. custody[g].asset \notin C
          BY <1>8, <4>2
        <4>4. IsOpen(g) /\ custody'[g] = custody[g] /\ custody[g].asset \notin C
          BY <3>1, <4>1, <4>3
        <4>5. QED
          BY <4>4, Zenon
      <3>2. CASE \E a \in C : g = id[a]
        <4>1. PICK a \in C : g = id[a]
          BY <3>2
        <4>2. custody'[g] = Loan(a, who, by)
          BY <1>7, <4>1
        <4>3. custody'[g].asset = a
          BY <4>2 DEF Loan
        <4>4. \E b \in C : g = id[b] /\ custody'[g].asset = b
          BY <4>1, <4>3
        <4>5. QED
          BY <4>4, Zenon
      <3>3. QED
        BY <1>4, <3>1, <3>2
    <2>2. QED
      BY <1>1, <2>1 DEF Data, OneOpenLoan, IsOpen, Given, Free
  <1>15. StatusTellsCustody'
    <2>1. \A a \in C : id[a] \in OpenOn(a)'
      BY <1>3, <1>7 DEF OpenOn, Given, Free
    <2>2. QED
      BY <1>1, <1>9, <2>1 DEF Data, StatusTellsCustody
  <1>16. RetiredIsPutAway'
    BY <1>1 DEF TablesTyped, Data, RetiredIsPutAway
  <1>17. ClosedAccountsHoldNothing'
    BY <1>1, <1>11 DEF Data, ClosedAccountsHoldNothing
  <1>18. QED
    BY <1>6, <1>13, <1>14, <1>15, <1>16, <1>17 DEF Data

\* Committing a cart keeps the invariant.
LEMMA CommitCartStep ==
    ASSUME Inductive, NEW r \in Requests, CommitCart(r)
    PROVE  Inductive'
  <1> DEFINE j == job[r]
  <1>1. CASE Refuse(r)
    BY <1>1, RefuseStep
  <1>2. CASE /\ ~j.refused
             /\ \E id \in Injection(j.cart, Free) :
                   custody' = [e \in Events |->
                                 IF \E a \in j.cart : id[a] = e
                                 THEN Loan(CHOOSE a \in j.cart : id[a] = e, j.who, j.actor)
                                 ELSE custody[e]]
             /\ status' = [a \in Assets |-> IF a \in j.cart THEN "checked_out" ELSE status[a]]
             /\ Release(r) /\ Finish(r)
             /\ UNCHANGED <<retired, kitOf, account>>
    <2>1. /\ j \in Job /\ WellFormed(j) /\ CartSecured(r)
          /\ j.op = "checkout" /\ j.pc = "lock" /\ j.todo = {}
      BY InductiveParts DEF CommitCart, At, Secured
    <2>2. j.cart \in SUBSET Assets /\ j.who \in People /\ j.actor \in People
      BY <2>1 DEF Job, WellFormed
    <2>3. /\ \A a \in j.cart : assetLock[a] = r /\ status[a] = "available"
          /\ r \in shareLock[j.who] /\ account[j.who] = "active"
      BY <1>2, <2>1 DEF CartSecured, At
    <2>4. PICK C \in SUBSET Assets, who \in People, by \in People :
             C = j.cart /\ who = j.who /\ by = j.actor
      BY <2>2
    <2>5. PICK id \in Injection(C, Free) :
             custody' = [e \in Events |-> IF \E a \in C : id[a] = e
                                         THEN Loan(CHOOSE a \in C : id[a] = e, who, by)
                                         ELSE custody[e]]
      BY <1>2, <2>4
    <2>6. /\ \A a \in C : assetLock[a] = r /\ status[a] = "available"
          /\ r \in shareLock[who] /\ account[who] = "active"
          /\ status' = [a \in Assets |-> IF a \in C THEN "checked_out" ELSE status[a]]
      BY <1>2, <2>3, <2>4
    <2>7. TablesTyped' /\ RespectsLocks(r) /\ Data'
      BY <1>2, <2>5, <2>6, OpenCart
    <2>8. QED
      BY <1>2, <2>7, CommitStep
  <1>3. QED
    BY <1>1, <1>2 DEF CommitCart

-----------------------------------------------------------------------------
(* Steps of no request.                                                     *)

\* A statement of no request keeps the invariant when it respects every lock.
LEMMA DirectKeeps ==
    ASSUME Inductive, UNCHANGED <<locks, job>>, TablesTyped', Data',
           \A q \in Requests : RespectsLocksOf(q)
    PROVE  Inductive'
  <1>1. \A q \in Requests : KeepsLocksOf(q)
    BY DEF KeepsLocksOf, locks
  <1>2. \A q \in Requests : Secured(q)'
    BY <1>1, InductiveParts, CartSecuredKept, UnitSecuredKept, AccountSecuredKept DEF Secured
  <1>3. LocksTyped' /\ LocksExclude' /\ job' \in [Requests -> Job]
        /\ \A q \in Requests : WellFormed(job'[q])
    BY InductiveParts DEF locks, LocksTyped, LocksExclude
  <1>4. QED
    BY <1>2, <1>3 DEF Inductive, TypeOK, TablesTyped, LocksTyped, LocksSecureReads, Secured, Data

\* A note, a review or the clock changes no loan.
LEMMA ChangeStep ==
    ASSUME Inductive, NEW e0 \in Events, custody[e0] # None, NEW row \in Row, Change(e0, row),
           row.asset = custody[e0].asset, row.who = custody[e0].who,
           row.outcome = custody[e0].outcome
    PROVE  Inductive'
  <1>1. TablesTyped /\ Data
    BY InductiveParts
  <1>2. custody' = [custody EXCEPT ![e0] = row] /\ UNCHANGED <<status, retired, kitOf, account, locks, job>>
    BY DEF Change
  <1>3. \A e \in Events :
           /\ custody'[e] = None <=> custody[e] = None
           /\ custody[e] # None => /\ custody'[e].asset = custody[e].asset
                                  /\ custody'[e].who = custody[e].who
                                  /\ custody'[e].outcome = custody[e].outcome
    BY <1>1, <1>2, NoneIsNoRow DEF TablesTyped
  <1>4. TablesTyped'
    BY <1>1, <1>2 DEF TablesTyped
  <1>5. \A a \in Assets : OpenOn(a)' = OpenOn(a)
    <2> SUFFICES ASSUME NEW a \in Assets, NEW e
                 PROVE  e \in OpenOn(a)' <=> e \in OpenOn(a)
      BY DEF OpenOn
    <2>1. QED
      BY <1>3 DEF OpenOn, Given, Free
  <1>6. \A a \in Assets : EverOut(a)' <=> EverOut(a)
    BY <1>3 DEF EverOut, Given, Free
  <1>7. \A p \in People : Holding(p)' = Holding(p)
    <2> SUFFICES ASSUME NEW p \in People, NEW e
                 PROVE  e \in Holding(p)' <=> e \in Holding(p)
      BY DEF Holding
    <2>1. QED
      BY <1>3 DEF Holding, Given, Free
  <1>8. OneOpenLoan'
    BY <1>1, <1>3 DEF Data, OneOpenLoan, IsOpen, Given, Free
  <1>9. Data'
    BY <1>1, <1>2, <1>5, <1>7, <1>8
       DEF Data, StatusTellsCustody, RetiredIsPutAway, ClosedAccountsHoldNothing
  <1>10. \A q \in Requests : RespectsLocksOf(q)
    BY <1>2, <1>5, <1>6, <1>7 DEF RespectsLocksOf, SameUnit
  <1>11. QED
    BY <1>2, <1>4, <1>9, <1>10, DirectKeeps

\* Single statements and the passing of time keep the invariant.
LEMMA DirectStep ==
    ASSUME Inductive, Direct
    PROVE  Inductive'
  <1>1. TablesTyped /\ LocksTyped /\ Data
    BY InductiveParts
  <1>2. ASSUME NEW a \in Assets, CreateAsset(a) PROVE Inductive'
    <2>1. status[a] = "absent" /\ status' = [status EXCEPT ![a] = "available"]
          /\ UNCHANGED <<retired, kitOf, account, custody>> /\ UNCHANGED <<locks, job>>
      BY <1>2 DEF CreateAsset, SetStatus
    <2>2. OpenOn(a) = {} /\ a \notin retired
      BY <1>1, <2>1 DEF Data, StatusTellsCustody, RetiredIsPutAway
    <2>3. TablesTyped'
      BY <1>1, <2>1 DEF TablesTyped, Status
    <2>4. Data'
      BY <1>1, <2>1, <2>2, SameCustody
         DEF TablesTyped, Data, StatusTellsCustody, RetiredIsPutAway, ClosedAccountsHoldNothing
    <2>5. \A b \in Assets \ {a} : SameUnit(b)
      BY <1>1, <2>1, SameCustody DEF TablesTyped, SameUnit
    <2>6. \A q \in Requests : Secured(q)'
      <3> SUFFICES ASSUME NEW q \in Requests PROVE Secured(q)'
        OBVIOUS
      <3>1. job[q] \in Job /\ WellFormed(job[q]) /\ Secured(q) /\ job' = job
        BY <2>1, InductiveParts
      <3>2. job[q].cart \subseteq Assets /\ UNCHANGED <<assetLock, shareLock, updateLock, account>>
        BY <2>1, <3>1 DEF Job, locks
      <3>3. CartSecured(q)'
        <4>1. \A b \in Assets : status[b] = "available" => status'[b] = "available"
          BY <1>1, <2>1 DEF TablesTyped
        <4>2. QED
          BY <3>1, <3>2, <4>1 DEF Secured, CartSecured, At
      <3>4. UnitSecured(q)'
        <4>1. CASE job[q].op \in Returns \cup StockOps /\ job[q].pc \in {"read", "write"}
          <5>1. PICK b \in Assets : b = job[q].asset
            BY <3>1, <4>1 DEF WellFormed
          <5>2. SameUnit(b) /\ status[b] # "absent"
            BY <2>1, <2>5, <3>1, <4>1, <5>1 DEF Secured, UnitSecured
          <5>3. CurrentCustody(b)' = CurrentCustody(b)
            BY <5>2 DEF SameUnit, CurrentCustody
          <5>4. PICK k \in Job : k = job[q]
            BY <3>1
          <5>5. Nothing(k.op, b, k.flag)' <=> Nothing(k.op, b, k.flag)
            BY <5>2 DEF SameUnit, Nothing
          <5>6. QED
            BY <3>1, <3>2, <4>1, <5>1, <5>2, <5>3, <5>4, <5>5 DEF Secured, UnitSecured, SameUnit
        <4>2. QED
          BY <3>1, <4>1 DEF UnitSecured
      <3>5. AccountSecured(q)'
        BY <2>1, <3>1, <3>2, SameCustody DEF Secured, AccountSecured, WellFormed
      <3>6. QED
        BY <3>3, <3>4, <3>5 DEF Secured
    <2>7. LocksTyped' /\ LocksExclude' /\ job' \in [Requests -> Job]
          /\ \A q \in Requests : WellFormed(job'[q])
      BY <2>1, InductiveParts DEF locks, LocksTyped, LocksExclude
    <2>8. QED
      BY <2>3, <2>4, <2>6, <2>7
         DEF Inductive, TypeOK, TablesTyped, LocksTyped, LocksSecureReads, Secured, Data
  <1>3. ASSUME NEW a \in Assets, RemoveAssetFromKit(a) PROVE Inductive'
    <2>1. UNCHANGED <<status, retired, account, custody>> /\ UNCHANGED <<locks, job>>
          /\ kitOf' = [kitOf EXCEPT ![a] = None]
      BY <1>3 DEF RemoveAssetFromKit
    <2>2. TablesTyped'
      BY <1>1, <2>1 DEF TablesTyped
    <2>3. Data'
      BY <1>1, <2>1, SameCustody
         DEF Data, StatusTellsCustody, RetiredIsPutAway, ClosedAccountsHoldNothing
    <2>4. \A q \in Requests : RespectsLocksOf(q)
      BY <2>1, SameCustody DEF RespectsLocksOf, SameUnit
    <2>5. QED
      BY <2>1, <2>2, <2>3, <2>4, DirectKeeps
  <1>4. ASSUME NEW actor \in People, NEW e \in Events, AnnotateCustodyEvent(actor, e) PROVE Inductive'
    <2> DEFINE row == [custody[e] EXCEPT !.reasons = custody[e].reasons \cup {"damage"}, !.reviewed = FALSE]
    <2>1. custody[e] \in Row /\ custody[e] # None /\ Change(e, row)
      BY <1>1, <1>4 DEF TablesTyped, AnnotateCustodyEvent, Given, Free
    <2>2. custody[e].reasons \cup {"damage"} \in SUBSET Reasons
      BY <2>1 DEF Row, Reasons
    <2>3. row \in Row
      BY <2>1, <2>2 DEF Row
    <2>4. row.asset = custody[e].asset /\ row.who = custody[e].who /\ row.outcome = custody[e].outcome
      BY <2>1 DEF Row
    <2> HIDE DEF row
    <2>5. PICK w \in Row : w = row
      BY <2>3
    <2>6. QED
      BY <2>1, <2>4, <2>5, ChangeStep
  <1>5. ASSUME NEW e \in Events, ResolveReview(e) \/ FallDue(e) \/ WindowPasses(e) PROVE Inductive'
    <2>1. custody[e] \in Row /\ custody[e] # None
      BY <1>1, <1>5 DEF TablesTyped, ResolveReview, FallDue, WindowPasses, IsOpen, Given, Free
    <2>2. \E row \in {[custody[e] EXCEPT !.reviewed = TRUE], [custody[e] EXCEPT !.late = TRUE],
                      [custody[e] EXCEPT !.recent = FALSE], [custody[e] EXCEPT !.noteable = FALSE]} :
             Change(e, row)
      BY <1>5 DEF ResolveReview, FallDue, WindowPasses
    <2>3. \A row \in {[custody[e] EXCEPT !.reviewed = TRUE], [custody[e] EXCEPT !.late = TRUE],
                      [custody[e] EXCEPT !.recent = FALSE], [custody[e] EXCEPT !.noteable = FALSE]} :
             /\ row \in Row
             /\ row.asset = custody[e].asset /\ row.who = custody[e].who
             /\ row.outcome = custody[e].outcome
      BY <2>1, ZenonT(30) DEF Row
    <2>4. PICK row \in Row : /\ Change(e, row)
                             /\ row.asset = custody[e].asset /\ row.who = custody[e].who
                             /\ row.outcome = custody[e].outcome
      BY <2>2, <2>3
    <2>5. QED
      BY <2>1, <2>4, ChangeStep
  <1>6. QED
    BY <1>2, <1>3, <1>4, <1>5 DEF Direct

-----------------------------------------------------------------------------
(* The theorems.                                                            *)

\* Every step of every handler keeps the invariant.
LEMMA StepStep ==
    ASSUME Inductive, NEW r \in Requests, Step(r)
    PROVE  Inductive'
  BY ShareCustodianStep, CheckOverdueStep, BeginCartStep, LockCartAssetStep, CommitCartStep,
     ScanStep, NextKitUnitStep, LockUnitStep, ReadUnitStep, CommitReturnStep, CommitRetireStep,
     CommitUnretireStep, CommitStatusStep, CommitDeleteStep, LockProfileStep, ReadHoldingsStep,
     CommitArchiveStep, DeleteProfileStep, UnlockedLookStep, InsertKitItemStep
     DEF Step

\* The invariant holds when the program starts.
LEMMA InitInductive == Init => Inductive
  <1> SUFFICES ASSUME Init PROVE Inductive
    OBVIOUS
  <1>1. TypeOK
    BY IdleJob DEF Init, TypeOK, Status
  <1>2. \A r \in Requests : job[r] = Idle
    BY DEF Init
  <1>3. \A r \in Requests : WellFormed(job[r])
    BY <1>2, IdleJob
  <1>4. LocksSecureReads
    BY <1>2 DEF Init, LocksSecureReads, LocksExclude, CartSecured, UnitSecured, AccountSecured,
                At, Idle, Returns, StockOps
  <1>5. \A a : OpenOn(a) = {}
    BY DEF Init, OpenOn, Given, Free
  <1>6. OneOpenLoan /\ StatusTellsCustody /\ RetiredIsPutAway /\ ClosedAccountsHoldNothing
    BY <1>5 DEF Init, OneOpenLoan, StatusTellsCustody, RetiredIsPutAway, ClosedAccountsHoldNothing,
                Given, Free
  <1>7. QED
    BY <1>1, <1>3, <1>4, <1>6 DEF Inductive

\* The invariant is inductive.
LEMMA NextInductive == Inductive /\ [Next]_vars => Inductive'
  <1> SUFFICES ASSUME Inductive, [Next]_vars PROVE Inductive'
    OBVIOUS
  <1>1. CASE UNCHANGED vars
    <2>1. UNCHANGED tables /\ UNCHANGED <<locks, job>>
      BY <1>1 DEF vars
    <2>2. \A q \in Requests : RespectsLocksOf(q)
      BY <2>1 DEF RespectsLocksOf, SameUnit, tables, OpenOn, EverOut, Holding, Given, Free
    <2>3. TablesTyped' /\ Data'
      BY <2>1, InductiveParts
         DEF tables, TablesTyped, Data, OneOpenLoan, StatusTellsCustody, RetiredIsPutAway,
             ClosedAccountsHoldNothing, IsOpen, Given, Free, OpenOn, Holding
    <2>4. QED
      BY <2>1, <2>2, <2>3, DirectKeeps
  <1>2. ASSUME NEW r \in Requests, Call(r) \/ Step(r) \/ Abandon(r) PROVE Inductive'
    BY <1>2, CallStep, StepStep, AbandonStep
  <1>3. CASE Direct
    BY <1>3, DirectStep
  <1>4. QED
    BY <1>1, <1>2, <1>3 DEF Next

\* Every reachable state: what a request has read under its row locks still
\* holds, so its writes are made of facts.
THEOREM CustodyInductive == Spec => []Inductive
  BY InitInductive, NextInductive, PTL DEF Spec

\* Every variable keeps its type.
THEOREM CustodyTyped == Spec => []TypeOK
  <1>1. Inductive => TypeOK
    BY DEF Inductive
  <1>2. QED
    BY <1>1, CustodyInductive, PTL

\* No unit is ever out twice, with no unique index to say so: lockCartAssets
\* refuses whatever another cart took while it waited for the row.
THEOREM NeverOutTwice == Spec => []OneOpenLoan
  <1>1. Inductive => OneOpenLoan
    BY DEF Inductive
  <1>2. QED
    BY <1>1, CustodyInductive, PTL

\* assets.status and the open custody rows agree in every state.
THEOREM StatusNeverDrifts == Spec => []StatusTellsCustody
  <1>1. Inductive => StatusTellsCustody
    BY DEF Inductive
  <1>2. QED
    BY <1>1, CustodyInductive, PTL

\* A retired unit is neither lent nor put back on the shelf.
THEOREM RetiredStaysAway == Spec => []RetiredIsPutAway
  <1>1. Inductive => RetiredIsPutAway
    BY DEF Inductive
  <1>2. QED
    BY <1>1, CustodyInductive, PTL

\* Archived and deleted accounts hold nothing, however a checkout to them and
\* the archiving interleave.
THEOREM NobodyLeavesWithAnItem == Spec => []ClosedAccountsHoldNothing
  <1>1. Inductive => ClosedAccountsHoldNothing
    BY DEF Inductive
  <1>2. QED
    BY <1>1, CustodyInductive, PTL

\* Nothing another request commits undoes what a handler read under its locks.
THEOREM ReadsStayTrue == Spec => []LocksSecureReads
  <1>1. Inductive => LocksSecureReads
    BY DEF Inductive
  <1>2. QED
    BY <1>1, CustodyInductive, PTL

-----------------------------------------------------------------------------
(* Custody implements Lending.                                              *)

LendingStep == [Closet!LendingNext]_(Closet!lendingVars)

\* Where a unit nobody has is.
Kept(s) == IF s = "absent" THEN "gone" ELSE IF s = "available" THEN "shelf" ELSE "away"

\* Where a unit is depends on its status, its open rows and whose they are.
LEMMA SamePlace ==
    ASSUME NEW a \in Assets, status'[a] = status[a], OpenOn(a)' = OpenOn(a),
           \A e \in OpenOn(a) : custody'[e].who = custody[e].who
    PROVE  Place(a)' = Place(a)
  <1>1. CurrentCustody(a)' = CurrentCustody(a)
    BY DEF CurrentCustody
  <1>2. OpenOn(a) # {} => CurrentCustody(a) \in OpenOn(a)
    BY CurrentCustodyIsOpen
  <1>3. QED
    BY <1>1, <1>2 DEF Place

\* A unit is with the custodian of its open row, or kept where its status says.
LEMMA PlaceIs ==
    ASSUME TablesTyped, StatusTellsCustody, NEW a \in Assets
    PROVE  /\ \A e \in OpenOn(a) : OpenOn(a) = {e} => Place(a) = custody[e].who
           /\ OpenOn(a) # {} => /\ CurrentCustody(a) \in OpenOn(a)
                                /\ Place(a) = custody[CurrentCustody(a)].who
                                /\ Place(a) \in People
           /\ OpenOn(a) = {} => Place(a) = Kept(status[a]) /\ Place(a) \notin People
  <1>1. CASE OpenOn(a) # {}
    <2>1. CurrentCustody(a) \in OpenOn(a)
      BY <1>1, CurrentCustodyIsOpen
    <2>2. custody[CurrentCustody(a)] \in Row
      BY <2>1 DEF TablesTyped, OpenOn, Given, Free
    <2>3. status[a] = "checked_out"
      BY <1>1 DEF StatusTellsCustody
    <2>4. Place(a) = custody[CurrentCustody(a)].who
      BY <1>1, <2>3 DEF Place
    <2>5. QED
      BY <1>1, <2>1, <2>2, <2>4 DEF Row
  <1>2. CASE OpenOn(a) = {}
    BY <1>2, ConstantsFit DEF Place, Kept
  <1>3. QED
    BY <1>1, <1>2

\* A step that leaves status, custody and accounts alone is a stutter.
LEMMA LendingStutters ==
    ASSUME UNCHANGED <<status, custody, account>>
    PROVE  LendingStep
  <1>1. \A a \in Assets : Place(a)' = Place(a)
    BY DEF Place, CurrentCustody, OpenOn, Given, Free
  <1>2. QED
    BY <1>1 DEF LendingStep, Closet!lendingVars

\* What it takes for a step to move the units of S and nobody.
LEMMA LendingMoves ==
    ASSUME NEW S \in SUBSET Assets, NEW where, UNCHANGED account,
           \A a \in S : Place(a)' = where,
           \A a \in Assets \ S : Place(a)' = Place(a)
    PROVE  /\ Closet!Move(S, where)
           /\ UNCHANGED {p \in People : account[p] = "active"}
  BY DEF Closet!Move

\* Stock work on a unit nobody has is one of Lending's stock steps.
LEMMA StockLends ==
    ASSUME Inductive, Inductive', NEW a \in Assets, NEW s \in Status \ {"checked_out"},
           OpenOn(a) = {}, status[a] = "absent" => s # "unavailable",
           status' = [status EXCEPT ![a] = s], UNCHANGED <<custody, account>>
    PROVE  LendingStep
  <1>1. TablesTyped /\ StatusTellsCustody /\ TablesTyped' /\ StatusTellsCustody'
    BY InductiveParts DEF Inductive, TablesTyped, TypeOK
  <1>2. \A b \in Assets : OpenOn(b)' = OpenOn(b)
    BY SameCustody
  <1>3. \A b \in Assets \ {a} : Place(b)' = Place(b)
    BY <1>1, <1>2, SamePlace DEF TablesTyped
  <1>4. Place(a) = Kept(status[a]) /\ Place(a)' = Kept(s)
    BY <1>1, <1>2, PlaceIs DEF TablesTyped, Place, Kept
  <1>5. CASE status[a] = s
    BY <1>1, <1>5, LendingStutters DEF TablesTyped
  <1>6. CASE status[a] # s
    <2>1. Closet!Move({a}, Kept(s)) /\ UNCHANGED {p \in People : account[p] = "active"}
      BY <1>3, <1>4, LendingMoves
    <2>2. status[a] # "checked_out" /\ status[a] \in Status
      BY <1>1 DEF TablesTyped, StatusTellsCustody
    <2>3. Closet!Withdraw(a) \/ Closet!Restock(a) \/ Closet!Discard(a) \/ Closet!Acquire(a)
      BY <1>4, <1>6, <2>1, <2>2
         DEF Kept, Status, Closet!Withdraw, Closet!Restock, Closet!Discard, Closet!Acquire
    <2>4. QED
      BY <2>3 DEF LendingStep, Closet!LendingNext
  <1>7. QED
    BY <1>5, <1>6

\* Closing the loan of a unit gives it back or writes it off.
LEMMA CloseLends ==
    ASSUME Inductive, Inductive', NEW a \in Assets, NEW s \in {"available", "unavailable"},
           NEW e0 \in OpenOn(a), NEW row \in Row, row.asset = custody[e0].asset,
           row.who = custody[e0].who, row.outcome # "open",
           custody' = [e \in Events |-> IF e = e0 THEN row ELSE custody[e]],
           status' = [status EXCEPT ![a] = s], UNCHANGED account
    PROVE  LendingStep
  <1>1. TablesTyped /\ StatusTellsCustody /\ TablesTyped' /\ StatusTellsCustody'
    BY InductiveParts DEF Inductive, TablesTyped, TypeOK
  <1>2. e0 \in Events /\ custody[e0] # None /\ custody[e0].asset = a
    BY DEF OpenOn, Given, Free
  <1>3. \A e \in Events : custody'[e] = IF e = e0 THEN row ELSE custody[e]
    OBVIOUS
  <1>4. ASSUME NEW b \in Assets \ {a} PROVE Place(b)' = Place(b)
    <2>1. \A e : e \in OpenOn(b)' <=> e \in OpenOn(b)
      BY <1>2, <1>3, NoneIsNoRow DEF OpenOn, Given, Free
    <2>2. OpenOn(b)' = OpenOn(b)
      BY <2>1 DEF OpenOn
    <2>3. \A e \in OpenOn(b) : custody'[e].who = custody[e].who
      BY <1>2, <1>3 DEF OpenOn, Given
    <2>4. QED
      BY <1>1, <2>2, <2>3, SamePlace DEF TablesTyped
  <1>5. OpenOn(a)' = {}
    BY <1>1 DEF TablesTyped, StatusTellsCustody
  <1>6. Place(a)' = Kept(s) /\ Place(a) \in People
    BY <1>1, <1>5, PlaceIs DEF TablesTyped, Place, Kept
  <1>7. Closet!Move({a}, Kept(s)) /\ UNCHANGED {p \in People : account[p] = "active"}
    BY <1>4, <1>6, LendingMoves
  <1>8. Closet!GiveBack(a) \/ Closet!WriteOff(a)
    BY <1>6, <1>7 DEF Kept, Closet!GiveBack, Closet!WriteOff, Closet!Out
  <1>9. QED
    BY <1>8 DEF LendingStep, Closet!LendingNext

\* A commit of a whole cart lends it.
LEMMA CartLends ==
    ASSUME Inductive, Inductive', NEW C \in SUBSET Assets, NEW who \in People, NEW by \in People,
           \A a \in C : status[a] = "available", account[who] = "active",
           NEW id, id \in Injection(C, Free),
           custody' = [e \in Events |-> IF \E a \in C : id[a] = e
                                       THEN Loan(CHOOSE a \in C : id[a] = e, who, by)
                                       ELSE custody[e]],
           status' = [a \in Assets |-> IF a \in C THEN "checked_out" ELSE status[a]],
           UNCHANGED account
    PROVE  LendingStep
  <1>1. TablesTyped /\ StatusTellsCustody /\ TablesTyped' /\ StatusTellsCustody'
    BY InductiveParts DEF Inductive, TablesTyped, TypeOK
  <1>2. id \in [C -> Free]
    BY DEF Injection
  <1>3. \A e \in Events : \/ custody'[e] = custody[e]
                          \/ custody[e] = None /\ \E a \in C : custody'[e] = Loan(a, who, by)
    <2> SUFFICES ASSUME NEW e \in Events, \E a \in C : id[a] = e
                 PROVE  custody[e] = None /\ \E a \in C : custody'[e] = Loan(a, who, by)
      OBVIOUS
    <2>1. custody[e] = None
      BY <1>2 DEF Free
    <2>2. (CHOOSE a \in C : id[a] = e) \in C
      OBVIOUS
    <2>3. QED
      BY <2>1, <2>2
  <1>4. \A a \in C : Place(a) = "shelf"
    <2>1. \A a \in C : OpenOn(a) = {}
      BY <1>1 DEF StatusTellsCustody
    <2>2. QED
      BY <1>1, <2>1, PlaceIs DEF Kept
  <1>5. ASSUME NEW a \in C PROVE Place(a)' = who
    <2>1. OpenOn(a)' # {}
      BY <1>1 DEF StatusTellsCustody
    <2>2. PICK e : e = CurrentCustody(a)' /\ e \in OpenOn(a)' /\ Place(a)' = custody'[e].who
      <3>1. CurrentCustody(a)' \in OpenOn(a)'
        BY <2>1 DEF CurrentCustody
      <3>2. status'[a] = "checked_out"
        BY <1>1, <2>1 DEF StatusTellsCustody
      <3>3. QED
        BY <2>1, <3>1, <3>2 DEF Place
    <2>3. e \in Events /\ custody'[e] # None /\ custody'[e].asset = a /\ custody'[e].outcome = "open"
      BY <2>2 DEF OpenOn, Given, Free
    <2>4. custody'[e] # custody[e]
      BY <1>1, <2>3 DEF StatusTellsCustody, OpenOn, Given, Free
    <2>5. PICK b \in C : custody'[e] = Loan(b, who, by)
      BY <1>3, <2>3, <2>4
    <2>6. QED
      BY <2>2, <2>5 DEF Loan
  <1>6. ASSUME NEW a \in Assets \ C PROVE Place(a)' = Place(a)
    <2>1. \A e \in Events : custody[e] # None => custody'[e] = custody[e]
      BY <1>3
    <2>2. \A e \in OpenOn(a)' : e \in OpenOn(a)
      BY <1>3, LoanRow DEF OpenOn, Given, Free
    <2>3. \A e \in OpenOn(a) : e \in OpenOn(a)' /\ custody'[e].who = custody[e].who
      BY <2>1 DEF OpenOn, Given, Free
    <2>4. OpenOn(a)' = OpenOn(a)
      BY <2>2, <2>3 DEF OpenOn
    <2>5. QED
      BY <1>1, <2>3, <2>4, SamePlace DEF TablesTyped
  <1>7. Closet!Move(C, who) /\ UNCHANGED {p \in People : account[p] = "active"}
    BY <1>5, <1>6, LendingMoves
  <1>8. CASE C = {}
    <2>1. custody' = custody /\ status' = status
      BY <1>1, <1>8 DEF TablesTyped
    <2>2. QED
      BY <2>1, LendingStutters
  <1>9. CASE C # {}
    <2>1. Closet!Lend(C, who)
      BY <1>4, <1>7, <1>9 DEF Closet!Lend
    <2>2. QED
      BY <2>1 DEF LendingStep, Closet!LendingNext
  <1>10. QED
    BY <1>8, <1>9

\* An account that holds nothing leaves, and one that was closed comes back.
LEMMA AccountLends ==
    ASSUME Inductive, NEW p \in People, NEW s \in {"active", "archived", "deleted"},
           s # "active" => Holding(p) = {},
           account' = [account EXCEPT ![p] = s], UNCHANGED <<status, custody>>
    PROVE  LendingStep
  <1>1. TablesTyped /\ StatusTellsCustody
    BY InductiveParts DEF Data
  <1>2. \A a \in Assets : Place(a)' = Place(a)
    BY DEF Place, CurrentCustody, OpenOn, Given, Free
  <1>3. UNCHANGED [a \in Assets |-> Place(a)]
    BY <1>2
  <1>4. CASE (s = "active") <=> (account[p] = "active")
    <2>1. UNCHANGED {q \in People : account[q] = "active"}
      BY <1>1, <1>4 DEF TablesTyped
    <2>2. QED
      BY <1>3, <2>1 DEF LendingStep, Closet!lendingVars
  <1>5. CASE s = "active" /\ account[p] # "active"
    <2>1. {q \in People : account[q] = "active"}' = {q \in People : account[q] = "active"} \cup {p}
      BY <1>1, <1>5 DEF TablesTyped
    <2>2. Closet!Join(p)
      BY <1>3, <1>5, <2>1 DEF Closet!Join
    <2>3. QED
      BY <2>2 DEF LendingStep, Closet!LendingNext
  <1>6. CASE s # "active" /\ account[p] = "active"
    <2>1. {q \in People : account[q] = "active"}' = {q \in People : account[q] = "active"} \ {p}
      BY <1>1, <1>6 DEF TablesTyped
    <2>2. ASSUME NEW a \in Assets PROVE Place(a) # p
      <3>1. CASE OpenOn(a) # {}
        <4>1. CurrentCustody(a) \in OpenOn(a) /\ Place(a) = custody[CurrentCustody(a)].who
          BY <1>1, <3>1, PlaceIs
        <4>2. CurrentCustody(a) \notin Holding(p)
          BY <1>6
        <4>3. QED
          BY <4>1, <4>2 DEF Holding, OpenOn
      <3>2. CASE OpenOn(a) = {}
        BY <1>1, <3>2, PlaceIs
      <3>3. QED
        BY <3>1, <3>2
    <2>3. Closet!Leave(p)
      BY <1>3, <1>6, <2>1, <2>2 DEF Closet!Leave
    <2>4. QED
      BY <2>3 DEF LendingStep, Closet!LendingNext
  <1>7. QED
    BY <1>4, <1>5, <1>6

\* Requests arriving, reading, locking, refused or abandoned move nothing.
LEMMA QuietLends ==
    ASSUME NEW r \in Requests,
           \/ Call(r) \/ Abandon(r) \/ Refuse(r)
           \/ ShareCustodian(r) \/ CheckOverdue(r) \/ BeginCart(r) \/ LockCartAsset(r)
           \/ ScanLook(r) \/ ScanAsk(r) \/ ScanHeld(r) \/ NextKitUnit(r)
           \/ LockUnit(r) \/ ReadUnit(r) \/ LockProfile(r) \/ ReadHoldings(r)
           \/ LookAtHoldings(r) \/ LookAtRetired(r) \/ InsertKitItem(r)
    PROVE  LendingStep
  <1>1. CASE Call(r)
    <2>1. UNCHANGED tables
      BY <1>1 DEF Call, CheckOutAssets, ScanItemVia, CheckInAssetVia, CheckInKit, ChangeStock,
                  SetUserArchived, DeleteUser, AddAssetToKit, Begin
    <2>2. QED
      BY <2>1, LendingStutters DEF tables
  <1>2. CASE \/ Abandon(r) \/ Refuse(r) \/ ShareCustodian(r) \/ CheckOverdue(r) \/ BeginCart(r)
             \/ LockCartAsset(r) \/ ScanLook(r) \/ ScanAsk(r) \/ ScanHeld(r) \/ NextKitUnit(r)
    BY <1>2, LendingStutters
       DEF tables, Abandon, Refuse, ShareCustodian, CheckOverdue, BeginCart, LockCartAsset,
           ScanLook, ScanAsk, ScanHeld, NextKitUnit
  <1>3. CASE \/ LockUnit(r) \/ ReadUnit(r) \/ LockProfile(r) \/ ReadHoldings(r)
             \/ LookAtHoldings(r) \/ LookAtRetired(r) \/ InsertKitItem(r)
    BY <1>3, LendingStutters
       DEF tables, Refuse, LockUnit, ReadUnit, LockProfile, ReadHoldings, LookAtHoldings,
           LookAtRetired, InsertKitItem
  <1>4. QED
    BY <1>1, <1>2, <1>3

\* CheckOutAssets lends the whole cart or nothing.
LEMMA CommitCartLends ==
    ASSUME Inductive, Inductive', NEW r \in Requests, CommitCart(r)
    PROVE  LendingStep
  <1> DEFINE j == job[r]
  <1>1. CASE Refuse(r)
    BY <1>1, QuietLends
  <1>2. CASE /\ ~j.refused
             /\ \E id \in Injection(j.cart, Free) :
                   custody' = [e \in Events |->
                                 IF \E a \in j.cart : id[a] = e
                                 THEN Loan(CHOOSE a \in j.cart : id[a] = e, j.who, j.actor)
                                 ELSE custody[e]]
             /\ status' = [a \in Assets |-> IF a \in j.cart THEN "checked_out" ELSE status[a]]
             /\ UNCHANGED account
    <2>1. /\ j \in Job /\ WellFormed(j) /\ CartSecured(r)
          /\ j.op = "checkout" /\ j.pc = "lock" /\ j.todo = {}
      BY InductiveParts DEF CommitCart, At, Secured
    <2>2. j.cart \in SUBSET Assets /\ j.who \in People /\ j.actor \in People
      BY <2>1 DEF Job, WellFormed
    <2>3. (\A a \in j.cart : status[a] = "available") /\ account[j.who] = "active"
      BY <1>2, <2>1 DEF CartSecured, At
    <2>4. PICK C \in SUBSET Assets, who \in People, by \in People :
             C = j.cart /\ who = j.who /\ by = j.actor
      BY <2>2
    <2>5. PICK id \in Injection(C, Free) :
             custody' = [e \in Events |-> IF \E a \in C : id[a] = e
                                         THEN Loan(CHOOSE a \in C : id[a] = e, who, by)
                                         ELSE custody[e]]
      BY <1>2, <2>4
    <2>6. /\ \A a \in C : status[a] = "available"
          /\ account[who] = "active"
          /\ status' = [a \in Assets |-> IF a \in C THEN "checked_out" ELSE status[a]]
      BY <1>2, <2>3, <2>4
    <2>7. QED
      BY <1>2, <2>5, <2>6, CartLends
  <1>3. QED
    BY <1>1, <1>2 DEF CommitCart

\* What closing the row a handler found does, whichever way it closes it.
LEMMA FoundLends ==
    ASSUME Inductive, Inductive', NEW r \in Requests, NEW s \in {"available", "unavailable"},
           job[r].op \in Returns \cup StockOps, job[r].pc = "write", OpenOn(job[r].asset) # {},
           Close(r, Returned) \/ Close(r, Lost), SetStatus(job[r].asset, s), UNCHANGED account
    PROVE  LendingStep
  <1> DEFINE j == job[r]
             e0 == j.found
  <1>1. PICK a \in Assets : a = j.asset
    BY UnitAtWrite
  <1>2. e0 \in OpenOn(a) /\ j.actor \in People
    BY <1>1, UnitAtWrite, CurrentCustodyIsOpen
  <1>3. TablesTyped /\ j \in Job
    BY InductiveParts
  <1>4. custody[e0] \in Row
    BY <1>2, <1>3 DEF TablesTyped, OpenOn, Given, Free
  <1>5. PICK row : /\ row \in {Returned(custody[e0], j), Lost(custody[e0], j)}
                   /\ custody' = [e \in Events |-> IF e = e0 THEN row ELSE custody[e]]
    <2>1. CASE Close(r, Returned)
      <3>1. custody' = [e \in Events |-> IF e = e0 THEN Returned(custody[e0], j) ELSE custody[e]]
        BY <2>1 DEF Close
      <3>2. QED
        BY <3>1
    <2>2. CASE Close(r, Lost)
      <3>1. custody' = [e \in Events |-> IF e = e0 THEN Lost(custody[e0], j) ELSE custody[e]]
        BY <2>2 DEF Close
      <3>2. QED
        BY <3>1
    <2>3. QED
      BY <2>1, <2>2
  <1>6. row \in Row /\ row.asset = custody[e0].asset /\ row.who = custody[e0].who
        /\ row.outcome # "open"
    BY <1>2, <1>3, <1>4, <1>5, ReturnedRow, SMTT(20)
  <1>7. PICK e1 \in OpenOn(a) : e1 = e0
    BY <1>2
  <1>8. /\ custody' = [e \in Events |-> IF e = e1 THEN row ELSE custody[e]]
        /\ row.asset = custody[e1].asset /\ row.who = custody[e1].who
        /\ status' = [status EXCEPT ![a] = s]
    BY <1>1, <1>5, <1>6, <1>7 DEF SetStatus
  <1>9. QED
    BY <1>6, <1>8, CloseLends

\* A return gives the unit back, a loss writes it off.
LEMMA CommitReturnLends ==
    ASSUME Inductive, Inductive', NEW r \in Requests, CommitReturn(r)
    PROVE  LendingStep
  <1>1. CASE Refuse(r)
    BY <1>1, QuietLends
  <1>2. CASE ~Refuse(r)
    <2>1. /\ job[r].op \in Returns \cup StockOps /\ job[r].pc = "write"
          /\ job[r].op \in Returns \cup {"lost"}
      BY DEF CommitReturn, Returns, StockOps
    <2>2. OpenOn(job[r].asset) # {}
      BY <2>1, UnitAtWrite DEF Nothing
    <2>3. PICK s \in {"available", "unavailable"} :
             (Close(r, Returned) \/ Close(r, Lost)) /\ SetStatus(job[r].asset, s) /\ UNCHANGED account
      BY <1>2 DEF CommitReturn
    <2>4. QED
      BY <2>1, <2>2, <2>3, FoundLends
  <1>3. QED
    BY <1>1, <1>2

\* A retirement writes off a unit that is out and withdraws one that is not.
LEMMA CommitRetireLends ==
    ASSUME Inductive, Inductive', NEW r \in Requests, CommitRetire(r)
    PROVE  LendingStep
  <1>1. CASE Refuse(r)
    BY <1>1, QuietLends
  <1>2. CASE ~Refuse(r)
    <2>1. job[r].op \in Returns \cup StockOps /\ job[r].pc = "write"
      BY DEF CommitRetire, At, StockOps
    <2>2. Close(r, Lost) /\ SetStatus(job[r].asset, "unavailable") /\ UNCHANGED account
      BY <1>2 DEF CommitRetire
    <2>3. CASE OpenOn(job[r].asset) # {}
      BY <2>1, <2>2, <2>3, FoundLends
    <2>4. CASE OpenOn(job[r].asset) = {}
      <3>1. PICK a \in Assets : a = job[r].asset /\ status[a] # "absent" /\ job[r].found = None
        BY <2>1, <2>4, UnitAtWrite, CurrentCustodyIsOpen
      <3>2. TablesTyped
        BY InductiveParts
      <3>3. custody' = [e \in Events |-> custody[e]]
        BY <2>2, <3>1, ConstantsFit DEF Close
      <3>4. custody' = custody
        BY <3>2, <3>3 DEF TablesTyped
      <3>5. QED
        BY <2>2, <2>4, <3>1, <3>4, StockLends DEF SetStatus, Status
    <2>5. QED
      BY <2>3, <2>4
  <1>3. QED
    BY <1>1, <1>2

\* The other stock commits move a unit nobody has.
LEMMA CommitStockLends ==
    ASSUME Inductive, Inductive', NEW r \in Requests,
           CommitUnretire(r) \/ CommitStatus(r) \/ CommitDelete(r)
    PROVE  LendingStep
  <1>1. /\ job[r].op \in {"unretire", "available", "unavailable", "delete"}
        /\ job[r].op \in Returns \cup StockOps /\ job[r].pc = "write"
    BY DEF CommitUnretire, CommitStatus, CommitDelete, At, StockOps
  <1>2. PICK a \in Assets : a = job[r].asset /\ status[a] # "absent"
    BY <1>1, UnitAtWrite
  <1>3. /\ OpenOn(a) = {}
        /\ job[r].op = "delete" => ~EverOut(a)
    BY <1>1, <1>2, UnitAtWrite DEF Nothing, OpenOn, EverOut
  <1>4. TablesTyped
    BY InductiveParts
  <1>5. custody' = custody /\ UNCHANGED account
    BY <1>2, <1>3, <1>4 DEF CommitUnretire, CommitStatus, CommitDelete, At, EverOut, TablesTyped
  <1>6. PICK s \in Status \ {"checked_out"} : status' = [status EXCEPT ![a] = s]
    BY <1>1, <1>2 DEF CommitUnretire, CommitStatus, CommitDelete, SetStatus, Status
  <1>7. QED
    BY <1>2, <1>3, <1>5, <1>6, StockLends

\* Archiving, restoring and deleting an account.
LEMMA CommitAccountLends ==
    ASSUME Inductive, NEW r \in Requests, CommitArchive(r) \/ DeleteProfile(r)
    PROVE  LendingStep
  <1> DEFINE p == job[r].who
  <1>1. CASE CommitArchive(r)
    <2>1. p \in People /\ (job[r].op = "archive" => Holding(p) = {})
      BY <1>1, InductiveParts DEF CommitArchive, WellFormed, Secured, AccountSecured
    <2>2. QED
      BY <1>1, <2>1, AccountLends DEF CommitArchive
  <1>2. CASE DeleteProfile(r)
    <2>1. p \in People
      BY <1>2, InductiveParts DEF DeleteProfile, At, WellFormed
    <2>2. CASE Refuse(r)
      BY <2>2, QuietLends
    <2>3. CASE /\ ~Referenced(p) /\ account' = [account EXCEPT ![p] = "deleted"]
               /\ UNCHANGED <<status, custody>>
      <3>1. Holding(p) = {}
        BY <2>3 DEF Referenced, Holding
      <3>2. QED
        BY <2>1, <2>3, <3>1, AccountLends
    <2>4. QED
      BY <1>2, <2>2, <2>3 DEF DeleteProfile
  <1>3. QED
    BY <1>1, <1>2

\* A note, a review or the clock moves nothing; a new unit comes onto the shelf.
LEMMA DirectLends ==
    ASSUME Inductive, Inductive', Direct
    PROVE  LendingStep
  <1>1. TablesTyped /\ Data
    BY InductiveParts
  <1>2. ASSUME NEW a \in Assets, CreateAsset(a) PROVE LendingStep
    <2>1. OpenOn(a) = {}
      BY <1>1, <1>2 DEF CreateAsset, Data, StatusTellsCustody
    <2>2. QED
      BY <1>2, <2>1, StockLends DEF CreateAsset, SetStatus, Status
  <1>3. ASSUME NEW a \in Assets, RemoveAssetFromKit(a) PROVE LendingStep
    BY <1>3, LendingStutters DEF RemoveAssetFromKit
  <1>4. ASSUME NEW e0 \in Events, NEW row, Change(e0, row), custody[e0] # None, row # None,
               row.asset = custody[e0].asset, row.who = custody[e0].who,
               row.outcome = custody[e0].outcome
        PROVE  LendingStep
    <2>1. \A e \in Events :
             /\ custody'[e] = None <=> custody[e] = None
             /\ custody[e] # None => /\ custody'[e].asset = custody[e].asset
                                    /\ custody'[e].who = custody[e].who
                                    /\ custody'[e].outcome = custody[e].outcome
      BY <1>1, <1>4 DEF TablesTyped, Change
    <2>2. ASSUME NEW a \in Assets PROVE Place(a)' = Place(a)
      <3>1. \A e : e \in OpenOn(a)' <=> e \in OpenOn(a)
        BY <2>1 DEF OpenOn, Given, Free
      <3>2. OpenOn(a)' = OpenOn(a)
        BY <3>1 DEF OpenOn
      <3>3. \A e \in OpenOn(a) : custody'[e].who = custody[e].who
        BY <2>1 DEF OpenOn, Given, Free
      <3>4. QED
        BY <1>4, <3>2, <3>3, SamePlace DEF Change
    <2>3. QED
      BY <1>4, <2>2 DEF Change, LendingStep, Closet!lendingVars
  <1>5. ASSUME NEW e \in Events,
               \/ ResolveReview(e) \/ FallDue(e) \/ WindowPasses(e)
               \/ \E actor \in People : AnnotateCustodyEvent(actor, e)
        PROVE  LendingStep
    <2>1. custody[e] \in Row /\ custody[e] # None
      BY <1>1, <1>5 DEF TablesTyped, ResolveReview, FallDue, WindowPasses, AnnotateCustodyEvent,
                        IsOpen, Given, Free
    <2> DEFINE rows == {[custody[e] EXCEPT !.reviewed = TRUE], [custody[e] EXCEPT !.late = TRUE],
                        [custody[e] EXCEPT !.recent = FALSE], [custody[e] EXCEPT !.noteable = FALSE],
                        [custody[e] EXCEPT !.reasons = custody[e].reasons \cup {"damage"},
                                           !.reviewed = FALSE]}
    <2>2. \E row \in rows : Change(e, row)
      BY <1>5 DEF ResolveReview, FallDue, WindowPasses, AnnotateCustodyEvent
    <2>3. \A row \in rows : /\ row.asset = custody[e].asset /\ row.who = custody[e].who
                            /\ row.outcome = custody[e].outcome
      BY <2>1 DEF Row
    <2>4. \A row \in rows : row \in Row
      <3>1. custody[e].reasons \cup {"damage"} \in SUBSET Reasons
        BY <2>1 DEF Row, Reasons
      <3>2. [custody[e] EXCEPT !.reasons = custody[e].reasons \cup {"damage"},
                               !.reviewed = FALSE] \in Row
        BY <2>1, <3>1 DEF Row
      <3>3. /\ [custody[e] EXCEPT !.reviewed = TRUE] \in Row
            /\ [custody[e] EXCEPT !.late = TRUE] \in Row
            /\ [custody[e] EXCEPT !.recent = FALSE] \in Row
            /\ [custody[e] EXCEPT !.noteable = FALSE] \in Row
        BY <2>1 DEF Row
      <3>4. QED
        BY <3>2, <3>3
    <2>5. PICK row \in rows : Change(e, row)
      BY <2>2
    <2>6. QED
      BY <1>4, <2>1, <2>3, <2>4, <2>5, NoneIsNoRow
  <1>6. QED
    BY <1>2, <1>3, <1>5 DEF Direct

\* Every step of the program is a step of Lending or none.
LEMMA NextLends == Inductive /\ Inductive' /\ [Next]_vars => LendingStep
  <1> SUFFICES ASSUME Inductive, Inductive', [Next]_vars PROVE LendingStep
    OBVIOUS
  <1>1. CASE UNCHANGED vars
    BY <1>1, LendingStutters DEF vars, tables
  <1>2. ASSUME NEW r \in Requests, Call(r) \/ Step(r) \/ Abandon(r) PROVE LendingStep
    BY <1>2, QuietLends, CommitCartLends, CommitReturnLends, CommitRetireLends, CommitStockLends,
       CommitAccountLends DEF Step
  <1>3. CASE Direct
    BY <1>3, DirectLends
  <1>4. QED
    BY <1>1, <1>2, <1>3 DEF Next

\* The tables, locks and transactions of the custody loop implement Lending: a
\* commit is one step of the closet, and nothing else can be seen to happen.
THEOREM CustodyLends == Spec => LendsLikeACloset
  <1>1. Init => Closet!LendingInit
    <2> SUFFICES ASSUME Init PROVE Closet!LendingInit
      OBVIOUS
    <2>1. \A a \in Assets : Place(a) = "shelf"
      BY DEF Init, Place, OpenOn, Given, Free
    <2>2. QED
      BY <2>1 DEF Init, Closet!LendingInit
  <1>2. Inductive /\ Inductive' /\ [Next]_vars => [Closet!LendingNext]_(Closet!lendingVars)
    BY NextLends DEF LendingStep
  <1>3. QED
    BY <1>1, <1>2, CustodyInductive, PTL DEF Spec, LendsLikeACloset, Closet!LendingSpec

-----------------------------------------------------------------------------
(* The mark of an unscanned return.                                         *)

Marked(row) ==
    row.outcome = "returned" /\ row.inBy \notin Admins /\ row.via # "scan"
        => "not_scanned" \in row.reasons

\* A student's return that nothing shows came back stays marked: both returns
\* set the mark, and no note, review or passing of time takes it off.
LEMMA MarksStay == Inductive /\ UnscannedReturnsAreMarked /\ [Next]_vars => UnscannedReturnsAreMarked'
  <1> SUFFICES ASSUME Inductive, UnscannedReturnsAreMarked, [Next]_vars
               PROVE  UnscannedReturnsAreMarked'
    OBVIOUS
  <1>1. TablesTyped /\ Data
    BY InductiveParts
  <1>2. \A e \in Events : custody[e] # None => Marked(custody[e])
    BY DEF UnscannedReturnsAreMarked, Given, Free, Marked
  <1>3. SUFFICES \A e \in Events : custody'[e] # None => Marked(custody'[e])
    BY <1>3 DEF UnscannedReturnsAreMarked, Given, Free, Marked
  <1>4. ASSUME NEW e0, NEW row, Marked(row),
               custody' = [e \in Events |-> IF e = e0 THEN row ELSE custody[e]]
        PROVE  \A e \in Events : custody'[e] # None => Marked(custody'[e])
    BY <1>2, <1>4
  <1>5. CASE UNCHANGED custody
    BY <1>2, <1>5
  <1>6. ASSUME NEW r \in Requests, CommitCart(r)
        PROVE  \A e \in Events : custody'[e] # None => Marked(custody'[e])
    <2>1. \A a, who, by : Marked(Loan(a, who, by))
      BY DEF Loan, Marked
    <2>2. \A e \in Events : custody'[e] = custody[e] \/ \E a, who, by : custody'[e] = Loan(a, who, by)
      BY <1>6 DEF CommitCart, Refuse, tables
    <2>3. QED
      BY <1>2, <2>1, <2>2
  <1>7. ASSUME NEW r \in Requests, CommitReturn(r) \/ CommitRetire(r), custody' # custody
        PROVE  \A e \in Events : custody'[e] # None => Marked(custody'[e])
    <2> DEFINE j == job[r]
               e0 == j.found
    <2>1. /\ j.op \in Returns \cup StockOps /\ j.pc = "write"
          /\ Close(r, Returned) \/ Close(r, Lost)
      BY <1>7 DEF CommitReturn, CommitRetire, At, StockOps, Returns, Refuse, tables
    <2>2. PICK a \in Assets : a = j.asset /\ e0 = CurrentCustody(a)
      BY <2>1, UnitAtWrite
    <2>3. CASE e0 \notin Events
      <3>1. custody' = [e \in Events |-> custody[e]]
        BY <2>1, <2>3 DEF Close
      <3>2. QED
        BY <1>1, <1>7, <3>1 DEF TablesTyped
    <2>4. CASE e0 \in Events
      <3>1. e0 \in OpenOn(a)
        BY <2>2, <2>4, CurrentCustodyIsOpen, ConstantsFit
      <3>2. custody[e0] \in Row /\ j \in Job
        BY <1>1, <3>1, InductiveParts DEF TablesTyped, OpenOn, Given, Free
      <3>3. Marked(Returned(custody[e0], j)) /\ Marked(Lost(custody[e0], j))
        BY <3>2 DEF Row, Marked, Returned, Lost, ReviewReasonsFor
      <3>4. PICK row : Marked(row) /\ custody' = [e \in Events |-> IF e = e0 THEN row ELSE custody[e]]
        <4>1. CASE Close(r, Returned)
          <5>1. custody' = [e \in Events |-> IF e = e0 THEN Returned(custody[e0], j) ELSE custody[e]]
            BY <4>1 DEF Close
          <5>2. QED
            BY <3>3, <5>1
        <4>2. CASE Close(r, Lost)
          <5>1. custody' = [e \in Events |-> IF e = e0 THEN Lost(custody[e0], j) ELSE custody[e]]
            BY <4>2 DEF Close
          <5>2. QED
            BY <3>3, <5>1
        <4>3. QED
          BY <2>1, <4>1, <4>2
      <3>5. QED
        BY <1>4, <3>4
    <2>5. QED
      BY <2>3, <2>4
  <1>8. ASSUME NEW r \in Requests, CommitDelete(r)
        PROVE  \A e \in Events : custody'[e] # None => Marked(custody'[e])
    BY <1>2, <1>8 DEF CommitDelete
  <1>9. ASSUME NEW e0 \in Events,
               \/ ResolveReview(e0) \/ FallDue(e0) \/ WindowPasses(e0)
               \/ \E actor \in People : AnnotateCustodyEvent(actor, e0)
        PROVE  \A e \in Events : custody'[e] # None => Marked(custody'[e])
    <2>1. custody[e0] \in Row /\ Marked(custody[e0])
      BY <1>1, <1>2, <1>9 DEF TablesTyped, ResolveReview, FallDue, WindowPasses, AnnotateCustodyEvent,
                              IsOpen, Given, Free
    <2> DEFINE rows == {[custody[e0] EXCEPT !.reviewed = TRUE], [custody[e0] EXCEPT !.late = TRUE],
                        [custody[e0] EXCEPT !.recent = FALSE], [custody[e0] EXCEPT !.noteable = FALSE],
                        [custody[e0] EXCEPT !.reasons = custody[e0].reasons \cup {"damage"},
                                            !.reviewed = FALSE]}
    <2>2. PICK row \in rows : custody' = [custody EXCEPT ![e0] = row]
      BY <1>9 DEF ResolveReview, FallDue, WindowPasses, AnnotateCustodyEvent, Change
    <2>3. Marked(row)
      BY <2>1, ZenonT(60) DEF Row, Marked
    <2>4. QED
      BY <1>1, <1>2, <2>2, <2>3 DEF TablesTyped
  <1>10. CASE UNCHANGED vars
    BY <1>5, <1>10 DEF vars, tables
  <1>11. ASSUME NEW r \in Requests, Call(r) \/ Step(r) \/ Abandon(r)
         PROVE  \A e \in Events : custody'[e] # None => Marked(custody'[e])
    <2>1. CASE Call(r)
      BY <1>5, <2>1 DEF Call, CheckOutAssets, ScanItemVia, CheckInAssetVia, CheckInKit, ChangeStock,
                        SetUserArchived, DeleteUser, AddAssetToKit, Begin, tables
    <2>2. CASE \/ Abandon(r) \/ ShareCustodian(r) \/ CheckOverdue(r) \/ BeginCart(r)
               \/ LockCartAsset(r) \/ ScanLook(r) \/ ScanAsk(r) \/ ScanHeld(r) \/ NextKitUnit(r)
      BY <1>5, <2>2 DEF tables, Abandon, Refuse, ShareCustodian, CheckOverdue, BeginCart,
                        LockCartAsset, ScanLook, ScanAsk, ScanHeld, NextKitUnit
    <2>3. CASE \/ LockUnit(r) \/ ReadUnit(r) \/ LockProfile(r) \/ ReadHoldings(r)
               \/ LookAtHoldings(r) \/ LookAtRetired(r) \/ InsertKitItem(r)
               \/ CommitUnretire(r) \/ CommitStatus(r) \/ CommitArchive(r) \/ DeleteProfile(r)
      BY <1>5, <2>3 DEF tables, Refuse, LockUnit, ReadUnit, LockProfile, ReadHoldings,
                        LookAtHoldings, LookAtRetired, InsertKitItem, CommitUnretire, CommitStatus,
                        CommitArchive, DeleteProfile
    <2>4. QED
      BY <1>5, <1>6, <1>7, <1>8, <1>11, <2>1, <2>2, <2>3 DEF Step
  <1>12. CASE Direct
    BY <1>5, <1>9, <1>12 DEF Direct, CreateAsset, RemoveAssetFromKit
  <1>13. QED
    BY <1>3, <1>10, <1>11, <1>12 DEF Next

\* A student's return that nothing shows came back is marked for review for good.
THEOREM UnscannedReturnsStayMarked == Spec => []UnscannedReturnsAreMarked
  <1>1. Init => UnscannedReturnsAreMarked
    BY DEF Init, UnscannedReturnsAreMarked, Given, Free
  <1>2. QED
    BY <1>1, MarksStay, CustodyInductive, PTL DEF Spec
=============================================================================
