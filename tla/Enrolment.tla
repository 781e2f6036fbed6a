------------------------------ MODULE Enrolment ------------------------------
(***************************************************************************)
(* How accounts come to be: the first admin, made with no session while    *)
(* there is no account; the spare (failsafe) admin, kept in .env and put   *)
(* back at every start; the roster, which also brings photos and archives  *)
(* whoever it leaves out; a pasted list of names; the example people.      *)
(*                                                                         *)
(* An account is reached by its number.  Names are told apart only as the  *)
(* code does: the spare's, an example's, anybody else's.  Passwords are    *)
(* left to SignIn and the other ways of archiving to Custody.              *)
(***************************************************************************)
EXTENDS Naturals, FiniteSets, Sequences, SequencesExt, Absent

CONSTANTS
    People,              \* student numbers; model values
    ExampleNumbers,      \* those of the example people
    NumberRange,         \* the range AddNames counts through, a sequence
    Rosters,             \* files: the numbers of the rows, those with a photo
    Browsers, Importers, \* requests in flight at once
    Databases,           \* what the first start may find
    MaxCalls, MaxStarts  \* bounds: requests made, starts of the process

ASSUME NumbersExist ==
    /\ IsFiniteSet(People) /\ People \cap Nat = {} \* an id is no student number
    /\ ExampleNumbers \subseteq People
    /\ Rosters \subseteq [rows : SUBSET People, photos : SUBSET People]
    /\ NumberRange \in Seq(People)

Account == [id : Nat, name : {"person", "Example", "Failsafe Admin"}, admin : BOOLEAN,
            archived : BOOLEAN, loan : {"never", "open", "returned"},
            photo : Nat \cup People \cup {None}]
PhotoMove == [number : People, file : BOOLEAN]
SpareCall == [at : {"env", "ensure", "retire"}, number : People, old : People \cup {None}]
RosterRow == [number : People, id : Nat, had : BOOLEAN]
RowImport == [at : {"row", "photo", "upsert"}, todo : SUBSET People, photos : SUBSET People,
              name : {"person", "Example"}, named : SUBSET People, failed : BOOLEAN,
              archive : BOOLEAN, row : RosterRow \cup {None}]
Archiving == [at : {"archive"}, ids : SUBSET Nat]

ASSUME NoneIsNobody ==
    None \notin Nat \cup People \cup Account \cup PhotoMove \cup SpareCall \cup RosterRow
              \cup RowImport \cup Archiving

VARIABLES
    account,   \* profiles, by number
    lastId,    \* ids made so far
    files,     \* photos in uploads/profiles, named by an id or a number
    envNumber, \* ADMIN_STUDENT_NUMBER
    start,     \* what the start has to do next
    spare,     \* the ConfigureFailsafe in flight
    import,    \* each ImportRoster in flight
    adding,    \* what the holder of the add_names lock will insert
    first,     \* each browser past CreateFirstAdmin's check
    deleting,  \* the accounts a DeleteUser past its checks will delete, by id
    settled,   \* the last ConfigureFailsafe to begin was answered
    calls, starts

enrolmentVars == <<account, lastId, files, envNumber, start, spare, import, adding,
                   first, deleting, settled, calls, starts>>
accountVars == <<account, lastId>>
requestVars == <<spare, import, adding, first, deleting>>

Person(id, name) == [id |-> id, name |-> name, admin |-> FALSE, archived |-> FALSE,
                     loan |-> "never", photo |-> None]
Enrolled == {n \in People : account[n] # None}
Up == start.at = "up"
\* Some admin has a session.
AdminAsks == Up /\ \E n \in Enrolled : account[n].admin
Called == calls < MaxCalls /\ calls' = calls + 1

\* A photo the row names is there, or renamed already.
PhotoIsThere(a, n, there) ==
    a.photo # None =>
        /\ a.photo \in {n, a.id}
        /\ \/ a.photo \in there
           \/ a.photo = n /\ a.id \in there

\* What a start may find: ids of their own, photos that are there, nobody
\* archived with an item.
ASSUME DatabasesAreSound ==
    \A d \in Databases :
        LET here == {n \in People : d.account[n] # None}
        IN  /\ d.account \in [People -> Account \cup {None}]
            /\ d.files \subseteq Nat \cup People /\ d.envNumber \in People \cup {None}
            /\ \A n \in here :
                  /\ d.account[n].id \in 1..Cardinality(here)
                  /\ \A m \in here \ {n} : d.account[m].id # d.account[n].id
                  /\ PhotoIsThere(d.account[n], n, d.files)
                  /\ d.account[n].archived => d.account[n].loan # "open"

EnrolmentTypeOK ==
    /\ account \in [People -> Account \cup {None}] /\ lastId \in Nat
    /\ files \subseteq Nat \cup People /\ envNumber \in People \cup {None}
    /\ start \in [at : {"failsafe", "up"}]
          \cup [at : {"photos"}, todo : SUBSET People, moved : PhotoMove \cup {None}]
    /\ spare \in SpareCall \cup {None}
    /\ import \in [Importers -> RowImport \cup Archiving \cup {None}]
    /\ adding \in Seq(People) \cup {None}
    /\ first \in [Browsers -> People \cup {None}]
    /\ deleting \subseteq Nat /\ settled \in BOOLEAN

EnrolmentInit ==
    /\ \E d \in Databases :
          /\ account = d.account /\ lastId = Cardinality({n \in People : d.account[n] # None})
          /\ files = d.files /\ envNumber = d.envNumber
    /\ start = [at |-> "failsafe"]
    /\ spare = None /\ adding = None
    /\ import = [i \in Importers |-> None]
    /\ first = [b \in Browsers |-> None]
    /\ deleting = {} /\ settled = FALSE
    /\ calls = 0 /\ starts = 1

-----------------------------------------------------------------------------
(* The first admin.                                                         *)

\* Bug: the check is not made under the table's lock.
TableLocked_Never == FALSE

TableLocked == \E b \in Browsers : first[b] # None

\* The lock is waited for; the check is made under it.
FindsNobody(b, n) ==
    /\ Up /\ first[b] = None /\ ~TableLocked /\ Enrolled = {}
    /\ first' = [first EXCEPT ![b] = n]
    /\ UNCHANGED <<accountVars, files, envNumber, start, spare, import, adding, deleting,
                   settled, calls, starts>>

CreateFirstAdmin(b) ==
    /\ first[b] # None
    /\ first' = [first EXCEPT ![b] = None]
    /\ \/ /\ account[first[b]] = None
          /\ account' = [account EXCEPT ![first[b]] =
                [Person(lastId + 1, "person") EXCEPT !.admin = TRUE]]
          /\ lastId' = lastId + 1
       \/ UNCHANGED accountVars \* the statement or its commit fails
    /\ UNCHANGED <<files, envNumber, start, spare, import, adding, deleting, settled, calls,
                   starts>>

-----------------------------------------------------------------------------
(* The spare admin, and a start of the process.                             *)

EnsureFailsafeAdmin(n) ==
    IF account[n] = None
    THEN /\ account' = [account EXCEPT ![n] =
                [Person(lastId + 1, "Failsafe Admin") EXCEPT !.admin = TRUE]]
         /\ lastId' = lastId + 1
    ELSE /\ account' = [account EXCEPT ![n].admin = TRUE, ![n].archived = FALSE]
         /\ UNCHANGED lastId

NamedByNumber == {n \in Enrolled : account[n].photo = n}
Renaming == [at |-> "photos", todo |-> NamedByNumber, moved |-> None]

\* A failure is logged, and the start goes on without a spare.
StartsFailsafe ==
    /\ start.at = "failsafe"
    /\ \/ envNumber # None /\ EnsureFailsafeAdmin(envNumber)
       \/ UNCHANGED accountVars
    /\ start' = Renaming
    /\ UNCHANGED <<files, envNumber, requestVars, settled, calls, starts>>

\* RenameProfilePhotosByID: the file, then the row.
MovesPhoto(n) ==
    /\ start.at = "photos" /\ start.moved = None /\ n \in start.todo
    /\ files' = IF n \in files THEN (files \ {n}) \cup {account[n].id} ELSE files
    /\ start' = [start EXCEPT !.moved = [number |-> n, file |-> n \in files]]
    /\ UNCHANGED <<accountVars, envNumber, requestVars, settled, calls, starts>>

\* When the row cannot be written a file that was moved is put back.
RenameProfilePhotosByID ==
    /\ start.at = "photos" /\ start.moved # None
    /\ LET n == start.moved.number
       IN  /\ \/ /\ account' = [account EXCEPT ![n].photo = account[n].id]
                 /\ UNCHANGED files
              \/ /\ files' = IF start.moved.file
                             THEN (files \ {account[n].id}) \cup {n} ELSE files
                 /\ UNCHANGED account
           /\ start' = [start EXCEPT !.moved = None, !.todo = start.todo \ {n}]
    /\ UNCHANGED <<lastId, envNumber, requestVars, settled, calls, starts>>

Serves ==
    /\ start.at = "photos" /\ start.moved = None /\ start.todo = {}
    /\ start' = [at |-> "up"]
    /\ UNCHANGED <<accountVars, files, envNumber, requestVars, settled, calls, starts>>

Crashes ==
    /\ starts < MaxStarts /\ starts' = starts + 1
    /\ start' = [at |-> "failsafe"]
    /\ spare' = None /\ adding' = None /\ deleting' = {}
    /\ import' = [i \in Importers |-> None]
    /\ first' = [b \in Browsers |-> None]
    /\ UNCHANGED <<accountVars, files, envNumber, settled, calls>>

NumberIsAnOrdinaryAccounts(n) == account[n] # None /\ account[n].name # "Failsafe Admin"

ChecksFailsafeNumber(n) ==
    /\ AdminAsks /\ spare = None /\ ~NumberIsAnOrdinaryAccounts(n) /\ Called
    /\ spare' = [at |-> "env", number |-> n, old |-> envNumber]
    /\ settled' = FALSE
    /\ UNCHANGED <<accountVars, files, envNumber, start, import, adding, first, deleting,
                   starts>>

SpareGoesOn(at) ==
    \/ spare' = [spare EXCEPT !.at = at]
    \/ spare' = None \* whatever the step did, its answer is lost

\* The file is written beside the old one and renamed over it.
SetEnvValues ==
    /\ spare # None /\ spare.at = "env"
    /\ envNumber' \in {envNumber, spare.number}
    /\ IF envNumber' = spare.number THEN SpareGoesOn("ensure") ELSE spare' = None
    /\ UNCHANGED <<accountVars, files, start, import, adding, first, deleting, settled, calls,
                   starts>>

EnsuresSpare ==
    /\ spare # None /\ spare.at = "ensure" /\ ~TableLocked
    /\ \/ EnsureFailsafeAdmin(spare.number) /\ SpareGoesOn("retire")
       \/ UNCHANGED accountVars /\ spare' = None
    /\ UNCHANGED <<files, envNumber, start, import, adding, first, deleting, settled, calls,
                   starts>>

\* Bug: only the account of the number .env held is retired.
IsRetired_Previous(n) == account[n].admin /\ n # spare.number /\ n = spare.old

IsRetired(n) ==
    /\ account[n].name = "Failsafe Admin" /\ account[n].admin /\ n # spare.number

ConfigureFailsafe ==
    /\ spare # None /\ spare.at = "retire" /\ spare' = None
    /\ \/ /\ account' = [n \in People |-> IF account[n] # None /\ IsRetired(n)
                            THEN [account[n] EXCEPT !.admin = FALSE] ELSE account[n]]
          /\ settled' = TRUE
       \/ UNCHANGED <<account, settled>>
    /\ UNCHANGED <<lastId, files, envNumber, start, import, adding, first, deleting, calls,
                   starts>>

-----------------------------------------------------------------------------
(* Accounts in bulk.                                                        *)

Imports(i, roster, name, archive) ==
    /\ AdminAsks /\ import[i] = None /\ Called
    /\ import' = [import EXCEPT ![i] =
          [at |-> "row", todo |-> roster.rows, photos |-> roster.photos, name |-> name,
           named |-> {}, failed |-> FALSE, archive |-> archive, row |-> None]]
    /\ UNCHANGED <<accountVars, files, envNumber, start, spare, adding, first, deleting,
                   settled, starts>>

ImportRoster(i) == \E roster \in Rosters, archive \in BOOLEAN :
    Imports(i, roster, "person", archive)

\* Skipped when a real person has an example's number.
LoadExamples(i) ==
    /\ \A n \in ExampleNumbers \cap Enrolled : account[n].name = "Example"
    /\ Imports(i, [rows |-> ExampleNumbers, photos |-> {}], "Example", FALSE)

RowDone(i, n, ok) ==
    import' = [import EXCEPT
        ![i].at = "row", ![i].row = None, ![i].todo = @ \ {n},
        ![i].named = IF ok THEN @ \cup {n} ELSE @, ![i].failed = @ \/ ~ok]

Importing(i, at) == import[i] # None /\ import[i].at = at

\* A row with no photo; it may be refused.
UpsertProfileRow(i, n) ==
    /\ Importing(i, "row") /\ n \in import[i].todo \ import[i].photos /\ ~TableLocked
    /\ \/ /\ RowDone(i, n, TRUE)
          /\ IF account[n] = None
             THEN /\ account' = [account EXCEPT ![n] = Person(lastId + 1, import[i].name)]
                  /\ lastId' = lastId + 1
             ELSE /\ account' = [account EXCEPT ![n].name = import[i].name,
                                                ![n].archived = FALSE]
                  /\ UNCHANGED lastId
       \/ RowDone(i, n, FALSE) /\ UNCHANGED accountVars
    /\ UNCHANGED <<files, envNumber, start, spare, adding, first, deleting, settled, calls,
                   starts>>

\* The account's id, or the one it will get.
ChoosesId(i, n) ==
    /\ Importing(i, "row") /\ n \in import[i].todo \cap import[i].photos
    /\ LET id == IF account[n] = None THEN lastId + 1 ELSE account[n].id
       IN  /\ import' = [import EXCEPT ![i].at = "photo",
                           ![i].row = [number |-> n, id |-> id, had |-> FALSE]]
           /\ lastId' = IF account[n] = None THEN id ELSE lastId
    /\ UNCHANGED <<account, files, envNumber, start, spare, adding, first, deleting, settled,
                   calls, starts>>

\* storePhoto: under the photo's lock, the file and then the row.
PublishesPhoto(i) ==
    /\ Importing(i, "photo")
    /\ \A j \in Importers :
          Importing(j, "upsert") => import[j].row.id # import[i].row.id
    /\ import' = [import EXCEPT ![i].at = "upsert", ![i].row.had = import[i].row.id \in files]
    /\ files' = files \cup {import[i].row.id}
    /\ UNCHANGED <<accountVars, envNumber, start, spare, adding, first, deleting, settled,
                   calls, starts>>

\* Bug: the update takes whatever row has the number.
IdIsTheRows_Any(id, n) == TRUE

IdIsTheRows(id, n) == account[n].id = id

UpsertProfileRowWithID(i) ==
    /\ Importing(i, "upsert") /\ ~TableLocked
    /\ LET n == import[i].row.number
           id == import[i].row.id
       IN  \/ /\ IF account[n] = None THEN TRUE ELSE IdIsTheRows(id, n)
              /\ account' = [account EXCEPT ![n] =
                    IF @ = None THEN [Person(id, "person") EXCEPT !.photo = id]
                    ELSE [@ EXCEPT !.photo = id, !.name = "person", !.archived = FALSE]]
              /\ RowDone(i, n, TRUE) /\ UNCHANGED files
           \/ \* refused, or the database fails: the photo is taken back
              /\ files' = IF import[i].row.had THEN files ELSE files \ {id}
              /\ RowDone(i, n, FALSE) /\ UNCHANGED account
    /\ UNCHANGED <<lastId, envNumber, start, spare, adding, first, deleting, settled, calls,
                   starts>>

HoldsNothing(n) == account[n].loan # "open"

\* archiveMissing reads whom the roster leaves out...
FindsMissing(i) ==
    /\ Importing(i, "row") /\ import[i].todo = {}
    /\ LET missing == {n \in Enrolled \ import[i].named :
               ~account[n].archived /\ ~account[n].admin /\ HoldsNothing(n)}
       IN  import' = [import EXCEPT ![i] =
               IF import[i].archive /\ ~import[i].failed /\ import[i].named # {}
               THEN [at |-> "archive", ids |-> {account[n].id : n \in missing}]
               ELSE None]
    /\ UNCHANGED <<accountVars, files, envNumber, start, spare, adding, first, deleting,
                   settled, calls, starts>>

\* Bug: the transaction trusts what was read before it.
IsMissing_AsRead(n, ids) == account[n].id \in ids

IsMissing(n, ids) == account[n].id \in ids /\ ~account[n].archived /\ HoldsNothing(n)

\* ... and archives them, the rows locked, unless they borrowed meanwhile.
ArchiveMissing(i) ==
    /\ Importing(i, "archive") /\ import' = [import EXCEPT ![i] = None]
    /\ \/ account' = [n \in People |->
              IF account[n] = None THEN None
              ELSE IF IsMissing(n, import[i].ids) THEN [account[n] EXCEPT !.archived = TRUE]
              ELSE account[n]]
       \/ UNCHANGED account
    /\ UNCHANGED <<lastId, files, envNumber, start, spare, adding, first, deleting, settled,
                   calls, starts>>

\* AddNames plans under its lock: the line with a number of its own, then the
\* line numbered from the range.  A line whose number is taken refuses the list.
CountsTo(k, own) ==
    /\ NumberRange[k] \notin Enrolled \cup ToSet(own)
    /\ \A j \in 1..(k - 1) : NumberRange[j] \in Enrolled \cup ToSet(own)

PlanAddNames(own, rest) ==
    /\ AdminAsks /\ adding = None /\ Called
    /\ ToSet(own) \cap Enrolled = {} /\ own \o rest # <<>>
    /\ rest # <<>> => \E k \in DOMAIN NumberRange : CountsTo(k, own) /\ rest = <<NumberRange[k]>>
    /\ adding' = own \o rest
    /\ UNCHANGED <<accountVars, files, envNumber, start, spare, import, first, deleting,
                   settled, starts>>

\* Every line or none: another writer may have taken a number.
AddNames ==
    /\ adding # None /\ adding' = None /\ ~TableLocked
    /\ \/ /\ ToSet(adding) \cap Enrolled = {}
          /\ account' = [n \in People |-> IF n \in ToSet(adding)
                THEN Person(lastId + CHOOSE k \in DOMAIN adding : adding[k] = n, "person")
                ELSE account[n]]
          /\ lastId' = lastId + Len(adding)
       \/ UNCHANGED accountVars
    /\ UNCHANGED <<files, envNumber, start, spare, import, first, deleting, settled, calls,
                   starts>>

\* An example person whom an item's history names is kept.
RemoveExamples ==
    /\ AdminAsks /\ Called /\ ~TableLocked
    /\ account' = [n \in People |->
          IF n \in ExampleNumbers \cap Enrolled
          THEN IF account[n].name = "Example" /\ account[n].loan = "never"
               THEN None ELSE account[n]
          ELSE account[n]]
    /\ UNCHANGED <<lastId, files, envNumber, start, requestVars, settled, starts>>

\* DeleteUser: not the admin's own account, nor one that holds an item...
DeleteUser(n) ==
    /\ Up /\ \E m \in Enrolled \ {n} : account[m].admin
    /\ n \in Enrolled /\ HoldsNothing(n) /\ Called
    /\ deleting' = deleting \cup {account[n].id}
    /\ UNCHANGED <<accountVars, files, envNumber, start, spare, import, adding, first,
                   settled, starts>>

\* ... and the row, unless an item's history names it.  By now whoever asked
\* may be gone too: two admins who delete each other leave nobody.
DeleteProfile(id) ==
    /\ id \in deleting /\ deleting' = deleting \ {id} /\ ~TableLocked
    /\ \/ account' = [n \in People |->
              IF account[n] = None THEN None
              ELSE IF account[n].id = id /\ account[n].loan = "never" THEN None
              ELSE account[n]]
       \/ UNCHANGED account
    /\ UNCHANGED <<lastId, files, envNumber, start, spare, import, adding, first, settled,
                   calls, starts>>

\* What the rest of the program does to an account meanwhile.  Nobody makes a
\* retired spare an admin again by hand.
Sets(n, change) ==
    /\ Up /\ Called
    /\ account' = [account EXCEPT ![n] = change]
    /\ UNCHANGED <<lastId, files, envNumber, start, requestVars, settled, starts>>

Checkout(n) ==
    /\ n \in Enrolled /\ ~account[n].archived /\ account[n].loan # "open"
    /\ Sets(n, [account[n] EXCEPT !.loan = "open"])
Return(n) ==
    /\ n \in Enrolled /\ account[n].loan = "open"
    /\ Sets(n, [account[n] EXCEPT !.loan = "returned"])
SetAdmin(n) ==
    /\ n \in Enrolled /\ account[n].name # "Failsafe Admin"
    /\ Sets(n, [account[n] EXCEPT !.admin = ~@])

EnrolmentNext ==
    \/ StartsFailsafe \/ RenameProfilePhotosByID \/ Serves \/ Crashes
    \/ SetEnvValues \/ EnsuresSpare \/ ConfigureFailsafe \/ AddNames \/ RemoveExamples
    \/ \E id \in deleting : DeleteProfile(id)
    \/ \E b \in Browsers : CreateFirstAdmin(b) \/ \E n \in People : FindsNobody(b, n)
    \/ \E n \in People :
         MovesPhoto(n) \/ ChecksFailsafeNumber(n) \/ Checkout(n) \/ Return(n) \/ SetAdmin(n)
         \/ DeleteUser(n)
    \/ \E own, rest \in {<<>>} \cup {<<n>> : n \in People} : PlanAddNames(own, rest)
    \/ \E i \in Importers :
         \/ ImportRoster(i) \/ LoadExamples(i)
         \/ \E n \in People : UpsertProfileRow(i, n) \/ ChoosesId(i, n)
         \/ PublishesPhoto(i) \/ UpsertProfileRowWithID(i)
         \/ FindsMissing(i) \/ ArchiveMissing(i)

EnrolmentSpec == EnrolmentInit /\ [][EnrolmentNext]_enrolmentVars

-----------------------------------------------------------------------------
\* A browser past the form's check is the only one, and nobody has an account
\* until its own is made, whoever else is writing: two browsers racing the form
\* make one admin and one refusal, and nobody gets in without a session while
\* there is an account.
FirstAdminIsFirst ==
    \A b \in Browsers : first[b] # None =>
        Enrolled = {} /\ \A c \in Browsers : first[c] # None => c = b

\* Once the spare admin has been set, no earlier one is an admin: not even when
\* the call before was cut short with .env written, by a crash or a failure.
SpareIsRetired ==
    settled => \A n \in Enrolled :
        account[n].name = "Failsafe Admin" /\ account[n].admin => n = envNumber

\* Nobody holding an item is archived by a roster that leaves them out, though
\* it reads who holds what before the transaction that archives.
HoldersAreNotArchived == \A n \in Enrolled : account[n].archived => HoldsNothing(n)

\* A photo a row names is that account's own and is there, whichever imports of
\* the number overlapped and wherever a start was cut short; at worst a file
\* already renamed waits for the next start to find its row.
PhotosAreTheirOwn == \A n \in Enrolled : PhotoIsThere(account[n], n, files)
=============================================================================
