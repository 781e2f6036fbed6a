--------------------------- MODULE EnrolmentProofs ---------------------------
(***************************************************************************)
(* Proofs about Enrolment.  EnrolmentInductive says what is alone while a  *)
(* start or the first admin's form runs, whose an id is, what a published  *)
(* photo waits for, and what the four properties need of all that.         *)
(***************************************************************************)
EXTENDS Enrolment, FiniteSetTheorems, TLAPS

----------------------------------------------------------------------------
(* The invariant.                                                          *)

\* While the process starts it serves no request.
NobodyAsksYet ==
    start.at # "up" =>
        /\ spare = None /\ adding = None /\ deleting = {}
        /\ \A i \in Importers : import[i] = None
        /\ \A b \in Browsers : first[b] = None

\* A start renames photos that are named by number, and its file comes first.
RenamesTheFileFirst ==
    start.at = "photos" =>
        /\ \A n \in start.todo : account[n] # None /\ account[n].photo = n
        /\ start.moved # None =>
              start.moved.number \in start.todo /\ account[start.moved.number].id \in files

\* A spare admin who is one.
IsSpare(n) == account[n] # None /\ account[n].name = "Failsafe Admin" /\ account[n].admin

\* .env holds the number of the call in flight before its account is made.
SpareInForce ==
    /\ spare # None => ~settled
    /\ spare # None /\ spare.at # "env" => envNumber = spare.number
    /\ settled => \A n \in People : IsSpare(n) => n = envNumber

HasRow(i) == import[i] # None /\ import[i].at \in {"photo", "upsert"}

\* An id is one number's: an account has it, or imports that will write it.
IdsBelong ==
    /\ \A n \in Enrolled :
          account[n].id \in 1..lastId /\ \A m \in Enrolled : account[m].id = account[n].id => m = n
    /\ \A i \in Importers : import[i] # None /\ import[i].at = "row" => import[i].row = None
    /\ \A i \in Importers : HasRow(i) =>
          /\ import[i].row # None /\ import[i].row.id \in 1..lastId
          /\ \A n \in Enrolled : account[n].id = import[i].row.id => n = import[i].row.number
          /\ \A j \in Importers : HasRow(j) /\ import[j].row.id = import[i].row.id =>
                import[j].row.number = import[i].row.number

\* A photo published and not yet written is one import's; if it replaced none,
\* no account needs it.
PublishedAlone ==
    \A i \in Importers : Importing(i, "upsert") =>
        /\ import[i].row.id \in files
        /\ \A j \in Importers : Importing(j, "upsert") /\ import[j].row.id = import[i].row.id => j = i
        /\ ~import[i].row.had => \A n \in Enrolled :
              /\ account[n].photo # import[i].row.id
              /\ account[n].id = import[i].row.id /\ account[n].photo = n => n \in files

EnrolmentInductive ==
    /\ EnrolmentTypeOK
    /\ NobodyAsksYet /\ RenamesTheFileFirst /\ SpareInForce
    /\ FirstAdminIsFirst /\ HoldersAreNotArchived
    /\ IdsBelong /\ PublishedAlone /\ PhotosAreTheirOwn

----------------------------------------------------------------------------
(* What a step does to the accounts.                                       *)

\* An account keeps its id and its photo; a new one has a new id and no photo.
ProfileStep(n) ==
    account'[n] # None =>
        IF account[n] = None
        THEN account'[n].id \in (lastId + 1)..lastId' /\ account'[n].photo = None
        ELSE account'[n].id = account[n].id /\ account'[n].photo = account[n].photo

IsNew(n) == account[n] = None /\ account'[n] # None

AccountsStep ==
    /\ account' \in [People -> Account \cup {None}]
    /\ lastId' \in Nat /\ lastId <= lastId'
    /\ \A n \in People : ProfileStep(n)
    /\ \A n, m \in People : IsNew(n) /\ IsNew(m) /\ account'[n].id = account'[m].id => n = m
    /\ \A n \in People : account'[n] # None /\ account'[n].archived => account'[n].loan # "open"

LEMMA AccountTyped ==
    ASSUME EnrolmentTypeOK, NEW n \in People, account[n] # None
    PROVE  account[n] \in Account
  BY DEF EnrolmentTypeOK

LEMMA SameAccounts ==
    ASSUME EnrolmentTypeOK, HoldersAreNotArchived, account' = account, lastId' = lastId
    PROVE  AccountsStep
  BY DEF EnrolmentTypeOK, HoldersAreNotArchived, HoldsNothing, Enrolled, AccountsStep, ProfileStep, IsNew

\* One account is changed.
LEMMA OneChanged ==
    ASSUME EnrolmentTypeOK, HoldersAreNotArchived, NEW n \in People, NEW b \in Account,
           account' = [account EXCEPT ![n] = b], lastId' = lastId,
           account[n] # None, b.id = account[n].id, b.photo = account[n].photo,
           b.archived => b.loan # "open"
    PROVE  /\ AccountsStep /\ account'[n] = b /\ Enrolled' = Enrolled
           /\ \A m \in People \ {n} : account'[m] = account[m]
  <1>1. b # None
    BY NoneIsNobody
  <1>2. /\ account' \in [People -> Account \cup {None}] /\ account'[n] = b
        /\ \A m \in People \ {n} : account'[m] = account[m]
    BY DEF EnrolmentTypeOK
  <1>3. Enrolled' = Enrolled
    BY <1>1, <1>2 DEF Enrolled
  <1> QED
    BY <1>1, <1>2, <1>3
       DEF EnrolmentTypeOK, HoldersAreNotArchived, HoldsNothing, Enrolled, AccountsStep, ProfileStep, IsNew

\* One account is made.
LEMMA OneMade ==
    ASSUME EnrolmentTypeOK, HoldersAreNotArchived, NEW n \in People, NEW b \in Account,
           account' = [account EXCEPT ![n] = b], lastId' = lastId + 1,
           account[n] = None, b.id = lastId + 1, b.photo = None, b.archived = FALSE
    PROVE  /\ AccountsStep /\ account'[n] = b /\ Enrolled' = Enrolled \cup {n}
           /\ \A m \in People \ {n} : account'[m] = account[m]
  <1>1. b # None
    BY NoneIsNobody
  <1>2. /\ account' \in [People -> Account \cup {None}] /\ account'[n] = b
        /\ \A m \in People \ {n} : account'[m] = account[m]
    BY DEF EnrolmentTypeOK
  <1>3. Enrolled' = Enrolled \cup {n}
    BY <1>1, <1>2 DEF Enrolled
  <1>4. lastId \in Nat
    BY DEF EnrolmentTypeOK
  <1> QED
    BY <1>1, <1>2, <1>3, <1>4
       DEF HoldersAreNotArchived, HoldsNothing, Enrolled, AccountsStep, ProfileStep, IsNew

----------------------------------------------------------------------------
(* What such a step keeps.                                                 *)

\* An import goes on with the row it has, or drops it.
ImportsStep ==
    /\ import' \in [Importers -> RowImport \cup Archiving \cup {None}]
    /\ \A i \in Importers : HasRow(i)' => import'[i] = import[i]
    /\ \A i \in Importers : import'[i] # None /\ import'[i].at = "row" => import'[i].row = None

LEMMA SameImports ==
    ASSUME EnrolmentTypeOK, IdsBelong, import' = import
    PROVE  ImportsStep
  BY DEF EnrolmentTypeOK, IdsBelong, ImportsStep

LEMMA IdsStay ==
    ASSUME EnrolmentTypeOK, IdsBelong, AccountsStep, ImportsStep
    PROVE  IdsBelong'
  <1>1. /\ \A n \in Enrolled :
              account[n].id \in 1..lastId /\ \A m \in Enrolled : account[m].id = account[n].id => m = n
        /\ \A i \in Importers : HasRow(i) =>
              /\ import[i].row # None /\ import[i].row.id \in 1..lastId
              /\ \A n \in Enrolled : account[n].id = import[i].row.id => n = import[i].row.number
              /\ \A j \in Importers : HasRow(j) /\ import[j].row.id = import[i].row.id =>
                    import[j].row.number = import[i].row.number
    BY DEF IdsBelong
  <1>2. lastId \in Nat /\ lastId' \in Nat /\ lastId <= lastId'
    BY DEF EnrolmentTypeOK, AccountsStep
  <1>3. \A n \in Enrolled' :
            \/ n \in Enrolled /\ account'[n].id = account[n].id
            \/ n \notin Enrolled /\ IsNew(n) /\ account'[n].id \in (lastId + 1)..lastId'
    BY DEF AccountsStep, ProfileStep, Enrolled, IsNew
  <1>4. ASSUME NEW n \in Enrolled'
        PROVE  account'[n].id \in 1..lastId' /\ \A m \in Enrolled' : account'[m].id = account'[n].id => m = n
    <2>1. account'[n].id \in 1..lastId'
      BY <1>1, <1>2, <1>3
    <2>2. ASSUME NEW m \in Enrolled', account'[m].id = account'[n].id PROVE m = n
      <3>1. CASE n \in Enrolled /\ m \in Enrolled
        BY <1>1, <1>3, <2>2, <3>1
      <3>2. CASE n \notin Enrolled /\ m \notin Enrolled
        BY <1>3, <2>2, <3>2 DEF AccountsStep, Enrolled
      <3>3. CASE n \in Enrolled /\ m \notin Enrolled
        BY <1>1, <1>2, <1>3, <2>2, <3>3
      <3>4. CASE n \notin Enrolled /\ m \in Enrolled
        BY <1>1, <1>2, <1>3, <2>2, <3>4
      <3> QED
        BY <3>1, <3>2, <3>3, <3>4
    <2> QED
      BY <2>1, <2>2
  <1>5. \A i \in Importers : HasRow(i)' => HasRow(i) /\ import'[i] = import[i]
    BY DEF ImportsStep, HasRow
  <1>6. ASSUME NEW i \in Importers, HasRow(i)'
        PROVE  /\ import'[i].row # None /\ import'[i].row.id \in 1..lastId'
               /\ \A n \in Enrolled' : account'[n].id = import'[i].row.id => n = import'[i].row.number
               /\ \A j \in Importers : HasRow(j)' /\ import'[j].row.id = import'[i].row.id =>
                     import'[j].row.number = import'[i].row.number
    <2>1. HasRow(i) /\ import'[i] = import[i]
      BY <1>5, <1>6
    <2>2. import'[i].row # None /\ import[i].row.id \in 1..lastId /\ import'[i].row.id \in 1..lastId'
      BY <1>1, <1>2, <2>1
    <2>3. \A n \in Enrolled' : account'[n].id = import'[i].row.id => n = import'[i].row.number
      BY <1>1, <1>2, <1>3, <2>1, <2>2
    <2>4. \A j \in Importers : HasRow(j)' /\ import'[j].row.id = import'[i].row.id =>
              import'[j].row.number = import'[i].row.number
      BY <1>1, <1>5, <2>1
    <2> QED
      BY <2>2, <2>3, <2>4
  <1>7. \A i \in Importers : import'[i] # None /\ import'[i].at = "row" => import'[i].row = None
    BY DEF ImportsStep
  <1> QED
    BY <1>4, <1>6, <1>7 DEF IdsBelong

LEMMA PhotosStay ==
    ASSUME EnrolmentTypeOK, IdsBelong, PublishedAlone, PhotosAreTheirOwn,
           AccountsStep, ImportsStep, files' = files
    PROVE  PublishedAlone' /\ PhotosAreTheirOwn'
  <1>1. \A i \in Importers : Importing(i, "upsert")' => HasRow(i) /\ Importing(i, "upsert") /\ import'[i] = import[i]
    BY DEF ImportsStep, HasRow, Importing
  <1>2. \A n \in Enrolled' :
            \/ n \in Enrolled /\ account'[n].id = account[n].id /\ account'[n].photo = account[n].photo
            \/ account'[n].id \in (lastId + 1)..lastId' /\ account'[n].photo = None
    BY DEF AccountsStep, ProfileStep, Enrolled
  <1>3. ASSUME NEW n \in Enrolled' PROVE PhotoIsThere(account[n], n, files)'
    BY <1>2 DEF PhotosAreTheirOwn, PhotoIsThere
  <1>4. ASSUME NEW i \in Importers, Importing(i, "upsert")'
        PROVE  /\ import'[i].row.id \in files
               /\ \A j \in Importers : Importing(j, "upsert")' /\ import'[j].row.id = import'[i].row.id => j = i
               /\ ~import'[i].row.had => \A n \in Enrolled' :
                     /\ account'[n].photo # import'[i].row.id
                     /\ account'[n].id = import'[i].row.id /\ account'[n].photo = n => n \in files
    <2>1. Importing(i, "upsert") /\ import'[i] = import[i] /\ HasRow(i)
      BY <1>1, <1>4
    <2>2. import[i].row.id \in 1..lastId /\ lastId \in Nat /\ None \notin Nat \cup People
      BY <2>1, NoneIsNobody DEF IdsBelong, EnrolmentTypeOK
    <2>3. /\ import[i].row.id \in files
          /\ \A j \in Importers : Importing(j, "upsert") /\ import[j].row.id = import[i].row.id => j = i
          /\ ~import[i].row.had => \A n \in Enrolled :
                /\ account[n].photo # import[i].row.id
                /\ account[n].id = import[i].row.id /\ account[n].photo = n => n \in files
      BY <2>1 DEF PublishedAlone
    <2>4. \A n \in Enrolled' : account'[n].photo = None \/
             (n \in Enrolled /\ account'[n].id = account[n].id /\ account'[n].photo = account[n].photo)
      BY <1>2
    <2>5. \A n \in Enrolled' : n # None /\ n \in People
      BY <2>2 DEF Enrolled
    <2>6. None # import[i].row.id
      BY <2>2
    <2>7. ~import[i].row.had => \A n \in Enrolled' :
                     /\ account'[n].photo # import[i].row.id
                     /\ account'[n].id = import[i].row.id /\ account'[n].photo = n => n \in files
      BY <2>3, <2>4, <2>5, <2>6
    <2> QED
      BY <1>1, <2>1, <2>3, <2>7
  <1>5. PublishedAlone'
    BY <1>4 DEF PublishedAlone
  <1> QED
    BY <1>3, <1>5 DEF PhotosAreTheirOwn

LEMMA HoldersStay ==
    ASSUME AccountsStep
    PROVE  HoldersAreNotArchived'
  BY DEF AccountsStep, HoldersAreNotArchived, HoldsNothing, Enrolled

\* Nobody gets past the check who was not, and nobody is there for whoever is.
FormStep ==
    /\ first' \in [Browsers -> People \cup {None}]
    /\ \A b \in Browsers : first'[b] # None => first'[b] = first[b] /\ Enrolled' \subseteq Enrolled

LEMMA FormStays ==
    ASSUME FirstAdminIsFirst, FormStep
    PROVE  FirstAdminIsFirst'
  BY DEF FirstAdminIsFirst, FormStep

\* A step of a request that is not the spare's and moves no file.
LEMMA RequestStep ==
    ASSUME EnrolmentInductive, Up, UNCHANGED <<files, envNumber, start, spare, settled>>,
           AccountsStep, ImportsStep, adding' \in Seq(People) \cup {None}, FormStep,
           UNCHANGED deleting \/ deleting' \subseteq Nat, \A n \in People : IsSpare(n)' => IsSpare(n)
    PROVE  EnrolmentInductive'
  <1> USE DEF EnrolmentInductive
  <1>1. EnrolmentTypeOK'
    BY DEF EnrolmentTypeOK, AccountsStep, ImportsStep, FormStep
  <1>2. NobodyAsksYet' /\ RenamesTheFileFirst'
    BY DEF Up, NobodyAsksYet, RenamesTheFileFirst
  <1>3. FirstAdminIsFirst'
    BY FormStays
  <1>4. SpareInForce'
    BY DEF SpareInForce
  <1>5. HoldersAreNotArchived' /\ IdsBelong' /\ PublishedAlone' /\ PhotosAreTheirOwn'
    BY HoldersStay, IdsStay, PhotosStay
  <1> QED
    BY <1>1, <1>2, <1>3, <1>4, <1>5

LEMMA FormIdle ==
    ASSUME EnrolmentTypeOK, first' = first, ~TableLocked \/ Enrolled' \subseteq Enrolled
    PROVE  FormStep
  BY DEF EnrolmentTypeOK, FormStep, TableLocked

\* Whoever asks is answered by a program that is up.
LEMMA AskedWhenUp ==
    ASSUME EnrolmentInductive
    PROVE  /\ spare # None => Up
           /\ adding # None => Up
           /\ \A i \in Importers : import[i] # None => Up
           /\ \A b \in Browsers : first[b] # None => Up
           /\ deleting # {} => Up
  BY DEF EnrolmentInductive, NobodyAsksYet, Up

\* A step that leaves the accounts alone.
LEMMA QuietStep ==
    ASSUME EnrolmentInductive, Up, UNCHANGED <<accountVars, files, envNumber, start, spare, first, settled>>,
           ImportsStep, adding' \in Seq(People) \cup {None},
           UNCHANGED deleting \/ deleting' \subseteq Nat
    PROVE  EnrolmentInductive'
  <1> USE DEF EnrolmentInductive
  <1>1. AccountsStep
    BY SameAccounts DEF accountVars
  <1>2. Enrolled' = Enrolled /\ account' = account
    BY DEF Enrolled, accountVars
  <1>3. FormStep
    BY <1>2, FormIdle
  <1>4. \A n \in People : IsSpare(n)' => IsSpare(n)
    BY <1>2 DEF IsSpare
  <1> QED
    BY <1>1, <1>3, <1>4, RequestStep

----------------------------------------------------------------------------
(* A pasted list, the examples, and what the program does meanwhile.       *)

LEMMA PlanAddNamesKeeps ==
    ASSUME EnrolmentInductive, NEW own \in {<<>>} \cup {<<n>> : n \in People},
           NEW rest \in {<<>>} \cup {<<n>> : n \in People}, PlanAddNames(own, rest)
    PROVE  EnrolmentInductive'
  <1>1. own \in Seq(People) /\ rest \in Seq(People)
    <2>1. <<>> \in Seq(People) /\ \A n \in People : <<n>> \in Seq(People)
      OBVIOUS
    <2> QED
      BY <2>1
  <1>2. adding' \in Seq(People)
    BY <1>1 DEF PlanAddNames
  <1>3. ImportsStep
    BY SameImports DEF PlanAddNames, EnrolmentInductive
  <1>4. Up /\ UNCHANGED <<accountVars, files, envNumber, start, spare, first, deleting, settled, import>>
    BY DEF PlanAddNames, AdminAsks
  <1> QED
    BY <1>2, <1>3, <1>4, QuietStep

\* Lines of one list get ids one after another.
LEMMA AddNamesKeeps ==
    ASSUME EnrolmentInductive, AddNames
    PROVE  EnrolmentInductive'
  <1> USE DEF EnrolmentInductive
  <1>1. /\ Up /\ adding # None /\ adding' = None /\ ~TableLocked
        /\ UNCHANGED <<files, envNumber, start, spare, import, first, deleting, settled>>
    BY AskedWhenUp DEF AddNames
  <1>2. ImportsStep
    BY <1>1, SameImports
  <1>3. CASE UNCHANGED accountVars
    BY <1>1, <1>2, <1>3, QuietStep
  <1>4. CASE ~UNCHANGED accountVars
    <2> DEFINE New == ToSet(adding)
               Id(n) == lastId + CHOOSE k \in DOMAIN adding : adding[k] = n
    <2>1. /\ New \cap Enrolled = {} /\ lastId' = lastId + Len(adding)
          /\ account' = [n \in People |-> IF n \in New THEN Person(Id(n), "person") ELSE account[n]]
      BY <1>4 DEF AddNames
    <2>2. adding \in Seq(People) /\ lastId \in Nat /\ account \in [People -> Account \cup {None}]
      BY <1>1 DEF EnrolmentTypeOK
    <2>3. ASSUME NEW n \in New PROVE \E k \in 1..Len(adding) : adding[k] = n /\ Id(n) = lastId + k
      <3>1. \E k \in DOMAIN adding : adding[k] = n
        BY DEF ToSet
      <3> DEFINE c == CHOOSE k \in DOMAIN adding : adding[k] = n
      <3>2. c \in DOMAIN adding /\ adding[c] = n
        BY <3>1
      <3>3. Id(n) = lastId + c
        OBVIOUS
      <3> HIDE DEF c, Id
      <3> QED
        BY <2>2, <3>2, <3>3
    <2> HIDE DEF Id
    <2>4. \A n \in New : Id(n) \in (lastId + 1)..lastId'
      BY <2>1, <2>2, <2>3
    <2>5. \A n, m \in New : Id(n) = Id(m) => n = m
      BY <2>2, <2>3
    <2>6. ASSUME NEW n \in New
          PROVE  n \in People =>
                    /\ account[n] = None /\ account'[n] \in Account /\ account'[n] # None
                    /\ account'[n].id = Id(n) /\ account'[n].photo = None
                    /\ account'[n].archived = FALSE /\ account'[n].name = "person"
      <3>1. Id(n) \in Nat
        BY <2>2, <2>4 DEF EnrolmentTypeOK
      <3>2. PICK b : b = Person(Id(n), "person")
        OBVIOUS
      <3>3. n \in People => account'[n] = b /\ account[n] = None
        BY <2>1, <3>2 DEF Enrolled
      <3>4. /\ b \in Account /\ b # None /\ b.id = Id(n) /\ b.photo = None
            /\ b.archived = FALSE /\ b.name = "person"
        <4>1. PICK id \in Nat : id = Id(n)
          BY <3>1
        <4>2. b = Person(id, "person")
          BY <3>2, <4>1
        <4>3. b.id = Id(n) /\ b.photo = None /\ b.archived = FALSE /\ b.name = "person"
          BY <4>1, <4>2 DEF Person
        <4>4. b \in Account
          BY <4>1, <4>2 DEF Person, Account
        <4> QED
          BY <4>3, <4>4, NoneIsNobody
      <3> QED
        BY <3>3, <3>4
    <2> HIDE DEF New
    <2>7. \A n \in People : n \notin New => account'[n] = account[n]
      BY <2>1
    <2>8. account' \in [People -> Account \cup {None}]
      <3>1. \A n \in People : account'[n] \in Account \cup {None}
        BY <2>2, <2>6, <2>7
      <3> QED
        BY <2>1, <3>1
    <2>9. lastId' \in Nat /\ lastId <= lastId'
      BY <2>1, <2>2
    <2>10. AccountsStep
      <3>1. \A n \in People : ProfileStep(n)
        BY <2>4, <2>6, <2>7 DEF ProfileStep
      <3>2. \A n, m \in People : IsNew(n) /\ IsNew(m) /\ account'[n].id = account'[m].id => n = m
        <4>1. \A n \in People : IsNew(n) => n \in New /\ account'[n].id = Id(n)
          BY <2>6, <2>7 DEF IsNew
        <4> QED
          BY <2>5, <4>1
      <3>3. \A n \in People : account'[n] # None /\ account'[n].archived => account'[n].loan # "open"
        BY <2>6, <2>7 DEF HoldersAreNotArchived, HoldsNothing, Enrolled
      <3> QED
        BY <2>8, <2>9, <3>1, <3>2, <3>3 DEF AccountsStep
    <2>11. Enrolled \subseteq Enrolled'
      BY <2>6, <2>7 DEF Enrolled
    <2>12. \A n \in People : IsSpare(n)' => IsSpare(n)
      BY <2>6, <2>7 DEF IsSpare
    <2> QED
      BY <1>1, <1>2, <2>10, <2>12, FormIdle, RequestStep
  <1> QED
    BY <1>3, <1>4

\* Some accounts go, and nothing else changes: nobody needs them.
LEMMA GoneStep ==
    ASSUME EnrolmentInductive, Up,
           UNCHANGED <<lastId, files, envNumber, start, spare, import, adding, first, settled>>,
           UNCHANGED deleting \/ deleting' \subseteq Nat,
           account' \in [People -> Account \cup {None}], \A n \in People : account'[n] \in {account[n], None}
    PROVE  EnrolmentInductive'
  <1> USE DEF EnrolmentInductive
  <1>1. AccountsStep
    BY DEF EnrolmentTypeOK, AccountsStep, ProfileStep, IsNew, HoldersAreNotArchived, HoldsNothing, Enrolled
  <1>2. FormStep
    <2>1. Enrolled' \subseteq Enrolled
      BY DEF Enrolled
    <2> QED
      BY <2>1, FormIdle
  <1>3. \A n \in People : IsSpare(n)' => IsSpare(n)
    BY DEF IsSpare
  <1>4. ImportsStep /\ adding' \in Seq(People) \cup {None}
    BY SameImports DEF EnrolmentTypeOK
  <1> QED
    BY <1>1, <1>2, <1>3, <1>4, RequestStep

LEMMA RemoveExamplesKeeps ==
    ASSUME EnrolmentInductive, RemoveExamples
    PROVE  EnrolmentInductive'
  <1>1. /\ Up /\ UNCHANGED <<lastId, files, envNumber, start, spare, import, adding, first, deleting, settled>>
    BY DEF RemoveExamples, AdminAsks, requestVars
  <1>2. account \in [People -> Account \cup {None}]
    BY DEF EnrolmentInductive, EnrolmentTypeOK
  <1>3. /\ account' \in [People -> Account \cup {None}]
        /\ \A n \in People : account'[n] \in {account[n], None}
    BY <1>2 DEF RemoveExamples
  <1> QED
    BY <1>1, <1>3, GoneStep

LEMMA DeleteUserKeeps ==
    ASSUME EnrolmentInductive, NEW n \in People, DeleteUser(n)
    PROVE  EnrolmentInductive'
  <1>1. /\ Up /\ UNCHANGED <<accountVars, files, envNumber, start, spare, first, settled, import, adding>>
        /\ n \in Enrolled /\ deleting' = deleting \cup {account[n].id}
    BY DEF DeleteUser
  <1>2. account[n] \in Account /\ deleting \subseteq Nat /\ adding \in Seq(People) \cup {None}
    BY <1>1, AccountTyped DEF EnrolmentInductive, EnrolmentTypeOK, Enrolled
  <1>3. deleting' \subseteq Nat
    BY <1>1, <1>2 DEF Account
  <1>4. ImportsStep
    BY <1>1, SameImports DEF EnrolmentInductive
  <1> QED
    BY <1>1, <1>2, <1>3, <1>4, QuietStep

LEMMA DeleteProfileKeeps ==
    ASSUME EnrolmentInductive, NEW id \in deleting, DeleteProfile(id)
    PROVE  EnrolmentInductive'
  <1>1. /\ UNCHANGED <<lastId, files, envNumber, start, spare, import, adding, first, settled>>
        /\ deleting' = deleting \ {id}
    BY DEF DeleteProfile
  <1>2. Up /\ deleting' \subseteq Nat /\ account \in [People -> Account \cup {None}]
    BY <1>1, AskedWhenUp DEF EnrolmentInductive, EnrolmentTypeOK
  <1>3. /\ account' \in [People -> Account \cup {None}]
        /\ \A n \in People : account'[n] \in {account[n], None}
    BY <1>2 DEF DeleteProfile
  <1> QED
    BY <1>1, <1>2, <1>3, GoneStep

\* One account changes under a request, and keeps its name and its place.
LEMMA SetsKeeps ==
    ASSUME EnrolmentInductive, NEW n \in People, NEW b \in Account, Sets(n, b),
           account[n] # None, b.id = account[n].id, b.photo = account[n].photo, b.name = account[n].name,
           b.archived => b.loan # "open", b.name = "Failsafe Admin" => b.admin = account[n].admin
    PROVE  EnrolmentInductive'
  <1> USE DEF EnrolmentInductive
  <1>1. /\ Up /\ account' = [account EXCEPT ![n] = b]
        /\ UNCHANGED <<lastId, files, envNumber, start, spare, import, adding, first, deleting, settled>>
    BY DEF Sets, requestVars
  <1>2. /\ AccountsStep /\ account'[n] = b /\ Enrolled' = Enrolled
        /\ \A m \in People \ {n} : account'[m] = account[m]
    BY <1>1, OneChanged
  <1>3. \A m \in People : IsSpare(m)' => IsSpare(m)
    BY <1>2 DEF IsSpare
  <1>4. ImportsStep /\ adding' \in Seq(People) \cup {None}
    BY <1>1, SameImports DEF EnrolmentTypeOK
  <1> QED
    BY <1>1, <1>2, <1>3, <1>4, FormIdle, RequestStep

LEMMA MeanwhileKeeps ==
    ASSUME EnrolmentInductive, NEW n \in People, Checkout(n) \/ Return(n) \/ SetAdmin(n)
    PROVE  EnrolmentInductive'
  <1>1. account[n] # None /\ account[n] \in Account /\ (account[n].archived => account[n].loan # "open")
    BY AccountTyped
       DEF Checkout, Return, SetAdmin, Enrolled, EnrolmentInductive, HoldersAreNotArchived, HoldsNothing
  <1>2. CASE Checkout(n)
    <2>1. PICK b : b = [account[n] EXCEPT !.loan = "open"]
      OBVIOUS
    <2>2. /\ b \in Account /\ b.id = account[n].id /\ b.photo = account[n].photo /\ b.name = account[n].name
          /\ b.admin = account[n].admin /\ ~b.archived
      BY <1>1, <1>2, <2>1 DEF Account, Checkout
    <2>3. Sets(n, b)
      BY <1>2, <2>1 DEF Checkout
    <2> QED
      BY <1>1, <2>2, <2>3, SetsKeeps
  <1>3. CASE Return(n)
    <2>1. PICK b : b = [account[n] EXCEPT !.loan = "returned"]
      OBVIOUS
    <2>2. /\ b \in Account /\ b.id = account[n].id /\ b.photo = account[n].photo /\ b.name = account[n].name
          /\ b.admin = account[n].admin /\ b.loan # "open"
      BY <1>1, <2>1 DEF Account
    <2>3. Sets(n, b)
      BY <1>3, <2>1 DEF Return
    <2> QED
      BY <1>1, <2>2, <2>3, SetsKeeps
  <1>4. CASE SetAdmin(n)
    <2>1. PICK b : b = [account[n] EXCEPT !.admin = ~@]
      OBVIOUS
    <2>2. /\ b \in Account /\ b.id = account[n].id /\ b.photo = account[n].photo /\ b.name = account[n].name
          /\ b.archived = account[n].archived /\ b.loan = account[n].loan /\ b.name # "Failsafe Admin"
      BY <1>1, <1>4, <2>1 DEF Account, SetAdmin
    <2>3. Sets(n, b)
      BY <1>4, <2>1 DEF SetAdmin
    <2> QED
      BY <1>1, <2>2, <2>3, SetsKeeps
  <1> QED
    BY <1>2, <1>3, <1>4

----------------------------------------------------------------------------
(* The imports.                                                            *)

LEMMA ImportsKeeps ==
    ASSUME EnrolmentInductive, NEW i \in Importers,
           NEW roster \in [rows : SUBSET People, photos : SUBSET People],
           NEW name \in {"person", "Example"}, NEW archive \in BOOLEAN,
           Imports(i, roster, name, archive)
    PROVE  EnrolmentInductive'
  <1>1. /\ Up /\ UNCHANGED <<accountVars, files, envNumber, start, spare, adding, first, deleting, settled>>
        /\ adding \in Seq(People) \cup {None} /\ import \in [Importers -> RowImport \cup Archiving \cup {None}]
    BY DEF Imports, AdminAsks, EnrolmentInductive, EnrolmentTypeOK
  <1>2. PICK r : r = [at |-> "row", todo |-> roster.rows, photos |-> roster.photos, name |-> name,
                      named |-> {}, failed |-> FALSE, archive |-> archive, row |-> None]
    OBVIOUS
  <1>3. r \in RowImport /\ r.at = "row" /\ r.row = None /\ r.name = name
    BY <1>2 DEF RowImport
  <1>4. import' = [import EXCEPT ![i] = r]
    BY <1>2 DEF Imports
  <1>5. /\ import' \in [Importers -> RowImport \cup Archiving \cup {None}] /\ import'[i] = r
        /\ \A j \in Importers \ {i} : import'[j] = import[j]
    BY <1>1, <1>3, <1>4
  <1>6. ImportsStep
    BY <1>3, <1>5 DEF ImportsStep, HasRow, EnrolmentInductive, IdsBelong
  <1> QED
    BY <1>1, <1>6, QuietStep

LEMMA ImportRosterKeeps ==
    ASSUME EnrolmentInductive, NEW i \in Importers, ImportRoster(i)
    PROVE  EnrolmentInductive'
  <1>1. PICK roster \in Rosters, archive \in BOOLEAN : Imports(i, roster, "person", archive)
    BY DEF ImportRoster
  <1>2. roster \in [rows : SUBSET People, photos : SUBSET People]
    BY NumbersExist
  <1> QED
    BY <1>1, <1>2, ImportsKeeps

LEMMA LoadExamplesKeeps ==
    ASSUME EnrolmentInductive, NEW i \in Importers, LoadExamples(i)
    PROVE  EnrolmentInductive'
  <1>1. PICK roster : roster = [rows |-> ExampleNumbers, photos |-> {}]
    OBVIOUS
  <1>2. roster \in [rows : SUBSET People, photos : SUBSET People]
    BY <1>1, NumbersExist
  <1>3. Imports(i, roster, "Example", FALSE)
    BY <1>1 DEF LoadExamples
  <1> QED
    BY <1>2, <1>3, ImportsKeeps

\* A row that is done with leaves its import without one.
LEMMA RowDoneStep ==
    ASSUME EnrolmentTypeOK, IdsBelong, NEW i \in Importers, NEW n \in People, NEW ok \in BOOLEAN,
           import[i] # None, import[i].at \in {"row", "upsert"}, RowDone(i, n, ok)
    PROVE  /\ ImportsStep /\ import'[i] # None /\ import'[i].at = "row"
           /\ import'[i].name = import[i].name
           /\ \A j \in Importers \ {i} : import'[j] = import[j]
  <1>1. import \in [Importers -> RowImport \cup Archiving \cup {None}]
    BY DEF EnrolmentTypeOK
  <1>2. import[i] \in RowImport
    BY <1>1 DEF Archiving
  <1>3. PICK r : r = [import[i] EXCEPT !.at = "row", !.row = None, !.todo = @ \ {n},
                         !.named = IF ok THEN @ \cup {n} ELSE @, !.failed = @ \/ ~ok]
    OBVIOUS
  <1>4. r \in RowImport /\ r.at = "row" /\ r.row = None /\ r.name = import[i].name
    BY <1>2, <1>3 DEF RowImport
  <1>5. import' = [import EXCEPT ![i] = r]
    BY <1>1, <1>3 DEF RowDone
  <1>6. /\ import' \in [Importers -> RowImport \cup Archiving \cup {None}] /\ import'[i] = r
        /\ \A j \in Importers \ {i} : import'[j] = import[j]
    BY <1>1, <1>4, <1>5
  <1>7. r # None
    BY <1>4, NoneIsNobody
  <1>8. ImportsStep
    BY <1>4, <1>6, <1>7 DEF ImportsStep, HasRow, IdsBelong
  <1> QED
    BY <1>4, <1>6, <1>7, <1>8

LEMMA UpsertProfileRowKeeps ==
    ASSUME EnrolmentInductive, NEW i \in Importers, NEW n \in People, UpsertProfileRow(i, n)
    PROVE  EnrolmentInductive'
  <1> USE DEF EnrolmentInductive
  <1>1. /\ import[i] # None /\ import[i].at = "row" /\ ~TableLocked
        /\ UNCHANGED <<files, envNumber, start, spare, adding, first, deleting, settled>>
    BY DEF UpsertProfileRow, Importing
  <1>2. Up /\ adding' \in Seq(People) \cup {None} /\ lastId \in Nat /\ account \in [People -> Account \cup {None}]
    BY <1>1, AskedWhenUp DEF EnrolmentTypeOK
  <1>3. PICK ok \in BOOLEAN : RowDone(i, n, ok)
    BY DEF UpsertProfileRow
  <1>4. /\ ImportsStep /\ import'[i].name = import[i].name
        /\ \A j \in Importers \ {i} : import'[j] = import[j]
    BY <1>1, <1>3, RowDoneStep
  <1>5. CASE UNCHANGED accountVars
    BY <1>1, <1>2, <1>4, <1>5, QuietStep
  <1>6. PICK name \in {"person", "Example"} : name = import[i].name
    <2>1. import[i] \in RowImport
      BY <1>1 DEF EnrolmentTypeOK, Archiving
    <2> QED
      BY <2>1 DEF RowImport
  <1>7. CASE /\ account[n] = None /\ account' = [account EXCEPT ![n] = Person(lastId + 1, import[i].name)]
             /\ lastId' = lastId + 1
    <2>1. PICK b : b = Person(lastId + 1, name)
      OBVIOUS
    <2>2. /\ b \in Account /\ b.id = lastId + 1 /\ b.photo = None
          /\ b.archived = FALSE /\ b.admin = FALSE /\ b.name = name
      <3>1. PICK id \in Nat : id = lastId + 1
        BY <1>2
      <3>2. b = Person(id, name)
        BY <2>1, <3>1
      <3>3. b.id = id /\ b.photo = None /\ b.archived = FALSE /\ b.admin = FALSE /\ b.name = name
        BY <3>2 DEF Person
      <3>4. b \in Account
        BY <3>2 DEF Person, Account
      <3> QED
        BY <3>1, <3>3, <3>4
    <2>3. /\ AccountsStep /\ account'[n] = b /\ Enrolled' = Enrolled \cup {n}
          /\ \A m \in People \ {n} : account'[m] = account[m]
      BY <1>6, <1>7, <2>1, <2>2, OneMade
    <2>4. \A m \in People : IsSpare(m)' => IsSpare(m)
      BY <2>2, <2>3 DEF IsSpare
    <2> QED
      BY <1>1, <1>2, <1>4, <2>3, <2>4, FormIdle, RequestStep
  <1>8. CASE /\ account[n] # None /\ lastId' = lastId
              /\ account' = [account EXCEPT ![n].name = import[i].name, ![n].archived = FALSE]
    <2>1. PICK b : b = [account[n] EXCEPT !.name = name, !.archived = FALSE]
      OBVIOUS
    <2>2. /\ b \in Account /\ b.id = account[n].id /\ b.photo = account[n].photo
          /\ b.archived = FALSE /\ b.name = name
      BY <1>2, <1>8, <2>1 DEF Account
    <2>3. account' = [account EXCEPT ![n] = b]
      BY <1>2, <1>6, <1>8, <2>1
    <2>4. /\ AccountsStep /\ account'[n] = b /\ Enrolled' = Enrolled
          /\ \A m \in People \ {n} : account'[m] = account[m]
      BY <1>8, <2>2, <2>3, OneChanged
    <2>5. \A m \in People : IsSpare(m)' => IsSpare(m)
      BY <2>2, <2>4 DEF IsSpare
    <2> QED
      BY <1>1, <1>2, <1>4, <2>4, <2>5, FormIdle, RequestStep
  <1> QED
    BY <1>5, <1>7, <1>8 DEF UpsertProfileRow

LEMMA FindsMissingKeeps ==
    ASSUME EnrolmentInductive, NEW i \in Importers, FindsMissing(i)
    PROVE  EnrolmentInductive'
  <1> USE DEF EnrolmentInductive
  <1>1. /\ import[i] # None
        /\ UNCHANGED <<accountVars, files, envNumber, start, spare, adding, first, deleting, settled>>
    BY DEF FindsMissing, Importing
  <1>2. /\ Up /\ adding' \in Seq(People) \cup {None}
        /\ import \in [Importers -> RowImport \cup Archiving \cup {None}]
        /\ \A n \in Enrolled : account[n].id \in Nat
    BY <1>1, AskedWhenUp DEF EnrolmentTypeOK, Enrolled, Account
  <1>3. PICK r \in Archiving \cup {None} : import' = [import EXCEPT ![i] = r]
    <2> DEFINE missing == {n \in Enrolled \ import[i].named :
                              ~account[n].archived /\ ~account[n].admin /\ HoldsNothing(n)}
               ids == {account[n].id : n \in missing}
    <2>1. ids \subseteq Nat
      BY <1>2
    <2>2. [at |-> "archive", ids |-> ids] \in Archiving
      BY <2>1 DEF Archiving
    <2>3. import' = [import EXCEPT ![i] = [at |-> "archive", ids |-> ids]] \/ import' = [import EXCEPT ![i] = None]
      BY DEF FindsMissing
    <2> QED
      BY <2>2, <2>3
  <1>4. /\ import' \in [Importers -> RowImport \cup Archiving \cup {None}] /\ import'[i] = r
        /\ \A j \in Importers \ {i} : import'[j] = import[j]
    BY <1>2, <1>3
  <1>5. r # None => r.at = "archive"
    BY <1>3 DEF Archiving
  <1>6. ImportsStep
    BY <1>4, <1>5 DEF ImportsStep, HasRow, IdsBelong
  <1> QED
    BY <1>1, <1>2, <1>6, QuietStep

LEMMA ArchiveMissingKeeps ==
    ASSUME EnrolmentInductive, NEW i \in Importers, ArchiveMissing(i)
    PROVE  EnrolmentInductive'
  <1> USE DEF EnrolmentInductive
  <1>1. /\ import[i] # None /\ import' = [import EXCEPT ![i] = None]
        /\ UNCHANGED <<lastId, files, envNumber, start, spare, adding, first, deleting, settled>>
    BY DEF ArchiveMissing, Importing
  <1>2. /\ Up /\ adding' \in Seq(People) \cup {None} /\ lastId \in Nat
        /\ import \in [Importers -> RowImport \cup Archiving \cup {None}]
        /\ account \in [People -> Account \cup {None}]
    BY <1>1, AskedWhenUp DEF EnrolmentTypeOK
  <1>3. /\ import' \in [Importers -> RowImport \cup Archiving \cup {None}] /\ import'[i] = None
        /\ \A j \in Importers \ {i} : import'[j] = import[j]
    BY <1>1, <1>2
  <1>4. ImportsStep
    BY <1>3 DEF ImportsStep, HasRow, IdsBelong
  <1>5. CASE UNCHANGED account
    BY <1>1, <1>2, <1>4, <1>5, QuietStep DEF accountVars
  <1>6. CASE account' = [n \in People |->
              IF account[n] = None THEN None
              ELSE IF IsMissing(n, import[i].ids) THEN [account[n] EXCEPT !.archived = TRUE]
              ELSE account[n]]
    <2>1. ASSUME NEW n \in People
          PROVE  \/ account'[n] = account[n]
                 \/ /\ account[n] # None /\ account[n].loan # "open" /\ account'[n] \in Account
                    /\ account'[n].id = account[n].id /\ account'[n].photo = account[n].photo
                    /\ account'[n].name = account[n].name /\ account'[n].admin = account[n].admin
                    /\ account'[n].loan = account[n].loan
      <3>1. CASE account'[n] = account[n]
        BY <3>1
      <3>2. CASE account'[n] # account[n]
        <4>1. /\ account[n] # None /\ account[n].loan # "open"
              /\ account'[n] = [account[n] EXCEPT !.archived = TRUE]
          BY <1>6, <3>2 DEF IsMissing, HoldsNothing
        <4> QED
          BY <1>2, <4>1 DEF Account
      <3> QED
        BY <3>1, <3>2
    <2>2. None \notin Account
      BY NoneIsNobody
    <2>3. account' \in [People -> Account \cup {None}]
      <3>1. \A n \in People : account'[n] \in Account \cup {None}
        BY <1>2, <2>1
      <3> QED
        BY <1>6, <3>1
    <2>4. Enrolled' = Enrolled
      BY <2>1, <2>2 DEF Enrolled
    <2>5. AccountsStep
      BY <1>1, <1>2, <2>1, <2>2, <2>3
         DEF AccountsStep, ProfileStep, IsNew, HoldersAreNotArchived, HoldsNothing, Enrolled
    <2>6. \A n \in People : account'[n] # None =>
              account[n] # None /\ account'[n].name = account[n].name /\ account'[n].admin = account[n].admin
      BY <2>1
    <2>7. \A n \in People : IsSpare(n)' => IsSpare(n)
      BY <2>6 DEF IsSpare
    <2> QED
      BY <1>1, <1>2, <1>4, <2>4, <2>5, <2>7, FormIdle, RequestStep
  <1> QED
    BY <1>5, <1>6 DEF ArchiveMissing

\* A step of an import with a photo: whose an id is and what a file is for have
\* to be shown of it.
LEMMA PhotoRowStep ==
    ASSUME EnrolmentInductive, Up, UNCHANGED <<envNumber, start, spare, adding, first, deleting, settled>>,
           EnrolmentTypeOK', ~TableLocked \/ Enrolled' = Enrolled, Enrolled \subseteq Enrolled',
           \A n \in People : IsSpare(n)' => IsSpare(n),
           HoldersAreNotArchived', IdsBelong', PublishedAlone', PhotosAreTheirOwn'
    PROVE  EnrolmentInductive'
  <1> USE DEF EnrolmentInductive
  <1>1. NobodyAsksYet' /\ RenamesTheFileFirst'
    BY DEF Up, NobodyAsksYet, RenamesTheFileFirst
  <1>2. FormStep
    BY FormIdle
  <1>3. FirstAdminIsFirst'
    BY <1>2, FormStays
  <1>4. SpareInForce'
    BY DEF SpareInForce
  <1> QED
    BY <1>1, <1>3, <1>4

\* The step leaves the accounts alone.
LEMMA SameSpares ==
    ASSUME account' = account
    PROVE  Enrolled' = Enrolled /\ \A n \in People : IsSpare(n)' => IsSpare(n)
  BY DEF Enrolled, IsSpare

\* The account's id is taken, or one that nothing has.
LEMMA ChoosesIdKeeps ==
    ASSUME EnrolmentInductive, NEW i \in Importers, NEW n \in People, ChoosesId(i, n)
    PROVE  EnrolmentInductive'
  <1> USE DEF EnrolmentInductive
  <1>1. /\ import[i] # None /\ import[i].at = "row"
        /\ UNCHANGED <<account, files, envNumber, start, spare, adding, first, deleting, settled>>
    BY DEF ChoosesId, Importing
  <1>2. /\ Up /\ lastId \in Nat /\ import \in [Importers -> RowImport \cup Archiving \cup {None}]
        /\ account \in [People -> Account \cup {None}]
    BY <1>1, AskedWhenUp DEF EnrolmentTypeOK
  <1>3. import[i] \in RowImport
    BY <1>1, <1>2 DEF Archiving
  <1>4. PICK id \in Nat :
            /\ import' = [import EXCEPT ![i].at = "photo", ![i].row = [number |-> n, id |-> id, had |-> FALSE]]
            /\ \/ account[n] = None /\ id = lastId + 1 /\ lastId' = id
               \/ account[n] # None /\ id = account[n].id /\ lastId' = lastId
    <2>1. CASE account[n] = None
      <3>1. PICK id \in Nat : id = lastId + 1
        BY <1>2
      <3> QED
        BY <2>1, <3>1 DEF ChoosesId
    <2>2. CASE account[n] # None
      <3>1. account[n].id \in Nat
        BY <1>2, <2>2 DEF Account
      <3> QED
        BY <2>2, <3>1 DEF ChoosesId
    <2> QED
      BY <2>1, <2>2
  <1>5. PICK row : row = [number |-> n, id |-> id, had |-> FALSE]
    OBVIOUS
  <1>6. row \in RosterRow /\ row.number = n /\ row.id = id /\ row # None
    <2>1. row \in RosterRow /\ row.number = n /\ row.id = id
      BY <1>5 DEF RosterRow
    <2> QED
      BY <2>1, NoneIsNobody
  <1>7. PICK r : r = [import[i] EXCEPT !.at = "photo", !.row = row]
    OBVIOUS
  <1>8. r \in RowImport /\ r.at = "photo" /\ r.row = row /\ r.name = import[i].name
    BY <1>3, <1>6, <1>7 DEF RowImport
  <1>9. import' = [import EXCEPT ![i] = r]
    BY <1>2, <1>4, <1>5, <1>7
  <1>10. /\ import' \in [Importers -> RowImport \cup Archiving \cup {None}] /\ import'[i] = r
         /\ \A j \in Importers \ {i} : import'[j] = import[j]
    BY <1>2, <1>8, <1>9
  <1>11. /\ Enrolled' = Enrolled  /\ \A m \in People : IsSpare(m)' => IsSpare(m)
    BY <1>1, SameSpares
  <1>12. lastId' \in Nat /\ id \in 1..lastId' /\ 1..lastId \subseteq 1..lastId'
    BY <1>2, <1>4 DEF IdsBelong, Enrolled
  <1>13. EnrolmentTypeOK'
    BY <1>1, <1>10, <1>12 DEF EnrolmentTypeOK
  <1>14. \A j \in Importers \ {i} : HasRow(j)' => HasRow(j)
    BY <1>10 DEF HasRow
  <1>15. \A m \in Enrolled : account[m].id = id => m = n
    BY <1>2, <1>4 DEF IdsBelong, Enrolled
  <1>16. \A j \in Importers \ {i} : HasRow(j) /\ import[j].row.id = id => import[j].row.number = n
    BY <1>2, <1>4 DEF IdsBelong, Enrolled
  <1>17. IdsBelong'
    <2>1. ASSUME NEW j \in Importers, HasRow(j)'
          PROVE  /\ import'[j].row # None /\ import'[j].row.id \in 1..lastId'
                 /\ \A m \in Enrolled' : account'[m].id = import'[j].row.id => m = import'[j].row.number
                 /\ \A k \in Importers : HasRow(k)' /\ import'[k].row.id = import'[j].row.id =>
                       import'[k].row.number = import'[j].row.number
      <3>1. CASE j = i
        BY <1>1, <1>6, <1>8, <1>10, <1>11, <1>12, <1>14, <1>15, <1>16, <3>1
      <3>2. CASE j # i
        <4>1. HasRow(j) /\ import'[j] = import[j]
          BY <1>10, <1>14, <2>1, <3>2
        <4>2. /\ import[j].row # None /\ import[j].row.id \in 1..lastId
              /\ \A m \in Enrolled : account[m].id = import[j].row.id => m = import[j].row.number
              /\ \A k \in Importers : HasRow(k) /\ import[k].row.id = import[j].row.id =>
                    import[k].row.number = import[j].row.number
          BY <4>1 DEF IdsBelong
        <4>3. \A k \in Importers \ {i} : HasRow(k)' => HasRow(k) /\ import'[k] = import[k]
          BY <1>10, <1>14
        <4>4. import'[i].row.id = import[j].row.id => import'[i].row.number = import[j].row.number
          BY <1>6, <1>8, <1>10, <1>16, <3>2, <4>1
        <4> QED
          BY <1>1, <1>11, <1>12, <4>1, <4>2, <4>3, <4>4
      <3> QED
        BY <3>1, <3>2
    <2>2. \A j \in Importers : import'[j] # None /\ import'[j].at = "row" => import'[j].row = None
      BY <1>8, <1>10 DEF IdsBelong
    <2>3. \A m \in Enrolled' :
              account'[m].id \in 1..lastId' /\ \A k \in Enrolled' : account'[k].id = account'[m].id => k = m
      BY <1>1, <1>11, <1>12 DEF IdsBelong
    <2> QED
      BY <2>1, <2>2, <2>3 DEF IdsBelong
  <1>18. PublishedAlone'
    <2>1. \A j \in Importers : Importing(j, "upsert")' => Importing(j, "upsert") /\ import'[j] = import[j]
      BY <1>8, <1>10 DEF Importing
    <2> QED
      BY <1>1, <1>11, <2>1 DEF PublishedAlone
  <1>19. HoldersAreNotArchived' /\ PhotosAreTheirOwn'
    BY <1>1, <1>11 DEF HoldersAreNotArchived, HoldsNothing, PhotosAreTheirOwn, PhotoIsThere
  <1> QED
    BY <1>1, <1>2, <1>11, <1>13, <1>17, <1>18, <1>19, PhotoRowStep

\* One photo of an id is published at a time; what it replaced is remembered.
LEMMA PublishesPhotoKeeps ==
    ASSUME EnrolmentInductive, NEW i \in Importers, PublishesPhoto(i)
    PROVE  EnrolmentInductive'
  <1> USE DEF EnrolmentInductive
  <1>1. /\ import[i] # None /\ import[i].at = "photo" /\ HasRow(i)
        /\ \A j \in Importers : Importing(j, "upsert") => import[j].row.id # import[i].row.id
        /\ UNCHANGED <<account, lastId, envNumber, start, spare, adding, first, deleting, settled>>
    BY DEF PublishesPhoto, Importing, HasRow, accountVars
  <1>2. /\ Up /\ lastId \in Nat /\ import \in [Importers -> RowImport \cup Archiving \cup {None}]
        /\ account \in [People -> Account \cup {None}] /\ files \subseteq Nat \cup People
    BY <1>1, AskedWhenUp DEF EnrolmentTypeOK
  <1>3. import[i] \in RowImport /\ import[i].row \in RosterRow
    BY <1>1, <1>2 DEF Archiving, RowImport, IdsBelong
  <1>4. PICK row \in RosterRow : row = [import[i].row EXCEPT !.had = import[i].row.id \in files]
    <2>1. PICK old \in RosterRow : old = import[i].row
      BY <1>3
    <2>2. PICK had \in BOOLEAN : had = (old.id \in files)
      <3>1. (old.id \in files) \in BOOLEAN
        BY SMT
      <3> QED
        BY <3>1, Zenon
    <2>3. [old EXCEPT !.had = had] \in RosterRow
      BY DEF RosterRow
    <2> QED
      BY <2>1, <2>2, <2>3
  <1>5. PICK id \in Nat : id = import[i].row.id
    BY <1>3 DEF RosterRow
  <1>6. /\ row.number = import[i].row.number /\ row.id = id /\ row.had = (id \in files) /\ row # None
    <2>1. row.number = import[i].row.number /\ row.id = id /\ row.had = (id \in files)
      BY <1>3, <1>4, <1>5 DEF RosterRow
    <2> QED
      BY <2>1, NoneIsNobody
  <1>7. PICK r : r = [import[i] EXCEPT !.at = "upsert", !.row = row]
    OBVIOUS
  <1>8. r \in RowImport /\ r.at = "upsert" /\ r.row = row /\ r.name = import[i].name
    BY <1>3, <1>4, <1>7 DEF RowImport
  <1>9. import' = [import EXCEPT ![i] = r] /\ files' = files \cup {id}
    <2>1. import' = [import EXCEPT ![i].at = "upsert", ![i].row.had = import[i].row.id \in files]
      BY DEF PublishesPhoto
    <2>2. r = [import[i] EXCEPT !.at = "upsert", !.row.had = import[i].row.id \in files]
      BY <1>3, <1>4, <1>7 DEF RowImport
    <2>3. import' = [import EXCEPT ![i] = r]
      BY <1>2, <2>1, <2>2
    <2> QED
      BY <1>5, <2>3 DEF PublishesPhoto
  <1>10. /\ import' \in [Importers -> RowImport \cup Archiving \cup {None}] /\ import'[i] = r
         /\ \A j \in Importers \ {i} : import'[j] = import[j]
    BY <1>2, <1>8, <1>9
  <1>11. Enrolled' = Enrolled  /\ \A m \in People : IsSpare(m)' => IsSpare(m)
    BY <1>1, <1>8, <1>10, SameSpares
  <1>12. EnrolmentTypeOK'
    BY <1>1, <1>2, <1>9, <1>10 DEF EnrolmentTypeOK
  <1>13. \A j \in Importers : HasRow(j)' =>
            HasRow(j) /\ import'[j].row # None /\ import'[j].row.id = import[j].row.id
              /\ import'[j].row.number = import[j].row.number
    BY <1>1, <1>5, <1>6, <1>8, <1>10 DEF HasRow, IdsBelong
  <1>14. IdsBelong'
    <2>1. ASSUME NEW j \in Importers, HasRow(j)'
          PROVE  /\ import'[j].row # None /\ import'[j].row.id \in 1..lastId'
                 /\ \A m \in Enrolled' : account'[m].id = import'[j].row.id => m = import'[j].row.number
                 /\ \A k \in Importers : HasRow(k)' /\ import'[k].row.id = import'[j].row.id =>
                       import'[k].row.number = import'[j].row.number
      <3>1. /\ import[j].row # None /\ import[j].row.id \in 1..lastId
            /\ \A m \in Enrolled : account[m].id = import[j].row.id => m = import[j].row.number
            /\ \A k \in Importers : HasRow(k) /\ import[k].row.id = import[j].row.id =>
                  import[k].row.number = import[j].row.number
        BY <1>13, <2>1 DEF IdsBelong
      <3> QED
        BY <1>1, <1>11, <1>13, <2>1, <3>1
    <2>2. \A j \in Importers : import'[j] # None /\ import'[j].at = "row" => import'[j].row = None
      BY <1>8, <1>10 DEF IdsBelong
    <2>3. \A m \in Enrolled' :
              account'[m].id \in 1..lastId' /\ \A k \in Enrolled' : account'[k].id = account'[m].id => k = m
      BY <1>1, <1>11 DEF IdsBelong
    <2> QED
      BY <2>1, <2>2, <2>3 DEF IdsBelong
  <1>15. PublishedAlone'
    <2>1. \A j \in Importers \ {i} : Importing(j, "upsert")' =>
              Importing(j, "upsert") /\ import'[j] = import[j] /\ import[j].row.id # id
      BY <1>1, <1>5, <1>10 DEF Importing
    <2>2. ASSUME NEW j \in Importers, Importing(j, "upsert")'
          PROVE  /\ import'[j].row.id \in files'
                 /\ \A k \in Importers :
                       Importing(k, "upsert")' /\ import'[k].row.id = import'[j].row.id => k = j
                 /\ ~import'[j].row.had => \A m \in Enrolled' :
                       /\ account'[m].photo # import'[j].row.id
                       /\ account'[m].id = import'[j].row.id /\ account'[m].photo = m => m \in files'
      <3>1. CASE j = i
        <4>1. import'[j].row.id = id /\ import'[j].row.had = (id \in files) /\ id \in files'
          BY <1>6, <1>8, <1>9, <1>10, <3>1
        <4>2. \A k \in Importers : Importing(k, "upsert")' /\ import'[k].row.id = id => k = j
          BY <2>1, <3>1
        <4>3. ASSUME id \notin files, NEW m \in Enrolled
              PROVE  account[m].photo # id /\ (account[m].id = id /\ account[m].photo = m => m \in files)
          <5>1. PhotoIsThere(account[m], m, files) /\ m \notin Nat /\ None # id /\ None # m
            BY <4>3, NumbersExist, NoneIsNobody DEF PhotosAreTheirOwn, Enrolled
          <5> QED
            BY <4>3, <5>1 DEF PhotoIsThere
        <4> QED
          BY <1>1, <1>9, <1>11, <4>1, <4>2, <4>3
      <3>2. CASE j # i
        <4>1. Importing(j, "upsert") /\ import'[j] = import[j] /\ import[j].row.id # id
          BY <2>1, <2>2, <3>2
        <4>2. /\ import[j].row.id \in files
              /\ \A k \in Importers : Importing(k, "upsert") /\ import[k].row.id = import[j].row.id => k = j
              /\ ~import[j].row.had => \A m \in Enrolled :
                    /\ account[m].photo # import[j].row.id
                    /\ account[m].id = import[j].row.id /\ account[m].photo = m => m \in files
          BY <4>1 DEF PublishedAlone
        <4>3. import'[i].row.id = id
          BY <1>6, <1>8, <1>10
        <4> QED
          BY <1>1, <1>9, <1>11, <2>1, <4>1, <4>2, <4>3
      <3> QED
        BY <3>1, <3>2
    <2> QED
      BY <2>2 DEF PublishedAlone
  <1>16. PhotosAreTheirOwn'
    <2>1. \A m \in Enrolled : PhotoIsThere(account[m], m, files')
      BY <1>9 DEF PhotosAreTheirOwn, PhotoIsThere
    <2> QED
      BY <1>1, <1>11, <2>1 DEF PhotosAreTheirOwn
  <1>17. HoldersAreNotArchived'
    BY <1>1, <1>11 DEF HoldersAreNotArchived, HoldsNothing
  <1> QED
    BY <1>1, <1>2, <1>11, <1>12, <1>14, <1>15, <1>16, <1>17, PhotoRowStep

\* A row written names its own photo; a row refused takes away one nothing needs.
LEMMA UpsertProfileRowWithIDKeeps ==
    ASSUME EnrolmentInductive, NEW i \in Importers, UpsertProfileRowWithID(i)
    PROVE  EnrolmentInductive'
  <1> USE DEF EnrolmentInductive
  <1>1. /\ import[i] # None /\ import[i].at = "upsert" /\ Importing(i, "upsert") /\ HasRow(i) /\ ~TableLocked
        /\ UNCHANGED <<lastId, envNumber, start, spare, adding, first, deleting, settled>>
    BY DEF UpsertProfileRowWithID, Importing, HasRow
  <1>2. /\ Up /\ lastId \in Nat /\ import \in [Importers -> RowImport \cup Archiving \cup {None}]
        /\ account \in [People -> Account \cup {None}] /\ files \subseteq Nat \cup People
    BY <1>1, AskedWhenUp DEF EnrolmentTypeOK
  <1>3. import[i] \in RowImport /\ import[i].row \in RosterRow
    BY <1>1, <1>2 DEF Archiving, RowImport, IdsBelong
  <1>4. PICK n \in People, id \in Nat : n = import[i].row.number /\ id = import[i].row.id
    BY <1>3 DEF RosterRow
  <1>5. /\ id \in 1..lastId /\ \A m \in Enrolled : account[m].id = id => m = n
        /\ \A j \in Importers : HasRow(j) /\ import[j].row.id = id => import[j].row.number = n
    BY <1>1, <1>4 DEF IdsBelong
  <1>6. /\ id \in files /\ \A j \in Importers : Importing(j, "upsert") /\ import[j].row.id = id => j = i
        /\ ~import[i].row.had => \A m \in Enrolled :
              account[m].photo # id /\ (account[m].id = id /\ account[m].photo = m => m \in files)
    BY <1>1, <1>4 DEF PublishedAlone
  <1>7. PICK ok \in BOOLEAN : RowDone(i, n, ok)
    BY <1>4 DEF UpsertProfileRowWithID
  <1>8. /\ ImportsStep /\ import'[i].at = "row" /\ import'[i].name = import[i].name
        /\ \A j \in Importers \ {i} : import'[j] = import[j]
    BY <1>1, <1>7, RowDoneStep
  <1>9. \A j \in Importers : HasRow(j)' => j # i /\ HasRow(j) /\ import'[j] = import[j]
    BY <1>8 DEF HasRow
  <1>10. \A j \in Importers : Importing(j, "upsert")' =>
            j # i /\ Importing(j, "upsert") /\ import'[j] = import[j] /\ import[j].row.id # id
    BY <1>6, <1>8 DEF Importing
  <1>11. CASE /\ account[n] # None => account[n].id = id
              /\ account' = [account EXCEPT ![n] =
                    IF @ = None THEN [Person(id, "person") EXCEPT !.photo = id]
                    ELSE [@ EXCEPT !.photo = id, !.name = "person", !.archived = FALSE]]
              /\ files' = files
    <2>1. PICK b : b = IF account[n] = None THEN [Person(id, "person") EXCEPT !.photo = id]
                       ELSE [account[n] EXCEPT !.photo = id, !.name = "person", !.archived = FALSE]
      OBVIOUS
    <2>2. b \in Account /\ b.id = id /\ b.photo = id /\ b.name = "person" /\ b.archived = FALSE
      <3>1. CASE account[n] = None
        <4>1. b = [Person(id, "person") EXCEPT !.photo = id]
          BY <2>1, <3>1
        <4> QED
          BY <4>1 DEF Person, Account
      <3>2. CASE account[n] # None
        <4>1. account[n] \in Account /\ account[n].id = id
          BY <1>2, <1>11, <3>2
        <4>2. b = [account[n] EXCEPT !.photo = id, !.name = "person", !.archived = FALSE]
          BY <2>1, <3>2
        <4> QED
          BY <4>1, <4>2 DEF Account
      <3> QED
        BY <3>1, <3>2
    <2>3. b # None
      BY <2>2, NoneIsNobody
    <2>4. account' = [account EXCEPT ![n] = b]
      BY <1>2, <1>11, <2>1
    <2>5. /\ account' \in [People -> Account \cup {None}] /\ account'[n] = b
          /\ \A m \in People \ {n} : account'[m] = account[m]
      BY <1>2, <2>2, <2>4
    <2>6. Enrolled' = Enrolled \cup {n}
      BY <2>3, <2>5 DEF Enrolled
    <2>7. EnrolmentTypeOK'
      BY <1>1, <1>8, <1>11, <2>5 DEF EnrolmentTypeOK, ImportsStep
    <2>8. \A m \in People : IsSpare(m)' => IsSpare(m)
      BY <2>2, <2>5, <2>6 DEF Enrolled, IsSpare
    <2>9. HoldersAreNotArchived'
      BY <2>2, <2>5, <2>6 DEF HoldersAreNotArchived, HoldsNothing, Enrolled
    <2>10. \A m \in Enrolled' : m # n => m \in Enrolled /\ account'[m] = account[m] /\ account'[m].id # id
      BY <1>5, <2>5, <2>6 DEF Enrolled
    <2>11. IdsBelong'
      <3>1. \A m \in Enrolled' :
              account'[m].id \in 1..lastId' /\ \A k \in Enrolled' : account'[k].id = account'[m].id => k = m
        BY <1>1, <1>5, <2>2, <2>5, <2>10 DEF IdsBelong
      <3>2. ASSUME NEW j \in Importers, HasRow(j)'
            PROVE  /\ import'[j].row # None /\ import'[j].row.id \in 1..lastId'
                   /\ \A m \in Enrolled' : account'[m].id = import'[j].row.id => m = import'[j].row.number
                   /\ \A k \in Importers : HasRow(k)' /\ import'[k].row.id = import'[j].row.id =>
                         import'[k].row.number = import'[j].row.number
        <4>1. HasRow(j) /\ import'[j] = import[j]
          BY <1>9, <3>2
        <4>2. /\ import[j].row # None /\ import[j].row.id \in 1..lastId
              /\ \A m \in Enrolled : account[m].id = import[j].row.id => m = import[j].row.number
              /\ \A k \in Importers : HasRow(k) /\ import[k].row.id = import[j].row.id =>
                    import[k].row.number = import[j].row.number
          BY <4>1 DEF IdsBelong
        <4> QED
          BY <1>1, <1>5, <1>9, <2>2, <2>5, <2>10, <4>1, <4>2
      <3>3. \A j \in Importers : import'[j] # None /\ import'[j].at = "row" => import'[j].row = None
        BY <1>8 DEF ImportsStep
      <3> QED
        BY <3>1, <3>2, <3>3 DEF IdsBelong
    <2>12. PublishedAlone'
      <3>1. ASSUME NEW j \in Importers, Importing(j, "upsert")'
            PROVE  /\ import'[j].row.id \in files'
                   /\ \A k \in Importers :
                         Importing(k, "upsert")' /\ import'[k].row.id = import'[j].row.id => k = j
                   /\ ~import'[j].row.had => \A m \in Enrolled' :
                         /\ account'[m].photo # import'[j].row.id
                         /\ account'[m].id = import'[j].row.id /\ account'[m].photo = m => m \in files'
        <4>1. Importing(j, "upsert") /\ import'[j] = import[j] /\ import[j].row.id # id
          BY <1>10, <3>1
        <4>2. /\ import[j].row.id \in files
              /\ \A k \in Importers : Importing(k, "upsert") /\ import[k].row.id = import[j].row.id => k = j
              /\ ~import[j].row.had => \A m \in Enrolled :
                    /\ account[m].photo # import[j].row.id
                    /\ account[m].id = import[j].row.id /\ account[m].photo = m => m \in files
          BY <4>1 DEF PublishedAlone
        <4> QED
          BY <1>10, <1>11, <2>2, <2>5, <2>10, <4>1, <4>2, ZenonT(30)
      <3> QED
        BY <3>1 DEF PublishedAlone
    <2>13. PhotosAreTheirOwn'
      <3>1. \A m \in Enrolled' : PhotoIsThere(account'[m], m, files)
        BY <1>6, <2>2, <2>5, <2>10 DEF PhotosAreTheirOwn, PhotoIsThere
      <3> QED
        BY <1>11, <3>1 DEF PhotosAreTheirOwn
    <2> QED
      BY <1>1, <1>2, <2>6, <2>7, <2>8, <2>9, <2>11, <2>12, <2>13, PhotoRowStep
  <1>12. CASE account' = account /\ files' = IF import[i].row.had THEN files ELSE files \ {id}
    <2>1. Enrolled' = Enrolled  /\ \A m \in People : IsSpare(m)' => IsSpare(m)
      BY <1>8, <1>12, SameSpares
    <2>2. EnrolmentTypeOK'
      BY <1>1, <1>2, <1>8, <1>12 DEF EnrolmentTypeOK, ImportsStep
    <2>3. AccountsStep
      BY <1>1, <1>12, SameAccounts
    <2>4. HoldersAreNotArchived' /\ IdsBelong'
      BY <1>8, <2>3, HoldersStay, IdsStay
    <2>5. \A x : x \in files /\ x # id => x \in files'
      BY <1>12
    <2>6. \A m \in Enrolled : m # id /\ m # None /\ m \in People
      BY NumbersExist, NoneIsNobody DEF Enrolled
    <2>7. PublishedAlone'
      <3>1. ASSUME NEW j \in Importers, Importing(j, "upsert")'
            PROVE  /\ import'[j].row.id \in files'
                   /\ \A k \in Importers :
                         Importing(k, "upsert")' /\ import'[k].row.id = import'[j].row.id => k = j
                   /\ ~import'[j].row.had => \A m \in Enrolled' :
                         /\ account'[m].photo # import'[j].row.id
                         /\ account'[m].id = import'[j].row.id /\ account'[m].photo = m => m \in files'
        <4>1. Importing(j, "upsert") /\ import'[j] = import[j] /\ import[j].row.id # id
          BY <1>10, <3>1
        <4>2. /\ import[j].row.id \in files
              /\ \A k \in Importers : Importing(k, "upsert") /\ import[k].row.id = import[j].row.id => k = j
              /\ ~import[j].row.had => \A m \in Enrolled :
                    /\ account[m].photo # import[j].row.id
                    /\ account[m].id = import[j].row.id /\ account[m].photo = m => m \in files
          BY <4>1 DEF PublishedAlone
        <4> QED
          BY <1>10, <1>12, <2>1, <2>5, <2>6, <4>1, <4>2
      <3> QED
        BY <3>1 DEF PublishedAlone
    <2>8. ASSUME NEW m \in Enrolled PROVE PhotoIsThere(account[m], m, files')
      <3>1. PhotoIsThere(account[m], m, files)
        BY DEF PhotosAreTheirOwn
      <3>2. CASE import[i].row.had
        BY <1>12, <3>1, <3>2
      <3>3. CASE ~import[i].row.had
        BY <1>6, <2>5, <2>6, <3>1, <3>3 DEF PhotoIsThere
      <3> QED
        BY <3>2, <3>3
    <2>9. PhotosAreTheirOwn'
      BY <1>12, <2>1, <2>8 DEF PhotosAreTheirOwn
    <2> QED
      BY <1>1, <1>2, <2>1, <2>2, <2>4, <2>7, <2>9, PhotoRowStep
  <1> QED
    BY <1>4, <1>11, <1>12 DEF UpsertProfileRowWithID, IdIsTheRows

----------------------------------------------------------------------------
(* The first admin's form.                                                 *)

LEMMA FindsNobodyKeeps ==
    ASSUME EnrolmentInductive, NEW b \in Browsers, NEW n \in People, FindsNobody(b, n)
    PROVE  EnrolmentInductive'
  <1> USE DEF EnrolmentInductive
  <1>1. /\ Up /\ ~TableLocked /\ Enrolled = {} /\ first' = [first EXCEPT ![b] = n]
        /\ UNCHANGED <<account, lastId, files, envNumber, start, spare, import, adding, deleting, settled>>
    BY DEF FindsNobody, accountVars
  <1>2. AccountsStep /\ ImportsStep /\ Enrolled' = Enrolled
    BY <1>1, SameAccounts, SameImports DEF Enrolled
  <1>3. first' \in [Browsers -> People \cup {None}] /\ \A c \in Browsers : first'[c] # None => c = b
    BY <1>1 DEF EnrolmentTypeOK, TableLocked
  <1>4. EnrolmentTypeOK'
    BY <1>1, <1>3 DEF EnrolmentTypeOK
  <1>5. NobodyAsksYet' /\ RenamesTheFileFirst'
    BY <1>1 DEF Up, NobodyAsksYet, RenamesTheFileFirst
  <1>6. FirstAdminIsFirst'
    BY <1>1, <1>2, <1>3 DEF FirstAdminIsFirst
  <1>7. SpareInForce'
    BY <1>1 DEF SpareInForce, IsSpare
  <1>8. HoldersAreNotArchived' /\ IdsBelong' /\ PublishedAlone' /\ PhotosAreTheirOwn'
    BY <1>1, <1>2, HoldersStay, IdsStay, PhotosStay
  <1> QED
    BY <1>4, <1>5, <1>6, <1>7, <1>8

LEMMA CreateFirstAdminKeeps ==
    ASSUME EnrolmentInductive, NEW b \in Browsers, CreateFirstAdmin(b)
    PROVE  EnrolmentInductive'
  <1> USE DEF EnrolmentInductive
  <1>1. /\ first[b] # None /\ first' = [first EXCEPT ![b] = None]
        /\ UNCHANGED <<files, envNumber, start, spare, import, adding, deleting, settled>>
    BY DEF CreateFirstAdmin
  <1>2. Up /\ lastId \in Nat /\ Enrolled = {}
    BY <1>1, AskedWhenUp DEF EnrolmentTypeOK, FirstAdminIsFirst
  <1>3. first' \in [Browsers -> People \cup {None}] /\ \A c \in Browsers : first'[c] = None
    BY <1>1 DEF EnrolmentTypeOK, FirstAdminIsFirst
  <1>4. PICK n \in People : n = first[b]
    BY <1>1 DEF EnrolmentTypeOK
  <1>5. ImportsStep
    BY <1>1, SameImports
  <1>6. NobodyAsksYet' /\ RenamesTheFileFirst' /\ FirstAdminIsFirst'
    BY <1>1, <1>2, <1>3 DEF Up, NobodyAsksYet, RenamesTheFileFirst, FirstAdminIsFirst
  <1>7. AccountsStep /\ \A m \in People : IsSpare(m)' => IsSpare(m)
    <2>1. CASE UNCHANGED accountVars
      <3>1. account' = account /\ lastId' = lastId
        BY <2>1 DEF accountVars
      <3>2. AccountsStep
        BY <3>1, SameAccounts
      <3> QED
        BY <3>1, <3>2 DEF IsSpare
    <2>2. CASE /\ account[n] = None /\ lastId' = lastId + 1
               /\ account' = [account EXCEPT ![n] = [Person(lastId + 1, "person") EXCEPT !.admin = TRUE]]
      <3>1. PICK id \in Nat : id = lastId + 1
        BY <1>2
      <3>2. PICK a : a = [Person(id, "person") EXCEPT !.admin = TRUE]
        OBVIOUS
      <3>3. /\ a \in Account /\ a.id = lastId + 1 /\ a.photo = None /\ a.archived = FALSE
            /\ a.name = "person"
        BY <3>1, <3>2 DEF Person, Account
      <3>4. account' = [account EXCEPT ![n] = a]
        BY <2>2, <3>1, <3>2
      <3>5. /\ AccountsStep /\ account'[n] = a /\ Enrolled' = Enrolled \cup {n}
            /\ \A m \in People \ {n} : account'[m] = account[m]
        BY <2>2, <3>3, <3>4, OneMade
      <3>6. \A m \in People : IsSpare(m)' => IsSpare(m)
        BY <3>3, <3>5 DEF IsSpare
      <3> QED
        BY <3>5, <3>6
    <2> QED
      BY <1>4, <2>1, <2>2 DEF CreateFirstAdmin
  <1>8. EnrolmentTypeOK'
    BY <1>1, <1>3, <1>5, <1>7 DEF EnrolmentTypeOK, AccountsStep, ImportsStep
  <1>9. SpareInForce'
    BY <1>1, <1>7 DEF SpareInForce
  <1>10. HoldersAreNotArchived' /\ IdsBelong' /\ PublishedAlone' /\ PhotosAreTheirOwn'
    BY <1>1, <1>5, <1>7, HoldersStay, IdsStay, PhotosStay
  <1> QED
    BY <1>6, <1>7, <1>8, <1>9, <1>10

----------------------------------------------------------------------------
(* The spare admin.                                                        *)

\* The account of the number is an admin's afterwards; its name stays, or is the
\* spare's.
LEMMA EnsureStep ==
    ASSUME EnrolmentTypeOK, HoldersAreNotArchived, NEW n \in People, EnsureFailsafeAdmin(n)
    PROVE  /\ AccountsStep /\ account'[n] # None /\ Enrolled' = Enrolled \cup {n}
           /\ \A m \in People \ {n} : account'[m] = account[m]
           /\ IF account[n] = None THEN account'[n].name = "Failsafe Admin"
              ELSE account'[n].name = account[n].name
  <1>1. lastId \in Nat /\ account \in [People -> Account \cup {None}]
    BY DEF EnrolmentTypeOK
  <1>2. CASE account[n] = None
    <2>1. PICK id \in Nat : id = lastId + 1
      BY <1>1
    <2>2. PICK a : a = [Person(id, "Failsafe Admin") EXCEPT !.admin = TRUE]
      OBVIOUS
    <2>3. /\ a \in Account /\ a.id = lastId + 1 /\ a.photo = None /\ a.archived = FALSE
          /\ a.name = "Failsafe Admin"
      BY <2>1, <2>2 DEF Person, Account
    <2>4. account' = [account EXCEPT ![n] = a] /\ lastId' = lastId + 1
      BY <1>2, <2>1, <2>2 DEF EnsureFailsafeAdmin
    <2>5. /\ AccountsStep /\ account'[n] = a /\ Enrolled' = Enrolled \cup {n}
          /\ \A m \in People \ {n} : account'[m] = account[m]
      BY <1>2, <2>3, <2>4, OneMade
    <2> QED
      BY <1>2, <2>3, <2>5, NoneIsNobody
  <1>3. CASE account[n] # None
    <2>1. PICK a : a = [account[n] EXCEPT !.admin = TRUE, !.archived = FALSE]
      OBVIOUS
    <2>2. /\ a \in Account /\ a.id = account[n].id /\ a.photo = account[n].photo /\ a.archived = FALSE
          /\ a.name = account[n].name
      BY <1>1, <1>3, <2>1 DEF Account
    <2>3. account' = [account EXCEPT ![n] = a] /\ lastId' = lastId
      BY <1>1, <1>3, <2>1 DEF EnsureFailsafeAdmin
    <2>4. /\ AccountsStep /\ account'[n] = a /\ Enrolled' = Enrolled
          /\ \A m \in People \ {n} : account'[m] = account[m]
      BY <1>3, <2>2, <2>3, OneChanged
    <2> QED
      BY <1>3, <2>2, <2>4, NoneIsNobody DEF Enrolled
  <1> QED
    BY <1>2, <1>3

LEMMA EnsureSpares ==
    ASSUME EnrolmentTypeOK, HoldersAreNotArchived, NEW n \in People, EnsureFailsafeAdmin(n), import' = import
    PROVE  \A m \in People : IsSpare(m)' => IsSpare(m) \/ m = n
  <1>1. /\ Enrolled' = Enrolled \cup {n} /\ \A m \in People \ {n} : account'[m] = account[m]
        /\ IF account[n] = None THEN account'[n].name = "Failsafe Admin"
           ELSE account'[n].name = account[n].name
    BY EnsureStep
  <1> QED
    BY <1>1 DEF IsSpare

\* A step of the spare's request that makes or changes accounts, or nothing.
LEMMA SpareRequestStep ==
    ASSUME EnrolmentInductive, Up, UNCHANGED <<files, start, import, adding, first, deleting>>,
           AccountsStep, ~TableLocked \/ Enrolled' = Enrolled, Enrolled \subseteq Enrolled',
           spare' \in SpareCall \cup {None}, envNumber' \in People \cup {None}, settled' \in BOOLEAN,
           SpareInForce'
    PROVE  EnrolmentInductive'
  <1> USE DEF EnrolmentInductive
  <1>1. FormStep
    BY FormIdle
  <1>2. ImportsStep
    BY SameImports
  <1>3. EnrolmentTypeOK'
    BY <1>1, <1>2 DEF EnrolmentTypeOK, AccountsStep, ImportsStep
  <1>4. NobodyAsksYet' /\ RenamesTheFileFirst'
    BY DEF Up, NobodyAsksYet, RenamesTheFileFirst
  <1>5. FirstAdminIsFirst'
    BY <1>1, FormStays
  <1>6. HoldersAreNotArchived' /\ IdsBelong' /\ PublishedAlone' /\ PhotosAreTheirOwn'
    BY <1>2, HoldersStay, IdsStay, PhotosStay
  <1> QED
    BY <1>3, <1>4, <1>5, <1>6

LEMMA ChecksFailsafeNumberKeeps ==
    ASSUME EnrolmentInductive, NEW n \in People, ChecksFailsafeNumber(n)
    PROVE  EnrolmentInductive'
  <1> USE DEF EnrolmentInductive
  <1>1. /\ Up /\ spare' = [at |-> "env", number |-> n, old |-> envNumber] /\ settled' = FALSE
        /\ UNCHANGED <<account, lastId, files, envNumber, start, import, adding, first, deleting>>
    BY DEF ChecksFailsafeNumber, AdminAsks, accountVars
  <1>2. envNumber' \in People \cup {None} /\ spare' \in SpareCall \cup {None} /\ spare'.at = "env"
    BY <1>1 DEF EnrolmentTypeOK, SpareCall
  <1>3. AccountsStep /\ Enrolled' = Enrolled
    BY <1>1, SameAccounts DEF Enrolled
  <1>4. SpareInForce'
    BY <1>1, <1>2 DEF SpareInForce
  <1> QED
    BY <1>1, <1>2, <1>3, <1>4, SpareRequestStep

LEMMA GoesOn ==
    ASSUME EnrolmentTypeOK, spare # None, NEW at \in {"env", "ensure", "retire"}, SpareGoesOn(at)
    PROVE  /\ spare' \in SpareCall \cup {None}
           /\ spare' # None => spare'.at = at /\ spare'.number = spare.number
  <1>1. spare \in SpareCall
    BY DEF EnrolmentTypeOK
  <1> QED
    BY <1>1 DEF SpareGoesOn, SpareCall

LEMMA SetEnvValuesKeeps ==
    ASSUME EnrolmentInductive, SetEnvValues
    PROVE  EnrolmentInductive'
  <1> USE DEF EnrolmentInductive
  <1>1. /\ spare # None /\ envNumber' \in {envNumber, spare.number}
        /\ IF envNumber' = spare.number THEN SpareGoesOn("ensure") ELSE spare' = None
        /\ UNCHANGED <<account, lastId, files, start, import, adding, first, deleting, settled>>
    BY DEF SetEnvValues, accountVars
  <1>2. Up /\ settled' = FALSE /\ envNumber' \in People \cup {None}
    BY <1>1, AskedWhenUp DEF EnrolmentTypeOK, SpareInForce, SpareCall
  <1>3. /\ spare' \in SpareCall \cup {None}
        /\ spare' # None => envNumber' = spare'.number
    BY <1>1, GoesOn
  <1>4. AccountsStep /\ Enrolled' = Enrolled
    BY <1>1, SameAccounts DEF Enrolled
  <1>5. SpareInForce'
    BY <1>2, <1>3 DEF SpareInForce
  <1> QED
    BY <1>1, <1>2, <1>3, <1>4, <1>5, SpareRequestStep

LEMMA EnsuresSpareKeeps ==
    ASSUME EnrolmentInductive, EnsuresSpare
    PROVE  EnrolmentInductive'
  <1> USE DEF EnrolmentInductive
  <1>1. /\ spare # None /\ spare.at = "ensure" /\ ~TableLocked
        /\ UNCHANGED <<files, envNumber, start, import, adding, first, deleting, settled>>
    BY DEF EnsuresSpare
  <1>2. Up /\ settled' = FALSE /\ envNumber' \in People \cup {None} /\ envNumber' = spare.number
    BY <1>1, AskedWhenUp DEF EnrolmentTypeOK, SpareInForce
  <1>3. PICK n \in People : n = spare.number
    BY <1>1 DEF EnrolmentTypeOK, SpareCall
  <1>4. /\ spare' \in SpareCall \cup {None}
        /\ spare' # None => spare'.number = spare.number
    BY <1>1, GoesOn DEF EnsuresSpare
  <1>5. AccountsStep /\ Enrolled \subseteq Enrolled'
    <2>1. CASE UNCHANGED accountVars
      BY <1>1, <2>1, SameAccounts DEF accountVars, Enrolled
    <2>2. CASE EnsureFailsafeAdmin(n)
      BY <1>1, <2>2, EnsureStep, EnsureSpares
    <2> QED
      BY <1>3, <2>1, <2>2 DEF EnsuresSpare
  <1>6. SpareInForce'
    BY <1>2, <1>4 DEF SpareInForce
  <1> QED
    BY <1>1, <1>2, <1>4, <1>5, <1>6, SpareRequestStep

\* Whoever is a spare admin afterwards has the number .env holds.
LEMMA ConfigureFailsafeKeeps ==
    ASSUME EnrolmentInductive, ConfigureFailsafe
    PROVE  EnrolmentInductive'
  <1> USE DEF EnrolmentInductive
  <1>1. /\ spare # None /\ spare.at = "retire" /\ spare' = None
        /\ UNCHANGED <<lastId, files, envNumber, start, import, adding, first, deleting>>
    BY DEF ConfigureFailsafe
  <1>2. /\ Up /\ ~settled /\ envNumber = spare.number /\ envNumber' \in People \cup {None}
        /\ account \in [People -> Account \cup {None}] /\ lastId \in Nat
    BY <1>1, AskedWhenUp DEF EnrolmentTypeOK, SpareInForce
  <1>3. CASE UNCHANGED <<account, settled>>
    <2>1. AccountsStep /\ Enrolled' = Enrolled
      BY <1>1, <1>3, SameAccounts DEF Enrolled
    <2>2. SpareInForce'
      BY <1>1, <1>2, <1>3 DEF SpareInForce
    <2>3. settled' \in BOOLEAN /\ spare' \in SpareCall \cup {None}
      BY <1>1, <1>3 DEF EnrolmentTypeOK
    <2> QED
      BY <1>1, <1>2, <1>3, <2>1, <2>2, <2>3, SpareRequestStep
  <1>4. CASE /\ account' = [n \in People |-> IF account[n] # None /\ IsRetired(n)
                               THEN [account[n] EXCEPT !.admin = FALSE] ELSE account[n]]
             /\ settled' = TRUE
    <2>1. ASSUME NEW n \in People
          PROVE  /\ account'[n] \in Account \cup {None} /\ (account'[n] # None <=> account[n] # None)
                 /\ account[n] # None =>
                       /\ account'[n].id = account[n].id /\ account'[n].photo = account[n].photo
                       /\ account'[n].name = account[n].name /\ account'[n].loan = account[n].loan
                       /\ account'[n].archived = account[n].archived
                       /\ account'[n].name = "Failsafe Admin" /\ account'[n].admin => n = spare.number
      <3>1. CASE account[n] # None /\ IsRetired(n)
        <4>1. account[n] \in Account /\ account'[n] = [account[n] EXCEPT !.admin = FALSE]
          BY <1>2, <1>4, <3>1
        <4>2. account'[n] \in Account
          BY <4>1 DEF Account
        <4> QED
          BY <3>1, <4>1, <4>2, NoneIsNobody DEF Account
      <3>2. CASE ~(account[n] # None /\ IsRetired(n))
        BY <1>2, <1>4, <3>2 DEF IsRetired
      <3> QED
        BY <3>1, <3>2
    <2>2. account' \in [People -> Account \cup {None}]
      BY <1>4, <2>1
    <2>3. AccountsStep /\ Enrolled' = Enrolled
      <3>1. Enrolled' = Enrolled
        BY <2>1 DEF Enrolled
      <3>2. \A n \in People : ProfileStep(n) /\ ~IsNew(n)
        BY <2>1 DEF ProfileStep, IsNew
      <3>3. \A n \in People : account'[n] # None /\ account'[n].archived => account'[n].loan # "open"
        BY <2>1 DEF HoldersAreNotArchived, HoldsNothing, Enrolled
      <3>4. lastId' \in Nat /\ lastId <= lastId'
        BY <1>1, <1>2
      <3> QED
        BY <2>2, <3>1, <3>2, <3>3, <3>4 DEF AccountsStep
    <2>4. SpareInForce'
      BY <1>1, <1>2, <2>1 DEF SpareInForce, IsSpare
    <2> QED
      BY <1>1, <1>2, <1>4, <2>3, <2>4, SpareRequestStep
  <1> QED
    BY <1>3, <1>4 DEF ConfigureFailsafe

----------------------------------------------------------------------------
(* A start.                                                                *)

\* While the process starts no request waits, so nothing is published.
LEMMA StartingStep ==
    ASSUME EnrolmentInductive, ~Up, UNCHANGED <<envNumber, requestVars, settled>>,
           \A n \in People : IsSpare(n)' => IsSpare(n) \/ n = envNumber
    PROVE  /\ NobodyAsksYet' /\ FirstAdminIsFirst'
           /\ SpareInForce' /\ PublishedAlone' /\ ImportsStep
           /\ \A i \in Importers : import[i] = None /\ import'[i] = None
  <1> USE DEF EnrolmentInductive
  <1>1. /\ spare = None /\ adding = None /\ deleting = {} /\ (\A i \in Importers : import[i] = None)
        /\ \A b \in Browsers : first[b] = None
    BY DEF NobodyAsksYet, Up
  <1>2. UNCHANGED <<spare, import, adding, first, deleting, settled, envNumber>>
    BY DEF requestVars
  <1>3. NobodyAsksYet' /\ FirstAdminIsFirst' /\ PublishedAlone'
    BY <1>1, <1>2 DEF NobodyAsksYet, FirstAdminIsFirst, PublishedAlone, Importing
  <1>4. ImportsStep /\ \A i \in Importers : import[i] = None /\ import'[i] = None
    BY <1>1, <1>2, SameImports
  <1>5. SpareInForce'
    BY <1>1, <1>2 DEF SpareInForce
  <1> QED
    BY <1>3, <1>4, <1>5

LEMMA StartsFailsafeKeeps ==
    ASSUME EnrolmentInductive, StartsFailsafe
    PROVE  EnrolmentInductive'
  <1> USE DEF EnrolmentInductive
  <1>1. /\ ~Up /\ start' = Renaming /\ UNCHANGED <<files, envNumber, requestVars, settled>>
        /\ UNCHANGED <<import, spare, adding, first, deleting>>
    BY DEF StartsFailsafe, Up, requestVars
  <1>2. AccountsStep /\ Enrolled \subseteq Enrolled' /\ \A n \in People : IsSpare(n)' => IsSpare(n) \/ n = envNumber
    <2>1. CASE UNCHANGED accountVars
      <3>1. account' = account /\ lastId' = lastId /\ Enrolled' = Enrolled
        BY <2>1 DEF accountVars, Enrolled
      <3>2. AccountsStep
        BY <3>1, SameAccounts
      <3> QED
        BY <3>1, <3>2 DEF IsSpare
    <2>2. CASE envNumber # None /\ EnsureFailsafeAdmin(envNumber)
      <3>1. PICK n \in People : n = envNumber
        BY <2>2 DEF EnrolmentTypeOK
      <3>2. EnsureFailsafeAdmin(n)
        BY <2>2, <3>1
      <3>3. /\ AccountsStep /\ account'[n] # None /\ Enrolled' = Enrolled \cup {n}
            /\ \A m \in People \ {n} : account'[m] = account[m]
            /\ IF account[n] = None THEN account'[n].name = "Failsafe Admin"
               ELSE account'[n].name = account[n].name
        BY <3>2, EnsureStep
      <3> QED
        BY <3>1, <3>3 DEF IsSpare
    <2> QED
      BY <2>1, <2>2 DEF StartsFailsafe
  <1>3. /\ NobodyAsksYet' /\ FirstAdminIsFirst'
        /\ SpareInForce' /\ PublishedAlone' /\ ImportsStep
    BY <1>1, <1>2, StartingStep
  <1>4. start'.at = "photos" /\ start'.todo = NamedByNumber /\ start'.moved = None
    BY <1>1 DEF Renaming
  <1>5. EnrolmentTypeOK'
    <2>1. start' \in [at : {"photos"}, todo : SUBSET People, moved : PhotoMove \cup {None}]
      BY <1>1 DEF Renaming, NamedByNumber, Enrolled
    <2> QED
      BY <1>1, <1>2, <2>1 DEF EnrolmentTypeOK, AccountsStep
  <1>6. RenamesTheFileFirst'
    BY <1>2, <1>4 DEF RenamesTheFileFirst, NamedByNumber, AccountsStep, ProfileStep, Enrolled
  <1>7. HoldersAreNotArchived' /\ IdsBelong' /\ PhotosAreTheirOwn'
    BY <1>1, <1>2, <1>3, HoldersStay, IdsStay, PhotosStay
  <1> QED
    BY <1>3, <1>5, <1>6, <1>7

\* A file is moved to the name its row will have.
LEMMA MovesPhotoKeeps ==
    ASSUME EnrolmentInductive, NEW n \in People, MovesPhoto(n)
    PROVE  EnrolmentInductive'
  <1> USE DEF EnrolmentInductive
  <1>1. /\ ~Up /\ start.at = "photos" /\ n \in start.todo
        /\ files' = IF n \in files THEN (files \ {n}) \cup {account[n].id} ELSE files
        /\ start' = [start EXCEPT !.moved = [number |-> n, file |-> n \in files]]
        /\ UNCHANGED <<account, lastId, envNumber, requestVars, settled>>
        /\ UNCHANGED <<spare, import, adding, first, deleting>>
    BY DEF MovesPhoto, Up, accountVars, requestVars
  <1>2. /\ account[n] # None /\ account[n] \in Account /\ account[n].photo = n /\ account[n].id \in Nat
        /\ start \in [at : {"photos"}, todo : SUBSET People, moved : PhotoMove \cup {None}]
        /\ files \subseteq Nat \cup People
    <2>1. account[n] # None /\ account[n].photo = n
      BY <1>1 DEF RenamesTheFileFirst
    <2>2. account[n] \in Account
      BY <2>1, AccountTyped
    <2>3. start \in [at : {"photos"}, todo : SUBSET People, moved : PhotoMove \cup {None}]
      BY <1>1 DEF EnrolmentTypeOK
    <2> QED
      BY <2>1, <2>2, <2>3 DEF EnrolmentTypeOK, Account
  <1>3. PICK id \in Nat : id = account[n].id
    BY <1>2
  <1>4. /\ NobodyAsksYet' /\ FirstAdminIsFirst'
        /\ SpareInForce' /\ PublishedAlone' /\ ImportsStep /\ Enrolled' = Enrolled
    <2>1. Enrolled' = Enrolled /\ \A m \in People : IsSpare(m)' => IsSpare(m)
      BY <1>1 DEF Enrolled, IsSpare
    <2> QED
      BY <1>1, <2>1, StartingStep
  <1>5. AccountsStep
    BY <1>1, SameAccounts
  <1>6. PICK moved \in PhotoMove : start' = [start EXCEPT !.moved = moved] /\ moved.number = n
    <2>1. (n \in files) \in BOOLEAN
      BY SMT
    <2>2. PICK file \in BOOLEAN : file = (n \in files)
      BY <2>1, Zenon
    <2>3. [number |-> n, file |-> file] \in PhotoMove
      BY DEF PhotoMove
    <2> QED
      BY <1>1, <2>2, <2>3
  <1>7. start'.at = "photos" /\ start'.todo = start.todo /\ start'.moved = moved
    BY <1>2, <1>6
  <1>8. id \in files' /\ \A x : x \in files /\ x # n => x \in files'
    <2>1. n \in files \/ id \in files
      BY <1>2, <1>3, NoneIsNobody DEF PhotosAreTheirOwn, PhotoIsThere, Enrolled
    <2> QED
      BY <1>1, <1>3, <2>1
  <1>9. EnrolmentTypeOK'
    <2>1. start' \in [at : {"photos"}, todo : SUBSET People, moved : PhotoMove \cup {None}]
      BY <1>2, <1>6
    <2> QED
      BY <1>1, <1>2, <2>1 DEF EnrolmentTypeOK
  <1>10. RenamesTheFileFirst'
    BY <1>1, <1>3, <1>6, <1>7, <1>8 DEF RenamesTheFileFirst
  <1>11. \A m \in Enrolled : PhotoIsThere(account[m], m, files')
    <2>1. \A m \in Enrolled : PhotoIsThere(account[m], m, files) /\ account[m].id # n /\ account[m].id \in Nat
      BY NumbersExist DEF PhotosAreTheirOwn, EnrolmentTypeOK, Enrolled, Account
    <2> QED
      BY <1>2, <1>3, <1>8, <2>1 DEF PhotoIsThere
  <1>12. PhotosAreTheirOwn'
    BY <1>1, <1>4, <1>11 DEF PhotosAreTheirOwn
  <1>13. HoldersAreNotArchived' /\ IdsBelong'
    BY <1>4, <1>5, HoldersStay, IdsStay
  <1> QED
    BY <1>4, <1>9, <1>10, <1>12, <1>13

\* Then the row, which names the file; or the file goes back.
LEMMA RenameProfilePhotosByIDKeeps ==
    ASSUME EnrolmentInductive, RenameProfilePhotosByID
    PROVE  EnrolmentInductive'
  <1> USE DEF EnrolmentInductive
  <1>1. /\ ~Up /\ start.at = "photos" /\ start.moved # None
        /\ UNCHANGED <<lastId, envNumber, requestVars, settled>>
        /\ UNCHANGED <<spare, import, adding, first, deleting>>
    BY DEF RenameProfilePhotosByID, Up, requestVars
  <1>2. /\ start \in [at : {"photos"}, todo : SUBSET People, moved : PhotoMove \cup {None}]
        /\ files \subseteq Nat \cup People /\ account \in [People -> Account \cup {None}] /\ lastId \in Nat
    BY <1>1 DEF EnrolmentTypeOK
  <1>3. PICK n \in People : n = start.moved.number
    BY <1>1, <1>2 DEF PhotoMove
  <1>4. /\ n \in start.todo /\ account[n] # None /\ account[n].photo = n /\ account[n].id \in files
        /\ account[n] \in Account
    BY <1>1, <1>2, <1>3 DEF RenamesTheFileFirst
  <1>5. PICK id \in Nat : id = account[n].id
    BY <1>4 DEF Account
  <1>6. start' = [start EXCEPT !.moved = None, !.todo = start.todo \ {n}]
    BY <1>3 DEF RenameProfilePhotosByID
  <1>7. /\ start'.at = "photos" /\ start'.todo = start.todo \ {n} /\ start'.moved = None
        /\ start' \in [at : {"photos"}, todo : SUBSET People, moved : PhotoMove \cup {None}]
    BY <1>2, <1>6
  <1>8. \A m \in Enrolled : /\ PhotoIsThere(account[m], m, files) /\ account[m].id \in Nat
                            /\ account[m].id = id => m = n
    BY <1>2, <1>4, <1>5 DEF PhotosAreTheirOwn, IdsBelong, Enrolled, Account
  <1>9. CASE account' = [account EXCEPT ![n].photo = account[n].id] /\ files' = files
    <2>1. PICK b : b = [account[n] EXCEPT !.photo = id]
      OBVIOUS
    <2>2. /\ b \in Account /\ b.id = id /\ b.photo = id /\ b.name = account[n].name
          /\ b.admin = account[n].admin /\ b.archived = account[n].archived /\ b.loan = account[n].loan
      BY <1>4, <1>5, <2>1 DEF Account
    <2>3. b # None
      BY <2>2, NoneIsNobody
    <2>4. account' = [account EXCEPT ![n] = b]
      BY <1>2, <1>5, <1>9, <2>1
    <2>5. /\ account' \in [People -> Account \cup {None}] /\ account'[n] = b
          /\ \A m \in People \ {n} : account'[m] = account[m]
      BY <1>2, <2>2, <2>4
    <2>6. Enrolled' = Enrolled /\ n \in Enrolled
      BY <1>4, <2>3, <2>5 DEF Enrolled
    <2>7. \A m \in People : IsSpare(m)' => IsSpare(m)
      BY <1>4, <2>2, <2>5 DEF IsSpare
    <2>8. /\ NobodyAsksYet' /\ FirstAdminIsFirst'
          /\ SpareInForce' /\ PublishedAlone' /\ ImportsStep
          /\ \A i \in Importers : import[i] = None /\ import'[i] = None
      BY <1>1, <2>6, <2>7, StartingStep
    <2>9. EnrolmentTypeOK'
      BY <1>1, <1>7, <1>9, <2>5 DEF EnrolmentTypeOK
    <2>10. RenamesTheFileFirst'
      BY <1>1, <1>7, <2>5 DEF RenamesTheFileFirst
    <2>11. IdsBelong'
      <3>1. \A m \in Enrolled : account'[m].id = account[m].id
        BY <1>5, <2>2, <2>5 DEF Enrolled
      <3> QED
        BY <1>1, <2>6, <2>8, <3>1 DEF IdsBelong, HasRow
    <2>12. HoldersAreNotArchived'
      BY <2>2, <2>5, <2>6 DEF HoldersAreNotArchived, HoldsNothing, Enrolled
    <2>13. PhotosAreTheirOwn'
      <3>1. \A m \in Enrolled : PhotoIsThere(account'[m], m, files)
        BY <1>4, <1>5, <1>8, <2>2, <2>5 DEF PhotoIsThere, Enrolled
      <3> QED
        BY <1>9, <2>6, <3>1 DEF PhotosAreTheirOwn
    <2> QED
      BY <2>8, <2>9, <2>10, <2>11, <2>12, <2>13
  <1>10. CASE account' = account /\ files' = IF start.moved.file THEN (files \ {id}) \cup {n} ELSE files
    <2>1. Enrolled' = Enrolled /\ \A m \in People : IsSpare(m)' => IsSpare(m)
      BY <1>10 DEF Enrolled, IsSpare
    <2>2. /\ NobodyAsksYet' /\ FirstAdminIsFirst'
          /\ SpareInForce' /\ PublishedAlone' /\ ImportsStep
      BY <1>1, <1>10, <2>1, StartingStep
    <2>3. EnrolmentTypeOK'
      BY <1>1, <1>2, <1>7, <1>10 DEF EnrolmentTypeOK
    <2>4. RenamesTheFileFirst'
      BY <1>1, <1>7, <1>10 DEF RenamesTheFileFirst
    <2>5. AccountsStep
      BY <1>1, <1>10, SameAccounts
    <2>6. HoldersAreNotArchived' /\ IdsBelong'
      BY <2>2, <2>5, HoldersStay, IdsStay
    <2>7. ASSUME NEW m \in Enrolled PROVE PhotoIsThere(account[m], m, files')
      <3>1. CASE ~start.moved.file
        BY <1>8, <1>10, <3>1
      <3>2. CASE start.moved.file
        <4>1. n \in files' /\ \A x : x \in files /\ x # id => x \in files'
          BY <1>10, <3>2
        <4>2. m # id
          BY NumbersExist DEF Enrolled
        <4> QED
          BY <1>4, <1>8, <4>1, <4>2 DEF PhotoIsThere
      <3> QED
        BY <3>1, <3>2
    <2>8. PhotosAreTheirOwn'
      BY <1>10, <2>1, <2>7 DEF PhotosAreTheirOwn
    <2> QED
      BY <2>2, <2>3, <2>4, <2>6, <2>8
  <1> QED
    BY <1>3, <1>5, <1>9, <1>10 DEF RenameProfilePhotosByID

LEMMA ServesKeeps ==
    ASSUME EnrolmentInductive, Serves
    PROVE  EnrolmentInductive'
  <1> USE DEF EnrolmentInductive
  <1>1. /\ ~Up /\ start' = [at |-> "up"]
        /\ UNCHANGED <<account, lastId, files, envNumber, requestVars, settled>>
        /\ UNCHANGED <<spare, import, adding, first, deleting>>
    BY DEF Serves, Up, accountVars, requestVars
  <1>2. Enrolled' = Enrolled /\ \A m \in People : IsSpare(m)' => IsSpare(m)
    BY <1>1 DEF Enrolled, IsSpare
  <1>3. /\ NobodyAsksYet' /\ FirstAdminIsFirst'
        /\ SpareInForce' /\ PublishedAlone' /\ ImportsStep
    BY <1>1, <1>2, StartingStep
  <1>4. AccountsStep
    BY <1>1, SameAccounts
  <1>5. EnrolmentTypeOK' /\ RenamesTheFileFirst'
    BY <1>1 DEF EnrolmentTypeOK, RenamesTheFileFirst
  <1>6. HoldersAreNotArchived' /\ IdsBelong' /\ PhotosAreTheirOwn'
    BY <1>1, <1>3, <1>4, HoldersStay, IdsStay, PhotosStay
  <1> QED
    BY <1>3, <1>5, <1>6

\* Whatever was in flight is gone; the accounts, the files and .env stay.
LEMMA CrashesKeeps ==
    ASSUME EnrolmentInductive, Crashes
    PROVE  EnrolmentInductive'
  <1> USE DEF EnrolmentInductive
  <1>1. /\ start' = [at |-> "failsafe"] /\ spare' = None /\ adding' = None /\ deleting' = {}
        /\ import' = [i \in Importers |-> None] /\ first' = [b \in Browsers |-> None]
        /\ UNCHANGED <<account, lastId, files, envNumber, settled>>
    BY DEF Crashes, accountVars
  <1>2. /\ \A i \in Importers : import'[i] = None
        /\ \A b \in Browsers : first'[b] = None
    BY <1>1
  <1>3. AccountsStep /\ Enrolled' = Enrolled
    BY <1>1, SameAccounts DEF Enrolled
  <1>4. ImportsStep
    BY <1>1, <1>2 DEF ImportsStep, HasRow
  <1>5. EnrolmentTypeOK'
    BY <1>1 DEF EnrolmentTypeOK
  <1>6. NobodyAsksYet' /\ RenamesTheFileFirst' /\ FirstAdminIsFirst'
    BY <1>1, <1>2 DEF NobodyAsksYet, RenamesTheFileFirst, FirstAdminIsFirst
  <1>7. SpareInForce'
    BY <1>1 DEF SpareInForce, IsSpare
  <1>8. HoldersAreNotArchived' /\ IdsBelong' /\ PublishedAlone' /\ PhotosAreTheirOwn'
    BY <1>1, <1>3, <1>4, HoldersStay, IdsStay, PhotosStay
  <1> QED
    BY <1>5, <1>6, <1>7, <1>8

----------------------------------------------------------------------------
(* The specification.                                                      *)

LEMMA EnrolmentBegins ==
    ASSUME EnrolmentInit
    PROVE  EnrolmentInductive
  <1>1. PICK d \in Databases :
            /\ account = d.account /\ lastId = Cardinality({n \in People : d.account[n] # None})
            /\ files = d.files /\ envNumber = d.envNumber
    BY DEF EnrolmentInit
  <1> DEFINE here == {n \in People : d.account[n] # None}
  <1>2. /\ start = [at |-> "failsafe"] /\ spare = None /\ adding = None /\ deleting = {} /\ settled = FALSE
        /\ import = [i \in Importers |-> None] /\ first = [b \in Browsers |-> None]
    BY DEF EnrolmentInit
  <1>3. (\A i \in Importers : import[i] = None) /\ \A b \in Browsers : first[b] = None
    BY <1>2
  <1>4. /\ d.account \in [People -> Account \cup {None}]
        /\ d.files \subseteq Nat \cup People /\ d.envNumber \in People \cup {None}
        /\ \A n \in here :
              /\ d.account[n].id \in 1..Cardinality(here)
              /\ \A m \in here \ {n} : d.account[m].id # d.account[n].id
              /\ PhotoIsThere(d.account[n], n, d.files)
              /\ d.account[n].archived => d.account[n].loan # "open"
    BY DatabasesAreSound
  <1>5. Enrolled = here /\ lastId = Cardinality(here)
    BY <1>1 DEF Enrolled
  <1>6. lastId \in Nat
    <2>1. IsFiniteSet(here)
      BY NumbersExist, FS_Subset
    <2> QED
      BY <1>5, <2>1, FS_CardinalityType
  <1> HIDE DEF here
  <1>7. EnrolmentTypeOK
    BY <1>1, <1>2, <1>4, <1>6 DEF EnrolmentTypeOK
  <1>8. NobodyAsksYet /\ RenamesTheFileFirst /\ FirstAdminIsFirst /\ SpareInForce
    BY <1>2, <1>3 DEF NobodyAsksYet, RenamesTheFileFirst, FirstAdminIsFirst, SpareInForce
  <1>9. IdsBelong /\ PublishedAlone
    BY <1>1, <1>3, <1>4, <1>5 DEF IdsBelong, PublishedAlone, HasRow, Importing
  <1>10. HoldersAreNotArchived /\ PhotosAreTheirOwn
    BY <1>1, <1>4, <1>5 DEF HoldersAreNotArchived, HoldsNothing, PhotosAreTheirOwn
  <1> QED
    BY <1>7, <1>8, <1>9, <1>10 DEF EnrolmentInductive

LEMMA NothingHappens ==
    ASSUME EnrolmentInductive, UNCHANGED enrolmentVars
    PROVE  EnrolmentInductive'
  <1> USE DEF EnrolmentInductive, enrolmentVars, accountVars
  <1>1. AccountsStep /\ ImportsStep /\ Enrolled' = Enrolled
    BY SameAccounts, SameImports DEF Enrolled
  <1>2. EnrolmentTypeOK' /\ NobodyAsksYet' /\ RenamesTheFileFirst'
    BY DEF EnrolmentTypeOK, NobodyAsksYet, RenamesTheFileFirst
  <1>3. FirstAdminIsFirst' /\ SpareInForce'
    BY <1>1 DEF FirstAdminIsFirst, SpareInForce, IsSpare
  <1>4. HoldersAreNotArchived' /\ IdsBelong' /\ PublishedAlone' /\ PhotosAreTheirOwn'
    BY <1>1, HoldersStay, IdsStay, PhotosStay
  <1> QED
    BY <1>2, <1>3, <1>4

LEMMA EnrolmentGoesOn ==
    ASSUME EnrolmentInductive, EnrolmentNext
    PROVE  EnrolmentInductive'
  <1>1. CASE StartsFailsafe \/ RenameProfilePhotosByID \/ Serves \/ Crashes
    BY <1>1, StartsFailsafeKeeps, RenameProfilePhotosByIDKeeps, ServesKeeps, CrashesKeeps
  <1>2. CASE SetEnvValues \/ EnsuresSpare \/ ConfigureFailsafe \/ AddNames \/ RemoveExamples
    BY <1>2, SetEnvValuesKeeps, EnsuresSpareKeeps, ConfigureFailsafeKeeps, AddNamesKeeps, RemoveExamplesKeeps
  <1>3. CASE \E id \in deleting : DeleteProfile(id)
    BY <1>3, DeleteProfileKeeps
  <1>4. CASE \E b \in Browsers : CreateFirstAdmin(b) \/ \E n \in People : FindsNobody(b, n)
    BY <1>4, CreateFirstAdminKeeps, FindsNobodyKeeps
  <1>5. CASE \E n \in People :
           MovesPhoto(n) \/ ChecksFailsafeNumber(n) \/ Checkout(n) \/ Return(n) \/ SetAdmin(n)
           \/ DeleteUser(n)
    BY <1>5, MovesPhotoKeeps, ChecksFailsafeNumberKeeps, MeanwhileKeeps, DeleteUserKeeps
  <1>6. CASE \E own, rest \in {<<>>} \cup {<<n>> : n \in People} : PlanAddNames(own, rest)
    BY <1>6, PlanAddNamesKeeps
  <1>7. CASE \E i \in Importers :
           \/ ImportRoster(i) \/ LoadExamples(i)
           \/ \E n \in People : UpsertProfileRow(i, n) \/ ChoosesId(i, n)
           \/ PublishesPhoto(i) \/ UpsertProfileRowWithID(i)
           \/ FindsMissing(i) \/ ArchiveMissing(i)
    BY <1>7, ImportRosterKeeps, LoadExamplesKeeps, UpsertProfileRowKeeps, ChoosesIdKeeps, PublishesPhotoKeeps,
       UpsertProfileRowWithIDKeeps, FindsMissingKeeps, ArchiveMissingKeeps
  <1> QED
    BY <1>1, <1>2, <1>4, <1>5, <1>6, <1>7, <1>3 DEF EnrolmentNext

\* Every reachable state satisfies the invariant.
THEOREM EnrolmentInvariant == EnrolmentSpec => []EnrolmentInductive
  <1>1. EnrolmentInit => EnrolmentInductive
    BY EnrolmentBegins
  <1>2. EnrolmentInductive /\ [EnrolmentNext]_enrolmentVars => EnrolmentInductive'
    BY EnrolmentGoesOn, NothingHappens
  <1> QED
    BY <1>1, <1>2, PTL DEF EnrolmentSpec

\* Accounts, photos, requests and starts are always what their records say.
THEOREM EnrolmentTyped == EnrolmentSpec => []EnrolmentTypeOK
  <1>1. EnrolmentInductive => EnrolmentTypeOK
    BY DEF EnrolmentInductive
  <1> QED
    BY <1>1, EnrolmentInvariant, PTL

\* However many browsers race CreateFirstAdmin's form, and whoever else writes
\* accounts, one alone is past its check, and the closet is empty until it is done.
THEOREM OneAdminWithoutASession == EnrolmentSpec => []FirstAdminIsFirst
  <1>1. EnrolmentInductive => FirstAdminIsFirst
    BY DEF EnrolmentInductive
  <1> QED
    BY <1>1, EnrolmentInvariant, PTL

\* Once ConfigureFailsafe has answered, the only spare admin is the one in .env,
\* whatever calls were cut short before it.
THEOREM OnlyTheSetSpareIsAdmin == EnrolmentSpec => []SpareIsRetired
  <1>1. EnrolmentInductive => SpareIsRetired
    BY DEF EnrolmentInductive, SpareInForce, IsSpare, SpareIsRetired, Enrolled
  <1> QED
    BY <1>1, EnrolmentInvariant, PTL

\* archiveMissing never archives whoever holds an item, for any roster, any number
\* of imports and any borrowing between its read and its transaction.
THEOREM NobodyHoldingIsArchived == EnrolmentSpec => []HoldersAreNotArchived
  <1>1. EnrolmentInductive => HoldersAreNotArchived
    BY DEF EnrolmentInductive
  <1> QED
    BY <1>1, EnrolmentInvariant, PTL

\* A photo a row names is that account's own and there, through overlapping
\* imports of one number, refused rows and renamings cut short by a crash.
THEOREM EveryPhotoIsTheirOwn == EnrolmentSpec => []PhotosAreTheirOwn
  <1>1. EnrolmentInductive => PhotosAreTheirOwn
    BY DEF EnrolmentInductive
  <1> QED
    BY <1>1, EnrolmentInvariant, PTL

==============================================================================
