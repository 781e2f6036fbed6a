------------------------------ MODULE MCOffice ------------------------------
(* Instances of Catalogue, Settings and Enrolment for TLC: a behaviour runs one *)
(* of them, as "part" says, and the others stay as they began.                *)
EXTENDS Catalogue, Settings, Enrolment, TLC
CONSTANTS ca, cb, cc, ann, ben, spareNo
VARIABLE part

Line(mark, n, name) == [mark |-> mark, n |-> n, name |-> name]
MCLower == "Lens" :> "lens" @@ "lens" :> "lens" @@ "Body" :> "body"
MCFiles == {
    [format |-> "text", lines |-> <<Line("#", 1, "Body"), Line("", 0, "Body"),
       Line("#", 2, "Lens"), Line("-", 2, "Body")>>],
    [format |-> "text", lines |-> <<Line("", 1, "lens"), Line("", 2, "Body")>>],
    [format |-> "csv", rows |-> <<<<"Body", None, "Lens">>, <<"Body", "lens">>>>]}
Nothing == [x \in Cats |-> None]
Two == [Nothing EXCEPT ![ca] = [name |-> "Lens", parent |-> None],
                       ![cb] = [name |-> "Body", parent |-> ca]]
MCTrees == {Nothing, Two}

Idle == tree = Nothing /\ editsLeft = 0 /\ filingsLeft = 0
Blank == env = [dir |-> None, wall |-> None]

MCSeeds == {[dir |-> None, wall |-> None], [dir |-> "d1", wall |-> "d1"]}
MCFits == "digits" :> {"1"} @@ "alphanumeric" :> {"1", "A1"}

MCRosters == {[rows |-> {ann, ben}, photos |-> {ben}], [rows |-> {ben}, photos |-> {}]}
MCRange == <<ben, ann>>
NobodyYet == [account |-> [n \in {ann, ben, spareNo} |-> None], files |-> {}, envNumber |-> None]
\* From before photos were named by id, with its spare admin.
Legacy == [account |-> ann :> [Person(1, "person") EXCEPT !.photo = ann] @@ ben :> None @@
                       spareNo :> [Person(2, "Failsafe Admin") EXCEPT !.admin = TRUE],
           files |-> {ann}, envNumber |-> spareNo]
\* Two admins, who may delete each other.
Partners == [account |-> [n \in {ann, ben} |-> [Person(IF n = ann THEN 1 ELSE 2, "person") EXCEPT
                             !.admin = TRUE]] @@ spareNo :> None,
             files |-> {}, envNumber |-> None]
MCDatabases == {NobodyYet, Legacy, Partners}

\* One part of the office runs at a time: the others stay as they began.
OfficeInit ==
    /\ CatalogueInit /\ SettingsInit /\ EnrolmentInit
    /\ \/ /\ part = "catalogue" /\ Blank /\ envNumber = None
          /\ \/ tree = Nothing /\ editsLeft = MaxEdits /\ filingsLeft = 0
             \/ tree = Two /\ editsLeft = 1 /\ filingsLeft = MaxFilings
       \/ part = "settings" /\ Idle /\ envNumber = None
       \/ part = "enrolment" /\ Idle /\ Blank
OfficeNext ==
    /\ UNCHANGED part
    /\ \/ part = "catalogue" /\ CatalogueNext /\ UNCHANGED <<settingsVars, enrolmentVars>>
       \/ part = "settings" /\ SettingsNext /\ UNCHANGED <<catalogueVars, enrolmentVars>>
       \/ part = "enrolment" /\ EnrolmentNext /\ UNCHANGED <<catalogueVars, settingsVars>>
OfficeSpec == OfficeInit /\ [][OfficeNext]_<<part, catalogueVars, settingsVars, enrolmentVars>>
=============================================================================
