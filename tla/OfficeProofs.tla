---------------------------- MODULE OfficeProofs ----------------------------
(***************************************************************************)
(* Proofs about two tables of the office: Settings, for any values of the  *)
(* fields, any rules, any .env and any number of requests in flight, and   *)
(* Catalogue, for any categories, files, units and requests: units stay    *)
(* filed, edits happen at once and leave a sound tree, and what was        *)
(* imported can be imported again.                                         *)
(***************************************************************************)
EXTENDS Settings, Catalogue, FiniteSetTheorems, NaturalsInduction, TLAPS

-----------------------------------------------------------------------------
(* Settings: what an admin saved stands.                                   *)

Both == {"dir", "wall"}

\* Requests are answered only by a process that is up.
BusyOnlyUp == Busy # {} => boot = "up"

\* What a start has read of .env by now, if it gave up no earlier than the last
\* read; and nobody saves before both folders were seeded.
SeededInOrder ==
    gaveUp \subseteq {"load"} =>
        /\ boot = "wall" => "dir" \in seeded
        /\ boot \in {"load", "up"} => Both \subseteq seeded
        /\ (\E f \in Fields : chosen[f] # {}) => Both \subseteq seeded

\* The row lock: one save at a time holds what it will write, and what it does
\* not change is what the row still holds.
OneCommits == \A s, t \in Savers :
    save[s] # None /\ save[t] # None /\ save[s].at = "commit" /\ save[t].at = "commit" => s = t
MergesTheRow == \A s \in Savers :
    save[s] # None /\ save[s].at = "commit" =>
        \A f \in Fields : f # save[s].field => save[s].next[f] = row[f]

\* Where the process and the row stand at each step of the one request.
Agrees == rule = row.rule /\ idle = row.idle
HalfDone(j) ==
    /\ j.at \in {"lock", "commit", "insert"} => Agrees
    /\ j.at = "rule" => j.next.rule = row.rule /\ j.next.idle = row.idle
    /\ j.at = "idle" => rule = row.rule /\ j.next.idle = row.idle
    /\ j.at = "commit" => numbers \subseteq Fits[j.next.rule]
    /\ j.at = "insert" => j.number \in Fits[row.rule]
Alone ==
    ~crossed /\ gaveUp = {} =>
        /\ \A s, t \in Busy : s = t
        /\ numbers \subseteq Fits[row.rule]
        /\ boot = "up" =>
             /\ Busy = {} => Agrees
             /\ \A s \in Busy : HalfDone(save[s])

SettingsInductive ==
    /\ SettingsTypeOK /\ BusyOnlyUp /\ SeededInOrder /\ OneCommits /\ MergesTheRow
    /\ SavesStand /\ Alone
-----------------------------------------------------------------------------
(* What is written is a row, and what is in flight is a request.            *)

LEMMA ChangedRowIsARow ==
    ASSUME NEW r \in Row, NEW f \in Fields, NEW v \in Field[f]
    PROVE  /\ [r EXCEPT ![f] = v] \in Row
           /\ [r EXCEPT ![f] = v][f] = v
           /\ \A g \in Fields : g # f => [r EXCEPT ![f] = v][g] = r[g]
<1>1. CASE f = "dir"
    BY <1>1 DEF Row, Fields, Field
<1>2. CASE f = "wall"
    BY <1>2 DEF Row, Fields, Field
<1>3. CASE f = "rule"
    BY <1>3 DEF Row, Fields, Field
<1>4. CASE f = "idle"
    BY <1>4 DEF Row, Fields, Field
<1> QED
    BY <1>1, <1>2, <1>3, <1>4 DEF Fields

\* What a request holds at each of its steps.
LEMMA Shape ==
    ASSUME SettingsTypeOK, NEW s \in Savers, save[s] # None
    PROVE  /\ save[s].at \in {"lock", "commit", "rule", "idle", "insert"}
           /\ save[s].at = "lock" => /\ save[s].field \in Fields
                                     /\ save[s].to \in Field[save[s].field]
           /\ save[s].at \in {"commit", "rule", "idle"} =>
                 save[s] \in [at : {"commit", "rule", "idle"}, field : Fields, next : Row]
           /\ save[s].at = "insert" => save[s].number \in Numbers
<1>1. IsRequest(save[s])
    BY DEF SettingsTypeOK
<1>2. CASE \E f \in Fields : save[s] \in [at : {"lock"}, field : {f}, to : Field[f]]
    BY <1>2
<1>3. CASE save[s] \in [at : {"commit", "rule", "idle"}, field : Fields, next : Row]
    BY <1>3
<1>4. CASE save[s] \in [at : {"insert"}, field : {"number"}, number : Numbers]
    BY <1>4
<1> QED
    BY <1>1, <1>2, <1>3, <1>4 DEF IsRequest

LEMMA InitTyped == SettingsInit => SettingsTypeOK
<1> SUFFICES ASSUME SettingsInit PROVE SettingsTypeOK
    OBVIOUS
<1>1. rule \in Rules
    BY FitsFit DEF SettingsInit
<1>2. row \in Row
    BY <1>1 DEF SettingsInit, Row
<1> QED
    BY <1>1, <1>2 DEF SettingsInit, SettingsTypeOK

\* A request of one process, and the others as they were.
LEMMA OneRequest ==
    ASSUME SettingsTypeOK, NEW s \in Savers, NEW j, j = None \/ IsRequest(j),
           save' = [save EXCEPT ![s] = j]
    PROVE  /\ save' = [t \in Savers |-> save'[t]]
           /\ \A t \in Savers : save'[t] = None \/ IsRequest(save'[t])
           /\ save'[s] = j
           /\ \A t \in Savers : t # s => save'[t] = save[t]
BY DEF SettingsTypeOK

\* The record of the request a step leaves.
LEMMA AtIsRequest ==
    ASSUME NEW j \in [at : {"commit", "rule", "idle"}, field : Fields, next : Row],
           NEW at \in {"commit", "rule", "idle"}
    PROVE  /\ IsRequest([j EXCEPT !.at = at])
           /\ [j EXCEPT !.at = at].at = at
           /\ [j EXCEPT !.at = at].field = j.field
           /\ [j EXCEPT !.at = at].next = j.next
BY DEF IsRequest

LEMMA TypeStep ==
    ASSUME SettingsTypeOK, [SettingsNext]_settingsVars
    PROVE  SettingsTypeOK'
<1>1. CASE UNCHANGED settingsVars
    BY <1>1 DEF SettingsTypeOK, settingsVars
<1>2. ASSUME NEW f \in Both, NEW next \in {"wall", "load"}, Seed(f, next)
      PROVE  SettingsTypeOK'
  <2>1. env[f] \in Dirs \cup {None}
      BY FitsFit DEF SettingsTypeOK, Both
  <2>2. row' \in Row
      BY <1>2, <2>1 DEF SettingsTypeOK, Seed, Row, Both
  <2> QED
      BY <1>2, <2>2 DEF SettingsTypeOK, Seed, Both
<1>3. CASE LoadsSettings
    BY <1>3 DEF SettingsTypeOK, LoadsSettings, Row
<1>4. CASE GivesUpSettings
    BY <1>4 DEF SettingsTypeOK, GivesUpSettings
<1>5. CASE Restarts
  <2>1. rule' \in Rules
      BY <1>5, FitsFit DEF Restarts
  <2> QED
      BY <1>5, <2>1 DEF SettingsTypeOK, Restarts
<1>6. ASSUME NEW s \in Savers, NEW j, IsRequest(j), Enters(s, j)
      PROVE  SettingsTypeOK'
  <2>1. /\ save' = [t \in Savers |-> save'[t]]
        /\ \A t \in Savers : save'[t] = None \/ IsRequest(save'[t])
      BY <1>6, OneRequest DEF Enters
  <2> QED
      BY <1>6, <2>1 DEF SettingsTypeOK, Enters
<1>7. ASSUME NEW s \in Savers, Asks(s)
      PROVE  SettingsTypeOK'
  <2>1. PICK f \in Fields : \E v \in Field[f] :
            Enters(s, [at |-> "lock", field |-> f, to |-> v])
      BY <1>7 DEF Asks
  <2>2. PICK v \in Field[f] : Enters(s, [at |-> "lock", field |-> f, to |-> v])
      BY <2>1
  <2>3. IsRequest([at |-> "lock", field |-> f, to |-> v])
      BY DEF IsRequest
  <2> QED
      BY <1>6, <2>2, <2>3
<1>8. ASSUME NEW s \in Savers, LocksRow(s)
      PROVE  SettingsTypeOK'
  <2> DEFINE next == [row EXCEPT ![save[s].field] = save[s].to]
             j == [at |-> "commit", field |-> save[s].field, next |-> next]
  <2>1. save[s].field \in Fields /\ save[s].to \in Field[save[s].field]
      BY <1>8, Shape DEF LocksRow
  <2>2. next \in Row
      BY <2>1, ChangedRowIsARow DEF SettingsTypeOK
  <2>3. IsRequest(j)
      BY <2>1, <2>2 DEF IsRequest
  <2>4. \/ save' = [save EXCEPT ![s] = None]
        \/ save' = [save EXCEPT ![s] = j]
      BY <1>8 DEF LocksRow
  <2> HIDE DEF j
  <2>5. /\ save' = [t \in Savers |-> save'[t]]
        /\ \A t \in Savers : save'[t] = None \/ IsRequest(save'[t])
      BY <2>3, <2>4, OneRequest
  <2> QED
      BY <1>8, <2>5 DEF SettingsTypeOK, LocksRow
<1>9. ASSUME NEW s \in Savers, CommitsSave(s)
      PROVE  SettingsTypeOK'
  <2>1. /\ save[s] \in [at : {"commit", "rule", "idle"}, field : Fields, next : Row]
        /\ save[s].field \in {"dir", "rule", "idle"}
      BY <1>9, Shape DEF CommitsSave, Fields
  <2>2. row' \in Row
      BY <1>9, <2>1 DEF SettingsTypeOK, CommitsSave, Merged, Row
  <2>3. save' = [save EXCEPT ![s] = [save[s] EXCEPT !.at = "rule"]]
      BY <1>9 DEF CommitsSave
  <2>4. /\ save' = [t \in Savers |-> save'[t]]
        /\ \A t \in Savers : save'[t] = None \/ IsRequest(save'[t])
      BY <2>1, <2>3, AtIsRequest, OneRequest
  <2>5. save[s].next[save[s].field] \in {r[save[s].field] : r \in Row}
      BY <2>1
  <2>6. /\ chosen' = [f \in Fields |-> chosen'[f]]
        /\ \A f \in Fields : chosen'[f] \subseteq {r[f] : r \in Row}
      BY <1>9, <2>1, <2>5 DEF SettingsTypeOK, CommitsSave
  <2> QED
      BY <1>9, <2>2, <2>4, <2>6 DEF SettingsTypeOK, CommitsSave
<1>10. ASSUME NEW s \in Savers, CommitsWall(s)
       PROVE  SettingsTypeOK'
  <2>1. save[s] \in [at : {"commit", "rule", "idle"}, field : Fields, next : Row]
      BY <1>10, Shape DEF CommitsWall
  <2>2. save[s].next.wall \in Dirs \cup {None} /\ save[s].next.wall \in {r.wall : r \in Row}
      BY <2>1 DEF Row
  <2>3. row' \in Row
      BY <1>10, <2>2 DEF SettingsTypeOK, CommitsWall, Row
  <2>4. /\ chosen' = [f \in Fields |-> chosen'[f]]
        /\ \A f \in Fields : chosen'[f] \subseteq {r[f] : r \in Row}
      BY <1>10, <2>2, ZenonT(30) DEF SettingsTypeOK, CommitsWall, Fields
  <2> QED
      BY <1>10, <2>3, <2>4 DEF SettingsTypeOK, CommitsWall, Ends
<1>11. ASSUME NEW s \in Savers, FailsSave(s)
       PROVE  SettingsTypeOK'
    BY <1>11 DEF SettingsTypeOK, FailsSave, Ends
<1>12. ASSUME NEW s \in Savers, SetStudentNumberFormat(s)
       PROVE  SettingsTypeOK'
  <2>1. save[s] \in [at : {"commit", "rule", "idle"}, field : Fields, next : Row]
      BY <1>12, Shape DEF SetStudentNumberFormat
  <2>2. save' = [save EXCEPT ![s] = [save[s] EXCEPT !.at = "idle"]]
      BY <1>12 DEF SetStudentNumberFormat, Installs
  <2>3. /\ save' = [t \in Savers |-> save'[t]]
        /\ \A t \in Savers : save'[t] = None \/ IsRequest(save'[t])
      BY <2>1, <2>2, AtIsRequest, OneRequest
  <2> QED
      BY <1>12, <2>1, <2>3 DEF SettingsTypeOK, SetStudentNumberFormat, Row
<1>13. ASSUME NEW s \in Savers, ApplySessionIdle(s)
       PROVE  SettingsTypeOK'
  <2>1. save[s] \in [at : {"commit", "rule", "idle"}, field : Fields, next : Row]
      BY <1>13, Shape DEF ApplySessionIdle
  <2> QED
      BY <1>13, <2>1 DEF SettingsTypeOK, ApplySessionIdle, Ends, Row
<1>14. ASSUME NEW s \in Savers, ChecksNumber(s)
       PROVE  SettingsTypeOK'
  <2>1. PICK n \in Fits[rule] : Enters(s, [at |-> "insert", field |-> "number", number |-> n])
      BY <1>14 DEF ChecksNumber
  <2>2. n \in Numbers
      BY FitsFit DEF SettingsTypeOK
  <2>3. IsRequest([at |-> "insert", field |-> "number", number |-> n])
      BY <2>2 DEF IsRequest
  <2> QED
      BY <1>6, <2>1, <2>3
<1>15. ASSUME NEW s \in Savers, InsertsNumber(s)
       PROVE  SettingsTypeOK'
  <2>1. save[s].number \in Numbers
      BY <1>15, Shape DEF InsertsNumber
  <2> QED
      BY <1>15, <2>1 DEF SettingsTypeOK, InsertsNumber, Ends
<1>16. SeedDirs \/ SeedWall => SettingsTypeOK'
    BY <1>2 DEF SeedDirs, SeedWall, Both
<1> QED
    BY <1>1, <1>3, <1>4, <1>5, <1>7, <1>8, <1>9, <1>10, <1>11, <1>12, <1>13, <1>14, <1>15,
       <1>16 DEF SettingsNext
-----------------------------------------------------------------------------
(* The row lock.                                                            *)

LEMMA EndedIsGone ==
    ASSUME SettingsTypeOK, NEW s \in Savers, Ends(s)
    PROVE  /\ Busy' = Busy \ {s}
           /\ \A t \in Savers : t # s => save'[t] = save[t]
           /\ save'[s] = None
BY DEF SettingsTypeOK, Ends, Busy

\* A request that goes on is the same one at another step.
LEMMA MovedOn ==
    ASSUME SettingsTypeOK, NEW s \in Savers, save[s] # None,
           save[s].at \in {"commit", "rule", "idle"}, NEW at \in {"commit", "rule", "idle"},
           save' = [save EXCEPT ![s].at = at]
    PROVE  /\ Busy' = Busy
           /\ \A t \in Savers : t # s => save'[t] = save[t]
           /\ save'[s] # None
           /\ save'[s].at = at
           /\ save'[s].field = save[s].field
           /\ save'[s].next = save[s].next
<1>1. save[s] \in [at : {"commit", "rule", "idle"}, field : Fields, next : Row]
    BY Shape
<1>2. PICK j \in [at : {"commit", "rule", "idle"}, field : Fields, next : Row] : j = save[s]
    BY <1>1
<1> DEFINE k == [j EXCEPT !.at = at]
<1>3. /\ IsRequest(k) /\ k.at = at /\ k.field = j.field /\ k.next = j.next
    BY AtIsRequest
<1>4. save' = [save EXCEPT ![s] = k]
    BY <1>2
<1>5. k # None
    BY <1>3, NoneIsNoRequest
<1> HIDE DEF k
<1> QED
    BY <1>2, <1>3, <1>4, <1>5 DEF SettingsTypeOK, Busy

\* A request enters at its first step.
LEMMA Entered ==
    ASSUME SettingsTypeOK, NEW s \in Savers, NEW j, IsRequest(j), Enters(s, j)
    PROVE  /\ Busy' = Busy \cup {s}
           /\ \A t \in Savers : t # s => save'[t] = save[t]
           /\ save'[s] = j /\ save'[s] # None
BY NoneIsNoRequest DEF SettingsTypeOK, Enters, Busy

LEMMA AsksEnters ==
    ASSUME SettingsTypeOK, NEW s \in Savers, Asks(s)
    PROVE  \E j : IsRequest(j) /\ j.at = "lock" /\ Enters(s, j)
<1>1. PICK f \in Fields : \E v \in Field[f] :
          Enters(s, [at |-> "lock", field |-> f, to |-> v])
    BY DEF Asks
<1>2. PICK v \in Field[f] : Enters(s, [at |-> "lock", field |-> f, to |-> v])
    BY <1>1
<1>3. IsRequest([at |-> "lock", field |-> f, to |-> v])
    BY DEF IsRequest
<1> QED
    BY <1>2, <1>3

LEMMA ChecksEnters ==
    ASSUME SettingsTypeOK, NEW s \in Savers, ChecksNumber(s)
    PROVE  \E j : IsRequest(j) /\ j.at = "insert" /\ j.number \in Fits[rule] /\ Enters(s, j)
<1>1. PICK n \in Fits[rule] : Enters(s, [at |-> "insert", field |-> "number", number |-> n])
    BY DEF ChecksNumber
<1>2. n \in Numbers
    BY FitsFit DEF SettingsTypeOK
<1>3. IsRequest([at |-> "insert", field |-> "number", number |-> n])
    BY <1>2 DEF IsRequest
<1> QED
    BY <1>1, <1>3

\* What taking the row lock leaves: nothing, for a rule that refuses an account,
\* or what it will write.
LEMMA Locked ==
    ASSUME SettingsTypeOK, NEW s \in Savers, LocksRow(s)
    PROVE  \/ Ends(s)
           \/ /\ Busy' = Busy
              /\ \A t \in Savers : t # s => save'[t] = save[t]
              /\ save'[s] # None /\ save'[s].at = "commit"
              /\ save'[s].field \in Fields
              /\ \A f \in Fields : f # save'[s].field => save'[s].next[f] = row[f]
              /\ save'[s].next.rule # row.rule => numbers \subseteq Fits[save'[s].next.rule]
<1> DEFINE next == [row EXCEPT ![save[s].field] = save[s].to]
           j == [at |-> "commit", field |-> save[s].field, next |-> next]
           refused == next.rule # row.rule /\ ~(numbers \subseteq Fits[next.rule])
<1>1. save[s].field \in Fields /\ save[s].to \in Field[save[s].field]
    BY Shape DEF LocksRow
<1>2. next \in Row /\ \A f \in Fields : f # save[s].field => next[f] = row[f]
    BY <1>1, ChangedRowIsARow DEF SettingsTypeOK
<1>3. IsRequest(j)
    BY <1>1, <1>2 DEF IsRequest
<1>4. j # None /\ j.at = "commit" /\ j.field = save[s].field /\ j.next = next
    BY <1>3, NoneIsNoRequest
<1>5. save' = [save EXCEPT ![s] = IF refused THEN None ELSE j]
    BY DEF LocksRow
<1> HIDE DEF next, j
<1>6. CASE refused
    BY <1>5, <1>6 DEF Ends
<1>7. CASE ~refused
  <2>1. save' = [save EXCEPT ![s] = j]
      BY <1>5, <1>7
  <2>2. save'[s] = j /\ \A t \in Savers : t # s => save'[t] = save[t]
      BY <2>1 DEF SettingsTypeOK
  <2>3. Busy' = Busy
      BY <2>2, <1>4 DEF Busy, LocksRow
  <2> QED
      BY <2>2, <2>3, <1>1, <1>2, <1>4, <1>7
<1> QED
    BY <1>6, <1>7

LEMMA LockStep ==
    ASSUME SettingsTypeOK, SettingsTypeOK', BusyOnlyUp, OneCommits, MergesTheRow,
           [SettingsNext]_settingsVars
    PROVE  OneCommits' /\ MergesTheRow'
<1>1. CASE UNCHANGED settingsVars
    BY <1>1 DEF OneCommits, MergesTheRow, settingsVars
<1>2. CASE SeedDirs \/ SeedWall
    BY <1>2 DEF BusyOnlyUp, OneCommits, MergesTheRow, SeedDirs, SeedWall, Seed, Busy
<1>3. CASE LoadsSettings \/ GivesUpSettings
    BY <1>3 DEF OneCommits, MergesTheRow, LoadsSettings, GivesUpSettings
<1>4. CASE Restarts
    BY <1>4 DEF OneCommits, MergesTheRow, Restarts
<1>5. ASSUME NEW s \in Savers, Asks(s)
      PROVE  OneCommits' /\ MergesTheRow'
  <2>1. PICK j : IsRequest(j) /\ j.at = "lock" /\ Enters(s, j)
      BY <1>5, AsksEnters
  <2>2. save'[s].at = "lock" /\ \A t \in Savers : t # s => save'[t] = save[t]
      BY <2>1, Entered
  <2> QED
      BY <2>1, <2>2 DEF OneCommits, MergesTheRow, Enters
<1>6. ASSUME NEW s \in Savers, ChecksNumber(s)
      PROVE  OneCommits' /\ MergesTheRow'
  <2>1. PICK j : IsRequest(j) /\ j.at = "insert" /\ Enters(s, j)
      BY <1>6, ChecksEnters
  <2>2. save'[s].at = "insert" /\ \A t \in Savers : t # s => save'[t] = save[t]
      BY <2>1, Entered
  <2> QED
      BY <2>1, <2>2 DEF OneCommits, MergesTheRow, Enters
<1>7. ASSUME NEW s \in Savers, Ends(s), row' = row
      PROVE  OneCommits' /\ MergesTheRow'
    BY <1>7, EndedIsGone DEF OneCommits, MergesTheRow
<1>8. ASSUME NEW s \in Savers, LocksRow(s)
      PROVE  OneCommits' /\ MergesTheRow'
  <2>1. CASE Ends(s)
      BY <1>7, <1>8, <2>1 DEF LocksRow
  <2>2. CASE ~Ends(s)
    <3>1. /\ \A t \in Savers : t # s => save'[t] = save[t]
          /\ \A f \in Fields : f # save'[s].field => save'[s].next[f] = row[f]
        BY <1>8, <2>2, Locked
    <3>2. \A t \in Savers : t # s /\ save[t] # None => save[t].at # "commit"
        BY <1>8 DEF LocksRow, RowFree, Busy
    <3> QED
        BY <1>8, <3>1, <3>2 DEF OneCommits, MergesTheRow, LocksRow
  <2> QED
      BY <2>1, <2>2
<1>9. ASSUME NEW s \in Savers, CommitsSave(s) \/ CommitsWall(s)
      PROVE  OneCommits' /\ MergesTheRow'
  <2>1. save[s] # None /\ save[s].at = "commit"
      BY <1>9 DEF CommitsSave, CommitsWall
  <2>2. /\ \A t \in Savers : t # s => save'[t] = save[t]
        /\ save'[s] # None => save'[s].at # "commit"
      BY <1>9, <2>1, MovedOn, EndedIsGone DEF CommitsSave, CommitsWall
  <2> QED
      BY <2>1, <2>2 DEF OneCommits, MergesTheRow
<1>10. ASSUME NEW s \in Savers, FailsSave(s) \/ ApplySessionIdle(s) \/ InsertsNumber(s)
       PROVE  OneCommits' /\ MergesTheRow'
    BY <1>7, <1>10 DEF FailsSave, ApplySessionIdle, InsertsNumber
<1>11. ASSUME NEW s \in Savers, SetStudentNumberFormat(s)
       PROVE  OneCommits' /\ MergesTheRow'
  <2>1. /\ \A t \in Savers : t # s => save'[t] = save[t]
        /\ save'[s].at = "idle"
      BY <1>11, MovedOn DEF SetStudentNumberFormat, Installs
  <2> QED
      BY <1>11, <2>1 DEF OneCommits, MergesTheRow, SetStudentNumberFormat
<1> QED
    BY <1>1, <1>2, <1>3, <1>4, <1>5, <1>6, <1>8, <1>9, <1>10, <1>11 DEF SettingsNext
-----------------------------------------------------------------------------
(* Seeding comes first, and what is saved stands.                           *)

LEMMA SeedStep ==
    ASSUME SettingsTypeOK, BusyOnlyUp, SeededInOrder, [SettingsNext]_settingsVars
    PROVE  BusyOnlyUp' /\ SeededInOrder'
<1>1. CASE UNCHANGED settingsVars
    BY <1>1 DEF BusyOnlyUp, SeededInOrder, settingsVars, Busy
<1>2. CASE SeedDirs \/ SeedWall \/ LoadsSettings
    BY <1>2 DEF BusyOnlyUp, SeededInOrder, SeedDirs, SeedWall, Seed, LoadsSettings, Busy, Both
<1>3. CASE GivesUpSettings
    BY <1>3 DEF SettingsTypeOK, BusyOnlyUp, SeededInOrder, GivesUpSettings, Busy
<1>4. CASE Restarts
    BY <1>4 DEF BusyOnlyUp, SeededInOrder, Restarts, Busy
<1>5. ASSUME NEW s \in Savers, Asks(s) \/ ChecksNumber(s)
      PROVE  BusyOnlyUp' /\ SeededInOrder'
    BY <1>5 DEF BusyOnlyUp, SeededInOrder, Asks, ChecksNumber, Enters
<1>6. ASSUME NEW s \in Savers,
             \/ LocksRow(s) \/ FailsSave(s) \/ SetStudentNumberFormat(s)
             \/ ApplySessionIdle(s) \/ InsertsNumber(s)
      PROVE  BusyOnlyUp' /\ SeededInOrder'
    BY <1>6 DEF BusyOnlyUp, SeededInOrder, LocksRow, FailsSave, SetStudentNumberFormat,
                ApplySessionIdle, InsertsNumber, Busy
<1>7. ASSUME NEW s \in Savers, CommitsSave(s) \/ CommitsWall(s)
      PROVE  BusyOnlyUp' /\ SeededInOrder'
    BY <1>7 DEF BusyOnlyUp, SeededInOrder, CommitsSave, CommitsWall, Busy
<1> QED
    BY <1>1, <1>2, <1>3, <1>4, <1>5, <1>6, <1>7 DEF SettingsNext

LEMMA StandStep ==
    ASSUME SettingsTypeOK, SeededInOrder, MergesTheRow, SavesStand, [SettingsNext]_settingsVars
    PROVE  SavesStand'
<1>1. CASE UNCHANGED <<row, chosen, gaveUp>>
    BY <1>1 DEF SavesStand
<1>2. ASSUME NEW f \in Both, NEW next \in {"wall", "load"}, Seed(f, next)
      PROVE  SavesStand'
  <2>1. SUFFICES ASSUME gaveUp \subseteq {"load"}, NEW g \in Fields, chosen[g] # {}
                 PROVE  row'[g] = row[g]
      BY <1>2 DEF SavesStand, Seed
  <2>2. f \in seeded
      BY <2>1 DEF SeededInOrder
  <2> QED
      BY <1>2, <2>2 DEF Seed, Seeded
<1>3. CASE GivesUpSettings
    BY <1>3 DEF SavesStand, GivesUpSettings
<1>4. ASSUME NEW s \in Savers, CommitsSave(s)
      PROVE  SavesStand'
  <2>1. /\ save[s] \in [at : {"commit", "rule", "idle"}, field : Fields, next : Row]
        /\ save[s].field # "wall"
      BY <1>4, Shape DEF CommitsSave
  <2>2. \A f \in Fields : f # save[s].field => save[s].next[f] = row[f]
      BY <1>4 DEF MergesTheRow, CommitsSave
  <2>3. PICK n \in Row : n = save[s].next
      BY <2>1
  <2>4. \A f \in Fields : row'[f] = IF f = "wall" THEN row.wall ELSE n[f]
      BY <1>4, <2>3 DEF CommitsSave, Merged, Row, Fields
  <2>5. \A f \in Fields :
            chosen'[f] = IF f = save[s].field THEN {n[f]} ELSE chosen[f]
      BY <1>4, <2>3 DEF SettingsTypeOK, CommitsSave
  <2>6. \A f \in Fields : f # save[s].field => row'[f] = row[f]
      BY <2>2, <2>3, <2>4
  <2>7. row'[save[s].field] = n[save[s].field]
      BY <2>1, <2>4
  <2> QED
      BY <1>4, <2>5, <2>6, <2>7, ZenonT(30) DEF SavesStand, CommitsSave
<1>5. ASSUME NEW s \in Savers, CommitsWall(s)
      PROVE  SavesStand'
  <2>1. /\ \A f \in Fields : f # "wall" => row'[f] = row[f] /\ chosen'[f] = chosen[f]
        /\ row'.wall = save[s].next.wall /\ chosen'["wall"] = {save[s].next.wall}
      BY <1>5 DEF SettingsTypeOK, CommitsWall, Row, Fields
  <2> QED
      BY <1>5, <2>1 DEF SavesStand, CommitsWall
<1>6. UNCHANGED settingsVars => UNCHANGED <<row, chosen, gaveUp>>
    BY DEF settingsVars
<1>7. LoadsSettings \/ Restarts => UNCHANGED <<row, chosen, gaveUp>>
    BY DEF LoadsSettings, Restarts
<1>8. ASSUME NEW s \in Savers,
             \/ Asks(s) \/ LocksRow(s) \/ FailsSave(s) \/ SetStudentNumberFormat(s)
             \/ ApplySessionIdle(s) \/ ChecksNumber(s) \/ InsertsNumber(s)
      PROVE  UNCHANGED <<row, chosen, gaveUp>>
    BY <1>8 DEF Asks, Enters, LocksRow, FailsSave, SetStudentNumberFormat, ApplySessionIdle,
                ChecksNumber, InsertsNumber
<1>9. SeedDirs \/ SeedWall => SavesStand'
    BY <1>2 DEF SeedDirs, SeedWall, Both
<1> QED
    BY <1>1, <1>3, <1>4, <1>5, <1>6, <1>7, <1>8, <1>9 DEF SettingsNext

-----------------------------------------------------------------------------
(* One request at a time.                                                   *)

LEMMA AloneStep ==
    ASSUME SettingsTypeOK, SettingsTypeOK', BusyOnlyUp, MergesTheRow, Alone,
           [SettingsNext]_settingsVars
    PROVE  Alone'
<1>1. CASE UNCHANGED settingsVars
    BY <1>1 DEF Alone, HalfDone, Agrees, settingsVars, Busy
<1> SUFFICES ASSUME SettingsNext, ~crossed', gaveUp' = {}
             PROVE  Alone'
    BY <1>1 DEF Alone
<1>2. CASE SeedDirs \/ SeedWall
  <2>1. row'.rule = row.rule
      BY <1>2 DEF SettingsTypeOK, Row, SeedDirs, SeedWall, Seed
  <2> QED
      BY <1>2, <2>1 DEF Alone, SeedDirs, SeedWall, Seed, Busy
<1>3. CASE LoadsSettings
  <2>1. Busy' = {}
      BY <1>3 DEF BusyOnlyUp, LoadsSettings, Busy
  <2> QED
      BY <1>3, <2>1 DEF Alone, Agrees, LoadsSettings
<1>4. CASE GivesUpSettings
    BY <1>4 DEF GivesUpSettings
<1>5. CASE Restarts
    BY <1>5 DEF Alone, Restarts, Busy
<1>6. ASSUME NEW s \in Savers, NEW j, IsRequest(j), Enters(s, j),
             \/ j.at = "lock"
             \/ j.at = "insert" /\ j.number \in Fits[rule]
      PROVE  Alone'
  <2>1. Busy = {} /\ ~crossed /\ gaveUp = {} /\ boot = "up"
      BY <1>6 DEF SettingsTypeOK, Enters
  <2>2. Busy' = {s} /\ save'[s] = j
      BY <1>6, <2>1, Entered
  <2>3. Agrees /\ numbers \subseteq Fits[row.rule]
      BY <2>1 DEF Alone
  <2> QED
      BY <1>6, <2>2, <2>3 DEF Alone, Agrees, HalfDone, Enters
<1>7. ASSUME NEW s \in Savers, Asks(s)
      PROVE  Alone'
    BY <1>6, <1>7, AsksEnters
<1>8. ASSUME NEW s \in Savers, ChecksNumber(s)
      PROVE  Alone'
    BY <1>6, <1>8, ChecksEnters
<1>9. ASSUME NEW s \in Savers, save[s] # None, UNCHANGED <<crossed, gaveUp>>
      PROVE  /\ Busy = {s} /\ boot = "up" /\ HalfDone(save[s])
             /\ numbers \subseteq Fits[row.rule]
    BY <1>9 DEF BusyOnlyUp, Alone, Busy
\* The request is gone, and what it leaves agrees.
<1>10. ASSUME NEW s \in Savers, Busy = {s}, Ends(s), Agrees', (numbers \subseteq Fits[row.rule])'
       PROVE  Alone'
  <2>1. Busy' = {}
      BY <1>10, EndedIsGone
  <2> QED
      BY <1>10, <2>1 DEF Alone
<1>11. ASSUME NEW s \in Savers, LocksRow(s)
       PROVE  Alone'
  <2>1. Busy = {s} /\ Agrees /\ numbers \subseteq Fits[row.rule]
      BY <1>9, <1>11 DEF HalfDone, LocksRow
  <2>2. CASE Ends(s)
      BY <1>10, <1>11, <2>1, <2>2 DEF LocksRow, Agrees
  <2>3. CASE ~Ends(s)
    <3>1. /\ Busy' = {s} /\ save'[s].at = "commit"
          /\ save'[s].next.rule # row.rule => numbers \subseteq Fits[save'[s].next.rule]
        BY <1>11, <2>1, <2>3, Locked
    <3>2. numbers \subseteq Fits[save'[s].next.rule]
        BY <2>1, <3>1
    <3> QED
        BY <1>11, <2>1, <3>1, <3>2 DEF LocksRow, Alone, HalfDone, Agrees
  <2> QED
      BY <2>2, <2>3
<1>12. ASSUME NEW s \in Savers, CommitsSave(s)
       PROVE  Alone'
  <2>1. /\ Busy = {s} /\ save[s].at = "commit"
        /\ numbers \subseteq Fits[save[s].next.rule]
      BY <1>9, <1>12 DEF HalfDone, CommitsSave
  <2>2. Busy' = {s} /\ save'[s].at = "rule" /\ save'[s].next = save[s].next
      BY <1>12, <2>1, MovedOn DEF CommitsSave
  <2>3. save[s].next \in Row
      BY <1>12, Shape DEF CommitsSave
  <2>4. row'.rule = save[s].next.rule /\ row'.idle = save[s].next.idle
      BY <1>12, <2>3 DEF CommitsSave, Merged, Row
  <2> QED
      BY <1>12, <2>1, <2>2, <2>4 DEF CommitsSave, Alone, HalfDone
<1>13. ASSUME NEW s \in Savers, CommitsWall(s)
       PROVE  Alone'
  <2>1. Busy = {s} /\ Agrees /\ numbers \subseteq Fits[row.rule]
      BY <1>9, <1>13 DEF HalfDone, CommitsWall
  <2>2. row'.rule = row.rule /\ row'.idle = row.idle
      BY <1>13 DEF SettingsTypeOK, Row, CommitsWall
  <2> QED
      BY <1>10, <1>13, <2>1, <2>2 DEF CommitsWall, Agrees
<1>14. ASSUME NEW s \in Savers, FailsSave(s)
       PROVE  Alone'
  <2>1. Busy = {s} /\ Agrees /\ numbers \subseteq Fits[row.rule]
      BY <1>9, <1>14 DEF HalfDone, FailsSave
  <2> QED
      BY <1>10, <1>14, <2>1 DEF FailsSave, Agrees
<1>15. ASSUME NEW s \in Savers, SetStudentNumberFormat(s)
       PROVE  Alone'
  <2>1. /\ save[s].at = "rule" /\ save[s] # None
        /\ save' = [save EXCEPT ![s].at = "idle"] /\ rule' = save[s].next.rule
        /\ UNCHANGED <<row, idle, boot, numbers>>
      BY <1>15 DEF SetStudentNumberFormat, Installs
  <2>2. /\ Busy = {s} /\ numbers \subseteq Fits[row.rule]
        /\ save[s].next.rule = row.rule /\ save[s].next.idle = row.idle
      BY <1>9, <1>15, <2>1 DEF HalfDone, SetStudentNumberFormat
  <2>3. Busy' = {s} /\ save'[s].at = "idle" /\ save'[s].next = save[s].next
      BY <2>1, <2>2, MovedOn
  <2> QED
      BY <2>1, <2>2, <2>3 DEF Alone, HalfDone
<1>16. ASSUME NEW s \in Savers, ApplySessionIdle(s)
       PROVE  Alone'
  <2>1. /\ Busy = {s} /\ numbers \subseteq Fits[row.rule]
        /\ rule = row.rule /\ save[s].next.idle = row.idle
      BY <1>9, <1>16 DEF HalfDone, ApplySessionIdle
  <2> QED
      BY <1>10, <1>16, <2>1 DEF ApplySessionIdle, Agrees
<1>17. ASSUME NEW s \in Savers, InsertsNumber(s)
       PROVE  Alone'
  <2>1. /\ Busy = {s} /\ Agrees /\ numbers \subseteq Fits[row.rule]
        /\ save[s].number \in Fits[row.rule]
      BY <1>9, <1>17 DEF HalfDone, InsertsNumber
  <2> QED
      BY <1>10, <1>17, <2>1 DEF InsertsNumber, Agrees
<1> QED
    BY <1>2, <1>3, <1>4, <1>5, <1>7, <1>8, <1>11, <1>12, <1>13, <1>14, <1>15, <1>16, <1>17
    DEF SettingsNext

-----------------------------------------------------------------------------
(* The theorems.                                                            *)

LEMMA InitSettingsInductive == SettingsInit => SettingsInductive
<1> SUFFICES ASSUME SettingsInit PROVE SettingsInductive
    OBVIOUS
<1>1. Busy = {}
    BY DEF SettingsInit, Busy
<1>2. BusyOnlyUp /\ SeededInOrder /\ OneCommits /\ MergesTheRow
    BY <1>1 DEF SettingsInit, BusyOnlyUp, SeededInOrder, OneCommits, MergesTheRow
<1>3. SavesStand /\ Alone
    BY <1>1 DEF SettingsInit, SavesStand, Alone, Fields
<1> QED
    BY <1>2, <1>3, InitTyped DEF SettingsInductive

\* What the saves, the starts and the row lock keep true between them: the
\* invariant the theorems below follow from.
THEOREM SettingsInvariant == SettingsSpec => []SettingsInductive
<1>1. SettingsInductive /\ [SettingsNext]_settingsVars => SettingsInductive'
    BY TypeStep, LockStep, SeedStep, StandStep, AloneStep DEF SettingsInductive
<1> QED
    BY <1>1, InitSettingsInductive, PTL DEF SettingsSpec

\* Every row, request and value in force is one the program can hold.
THEOREM SettingsTyped == SettingsSpec => []SettingsTypeOK
BY SettingsInvariant, PTL DEF SettingsInductive

\* SaveSettings and EnsureSettings: whatever two admins save at once and however
\* starts are cut short, a value an admin saved or cleared is the one in the row
\* until that field is saved again, unless a start gave up before .env was read.
THEOREM AdminsSavesStand == SettingsSpec => []SavesStand
BY SettingsInvariant, PTL DEF SettingsInductive

\* SetStudentNumberFormat and applySessionIdle: one request at a time, the process
\* runs on the rule and the idle time of the row, and the rule refuses no account.
THEOREM RuleInForce == SettingsSpec => []RuleInForceIsSaved
<1>1. SettingsInductive => RuleInForceIsSaved
    BY DEF SettingsInductive, Alone, Agrees, RuleInForceIsSaved
<1> QED
    BY <1>1, SettingsInvariant, PTL


-----------------------------------------------------------------------------
(* Catalogue: units stay filed.                                             *)

Filing == [at : {"look", "write", "commit"}, serials : SUBSET Serials, new : BOOLEAN,
           cat : Cats \cup {None}]

\* Every request has a place; a unit is filed under a category or none.
FilingTyped ==
    /\ edit = [e \in Editors |-> edit[e]]
    /\ unit \in [Serials -> Unit \cup {None}]
    /\ filing \in [Filers -> Filing \cup {None}]

\* The advisory lock: one edit of the tree at a time.
OneEdits == \A e, g \in Editors : edit[e] # None /\ edit[g] # None => e = g

\* From its count to its commit, a deletion has the category's row to itself: no
\* unit is under it, and none that was written waits for its commit.
DeletedIsBare ==
    \A e \in Editors : Deleting(e, "delete") =>
        /\ ~RowShared(edit[e].id)
        /\ \A s \in Serials : unit[s] # None => unit[s].cat # edit[e].id

CatalogueInductive == FilingTyped /\ OneEdits /\ DeletedIsBare

LEMMA CatalogueStarts ==
    ASSUME CatalogueInit
    PROVE  CatalogueInductive
BY DEF CatalogueInit, CatalogueInductive, FilingTyped, OneEdits, DeletedIsBare, Deleting

\* A new edit begins when there is no other.
LEMMA BeginsKeeps ==
    ASSUME CatalogueInductive, NEW e \in Editors, NEW request, Begins(e, request),
           request.op # "delete"
    PROVE  CatalogueInductive'
<1>1. /\ \A g \in Editors : edit[g] = None
      /\ \A g \in Editors \ {e} : edit'[g] = None
      /\ edit' = [g \in Editors |-> edit'[g]] /\ edit'[e] = request
      /\ UNCHANGED <<unit, filing>>
    BY DEF Begins, CategoryWriteLocked, CatalogueInductive, FilingTyped
<1> QED
    BY <1>1 DEF CatalogueInductive, FilingTyped, OneEdits, DeletedIsBare, Deleting, RowShared

\* With the edit that ends there is none.
LEMMA EndsKeeps ==
    ASSUME CatalogueInductive, NEW e \in Editors, edit[e] # None,
           edit' = [edit EXCEPT ![e] = None],
           UNCHANGED filing, unit' \in [Serials -> Unit \cup {None}]
    PROVE  CatalogueInductive'
<1>1. \A g \in Editors : edit'[g] = None
    BY DEF CatalogueInductive, FilingTyped, OneEdits
<1>2. edit' = [g \in Editors |-> edit'[g]]
    BY DEF CatalogueInductive, FilingTyped
<1> QED
    BY <1>1, <1>2 DEF CatalogueInductive, FilingTyped, OneEdits, DeletedIsBare, Deleting

LEMMA EditKeeps ==
    ASSUME CatalogueInductive, NEW e \in Editors,
           \/ CreateCategory(e) \/ UpdateCategory(e) \/ WritesRow(e)
           \/ ImportCategories(e) \/ WritesImport(e)
           \/ DeleteCategory(e) \/ CountsUnder(e) \/ Deletes(e)
    PROVE  CatalogueInductive'
<1>1. unit \in [Serials -> Unit \cup {None}]
    BY DEF CatalogueInductive, FilingTyped
<1>2. CASE CreateCategory(e)
    BY <1>2, BeginsKeeps DEF CreateCategory
<1>3. CASE UpdateCategory(e)
    BY <1>3, BeginsKeeps DEF UpdateCategory
<1>4. CASE ImportCategories(e)
    BY <1>4, BeginsKeeps DEF ImportCategories
<1>5. CASE DeleteCategory(e)
    BY <1>5, BeginsKeeps DEF DeleteCategory
<1>6. CASE WritesRow(e)
    BY <1>1, <1>6, EndsKeeps DEF WritesRow
<1>7. CASE WritesImport(e)
    BY <1>1, <1>7, EndsKeeps DEF WritesImport
<1>8. CASE CountsUnder(e)
    <2> DEFINE c == edit[e].id
    <2>1. edit[e] # None /\ ~RowShared(c) /\ UNCHANGED <<unit, filing>>
        BY <1>8 DEF CountsUnder, Deleting
    <2>2. CASE edit' = [edit EXCEPT ![e] = None]
        BY <1>1, <2>1, <2>2, EndsKeeps
    <2>3. CASE /\ edit' = [edit EXCEPT ![e] = [op |-> "delete", id |-> c]]
               /\ \A s \in Serials : unit[s] # None => unit[s].cat # c
        <3>1. \A g \in Editors \ {e} : edit[g] = None /\ edit'[g] = None
            BY <2>1, <2>3 DEF CatalogueInductive, FilingTyped, OneEdits
        <3>2. edit'[e] = [op |-> "delete", id |-> c] /\ edit' = [g \in Editors |-> edit'[g]]
            BY <2>3 DEF CatalogueInductive, FilingTyped
        <3>3. ~RowShared(edit[e].id)'
            BY <2>1, <3>2 DEF RowShared
        <3> QED
            BY <1>1, <2>1, <2>3, <3>1, <3>2, <3>3
               DEF CatalogueInductive, FilingTyped, OneEdits, DeletedIsBare, Deleting
    <2> QED
        BY <1>8, <2>2, <2>3 DEF CountsUnder
<1>9. CASE Deletes(e)
    <2>1. /\ edit[e] # None /\ edit' = [edit EXCEPT ![e] = None] /\ UNCHANGED filing
          /\ unit' = [s \in Serials |-> IF unit[s] # None /\ unit[s].cat = edit[e].id
                                        THEN [unit[s] EXCEPT !.cat = None] ELSE unit[s]]
        BY <1>9 DEF Deletes, Deleting
    <2>2. unit' \in [Serials -> Unit \cup {None}]
        <3>1. \A u \in Unit : [u EXCEPT !.cat = None] \in Unit
            BY DEF Unit
        <3> QED
            BY <1>1, <2>1, <3>1
    <2> QED
        BY <2>1, <2>2, EndsKeeps
<1> QED
    BY <1>2, <1>3, <1>4, <1>5, <1>6, <1>7, <1>8, <1>9

\* A write of units that is not yet made disturbs no deletion.
LEMMA FilesKeeps ==
    ASSUME CatalogueInductive, NEW f \in Filers,
           filing' = [filing EXCEPT ![f] = filing'[f]], filing'[f] \in Filing \cup {None},
           filing'[f] # None => filing'[f].at # "commit" \/ ~RowLocked(filing'[f].cat),
           UNCHANGED <<edit, unit>>
    PROVE  CatalogueInductive'
<1>1. filing' \in [Filers -> Filing \cup {None}]
    BY DEF CatalogueInductive, FilingTyped
<1>2. \A g \in Filers \ {f} : filing'[g] = filing[g]
    BY DEF CatalogueInductive, FilingTyped
<1>3. ASSUME NEW e \in Editors, Deleting(e, "delete"), RowShared(edit[e].id)'
      PROVE  FALSE
    <2>1. PICK g \in Filers : /\ filing'[g] # None /\ filing'[g].at = "commit"
                              /\ filing'[g].cat = edit[e].id
        BY <1>3 DEF RowShared
    <2>2. CASE g = f
        BY <1>3, <2>1, <2>2 DEF RowLocked
    <2>3. CASE g # f
        BY <1>2, <1>3, <2>1, <2>3 DEF RowShared, CatalogueInductive, DeletedIsBare
    <2> QED
        BY <2>2, <2>3
<1>4. DeletedIsBare'
    BY <1>3 DEF CatalogueInductive, DeletedIsBare, Deleting
<1> QED
    BY <1>1, <1>4 DEF CatalogueInductive, FilingTyped, OneEdits

LEMMA NewFilingKeeps ==
    ASSUME CatalogueInductive, NEW f \in Filers, NEW request \in Filing, Files(f, request),
           request.at # "commit"
    PROVE  CatalogueInductive'
<1>1. filing' = [filing EXCEPT ![f] = request] /\ UNCHANGED <<edit, unit>>
    BY DEF Files
<1>2. filing'[f] = request
    BY <1>1 DEF CatalogueInductive, FilingTyped
<1> QED
    BY <1>1, <1>2, FilesKeeps

\* What a commit leaves filed is filed under what it was, or under what was written.
LEMMA CommitFiles ==
    ASSUME CatalogueInductive, NEW f \in Filers, Commits(f)
    PROVE  /\ filing[f] \in Filing /\ filing[f].at = "commit"
           /\ filing' = [filing EXCEPT ![f] = None] /\ UNCHANGED <<tree, edit>>
           /\ unit' \in [Serials -> Unit \cup {None}]
           /\ \A s \in Serials :
                 /\ unit[s] # None => /\ unit'[s] # None
                                      /\ \/ unit'[s] = unit[s]
                                         \/ filing[f].cat # None /\ unit'[s].cat = filing[f].cat
                 /\ unit'[s] # None => unit'[s] = unit[s] \/ unit'[s].cat = filing[f].cat
<1> DEFINE r == filing[f]
<1>1. /\ unit \in [Serials -> Unit \cup {None}] /\ r \in Filing /\ r.at = "commit"
      /\ filing' = [filing EXCEPT ![f] = None] /\ UNCHANGED <<tree, edit>>
    BY DEF Commits, CatalogueInductive, FilingTyped
<1>2. r.cat \in Cats \cup {None}
    BY <1>1 DEF Filing
<1>3. unit' = [s \in Serials |->
                 IF s \notin r.serials THEN unit[s]
                 ELSE IF unit[s] = None THEN [cat |-> r.cat]
                 ELSE IF r.new \/ r.cat = None THEN unit[s]
                 ELSE [unit[s] EXCEPT !.cat = r.cat]]
    BY DEF Commits
<1> HIDE DEF r
<1>4. /\ [cat |-> r.cat] \in Unit
      /\ \A u \in Unit : [u EXCEPT !.cat = r.cat] \in Unit /\ [u EXCEPT !.cat = r.cat].cat = r.cat
    BY <1>2 DEF Unit
<1>5. \A u \in Unit : u # None
    BY CatalogueFits, Zenon
<1>6. \A s \in Serials :
         \/ unit'[s] = unit[s]
         \/ unit[s] = None /\ unit'[s] = [cat |-> r.cat]
         \/ /\ unit[s] \in Unit /\ r.cat # None
            /\ unit'[s] = [unit[s] EXCEPT !.cat = r.cat]
    BY <1>1, <1>3
<1>7. unit' \in [Serials -> Unit \cup {None}]
    <2>1. \A s \in Serials : unit'[s] \in Unit \cup {None}
        BY <1>1, <1>4, <1>6
    <2>2. unit' = [s \in Serials |-> unit'[s]]
        BY <1>3
    <2> QED
        BY <2>1, <2>2
<1>8. \A s \in Serials :
         /\ unit[s] # None => /\ unit'[s] # None
                              /\ \/ unit'[s] = unit[s]
                                 \/ r.cat # None /\ unit'[s].cat = r.cat
         /\ unit'[s] # None => unit'[s] = unit[s] \/ unit'[s].cat = r.cat
    <2> TAKE s \in Serials
    <2>1. CASE unit'[s] = unit[s]
        BY <2>1
    <2>2. CASE unit[s] = None /\ unit'[s] = [cat |-> r.cat]
        BY <2>2
    <2>3. CASE /\ unit[s] \in Unit /\ r.cat # None
               /\ unit'[s] = [unit[s] EXCEPT !.cat = r.cat]
        <3>1. unit'[s] \in Unit /\ unit'[s].cat = r.cat
            BY <1>4, <2>3
        <3> QED
            BY <1>5, <2>3, <3>1
    <2> QED
        BY <1>6, <2>1, <2>2, <2>3
<1> USE DEF r
<1> QED
    BY <1>1, <1>7, <1>8

LEMMA FilerKeeps ==
    ASSUME CatalogueInductive, NEW f \in Filers,
           \/ ImportsRow(f) \/ LooksForRow(f) \/ CreateAsset(f) \/ UpdateAsset(f)
           \/ BulkAddAssets(f) \/ Writes(f) \/ Commits(f)
    PROVE  CatalogueInductive'
<1>1. Present(tree) \subseteq Cats
    BY DEF Present
<1>2. filing \in [Filers -> Filing \cup {None}] /\ unit \in [Serials -> Unit \cup {None}]
    BY DEF CatalogueInductive, FilingTyped
<1>3. CASE ImportsRow(f)
    <2> DEFINE Named(w) == {c \in Present(tree) : Lower[tree[c].name] = w}
    <2>1. PICK s \in Serials, w \in Range(Lower) \cup {None} :
             /\ w # None => Cardinality(Named(w)) = 1
             /\ Files(f, [at |-> "look", serials |-> {s}, new |-> TRUE,
                          cat |-> IF w = None THEN None ELSE CHOOSE c \in Named(w) : TRUE])
        BY <1>3 DEF ImportsRow
    <2>2. ASSUME w # None PROVE (CHOOSE c \in Named(w) : TRUE) \in Cats
        <3>1. IsFiniteSet(Named(w)) /\ Named(w) \subseteq Cats
            BY <1>1, CatalogueFits, FS_Subset
        <3> HIDE DEF Named
        <3>2. Named(w) # {}
            BY <2>1, <2>2, <3>1, FS_EmptySet
        <3> QED
            BY <3>1, <3>2
    <2> HIDE DEF Named
    <2>3. PICK c \in Cats \cup {None} :
             Files(f, [at |-> "look", serials |-> {s}, new |-> TRUE, cat |-> c])
        BY <2>1, <2>2
    <2>4. [at |-> "look", serials |-> {s}, new |-> TRUE, cat |-> c] \in Filing
        BY DEF Filing
    <2> QED
        BY <2>3, <2>4, NewFilingKeeps
<1>4. CASE LooksForRow(f)
    <2>1. PICK free \in BOOLEAN :
             /\ filing[f] \in Filing /\ UNCHANGED <<edit, unit>>
             /\ filing' = [filing EXCEPT ![f].at = "write", ![f].new = free]
        <3>1. (~Taken(filing[f].serials)) \in BOOLEAN
            BY DEF Taken
        <3> QED
            BY <1>2, <1>4, <3>1 DEF LooksForRow
    <2>2. filing'[f] = [filing[f] EXCEPT !.at = "write", !.new = free]
        BY <1>2, <2>1
    <2>3. filing'[f] \in Filing /\ filing'[f].at = "write"
        <3>1. \A r \in Filing : /\ [r EXCEPT !.at = "write", !.new = TRUE] \in Filing
                               /\ [r EXCEPT !.at = "write", !.new = FALSE] \in Filing
            BY DEF Filing
        <3>2. \A r \in Filing : /\ [r EXCEPT !.at = "write", !.new = TRUE].at = "write"
                               /\ [r EXCEPT !.at = "write", !.new = FALSE].at = "write"
            BY DEF Filing
        <3>3. CASE free = TRUE
            BY <2>1, <2>2, <3>1, <3>2, <3>3, ZenonT(40)
        <3>4. CASE free = FALSE
            BY <2>1, <2>2, <3>1, <3>2, <3>4, ZenonT(40)
        <3> QED
            BY <3>3, <3>4
    <2>4. filing' = [filing EXCEPT ![f] = filing'[f]]
        BY <1>2, <2>1, <2>2
    <2> QED
        BY <2>1, <2>3, <2>4, FilesKeeps
<1>5. CASE CreateAsset(f)
    <2>1. PICK s \in Serials, c \in Present(tree) \cup {None} :
             Files(f, [at |-> "write", serials |-> {s}, new |-> TRUE, cat |-> c])
        BY <1>5 DEF CreateAsset
    <2>2. [at |-> "write", serials |-> {s}, new |-> TRUE, cat |-> c] \in Filing
        BY <1>1 DEF Filing
    <2> QED
        BY <2>1, <2>2, NewFilingKeeps
<1>6. CASE UpdateAsset(f)
    <2>1. PICK s \in Serials, c \in Present(tree) :
             Files(f, [at |-> "write", serials |-> {s}, new |-> FALSE, cat |-> c])
        BY <1>6 DEF UpdateAsset
    <2>2. [at |-> "write", serials |-> {s}, new |-> FALSE, cat |-> c] \in Filing
        BY <1>1 DEF Filing
    <2> QED
        BY <2>1, <2>2, NewFilingKeeps
<1>7. CASE BulkAddAssets(f)
    <2>1. PICK run \in SUBSET Serials, c \in Present(tree) \cup {None} :
             Files(f, [at |-> "write", serials |-> run, new |-> TRUE, cat |-> c])
        BY <1>7 DEF BulkAddAssets
    <2>2. [at |-> "write", serials |-> run, new |-> TRUE, cat |-> c] \in Filing
        BY <1>1 DEF Filing
    <2> QED
        BY <2>1, <2>2, NewFilingKeeps
<1>8. CASE Writes(f)
    <2>1. filing[f] \in Filing /\ ~RowLocked(filing[f].cat) /\ UNCHANGED <<tree, edit, unit>>
        BY <1>2, <1>8 DEF Writes
    <2>2. CASE filing' = [filing EXCEPT ![f] = None]
        <3>1. filing'[f] = None
            BY <1>2, <2>2
        <3> QED
            BY <2>1, <2>2, <3>1, FilesKeeps
    <2>3. CASE filing' = [filing EXCEPT ![f] = [filing[f] EXCEPT !.at = "commit"]]
        <3>1. filing'[f] = [filing[f] EXCEPT !.at = "commit"]
            BY <1>2, <2>3
        <3>2. filing'[f] \in Filing /\ filing'[f].cat = filing[f].cat
            BY <2>1, <3>1 DEF Filing
        <3>3. filing' = [filing EXCEPT ![f] = filing'[f]]
            BY <2>3, <3>1
        <3> QED
            BY <2>1, <3>2, <3>3, FilesKeeps
    <2> QED
        BY <1>8, <2>2, <2>3 DEF Writes
<1>9. CASE Commits(f)
    <2>1. FilingTyped'
        BY <1>2, <1>9, CommitFiles DEF CatalogueInductive, FilingTyped
    <2>2. \A g \in Filers : filing'[g] # None => filing'[g] = filing[g]
        BY <1>2, <1>9, CommitFiles
    <2>3. \A e \in Editors : Deleting(e, "delete") => filing[f].cat # edit[e].id
        BY <1>2, <1>9, CommitFiles DEF Commits, CatalogueInductive, DeletedIsBare, RowShared
    <2>4. DeletedIsBare'
        <3>1. SUFFICES ASSUME NEW e \in Editors, Deleting(e, "delete"), edit' = edit
                       PROVE  /\ ~RowShared(edit[e].id)'
                              /\ \A s \in Serials : unit'[s] # None => unit'[s].cat # edit[e].id
            BY <1>9, CommitFiles DEF DeletedIsBare, Deleting
        <3>2. ~RowShared(edit[e].id) /\ \A s \in Serials : unit[s] # None => unit[s].cat # edit[e].id
            BY <3>1 DEF CatalogueInductive, DeletedIsBare
        <3>3. ~RowShared(edit[e].id)'
            BY <2>2, <3>1, <3>2 DEF RowShared
        <3> QED
            BY <1>9, <2>3, <3>1, <3>2, <3>3, CommitFiles
    <2>5. OneEdits'
        BY <1>9, CommitFiles DEF CatalogueInductive, OneEdits
    <2> QED
        BY <2>1, <2>4, <2>5 DEF CatalogueInductive
<1> QED
    BY <1>3, <1>4, <1>5, <1>6, <1>7, <1>8, <1>9

\* One edit of the tree at a time, and a category that is being deleted has no unit
\* under it and none on its way there, whoever files units meanwhile.
THEOREM CatalogueInvariant == CatalogueSpec => []CatalogueInductive
<1>1. CatalogueInductive /\ [CatalogueNext]_catalogueVars => CatalogueInductive'
    <2>1. ASSUME CatalogueInductive, CatalogueNext PROVE CatalogueInductive'
        BY <2>1, EditKeeps, FilerKeeps DEF CatalogueNext
    <2>2. ASSUME CatalogueInductive, UNCHANGED catalogueVars PROVE CatalogueInductive'
        BY <2>2 DEF catalogueVars, CatalogueInductive, FilingTyped, OneEdits, DeletedIsBare,
                    Deleting, RowShared
    <2> QED
        BY <2>1, <2>2
<1> QED
    BY <1>1, CatalogueStarts, PTL DEF CatalogueSpec

\* categories.go, DeleteCategory beside assets.go: no deletion takes a category from under a
\* unit, also one that was filed between the count and the delete: the foreign key shares the
\* row that the deletion locked before it counted.
THEOREM UnitsStayFiled == CatalogueSpec => FiledStaysFiled
<1> DEFINE Stays == \A s \in Serials : unit[s] # None /\ unit[s].cat # None
                       => unit'[s] # None /\ unit'[s].cat # None
<1>1. CatalogueInductive /\ [CatalogueNext]_catalogueVars => [Stays]_catalogueVars
    <2>1. ASSUME CatalogueInductive, CatalogueNext PROVE Stays
        <3>1. CASE UNCHANGED unit
            BY <3>1
        <3>2. ASSUME NEW e \in Editors, Deletes(e) PROVE Stays
            <4>1. \A s \in Serials : unit[s] # None => unit[s].cat # edit[e].id
                BY <2>1, <3>2 DEF Deletes, Deleting, CatalogueInductive, DeletedIsBare
            <4> QED
                BY <3>2, <4>1 DEF Deletes
        <3>3. ASSUME NEW f \in Filers, Commits(f) PROVE Stays
            BY <2>1, <3>3, CommitFiles
        <3> QED
            BY <2>1, <3>1, <3>2, <3>3
               DEF CatalogueNext, CreateCategory, UpdateCategory, WritesRow, ImportCategories,
                   WritesImport, DeleteCategory, CountsUnder, Begins, ImportsRow, LooksForRow,
                   CreateAsset, UpdateAsset, BulkAddAssets, Writes, Files
    <2> QED
        BY <2>1
<1> QED
    BY <1>1, CatalogueInvariant, PTL DEF CatalogueSpec, FiledStaysFiled

-----------------------------------------------------------------------------
(* Catalogue: the climb from a category to its root.                        *)

\* A set of numbers has a least.
LEMMA LeastExists ==
    ASSUME NEW S \in SUBSET Nat, S # {}
    PROVE  \E x \in S : \A y \in S : x <= y
<1> DEFINE R == OpToRel(<, Nat)
<1>1. PICK x \in S : \A y \in S : ~(<<y, x>> \in R)
    <2>1. IsWellFoundedOn(R, Nat)
        BY NatLessThanWellFounded
    <2>2. S \subseteq Nat
        OBVIOUS
    <2> HIDE DEF R
    <2> QED
        BY <2>1, <2>2, WFMin
<1>2. \A y \in S : ~(y < x)
    BY <1>1 DEF OpToRel
<1> QED
    BY <1>2

\* A set of numbers that are not beyond N has a greatest.
LEMMA GreatestIsThere ==
    ASSUME NEW N \in Nat, NEW S \in SUBSET (0 .. N), S # {}
    PROVE  Max(S) \in S /\ \A y \in S : Max(S) >= y
<1> DEFINE Bounds == {n \in Nat : \A y \in S : n >= y}
<1>1. N \in Bounds
    OBVIOUS
<1>2. PICK n \in Bounds : \A m \in Bounds : n <= m
    <2> HIDE DEF Bounds
    <2>1. Bounds # {}
        BY <1>1
    <2>2. Bounds \subseteq Nat
        BY DEF Bounds
    <2> QED
        BY <2>1, <2>2, LeastExists
<1>3. n \in S
    <2>1. SUFFICES ASSUME n \notin S PROVE FALSE
        OBVIOUS
    <2>2. PICK y \in S : TRUE
        OBVIOUS
    <2>3. n > y /\ y >= 0
        BY <2>1
    <2>4. n - 1 \in Bounds
        BY <2>1, <2>3
    <2> HIDE DEF Bounds
    <2>5. n \in Nat
        BY DEF Bounds
    <2> QED
        BY <1>2, <2>4, <2>5
<1>4. \E z \in S : \A y \in S : z >= y
    BY <1>3
<1> QED
    BY <1>4 DEF Max

\* What holds of 0, and of each number after one it holds of, holds up to N.
LEMMA UpTo ==
    ASSUME NEW N \in Nat, NEW G, 0 \in G, \A n \in 1 .. N : n - 1 \in G => n \in G
    PROVE  \A n \in 0 .. N : n \in G
<1> DEFINE Bad == {n \in 0 .. N : n \notin G}
<1>1. SUFFICES ASSUME Bad # {} PROVE FALSE
    OBVIOUS
<1>2. PICK x \in Bad : \A y \in Bad : x <= y
    <2>1. Bad \subseteq Nat
        OBVIOUS
    <2> HIDE DEF Bad
    <2> QED
        BY <1>1, <2>1, LeastExists
<1>3. x \in 1 .. N /\ x - 1 \in 0 .. N /\ ~(x <= x - 1)
    OBVIOUS
<1>4. x - 1 \notin Bad
    BY <1>2, <1>3
<1> QED
    BY <1>3, <1>4

\* What a sequence ranges over.
LEMMA SeqRange ==
    ASSUME NEW X, NEW s \in Seq(X), NEW x
    PROVE  /\ (\E i \in 1 .. Len(s) : s[i] = x) => x \in Range(s)
           /\ x \in Range(s) => \E i \in 1 .. Len(s) : s[i] = x
BY DEF Range

\* A tree as a snapshot may hold it, sound or not.
Trees == [Cats -> Node \cup {None}]

\* A walk up from c, and one that has come to a root.
Walk(t, c, s) ==
    /\ s \in Seq(Present(t)) /\ s # <<>> /\ s[1] = c
    /\ \A i \in 1 .. Len(s) - 1 : s[i + 1] = ParentIn(t, s[i])
    /\ \A i, j \in 1 .. Len(s) : s[i] = s[j] => i = j
Branch(t, c, s) == Walk(t, c, s) /\ t[s[Len(s)]].parent = None

\* A parent is a category of the snapshot, or none.
LEMMA ParentFits ==
    ASSUME NEW t \in Trees, NEW c \in Present(t)
    PROVE  /\ t[c] \in Node /\ c \in Cats /\ None \notin Present(t)
           /\ ParentIn(t, c) \in Present(t) \cup {None}
           /\ ParentIn(t, c) # None => ParentIn(t, c) = t[c].parent /\ ParentIn(t, c) # c
           /\ t[c].parent \in Present(t) \ {c} => ParentIn(t, c) = t[c].parent
           /\ t[c].parent = None => ParentIn(t, c) = None
<1>1. t[c] \in Node /\ c \in Cats
    BY DEF Present, Trees
<1>2. t[c].parent \in Cats \cup {None}
    BY <1>1 DEF Node
<1> QED
    BY <1>1, <1>2, CatalogueFits DEF Present, ParentIn

\* One step of the walk.
LEMMA ClimbWalks ==
    ASSUME NEW t \in Trees, NEW c \in Present(t), NEW s, Walk(t, c, s)
    PROVE  /\ Walk(t, c, Climb(t, s))
           /\ \/ Climb(t, s) = s /\ ParentIn(t, s[Len(s)]) \in Range(s) \cup {None}
              \/ Len(Climb(t, s)) = Len(s) + 1
<1> DEFINE p == ParentIn(t, s[Len(s)])
<1>1. Len(s) \in Nat \ {0} /\ s \in Seq(Present(t)) /\ s[Len(s)] \in Present(t)
    BY DEF Walk
<1>2. Climb(t, s) = IF p = None \/ p \in Range(s) THEN s ELSE Append(s, p)
    BY DEF Climb, Last
<1>3. CASE p = None \/ p \in Range(s)
    BY <1>2, <1>3
<1>4. CASE p # None /\ p \notin Range(s)
    <2> DEFINE r == Append(s, p)
    <2>1. p \in Present(t)
        BY <1>1, <1>4, ParentFits
    <2>2. /\ r \in Seq(Present(t)) /\ Len(r) = Len(s) + 1 /\ r # <<>>
          /\ \A i \in 1 .. Len(s) : r[i] = s[i]
          /\ r[Len(s) + 1] = p
        BY <1>1, <2>1
    <2>3. \A i \in 1 .. Len(s) : p # s[i]
        BY <1>1, <1>4 DEF Range
    <2> HIDE DEF r
    <2>4. ASSUME NEW i \in 1 .. Len(r) - 1 PROVE r[i + 1] = ParentIn(t, r[i])
        <3>1. CASE i = Len(s)
            BY <1>1, <2>2, <3>1
        <3> HIDE DEF p
        <3>2. CASE i \in 1 .. Len(s) - 1
            <4>1. i + 1 \in 1 .. Len(s) /\ i \in 1 .. Len(s)
                BY <1>1, <3>2
            <4> QED
                BY <2>2, <3>2, <4>1 DEF Walk
        <3> QED
            BY <1>1, <2>2, <3>1, <3>2
    <2>5. \A i, j \in 1 .. Len(r) : r[i] = r[j] => i = j
        <3> HIDE DEF p
        <3> QED
            BY <1>1, <2>2, <2>3 DEF Walk
    <2>6. r[1] = c
        BY <1>1, <2>2 DEF Walk
    <2>7. Climb(t, s) = r
        BY <1>2, <1>4 DEF r
    <2> HIDE DEF p
    <2> QED
        BY <2>2, <2>4, <2>5, <2>6, <2>7 DEF Walk
<1> QED
    BY <1>3, <1>4, <1>2

\* The climb of Chain is defined step by step.
ClimbsTo(t, c, N, up) == up = [n \in 0 .. N |-> IF n = 0 THEN <<c>> ELSE Climb(t, up[n - 1])]

\* Every climb of a given length is there: Chain's recursion is what it says.
LEMMA ClimbExists ==
    ASSUME NEW t, NEW c, NEW N \in Nat
    PROVE  \E up : ClimbsTo(t, c, N, up)
<1> DEFINE Is(n, up) == ClimbsTo(t, c, n, up)
           G == {n \in 0 .. N : \E up : Is(n, up)}
<1>1. 0 \in G
    <2>1. Is(0, [m \in 0 .. 0 |-> <<c>>])
        BY DEF ClimbsTo
    <2> HIDE DEF Is
    <2> QED
        BY <2>1
<1>2. ASSUME NEW n \in 1 .. N, n - 1 \in G PROVE n \in G
    <2>1. PICK up : Is(n - 1, up)
        BY <1>2
    <2> DEFINE more == [m \in 0 .. n |-> IF m = n THEN Climb(t, up[n - 1]) ELSE up[m]]
    <2>2. \A m \in 0 .. n : more[m] = IF m = 0 THEN <<c>> ELSE Climb(t, more[m - 1])
        <3> TAKE m \in 0 .. n
        <3>1. m = 0 \/ m - 1 \in 0 .. n - 1
            OBVIOUS
        <3>2. \A k \in 0 .. n - 1 : more[k] = up[k]
            OBVIOUS
        <3>3. \A k \in 0 .. n - 1 : up[k] = IF k = 0 THEN <<c>> ELSE Climb(t, up[k - 1])
            BY <2>1 DEF ClimbsTo
        <3>4. more[n] = Climb(t, up[n - 1])
            OBVIOUS
        <3> HIDE DEF more, Is
        <3> QED
            BY <3>1, <3>2, <3>3, <3>4
    <2>3. more = [m \in 0 .. n |-> more[m]]
        OBVIOUS
    <2> HIDE DEF more
    <2>4. Is(n, more)
        BY <2>2, <2>3 DEF ClimbsTo
    <2> HIDE DEF Is
    <2> QED
        BY <2>4
<1> HIDE DEF G
<1>3. N \in G
    BY <1>1, <1>2, UpTo
<1> QED
    BY <1>3 DEF G

\* The chain of a category climbs as far as there is a parent that is new.
LEMMA ChainWalks ==
    ASSUME NEW t \in Trees, NEW c \in Present(t)
    PROVE  /\ Walk(t, c, Chain(t, c))
           /\ ParentIn(t, Last(Chain(t, c))) \in Range(Chain(t, c)) \cup {None}
<1> DEFINE N == Cardinality(Cats)
           up == CHOOSE f : ClimbsTo(t, c, N, f)
           Ended(s) == ParentIn(t, s[Len(s)]) \in Range(s) \cup {None}
           G == {n \in 0 .. N : Walk(t, c, up[n]) /\ (Len(up[n]) = n + 1 \/ Ended(up[n]))}
<1>1. N \in Nat
    BY CatalogueFits, FS_CardinalityType
<1>2. ClimbsTo(t, c, N, up)
    BY <1>1, ClimbExists
<1>3. Chain(t, c) = up[N]
    BY DEF Chain, ClimbsTo
<1> HIDE DEF up, N
<1>4. 0 \in G
    <2>1. up[0] = <<c>>
        BY <1>1, <1>2 DEF ClimbsTo
    <2>2. Walk(t, c, <<c>>)
        BY DEF Walk
    <2> QED
        BY <1>1, <2>1, <2>2
<1>5. ASSUME NEW n \in 1 .. N, n - 1 \in G PROVE n \in G
    <2>1. up[n] = Climb(t, up[n - 1]) /\ n - 1 \in 0 .. N
        BY <1>1, <1>2 DEF ClimbsTo
    <2>2. Walk(t, c, up[n - 1])
        BY <1>5
    <2>3. \/ up[n] = up[n - 1] /\ Ended(up[n - 1])
          \/ Len(up[n]) = Len(up[n - 1]) + 1
        BY <2>1, <2>2, ClimbWalks
    <2>4. Walk(t, c, up[n])
        BY <2>1, <2>2, ClimbWalks
    <2>5. Ended(up[n - 1]) => up[n] = up[n - 1]
        BY <2>1 DEF Climb, Last
    <2>6. Len(up[n]) = n + 1 \/ Ended(up[n])
        <3> HIDE DEF Ended
        <3> QED
            BY <1>5, <2>3, <2>5
    <2> QED
        BY <1>1, <2>4, <2>6
<1>6. N \in G
    <2> HIDE DEF G
    <2> QED
        BY <1>1, <1>4, <1>5, UpTo
<1> DEFINE s == up[N]
<1>7. Walk(t, c, s) /\ (Len(s) = N + 1 \/ Ended(s))
    BY <1>6
<1>8. Len(s) # N + 1
    <2>1. SUFFICES ASSUME Len(s) = N + 1 PROVE FALSE
        OBVIOUS
    <2>2. s \in Injection(1 .. N + 1, Cats)
        <3>1. s \in [1 .. N + 1 -> Cats]
            <4>1. s \in Seq(Present(t)) /\ Present(t) \subseteq Cats
                BY <1>7 DEF Walk, Present
            <4> HIDE DEF s
            <4> QED
                BY <1>1, <2>1, <4>1
        <3>2. \A i, j \in 1 .. N + 1 : s[i] = s[j] => i = j
            BY <1>7, <2>1 DEF Walk
        <3> QED
            BY <3>1, <3>2 DEF Injection, IsInjective
    <2>3. Cardinality(1 .. N + 1) = N + 1
        BY <1>1, FS_Interval
    <2>4. Cardinality(1 .. N + 1) <= Cardinality(Cats)
        BY <2>2, CatalogueFits, FS_Injection
    <2> QED
        BY <1>1, <2>3, <2>4 DEF N
<1>9. Ended(s)
    BY <1>7, <1>8
<1> QED
    BY <1>3, <1>7, <1>9 DEF Last

\* There is one branch to a root, and it is the chain.
LEMMA BranchIsChain ==
    ASSUME NEW t \in Trees, NEW c \in Present(t), NEW s, Branch(t, c, s)
    PROVE  Chain(t, c) = s
<1> DEFINE r == Chain(t, c)
<1>1. Walk(t, c, r) /\ ParentIn(t, r[Len(r)]) \in Range(r) \cup {None} /\ Walk(t, c, s)
    BY ChainWalks DEF Branch, Last
<1>2. /\ r \in Seq(Present(t)) /\ Len(r) \in Nat \ {0}
      /\ s \in Seq(Present(t)) /\ Len(s) \in Nat \ {0}
    BY <1>1 DEF Walk
<1> HIDE DEF r
<1> DEFINE N == IF Len(r) <= Len(s) THEN Len(r) - 1 ELSE Len(s) - 1
           G == {n \in 0 .. N : r[n + 1] = s[n + 1]}
<1>3. N \in Nat /\ N + 1 <= Len(r) /\ N + 1 <= Len(s) /\ (N + 1 = Len(r) \/ N + 1 = Len(s))
    BY <1>2
<1> HIDE DEF N
<1>4. 0 \in G
    BY <1>1, <1>3 DEF Walk
<1>5. ASSUME NEW n \in 1 .. N, n - 1 \in G PROVE n \in G
    <2>1. n \in 1 .. Len(r) - 1 /\ n \in 1 .. Len(s) - 1 /\ r[n] = s[n]
        BY <1>2, <1>3, <1>5
    <2>2. r[n + 1] = ParentIn(t, r[n]) /\ s[n + 1] = ParentIn(t, s[n])
        BY <1>1, <2>1 DEF Walk
    <2> QED
        BY <1>3, <2>1, <2>2
<1>6. \A n \in 0 .. N : r[n + 1] = s[n + 1]
    <2>1. \A n \in 0 .. N : n \in G
        <3> HIDE DEF G
        <3> QED
            BY <1>3, <1>4, <1>5, UpTo
    <2> QED
        BY <2>1
<1>7. \A n \in 1 .. N + 1 : r[n] = s[n]
    <2> TAKE n \in 1 .. N + 1
    <2>1. n - 1 \in 0 .. N /\ (n - 1) + 1 = n
        BY <1>3
    <2> QED
        BY <1>6, <2>1
<1>8. Len(r) = Len(s)
    <2>1. CASE N + 1 = Len(s) /\ Len(s) < Len(r)
        <3>1. r[Len(s) + 1] = ParentIn(t, s[Len(s)]) /\ r[Len(s) + 1] \in Present(t)
            BY <1>1, <1>2, <1>7, <2>1 DEF Walk
        <3>2. s[Len(s)] \in Present(t) /\ t[s[Len(s)]].parent = None
            BY <1>2 DEF Branch
        <3> QED
            BY <3>1, <3>2, ParentFits
    <2>2. CASE N + 1 = Len(r) /\ Len(r) < Len(s)
        <3>1. s[Len(r) + 1] = ParentIn(t, r[Len(r)]) /\ s[Len(r) + 1] \in Present(t)
            BY <1>1, <1>2, <1>7, <2>2 DEF Walk
        <3>2. s[Len(r) + 1] \in Range(r)
            BY <1>1, <3>1, ParentFits
        <3>3. PICK j \in 1 .. Len(r) : r[j] = s[Len(r) + 1]
            BY <1>2, <3>2 DEF Range
        <3>4. s[j] = s[Len(r) + 1] /\ j \in 1 .. Len(s) /\ Len(r) + 1 \in 1 .. Len(s)
            BY <1>2, <1>7, <2>2, <3>3
        <3>5. j = Len(r) + 1
            BY <1>1, <3>4 DEF Walk
        <3> QED
            BY <1>2, <3>3, <3>5
    <2> QED
        BY <1>2, <1>3, <2>1, <2>2
<1>9. r = s
    BY <1>2, <1>3, <1>7, <1>8
<1> QED
    BY <1>9 DEF r

\* In a sound tree every chain is a branch, no longer than the browse filter draws.
LEMMA SoundChains ==
    ASSUME NEW t, Sound(t), NEW c \in Present(t)
    PROVE  /\ t \in Trees /\ Branch(t, c, Chain(t, c)) /\ DepthOf(t, c) = Len(Chain(t, c))
           /\ Chain(t, c) \in Seq(Present(t)) /\ Len(Chain(t, c)) \in 1 .. MaxCategoryDepth
           /\ Chain(t, c)[1] = c
           /\ t[c] \in Node /\ t[c].parent \in {None} \cup (Present(t) \ {c})
<1>1. t \in Trees
    BY DEF Sound, Trees
<1> DEFINE s == Chain(t, c)
<1>2. Walk(t, c, s) /\ t[s[Len(s)]].parent = None /\ Len(s) <= MaxCategoryDepth
    BY <1>1, ChainWalks DEF Sound, Last, DepthOf
<1>3. s \in Seq(Present(t)) /\ Len(s) \in 1 .. MaxCategoryDepth /\ s[1] = c
    BY <1>2, CatalogueFits DEF Walk
<1>4. t[c].parent \in {None} \cup (Present(t) \ {c})
    <2> HIDE DEF s
    <2>1. CASE Len(s) = 1
        BY <1>2, <1>3, <2>1
    <2>2. CASE Len(s) > 1
        <3>1. s[2] = ParentIn(t, s[1]) /\ s[2] \in Present(t)
            BY <1>2, <1>3, <2>2 DEF Walk
        <3>2. ParentIn(t, c) \in Present(t)
            BY <1>3, <3>1
        <3> QED
            BY <1>1, <3>2, ParentFits
    <2>3. Len(s) = 1 \/ Len(s) > 1
        <3>1. MaxCategoryDepth \in Nat
            BY CatalogueFits
        <3>2. PICK n \in 1 .. MaxCategoryDepth : n = Len(s)
            BY <1>3
        <3> QED
            BY <3>1, <3>2
    <2> QED
        BY <2>1, <2>2, <2>3
<1> QED
    BY <1>1, <1>2, <1>3, <1>4, ParentFits DEF Branch, DepthOf

\* Branches for all, none too long, and no name twice make a tree sound.
LEMMA SoundByBranches ==
    ASSUME NEW t \in Trees,
           \A c \in Present(t) : \E s : Branch(t, c, s) /\ Len(s) <= MaxCategoryDepth,
           \A c \in Present(t) : \A d \in Present(t) \ {c} : t[d].name # t[c].name
    PROVE  Sound(t)
<1>1. ASSUME NEW c \in Present(t)
      PROVE  DepthOf(t, c) <= MaxCategoryDepth /\ t[Last(Chain(t, c))].parent = None
    <2>1. PICK s : Branch(t, c, s) /\ Len(s) <= MaxCategoryDepth
        OBVIOUS
    <2>2. Chain(t, c) = s
        BY <2>1, BranchIsChain
    <2> QED
        BY <2>1, <2>2 DEF Branch, DepthOf, Last
<1> QED
    BY <1>1 DEF Sound, Trees

\* The rest of a sequence, from k on.
LEMMA Suffix ==
    ASSUME NEW X, NEW s \in Seq(X), NEW k \in 1 .. Len(s)
    PROVE  /\ SubSeq(s, k, Len(s)) \in Seq(X) /\ Len(SubSeq(s, k, Len(s))) = Len(s) - k + 1
           /\ \A i \in 1 .. Len(s) - k + 1 : SubSeq(s, k, Len(s))[i] = s[k + i - 1]
<1>1. PICK n \in Nat : n = Len(s) /\ k \in 1 .. n /\ s \in [1 .. n -> X]
    OBVIOUS
<1>2. SubSeq(s, k, n) = [i \in 1 .. n - k + 1 |-> s[k + i - 1]] /\ n - k + 1 \in Nat
    BY <1>1
<1>3. \A i \in 1 .. n - k + 1 : k + i - 1 \in 1 .. n
    BY <1>1
<1> QED
    BY <1>1, <1>2, <1>3

\* What is above a category on a branch is that one's branch.
LEMMA BranchFrom ==
    ASSUME NEW t \in Trees, NEW c \in Present(t), NEW s, Branch(t, c, s), NEW k \in 1 .. Len(s)
    PROVE  /\ s[k] \in Present(t)
           /\ Branch(t, s[k], SubSeq(s, k, Len(s))) /\ Chain(t, s[k]) = SubSeq(s, k, Len(s))
<1> DEFINE r == SubSeq(s, k, Len(s))
<1>1. s \in Seq(Present(t)) /\ Len(s) \in Nat \ {0}
    BY DEF Branch, Walk
<1>2. /\ r \in Seq(Present(t)) /\ Len(r) = Len(s) - k + 1
      /\ \A i \in 1 .. Len(s) - k + 1 : r[i] = s[k + i - 1]
    BY <1>1, Suffix
<1> HIDE DEF r
<1>3. ASSUME NEW i \in 1 .. Len(r) - 1 PROVE r[i + 1] = ParentIn(t, r[i])
    <2>1. r[i] = s[k + i - 1] /\ r[i + 1] = s[(k + i - 1) + 1] /\ k + i - 1 \in 1 .. Len(s) - 1
        <3>1. /\ i \in 1 .. Len(s) - k + 1 /\ i + 1 \in 1 .. Len(s) - k + 1
              /\ k + (i + 1) - 1 = (k + i - 1) + 1 /\ k + i - 1 \in 1 .. Len(s) - 1
            <4>1. PICK n \in Nat : n = Len(s) /\ k \in 1 .. n
                BY <1>1
            <4>2. i \in 1 .. (n - k + 1) - 1
                BY <1>2, <4>1
            <4> QED
                BY <4>1, <4>2
        <3>2. r[i + 1] = s[k + (i + 1) - 1]
            BY <1>2, <3>1
        <3> QED
            BY <1>2, <3>1, <3>2
    <2> QED
        BY <2>1 DEF Branch, Walk
<1>4. ASSUME NEW i \in 1 .. Len(r), NEW j \in 1 .. Len(r), r[i] = r[j] PROVE i = j
    <2>1. /\ k + i - 1 \in 1 .. Len(s) /\ k + j - 1 \in 1 .. Len(s)
          /\ s[k + i - 1] = s[k + j - 1]
        BY <1>1, <1>2, <1>4
    <2>2. k + i - 1 = k + j - 1
        BY <2>1 DEF Branch, Walk
    <2> QED
        BY <1>1, <2>2
<1>5. r # <<>> /\ r[1] = s[k] /\ r[Len(r)] = s[Len(s)] /\ s[k] \in Present(t)
    BY <1>1, <1>2
<1>6. Branch(t, s[k], r)
    BY <1>2, <1>3, <1>4, <1>5 DEF Branch, Walk
<1>7. Chain(t, s[k]) = r
    BY <1>5, <1>6, BranchIsChain
<1> QED
    BY <1>5, <1>6, <1>7 DEF r

\* A walk that arrives under another branch goes on along it.
LEMMA BranchJoins ==
    ASSUME NEW t \in Trees, NEW c, NEW s, Walk(t, c, s), NEW p \in Present(t), NEW r, Branch(t, p, r),
           ParentIn(t, s[Len(s)]) = p, \A i \in 1 .. Len(s), j \in 1 .. Len(r) : s[i] # r[j]
    PROVE  Branch(t, c, s \o r)
<1> DEFINE u == s \o r
<1>1. /\ s \in Seq(Present(t)) /\ Len(s) \in Nat \ {0} /\ r \in Seq(Present(t)) /\ Len(r) \in Nat \ {0}
      /\ r[1] = p /\ s[1] = c
    BY DEF Branch, Walk
<1>2. /\ u \in Seq(Present(t)) /\ Len(u) = Len(s) + Len(r)
      /\ \A i \in 1 .. Len(s) : u[i] = s[i]
      /\ \A i \in Len(s) + 1 .. Len(s) + Len(r) : u[i] = r[i - Len(s)]
    BY <1>1
<1> HIDE DEF u
<1>3. ASSUME NEW i \in 1 .. Len(u), i \notin 1 .. Len(s)
      PROVE  i - Len(s) \in 1 .. Len(r) /\ u[i] = r[i - Len(s)]
    <2>1. PICK m \in Nat, n \in Nat : m = Len(s) /\ n = Len(r) /\ i \in m + 1 .. m + n
        BY <1>1, <1>2, <1>3
    <2> QED
        BY <1>2, <2>1
<1>4. ASSUME NEW i \in 1 .. Len(u) - 1 PROVE u[i + 1] = ParentIn(t, u[i])
    <2>1. CASE i \in 1 .. Len(s) - 1
        <3>1. u[i] = s[i] /\ u[i + 1] = s[i + 1]
            BY <1>1, <1>2, <2>1
        <3> QED
            BY <2>1, <3>1 DEF Walk
    <2>2. CASE i = Len(s)
        <3>1. u[i] = s[Len(s)] /\ u[i + 1] = r[1]
            BY <1>1, <1>2, <2>2
        <3> QED
            BY <1>1, <3>1
    <2>3. CASE i \in Len(s) + 1 .. Len(u) - 1
        <3>1. /\ u[i] = r[i - Len(s)] /\ u[i + 1] = r[(i - Len(s)) + 1]
              /\ i - Len(s) \in 1 .. Len(r) - 1
            BY <1>1, <1>2, <2>3
        <3> QED
            BY <3>1 DEF Branch, Walk
    <2> QED
        BY <1>1, <1>2, <2>1, <2>2, <2>3
<1>5. ASSUME NEW i \in 1 .. Len(u), NEW j \in 1 .. Len(u), u[i] = u[j] PROVE i = j
    <2>1. CASE i \in 1 .. Len(s) /\ j \in 1 .. Len(s)
        BY <1>2, <1>5, <2>1 DEF Walk
    <2>2. CASE i \notin 1 .. Len(s) /\ j \notin 1 .. Len(s)
        <3>1. /\ i - Len(s) \in 1 .. Len(r) /\ j - Len(s) \in 1 .. Len(r)
              /\ r[i - Len(s)] = r[j - Len(s)]
            BY <1>3, <1>5, <2>2
        <3>2. i - Len(s) = j - Len(s)
            BY <3>1 DEF Branch, Walk
        <3> QED
            BY <1>1, <3>2
    <2>3. CASE i \in 1 .. Len(s) /\ j \notin 1 .. Len(s)
        <3>1. j - Len(s) \in 1 .. Len(r) /\ s[i] = r[j - Len(s)]
            BY <1>2, <1>3, <1>5, <2>3
        <3> QED
            BY <2>3, <3>1
    <2>4. CASE i \notin 1 .. Len(s) /\ j \in 1 .. Len(s)
        <3>1. i - Len(s) \in 1 .. Len(r) /\ s[j] = r[i - Len(s)]
            BY <1>2, <1>3, <1>5, <2>4
        <3> QED
            BY <2>4, <3>1
    <2> QED
        BY <2>1, <2>2, <2>3, <2>4
<1>6. u # <<>> /\ u[1] = c /\ u[Len(u)] = r[Len(r)]
    <2>1. Len(u) \in 1 .. Len(u) /\ Len(u) \notin 1 .. Len(s) /\ Len(u) - Len(s) = Len(r) /\ 1 \in 1 .. Len(s)
        BY <1>1, <1>2
    <2> QED
        BY <1>1, <1>2, <1>3, <2>1
<1> QED
    BY <1>2, <1>4, <1>5, <1>6 DEF Branch, Walk, u

-----------------------------------------------------------------------------
(* One row hung in a sound tree.                                            *)

\* One row set in a sound tree: its parent is none, or one whose branch does not go through it.
Hangs(t, c, node) ==
    /\ Sound(t) /\ c \in Cats /\ node \in Node
    /\ node.parent # None =>
         node.parent \in Present(t) \ {c} /\ c \notin Range(Chain(t, node.parent))
\* The row hung where it goes, and the branch it hangs from.
Hung(t, c, node) == [t EXCEPT ![c] = node]
Over(t, node) == IF node.parent = None THEN <<>> ELSE Chain(t, node.parent)

\* Hanging one row changes that row alone.
LEMMA HungRows ==
    ASSUME NEW t, NEW c, NEW node, Hangs(t, c, node)
    PROVE  /\ t \in Trees /\ Hung(t, c, node) \in Trees
           /\ Present(Hung(t, c, node)) = Present(t) \cup {c}
           /\ Hung(t, c, node)[c] = node
           /\ \A x \in Cats \ {c} : Hung(t, c, node)[x] = t[x]
           /\ \A x \in Present(t) \ {c} :
                 ParentIn(Hung(t, c, node), x) = ParentIn(t, x)
           /\ ParentIn(Hung(t, c, node), c) = node.parent
<1> DEFINE u == Hung(t, c, node)
<1>1. t \in Trees /\ c \in Cats /\ node \in Node /\ node # None
    BY CatalogueFits DEF Hangs, Sound, Trees
<1>2. u \in Trees /\ u[c] = node /\ \A x \in Cats \ {c} : u[x] = t[x]
    BY <1>1 DEF Hung, Trees
<1> HIDE DEF u
<1>3. Present(u) = Present(t) \cup {c}
    BY <1>1, <1>2 DEF Present
<1>4. ASSUME NEW x \in Present(t) \ {c} PROVE ParentIn(u, x) = ParentIn(t, x)
    <2>1. t[x].parent \in {None} \cup (Present(t) \ {x}) /\ u[x] = t[x] /\ x \in Cats
        BY <1>2, SoundChains DEF Hangs, Present
    <2>2. t[x].parent \in Present(t) \ {x} => t[t[x].parent] # None /\ u[t[x].parent] # None
        BY <1>3 DEF Present
    <2> QED
        BY <2>1, <2>2 DEF ParentIn
<1>5. ParentIn(u, c) = node.parent
    <2>1. node.parent # None => node.parent # c /\ u[node.parent] # None
        BY <1>3 DEF Hangs, Present
    <2> QED
        BY <1>2, <2>1 DEF ParentIn
<1> QED
    BY <1>1, <1>2, <1>3, <1>4, <1>5 DEF u

\* A branch that does not go through it stays.
LEMMA BranchStays ==
    ASSUME NEW t, NEW c, NEW node, Hangs(t, c, node), NEW d \in Present(t),
           c \notin Range(Chain(t, d))
    PROVE  Branch(Hung(t, c, node), d, Chain(t, d))
<1> DEFINE s == Chain(t, d)
           u == Hung(t, c, node)
<1>1. Branch(t, d, s) /\ s \in Seq(Present(t)) /\ Len(s) \in Nat \ {0}
    BY SoundChains, CatalogueFits DEF Hangs
<1>2. \A i \in 1 .. Len(s) : s[i] \in Present(t) \ {c} /\ s[i] \in Cats
    BY <1>1 DEF Range, Present
<1>3. \A x \in Present(t) \ {c} : ParentIn(u, x) = ParentIn(t, x) /\ u[x] = t[x]
    BY HungRows DEF Present
<1>4. Present(t) \subseteq Present(u)
    BY HungRows
<1> HIDE DEF s, u
<1>5. s \in Seq(Present(u))
    BY <1>1, <1>4
<1>6. \A i \in 1 .. Len(s) - 1 : s[i + 1] = ParentIn(u, s[i])
    <2> TAKE i \in 1 .. Len(s) - 1
    <2>1. s[i + 1] = ParentIn(t, s[i]) /\ i \in 1 .. Len(s)
        BY <1>1 DEF Branch, Walk
    <2> QED
        BY <1>2, <1>3, <2>1
<1>7. u[s[Len(s)]].parent = None
    <2>1. t[s[Len(s)]].parent = None /\ Len(s) \in 1 .. Len(s)
        BY <1>1 DEF Branch
    <2> QED
        BY <1>2, <1>3, <2>1
<1>8. Branch(u, d, s)
    BY <1>1, <1>5, <1>6, <1>7 DEF Branch, Walk
<1> QED
    BY <1>8 DEF s, u

\* A walk up to it goes on over its parent.
LEMMA WalkHangs ==
    ASSUME NEW t, NEW c, NEW node, Hangs(t, c, node), NEW d, NEW s, Walk(Hung(t, c, node), d, s),
           s[Len(s)] = c,
           \A i \in 1 .. Len(s), j \in 1 .. Len(Over(t, node)) : s[i] # Over(t, node)[j]
    PROVE  Branch(Hung(t, c, node), d, s \o Over(t, node))
<1> DEFINE u == Hung(t, c, node)
<1>1. s \in Seq(Present(u)) /\ u[c] = node /\ ParentIn(u, c) = node.parent
    BY HungRows DEF Walk
<1>2. CASE node.parent = None
    <2>1. s \o Over(t, node) = s
        BY <1>1, <1>2 DEF Over
    <2> QED
        BY <1>1, <1>2, <2>1 DEF Branch
<1>3. CASE node.parent # None
    <2>1. Branch(u, node.parent, Over(t, node))
        BY <1>3, BranchStays DEF Over, Hangs
    <2>2. node.parent \in Present(u)
        BY <1>3, HungRows DEF Hangs
    <2>3. u \in Trees
        BY HungRows
    <2> HIDE DEF u
    <2>4. Branch(u, d, s \o Over(t, node))
        BY <1>1, <2>1, <2>2, <2>3, BranchJoins DEF u
    <2> QED
        BY <2>4 DEF u
<1> QED
    BY <1>2, <1>3

\* The row's own branch is the row and its parent's.
LEMMA BranchOfHung ==
    ASSUME NEW t, NEW c, NEW node, Hangs(t, c, node)
    PROVE  Branch(Hung(t, c, node), c, <<c>> \o Over(t, node))
<1> DEFINE u == Hung(t, c, node)
<1>1. c \in Present(u)
    BY HungRows
<1> HIDE DEF u
<1>2. Walk(u, c, <<c>>)
    BY <1>1 DEF Walk
<1>3. \A j \in 1 .. Len(Over(t, node)) : Over(t, node)[j] # c
    <2>1. CASE node.parent = None
        BY <2>1 DEF Over
    <2>2. CASE node.parent # None
        <3>1. Chain(t, node.parent) \in Seq(Present(t)) /\ c \notin Range(Chain(t, node.parent))
            BY <2>2, SoundChains DEF Hangs
        <3> QED
            BY <2>2, <3>1 DEF Over, Range
    <2> QED
        BY <2>1, <2>2
<1> QED
    BY <1>2, <1>3, WalkHangs DEF u

\* A branch through it goes on over its new parent.
LEMMA BranchMoves ==
    ASSUME NEW t, NEW c, NEW node, Hangs(t, c, node), NEW d \in Present(t),
           NEW k \in 1 .. Len(Chain(t, d)), Chain(t, d)[k] = c
    PROVE  Branch(Hung(t, c, node), d, SubSeq(Chain(t, d), 1, k) \o Over(t, node))
<1> DEFINE s == Chain(t, d)
           r == SubSeq(s, 1, k)
           u == Hung(t, c, node)
<1>1. Branch(t, d, s) /\ s \in Seq(Present(t)) /\ Len(s) \in Nat \ {0} /\ s[1] = d /\ t \in Trees
    BY SoundChains, CatalogueFits DEF Hangs
<1>2. Sound(t) /\ s[k] = c /\ k \in 1 .. Len(s)
    BY DEF Hangs
<1> HIDE DEF s
<1>3. r \in Seq(Present(t)) /\ Len(r) = k /\ \A i \in 1 .. k : r[i] = s[i]
    BY <1>1, <1>2
<1> HIDE DEF r
<1>4. \A x \in Present(t) \ {c} : ParentIn(u, x) = ParentIn(t, x) /\ u[x] = t[x]
    BY HungRows DEF Present
<1>5. Present(t) \subseteq Present(u)
    BY HungRows
<1> HIDE DEF u
<1>6. ASSUME NEW i \in 1 .. Len(r) - 1 PROVE r[i + 1] = ParentIn(u, r[i])
    <2>1. r[i] = s[i] /\ r[i + 1] = s[i + 1] /\ i \in 1 .. Len(s) - 1
        BY <1>1, <1>2, <1>3
    <2>2. s[i + 1] = ParentIn(t, s[i])
        BY <1>1, <2>1 DEF Branch, Walk
    <2>3. s[i] \in Present(t) /\ s[i] # c
        <3>1. i \in 1 .. Len(s) /\ k \in 1 .. Len(s) /\ i # k
            BY <1>1, <1>2, <1>3
        <3> QED
            BY <1>1, <1>2, <3>1 DEF Branch, Walk
    <2> QED
        BY <1>4, <2>1, <2>2, <2>3
<1>7. \A i, j \in 1 .. Len(r) : r[i] = r[j] => i = j
    <2>1. \A i \in 1 .. k : i \in 1 .. Len(s)
        BY <1>1, <1>2
    <2> QED
        BY <1>1, <1>3, <2>1 DEF Branch, Walk
<1>8. Walk(u, d, r) /\ r[Len(r)] = c
    <2>1. r \in Seq(Present(u)) /\ r # <<>> /\ r[1] = d /\ r[Len(r)] = c
        BY <1>1, <1>2, <1>3, <1>5
    <2> QED
        BY <1>6, <1>7, <2>1 DEF Walk
<1>9. ASSUME NEW i \in 1 .. Len(r), NEW j \in 1 .. Len(Over(t, node)), r[i] = Over(t, node)[j]
      PROVE  FALSE
    <2> DEFINE p == node.parent
               above == Chain(t, p)
    <2>1. p \in Present(t) /\ c \notin Range(above) /\ Over(t, node) = above
        <3>1. p # None
            BY <1>9 DEF Over
        <3> QED
            BY <3>1 DEF Hangs, Over
    <2>2. Branch(t, p, above) /\ above \in Seq(Present(t)) /\ Len(above) \in Nat
        BY <1>2, <2>1, SoundChains, CatalogueFits
    <2> HIDE DEF above
    <2>3. i \in 1 .. Len(s) /\ j \in 1 .. Len(above) /\ s[i] = above[j]
        BY <1>1, <1>2, <1>3, <1>9, <2>1
    <2>4. Chain(t, s[i]) = SubSeq(s, i, Len(s)) /\ Chain(t, s[i]) = SubSeq(above, j, Len(above))
        BY <1>1, <2>1, <2>2, <2>3, BranchFrom
    <2>5. SubSeq(s, i, Len(s))[k - i + 1] = c /\ k - i + 1 \in 1 .. Len(SubSeq(s, i, Len(s)))
        <3>1. k - i + 1 \in 1 .. Len(s) - i + 1 /\ i + (k - i + 1) - 1 = k
            BY <1>1, <1>2, <1>3, <2>3
        <3>2. /\ Len(SubSeq(s, i, Len(s))) = Len(s) - i + 1
              /\ SubSeq(s, i, Len(s))[k - i + 1] = s[i + (k - i + 1) - 1]
            BY <1>1, <2>3, <3>1, Suffix
        <3> QED
            BY <1>2, <3>1, <3>2
    <2> DEFINE rest == SubSeq(above, j, Len(above))
    <2>6. Len(rest) = Len(above) - j + 1 /\ \A m \in 1 .. Len(above) - j + 1 : rest[m] = above[j + m - 1]
        BY <2>2, <2>3, Suffix
    <2>7. c \in Range(above)
        <3> HIDE DEF rest
        <3>1. rest[k - i + 1] = c /\ k - i + 1 \in 1 .. Len(rest)
            BY <2>4, <2>5 DEF rest
        <3>2. PICK n \in Int : n = k - i + 1
            BY <1>1, <1>2, <2>3
        <3>3. PICK m \in 1 .. Len(above) : above[m] = c
            <4>1. n \in 1 .. Len(above) - j + 1 /\ rest[n] = c
                BY <2>6, <3>1, <3>2
            <4>2. above[j + n - 1] = c /\ j + n - 1 \in 1 .. Len(above)
                <5>1. j + n - 1 \in 1 .. Len(above)
                    <6>1. PICK l \in Nat : l = Len(above) /\ j \in 1 .. l /\ n \in 1 .. l - j + 1
                        BY <2>2, <2>3, <4>1
                    <6> QED
                        BY <6>1
                <5>2. rest[n] = above[j + n - 1]
                    BY <2>6, <4>1
                <5> QED
                    BY <4>1, <5>1, <5>2
            <4> QED
                BY <4>2
        <3> QED
            BY <2>2, <3>3 DEF Range
    <2> QED
        BY <2>1, <2>7
<1>10. Branch(u, d, r \o Over(t, node))
    BY <1>8, <1>9, WalkHangs DEF u
<1> QED
    BY <1>10 DEF r, s, u

\* What is over a row is its parent's branch.
LEMMA OverFits ==
    ASSUME NEW t, NEW c, NEW node, Hangs(t, c, node)
    PROVE  /\ Over(t, node) \in Seq(Present(t))
           /\ node.parent = None => Len(Over(t, node)) = 0
           /\ node.parent # None => Len(Over(t, node)) = DepthOf(t, node.parent)
BY SoundChains DEF Hangs, Over

\* A row set is sound when its name is free and nothing below it gets too deep.
LEMMA SetKeepsSound ==
    ASSUME NEW t, NEW c, NEW node, Hangs(t, c, node),
           \A d \in Present(t) \ {c} : t[d].name # node.name,
           1 + Len(Over(t, node)) <= MaxCategoryDepth,
           \A d \in Present(t) : \A k \in 1 .. Len(Chain(t, d)) :
              Chain(t, d)[k] = c => k + Len(Over(t, node)) <= MaxCategoryDepth
    PROVE  Sound(Hung(t, c, node))
<1> DEFINE u == Hung(t, c, node)
<1>1. u \in Trees /\ Present(u) = Present(t) \cup {c} /\ u[c] = node
      /\ \A x \in Present(t) \ {c} : u[x] = t[x]
    BY HungRows DEF Present
<1>2. ASSUME NEW d \in Present(u) PROVE \E s : Branch(u, d, s) /\ Len(s) <= MaxCategoryDepth
    <2>1. CASE d = c
        <3>1. Branch(u, c, <<c>> \o Over(t, node))
            BY BranchOfHung
        <3>2. Len(<<c>> \o Over(t, node)) = 1 + Len(Over(t, node))
            BY OverFits
        <3> HIDE DEF u
        <3> QED
            BY <2>1, <3>1, <3>2
    <2>2. CASE d # c /\ c \notin Range(Chain(t, d))
        <3>1. d \in Present(t)
            BY <1>1, <2>2
        <3>2. Branch(u, d, Chain(t, d)) /\ Len(Chain(t, d)) <= MaxCategoryDepth
            BY <2>2, <3>1, BranchStays, SoundChains, CatalogueFits DEF Hangs
        <3> HIDE DEF u
        <3> QED
            BY <3>2
    <2>3. CASE d # c /\ c \in Range(Chain(t, d))
        <3>1. d \in Present(t)
            BY <1>1, <2>3
        <3>2. Chain(t, d) \in Seq(Present(t)) /\ Len(Chain(t, d)) \in Nat
            BY <3>1, SoundChains, CatalogueFits DEF Hangs
        <3>3. PICK k \in 1 .. Len(Chain(t, d)) : Chain(t, d)[k] = c
            BY <2>3, <3>2 DEF Range
        <3>4. Branch(u, d, SubSeq(Chain(t, d), 1, k) \o Over(t, node))
            BY <3>1, <3>3, BranchMoves
        <3>5. Len(SubSeq(Chain(t, d), 1, k) \o Over(t, node)) = k + Len(Over(t, node))
            <4>1. SubSeq(Chain(t, d), 1, k) \in Seq(Present(t)) /\ Len(SubSeq(Chain(t, d), 1, k)) = k
                BY <3>2, <3>3
            <4> QED
                BY <4>1, OverFits
        <3> HIDE DEF u
        <3> QED
            BY <3>1, <3>3, <3>4, <3>5
    <2> QED
        BY <2>1, <2>2, <2>3
<1>3. ASSUME NEW d \in Present(u), NEW x \in Present(u) \ {d} PROVE u[x].name # u[d].name
    <2>1. \A y \in Present(t) : \A z \in Present(t) \ {y} : t[z].name # t[y].name
        BY DEF Hangs, Sound
    <2> HIDE DEF u
    <2> QED
        BY <1>1, <1>3, <2>1
<1> HIDE DEF u
<1>4. Sound(u)
    BY <1>1, <1>2, <1>3, SoundByBranches
<1> QED
    BY <1>4 DEF u

\* What a move was checked against: UpdateCategory.
LEMMA MoveKeepsSound ==
    ASSUME NEW t, Sound(t), NEW c \in Present(t), NEW node \in Node,
           node.parent \in Present(t) \cup {None}, CheckMove(t, c, node.parent),
           \A d \in Present(t) \ {c} : t[d].name # node.name
    PROVE  Sound(Hung(t, c, node))
<1> DEFINE p == node.parent
<1>1. c \in Cats /\ None \notin Present(t)
    BY CatalogueFits DEF Present
<1>2. Hangs(t, c, node)
    <2>1. ASSUME p # None PROVE p \in Present(t) \ {c} /\ c \notin Range(Chain(t, p))
        <3>1. p \in Present(t) \ {c} /\ c \notin Range(Tail(Chain(t, p)))
            BY <2>1 DEF CheckMove, IsDescendant
        <3>2. Chain(t, p) \in Seq(Present(t)) /\ Len(Chain(t, p)) \in Nat \ {0} /\ Chain(t, p)[1] = p
            BY <3>1, SoundChains, CatalogueFits
        <3>3. ASSUME NEW k \in 1 .. Len(Chain(t, p)), Chain(t, p)[k] = c PROVE FALSE
            <4>1. k # 1
                BY <3>1, <3>2, <3>3
            <4>2. k - 1 \in 1 .. Len(Tail(Chain(t, p))) /\ Tail(Chain(t, p))[k - 1] = c
                BY <3>2, <3>3, <4>1
            <4>3. Tail(Chain(t, p)) \in Seq(Present(t))
                BY <3>2
            <4> DEFINE rest == Tail(Chain(t, p))
            <4> HIDE DEF rest
            <4>4. c \in Range(rest)
                <5>1. \E i \in 1 .. Len(rest) : rest[i] = c
                    BY <4>2 DEF rest
                <5>2. rest \in Seq(Present(t))
                    BY <4>3 DEF rest
                <5> QED
                    BY <5>1, <5>2, SeqRange
            <4> USE DEF rest
            <4> QED
                BY <3>1, <4>4
        <3> QED
            BY <3>1, <3>2, <3>3 DEF Range
    <2> QED
        BY <1>1, <2>1 DEF Hangs
<1> DEFINE Under == {d \in Present(t) : c \in Range(Chain(t, d))}
           S == {DepthOf(t, d) - DepthOf(t, c) : d \in Under}
<1>3. ASSUME NEW d \in Present(t), NEW k \in 1 .. Len(Chain(t, d)), Chain(t, d)[k] = c
      PROVE  d \in Under /\ DepthOf(t, d) - DepthOf(t, c) = k - 1
    <2>1. /\ Branch(t, d, Chain(t, d)) /\ DepthOf(t, d) = Len(Chain(t, d)) /\ t \in Trees
          /\ Chain(t, d) \in Seq(Present(t)) /\ Len(Chain(t, d)) \in Nat
        BY SoundChains, CatalogueFits
    <2>2. Chain(t, c) = SubSeq(Chain(t, d), k, Len(Chain(t, d)))
        BY <1>3, <2>1, BranchFrom
    <2>3. Len(Chain(t, c)) = Len(Chain(t, d)) - k + 1
        BY <2>1, <2>2
    <2>4. DepthOf(t, c) = Len(Chain(t, c))
        BY DEF DepthOf
    <2> QED
        BY <1>3, <2>1, <2>3, <2>4 DEF Range
<1>4. S \subseteq 0 .. MaxCategoryDepth
    <2>1. SUFFICES ASSUME NEW d \in Under PROVE DepthOf(t, d) - DepthOf(t, c) \in 0 .. MaxCategoryDepth
        OBVIOUS
    <2>2. Chain(t, d) \in Seq(Present(t)) /\ Len(Chain(t, d)) \in 1 .. MaxCategoryDepth
        BY SoundChains
    <2>3. PICK k \in 1 .. Len(Chain(t, d)) : Chain(t, d)[k] = c
        BY <2>2 DEF Range
    <2>4. DepthOf(t, d) - DepthOf(t, c) = k - 1
        BY <1>3, <2>3
    <2> QED
        BY <2>2, <2>3, <2>4, CatalogueFits
<1>5. Chain(t, c)[1] = c /\ 1 \in 1 .. Len(Chain(t, c)) /\ Chain(t, c) \in Seq(Present(t))
    BY SoundChains, CatalogueFits
<1>6. S # {}
    <2>1. c \in Under
        BY <1>3, <1>5
    <2> QED
        BY <2>1
<1>7. Height(t, c) = Max(S)
    BY DEF Height
<1>8. Max(S) \in Nat /\ \A y \in S : Max(S) >= y
    <2> HIDE DEF S
    <2> QED
        BY <1>4, <1>6, GreatestIsThere, CatalogueFits
<1>9. Len(Over(t, node)) \in Nat /\ 1 + Len(Over(t, node)) + Max(S) <= MaxCategoryDepth
    <2>1. CASE p = None
        BY <1>2, <1>7, <1>8, <2>1, OverFits, CatalogueFits DEF CheckMove
    <2>2. CASE p # None
        <3>1. Len(Over(t, node)) = DepthOf(t, p) /\ DepthOf(t, p) \in Nat
            BY <1>2, <2>2, OverFits, SoundChains, CatalogueFits DEF Hangs
        <3>2. DepthOf(t, p) + 1 + Max(S) <= MaxCategoryDepth
            BY <1>7, <2>2 DEF CheckMove
        <3> HIDE DEF S
        <3> QED
            BY <1>8, <3>1, <3>2, CatalogueFits
    <2> QED
        BY <2>1, <2>2
<1>10. ASSUME NEW d \in Present(t), NEW k \in 1 .. Len(Chain(t, d)), Chain(t, d)[k] = c
       PROVE  k + Len(Over(t, node)) <= MaxCategoryDepth
    <2>1. k - 1 \in S
        BY <1>3, <1>10
    <2> HIDE DEF S
    <2>2. Max(S) >= k - 1 /\ k \in Int
        BY <1>8, <2>1, <1>10
    <2> QED
        BY <1>8, <1>9, <2>2, CatalogueFits
<1>11. 1 + Len(Over(t, node)) <= MaxCategoryDepth
    BY <1>8, <1>9, CatalogueFits
<1> QED
    BY <1>2, <1>10, <1>11, SetKeepsSound

\* A new category hangs under any parent that is there: no branch goes through it.
LEMMA NewHangs ==
    ASSUME NEW t, Sound(t), NEW c \in Cats \ Present(t), NEW node \in Node,
           node.parent \in Present(t) \cup {None}
    PROVE  /\ Hangs(t, c, node)
           /\ \A d \in Present(t) : \A k \in 1 .. Len(Chain(t, d)) : Chain(t, d)[k] # c
           /\ \A d \in Present(t) : c \notin Range(Chain(t, d))
<1>1. ASSUME NEW d \in Present(t)
      PROVE  c \notin Range(Chain(t, d)) /\ \A k \in 1 .. Len(Chain(t, d)) : Chain(t, d)[k] # c
    <2>1. Chain(t, d) \in Seq(Present(t))
        BY SoundChains
    <2>2. \A k \in 1 .. Len(Chain(t, d)) : Chain(t, d)[k] \in Present(t)
        BY <2>1
    <2> QED
        BY <2>1, <2>2, SeqRange
<1> QED
    BY <1>1 DEF Hangs

\* A new category, as CreateCategory and an import add it, leaves every branch there is.
LEMMA NewKeepsSound ==
    ASSUME NEW t, Sound(t), NEW c \in Cats \ Present(t), NEW node \in Node,
           node.parent \in Present(t) \cup {None}, NameFree(t, node.name),
           node.parent # None => DepthOf(t, node.parent) < MaxCategoryDepth
    PROVE  /\ Sound(Hung(t, c, node))
           /\ Chain(Hung(t, c, node), c) = <<c>> \o Over(t, node)
           /\ \A d \in Present(t) : Chain(Hung(t, c, node), d) = Chain(t, d)
<1>1. Hangs(t, c, node)
    BY NewHangs
<1>2. 1 + Len(Over(t, node)) <= MaxCategoryDepth
    <2>1. CASE node.parent = None
        BY <1>1, <2>1, OverFits, CatalogueFits
    <2>2. CASE node.parent # None
        BY <1>1, <2>2, OverFits, SoundChains, CatalogueFits
    <2> QED
        BY <2>1, <2>2
<1>3. Sound(Hung(t, c, node))
    BY <1>1, <1>2, NewHangs, SetKeepsSound DEF NameFree
<1> DEFINE u == Hung(t, c, node)
<1>4. u \in Trees /\ Present(u) = Present(t) \cup {c}
    BY <1>1, HungRows
<1>5. Branch(u, c, <<c>> \o Over(t, node)) /\ \A d \in Present(t) : Branch(u, d, Chain(t, d))
    BY <1>1, NewHangs, BranchOfHung, BranchStays
<1> HIDE DEF u
<1>6. Chain(u, c) = <<c>> \o Over(t, node) /\ \A d \in Present(t) : Chain(u, d) = Chain(t, d)
    BY <1>4, <1>5, BranchIsChain
<1> QED
    BY <1>3, <1>6 DEF u

\* A category that nothing hangs under goes and leaves the other branches.
LEMMA GoneKeepsSound ==
    ASSUME NEW t, Sound(t), NEW c \in Cats, \A d \in Present(t) : t[d].parent # c
    PROVE  Sound([t EXCEPT ![c] = None])
<1> DEFINE u == [t EXCEPT ![c] = None]
<1>1. t \in Trees
    BY DEF Sound, Trees
<1>2. u \in Trees /\ Present(u) = Present(t) \ {c} /\ \A x \in Cats \ {c} : u[x] = t[x] /\ u[c] = None
    BY <1>1 DEF Trees, Present
<1> HIDE DEF u
<1>3. ASSUME NEW d \in Present(u) PROVE \E s : Branch(u, d, s) /\ Len(s) <= MaxCategoryDepth
    <2> DEFINE s == Chain(t, d)
    <2>1. /\ Branch(t, d, s) /\ s \in Seq(Present(t)) /\ Len(s) \in Nat \ {0}
          /\ Len(s) <= MaxCategoryDepth /\ s[1] = d /\ d # c
        BY <1>2, SoundChains, CatalogueFits
    <2> HIDE DEF s
    <2>2. ASSUME NEW i \in 1 .. Len(s) PROVE s[i] \in Present(u)
        <3>1. CASE i = 1
            BY <2>1, <3>1
        <3>2. CASE i # 1
            <4>1. i - 1 \in 1 .. Len(s) - 1 /\ (i - 1) + 1 = i /\ i - 1 \in 1 .. Len(s)
                BY <2>1, <3>2
            <4>2. s[i] = ParentIn(t, s[i - 1]) /\ s[i - 1] \in Present(t) /\ s[i] \in Present(t)
                BY <2>1, <4>1 DEF Branch, Walk
            <4>3. s[i] = t[s[i - 1]].parent
                BY <1>1, <4>2, ParentFits
            <4> QED
                BY <1>2, <4>2, <4>3
        <3> QED
            BY <3>1, <3>2
    <2>3. \A x \in Present(u) : ParentIn(u, x) = ParentIn(t, x)
        <3> TAKE x \in Present(u)
        <3>1. t[x].parent \in {None} \cup (Present(t) \ {x, c}) /\ u[x] = t[x] /\ x \in Cats
            BY <1>2, SoundChains DEF Present
        <3>2. t[x].parent # None => t[t[x].parent] # None /\ u[t[x].parent] # None
            BY <1>2, <3>1 DEF Present
        <3> QED
            BY <3>1, <3>2 DEF ParentIn
    <2>4. s \in Seq(Present(u))
        BY <2>1, <2>2
    <2>5. \A i \in 1 .. Len(s) - 1 : s[i + 1] = ParentIn(u, s[i])
        <3> TAKE i \in 1 .. Len(s) - 1
        <3>1. s[i + 1] = ParentIn(t, s[i]) /\ i \in 1 .. Len(s)
            BY <2>1 DEF Branch, Walk
        <3> QED
            BY <2>2, <2>3, <3>1
    <2>6. u[s[Len(s)]].parent = None
        <3>1. t[s[Len(s)]].parent = None /\ s[Len(s)] \in Present(u)
            BY <2>1, <2>2 DEF Branch
        <3> QED
            BY <1>2, <3>1 DEF Present
    <2>7. Branch(u, d, s)
        BY <2>1, <2>4, <2>5, <2>6 DEF Branch, Walk
    <2> QED
        BY <2>1, <2>7
<1>4. ASSUME NEW d \in Present(u), NEW x \in Present(u) \ {d} PROVE u[x].name # u[d].name
    <2>1. t[x].name # t[d].name
        BY <1>2 DEF Sound
    <2> QED
        BY <1>2, <2>1 DEF Present
<1>5. Sound(u)
    BY <1>2, <1>3, <1>4, SoundByBranches
<1> QED
    BY <1>5 DEF u

-----------------------------------------------------------------------------
(* Imports: the keys by which one knows what is there.                      *)

\* A category's key is its chain's names, from the root down, in lower case.
LEMMA KeyOfChain ==
    ASSUME NEW t, Sound(t), NEW c \in Present(t)
    PROVE  KeyOf(t, c) = [i \in 1 .. Len(Chain(t, c)) |->
                            Lower[t[Chain(t, c)[Len(Chain(t, c)) - i + 1]].name]]
<1> DEFINE s == Chain(t, c)
           up == Reverse(s)
           names == [i \in DOMAIN up |-> t[up[i]].name]
<1>1. s \in Seq(Present(t)) /\ Len(s) \in Nat
    BY SoundChains, CatalogueFits
<1> HIDE DEF s
<1>2. up = [i \in 1 .. Len(s) |-> s[Len(s) - i + 1]]
    BY DEF Reverse
<1>3. names = [i \in 1 .. Len(s) |-> t[s[Len(s) - i + 1]].name]
    BY <1>2
<1>4. KeyOf(t, c) = Key(names)
    BY DEF KeyOf, s
<1> HIDE DEF names
<1>5. Key(names) = [i \in 1 .. Len(s) |-> Lower[t[s[Len(s) - i + 1]].name]]
    BY <1>3 DEF Key
<1> QED
    BY <1>4, <1>5 DEF s

\* A new category's key is its parent's and its own name; the others stay.
LEMMA NewKeys ==
    ASSUME NEW t, Sound(t), NEW c \in Cats \ Present(t), NEW node \in Node,
           node.parent \in Present(t) \cup {None}, NameFree(t, node.name),
           node.parent # None => DepthOf(t, node.parent) < MaxCategoryDepth
    PROVE  /\ \A d \in Present(t) : KeyOf(Hung(t, c, node), d) = KeyOf(t, d)
           /\ \A path \in Seq(Names) :
                 /\ path # <<>> /\ path[Len(path)] = node.name
                 /\ node.parent = None => Len(path) = 1
                 /\ node.parent # None => KeyOf(t, node.parent) = Key(Front(path))
                 => KeyOf(Hung(t, c, node), c) = Key(path)
<1> DEFINE u == Hung(t, c, node)
           above == Over(t, node)
<1>1. Hangs(t, c, node)
    BY NewHangs
<1>2. Sound(u) /\ Chain(u, c) = <<c>> \o above /\ \A d \in Present(t) : Chain(u, d) = Chain(t, d)
    BY NewKeepsSound
<1>3. Present(u) = Present(t) \cup {c} /\ u[c] = node /\ \A x \in Present(t) : u[x] = t[x]
    BY <1>1, HungRows DEF Present
<1>4. above \in Seq(Present(t))
    BY <1>1, OverFits
<1> HIDE DEF u
<1>5. ASSUME NEW d \in Present(t) PROVE KeyOf(u, d) = KeyOf(t, d)
    <2> DEFINE s == Chain(t, d)
    <2>1. s \in Seq(Present(t)) /\ Len(s) \in Nat
        BY SoundChains, CatalogueFits
    <2>2. KeyOf(t, d) = [i \in 1 .. Len(s) |-> Lower[t[s[Len(s) - i + 1]].name]]
        BY KeyOfChain
    <2>3. KeyOf(u, d) = [i \in 1 .. Len(s) |-> Lower[u[s[Len(s) - i + 1]].name]]
        BY <1>2, <1>3, KeyOfChain
    <2> HIDE DEF s
    <2>4. \A i \in 1 .. Len(s) : s[Len(s) - i + 1] \in Present(t)
        BY <2>1
    <2>5. \A i \in 1 .. Len(s) : u[s[Len(s) - i + 1]].name = t[s[Len(s) - i + 1]].name
        BY <1>3, <2>4
    <2> QED
        BY <2>2, <2>3, <2>5
<1>6. ASSUME NEW path \in Seq(Names), path # <<>>, path[Len(path)] = node.name,
             node.parent = None => Len(path) = 1,
             node.parent # None => KeyOf(t, node.parent) = Key(Front(path))
      PROVE  KeyOf(u, c) = Key(path)
    <2>1. PICK n \in Nat \ {0} : n = Len(path) /\ DOMAIN path = 1 .. n
        BY <1>6
    <2>2. Front(path) \in Seq(Names) /\ Len(Front(path)) = n - 1
          /\ \A i \in 1 .. n - 1 : Front(path)[i] = path[i]
        BY <2>1 DEF Front
    <2>3. /\ Len(above) = n - 1
          /\ \A i \in 1 .. n - 1 : Lower[t[above[n - i]].name] = Lower[path[i]]
        <3>1. CASE node.parent = None
            <4>1. n = 1 /\ Len(above) = 0
                BY <1>1, <1>6, <2>1, <3>1, OverFits
            <4> HIDE DEF above
            <4> QED
                BY <4>1
        <3>2. CASE node.parent # None
            <4>1. above = Chain(t, node.parent) /\ node.parent \in Present(t)
                BY <3>2 DEF Over
            <4>2. Key(Front(path)) = [i \in 1 .. n - 1 |-> Lower[path[i]]]
                BY <2>1, <2>2 DEF Key
            <4>3. Key(Front(path)) = [i \in 1 .. Len(above) |-> Lower[t[above[Len(above) - i + 1]].name]]
                BY <1>6, <3>2, <4>1, KeyOfChain
            <4> HIDE DEF above
            <4>4. Len(above) = n - 1
                <5>1. Len(Key(Front(path))) = n - 1
                    BY <2>1, <4>2
                <5>2. Len(Key(Front(path))) = Len(above)
                    BY <1>4, <4>3
                <5> QED
                    BY <5>1, <5>2
            <4>5. ASSUME NEW i \in 1 .. n - 1
                  PROVE  Lower[t[above[n - i]].name] = Lower[path[i]]
                <5>1. (n - 1) - i + 1 = n - i
                    BY <2>1
                <5>2. Key(Front(path))[i] = Lower[path[i]]
                    BY <2>1, <4>2
                <5>3. Key(Front(path))[i] = Lower[t[above[n - i]].name]
                    BY <2>1, <4>3, <4>4, <5>1
                <5> QED
                    BY <5>2, <5>3
            <4> QED
                BY <4>4, <4>5
        <3> QED
            BY <3>1, <3>2
    <2> DEFINE s == <<c>> \o above
    <2> HIDE DEF above
    <2>4. /\ s \in Seq(Present(u)) /\ Len(s) = n /\ s[1] = c
          /\ \A i \in 2 .. n : s[i] = above[i - 1] /\ s[i] \in Present(t)
        <3>1. above \in Seq(Present(u)) /\ <<c>> \in Seq(Present(u))
            BY <1>3, <1>4
        <3>2. Len(s) = n
            BY <2>1, <2>3, <3>1
        <3>3. ASSUME NEW i \in 2 .. n PROVE s[i] = above[i - 1] /\ s[i] \in Present(t)
            <4>1. i - 1 \in 1 .. n - 1
                BY <2>1
            <4> QED
                BY <1>4, <2>1, <2>3, <3>1, <4>1
        <3> QED
            BY <3>1, <3>2, <3>3
    <2>5. KeyOf(u, c) = [i \in 1 .. n |-> Lower[u[s[n - i + 1]].name]]
        <3>1. Chain(u, c) = s /\ c \in Present(u)
            BY <1>2, <1>3
        <3> HIDE DEF s
        <3>2. KeyOf(u, c) = [i \in 1 .. Len(Chain(u, c)) |->
                               Lower[u[Chain(u, c)[Len(Chain(u, c)) - i + 1]].name]]
            <4>1. Sound(u)
                BY <1>2
            <4> QED
                BY <3>1, <4>1, KeyOfChain
        <3>3. Len(s) = n
            BY <2>4, Zenon
        <3> QED
            BY <3>1, <3>2, <3>3, Zenon
    <2> HIDE DEF s
    <2>6. ASSUME NEW i \in 1 .. n PROVE Lower[u[s[n - i + 1]].name] = Lower[path[i]]
        <3>1. CASE i = n
            <4>1. n - i + 1 = 1
                BY <2>1, <3>1
            <4> QED
                BY <1>3, <1>6, <2>1, <2>4, <3>1, <4>1
        <3>2. CASE i # n
            <4>1. n - i + 1 \in 2 .. n /\ (n - i + 1) - 1 = n - i /\ i \in 1 .. n - 1
                BY <2>1, <3>2
            <4>2. s[n - i + 1] = above[n - i] /\ s[n - i + 1] \in Present(t)
                BY <2>4, <4>1
            <4> QED
                BY <1>3, <2>3, <4>1, <4>2
        <3> QED
            BY <3>1, <3>2
    <2>7. Key(path) = [i \in 1 .. n |-> Lower[path[i]]]
        BY <2>1 DEF Key
    <2> QED
        BY <2>5, <2>6, <2>7
<1> QED
    BY <1>5, <1>6 DEF u

\* An import so far: its tree is sound, and what it has by a path is there by that path.
Good(a) ==
    /\ a = [tree |-> a.tree, keys |-> a.keys, verdict |-> a.verdict]
    /\ Sound(a.tree)
    /\ \A k \in DOMAIN a.keys : a.keys[k] \in Present(a.tree) /\ KeyOf(a.tree, a.keys[k]) = k

\* A tree that has every row of another.
Keeps(t, u) == Present(t) \subseteq Present(u) /\ \A c \in Present(t) : u[c] = t[c]

\* It takes nothing back, and once refused it stays refused.
Grows(a, b) ==
    /\ Keeps(a.tree, b.tree)
    /\ b.verdict = "ok" => a.verdict = "ok" /\ DOMAIN a.keys \subseteq DOMAIN b.keys

\* A path without its last name.
LEMMA FrontFits ==
    ASSUME NEW path \in Seq(Names), path # <<>>
    PROVE  /\ Front(path) \in Seq(Names) /\ Len(Front(path)) = Len(path) - 1
           /\ \A i \in 1 .. Len(path) - 1 : Front(path)[i] = path[i]
<1>1. PICK n \in Nat \ {0} : n = Len(path)
    OBVIOUS
<1> QED
    BY <1>1 DEF Front

\* A path's key, and that of what is above it.
LEMMA KeyFits ==
    ASSUME NEW path \in Seq(Names)
    PROVE  Key(path) = [i \in 1 .. Len(path) |-> Lower[path[i]]] /\ Len(Key(path)) = Len(path)
<1>1. PICK n \in Nat : n = Len(path) /\ DOMAIN path = 1 .. n
    OBVIOUS
<1>2. Key(path) = [i \in 1 .. n |-> Lower[path[i]]]
    BY <1>1 DEF Key
<1> QED
    BY <1>1, <1>2

\* One level made, or found by its path, keeps the import as it should be.
LEMMA EnsureKeeps ==
    ASSUME NEW a, Good(a), NEW path \in Seq(Names), path # <<>>,
           a.verdict = "ok" /\ Len(path) > 1 => Key(Front(path)) \in DOMAIN a.keys
    PROVE  /\ Good(Ensure(a, path)) /\ Grows(a, Ensure(a, path))
           /\ Ensure(a, path).verdict = "ok" => Key(path) \in DOMAIN Ensure(a, path).keys
<1> DEFINE b == Ensure(a, path)
           key == Key(path)
           parent == IF Len(path) = 1 THEN None ELSE a.keys[Key(Front(path))]
           id == NewId(a.tree)
           node == [name |-> Last(path), parent |-> parent]
<1>0. Len(path) = 1 \/ Len(path) > 1
    <2>1. PICK n \in Nat \ {0} : n = Len(path)
        OBVIOUS
    <2> QED
        BY <2>1
<1>1. CASE a.verdict # "ok" \/ key \in DOMAIN a.keys
    <2>1. b = a
        BY <1>1 DEF Ensure
    <2>2. Good(b) /\ Grows(a, b) /\ (b.verdict = "ok" => key \in DOMAIN b.keys)
        <3> HIDE DEF b, key
        <3> QED
            BY <1>1, <2>1 DEF Grows, Keeps
    <2> QED
        BY <2>2
<1>2. ASSUME b = [a EXCEPT !.verdict = b.verdict], b.verdict \in {"refused", "full"}
      PROVE  Good(b) /\ Grows(a, b) /\ b.verdict # "ok"
    <2> HIDE DEF b
    <2>1. b.tree = a.tree /\ b.keys = a.keys
          /\ b = [tree |-> b.tree, keys |-> b.keys, verdict |-> b.verdict]
        BY <1>2 DEF Good
    <2> QED
        BY <1>2, <2>1 DEF Good, Grows, Keeps
<1>3. CASE /\ a.verdict = "ok" /\ key \notin DOMAIN a.keys
           /\ Len(path) > MaxCategoryDepth \/ ~NameFree(a.tree, Last(path))
    <2>1. b = [a EXCEPT !.verdict = "refused"]
        BY <1>3 DEF Ensure
    <2> HIDE DEF b
    <2>2. b.verdict = "refused"
        BY <2>1 DEF Good
    <2> QED
        BY <1>2, <2>1, <2>2 DEF b
<1>4. CASE /\ a.verdict = "ok" /\ key \notin DOMAIN a.keys
           /\ Len(path) <= MaxCategoryDepth /\ NameFree(a.tree, Last(path)) /\ Spare(a.tree) = {}
    <2>1. b = [a EXCEPT !.verdict = "full"]
        BY <1>4, CatalogueFits DEF Ensure
    <2> HIDE DEF b
    <2>2. b.verdict = "full"
        BY <2>1 DEF Good
    <2> QED
        BY <1>2, <2>1, <2>2 DEF b
<1>5. CASE /\ a.verdict = "ok" /\ key \notin DOMAIN a.keys
           /\ Len(path) <= MaxCategoryDepth /\ NameFree(a.tree, Last(path)) /\ Spare(a.tree) # {}
    <2>1. b = [tree |-> Hung(a.tree, id, node),
               keys |-> [k \in DOMAIN a.keys \cup {key} |-> IF k = key THEN id ELSE a.keys[k]],
               verdict |-> "ok"]
        BY <1>5, CatalogueFits DEF Ensure, Hung
    <2>2. id \in Cats \ Present(a.tree)
        BY <1>5 DEF NewId, Spare
    <2>3. Len(path) \in Nat \ {0} /\ Last(path) = path[Len(path)] /\ Last(path) \in Names
        BY DEF Last
    <2> HIDE DEF b, key, id, node
    <2>5. /\ parent \in Present(a.tree) \cup {None}
          /\ parent = None <=> Len(path) = 1
          /\ Len(path) # 1 => KeyOf(a.tree, parent) = Key(Front(path))
        <3>1. CASE Len(path) = 1
            BY <3>1
        <3>2. CASE Len(path) # 1
            <4>1. Key(Front(path)) \in DOMAIN a.keys /\ parent = a.keys[Key(Front(path))]
                BY <1>0, <1>5, <3>2
            <4>2. parent \in Present(a.tree) /\ KeyOf(a.tree, parent) = Key(Front(path))
                BY <4>1 DEF Good
            <4>3. None \notin Present(a.tree)
                BY CatalogueFits DEF Present
            <4> QED
                BY <3>2, <4>2, <4>3
        <3> QED
            BY <3>1, <3>2
    <2> HIDE DEF parent
    <2>6. node \in Node /\ node.parent = parent /\ node.name = Last(path)
        <3>1. Present(a.tree) \subseteq Cats
            BY DEF Present
        <3> QED
            BY <2>3, <2>5, <3>1 DEF Node, node
    <2>7. node.parent # None => DepthOf(a.tree, node.parent) < MaxCategoryDepth
        <3>1. SUFFICES ASSUME parent # None PROVE DepthOf(a.tree, parent) < MaxCategoryDepth
            BY <2>6
        <3>2. Len(KeyOf(a.tree, parent)) = DepthOf(a.tree, parent) /\ DepthOf(a.tree, parent) \in Nat
            BY <2>5, <3>1, KeyOfChain, SoundChains, CatalogueFits DEF Good
        <3>3. Len(Key(Front(path))) = Len(path) - 1
            BY FrontFits, KeyFits
        <3> QED
            BY <1>5, <2>3, <2>5, <3>1, <3>2, <3>3, CatalogueFits
    <2> DEFINE u == Hung(a.tree, id, node)
    <2>8. /\ Sound(u) /\ Present(u) = Present(a.tree) \cup {id}
          /\ Keeps(a.tree, u)
        <3>1. Sound(a.tree) /\ NameFree(a.tree, node.name) /\ node.parent \in Present(a.tree) \cup {None}
            BY <1>5, <2>5, <2>6 DEF Good
        <3>2. Sound(u)
            BY <2>2, <2>6, <2>7, <3>1, NewKeepsSound
        <3>3. Hangs(a.tree, id, node)
            BY <2>2, <2>6, <3>1, NewHangs
        <3>4. Present(u) = Present(a.tree) \cup {id} /\ \A x \in Cats \ {id} : u[x] = a.tree[x]
            BY <3>3, HungRows
        <3>5. \A x \in Present(a.tree) : x \in Cats \ {id}
            BY <2>2 DEF Present
        <3> HIDE DEF u
        <3> QED
            BY <3>2, <3>4, <3>5 DEF Keeps
    <2>9. /\ \A d \in Present(a.tree) : KeyOf(u, d) = KeyOf(a.tree, d)
          /\ KeyOf(u, id) = key
        <3>1. path # <<>> /\ path[Len(path)] = node.name
              /\ (node.parent = None => Len(path) = 1)
              /\ (node.parent # None => KeyOf(a.tree, node.parent) = Key(Front(path)))
            BY <2>3, <2>5, <2>6
        <3> QED
            BY <1>5, <2>2, <2>5, <2>6, <2>7, <3>1, NewKeys DEF Good, key
    <2> HIDE DEF u
    <2>10. /\ b.tree = u /\ b.verdict = "ok" /\ DOMAIN b.keys = DOMAIN a.keys \cup {key}
           /\ b.keys[key] = id /\ \A k \in DOMAIN a.keys : b.keys[k] = a.keys[k]
           /\ b = [tree |-> b.tree, keys |-> b.keys, verdict |-> b.verdict]
        BY <1>5, <2>1 DEF u
    <2>11. Good(b)
        <3>1. \A k \in DOMAIN a.keys : a.keys[k] \in Present(a.tree) /\ KeyOf(a.tree, a.keys[k]) = k
            BY DEF Good
        <3> QED
            BY <2>8, <2>9, <2>10, <3>1 DEF Good
    <2> QED
        BY <1>5, <2>8, <2>10, <2>11 DEF Grows, b, key
<1> QED
    BY <1>1, <1>2, <1>3, <1>4, <1>5, CatalogueFits

-----------------------------------------------------------------------------
(* One path after the other.                                                *)

\* A path that is there is not made.
LEMMA EnsureAgain ==
    ASSUME NEW a, NEW path, Key(path) \in DOMAIN a.keys
    PROVE  Ensure(a, path) = a
BY DEF Ensure

\* ensureCategoryPath level by level: its recursion, as a property of a function.
EnsuresTo(a, path, N, to) ==
    to = [n \in 0 .. N |-> IF n = 0 THEN a ELSE Ensure(to[n - 1], SubSeq(path, 1, n))]

LEMMA EnsuresExist ==
    ASSUME NEW a, NEW path, NEW N \in Nat
    PROVE  \E to : EnsuresTo(a, path, N, to)
<1> DEFINE G == {n \in 0 .. N : \E to : EnsuresTo(a, path, n, to)}
<1>1. 0 \in G
    <2>1. EnsuresTo(a, path, 0, [m \in 0 .. 0 |-> a])
        BY DEF EnsuresTo
    <2> QED
        BY <2>1
<1>2. ASSUME NEW n \in 1 .. N, n - 1 \in G PROVE n \in G
    <2>1. PICK to : EnsuresTo(a, path, n - 1, to)
        BY <1>2
    <2> DEFINE more == [m \in 0 .. n |-> IF m = n THEN Ensure(to[n - 1], SubSeq(path, 1, n)) ELSE to[m]]
    <2>2. \A m \in 0 .. n :
             more[m] = IF m = 0 THEN a ELSE Ensure(more[m - 1], SubSeq(path, 1, m))
        <3> TAKE m \in 0 .. n
        <3>1. m = 0 \/ m - 1 \in 0 .. n - 1
            OBVIOUS
        <3>2. \A k \in 0 .. n - 1 : more[k] = to[k]
            OBVIOUS
        <3>3. \A k \in 0 .. n - 1 :
                 to[k] = IF k = 0 THEN a ELSE Ensure(to[k - 1], SubSeq(path, 1, k))
            BY <2>1 DEF EnsuresTo
        <3>4. more[n] = Ensure(to[n - 1], SubSeq(path, 1, n))
            OBVIOUS
        <3> HIDE DEF more
        <3> QED
            BY <3>1, <3>2, <3>3, <3>4
    <2>3. more = [m \in 0 .. n |-> more[m]]
        OBVIOUS
    <2> HIDE DEF more
    <2>4. EnsuresTo(a, path, n, more)
        BY <2>2, <2>3 DEF EnsuresTo
    <2> QED
        BY <2>4
<1> HIDE DEF G
<1>3. N \in G
    BY <1>1, <1>2, UpTo
<1> QED
    BY <1>3 DEF G

EnsurePathBy(a, path, to) ==
    /\ EnsurePath(a, path) = to[Len(path)] /\ to[0] = a
    /\ \A n \in 1 .. Len(path) : to[n] = Ensure(to[n - 1], SubSeq(path, 1, n))

LEMMA EnsurePathSteps ==
    ASSUME NEW a, NEW path \in Seq(Names)
    PROVE  \E to : EnsurePathBy(a, path, to)
<1> DEFINE N == Len(path)
           to == CHOOSE f : EnsuresTo(a, path, N, f)
<1>1. N \in Nat
    OBVIOUS
<1>2. EnsuresTo(a, path, N, to)
    <2> HIDE DEF N
    <2> QED
        BY <1>1, EnsuresExist
<1>3. EnsurePath(a, path) = to[N]
    BY DEF EnsurePath, EnsuresTo
<1> HIDE DEF to, N
<1>4. to[0] = a /\ \A n \in 1 .. N : to[n] = Ensure(to[n - 1], SubSeq(path, 1, n))
    BY <1>1, <1>2 DEF EnsuresTo
<1> QED
    BY <1>3, <1>4 DEF N, EnsurePathBy

\* What a path's levels are.
LEMMA Levels ==
    ASSUME NEW path \in Seq(Names), NEW n \in 1 .. Len(path)
    PROVE  /\ SubSeq(path, 1, n) \in Seq(Names) /\ SubSeq(path, 1, n) # <<>>
           /\ Len(SubSeq(path, 1, n)) = n
           /\ n > 1 => Front(SubSeq(path, 1, n)) = SubSeq(path, 1, n - 1)
<1>1. /\ SubSeq(path, 1, n) \in Seq(Names) /\ Len(SubSeq(path, 1, n)) = n
      /\ \A i \in 1 .. n : SubSeq(path, 1, n)[i] = path[i]
    OBVIOUS
<1>2. SubSeq(path, 1, n) # <<>>
    BY <1>1
<1> DEFINE s == SubSeq(path, 1, n)
<1> HIDE DEF s
<1>3. n > 1 => SubSeq(s, 1, n - 1) = SubSeq(path, 1, n - 1)
    <2>1. \A i \in 1 .. n - 1 : s[i] = path[i]
        BY <1>1 DEF s
    <2>2. s \in Seq(Names) /\ Len(s) = n
        BY <1>1 DEF s
    <2> QED
        BY <2>1, <2>2
<1>4. n > 1 => Front(s) = SubSeq(path, 1, n - 1)
    BY <1>1, <1>3 DEF Front, s
<1> QED
    BY <1>1, <1>2, <1>4 DEF s

\* A path of which every level is there.
Has(a, path) == \A n \in 1 .. Len(path) : Key(SubSeq(path, 1, n)) \in DOMAIN a.keys

\* A path that was made is there afterwards, level by level.
LEMMA EnsurePathKeeps ==
    ASSUME NEW a, Good(a), NEW path \in Seq(Names)
    PROVE  /\ Good(EnsurePath(a, path)) /\ Grows(a, EnsurePath(a, path))
           /\ EnsurePath(a, path).verdict = "ok" => Has(EnsurePath(a, path), path)
<1>1. PICK to : EnsurePathBy(a, path, to)
    BY EnsurePathSteps
<1> DEFINE N == Len(path)
           So(n) == /\ Good(to[n]) /\ Grows(a, to[n])
                    /\ to[n].verdict = "ok" =>
                         \A m \in 1 .. n : Key(SubSeq(path, 1, m)) \in DOMAIN to[n].keys
           G == {n \in 0 .. N : So(n)}
<1>2. /\ N \in Nat /\ to[0] = a /\ EnsurePath(a, path) = to[N]
      /\ \A n \in 1 .. N : to[n] = Ensure(to[n - 1], SubSeq(path, 1, n))
    BY <1>1 DEF EnsurePathBy
<1>3. 0 \in G
    BY <1>2 DEF Grows, Keeps
<1>4. ASSUME NEW n \in 1 .. N, n - 1 \in G PROVE n \in G
    <2> DEFINE b == to[n - 1]
               level == SubSeq(path, 1, n)
    <2>1. So(n - 1) /\ n - 1 \in 0 .. N
        BY <1>4
    <2>2. to[n] = Ensure(b, level)
        BY <1>2
    <2>3. level \in Seq(Names) /\ level # <<>> /\ Len(level) = n
          /\ (n > 1 => Front(level) = SubSeq(path, 1, n - 1))
        BY Levels
    <2>4. b.verdict = "ok" /\ Len(level) > 1 => Key(Front(level)) \in DOMAIN b.keys
        <3>1. n > 1 => n - 1 \in 1 .. n - 1
            BY <1>2
        <3> HIDE DEF level
        <3> QED
            BY <2>1, <2>3, <3>1
    <2>5. Good(b)
        BY <2>1
    <2> HIDE DEF b, level
    <2>6. /\ Good(to[n]) /\ Grows(b, to[n])
          /\ to[n].verdict = "ok" => Key(level) \in DOMAIN to[n].keys
        BY <2>2, <2>3, <2>4, <2>5, EnsureKeeps
    <2>7. Grows(a, to[n])
        BY <2>1, <2>6 DEF Grows, Keeps, b
    <2>8. ASSUME to[n].verdict = "ok", NEW m \in 1 .. n
          PROVE  Key(SubSeq(path, 1, m)) \in DOMAIN to[n].keys
        <3>1. CASE m = n
            BY <2>6, <2>8, <3>1 DEF level
        <3>2. CASE m # n
            <4>1. m \in 1 .. n - 1
                BY <1>2, <3>2
            <4> QED
                BY <2>1, <2>6, <2>8, <4>1 DEF Grows, b
        <3> QED
            BY <3>1, <3>2
    <2> QED
        BY <1>2, <2>6, <2>7, <2>8
<1> HIDE DEF G
<1>5. \A n \in 0 .. N : n \in G
    BY <1>2, <1>3, <1>4, UpTo
<1>6. So(N)
    BY <1>2, <1>5 DEF G
<1> QED
    BY <1>2, <1>6 DEF Has

\* A path that is there in full is left as it is.
LEMMA EnsurePathAgain ==
    ASSUME NEW a, NEW path \in Seq(Names), Has(a, path)
    PROVE  EnsurePath(a, path) = a
<1>1. PICK to : EnsurePathBy(a, path, to)
    BY EnsurePathSteps
<1> DEFINE N == Len(path)
           G == {n \in 0 .. N : to[n] = a}
<1>2. N \in Nat /\ 0 \in G
    BY <1>1 DEF EnsurePathBy
<1>3. ASSUME NEW n \in 1 .. N, n - 1 \in G PROVE n \in G
    BY <1>1, <1>2, <1>3, EnsureAgain DEF Has, EnsurePathBy
<1> HIDE DEF G
<1>4. \A n \in 0 .. N : n \in G
    BY <1>2, <1>3, UpTo
<1> QED
    BY <1>1, <1>2, <1>4 DEF EnsurePathBy, G

\* How an import begins, and its recursion over paths as a property of a function.
Start(t) == [tree |-> t, keys |-> ExistingKeys(t), verdict |-> "ok"]
ImportsTo(t, paths, N, after) ==
    after = [n \in 0 .. N |-> IF n = 0 THEN [tree |-> t, keys |-> ExistingKeys(t), verdict |-> "ok"]
                              ELSE EnsurePath(after[n - 1], paths[n])]

LEMMA ImportsExist ==
    ASSUME NEW t, NEW paths, NEW N \in Nat
    PROVE  \E after : ImportsTo(t, paths, N, after)
<1> DEFINE G == {n \in 0 .. N : \E after : ImportsTo(t, paths, n, after)}
<1>1. 0 \in G
    <2>1. ImportsTo(t, paths, 0, [m \in 0 .. 0 |-> Start(t)])
        BY DEF ImportsTo, Start
    <2> QED
        BY <2>1
<1>2. ASSUME NEW n \in 1 .. N, n - 1 \in G PROVE n \in G
    <2>1. PICK after : ImportsTo(t, paths, n - 1, after)
        BY <1>2
    <2> DEFINE more == [m \in 0 .. n |-> IF m = n THEN EnsurePath(after[n - 1], paths[n]) ELSE after[m]]
    <2>2. \A m \in 0 .. n :
             more[m] = IF m = 0 THEN Start(t) ELSE EnsurePath(more[m - 1], paths[m])
        <3> TAKE m \in 0 .. n
        <3>1. m = 0 \/ m - 1 \in 0 .. n - 1
            OBVIOUS
        <3>2. \A k \in 0 .. n - 1 : more[k] = after[k]
            OBVIOUS
        <3>3. \A k \in 0 .. n - 1 :
                 after[k] = IF k = 0 THEN Start(t) ELSE EnsurePath(after[k - 1], paths[k])
            BY <2>1 DEF ImportsTo, Start
        <3>4. more[n] = EnsurePath(after[n - 1], paths[n])
            OBVIOUS
        <3> HIDE DEF more
        <3> QED
            BY <3>1, <3>2, <3>3, <3>4
    <2>3. more = [m \in 0 .. n |-> more[m]]
        OBVIOUS
    <2> HIDE DEF more
    <2>4. ImportsTo(t, paths, n, more)
        BY <2>2, <2>3 DEF ImportsTo, Start
    <2> QED
        BY <2>4
<1> HIDE DEF G
<1>3. N \in G
    BY <1>1, <1>2, UpTo
<1> QED
    BY <1>3 DEF G

ImportBy(t, f, after) ==
    /\ Import(t, f) = after[Len(FilePaths[f])] /\ after[0] = Start(t)
    /\ \A n \in 1 .. Len(FilePaths[f]) : after[n] = EnsurePath(after[n - 1], FilePaths[f][n])

LEMMA ImportSteps ==
    ASSUME NEW t, NEW f, FilePaths[f] \in Seq(Seq(Names))
    PROVE  \E after : ImportBy(t, f, after)
<1> DEFINE paths == FilePaths[f]
           N == Len(paths)
           after == CHOOSE g : ImportsTo(t, paths, N, g)
<1>1. N \in Nat
    OBVIOUS
<1>2. ImportsTo(t, paths, N, after)
    <2> HIDE DEF N
    <2> QED
        BY <1>1, ImportsExist
<1>3. Import(t, f) = after[N]
    BY DEF Import, ImportsTo
<1> HIDE DEF after, N
<1>4. after[0] = Start(t) /\ \A n \in 1 .. N : after[n] = EnsurePath(after[n - 1], paths[n])
    <2> DEFINE by(n) == IF n = 0 THEN Start(t) ELSE EnsurePath(after[n - 1], paths[n])
    <2>1. after = [n \in 0 .. N |-> by(n)]
        BY <1>2 DEF ImportsTo, Start
    <2>2. \A n \in 0 .. N : after[n] = by(n)
        <3> HIDE DEF by
        <3> QED
            BY <2>1
    <2> QED
        BY <1>1, <2>2
<1> QED
    BY <1>3, <1>4 DEF N, ImportBy

\* What is there already is in the map, by its path.
LEMMA StartIsGood ==
    ASSUME NEW t, Sound(t)
    PROVE  Good(Start(t)) /\ \A c \in Present(t) : KeyOf(t, c) \in DOMAIN Start(t).keys
<1> DEFINE key == [c \in Present(t) |-> KeyOf(t, c)]
           keys == [k \in Range(key) |-> CHOOSE c \in Present(t) : key[c] = k]
<1>1. Start(t) = [tree |-> t, keys |-> keys, verdict |-> "ok"]
    BY DEF Start, ExistingKeys
<1>2. Range(key) = {KeyOf(t, c) : c \in Present(t)}
    BY DEF Range
<1>3. ASSUME NEW k \in Range(key) PROVE keys[k] \in Present(t) /\ KeyOf(t, keys[k]) = k
    <2>1. \E c \in Present(t) : key[c] = k
        BY <1>2
    <2>2. keys[k] = CHOOSE c \in Present(t) : key[c] = k
        OBVIOUS
    <2>3. keys[k] \in Present(t) /\ key[keys[k]] = k
        <3> HIDE DEF key, keys
        <3> QED
            BY <2>1, <2>2
    <2> HIDE DEF keys
    <2> QED
        BY <2>3
<1>4. DOMAIN keys = Range(key)
    OBVIOUS
<1> HIDE DEF keys, key
<1>5. Good(Start(t))
    BY <1>1, <1>3, <1>4 DEF Good
<1> QED
    BY <1>1, <1>2, <1>4, <1>5

\* An import leaves a sound tree with all its paths in it.
LEMMA ImportKeeps ==
    ASSUME NEW t, Sound(t), NEW f, FilePaths[f] \in Seq(Seq(Names))
    PROVE  /\ Good(Import(t, f)) /\ Keeps(t, Import(t, f).tree)
           /\ Import(t, f).verdict = "ok" =>
                \A n \in 1 .. Len(FilePaths[f]) : Has(Import(t, f), FilePaths[f][n])
<1>1. PICK after : ImportBy(t, f, after)
    BY ImportSteps
<1> DEFINE paths == FilePaths[f]
           N == Len(paths)
           So(n) == /\ Good(after[n]) /\ Keeps(t, after[n].tree)
                    /\ after[n].verdict = "ok" => \A m \in 1 .. n : Has(after[n], paths[m])
           G == {n \in 0 .. N : So(n)}
<1>2. /\ N \in Nat /\ after[0] = Start(t) /\ Import(t, f) = after[N]
      /\ \A n \in 1 .. N : after[n] = EnsurePath(after[n - 1], paths[n]) /\ paths[n] \in Seq(Names)
    BY <1>1 DEF ImportBy
<1>3. 0 \in G
    BY <1>2, StartIsGood DEF Start, Keeps
<1>4. ASSUME NEW n \in 1 .. N, n - 1 \in G PROVE n \in G
    <2> DEFINE a == after[n - 1]
               b == after[n]
    <2>1. So(n - 1) /\ n - 1 \in 0 .. N
        BY <1>4
    <2>2. Good(a) /\ b = EnsurePath(a, paths[n]) /\ paths[n] \in Seq(Names)
        BY <1>2, <2>1
    <2>3. Good(b) /\ Grows(a, b) /\ (b.verdict = "ok" => Has(b, paths[n]))
        <3> HIDE DEF a, b, paths
        <3> QED
            BY <2>2, EnsurePathKeeps
    <2>4. ASSUME b.verdict = "ok", NEW m \in 1 .. n PROVE Has(b, paths[m])
        <3>1. CASE m = n
            BY <2>3, <2>4, <3>1
        <3>2. CASE m # n
            <4>1. m \in 1 .. n - 1
                BY <1>2, <3>2
            <4>2. Has(a, paths[m]) /\ DOMAIN a.keys \subseteq DOMAIN b.keys
                BY <2>1, <2>3, <2>4, <4>1 DEF Grows
            <4> HIDE DEF a, b, paths
            <4> QED
                BY <4>2 DEF Has
        <3> QED
            BY <3>1, <3>2
    <2>5. Keeps(t, b.tree)
        BY <2>1, <2>3 DEF Grows, Keeps
    <2> QED
        BY <1>2, <2>3, <2>4, <2>5
<1> HIDE DEF G
<1>5. \A n \in 0 .. N : n \in G
    BY <1>2, <1>3, <1>4, UpTo
<1>6. N \in G
    BY <1>2, <1>5
<1> HIDE DEF So
<1>7. So(N)
    BY <1>6 DEF G
<1> QED
    BY <1>2, <1>7 DEF So

\* Again, it makes nothing.
LEMMA ImportAgain ==
    ASSUME NEW t, Sound(t), NEW f, FilePaths[f] \in Seq(Seq(Names)), Import(t, f).verdict = "ok"
    PROVE  Import(Import(t, f).tree, f) = Start(Import(t, f).tree)
<1> DEFINE once == Import(t, f)
           u == once.tree
           paths == FilePaths[f]
           N == Len(paths)
<1>1. Good(once) /\ \A n \in 1 .. N : Has(once, paths[n])
    BY ImportKeeps
<1>2. DOMAIN once.keys \subseteq DOMAIN Start(u).keys
    <2> HIDE DEF once
    <2>1. Sound(u) /\ \A k \in DOMAIN once.keys : once.keys[k] \in Present(u) /\ KeyOf(u, once.keys[k]) = k
        BY <1>1 DEF Good
    <2> HIDE DEF u
    <2> QED
        BY <2>1, StartIsGood
<1>3. PICK after : ImportBy(u, f, after)
    BY ImportSteps
<1>4. /\ N \in Nat /\ after[0] = Start(u) /\ Import(u, f) = after[N]
      /\ \A n \in 1 .. N : after[n] = EnsurePath(after[n - 1], paths[n]) /\ paths[n] \in Seq(Names)
    BY <1>3 DEF ImportBy
<1>5. \A n \in 1 .. N : Has(Start(u), paths[n])
    <2> HIDE DEF once, u, paths
    <2> QED
        BY <1>1, <1>2 DEF Has
<1> HIDE DEF once, u
<1> DEFINE G == {n \in 0 .. N : after[n] = Start(u)}
<1>6. 0 \in G
    BY <1>4
<1>7. ASSUME NEW n \in 1 .. N, n - 1 \in G PROVE n \in G
    <2>1. after[n] = EnsurePath(Start(u), paths[n]) /\ paths[n] \in Seq(Names)
        BY <1>4, <1>7
    <2>2. EnsurePath(Start(u), paths[n]) = Start(u)
        <3> HIDE DEF paths
        <3> QED
            BY <1>5, <2>1, EnsurePathAgain
    <2> QED
        BY <1>4, <2>1, <2>2
<1> HIDE DEF G
<1>8. \A n \in 0 .. N : n \in G
    BY <1>4, <1>6, <1>7, UpTo
<1>9. after[N] = Start(u)
    BY <1>4, <1>8 DEF G
<1> QED
    BY <1>4, <1>9 DEF u, once

-----------------------------------------------------------------------------
(* The files: every line and row is a path of names.                        *)

\* A row's names up to the first blank cell.
LEMMA RowsArePaths ==
    ASSUME NEW cells \in Seq(Names \cup {None})
    PROVE  CsvPath(cells) \in Seq(Names)
<1> DEFINE blank == {i \in DOMAIN cells : cells[i] = None}
<1>1. PICK n \in Nat : n = Len(cells) /\ DOMAIN cells = 1 .. n /\ cells \in [1 .. n -> Names \cup {None}]
    OBVIOUS
<1>2. CASE blank = {}
    <2>1. \A i \in 1 .. n : cells[i] \in Names
        BY <1>1, <1>2
    <2>2. cells \in Seq(Names)
        BY <1>1, <2>1
    <2> QED
        BY <1>2, <2>2 DEF CsvPath
<1>3. CASE blank # {}
    <2>1. blank \subseteq Nat
        BY <1>1
    <2>2. \E x \in blank : \A y \in blank : x <= y
        <3> HIDE DEF blank
        <3> QED
            BY <1>3, <2>1, LeastExists
    <2>3. PICK m : m = Min(blank) /\ m \in blank /\ \A y \in blank : m <= y
        <3> HIDE DEF blank
        <3> QED
            BY <2>2 DEF Min
    <2>4. m \in 1 .. n /\ \A i \in 1 .. m - 1 : cells[i] \in Names
        <3>1. m \in 1 .. n
            BY <1>1, <2>3
        <3>2. ASSUME NEW i \in 1 .. m - 1 PROVE cells[i] \in Names
            <4>1. i \in 1 .. n /\ ~(m <= i)
                BY <3>1
            <4>2. i \notin blank
                <5> HIDE DEF blank
                <5> QED
                    BY <2>3, <4>1
            <4>3. cells[i] # None
                BY <1>1, <4>1, <4>2
            <4> QED
                BY <1>1, <4>1, <4>3
        <3> QED
            BY <3>1, <3>2
    <2>5. SubSeq(cells, 1, m - 1) \in Seq(Names)
        <3>1. /\ SubSeq(cells, 1, m - 1) = [i \in 1 .. m - 1 |-> cells[i]] /\ m - 1 \in Nat
            BY <1>1, <2>4
        <3> QED
            BY <2>4, <3>1
    <2>6. CsvPath(cells) = SubSeq(cells, 1, m - 1)
        BY <1>3, <2>3 DEF CsvPath
    <2> QED
        BY <2>5, <2>6
<1> QED
    BY <1>2, <1>3

\* A line's path is cut to its depth before its name is added.
LEMMA LineDepthFits ==
    ASSUME NEW lines, NEW l \in TextLine, IsCategory(lines, l)
    PROVE  LineDepth(l) \in Nat
<1>1. l.n \in Nat
    BY DEF TextLine
<1>2. l.n \div 2 \in Nat
    BY <1>1
<1>3. l.mark = "#" => l.n > 1
    BY DEF IsCategory
<1> QED
    BY <1>1, <1>2, <1>3 DEF LineDepth

\* The lesser of two numbers.
LEMMA LesserFits ==
    ASSUME NEW a \in Nat, NEW b \in Nat
    PROVE  Min({a, b}) \in 0 .. b
<1>1. \E x \in {a, b} : \A y \in {a, b} : x <= y
    OBVIOUS
<1>2. Min({a, b}) \in {a, b} /\ \A y \in {a, b} : Min({a, b}) <= y
    BY <1>1 DEF Min
<1> QED
    BY <1>2

\* A line read under the path above it.
Reads(lines, above, l) ==
    LET d == Min({LineDepth(l), Len(above)})
    IN  IF IsCategory(lines, l) THEN Append(SubSeq(above, 1, d), l.name) ELSE above

\* A line read is a path of names.
LEMMA ReadsNames ==
    ASSUME NEW lines, NEW l \in TextLine, NEW above \in Seq(Names)
    PROVE  Reads(lines, above, l) \in Seq(Names)
<1>1. CASE IsCategory(lines, l)
    <2>1. PICK n \in Nat : n = Len(above)
        OBVIOUS
    <2>2. PICK d : d = Min({LineDepth(l), n}) /\ d \in 0 .. n
        BY <1>1, LineDepthFits, LesserFits
    <2>3. l.name \in Names
        BY DEF TextLine
    <2> DEFINE cut == SubSeq(above, 1, d)
    <2>4. cut \in Seq(Names)
        <3>1. above \in [1 .. n -> Names]
            BY <2>1
        <3>2. d \in Nat /\ d <= n /\ cut = [i \in 1 .. d |-> above[i]]
            BY <2>1, <2>2
        <3>3. \A i \in 1 .. d : i \in 1 .. n
            BY <3>2
        <3>4. [i \in 1 .. d |-> above[i]] \in [1 .. d -> Names]
            BY <3>1, <3>3
        <3>5. [1 .. d -> Names] \subseteq Seq(Names)
            BY <3>2
        <3> QED
            BY <3>2, <3>4, <3>5
    <2>5. Reads(lines, above, l) = Append(cut, l.name)
        BY <1>1, <2>1, <2>2 DEF Reads
    <2> HIDE DEF cut
    <2>6. Append(cut, l.name) \in Seq(Names)
        BY <2>3, <2>4
    <2> QED
        BY <2>5, <2>6
<1>2. CASE ~IsCategory(lines, l)
    BY <1>2 DEF Reads
<1> QED
    BY <1>1, <1>2

\* TextPaths' recursion, as a property of a function.
StacksTo(lines, N, stack) ==
    stack = [n \in 0 .. N |->
       IF n = 0 THEN <<>>
       ELSE LET d == Min({LineDepth(lines[n]), Len(stack[n - 1])})
            IN  IF IsCategory(lines, lines[n])
                THEN Append(SubSeq(stack[n - 1], 1, d), lines[n].name) ELSE stack[n - 1]]

LEMMA StacksExist ==
    ASSUME NEW lines, NEW N \in Nat
    PROVE  \E stack : StacksTo(lines, N, stack)
<1> DEFINE To(M, stack) ==
        stack = [n \in 0 .. M |-> IF n = 0 THEN <<>> ELSE Reads(lines, stack[n - 1], lines[n])]
           G == {n \in 0 .. N : \E stack : To(n, stack)}
<1>1. 0 \in G
    <2>1. To(0, [m \in 0 .. 0 |-> <<>>])
        OBVIOUS
    <2> HIDE DEF To
    <2> QED
        BY <2>1
<1>2. ASSUME NEW n \in 1 .. N, n - 1 \in G PROVE n \in G
    <2>1. PICK stack : To(n - 1, stack)
        BY <1>2
    <2> DEFINE more == [m \in 0 .. n |-> IF m = n THEN Reads(lines, stack[n - 1], lines[n]) ELSE stack[m]]
    <2>2. \A m \in 0 .. n :
             more[m] = IF m = 0 THEN <<>> ELSE Reads(lines, more[m - 1], lines[m])
        <3> TAKE m \in 0 .. n
        <3>1. m = 0 \/ m - 1 \in 0 .. n - 1
            OBVIOUS
        <3>2. \A k \in 0 .. n - 1 : more[k] = stack[k]
            OBVIOUS
        <3>3. \A k \in 0 .. n - 1 :
                 stack[k] = IF k = 0 THEN <<>> ELSE Reads(lines, stack[k - 1], lines[k])
            BY <2>1
        <3>4. more[n] = Reads(lines, stack[n - 1], lines[n])
            OBVIOUS
        <3> HIDE DEF more, To
        <3> QED
            BY <3>1, <3>2, <3>3, <3>4
    <2>3. more = [m \in 0 .. n |-> more[m]]
        OBVIOUS
    <2> HIDE DEF more
    <2>4. To(n, more)
        BY <2>2, <2>3
    <2> HIDE DEF To
    <2> QED
        BY <2>4
<1> HIDE DEF G
<1>3. N \in G
    BY <1>1, <1>2, UpTo
<1>4. PICK stack : To(N, stack)
    BY <1>3 DEF G
<1>5. StacksTo(lines, N, stack)
    BY <1>4 DEF StacksTo, Reads
<1> QED
    BY <1>5

\* Every line of a text file is a path of names.
LEMMA LinesArePaths ==
    ASSUME NEW lines \in Seq(TextLine)
    PROVE  TextPaths(lines) \in Seq(Seq(Names))
<1> DEFINE N == Len(lines)
           stack == CHOOSE f : StacksTo(lines, N, f)
<1>1. N \in Nat
    OBVIOUS
<1>2. StacksTo(lines, N, stack)
    <2> HIDE DEF N
    <2> QED
        BY <1>1, StacksExist
<1>3. TextPaths(lines) = [n \in DOMAIN lines |-> stack[n]]
    BY DEF TextPaths, StacksTo
<1> HIDE DEF stack, N
<1>4. stack[0] = <<>> /\ \A n \in 1 .. N : stack[n] = Reads(lines, stack[n - 1], lines[n])
    <2>1. \A n \in 0 .. N : stack[n] = IF n = 0 THEN <<>> ELSE Reads(lines, stack[n - 1], lines[n])
        <3> DEFINE lhs(n) == IF n = 0 THEN <<>> ELSE
               LET d == Min({LineDepth(lines[n]), Len(stack[n - 1])})
               IN  IF IsCategory(lines, lines[n])
                   THEN Append(SubSeq(stack[n - 1], 1, d), lines[n].name) ELSE stack[n - 1]
        <3>1. stack = [n \in 0 .. N |-> lhs(n)]
            BY <1>2 DEF StacksTo
        <3>2. \A n \in 0 .. N : lhs(n) = IF n = 0 THEN <<>> ELSE Reads(lines, stack[n - 1], lines[n])
            BY DEF Reads
        <3> HIDE DEF lhs
        <3>3. \A n \in 0 .. N : stack[n] = lhs(n)
            BY <3>1
        <3> QED
            BY <3>2, <3>3
    <2> QED
        BY <1>1, <2>1
<1> DEFINE G == {n \in 0 .. N : stack[n] \in Seq(Names)}
<1>5. 0 \in G
    <2>1. <<>> \in Seq(Names)
        OBVIOUS
    <2>2. stack[0] = <<>>
        BY <1>4, Zenon
    <2>3. stack[0] \in Seq(Names)
        BY <2>1, <2>2, Zenon
    <2> QED
        BY <1>1, <2>3
<1>6. ASSUME NEW n \in 1 .. N, n - 1 \in G PROVE n \in G
    <2>1. lines[n] \in TextLine
        BY <1>6 DEF N
    <2>2. stack[n - 1] \in Seq(Names)
        BY <1>6
    <2>3. Reads(lines, stack[n - 1], lines[n]) \in Seq(Names)
        BY <2>1, <2>2, ReadsNames
    <2> QED
        BY <1>1, <1>4, <2>3
<1> HIDE DEF G
<1>7. \A n \in 0 .. N : n \in G
    BY <1>1, <1>5, <1>6, UpTo
<1>8. \A n \in 1 .. N : stack[n] \in Seq(Names)
    BY <1>1, <1>7 DEF G
<1>9. DOMAIN lines = 1 .. N
    BY DEF N
<1> QED
    BY <1>1, <1>3, <1>8, <1>9

\* So is every file an admin may import.
LEMMA FilesArePaths ==
    ASSUME NEW f \in CategoryFiles
    PROVE  FilePaths[f] \in Seq(Seq(Names))
<1>1. FilePaths[f] = IF f.format = "csv" THEN CsvPaths(f.rows) ELSE TextPaths(f.lines)
    BY DEF FilePaths
<1>2. CASE f.format = "csv"
    <2>1. f.rows \in Seq(Seq(Names \cup {None}))
        BY <1>2, FilesFit
    <2>2. CsvPaths(f.rows) = [i \in 1 .. Len(f.rows) |-> CsvPath(f.rows[i])] /\ Len(f.rows) \in Nat
        BY <2>1 DEF CsvPaths
    <2>3. \A i \in 1 .. Len(f.rows) : CsvPath(f.rows[i]) \in Seq(Names)
        BY <2>1, RowsArePaths
    <2> QED
        BY <1>1, <1>2, <2>2, <2>3
<1>3. CASE f.format # "csv"
    BY <1>1, <1>3, FilesFit, LinesArePaths
<1> QED
    BY <1>2, <1>3

-----------------------------------------------------------------------------
(* The tree in force.                                                       *)

\* What a row's edit checked against its snapshot is still so when it is written.
RowFits(r) ==
    /\ r.id \in Cats /\ r.name \in Names /\ r.parent \in Present(tree) \cup {None}
    /\ r.is = tree[r.id]
    /\ IF r.is = None THEN r.parent # None => DepthOf(tree, r.parent) < MaxCategoryDepth
       ELSE CheckMove(tree, r.id, r.parent)

\* The tree stays as each edit found it, until it is that edit that changes it.
EditsFit == \A e \in Editors : edit[e] # None =>
    /\ edit[e].op = "row" => RowFits(edit[e])
    /\ edit[e].op = "import" => edit[e].of \in CategoryFiles
    /\ edit[e].op \in {"count", "delete"} => edit[e].id \in Cats
    /\ edit[e].op = "delete" => \A d \in Present(tree) : tree[d].parent # edit[e].id

\* A unit that was written and waits for its commit has its category.
FilingsFit == \A f \in Filers : filing[f] # None /\ filing[f].at = "commit" =>
    filing[f].cat = None \/ filing[f].cat \in Present(tree)

TreeInductive == TreeIsSound /\ EditsFit /\ FilingsFit

LEMMA TreeStarts ==
    ASSUME CatalogueInit
    PROVE  TreeInductive
BY FirstTreesAreSound DEF CatalogueInit, TreeInductive, TreeIsSound, EditsFit, FilingsFit

\* While the tree stays, an edit that begins has only itself to fit.
LEMMA BeginsFits ==
    ASSUME CatalogueInductive, TreeInductive, NEW e \in Editors, NEW request, Begins(e, request),
           request.op = "row" => RowFits(request),
           request.op = "import" => request.of \in CategoryFiles,
           request.op = "count" => request.id \in Cats,
           request.op # "delete"
    PROVE  TreeInductive'
<1>1. /\ \A g \in Editors \ {e} : edit'[g] = edit[g]
      /\ edit'[e] = request /\ UNCHANGED <<tree, unit, filing>>
    BY DEF Begins, CatalogueInductive, FilingTyped
<1>2. EditsFit'
    <2>1. SUFFICES ASSUME NEW g \in Editors, edit'[g] # None
                   PROVE  /\ edit'[g].op = "row" => RowFits(edit[g])'
                          /\ edit'[g].op = "import" => edit'[g].of \in CategoryFiles
                          /\ edit'[g].op \in {"count", "delete"} => edit'[g].id \in Cats
                          /\ edit'[g].op = "delete" =>
                               \A d \in Present(tree)' : tree'[d].parent # edit'[g].id
        BY DEF EditsFit
    <2>2. RowFits(edit[g])' <=> RowFits(edit'[g])
        BY <1>1 DEF RowFits, Present, DepthOf, CheckMove, Chain
    <2>3. CASE g = e
        BY <1>1, <2>2, <2>3
    <2>4. CASE g # e
        BY <1>1, <2>1, <2>2, <2>4 DEF TreeInductive, EditsFit, Present
    <2> QED
        BY <2>3, <2>4
<1> QED
    BY <1>1, <1>2 DEF TreeInductive, TreeIsSound, FilingsFit, Present, Sound

\* When an edit has made the tree another sound one there is no edit left to fit.
LEMMA EndsFits ==
    ASSUME CatalogueInductive, TreeInductive, NEW e \in Editors, edit[e] # None,
           edit' = [edit EXCEPT ![e] = None], UNCHANGED <<unit, filing>>,
           Sound(tree'), Present(tree) \subseteq Present(tree')
    PROVE  TreeInductive'
<1>1. \A g \in Editors : edit'[g] = None
    BY DEF CatalogueInductive, FilingTyped, OneEdits
<1>2. EditsFit'
    BY <1>1 DEF EditsFit
<1>3. FilingsFit'
    BY DEF TreeInductive, FilingsFit, Present
<1>4. TreeIsSound'
    BY DEF TreeInductive, TreeIsSound, Sound, Present
<1> QED
    BY <1>2, <1>3, <1>4 DEF TreeInductive

LEMMA WritesRowKeeps ==
    ASSUME CatalogueInductive, TreeInductive, NEW e \in Editors, WritesRow(e)
    PROVE  TreeInductive'
<1> DEFINE r == edit[e]
           c == r.id
           node == [name |-> r.name, parent |-> r.parent]
           without == [tree EXCEPT ![c] = None]
<1>1. Sound(tree) /\ tree \in [Cats -> Node \cup {None}]
    BY DEF TreeInductive, TreeIsSound, Sound
<1>2. /\ edit[e] # None /\ edit[e].op = "row" /\ edit' = [edit EXCEPT ![e] = None]
      /\ UNCHANGED <<unit, filing>>
      /\ \/ tree' = tree
         \/ NameFree(without, r.name) /\ tree' = Hung(tree, c, node)
    BY DEF WritesRow, Hung
<1>3. RowFits(r)
    BY <1>2 DEF TreeInductive, EditsFit
<1>4. c \in Cats /\ node \in Node /\ node.parent \in Present(tree) \cup {None}
    BY <1>3, CatalogueFits DEF RowFits, Node, Present
<1>5. CASE tree' = tree
    BY <1>1, <1>2, <1>5, EndsFits DEF Sound, Present
<1>6. CASE NameFree(without, r.name) /\ tree' = Hung(tree, c, node)
    <2>1. \A d \in Present(tree) \ {c} : tree[d].name # node.name
        BY <1>1, <1>4, <1>6 DEF NameFree, Present
    <2>2. Sound(tree')
        <3>1. CASE tree[c] = None
            <4>1. c \in Cats \ Present(tree) /\ NameFree(tree, node.name)
                BY <1>4, <2>1, <3>1 DEF NameFree, Present
            <4>2. node.parent # None => DepthOf(tree, node.parent) < MaxCategoryDepth
                BY <1>3, <3>1 DEF RowFits
            <4> HIDE DEF node
            <4> QED
                BY <1>1, <1>4, <1>6, <4>1, <4>2, NewKeepsSound
        <3>2. CASE tree[c] # None
            <4>1. c \in Present(tree) /\ CheckMove(tree, c, node.parent)
                BY <1>3, <1>4, <3>2 DEF RowFits, Present
            <4> HIDE DEF node
            <4> QED
                BY <1>1, <1>4, <1>6, <2>1, <4>1, MoveKeepsSound
        <3> QED
            BY <3>1, <3>2
    <2>3. Present(tree) \subseteq Present(tree')
        BY <1>1, <1>4, <1>6, CatalogueFits DEF Hung, Present
    <2> QED
        BY <1>2, <2>2, <2>3, EndsFits
<1> QED
    BY <1>2, <1>5, <1>6

LEMMA WritesImportKeeps ==
    ASSUME CatalogueInductive, TreeInductive, NEW e \in Editors, WritesImport(e)
    PROVE  TreeInductive'
<1> DEFINE done == Import(tree, edit[e].of)
<1>1. /\ edit[e] # None /\ edit[e].op = "import" /\ edit' = [edit EXCEPT ![e] = None]
      /\ UNCHANGED <<unit, filing>> /\ tree' \in {done.tree, tree}
    BY DEF WritesImport
<1>2. Sound(tree) /\ FilePaths[edit[e].of] \in Seq(Seq(Names))
    BY <1>1, FilesArePaths DEF TreeInductive, TreeIsSound, EditsFit
<1>3. Sound(done.tree) /\ Present(tree) \subseteq Present(done.tree)
    BY <1>2, ImportKeeps DEF Good, Keeps
<1> HIDE DEF done
<1>4. Sound(tree') /\ Present(tree) \subseteq Present(tree')
    BY <1>1, <1>2, <1>3
<1> QED
    BY <1>1, <1>4, EndsFits

LEMMA DeletesKeeps ==
    ASSUME CatalogueInductive, TreeInductive, NEW e \in Editors, Deletes(e)
    PROVE  TreeInductive'
<1> DEFINE c == edit[e].id
<1>1. /\ edit[e] # None /\ edit[e].op = "delete" /\ ~RowShared(c)
      /\ edit' = [edit EXCEPT ![e] = None] /\ UNCHANGED filing
      /\ tree' = [d \in Cats |-> IF d = c \/ tree[d] = None THEN None
                                 ELSE IF tree[d].parent = c
                                      THEN [tree[d] EXCEPT !.parent = None] ELSE tree[d]]
      /\ unit' = [s \in Serials |-> IF unit[s] # None /\ unit[s].cat = c
                                    THEN [unit[s] EXCEPT !.cat = None] ELSE unit[s]]
    BY DEF Deletes, Deleting
<1>2. c \in Cats /\ \A d \in Present(tree) : tree[d].parent # c
    BY <1>1 DEF TreeInductive, EditsFit
<1>3. Sound(tree) /\ tree \in [Cats -> Node \cup {None}]
    BY DEF TreeInductive, TreeIsSound, Sound
<1>4. tree' = [tree EXCEPT ![c] = None]
    BY <1>1, <1>2, <1>3 DEF Present
<1>5. Sound(tree') /\ Present(tree') = Present(tree) \ {c}
    BY <1>2, <1>3, <1>4, GoneKeepsSound DEF Present
<1>6. EditsFit'
    BY <1>1 DEF CatalogueInductive, FilingTyped, OneEdits, EditsFit
<1>7. FilingsFit'
    <2>1. SUFFICES ASSUME NEW f \in Filers, filing[f] # None, filing[f].at = "commit"
                   PROVE  filing[f].cat = None \/ filing[f].cat \in Present(tree')
        BY <1>1 DEF FilingsFit, Present
    <2> QED
        BY <1>1, <1>5, <2>1 DEF RowShared, TreeInductive, FilingsFit
<1>8. \A s \in Serials : unit'[s] # None => unit'[s].cat = None \/ unit'[s].cat \in Present(tree')
    <2>1. SUFFICES ASSUME NEW s \in Serials, unit'[s] # None
                   PROVE  unit'[s].cat = None \/ unit'[s].cat \in Present(tree')
        OBVIOUS
    <2>2. unit[s] \in Unit \cup {None}
        BY DEF CatalogueInductive, FilingTyped
    <2>3. unit[s] # None => unit[s].cat = None \/ unit[s].cat \in Present(tree)
        BY DEF TreeInductive, TreeIsSound
    <2>4. CASE unit[s] # None /\ unit[s].cat = c
        BY <1>1, <2>2, <2>4 DEF Unit
    <2>5. CASE ~(unit[s] # None /\ unit[s].cat = c)
        BY <1>1, <1>5, <2>1, <2>3, <2>5
    <2> QED
        BY <2>4, <2>5
<1> QED
    BY <1>5, <1>6, <1>7, <1>8 DEF TreeInductive, TreeIsSound, Sound, Present

LEMMA CountsUnderKeeps ==
    ASSUME CatalogueInductive, TreeInductive, NEW e \in Editors, CountsUnder(e)
    PROVE  TreeInductive'
<1> DEFINE c == edit[e].id
<1>1. /\ edit[e] # None /\ edit[e].op = "count" /\ UNCHANGED <<tree, unit, filing>>
      /\ \/ edit' = [edit EXCEPT ![e] = None]
         \/ /\ edit' = [edit EXCEPT ![e] = [op |-> "delete", id |-> c]]
            /\ \A d \in Present(tree) : tree[d].parent # c
    BY DEF CountsUnder, Deleting
<1>2. c \in Cats /\ Sound(tree)
    BY <1>1 DEF TreeInductive, TreeIsSound, EditsFit
<1>3. CASE edit' = [edit EXCEPT ![e] = None]
    BY <1>1, <1>2, <1>3, EndsFits DEF Sound, Present
<1>4. CASE /\ edit' = [edit EXCEPT ![e] = [op |-> "delete", id |-> c]]
           /\ \A d \in Present(tree) : tree[d].parent # c
    <2>1. \A g \in Editors \ {e} : edit'[g] = None
        BY <1>1, <1>4 DEF CatalogueInductive, FilingTyped, OneEdits
    <2>2. edit'[e] = [op |-> "delete", id |-> c]
        BY <1>4 DEF CatalogueInductive, FilingTyped
    <2>3. EditsFit'
        BY <1>1, <1>2, <1>4, <2>1, <2>2 DEF EditsFit, Present
    <2> QED
        BY <1>1, <2>3 DEF TreeInductive, TreeIsSound, FilingsFit, Present, Sound
<1> QED
    BY <1>1, <1>3, <1>4

LEMMA EditFits ==
    ASSUME CatalogueInductive, TreeInductive, NEW e \in Editors,
           \/ CreateCategory(e) \/ UpdateCategory(e) \/ WritesRow(e)
           \/ ImportCategories(e) \/ WritesImport(e)
           \/ DeleteCategory(e) \/ CountsUnder(e) \/ Deletes(e)
    PROVE  TreeInductive'
<1>1. CASE CreateCategory(e)
    <2>1. PICK p \in Present(tree) \cup {None}, n \in Names :
             /\ Spare(tree) # {}
             /\ Begins(e, [op |-> "row", id |-> NewId(tree), name |-> n, parent |-> p, is |-> None])
             /\ p # None => DepthOf(tree, p) < MaxCategoryDepth
        BY <1>1 DEF CreateCategory
    <2> DEFINE request == [op |-> "row", id |-> NewId(tree), name |-> n, parent |-> p, is |-> None]
    <2>2. NewId(tree) \in Cats /\ tree[NewId(tree)] = None
        BY <2>1 DEF NewId, Spare, Present
    <2>3. RowFits(request)
        BY <2>1, <2>2 DEF RowFits
    <2> QED
        BY <2>1, <2>3, BeginsFits
<1>2. CASE UpdateCategory(e)
    <2>1. PICK c \in Present(tree), p \in Present(tree) \cup {None}, n \in Names :
             /\ Begins(e, [op |-> "row", id |-> c, name |-> n, parent |-> p, is |-> tree[c]])
             /\ CheckMove(tree, c, p)
        BY <1>2 DEF UpdateCategory
    <2> DEFINE request == [op |-> "row", id |-> c, name |-> n, parent |-> p, is |-> tree[c]]
    <2>2. RowFits(request)
        BY <2>1 DEF RowFits, Present
    <2> QED
        BY <2>1, <2>2, BeginsFits
<1>3. CASE ImportCategories(e)
    BY <1>3, BeginsFits DEF ImportCategories
<1>4. CASE DeleteCategory(e)
    BY <1>4, BeginsFits DEF DeleteCategory, Present
<1> QED
    BY <1>1, <1>2, <1>3, <1>4, WritesRowKeeps, WritesImportKeeps, CountsUnderKeeps, DeletesKeeps

\* Filing changes no category: what is written has its own, and so has what is committed.
LEMMA FilerFits ==
    ASSUME CatalogueInductive, TreeInductive, NEW f \in Filers,
           \/ ImportsRow(f) \/ LooksForRow(f) \/ CreateAsset(f) \/ UpdateAsset(f)
           \/ BulkAddAssets(f) \/ Writes(f) \/ Commits(f)
    PROVE  TreeInductive'
<1>1. filing \in [Filers -> Filing \cup {None}] /\ unit \in [Serials -> Unit \cup {None}]
    BY DEF CatalogueInductive, FilingTyped
<1>2. /\ UNCHANGED <<tree, edit>>
      /\ \A g \in Filers \ {f} : filing'[g] # None => filing'[g] = filing[g]
    <2>1. CASE Commits(f)
        BY <1>1, <2>1 DEF Commits
    <2>2. CASE ~Commits(f)
        BY <1>1, <2>2 DEF ImportsRow, LooksForRow, CreateAsset, UpdateAsset, BulkAddAssets, Writes, Files
    <2> QED
        BY <2>1, <2>2
<1>3. filing'[f] # None /\ filing'[f].at = "commit" =>
         filing'[f].cat = None \/ filing'[f].cat \in Present(tree)
    <2>1. CASE LooksForRow(f)
        <3>1. filing[f] \in Filing
            BY <1>1, <2>1 DEF LooksForRow
        <3>2. PICK free \in BOOLEAN : filing'[f] = [filing[f] EXCEPT !.at = "write", !.new = free]
            <4>1. (~Taken(filing[f].serials)) \in BOOLEAN
                BY DEF Taken
            <4> QED
                BY <1>1, <2>1, <4>1 DEF LooksForRow
        <3>3. \A r \in Filing : /\ [r EXCEPT !.at = "write", !.new = TRUE].at = "write"
                               /\ [r EXCEPT !.at = "write", !.new = FALSE].at = "write"
            BY DEF Filing
        <3>4. filing'[f].at = "write"
            <4>1. CASE free = TRUE
                BY <3>1, <3>2, <3>3, <4>1, ZenonT(40)
            <4>2. CASE free = FALSE
                BY <3>1, <3>2, <3>3, <4>2, ZenonT(40)
            <4> QED
                BY <4>1, <4>2
        <3> QED
            BY <3>4
    <2>2. CASE Writes(f)
        BY <1>1, <2>2 DEF Writes, Refuses, Filing
    <2>3. CASE Commits(f)
        BY <1>1, <2>3 DEF Commits
    <2>4. CASE ImportsRow(f) \/ CreateAsset(f) \/ UpdateAsset(f) \/ BulkAddAssets(f)
        <3>1. PICK request : Files(f, request) /\ request.at # "commit"
            <4> DEFINE Asked == \E request : Files(f, request) /\ request.at # "commit"
            <4>1. ASSUME NEW request, Files(f, request), request.at # "commit"
                  PROVE  Asked
                BY <4>1
            <4> HIDE DEF Asked
            <4>2. CASE ImportsRow(f)
                BY <4>1, <4>2 DEF ImportsRow
            <4>3. CASE CreateAsset(f)
                BY <4>1, <4>3 DEF CreateAsset
            <4>4. CASE UpdateAsset(f)
                BY <4>1, <4>4 DEF UpdateAsset
            <4>5. CASE BulkAddAssets(f)
                BY <4>1, <4>5 DEF BulkAddAssets
            <4> USE DEF Asked
            <4> QED
                BY <2>4, <4>2, <4>3, <4>4, <4>5
        <3> QED
            BY <1>1, <3>1 DEF Files
    <2> QED
        BY <2>1, <2>2, <2>3, <2>4
<1>4. FilingsFit'
    <2>1. ASSUME NEW g \in Filers, filing'[g] # None, filing'[g].at = "commit"
          PROVE  filing'[g].cat = None \/ filing'[g].cat \in Present(tree)
        BY <1>2, <1>3, <2>1 DEF TreeInductive, FilingsFit
    <2> QED
        BY <1>2, <2>1 DEF FilingsFit, Present
<1>5. \A s \in Serials : unit'[s] # None => unit'[s].cat = None \/ unit'[s].cat \in Present(tree)
    <2>1. CASE Commits(f)
        <3>1. filing[f].cat = None \/ filing[f].cat \in Present(tree)
            BY <2>1 DEF Commits, TreeInductive, FilingsFit
        <3> QED
            BY <2>1, <3>1, CommitFiles DEF TreeInductive, TreeIsSound
    <2>2. CASE ~Commits(f)
        BY <2>2 DEF ImportsRow, LooksForRow, CreateAsset, UpdateAsset, BulkAddAssets, Writes, Files,
                    TreeInductive, TreeIsSound
    <2> QED
        BY <2>1, <2>2
<1>6. EditsFit'
    BY <1>2 DEF TreeInductive, EditsFit, RowFits, Present, DepthOf, CheckMove, Chain
<1> QED
    BY <1>2, <1>4, <1>5, <1>6 DEF TreeInductive, TreeIsSound, Sound, Present

LEMMA TreeStays ==
    ASSUME TreeInductive, UNCHANGED catalogueVars
    PROVE  TreeInductive'
BY DEF catalogueVars, TreeInductive, TreeIsSound, Sound, EditsFit, RowFits, FilingsFit, Present,
       DepthOf, CheckMove, Chain

\* categories.go and categories_import.go: whatever edits, imports and deletions overlap, the
\* tree has no cycle, no branch deeper than the browse filter draws and no name twice, and a
\* filed unit's category is there.  Each edit's checks are of a snapshot, and hold when it
\* writes because the advisory lock keeps the tree from all others.
THEOREM TreeStaysSound == CatalogueSpec => []TreeIsSound
<1>1. TreeInductive /\ CatalogueInductive /\ [CatalogueNext]_catalogueVars => TreeInductive'
    BY EditFits, FilerFits, TreeStays DEF CatalogueNext
<1>2. CatalogueInit => TreeInductive
    BY TreeStarts
<1>3. TreeInductive => TreeIsSound
    BY DEF TreeInductive
<1> QED
    BY <1>1, <1>2, <1>3, CatalogueInvariant, PTL DEF CatalogueSpec

\* categories_import.go: a file that was imported can be imported again, from any tree that
\* edits lead to: every path is in the map of what is there, so nothing is made or refused.
THEOREM ImportsAgainMakeNothing == CatalogueSpec => []ImportIsIdempotent
<1>1. TreeIsSound => ImportIsIdempotent
    <2>1. SUFFICES ASSUME Sound(tree), NEW f \in CategoryFiles, Import(tree, f).verdict = "ok"
                   PROVE  /\ Import(Import(tree, f).tree, f).verdict = "ok"
                          /\ Import(Import(tree, f).tree, f).tree = Import(tree, f).tree
        BY DEF TreeIsSound, ImportIsIdempotent
    <2>2. Import(Import(tree, f).tree, f) = Start(Import(tree, f).tree)
        BY <2>1, FilesArePaths, ImportAgain
    <2> QED
        BY <2>2 DEF Start
<1> QED
    BY <1>1, TreeStaysSound, PTL

-----------------------------------------------------------------------------
(* The catalogue keeps its promise: Shelves.                                *)

\* In a sound tree the length of its branch is a category's level.
LEMMA SoundIsOrderly ==
    ASSUME NEW t, Sound(t)
    PROVE  Shelving!Orderly(t) /\ Shelving!There(t) = Present(t)
<1>1. t \in Trees /\ Trees = [Cats -> [name : Names, parent : Shelving!Shelf] \cup {None}]
    BY DEF Sound, Trees, Node, Shelving!Shelf
<1>2. Shelving!There(t) = Present(t)
    BY DEF Shelving!There, Present
<1> DEFINE level == [c \in Present(t) |-> Len(Chain(t, c))]
<1>3. level \in [Present(t) -> 1 .. MaxCategoryDepth]
    BY SoundChains
<1>4. ASSUME NEW c \in Present(t)
      PROVE  IF t[c].parent = None THEN level[c] = 1
             ELSE t[c].parent \in Present(t) /\ level[c] = level[t[c].parent] + 1
    <2> DEFINE s == Chain(t, c)
               p == t[c].parent
    <2>1. /\ Branch(t, c, s) /\ s \in Seq(Present(t)) /\ Len(s) \in Nat \ {0} /\ s[1] = c
          /\ p \in {None} \cup (Present(t) \ {c})
        BY SoundChains, CatalogueFits
    <2>2. /\ p # None => ParentIn(t, c) = p
          /\ p = None => ParentIn(t, c) = None
          /\ None \notin Present(t)
        BY <1>1, <2>1, ParentFits
    <2> HIDE DEF s
    <2>3. Len(s) > 1 => s[2] = ParentIn(t, c) /\ s[2] \in Present(t)
        <3>1. Len(s) > 1 => 1 \in 1 .. Len(s) - 1 /\ 2 \in 1 .. Len(s)
            BY <2>1
        <3>2. Len(s) > 1 => s[1 + 1] = ParentIn(t, s[1])
            BY <2>1, <3>1 DEF Branch, Walk
        <3> QED
            BY <2>1, <3>1, <3>2
    <2>4. CASE p = None
        <3>1. Len(s) = 1
            <4>1. PICK n \in Nat \ {0} : n = Len(s)
                BY <2>1
            <4>2. ~(n > 1)
                BY <2>2, <2>3, <2>4, <4>1
            <4> QED
                BY <4>1, <4>2
        <3> QED
            BY <2>4, <3>1 DEF s
    <2>5. CASE p # None
        <3>1. Len(s) > 1
            <4>1. PICK n \in Nat \ {0} : n = Len(s)
                BY <2>1
            <4>2. n # 1
                BY <2>1, <2>5, <4>1 DEF Branch
            <4> QED
                BY <4>1, <4>2
        <3>2. s[2] = p /\ 2 \in 1 .. Len(s)
            BY <2>1, <2>2, <2>3, <2>5, <3>1
        <3>3. Chain(t, p) = SubSeq(s, 2, Len(s))
            BY <1>1, <2>1, <3>2, BranchFrom
        <3>4. Len(SubSeq(s, 2, Len(s))) = Len(s) - 1
            BY <2>1, <3>2, Suffix
        <3>5. p \in Present(t) /\ level[p] = Len(s) - 1 /\ level[c] = Len(s)
            BY <2>1, <2>5, <3>3, <3>4 DEF s
        <3> QED
            BY <2>1, <2>5, <3>5
    <2> QED
        BY <2>4, <2>5
<1> HIDE DEF level
<1>5. Shelving!HasLevels(t)
    BY <1>2, <1>3, <1>4 DEF Shelving!HasLevels
<1>6. \A c, d \in Present(t) : t[c].name = t[d].name => c = d
    BY DEF Sound
<1> QED
    BY <1>1, <1>2, <1>5, <1>6 DEF Shelving!Orderly

\* A row written hangs one category, or the edit was refused.
LEMMA WritesRowHangs ==
    ASSUME CatalogueInductive, TreeInductive, NEW e \in Editors, WritesRow(e)
    PROVE  UNCHANGED <<tree, unit>> \/ \E c \in Cats : Shelving!Hang(c)
<1> DEFINE r == edit[e]
           c == r.id
           node == [name |-> r.name, parent |-> r.parent]
<1>1. tree' = tree \/ tree' = [tree EXCEPT ![c] = node]
    BY DEF WritesRow
<1>2. c \in Cats /\ node \in Node /\ UNCHANGED unit
    BY CatalogueFits DEF WritesRow, TreeInductive, EditsFit, RowFits, Node, Present
<1>3. TreeInductive'
    BY WritesRowKeeps
<1>4. Sound(tree')
    BY <1>3 DEF TreeInductive, TreeIsSound, Sound, Present
<1>5. Shelving!Orderly(tree')
    BY <1>4, SoundIsOrderly
<1>6. tree \in [Cats -> Node \cup {None}]
    BY DEF TreeInductive, TreeIsSound, Sound
<1> HIDE DEF c, node
<1>7. CASE tree' = [tree EXCEPT ![c] = node]
    <2>1. tree'[c] = node /\ node # None
        BY <1>2, <1>6, <1>7, CatalogueFits
    <2>2. tree' = [tree EXCEPT ![c] = tree'[c]] /\ tree'[c] # None
        BY <1>7, <2>1
    <2> QED
        BY <1>2, <1>5, <2>2 DEF Shelving!Hang
<1> QED
    BY <1>1, <1>2, <1>7

\* So does an import add to what is there.
LEMMA WritesImportExtends ==
    ASSUME CatalogueInductive, TreeInductive, NEW e \in Editors, WritesImport(e)
    PROVE  UNCHANGED <<tree, unit>> \/ Shelving!Extend
<1> DEFINE done == Import(tree, edit[e].of)
<1>1. /\ edit[e] # None /\ edit[e].op = "import" /\ UNCHANGED unit
      /\ tree' \in {done.tree, tree}
    BY DEF WritesImport
<1>2. Sound(tree) /\ FilePaths[edit[e].of] \in Seq(Seq(Names))
    BY <1>1, FilesArePaths DEF TreeInductive, TreeIsSound, EditsFit
<1>3. Sound(done.tree) /\ Keeps(tree, done.tree)
    BY <1>2, ImportKeeps DEF Good
<1> HIDE DEF done
<1>4. CASE tree' = done.tree
    <2>1. Sound(tree')
        BY <1>3, <1>4
    <2>2. /\ Shelving!Orderly(tree') /\ Shelving!There(tree') = Present(tree')
          /\ Shelving!There(tree) = Present(tree)
        BY <1>2, <2>1, SoundIsOrderly
    <2> QED
        BY <1>1, <1>3, <1>4, <2>2 DEF Keeps, Shelving!Extend
<1> QED
    BY <1>1, <1>4

\* What a deletion removes nothing is under, so that it takes no unit's category away.
LEMMA DeletesRemoves ==
    ASSUME CatalogueInductive, TreeInductive, NEW e \in Editors, Deletes(e)
    PROVE  UNCHANGED <<tree, unit>> \/ \E c \in Cats : Shelving!Remove(c)
<1> DEFINE c == edit[e].id
<1>1. /\ Deleting(e, "delete")
      /\ tree' = [d \in Cats |-> IF d = c \/ tree[d] = None THEN None
                                 ELSE IF tree[d].parent = c
                                      THEN [tree[d] EXCEPT !.parent = None] ELSE tree[d]]
      /\ unit' = [s \in Serials |-> IF unit[s] # None /\ unit[s].cat = c
                                    THEN [unit[s] EXCEPT !.cat = None] ELSE unit[s]]
    BY DEF Deletes
<1>2. c \in Cats /\ \A d \in Present(tree) : tree[d].parent # c
    BY <1>1 DEF Deleting, TreeInductive, EditsFit
<1>3. \A s \in Serials : unit[s] # None => unit[s].cat # c
    BY <1>1 DEF CatalogueInductive, DeletedIsBare
<1>4. /\ Sound(tree) /\ tree \in [Cats -> Node \cup {None}]
      /\ unit \in [Serials -> Unit \cup {None}]
    BY DEF TreeInductive, TreeIsSound, Sound, CatalogueInductive, FilingTyped
<1> HIDE DEF c
<1>5. tree' = [tree EXCEPT ![c] = None]
    BY <1>1, <1>2, <1>4 DEF Present
<1>6. unit' = unit
    BY <1>1, <1>3, <1>4
<1>7. Shelving!There(tree) = Present(tree)
    BY <1>4, SoundIsOrderly
<1>8. CASE c \in Present(tree)
    BY <1>2, <1>3, <1>5, <1>6, <1>7, <1>8 DEF Shelving!Remove
<1>9. CASE c \notin Present(tree)
    BY <1>2, <1>4, <1>5, <1>6, <1>9 DEF Present
<1> QED
    BY <1>8, <1>9

\* A commit files, of the units it was asked to, those that its statement wrote.
LEMMA CommitsFile ==
    ASSUME CatalogueInductive, TreeInductive, NEW f \in Filers, Commits(f)
    PROVE  \E S \in SUBSET Serials, c \in Shelving!Shelf : Shelving!File(S, c)
<1> DEFINE r == filing[f]
           S == {s \in r.serials : unit[s] = None \/ (~r.new /\ r.cat # None)}
<1>1. /\ r \in Filing /\ r.at = "commit" /\ UNCHANGED tree
      /\ unit \in [Serials -> Unit \cup {None}]
    BY CommitFiles DEF CatalogueInductive, FilingTyped
<1>2. r.cat = None \/ r.cat \in Present(tree)
    BY <1>1 DEF Commits, TreeInductive, FilingsFit
<1>3. r.serials \subseteq Serials /\ r.cat \in Shelving!Shelf
    BY <1>1 DEF Filing, Shelving!Shelf
<1>4. unit' = [s \in Serials |->
                 IF s \notin r.serials THEN unit[s]
                 ELSE IF unit[s] = None THEN [cat |-> r.cat]
                 ELSE IF r.new \/ r.cat = None THEN unit[s]
                 ELSE [unit[s] EXCEPT !.cat = r.cat]]
    BY DEF Commits
<1> HIDE DEF r
<1>5. \A u \in Unit : [u EXCEPT !.cat = r.cat] = [cat |-> r.cat]
    BY DEF Unit
<1>6. unit' = [s \in Serials |-> IF s \in S THEN [cat |-> r.cat] ELSE unit[s]]
    <2>1. \A s \in Serials : unit[s] # None => unit[s] \in Unit
        BY <1>1
    <2> QED
        BY <1>4, <1>5, <2>1
<1>7. r.cat = None => \A s \in S : unit[s] = None
    OBVIOUS
<1>8. Shelving!There(tree) = Present(tree)
    BY SoundIsOrderly DEF TreeInductive, TreeIsSound
<1>9. S \in SUBSET Serials
    BY <1>3
<1> HIDE DEF S
<1>10. Shelving!File(S, r.cat)
    BY <1>1, <1>2, <1>6, <1>7, <1>8 DEF Shelving!File
<1> QED
    BY <1>3, <1>9, <1>10

\* categories.go, categories_import.go, categories_admin.go and assets.go implement Shelves:
\* each edit of the tree, whatever snapshot it was decided against, happens at once when it is
\* written, and always to an orderly tree; an import adds its categories together and touches
\* none that was there; a deletion takes nothing from under anything, though the foreign keys
\* would; and a filing that waits for its commit still finds its category.
THEOREM CatalogueKeepsShelves == CatalogueSpec => EditsHappenAtOnce
<1>1. CatalogueInit => Shelving!ShelvesInit
    BY FirstTreesAreSound, SoundIsOrderly DEF CatalogueInit, Shelving!ShelvesInit
<1>2. ASSUME TreeInductive, CatalogueInductive, [CatalogueNext]_catalogueVars
      PROVE  [Shelving!ShelvesNext]_(Shelving!shelvesVars)
    <2>1. CASE UNCHANGED <<tree, unit>>
        BY <2>1 DEF Shelving!shelvesVars
    <2>2. ASSUME NEW e \in Editors, WritesRow(e) \/ WritesImport(e) \/ Deletes(e)
          PROVE  UNCHANGED <<tree, unit>> \/ Shelving!ShelvesNext
        BY <1>2, <2>2, WritesRowHangs, WritesImportExtends, DeletesRemoves DEF Shelving!ShelvesNext
    <2>3. ASSUME NEW f \in Filers, Commits(f) PROVE Shelving!ShelvesNext
        BY <1>2, <2>3, CommitsFile DEF Shelving!ShelvesNext
    <2>4. UNCHANGED <<tree, unit>> \/ Shelving!ShelvesNext
        <3>1. CASE CatalogueNext
            BY <2>2, <2>3, <3>1
               DEF CatalogueNext, CreateCategory, UpdateCategory, ImportCategories, DeleteCategory,
                   CountsUnder, Begins, ImportsRow, LooksForRow, CreateAsset, UpdateAsset,
                   BulkAddAssets, Writes, Files
        <3>2. CASE UNCHANGED catalogueVars
            BY <3>2 DEF catalogueVars
        <3> QED
            BY <1>2, <3>1, <3>2
    <2> QED
        BY <2>1, <2>4
<1>3. CatalogueSpec => []TreeInductive
    <2>1. TreeInductive /\ CatalogueInductive /\ [CatalogueNext]_catalogueVars => TreeInductive'
        BY EditFits, FilerFits, TreeStays DEF CatalogueNext
    <2>2. CatalogueInit => TreeInductive
        BY TreeStarts
    <2> QED
        BY <2>1, <2>2, CatalogueInvariant, PTL DEF CatalogueSpec
<1> QED
    BY <1>1, <1>2, <1>3, CatalogueInvariant, PTL
       DEF CatalogueSpec, EditsHappenAtOnce, Shelving!ShelvesSpec

=============================================================================
