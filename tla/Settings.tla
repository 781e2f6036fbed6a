------------------------------- MODULE Settings -------------------------------
(***************************************************************************)
(* The settings row, the saves that change part of it, what the process    *)
(* keeps of it, and the values .env gives a database that has none yet.    *)
(*                                                                         *)
(* A save is a transaction that locks the row, and then the two steps that *)
(* make the process agree.  Of its fields there are four: a folder, which  *)
(* may be cleared and is seeded from .env; the photo wall's folder, seeded *)
(* apart; the rule for student numbers; the idle minutes, 0 for .env's.    *)
(***************************************************************************)
EXTENDS Naturals, FiniteSets, Absent

CONSTANTS
    Dirs, Rules, Idles, \* values of the fields; Dirs serves both folders
    Seeds,              \* what .env may hold: a folder and the wall's
    Numbers, Fits,      \* student numbers, and those each rule takes
    Savers,             \* requests in flight at once
    MaxSaves, MaxBoots  \* bounds: requests made, starts of the process

ASSUME FitsFit ==
    /\ Rules # {}
    /\ Fits \in [Rules -> SUBSET Numbers]
    /\ Seeds \subseteq [dir : Dirs \cup {None}, wall : Dirs \cup {None}]

VARIABLES
    row,          \* app_settings
    seeded,       \* the markers: of the folder, of the wall's folder
    env,          \* .env at the last start: a folder and the wall's
    rule, idle,   \* studentNumberRule, Sessions' idle; None before they are set
    boot,         \* what the start has to do next
    save,         \* each request in flight
    numbers,      \* the accounts' student numbers
    chosen,       \* of each field, {what an admin saved last}, or {}
    crossed,      \* two requests overlapped
    gaveUp,       \* where starts gave up on the row and served without it
    saves, boots

settingsVars == <<row, seeded, env, rule, idle, boot, save, numbers, chosen,
                  crossed, gaveUp, saves, boots>>

Fields == {"dir", "wall", "rule", "idle"}
Field == [dir |-> Dirs \cup {None}, wall |-> Dirs, rule |-> Rules, idle |-> Idles]
Busy == {s \in Savers : save[s] # None}

Row == [dir : Dirs \cup {None}, wall : Dirs \cup {None}, rule : Rules, idle : {0} \cup Idles]
IsRequest(j) ==
    \/ \E f \in Fields : j \in [at : {"lock"}, field : {f}, to : Field[f]]
    \/ j \in [at : {"commit", "rule", "idle"}, field : Fields, next : Row]
    \/ j \in [at : {"insert"}, field : {"number"}, number : Numbers]

ASSUME NoneIsNoRequest == ~IsRequest(None)

SettingsTypeOK ==
    /\ row \in Row /\ seeded \subseteq {"dir", "wall"} /\ env \in Seeds
    /\ rule \in Rules /\ idle \in {0} \cup Idles
    /\ boot \in {"seed", "wall", "load", "up"}
    /\ save = [s \in Savers |-> save[s]]
    /\ \A s \in Savers : save[s] = None \/ IsRequest(save[s])
    /\ numbers \subseteq Numbers
    /\ chosen = [f \in Fields |-> chosen[f]] /\ \A f \in Fields : chosen[f] \subseteq {r[f] : r \in Row}
    /\ crossed \in BOOLEAN /\ gaveUp \subseteq {"seed", "wall", "load"}
    /\ saves \in Nat /\ boots \in Nat

SettingsInit ==
    /\ rule = CHOOSE r \in Rules : TRUE
    /\ row = [dir |-> None, wall |-> None, rule |-> rule, idle |-> 0]
    /\ seeded = {} /\ env \in Seeds
    /\ idle = 0 /\ boot = "seed"
    /\ save = [s \in Savers |-> None]
    /\ numbers = {}
    /\ chosen = [f \in Fields |-> {}]
    /\ crossed = FALSE /\ gaveUp = {}
    /\ saves = 0 /\ boots = 1

-----------------------------------------------------------------------------
(* A start of the process.                                                  *)

\* Bug: a value is seeded wherever there is none.
Seeded_Never(f) == FALSE

Seeded(f) == f \in seeded

\* One UPDATE: the values .env has where the row has none, and the marker.
Seed(f, next) ==
    /\ row' = IF Seeded(f) \/ row[f] # None THEN row ELSE [row EXCEPT ![f] = env[f]]
    /\ seeded' = seeded \cup {f}
    /\ boot' = next
    /\ UNCHANGED <<gaveUp, env, rule, idle, save, numbers, chosen, crossed, saves, boots>>

SeedDirs == boot = "seed" /\ Seed("dir", "wall")
SeedWall == boot = "wall" /\ Seed("wall", "load")

\* The last read of EnsureSettings; main installs the rule.
LoadsSettings ==
    /\ boot = "load"
    /\ rule' = row.rule /\ idle' = row.idle
    /\ boot' = "up"
    /\ UNCHANGED <<gaveUp, row, seeded, env, save, numbers, chosen, crossed, saves, boots>>

\* A start that cannot reach the database logs it and serves all the same.
GivesUpSettings ==
    /\ boot # "up" /\ boot' = "up" /\ gaveUp' = gaveUp \cup {boot}
    /\ UNCHANGED <<row, seeded, env, rule, idle, save, numbers, chosen, crossed, saves, boots>>

\* The process dies at any point, and starts with what .env holds by then.
Restarts ==
    /\ boots < MaxBoots /\ boots' = boots + 1
    /\ env' \in Seeds
    /\ rule' = CHOOSE r \in Rules : TRUE
    /\ idle' = 0 /\ boot' = "seed"
    /\ save' = [s \in Savers |-> None]
    /\ UNCHANGED <<gaveUp, row, seeded, numbers, chosen, crossed, saves>>

-----------------------------------------------------------------------------
(* Saves.                                                                   *)

Enters(s, request) ==
    /\ boot = "up" /\ save[s] = None /\ saves < MaxSaves
    /\ saves' = saves + 1
    /\ save' = [save EXCEPT ![s] = request]
    /\ crossed' = (crossed \/ Busy # {})
    /\ UNCHANGED <<gaveUp, row, seeded, env, rule, idle, boot, numbers, chosen, boots>>

Asks(s) == \E f \in Fields : \E v \in Field[f] :
    Enters(s, [at |-> "lock", field |-> f, to |-> v])

RowFree == \A s \in Busy : save[s].at # "commit"

\* lockSettings; the merge and, when the rule changes, accountsRefusedBy.
LocksRow(s) ==
    /\ save[s] # None /\ save[s].at = "lock" /\ RowFree
    /\ LET next == [row EXCEPT ![save[s].field] = save[s].to]
           refused == next.rule # row.rule /\ ~(numbers \subseteq Fits[next.rule])
       IN  save' = [save EXCEPT ![s] = IF refused THEN None ELSE
                      [at |-> "commit", field |-> save[s].field, next |-> next]]
    /\ UNCHANGED <<gaveUp, row, seeded, env, rule, idle, boot, numbers, chosen, crossed,
                   saves, boots>>

\* Every column but the wall's is written, merged or not.
Merged(next) == [next EXCEPT !.wall = row.wall]
Ends(s) == save' = [save EXCEPT ![s] = None]

CommitsSave(s) ==
    /\ save[s] # None /\ save[s].at = "commit" /\ save[s].field # "wall"
    /\ row' = Merged(save[s].next)
    /\ chosen' = [chosen EXCEPT ![save[s].field] = {save[s].next[save[s].field]}]
    /\ save' = [save EXCEPT ![s].at = "rule"]
    /\ UNCHANGED <<gaveUp, seeded, env, rule, idle, boot, numbers, crossed, saves, boots>>

\* savePhotoWallFolder updates its own columns, in its own transaction.
CommitsWall(s) ==
    /\ save[s] # None /\ save[s].at = "commit" /\ save[s].field = "wall"
    /\ row' = [row EXCEPT !.wall = save[s].next.wall]
    /\ chosen' = [chosen EXCEPT !.wall = {save[s].next.wall}]
    /\ Ends(s)
    /\ UNCHANGED <<gaveUp, seeded, env, rule, idle, boot, numbers, crossed, saves, boots>>

\* A refusal further on, or a commit that fails.
FailsSave(s) ==
    /\ save[s] # None /\ save[s].at = "commit" /\ Ends(s)
    /\ UNCHANGED <<gaveUp, row, seeded, env, rule, idle, boot, numbers, chosen, crossed,
                   saves, boots>>

\* Bug: the rule is installed when the save began.
Installs_Early(s) == save[s].at \in {"commit", "rule"}

Installs(s) == save[s].at = "rule"

SetStudentNumberFormat(s) ==
    /\ save[s] # None /\ save[s].at \in {"commit", "rule"} /\ Installs(s)
    /\ rule' = save[s].next.rule
    /\ save' = IF save[s].at = "rule" THEN [save EXCEPT ![s].at = "idle"] ELSE save
    /\ UNCHANGED <<gaveUp, row, seeded, env, idle, boot, numbers, chosen, crossed, saves, boots>>

ApplySessionIdle(s) ==
    /\ save[s] # None /\ save[s].at = "idle" /\ Ends(s)
    /\ idle' = save[s].next.idle
    /\ UNCHANGED <<gaveUp, row, seeded, env, rule, boot, numbers, chosen, crossed, saves, boots>>

\* An account's number is held to the rule in the process, then written.
ChecksNumber(s) == \E n \in Fits[rule] \ numbers :
    Enters(s, [at |-> "insert", field |-> "number", number |-> n])

InsertsNumber(s) ==
    /\ save[s] # None /\ save[s].at = "insert" /\ Ends(s)
    /\ numbers' = numbers \cup {save[s].number}
    /\ UNCHANGED <<gaveUp, row, seeded, env, rule, idle, boot, chosen, crossed, saves, boots>>

SettingsNext ==
    \/ SeedDirs \/ SeedWall \/ LoadsSettings \/ GivesUpSettings \/ Restarts
    \/ \E s \in Savers :
         \/ Asks(s) \/ LocksRow(s) \/ CommitsSave(s) \/ CommitsWall(s) \/ FailsSave(s)
         \/ SetStudentNumberFormat(s) \/ ApplySessionIdle(s)
         \/ ChecksNumber(s) \/ InsertsNumber(s)

SettingsSpec == SettingsInit /\ [][SettingsNext]_settingsVars

-----------------------------------------------------------------------------
\* Unless a start gave up before .env was read once, what an admin saved or
\* cleared stays until an admin saves that field again: a save of another card
\* does not put back what it read, nor a start the value in .env, wherever a start
\* was cut short.
SavesStand ==
    gaveUp \subseteq {"load"} => \A f \in Fields : chosen[f] \subseteq {row[f]}

\* Unless requests overlapped or a start gave up on the row, the process and the
\* row agree about who may sign in and for how long once it is up and no save is
\* half done, whatever failed or died; and the rule refuses no account there is.
RuleInForceIsSaved ==
    ~crossed /\ gaveUp = {} =>
        /\ numbers \subseteq Fits[row.rule]
        /\ boot = "up" /\ Busy = {} => rule = row.rule /\ idle = row.idle
=============================================================================
