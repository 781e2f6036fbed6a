------------------------------ MODULE Upgrade ------------------------------
(***************************************************************************)
(* A new binary brings its database up to its own schema before it serves: *)
(* premigrate.go, migrate.go, and serveWith of src/server/main.go.         *)
(*                                                                         *)
(* A start lists the migrations it will need, has pg_dump copy the         *)
(* database, then waits for the migration lock and applies what is still   *)
(* missing, a transaction each.  Starts may overlap (a restart and what it *)
(* replaces), fail, and be killed; what they copied stays on disk.         *)
(***************************************************************************)
EXTENDS Naturals, FiniteSets, FiniteSetsExt

CONSTANTS
    Servers,
    Binaries,       \* the sets of migrations, numbered in order, a binary carries
    FirstSchemas,   \* what the database records at first
    DumpModes,      \* PRE_MIGRATE_DUMP: "required" or "off"
    DumpKeep,       \* preMigrateKeep: ten in the code
    MaxUpgrades,    \* bound: starts
    MaxEntries      \* bound: changes to the data worth copying

VARIABLES
    applied,    \* the migrations the database records, and has the changes of
    entries,    \* how much the people of the school have entered
    server,     \* what each process is doing
    dumps,      \* the files in pre-migrate
    owed,       \* the migrations a copy is owed for, and what was entered before each
    copies,     \* when each copy was begun
    clock,      \* counts what the times of files are compared by
    bootsLeft

upgradeVars == <<applied, entries, server, dumps, owed, copies, clock, bootsLeft>>

ASSUME UpgradeFits ==
    /\ IsFiniteSet(Servers) /\ DumpKeep \in Nat
    /\ Binaries \cup FirstSchemas \subseteq SUBSET Nat

Down == [at |-> "down"]

UpgradeInit ==
    /\ applied \in FirstSchemas /\ entries = 0
    /\ server = [s \in Servers |-> Down]
    /\ dumps = {} /\ owed = {} /\ copies = {} /\ clock = 0 /\ bootsLeft = MaxUpgrades

\* checkNotNewer: a migration that is not ours, and no part of what a squash
\* folded into our first.
Newer(files) == \E v \in applied \ files : v >= Min(files)

Proceeds(s, st) == server' = [server EXCEPT ![s].at = st]
Dies(s) == server' = [server EXCEPT ![s] = Down]

-----------------------------------------------------------------------------
StartsServer(s) == \E files \in Binaries, mode \in DumpModes :
    /\ server[s] = Down /\ bootsLeft > 0 /\ bootsLeft' = bootsLeft - 1
    /\ server' = [server EXCEPT ![s] =
                    [at |-> "list", files |-> files, mode |-> mode, copy |-> 0,
                     fresh |-> FALSE, missed |-> FALSE]]
    /\ UNCHANGED <<applied, entries, dumps, owed, copies, clock>>

\* Bug: no second copy for the same upgrade, whatever became of the first.
NeedsCopy_Once(s) ==
    /\ server[s].mode = "required" /\ server[s].files \ applied # {}
    /\ \A f \in dumps : f.applied # applied

NeedsCopy(s) == server[s].mode = "required" /\ server[s].files \ applied # {}

\* PendingMigrations, with no lock.
ListsPending(s) ==
    /\ server[s].at = "list"
    /\ IF Newer(server[s].files) THEN Dies(s)
       ELSE Proceeds(s, IF NeedsCopy(s) THEN "data" ELSE "lock")
    /\ UNCHANGED <<applied, entries, dumps, owed, copies, clock, bootsLeft>>

\* The first migration makes profiles: without it there is nothing to copy.
LooksForData(s) ==
    /\ server[s].at = "data"
    /\ server' = [server EXCEPT ![s].at = IF applied = {} THEN "lock" ELSE "begin",
                                ![s].fresh = (applied = {})]
    /\ UNCHANGED <<applied, entries, dumps, owed, copies, clock, bootsLeft>>

Ticks == clock' = clock + 1

\* pg_dump copies what is committed when it begins.
BeginsDump(s) ==
    /\ server[s].at = "begin" /\ Ticks /\ copies' = copies \cup {clock'}
    /\ dumps' = dumps \cup {[begun |-> clock', modified |-> clock', applied |-> applied,
                             entries |-> entries, by |-> s, is |-> "writing"]}
    /\ server' = [server EXCEPT ![s].at = "dump", ![s].copy = clock']
    /\ UNCHANGED <<applied, entries, owed, bootsLeft>>

Writing(file) == file.is = "writing"
WrittenBy(s) == {f \in dumps : f.by = s /\ Writing(f)}
Left(files, as) == {[f EXCEPT !.is = as, !.modified = clock'] : f \in files}

\* What is being written was modified last.
ModifiedAfter(g, f) ==
    \/ Writing(g) /\ ~Writing(f)
    \/ (Writing(g) <=> Writing(f)) /\ g.modified > f.modified

PruneDumps(files) ==
    {f \in files : Cardinality({g \in files : ModifiedAfter(g, f)}) < DumpKeep}

EndsDump(s) ==
    /\ server[s].at = "dump" /\ Ticks /\ Proceeds(s, "lock")
    /\ dumps' = PruneDumps((dumps \ WrittenBy(s)) \cup Left(WrittenBy(s), "whole"))
    /\ UNCHANGED <<applied, entries, owed, copies, bootsLeft>>

\* No folder, no pg_dump, no room: the file is removed and no migration runs.
FailsDump(s) ==
    /\ server[s].at \in {"begin", "dump"} /\ Dies(s)
    /\ dumps' = dumps \ WrittenBy(s)
    /\ UNCHANGED <<applied, entries, owed, copies, clock, bootsLeft>>

\* The advisory lock is waited for; what is applied is read again under it.
TakesMigrateLock(s) ==
    /\ server[s].at = "lock" /\ \A o \in Servers : server[o].at # "migrate"
    /\ IF Newer(server[s].files) THEN Dies(s) ELSE Proceeds(s, "migrate")
    /\ UNCHANGED <<applied, entries, dumps, owed, copies, clock, bootsLeft>>

\* One file, its changes and its record in one transaction.
AppliesMigration(s) ==
    /\ server[s].at = "migrate" /\ server[s].files \ applied # {}
    /\ LET v == Min(server[s].files \ applied) IN
       /\ applied' = applied \cup {v}
       /\ owed' = IF server[s].mode = "required" /\ ~server[s].fresh
                  THEN owed \cup {[version |-> v, entries |-> entries,
                                   missed |-> server[s].missed, copy |-> server[s].copy]}
                  ELSE owed
    /\ UNCHANGED <<entries, server, dumps, copies, clock, bootsLeft>>

\* A migration that fails is rolled back, and the start with it.
FailsMigration(s) ==
    /\ server[s].at = "migrate" /\ server[s].files \ applied # {} /\ Dies(s)
    /\ UNCHANGED <<applied, entries, dumps, owed, copies, clock, bootsLeft>>

BeginsServing(s) ==
    /\ server[s].at = "migrate" /\ server[s].files \subseteq applied
    /\ Proceeds(s, "serve")
    /\ UNCHANGED <<applied, entries, dumps, owed, copies, clock, bootsLeft>>

\* Whoever else is starting has this only if it has not begun its copy.
DataIsEntered(s) ==
    /\ server[s].at = "serve" /\ entries < MaxEntries /\ entries' = entries + 1
    /\ server' = [o \in Servers |-> IF server[o].at \in {"dump", "lock", "migrate"}
                                    THEN [server[o] EXCEPT !.missed = TRUE] ELSE server[o]]
    /\ UNCHANGED <<applied, dumps, owed, copies, clock, bootsLeft>>

\* Killed, or shut down: a copy it was writing stays as it is.
Halts(s) ==
    /\ server[s] # Down /\ Dies(s)
    /\ IF WrittenBy(s) = {} THEN UNCHANGED clock ELSE Ticks
    /\ dumps' = (dumps \ WrittenBy(s)) \cup Left(WrittenBy(s), "partial")
    /\ UNCHANGED <<applied, entries, owed, copies, bootsLeft>>

UpgradeNext == \E s \in Servers :
    \/ StartsServer(s) \/ ListsPending(s) \/ LooksForData(s)
    \/ BeginsDump(s) \/ EndsDump(s) \/ FailsDump(s)
    \/ TakesMigrateLock(s) \/ AppliesMigration(s) \/ FailsMigration(s)
    \/ BeginsServing(s) \/ DataIsEntered(s) \/ Halts(s)

UpgradeSpec == UpgradeInit /\ [][UpgradeNext]_upgradeVars

-----------------------------------------------------------------------------
\* Later copies, and those that were being made with it, leave it a place.
HasRoom(copy) == Cardinality({c \in copies : c > copy}) + Cardinality(Servers) <= DumpKeep

\* docs/INSTALL.md: "an upgrade never changes the schema without a copy".  However
\* starts overlap, fail or are killed, a migration has a whole copy from before it,
\* with everything entered until then but what another server took meanwhile, until
\* later copies leave no room for it.  A start that found nothing to copy owes none.
UpgradeCanBeUndone ==
    \A m \in owed : HasRoom(m.copy) =>
        \E f \in dumps :
            /\ f.is = "whole" /\ m.version \notin f.applied
            /\ f.entries = m.entries \/ m.missed
=============================================================================
