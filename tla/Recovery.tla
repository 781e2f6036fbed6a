------------------------------ MODULE Recovery ------------------------------
(***************************************************************************)
(* Backups, exports and restores against a database in use:                *)
(* internal/stockroom/backup.go, export.go and restore.go.                 *)
(*                                                                         *)
(* Two tables stand for all of them.  assets is replaced by a restore, and *)
(* draws its tags from a sequence, which no transaction protects.  The     *)
(* activity log is replaced too, but what the archive lacks is set aside   *)
(* and put back.  A step is one statement with its table lock: inserts and *)
(* copies share a table, a restore has it alone.                           *)
(*                                                                         *)
(* TRUNCATE is not a change a snapshot protects from: a transaction whose  *)
(* snapshot is older than the commit of a truncation reads an empty table. *)
(***************************************************************************)
EXTENDS Naturals, FiniteSets, Absent

CONSTANTS
    Requests,   \* handlers, and the scheduler's goroutine
    Calls,      \* the operations an instance exercises
    MaxTag,     \* bound: tags the sequence hands out
    MaxLog,     \* bound: rows of the activity log
    MaxKept     \* bound: archives there may be

Ops == {"create", "backup", "export", "restore"}

ASSUME RecoveryFits ==
    /\ Calls \subseteq Ops
    /\ MaxTag \in Nat /\ MaxLog \in Nat /\ MaxKept \in Nat

VARIABLES
    tags,       \* assets: the numbers of the asset tags, as committed
    log,        \* activity_log: its rows, as committed
    sequence,   \* assets_asset_tag_seq: the last number handed out
    archives,   \* the zips there are, on disk, off site or downloaded
    job         \* each request's local variables and program counter

recoveryVars == <<tags, log, sequence, archives, job>>

Tag == 1..MaxTag
Entry == 1..MaxLog

\* What the tables hold, and an archive: by a backup or an export, with a mark
\* that it holds what its snapshot saw.
Tables == [tags : SUBSET Tag, log : SUBSET Entry]
Archive == [by : {"backup", "export"}, tags : SUBSET Tag, log : SUBSET Entry,
            sequence : 0..MaxTag, whole : BOOLEAN]

ASSUME NoneIsNoArchive == None \notin Archive

NoTables == [tags |-> {}, log |-> {}]

Job == [pc : {"idle", "unique", "row", "snapshot", "copyLog", "copyAssets",
              "sequences", "record", "before", "lockLog", "aside", "truncate",
              "setval", "commit", "compensate"},
        op : Ops \cup {"none"},
        tag : Tag \cup {None},
        locked : BOOLEAN,               \* holds the backup lock
        saw : Tables,                   \* what its snapshot sees
        cut : BOOLEAN,                  \* a truncation committed after its snapshot
        copied : Tables,
        archive : Archive \cup {None},  \* made, or being restored
        before : 0..MaxTag,             \* the sequence as it stood
        kept : SUBSET Entry]            \* keep_activity_log

Idle == [pc |-> "idle", op |-> "none", tag |-> None, locked |-> FALSE, saw |-> NoTables,
         cut |-> FALSE, copied |-> NoTables, archive |-> None, before |-> 0, kept |-> {}]

RecoveryTypeOK ==
    /\ tags \subseteq Tag /\ log \subseteq Entry /\ sequence \in 0..MaxTag
    /\ archives \subseteq Archive
    /\ job \in [Requests -> Job]

RecoveryInit ==
    /\ tags = {} /\ log = {} /\ sequence = 0 /\ archives = {}
    /\ job = [r \in Requests |-> Idle]

-----------------------------------------------------------------------------
At(pc) == {r \in Requests : job[r].pc = pc}

Becomes(r, j) == job' = [job EXCEPT ![r] = j]
Go(r, pc) == Becomes(r, [job[r] EXCEPT !.pc = pc])
Answer(r) == Becomes(r, Idle)

Others(r, pcs) == {q \in Requests \ {r} : job[q].pc \in pcs}

\* Bug: the log is copied without locking it.
LogClosed_Unlocked(r) == Others(r, {"setval", "commit"}) # {}

\* Who else keeps a table to itself: the log from its lock on, every table from
\* the truncation on.
LogClosed(r) == Others(r, {"aside", "truncate", "setval", "commit"}) # {}
AssetsClosed(r) == Others(r, {"setval", "commit"}) # {}

\* Who else has read or written a table in a transaction still open.
LogUsed(r) == Others(r, {"copyAssets", "sequences"}) # {}
AssetsUsed(r) == Others(r, {"unique", "row", "sequences"}) # {}

\* A row id is a new uuid.
Seen == log \cup (UNION {a.log : a \in archives}) \cup UNION {job[r].kept : r \in Requests}
            \cup UNION {job[r].copied.log : r \in Requests}
            \cup UNION {job[r].saw.log : r \in Requests}
IsNew(e) == e \notin Seen /\ \A f \in Entry \ Seen : e <= f

-----------------------------------------------------------------------------
(* Daily use: an asset is created with the next tag.                        *)

\* A request begins with its first statement.
Asked(r, op) == op \in Calls /\ job[r].pc = "idle"

\* The insert draws a number; that is never taken back.
InsertAsset(r) ==
    /\ Asked(r, "create") /\ ~AssetsClosed(r) /\ sequence < MaxTag
    /\ sequence' = sequence + 1
    /\ Becomes(r, [Idle EXCEPT !.op = "create", !.pc = "unique", !.tag = sequence + 1])
    /\ UNCHANGED <<tags, log, archives>>

\* The unique index waits for another insert of the same tag.
UniqueTag(r) ==
    /\ job[r].pc = "unique"
    /\ \A q \in Others(r, {"row"}) : job[q].tag # job[r].tag
    /\ IF job[r].tag \in tags THEN Answer(r) ELSE Go(r, "row")
    /\ UNCHANGED <<tags, log, sequence, archives>>

\* The log row and the commit.
LogAsset(r) ==
    /\ job[r].pc = "row" /\ ~LogClosed(r)
    /\ tags' = tags \cup {job[r].tag}
    /\ \E e \in Entry : IsNew(e) /\ log' = log \cup {e}
    /\ Answer(r)
    /\ UNCHANGED <<sequence, archives>>

-----------------------------------------------------------------------------
(* Backups and exports.                                                     *)

\* Bug: a run goes on without the lock.
TakesLock_Anyway == TRUE

\* acquireBackupLock: a backup that finds it taken is skipped, a restore refused.
TakesLock == \A q \in Requests : ~job[q].locked

\* The lock can also fail with an error, and that is a failed run.
BeginBackup(r) ==
    /\ Asked(r, "backup") /\ Cardinality(archives) < MaxKept
    /\ \/ TakesLock /\ Becomes(r, [Idle EXCEPT !.op = "backup", !.locked = TRUE, !.pc = "snapshot"])
       \/ Becomes(r, [Idle EXCEPT !.op = "backup", !.pc = "record"])
    /\ UNCHANGED <<tags, log, sequence, archives>>

ExportEverything(r) ==
    /\ Asked(r, "export") /\ Cardinality(archives) < MaxKept
    /\ Becomes(r, [Idle EXCEPT !.op = "export", !.pc = "snapshot"])
    /\ UNCHANGED <<tags, log, sequence, archives>>

\* The first statement of the read-only transaction; it reads the catalogue.
Snapshot(r) ==
    /\ job[r].pc = "snapshot"
    /\ Becomes(r, [job[r] EXCEPT !.pc = "copyLog", !.saw = [tags |-> tags, log |-> log]])
    /\ UNCHANGED <<tags, log, sequence, archives>>

CopyLog(r) ==
    /\ job[r].pc = "copyLog" /\ ~LogClosed(r)
    /\ Becomes(r, [job[r] EXCEPT !.pc = "copyAssets",
                                 !.copied.log = IF job[r].cut THEN {} ELSE job[r].saw.log])
    /\ UNCHANGED <<tags, log, sequence, archives>>

CopyAssets(r) ==
    /\ job[r].pc = "copyAssets" /\ ~AssetsClosed(r)
    /\ Becomes(r, [job[r] EXCEPT !.pc = "sequences",
                                 !.copied.tags = IF job[r].cut THEN {} ELSE job[r].saw.tags])
    /\ UNCHANGED <<tags, log, sequence, archives>>

\* readSequences, the manifest, and the end of the transaction.  A backup moves
\* its folder into place (replaceBackupDir) and gives its lock back.
ReadSequences(r) ==
    LET a == [by |-> job[r].op, tags |-> job[r].copied.tags, log |-> job[r].copied.log,
              sequence |-> sequence, whole |-> job[r].copied = job[r].saw] IN
    /\ job[r].pc = "sequences"
    /\ Becomes(r, [Idle EXCEPT !.op = job[r].op, !.pc = "record", !.archive = a])
    /\ archives' = IF job[r].op = "backup" THEN archives \cup {a} ELSE archives
    /\ UNCHANGED <<tags, log, sequence>>

\* Every run is in the log, a failed one too.  An export is handed over once its
\* row is written.
Record(r) ==
    /\ job[r].pc = "record" /\ ~LogClosed(r)
    /\ \E e \in Entry : IsNew(e) /\ log' = log \cup {e}
    /\ archives' = archives \cup ({job[r].archive} \ {None})
    /\ Answer(r)
    /\ UNCHANGED <<tags, sequence>>

-----------------------------------------------------------------------------
(* Restoring.                                                               *)

BeginRestore(r, a) ==
    /\ Asked(r, "restore") /\ a \in archives /\ TakesLock
    /\ Becomes(r, [Idle EXCEPT !.op = "restore", !.locked = TRUE, !.pc = "before", !.archive = a])
    /\ UNCHANGED <<tags, log, sequence, archives>>

\* Every sequence as it stands, in case the commit fails.
ReadBefore(r) ==
    /\ job[r].pc = "before"
    /\ Becomes(r, [job[r] EXCEPT !.pc = "lockLog", !.before = sequence])
    /\ UNCHANGED <<tags, log, sequence, archives>>

LockLog(r) ==
    /\ job[r].pc = "lockLog" /\ ~LogClosed(r) /\ ~LogUsed(r)
    /\ Go(r, "aside")
    /\ UNCHANGED <<tags, log, sequence, archives>>

SetAside(r) ==
    /\ job[r].pc = "aside"
    /\ Becomes(r, [job[r] EXCEPT !.pc = "truncate", !.kept = log])
    /\ UNCHANGED <<tags, log, sequence, archives>>

\* Bug: the archive's sequence is taken at its word.
CheckSequences_Trusted(a) == TRUE

\* The next value must be free in the restored table.
CheckSequences(a) == \A t \in a.tags : t < a.sequence + 1

\* The truncation, the load and the checks.
Load(r) ==
    /\ job[r].pc = "truncate" /\ ~LogUsed(r) /\ ~AssetsUsed(r)
    /\ IF CheckSequences(job[r].archive) THEN Go(r, "setval") ELSE Answer(r)
    /\ UNCHANGED <<tags, log, sequence, archives>>

\* applySequences: seen by everyone at once.
ApplySequences(r) ==
    /\ job[r].pc = "setval"
    /\ sequence' = job[r].archive.sequence
    /\ Go(r, "commit")
    /\ UNCHANGED <<tags, log, archives>>

\* An error instead of an answer, before or after the value was set.
ApplyFails(r) ==
    /\ job[r].pc = "setval"
    /\ sequence' \in {sequence, job[r].archive.sequence}
    /\ Answer(r)
    /\ UNCHANGED <<tags, log, archives>>

\* The log after a restore: the archive's rows and those set aside.
Restored(j) == j.archive.log \cup j.kept

\* A truncation commits: whoever has an older snapshot finds nothing.
CommitRestore(r) ==
    /\ job[r].pc = "commit"
    /\ tags' = job[r].archive.tags
    /\ \E e \in Entry : IsNew(e) /\ log' = Restored(job[r]) \cup {e}
    /\ job' = [q \in Requests |->
                 IF q = r THEN Idle
                 ELSE [job[q] EXCEPT !.cut = @ \/ job[q].pc \in {"copyLog", "copyAssets"}]]
    /\ UNCHANGED <<sequence, archives>>

CommitFails(r) ==
    /\ job[r].pc = "commit"
    /\ Go(r, "compensate")
    /\ UNCHANGED <<tags, log, sequence, archives>>

\* compensateSequences; its own failure is reported, and nothing more.
Compensate(r) ==
    /\ job[r].pc = "compensate"
    /\ sequence' \in {sequence, job[r].before}
    /\ Answer(r)
    /\ UNCHANGED <<tags, log, archives>>

-----------------------------------------------------------------------------
\* A statement fails, is cancelled, or is the victim of a deadlock, before its
\* transaction commits.  A backup that fails is recorded.
Abandon(r) ==
    /\ job[r].pc \notin {"idle", "setval", "commit", "compensate"}
    /\ IF job[r].op = "backup" /\ job[r].pc # "record"
       THEN Becomes(r, [Idle EXCEPT !.op = "backup", !.pc = "record"])
       ELSE Answer(r)
    /\ UNCHANGED <<tags, log, sequence, archives>>

\* The server dies: its transactions roll back, its locks go with its
\* connections, and what setval has set stays.
Restart ==
    /\ job' = [r \in Requests |-> Idle]
    /\ UNCHANGED <<tags, log, sequence, archives>>

Steps(r) ==
    \/ UniqueTag(r) \/ LogAsset(r)
    \/ Snapshot(r) \/ CopyLog(r) \/ CopyAssets(r) \/ ReadSequences(r)
    \/ Record(r)
    \/ ReadBefore(r) \/ LockLog(r) \/ SetAside(r) \/ Load(r) \/ ApplySequences(r) \/ ApplyFails(r)
    \/ CommitRestore(r) \/ CommitFails(r) \/ Compensate(r)
    \/ Abandon(r)

RecoveryNext ==
    \/ \E r \in Requests :
          \/ InsertAsset(r) \/ BeginBackup(r) \/ ExportEverything(r)
          \/ \E a \in archives : BeginRestore(r, a)
          \/ Steps(r)
    \/ Restart

RecoverySpec == RecoveryInit /\ [][RecoveryNext]_recoveryVars

-----------------------------------------------------------------------------
(* What must hold.                                                          *)

\* A backup holds the database of one instant, whatever is restored meanwhile.
BackupsAreWhole == \A a \in archives : a.by = "backup" => a.whole

\* export.go:71: a snapshot "is one consistent read of the whole database".
ArchivesAreWhole == \A a \in archives : a.whole

\* ADR 0003: nothing removes a row of the activity log, a restore of an older
\* backup included.
LogNeverShrinks == [][log \subseteq log']_recoveryVars

\* A restore about to commit leaves a sequence ahead of every tag it restores,
\* whatever other restores, compensations and inserts did to the sequence.
RestoredTagsAreFree ==
    \A r \in At("commit") : \A t \in job[r].archive.tags : t <= sequence

\* restore.go:256: every sequence is read "so a failed commit can put them back".
\* Putting it back leaves the next tag free.
PutBackIsFree ==
    [][\A r \in At("compensate") :
          sequence' = job[r].before /\ job'[r].pc = "idle" => \A t \in tags : t <= sequence']_recoveryVars
=============================================================================
