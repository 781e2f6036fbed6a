------------------------------ MODULE Nightly ------------------------------
(***************************************************************************)
(* The nightly backup: internal/stockroom/scheduler.go, backup.go,         *)
(* backup_status.go, target.go, target_drive.go and target_github.go.      *)
(*                                                                         *)
(* A run copies the database into a dated folder, prunes old folders,      *)
(* pushes to the off-site targets and records what came of it.  The clock  *)
(* counts hours.  Runs are numbered; a copy of a backup is the number of   *)
(* the run that made it, and 0 is no backup.  How one run copies the       *)
(* tables, and how a backup is restored, is module Recovery.               *)
(***************************************************************************)
EXTENDS Naturals, Sequences, Absent

CONSTANTS
    HoursPerDay, ScheduleHour, StaleHours, KeepDays,
    Enabled,        \* the off-site targets that are switched on
    PerPage,        \* githubMaxCommits
    RunHours,       \* bound: the hours a run may last
    LastHour,       \* bound: the clock
    MaxManual,      \* bound: backups asked for by hand
    MaxFaults       \* bound: what fails, and deaths of the server

ASSUME NightlyFits ==
    /\ {HoursPerDay, StaleHours, KeepDays, PerPage} \subseteq Nat \ {0}
    /\ ScheduleHour \in 0..(HoursPerDay - 1)
    /\ Enabled \subseteq {"drive", "github"}
    /\ {RunHours, LastHour, MaxManual, MaxFaults} \subseteq Nat

VARIABLES
    now,
    begun,      \* the hour each run began, by its number
    scheduler,  \* the goroutine, and the last day it fired
    run,        \* the run that holds the backup lock, or None
    local,      \* the dated folders, by day
    drive,      \* the folders on Google Drive, by day
    hub,        \* the commits that can be reached from the branch, oldest first
    state,      \* .last-success.json
    cleared,    \* a folder was cleared for a run that has not filled it
    manual, faults

nightlyVars == <<now, begun, scheduler, run, local, drive, hub, state, cleared, manual, faults>>
clock == <<now, begun, manual>>
folders == <<local, cleared>>

Targets == {"local"} \cup Enabled
DayOf(hour) == hour \div HoursPerDay
Days == 0..DayOf(LastHour)
Runs == 1..Len(begun)
RunDay(r) == DayOf(begun[r])
Hours == 0..LastHour
MaxRuns == DayOf(LastHour) + 1 + MaxManual + MaxFaults + 1

NightlyTypeOK ==
    /\ now \in Hours
    /\ begun \in Seq(Hours)
    /\ scheduler \in [at : {"down", "boot", "loop", "run"}, lastRun : Days \cup {None}]
    /\ run = None \/ run \in [by : {"scheduler", "admin"}, of : Runs,
                              pc : {"export", "cleared", "published", "drive", "github",
                                    "trim", "record", "failed"},
                              ok : SUBSET Enabled]
    /\ {local, drive} \subseteq [Days -> {0} \cup Runs]
    /\ hub \in Seq([of : Runs, at : Hours])
    /\ state \in [last : [Targets -> {0} \cup Runs], bad : [Targets -> {0} \cup Runs],
                  ran : BOOLEAN]
    /\ cleared \in BOOLEAN
    /\ manual \in 0..MaxManual /\ faults \in 0..MaxFaults

Nothing == [d \in Days |-> 0]
NoState == [last |-> [t \in Targets |-> 0], bad |-> [t \in Targets |-> 0], ran |-> FALSE]

NightlyInit ==
    /\ now = 0 /\ begun = <<>>
    /\ scheduler = [at |-> "boot", lastRun |-> None]
    /\ run = None
    /\ local = Nothing /\ drive = Nothing /\ hub = <<>>
    /\ state = NoState
    /\ cleared = FALSE /\ manual = 0 /\ faults = 0

Fails == faults < MaxFaults /\ faults' = faults + 1

----------------------------------------------------------------------------
(* What the restore picker offers, and what choosing from it opens.        *)

Newest(commits) ==
    IF Len(commits) > PerPage THEN SubSeq(commits, Len(commits) - PerPage + 1, Len(commits))
                              ELSE commits

Folders(place) == {place[d] : d \in Days} \ {0}

VersionsOf(target) ==
    CASE target = "local"  -> Folders(local)
      [] target = "drive"  -> Folders(drive)
      [] target = "github" -> {Newest(hub)[i].of : i \in 1..Len(Newest(hub))}

\* A folder with a backup in it from run r or later.
Holds(target, r) == \E v \in VersionsOf(target) : v >= r

----------------------------------------------------------------------------
(* A run, step by step.                                                    *)

\* The lock is taken with the run; whoever finds it held skips.
BeginRun(by) ==
    /\ begun' = Append(begun, now)
    /\ run' = [by |-> by, of |-> Len(begun) + 1, pc |-> "export", ok |-> {}]

Goes(pc) == run' = [run EXCEPT !.pc = pc]
Today == RunDay(run.of)

BackupNow ==
    /\ scheduler.at # "down" /\ run = None /\ manual < MaxManual
    /\ manual' = manual + 1
    /\ BeginRun("admin")
    /\ UNCHANGED <<now, scheduler, folders, drive, hub, state, faults>>

\* The export is staged beside the folders; replaceBackupDir clears the day's
\* folder, then renames.  Either may fail, and so may the export.
Clear ==
    /\ run # None /\ run.pc = "export"
    /\ \/ /\ local' = [local EXCEPT ![Today] = 0]
          /\ cleared' = (cleared \/ local[Today] # 0)
          /\ Goes("cleared") /\ UNCHANGED faults
       \/ Fails /\ Goes("failed") /\ UNCHANGED folders
    /\ UNCHANGED <<clock, scheduler, drive, hub, state>>

Publish ==
    /\ run # None /\ run.pc = "cleared"
    /\ \/ /\ local' = [local EXCEPT ![Today] = run.of] /\ cleared' = FALSE
          /\ Goes("published") /\ UNCHANGED faults
       \/ Fails /\ Goes("failed") /\ UNCHANGED folders
    /\ UNCHANGED <<clock, scheduler, drive, hub, state>>

\* Bug: the folder of the run in progress is not spared.
Prunable_Today(d) == local[d] # 0 /\ now > (d + KeepDays) * HoursPerDay

Prunable(d) == local[d] # 0 /\ d # Today /\ now > (d + KeepDays) * HoursPerDay

\* A folder that cannot be removed stays; nothing here fails the run.
Prune ==
    /\ run # None /\ run.pc = "published"
    /\ local' = [d \in Days |-> IF Prunable(d) THEN 0 ELSE local[d]]
    /\ Goes("drive")
    /\ UNCHANGED <<clock, scheduler, drive, hub, state, cleared, faults>>

\* Bug: only tonight's folder is offered to Drive.
Offered_Tonight(days) == {Today} \cap days

\* rclone copies the whole tree: folders by name, nothing deleted.
Offered(days) == {d \in days : local[d] # 0}

Copied(days) == [d \in Days |-> IF d \in Offered(days) THEN local[d] ELSE drive[d]]

\* The attempts of one push are one step: whatever the failed ones left there.
PushDrive ==
    /\ run # None /\ run.pc = "drive"
    /\ IF "drive" \notin Enabled
       THEN Goes("github") /\ UNCHANGED <<drive, faults>>
       ELSE \/ /\ drive' = Copied(Days)
               /\ run' = [run EXCEPT !.pc = "github", !.ok = @ \cup {"drive"}]
               /\ UNCHANGED faults
            \/ /\ Fails /\ Goes("github")
               /\ \E some \in SUBSET Days : drive' = Copied(some)
    /\ UNCHANGED <<clock, scheduler, folders, hub, state>>

\* Blobs, a tree and a commit on the tip, then the branch moves in one request,
\* which is refused if the tip is another by then.
PushGitHub ==
    /\ run # None /\ run.pc = "github"
    /\ IF "github" \notin Enabled
       THEN Goes("record") /\ UNCHANGED <<hub, faults>>
       ELSE \/ hub' = Append(hub, [of |-> run.of, at |-> now]) /\ Goes("trim") /\ UNCHANGED faults
            \/ Fails /\ Goes("record") /\ UNCHANGED hub
    /\ UNCHANGED <<clock, scheduler, folders, drive, state>>

TooOld(listed) == Len(listed) >= 2 /\ now >= listed[1].at + KeepDays * HoursPerDay

\* Bug: a history that was trimmed is not a push that worked.
PushedHub == [run EXCEPT !.pc = "record", !.ok = @ \cup {"github"}]

\* pruneHistory: a fresh root takes the branch's place.  When that fails, Push
\* reports an error though the commit is there.
Trim ==
    /\ run # None /\ run.pc = "trim"
    /\ \/ /\ hub' = IF TooOld(Newest(hub)) THEN <<[of |-> run.of, at |-> now]>> ELSE hub
          /\ run' = PushedHub
          /\ UNCHANGED faults
       \/ Fails /\ Goes("record") /\ UNCHANGED hub
    /\ UNCHANGED <<clock, scheduler, folders, drive, state>>

\* recordBackupRun: a run that failed before it published names no target
\* but the local one.
Recorded(ok) ==
    LET tried == IF "local" \in ok THEN Targets ELSE {"local"} IN
    [last |-> [t \in Targets |-> IF t \in ok THEN run.of ELSE state.last[t]],
     bad |-> [t \in Targets |-> IF t \in ok THEN 0
                                ELSE IF t \in tried THEN run.of ELSE state.bad[t]],
     ran |-> TRUE]

RecordRun ==
    /\ run # None /\ run.pc \in {"record", "failed"}
    /\ state' = Recorded(IF run.pc = "record" THEN {"local"} \cup run.ok ELSE {})
    /\ run' = None
    /\ scheduler' = IF run.by = "scheduler" THEN [scheduler EXCEPT !.at = "loop"] ELSE scheduler
    /\ UNCHANGED <<clock, folders, drive, hub, faults>>

----------------------------------------------------------------------------
(* The scheduler.                                                          *)

Old(r) == now > begun[r] + StaleHours

\* catchUpDue
Due == IF state.last["local"] = 0 THEN TRUE ELSE Old(state.last["local"])

\* The run is made, or the lock is held and the loop carries on.
Fires ==
    IF run = None
    THEN BeginRun("scheduler")
    ELSE UNCHANGED <<begun, run>>

Boot ==
    /\ scheduler.at = "boot"
    /\ \/ /\ Due /\ Fires
          /\ scheduler' = [scheduler EXCEPT !.at = IF run = None THEN "run" ELSE "loop"]
          /\ UNCHANGED faults
       \/ /\ ~Due \/ faults < MaxFaults
          /\ faults' = IF Due THEN faults + 1 ELSE faults
          /\ scheduler' = [scheduler EXCEPT !.at = "loop"]
          /\ UNCHANGED <<begun, run>>
    /\ UNCHANGED <<now, folders, drive, hub, state, manual>>

ItIsTime == now % HoursPerDay = ScheduleHour /\ scheduler.lastRun # DayOf(now)

Tick ==
    /\ scheduler.at = "loop" /\ ItIsTime
    /\ Fires
    /\ scheduler' = [at |-> IF run = None THEN "run" ELSE "loop", lastRun |-> DayOf(now)]
    /\ UNCHANGED <<now, folders, drive, hub, state, manual, faults>>

\* The server dies with whatever it was doing: the lock falls with its
\* connection, and a half-written state file reads as none.
Die ==
    /\ Fails
    /\ scheduler.at # "down"
    /\ scheduler' = [at |-> "down", lastRun |-> None]
    /\ run' = None
    /\ \/ UNCHANGED state
       \/ run # None /\ run.pc \in {"record", "failed"} /\ state' = NoState
    /\ UNCHANGED <<clock, folders, drive, hub>>

Start ==
    /\ scheduler.at = "down"
    /\ scheduler' = [scheduler EXCEPT !.at = "boot"]
    /\ UNCHANGED <<clock, run, folders, drive, hub, state, faults>>

\* The loop asks every minute, so an hour it waits through is not missed
\* unless the settings cannot be read all that while.
Hour ==
    /\ now + 1 \in Hours
    /\ scheduler.at # "boot"
    /\ run # None => now < begun[run.of] + RunHours
    /\ IF scheduler.at = "loop" /\ ItIsTime
       THEN Fails ELSE UNCHANGED faults
    /\ now' = now + 1
    /\ UNCHANGED <<begun, scheduler, run, folders, drive, hub, state, manual>>

NightlyNext ==
    \/ BackupNow \/ Clear \/ Publish \/ Prune \/ PushDrive \/ PushGitHub \/ Trim \/ RecordRun
    \/ Boot \/ Tick \/ Die \/ Start \/ Hour

NightlySpec == NightlyInit /\ [][NightlyNext]_nightlyVars

----------------------------------------------------------------------------
(* The warning everyone who signs in is shown.                             *)

\* Bug: a target that has never succeeded is not behind.
Behind_Never(t) == IF state.last[t] = 0 THEN FALSE ELSE Old(state.last[t])

Behind(t) == IF state.last[t] = 0 THEN state.ran ELSE Old(state.last[t])

\* computeBackupWarnings
Warned == \E t \in Targets : Behind(t)

----------------------------------------------------------------------------
(* Properties.                                                             *)

(* No target is recorded as holding a backup the restore picker would not  *)
(* find there, or a newer one: whatever failed, died, was pruned or was    *)
(* replaced since.  Only the folder a run was replacing may be missing.    *)
SuccessMeansHeld ==
    \A t \in Targets :
        \/ state.last[t] = 0
        \/ Holds(t, state.last[t])
        \/ t = "local" /\ cleared

(* A push to Drive that succeeded leaves nothing behind: every backup made *)
(* up to then and still in its folder is on Drive, the nights whose own    *)
(* push failed included (target_drive.go: "caught up the next time").      *)
DriveCatchesUp ==
    "drive" \in Enabled =>
        \A d \in Days : local[d] # 0 /\ local[d] <= state.last["drive"] => drive[d] >= local[d]

(* Whoever signs in and is told nothing can count on it: once a run has    *)
(* been recorded, the picker offers from every target that is switched on  *)
(* a backup no older than stale_hours, the folder being replaced excepted. *)
SilenceMeansBackups ==
    state.ran /\ ~Warned =>
        \A t \in Targets :
            \/ \E r \in VersionsOf(t) : begun[r] + StaleHours >= now
            \/ t = "local" /\ cleared
=============================================================================
