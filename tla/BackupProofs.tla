---------------------------- MODULE BackupProofs ----------------------------
(***************************************************************************)
(* Proofs about the three parts of a backup: Recovery, what is copied and  *)
(* put back, for any number of requests, tags, log rows and archives,      *)
(* whatever is created, exported, backed up and restored at the same time, *)
(* wherever it fails and whenever the server dies; Nightly, when it is     *)
(* copied and where it is held, for any schedule, any stale_hours and      *)
(* keep_days, either target on or off, and any number of runs, failures    *)
(* and deaths; and Photos, the pictures, for any rows, uploads and nights. *)
(***************************************************************************)
EXTENDS Recovery, Nightly, Photos, TLAPS

-----------------------------------------------------------------------------
(* Recovery: the data copied and put back.                                  *)

Making == {"snapshot", "copyLog", "copyAssets", "sequences"}
Setting == {"truncate", "setval", "commit"}
Restoring == {"before", "lockLog", "aside", "compensate"} \cup Setting

\* What a request's local variables promise at each of its steps.  A backup and
\* a restore hold the backup lock, so no truncation can cut a backup short.
Sound(j) ==
    /\ j.pc \in {"unique", "row"} => j.tag \in Tag
    /\ j.pc \in Making =>
          /\ j.op \in {"backup", "export"}
          /\ j.op = "backup" => j.locked /\ ~j.cut
    /\ j.op = "backup" /\ j.pc = "copyAssets" => j.copied.log = j.saw.log
    /\ j.op = "backup" /\ j.pc = "sequences" => j.copied = j.saw
    /\ j.pc \in Restoring => j.locked /\ j.archive \in Archive
    /\ j.pc \in {"setval", "commit"} => CheckSequences(j.archive)
    /\ \A a \in Archive : j.archive = a /\ a.by = "backup" => a.whole

JobsAreSound == \A r \in Requests : Sound(job[r])

\* The advisory lock.
OneHoldsLock == \A q, r \in Requests : job[q].locked /\ job[r].locked => q = r

\* From its copy aside to its commit a restore has the log to itself.
KeptIsTheLog == \A r \in Requests : job[r].pc \in Setting => job[r].kept = log

RecoveryInductive ==
    /\ RecoveryTypeOK /\ JobsAreSound /\ OneHoldsLock /\ KeptIsTheLog
    /\ BackupsAreWhole /\ RestoredTagsAreFree

-----------------------------------------------------------------------------
(* One request's step.                                                      *)

LEMMA IdleIsSound == Idle \in Job /\ Sound(Idle) /\ ~Idle.locked /\ Idle.pc = "idle"
<1>1. Idle \in Job
    BY RecoveryFits DEF Idle, Job, NoTables, Tables, Ops
<1>2. \A a \in Archive : Idle.archive = a /\ a.by = "backup" => a.whole
    BY NoneIsNoArchive DEF Idle
<1> QED
    BY <1>1, <1>2 DEF Idle, Sound, Making, Restoring, Setting
\* What a request that takes a step alone may become, and how it got there.
StepTo(r, j) ==
    /\ j \in Job /\ Sound(j) /\ Becomes(r, j)
    /\ j.locked => job[r].locked \/ TakesLock
    /\ j.pc \in Setting =>
          \/ job[r].pc = "aside" /\ j.kept = log
          \/ job[r].pc \in Setting /\ j.kept = job[r].kept
    /\ j.pc = "commit" => job[r].pc = "setval" /\ j.archive = job[r].archive

LEMMA AnswerGoes ==
    ASSUME NEW r \in Requests, Answer(r)
    PROVE  StepTo(r, Idle)
<1>1. Idle.pc \notin Setting /\ Idle.pc # "commit"
    BY IdleIsSound DEF Setting
<1> QED
    BY <1>1, IdleIsSound DEF Answer, StepTo

\* The first step of each kind of request.
LEMMA InsertGoes ==
    ASSUME RecoveryTypeOK, NEW r \in Requests, InsertAsset(r)
    PROVE  \E j : StepTo(r, j)
<1> DEFINE j == [Idle EXCEPT !.op = "create", !.pc = "unique", !.tag = sequence + 1]
<1>1. sequence + 1 \in Tag
    BY RecoveryFits DEF RecoveryTypeOK, InsertAsset, Tag
<1>2. j \in Job
    BY <1>1, IdleIsSound DEF Job, Ops
<1>3. j.pc = "unique" /\ j.op = "create" /\ j.tag = sequence + 1 /\ ~j.locked /\ j.archive = None
    BY DEF Idle
<1>4. Becomes(r, j)
    BY DEF InsertAsset
<1> HIDE DEF j
<1>5. Sound(j)
    BY <1>1, <1>3, NoneIsNoArchive DEF Sound, Making, Restoring, Setting
<1>6. StepTo(r, j)
    BY <1>2, <1>3, <1>4, <1>5 DEF StepTo, Setting
<1> QED
    BY <1>6

LEMMA BackupGoes ==
    ASSUME RecoveryTypeOK, NEW r \in Requests, BeginBackup(r)
    PROVE  \E j : StepTo(r, j)
<1> DEFINE j == [Idle EXCEPT !.op = "backup", !.locked = TRUE, !.pc = "snapshot"]
           k == [Idle EXCEPT !.op = "backup", !.pc = "record"]
<1>1. j \in Job /\ k \in Job
    BY IdleIsSound DEF Job, Ops
<1>2. /\ j.pc = "snapshot" /\ j.op = "backup" /\ j.locked /\ ~j.cut /\ j.archive = None
      /\ k.pc = "record" /\ k.op = "backup" /\ ~k.locked /\ k.archive = None
    BY DEF Idle
<1>3. (TakesLock /\ Becomes(r, j)) \/ Becomes(r, k)
    BY DEF BeginBackup
<1> HIDE DEF j, k
<1>4. Sound(j) /\ Sound(k)
    BY <1>2, NoneIsNoArchive DEF Sound, Making, Restoring, Setting
<1>5. Becomes(r, j) /\ TakesLock => StepTo(r, j)
    BY <1>1, <1>2, <1>4 DEF StepTo, Setting
<1>6. Becomes(r, k) => StepTo(r, k)
    BY <1>1, <1>2, <1>4 DEF StepTo, Setting
<1> QED
    BY <1>3, <1>5, <1>6

LEMMA ExportGoes ==
    ASSUME RecoveryTypeOK, NEW r \in Requests, ExportEverything(r)
    PROVE  \E j : StepTo(r, j)
<1> DEFINE j == [Idle EXCEPT !.op = "export", !.pc = "snapshot"]
<1>1. j \in Job
    BY IdleIsSound DEF Job, Ops
<1>2. j.pc = "snapshot" /\ j.op = "export" /\ ~j.locked /\ j.archive = None
    BY DEF Idle
<1>3. Becomes(r, j)
    BY DEF ExportEverything
<1> HIDE DEF j
<1>4. Sound(j)
    BY <1>2, NoneIsNoArchive DEF Sound, Making, Restoring, Setting
<1>5. StepTo(r, j)
    BY <1>1, <1>2, <1>3, <1>4 DEF StepTo, Setting
<1> QED
    BY <1>5

LEMMA RestoreGoes ==
    ASSUME RecoveryTypeOK, BackupsAreWhole, NEW r \in Requests, NEW a \in archives,
           BeginRestore(r, a)
    PROVE  \E j : StepTo(r, j)
<1> DEFINE j == [Idle EXCEPT !.op = "restore", !.locked = TRUE, !.pc = "before", !.archive = a]
<1>1. a \in Archive
    BY DEF RecoveryTypeOK
<1>2. j \in Job
    BY <1>1, IdleIsSound DEF Job, Ops
<1>3. j.pc = "before" /\ j.op = "restore" /\ j.locked /\ j.archive = a
    BY DEF Idle
<1>4. Becomes(r, j) /\ TakesLock
    BY DEF BeginRestore
<1> HIDE DEF j
<1>5. Sound(j)
    BY <1>1, <1>3 DEF Sound, Making, Restoring, Setting, BackupsAreWhole
<1>6. StepTo(r, j)
    BY <1>2, <1>3, <1>4, <1>5 DEF StepTo, Setting
<1> QED
    BY <1>6

\* A request goes on with its local variables as they are.
LEMMA GoGoes ==
    ASSUME RecoveryTypeOK, JobsAreSound, NEW r \in Requests,
           NEW pc \in {"row", "lockLog", "aside", "setval", "commit", "compensate"}, Go(r, pc),
           pc = "row" => job[r].pc = "unique",
           pc # "row" => job[r].pc \in Restoring,
           pc = "setval" => CheckSequences(job[r].archive) /\ job[r].pc \in Setting,
           pc = "commit" => job[r].pc = "setval"
    PROVE  \E j : StepTo(r, j)
<1>1. PICK k \in Job : k = job[r]
    BY DEF RecoveryTypeOK
<1> DEFINE j == [k EXCEPT !.pc = pc]
<1>2. /\ j \in Job /\ j.pc = pc /\ j.tag = k.tag /\ j.op = k.op /\ j.locked = k.locked
      /\ j.archive = k.archive /\ j.kept = k.kept
    BY DEF Job
<1>3. Becomes(r, j)
    BY <1>1 DEF Go
<1>4. Sound(k)
    BY <1>1 DEF JobsAreSound
<1> HIDE DEF j
<1>5. Sound(j)
    BY <1>1, <1>2, <1>4 DEF Sound, Making, Restoring, Setting
<1>6. StepTo(r, j)
    BY <1>1, <1>2, <1>3, <1>5 DEF StepTo, Setting
<1> QED
    BY <1>6
\* A backup's and an export's own steps.
LEMMA CopiesGo ==
    ASSUME RecoveryTypeOK, JobsAreSound, NEW r \in Requests,
           Snapshot(r) \/ CopyLog(r) \/ CopyAssets(r)
    PROVE  \E j : StepTo(r, j)
<1>1. PICK k \in Job : k = job[r]
    BY DEF RecoveryTypeOK
<1>2. Sound(k)
    BY <1>1 DEF JobsAreSound
<1>3. CASE Snapshot(r)
  <2> DEFINE j == [k EXCEPT !.pc = "copyLog", !.saw = [tags |-> tags, log |-> log]]
  <2>1. Becomes(r, j)
      BY <1>1, <1>3 DEF Snapshot
  <2>2. j \in Job
      BY DEF RecoveryTypeOK, Job, Tables
  <2>3. /\ j.pc = "copyLog" /\ j.op = k.op /\ j.locked = k.locked /\ j.cut = k.cut
        /\ j.archive = k.archive
      BY DEF Job
  <2> HIDE DEF j
  <2>4. Sound(j)
      BY <1>1, <1>2, <1>3, <2>3 DEF Sound, Making, Restoring, Setting, Snapshot
  <2>5. StepTo(r, j)
      BY <1>1, <2>1, <2>2, <2>3, <2>4 DEF StepTo, Setting
  <2> QED
      BY <2>5
<1>4. CASE CopyLog(r)
  <2>1. PICK l \in SUBSET Entry : l = IF k.cut THEN {} ELSE k.saw.log
      BY DEF Job, Tables
  <2> DEFINE j == [k EXCEPT !.pc = "copyAssets", !.copied.log = l]
  <2>2. Becomes(r, j)
      BY <1>1, <1>4, <2>1 DEF CopyLog
  <2>3. j \in Job
      BY DEF Job, Tables
  <2>4. /\ j.pc = "copyAssets" /\ j.op = k.op /\ j.locked = k.locked /\ j.cut = k.cut
        /\ j.archive = k.archive /\ j.saw = k.saw /\ j.copied.log = l
      BY DEF Job, Tables
  <2> HIDE DEF j
  <2>5. Sound(j)
      BY <1>1, <1>2, <1>4, <2>1, <2>4 DEF Sound, Making, Restoring, Setting, CopyLog
  <2>6. StepTo(r, j)
      BY <1>1, <2>2, <2>3, <2>4, <2>5 DEF StepTo, Setting
  <2> QED
      BY <2>6
<1>5. CASE CopyAssets(r)
  <2>1. PICK g \in SUBSET Tag : g = IF k.cut THEN {} ELSE k.saw.tags
      BY DEF Job, Tables
  <2> DEFINE j == [k EXCEPT !.pc = "sequences", !.copied.tags = g]
  <2>2. Becomes(r, j)
      BY <1>1, <1>5, <2>1 DEF CopyAssets
  <2>3. j \in Job
      BY DEF Job, Tables
  <2>4. /\ j.pc = "sequences" /\ j.op = k.op /\ j.locked = k.locked /\ j.cut = k.cut
        /\ j.archive = k.archive /\ j.saw = k.saw
        /\ j.copied = [tags |-> g, log |-> k.copied.log]
      BY DEF Job, Tables
  <2>5. k.saw = [tags |-> k.saw.tags, log |-> k.saw.log]
      BY DEF Job, Tables
  <2> HIDE DEF j
  <2>6. j.op = "backup" => j.copied = j.saw
      BY <1>1, <1>2, <1>5, <2>1, <2>4, <2>5 DEF Sound, Making, CopyAssets
  <2>7. Sound(j)
      BY <1>1, <1>2, <1>5, <2>4, <2>6 DEF Sound, Making, Restoring, Setting, CopyAssets
  <2>8. StepTo(r, j)
      BY <1>1, <2>2, <2>3, <2>4, <2>7 DEF StepTo, Setting
  <2> QED
      BY <2>8
<1> QED
    BY <1>3, <1>4, <1>5

\* What is archived, and that a backup is whole.
LEMMA ReadSequencesGoes ==
    ASSUME RecoveryTypeOK, JobsAreSound, NEW r \in Requests, ReadSequences(r)
    PROVE  /\ \E j : StepTo(r, j)
           /\ \E a \in Archive : /\ a.by = "backup" => a.whole
                                 /\ archives' = archives \/ archives' = archives \cup {a}
<1>1. PICK k \in Job : k = job[r]
    BY DEF RecoveryTypeOK
<1>2. Sound(k) /\ k.pc = "sequences"
    BY <1>1 DEF JobsAreSound, ReadSequences
<1> DEFINE a == [by |-> k.op, tags |-> k.copied.tags, log |-> k.copied.log,
                 sequence |-> sequence, whole |-> k.copied = k.saw]
           j == [Idle EXCEPT !.op = k.op, !.pc = "record", !.archive = a]
<1>3. k.op \in {"backup", "export"}
    BY <1>2 DEF Sound, Making
<1>4. k.copied.tags \in SUBSET Tag /\ k.copied.log \in SUBSET Entry
    BY DEF Job, Tables
<1>5. a \in Archive
    BY <1>3, <1>4 DEF Archive, RecoveryTypeOK
<1>6. a.by = "backup" => a.whole
    BY <1>2 DEF Sound
<1>7. Becomes(r, j)
    BY <1>1 DEF ReadSequences
<1>8. archives' = IF k.op = "backup" THEN archives \cup {a} ELSE archives
    BY <1>1 DEF ReadSequences
<1> HIDE DEF a
<1>9. j \in Job
    BY <1>5, IdleIsSound DEF Job
<1>10. j.pc = "record" /\ ~j.locked /\ j.archive = a /\ j.op = k.op
    BY DEF Idle
<1> HIDE DEF j
<1>11. Sound(j)
    BY <1>6, <1>10 DEF Sound, Making, Restoring, Setting
<1>12. StepTo(r, j)
    BY <1>7, <1>9, <1>10, <1>11 DEF StepTo, Setting
<1> QED
    BY <1>5, <1>6, <1>8, <1>12

\* A restore's own steps, its commit apart.
LEMMA RestoringGoes ==
    ASSUME RecoveryTypeOK, JobsAreSound, NEW r \in Requests,
           \/ ReadBefore(r) \/ LockLog(r) \/ SetAside(r) \/ Load(r) \/ ApplySequences(r)
           \/ ApplyFails(r) \/ CommitFails(r) \/ Compensate(r)
    PROVE  \E j : StepTo(r, j)
<1>1. PICK k \in Job : k = job[r]
    BY DEF RecoveryTypeOK
<1>2. Sound(k)
    BY <1>1 DEF JobsAreSound
<1>3. CASE ReadBefore(r)
  <2> DEFINE j == [k EXCEPT !.pc = "lockLog", !.before = sequence]
  <2>1. Becomes(r, j)
      BY <1>1, <1>3 DEF ReadBefore
  <2>2. j \in Job
      BY DEF RecoveryTypeOK, Job
  <2>3. j.pc = "lockLog" /\ j.op = k.op /\ j.locked = k.locked /\ j.archive = k.archive
      BY DEF Job
  <2> HIDE DEF j
  <2>4. Sound(j)
      BY <1>1, <1>2, <1>3, <2>3 DEF Sound, Making, Restoring, Setting, ReadBefore
  <2>5. StepTo(r, j)
      BY <1>1, <2>1, <2>2, <2>3, <2>4 DEF StepTo, Setting
  <2> QED
      BY <2>5
<1>4. CASE SetAside(r)
  <2> DEFINE j == [k EXCEPT !.pc = "truncate", !.kept = log]
  <2>1. Becomes(r, j)
      BY <1>1, <1>4 DEF SetAside
  <2>2. j \in Job
      BY DEF RecoveryTypeOK, Job
  <2>3. /\ j.pc = "truncate" /\ j.op = k.op /\ j.locked = k.locked /\ j.archive = k.archive
        /\ j.kept = log
      BY DEF Job
  <2> HIDE DEF j
  <2>4. Sound(j)
      BY <1>1, <1>2, <1>4, <2>3 DEF Sound, Making, Restoring, Setting, SetAside
  <2>5. StepTo(r, j)
      BY <1>1, <1>4, <2>1, <2>2, <2>3, <2>4 DEF StepTo, SetAside
  <2> QED
      BY <2>5
<1>5. CASE LockLog(r)
    BY <1>5, GoGoes DEF LockLog, Restoring
<1>6. CASE Load(r)
    BY <1>6, GoGoes, AnswerGoes DEF Load, Restoring, Setting
<1>7. CASE ApplySequences(r)
    BY <1>7, GoGoes DEF ApplySequences, Restoring, Setting
<1>8. CASE ApplyFails(r)
    BY <1>8, AnswerGoes DEF ApplyFails
<1>9. CASE CommitFails(r)
    BY <1>9, GoGoes DEF CommitFails, Restoring, Setting
<1>10. CASE Compensate(r)
    BY <1>10, AnswerGoes DEF Compensate
<1> QED
    BY <1>3, <1>4, <1>5, <1>6, <1>7, <1>8, <1>9, <1>10

LEMMA AbandonGoes ==
    ASSUME RecoveryTypeOK, NEW r \in Requests, Abandon(r)
    PROVE  \E j : StepTo(r, j)
<1> DEFINE j == [Idle EXCEPT !.op = "backup", !.pc = "record"]
<1>1. j \in Job
    BY IdleIsSound DEF Job, Ops
<1>2. j.pc = "record" /\ j.op = "backup" /\ ~j.locked /\ j.archive = None
    BY DEF Idle
<1>3. Becomes(r, j) \/ Answer(r)
    BY DEF Abandon
<1> HIDE DEF j
<1>4. Sound(j)
    BY <1>2, NoneIsNoArchive DEF Sound, Making, Restoring, Setting
<1>5. Becomes(r, j) => StepTo(r, j)
    BY <1>1, <1>2, <1>4 DEF StepTo, Setting
<1> QED
    BY <1>3, <1>5, AnswerGoes

\* Every step but the commit of a restore and the end of the server is one
\* request's.
LEMMA EachGoes ==
    ASSUME RecoveryTypeOK, JobsAreSound, BackupsAreWhole, NEW r \in Requests,
           \/ InsertAsset(r) \/ BeginBackup(r) \/ ExportEverything(r)
           \/ \E a \in archives : BeginRestore(r, a)
           \/ Steps(r) /\ ~CommitRestore(r)
    PROVE  \E j : StepTo(r, j)
<1>1. CASE UniqueTag(r)
    BY <1>1, GoGoes, AnswerGoes DEF UniqueTag
<1>2. CASE LogAsset(r) \/ Record(r)
    BY <1>2, AnswerGoes DEF LogAsset, Record
<1> QED
    BY <1>1, <1>2, InsertGoes, BackupGoes, ExportGoes, RestoreGoes, CopiesGo,
       ReadSequencesGoes, RestoringGoes, AbandonGoes DEF Steps
-----------------------------------------------------------------------------
(* Every step.                                                              *)

LEMMA GoesOn ==
    ASSUME RecoveryTypeOK, JobsAreSound, OneHoldsLock, NEW r \in Requests, NEW j, StepTo(r, j)
    PROVE  /\ job' \in [Requests -> Job] /\ JobsAreSound' /\ OneHoldsLock'
           /\ job'[r] = j /\ \A q \in Requests : q # r => job'[q] = job[q]
<1>1. /\ job' \in [Requests -> Job] /\ job'[r] = j
      /\ \A q \in Requests : q # r => job'[q] = job[q]
    BY DEF RecoveryTypeOK, StepTo, Becomes
<1>2. JobsAreSound'
    BY <1>1 DEF JobsAreSound, StepTo
<1>3. OneHoldsLock'
    BY <1>1 DEF OneHoldsLock, StepTo, TakesLock
<1> QED
    BY <1>1, <1>2, <1>3

\* The commit of a restore cuts short no backup, for it holds their lock.
LEMMA CommitGoesOn ==
    ASSUME RecoveryTypeOK, JobsAreSound, OneHoldsLock, NEW r \in Requests, CommitRestore(r)
    PROVE  /\ job' \in [Requests -> Job] /\ JobsAreSound' /\ OneHoldsLock'
           /\ job'[r] = Idle
           /\ \A q \in Requests : q # r => job'[q].pc = job[q].pc /\ job'[q].kept = job[q].kept
                                           /\ job[q].pc \notin Restoring
<1>1. job[r].locked
    BY DEF JobsAreSound, Sound, CommitRestore, Restoring, Setting
<1>2. ASSUME NEW q \in Requests, q # r
      PROVE  /\ job'[q] \in Job /\ Sound(job'[q]) /\ ~job'[q].locked
             /\ job'[q].pc = job[q].pc /\ job'[q].kept = job[q].kept
             /\ job[q].pc \notin Restoring
  <2>1. PICK k \in Job : k = job[q]
      BY DEF RecoveryTypeOK
  <2>2. PICK c \in BOOLEAN : c = (k.cut \/ k.pc \in {"copyLog", "copyAssets"})
      OBVIOUS
  <2> DEFINE j == [k EXCEPT !.cut = c]
  <2>3. job'[q] = j
      BY <1>2, <2>1, <2>2 DEF CommitRestore
  <2>4. j \in Job
      BY <2>2 DEF Job
  <2>5. /\ j.pc = k.pc /\ j.op = k.op /\ j.tag = k.tag /\ j.locked = k.locked /\ j.saw = k.saw
        /\ j.copied = k.copied /\ j.archive = k.archive /\ j.kept = k.kept
      BY DEF Job
  <2>6. Sound(k) /\ ~k.locked
      BY <1>1, <1>2, <2>1 DEF JobsAreSound, OneHoldsLock
  <2> HIDE DEF j
  <2>7. k.pc \notin Restoring /\ (k.pc \in Making => k.op # "backup")
      BY <2>6 DEF Sound
  <2>8. Sound(j)
      BY <2>5, <2>6, <2>7 DEF Sound, Making, Restoring, Setting
  <2> QED
      BY <2>1, <2>3, <2>4, <2>5, <2>6, <2>7, <2>8
<1>3. job'[r] = Idle
    BY DEF CommitRestore
<1>4. job' \in [Requests -> Job]
  <2>1. \A q \in Requests : job'[q] \in Job
      BY <1>2, <1>3, IdleIsSound
  <2>2. job' = [q \in Requests |-> job'[q]]
      BY DEF CommitRestore
  <2> QED
      BY <2>1, <2>2
<1>5. JobsAreSound'
    BY <1>2, <1>3, IdleIsSound DEF JobsAreSound
<1>6. OneHoldsLock'
    BY <1>2, <1>3, IdleIsSound DEF OneHoldsLock
<1> QED
    BY <1>2, <1>3, <1>4, <1>5, <1>6

LEMMA RestartGoesOn ==
    ASSUME Restart
    PROVE  /\ job' \in [Requests -> Job] /\ JobsAreSound' /\ OneHoldsLock'
           /\ \A r \in Requests : job'[r] = Idle
BY IdleIsSound DEF Restart, JobsAreSound, OneHoldsLock

LEMMA JobsStep ==
    ASSUME RecoveryTypeOK, JobsAreSound, OneHoldsLock, BackupsAreWhole, RecoveryNext
    PROVE  job' \in [Requests -> Job] /\ JobsAreSound' /\ OneHoldsLock'
<1>1. CASE Restart
    BY <1>1, RestartGoesOn
<1>2. ASSUME NEW r \in Requests, CommitRestore(r)
      PROVE  job' \in [Requests -> Job] /\ JobsAreSound' /\ OneHoldsLock'
    BY <1>2, CommitGoesOn
<1>3. ASSUME NEW r \in Requests, \E j : StepTo(r, j)
      PROVE  job' \in [Requests -> Job] /\ JobsAreSound' /\ OneHoldsLock'
    BY <1>3, GoesOn
<1> QED
    BY <1>1, <1>2, <1>3, EachGoes DEF RecoveryNext

\* The tables, the sequence and the archives.
LEMMA TablesStep ==
    ASSUME RecoveryTypeOK, JobsAreSound, BackupsAreWhole, RecoveryNext
    PROVE  /\ tags' \subseteq Tag /\ log' \subseteq Entry /\ sequence' \in 0..MaxTag
           /\ archives' \subseteq Archive /\ BackupsAreWhole'
<1> DEFINE Good == /\ tags' \subseteq Tag /\ log' \subseteq Entry /\ sequence' \in 0..MaxTag
                   /\ archives' \subseteq Archive /\ BackupsAreWhole'
<1>1. CASE UNCHANGED <<tags, log, sequence, archives>>
    BY <1>1 DEF RecoveryTypeOK, BackupsAreWhole
<1>2. ASSUME NEW r \in Requests, InsertAsset(r)
      PROVE  Good
    BY <1>2, RecoveryFits DEF RecoveryTypeOK, BackupsAreWhole, InsertAsset
<1>3. ASSUME NEW r \in Requests, LogAsset(r)
      PROVE  Good
  <2>1. job[r].tag \in Tag
      BY <1>3 DEF JobsAreSound, Sound, LogAsset
  <2> QED
      BY <1>3, <2>1 DEF RecoveryTypeOK, BackupsAreWhole, LogAsset
<1>4. ASSUME NEW r \in Requests, ReadSequences(r)
      PROVE  Good
  <2>1. \E a \in Archive : /\ a.by = "backup" => a.whole
                           /\ archives' = archives \/ archives' = archives \cup {a}
      BY <1>4, ReadSequencesGoes
  <2> QED
      BY <1>4, <2>1 DEF RecoveryTypeOK, BackupsAreWhole, ReadSequences
<1>5. ASSUME NEW r \in Requests, Record(r)
      PROVE  Good
  <2>1. job[r].archive \in Archive \cup {None}
      BY DEF RecoveryTypeOK, Job
  <2>2. \A a \in Archive : job[r].archive = a /\ a.by = "backup" => a.whole
      BY DEF JobsAreSound, Sound
  <2> QED
      BY <1>5, <2>1, <2>2 DEF RecoveryTypeOK, BackupsAreWhole, Record
<1>6. ASSUME NEW r \in Requests, job[r].pc \in Restoring
      PROVE  /\ job[r].archive \in Archive /\ job[r].kept \subseteq Entry
             /\ job[r].before \in 0..MaxTag
             /\ job[r].archive.tags \subseteq Tag /\ job[r].archive.log \subseteq Entry
             /\ job[r].archive.sequence \in 0..MaxTag
  <2>1. job[r].archive \in Archive
      BY <1>6 DEF JobsAreSound, Sound
  <2>2. job[r].kept \subseteq Entry /\ job[r].before \in 0..MaxTag
      BY DEF RecoveryTypeOK, Job
  <2> QED
      BY <2>1, <2>2 DEF Archive
<1>7. ASSUME NEW r \in Requests, ApplySequences(r) \/ ApplyFails(r) \/ Compensate(r)
      PROVE  Good
  <2>1. job[r].pc \in Restoring
      BY <1>7 DEF ApplySequences, ApplyFails, Compensate, Restoring, Setting
  <2>2. sequence' \in 0..MaxTag
      BY <1>6, <1>7, <2>1 DEF RecoveryTypeOK, ApplySequences, ApplyFails, Compensate
  <2> QED
      BY <1>7, <2>2 DEF RecoveryTypeOK, BackupsAreWhole, ApplySequences, ApplyFails, Compensate
<1>8. ASSUME NEW r \in Requests, CommitRestore(r)
      PROVE  Good
  <2>1. job[r].pc \in Restoring
      BY <1>8 DEF CommitRestore, Restoring, Setting
  <2> QED
      BY <1>6, <1>8, <2>1 DEF RecoveryTypeOK, BackupsAreWhole, CommitRestore, Restored
<1>9. ASSUME NEW r \in Requests,
             \/ BeginBackup(r) \/ ExportEverything(r) \/ UniqueTag(r)
             \/ \E a \in archives : BeginRestore(r, a)
             \/ Snapshot(r) \/ CopyLog(r) \/ CopyAssets(r) \/ ReadBefore(r) \/ LockLog(r)
             \/ SetAside(r) \/ Load(r) \/ CommitFails(r) \/ Abandon(r)
      PROVE  UNCHANGED <<tags, log, sequence, archives>>
    BY <1>9 DEF BeginBackup, ExportEverything, UniqueTag, BeginRestore, Snapshot, CopyLog,
                CopyAssets, ReadBefore, LockLog, SetAside, Load, CommitFails, Abandon
<1>10. CASE Restart
    BY <1>1, <1>10 DEF Restart
<1> QED
    BY <1>1, <1>2, <1>3, <1>4, <1>5, <1>7, <1>8, <1>9, <1>10 DEF RecoveryNext, Steps

\* Whoever writes to the log is not kept out of it by a restore that set it aside.
LEMMA LogIsOpen ==
    ASSUME NEW r \in Requests, ~LogClosed(r)
    PROVE  \A q \in Requests : q # r => job[q].pc \notin Setting
BY DEF LogClosed, Others, Setting

LEMMA KeptStep ==
    ASSUME RecoveryTypeOK, JobsAreSound, OneHoldsLock, BackupsAreWhole, KeptIsTheLog, RecoveryNext
    PROVE  KeptIsTheLog'
<1>1. CASE Restart
    BY <1>1, RestartGoesOn, IdleIsSound DEF KeptIsTheLog, Setting
<1>2. ASSUME NEW r \in Requests, CommitRestore(r)
      PROVE  KeptIsTheLog'
  <2>1. /\ job'[r] = Idle
        /\ \A q \in Requests : q # r => job'[q].pc \notin Setting
      BY <1>2, CommitGoesOn DEF Restoring
  <2> QED
      BY <2>1, IdleIsSound DEF KeptIsTheLog, Setting
<1>3. ASSUME NEW r \in Requests, LogAsset(r) \/ Record(r)
      PROVE  KeptIsTheLog'
  <2>1. /\ job'[r] = Idle
        /\ \A q \in Requests : q # r => job'[q] = job[q] /\ job[q].pc \notin Setting
      BY <1>3, LogIsOpen DEF RecoveryTypeOK, LogAsset, Record, Answer, Becomes
  <2> QED
      BY <2>1, IdleIsSound DEF KeptIsTheLog, Setting
<1>4. ASSUME NEW r \in Requests, \E j : StepTo(r, j), log' = log
      PROVE  KeptIsTheLog'
  <2>1. PICK j : StepTo(r, j)
      BY <1>4
  <2>2. /\ job'[r] = j /\ \A q \in Requests : q # r => job'[q] = job[q]
      BY <2>1, GoesOn
  <2>3. j.pc \in Setting => j.kept = log
      BY <2>1 DEF StepTo, KeptIsTheLog
  <2> QED
      BY <1>4, <2>2, <2>3 DEF KeptIsTheLog
<1>5. ASSUME NEW r \in Requests,
             \/ InsertAsset(r) \/ BeginBackup(r) \/ ExportEverything(r)
             \/ \E a \in archives : BeginRestore(r, a)
             \/ UniqueTag(r) \/ Snapshot(r) \/ CopyLog(r) \/ CopyAssets(r) \/ ReadSequences(r)
             \/ ReadBefore(r) \/ LockLog(r) \/ SetAside(r) \/ Load(r) \/ ApplySequences(r)
             \/ ApplyFails(r) \/ CommitFails(r) \/ Compensate(r) \/ Abandon(r)
      PROVE  log' = log
    BY <1>5 DEF InsertAsset, BeginBackup, ExportEverything, BeginRestore, UniqueTag, Snapshot,
                CopyLog, CopyAssets, ReadSequences, ReadBefore, LockLog, SetAside, Load,
                ApplySequences, ApplyFails, CommitFails, Compensate, Abandon
<1>6. ASSUME NEW r \in Requests,
             \/ InsertAsset(r) \/ BeginBackup(r) \/ ExportEverything(r)
             \/ \E a \in archives : BeginRestore(r, a)
             \/ Steps(r) /\ ~CommitRestore(r)
      PROVE  KeptIsTheLog'
  <2>1. \E j : StepTo(r, j)
      BY <1>6, EachGoes
  <2> QED
      BY <1>3, <1>4, <1>5, <1>6, <2>1 DEF Steps
<1> QED
    BY <1>1, <1>2, <1>6 DEF RecoveryNext

\* A request at its commit has just set the sequence, and nobody sets it back.
LEMMA FreeStep ==
    ASSUME RecoveryTypeOK, JobsAreSound, OneHoldsLock, BackupsAreWhole, RestoredTagsAreFree,
           RecoveryNext
    PROVE  RestoredTagsAreFree'
<1>1. CASE Restart
    BY <1>1, RestartGoesOn, IdleIsSound DEF RestoredTagsAreFree, At
<1>2. ASSUME NEW r \in Requests, CommitRestore(r)
      PROVE  RestoredTagsAreFree'
  <2>1. /\ job'[r] = Idle
        /\ \A q \in Requests : q # r => job'[q].pc # "commit"
      BY <1>2, CommitGoesOn DEF Restoring, Setting
  <2> QED
      BY <2>1, IdleIsSound DEF RestoredTagsAreFree, At
<1>3. ASSUME NEW r \in Requests, ApplySequences(r)
      PROVE  RestoredTagsAreFree'
  <2>1. /\ job[r].locked /\ CheckSequences(job[r].archive) /\ job[r].archive \in Archive
      BY <1>3 DEF JobsAreSound, Sound, ApplySequences, Restoring, Setting
  <2>2. \A t \in job[r].archive.tags : t <= job[r].archive.sequence
      BY <2>1, RecoveryFits DEF CheckSequences, Archive, Tag
  <2>3. \A q \in Requests : q # r => job'[q].pc # "commit"
      BY <1>3, <2>1 DEF RecoveryTypeOK, OneHoldsLock, JobsAreSound, Sound, Restoring, Setting,
                        ApplySequences, Go, Becomes
  <2>4. job'[r].archive = job[r].archive /\ sequence' = job[r].archive.sequence
      BY <1>3 DEF RecoveryTypeOK, Job, ApplySequences, Go, Becomes
  <2> QED
      BY <2>2, <2>3, <2>4 DEF RestoredTagsAreFree, At
<1>4. ASSUME NEW r \in Requests, ApplyFails(r) \/ Compensate(r)
      PROVE  RestoredTagsAreFree'
  <2>1. job[r].locked
      BY <1>4 DEF JobsAreSound, Sound, ApplyFails, Compensate, Restoring, Setting
  <2>2. \A q \in Requests : q # r => job'[q].pc # "commit"
      BY <1>4, <2>1 DEF RecoveryTypeOK, OneHoldsLock, JobsAreSound, Sound, Restoring, Setting,
                        ApplyFails, Compensate, Answer, Becomes
  <2>3. job'[r] = Idle
      BY <1>4 DEF RecoveryTypeOK, ApplyFails, Compensate, Answer, Becomes
  <2> QED
      BY <2>2, <2>3, IdleIsSound DEF RestoredTagsAreFree, At
<1>5. ASSUME NEW r \in Requests, ~CommitRestore(r),
             \/ InsertAsset(r) \/ BeginBackup(r) \/ ExportEverything(r)
             \/ \E a \in archives : BeginRestore(r, a)
             \/ UniqueTag(r) \/ LogAsset(r) \/ Snapshot(r) \/ CopyLog(r) \/ CopyAssets(r)
             \/ ReadSequences(r) \/ Record(r) \/ ReadBefore(r) \/ LockLog(r) \/ SetAside(r)
             \/ Load(r) \/ CommitFails(r) \/ Abandon(r)
      PROVE  RestoredTagsAreFree'
  <2>1. PICK j : StepTo(r, j)
      BY <1>5, EachGoes DEF Steps
  <2>2. sequence' \in {sequence, sequence + 1}
      BY <1>5 DEF InsertAsset, BeginBackup, ExportEverything, BeginRestore, UniqueTag, LogAsset,
                  Snapshot, CopyLog, CopyAssets, ReadSequences, Record, ReadBefore, LockLog,
                  SetAside, Load, CommitFails, Abandon
  <2>3. job'[r] = j /\ \A q \in Requests : q # r => job'[q] = job[q]
      BY <2>1, GoesOn
  <2>4. j.pc # "commit"
    <3>1. job[r].pc # "setval"
        BY <1>5 DEF InsertAsset, BeginBackup, ExportEverything, BeginRestore, Asked, UniqueTag,
                    LogAsset, Snapshot, CopyLog, CopyAssets, ReadSequences, Record, ReadBefore,
                    LockLog, SetAside, Load, CommitFails, Abandon
    <3> QED
        BY <2>1, <3>1 DEF StepTo
  <2>5. ASSUME NEW q \in At("commit"), NEW t \in job[q].archive.tags
        PROVE  t <= sequence'
    <3>1. t \in Nat /\ t <= sequence
        BY <2>5 DEF RestoredTagsAreFree, JobsAreSound, Sound, Restoring, Setting, Archive, Tag,
                    At
    <3> QED
        BY <2>2, <3>1 DEF RecoveryTypeOK
  <2> QED
      BY <2>3, <2>4, <2>5 DEF RestoredTagsAreFree, At
<1> QED
    BY <1>1, <1>2, <1>3, <1>4, <1>5 DEF RecoveryNext, Steps

-----------------------------------------------------------------------------
(* The theorems.                                                            *)

LEMMA InitRecovery == RecoveryInit => RecoveryInductive
<1> SUFFICES ASSUME RecoveryInit PROVE RecoveryInductive
    OBVIOUS
<1>1. RecoveryTypeOK
    BY IdleIsSound, RecoveryFits DEF RecoveryInit, RecoveryTypeOK
<1>2. JobsAreSound /\ OneHoldsLock /\ KeptIsTheLog /\ BackupsAreWhole /\ RestoredTagsAreFree
    BY IdleIsSound DEF RecoveryInit, JobsAreSound, OneHoldsLock, KeptIsTheLog, BackupsAreWhole,
                       RestoredTagsAreFree, At, Setting
<1> QED
    BY <1>1, <1>2 DEF RecoveryInductive

LEMMA NextRecovery == RecoveryInductive /\ [RecoveryNext]_recoveryVars => RecoveryInductive'
<1>1. ASSUME RecoveryInductive, RecoveryNext
      PROVE  RecoveryInductive'
  <2>1. RecoveryTypeOK' /\ JobsAreSound' /\ OneHoldsLock' /\ BackupsAreWhole'
      BY <1>1, JobsStep, TablesStep DEF RecoveryInductive, RecoveryTypeOK
  <2> QED
      BY <1>1, <2>1, KeptStep, FreeStep DEF RecoveryInductive
<1>2. ASSUME RecoveryInductive, UNCHANGED recoveryVars
      PROVE  RecoveryInductive'
    BY <1>2 DEF recoveryVars, RecoveryInductive, RecoveryTypeOK, JobsAreSound, OneHoldsLock,
                KeptIsTheLog, BackupsAreWhole, RestoredTagsAreFree, At
<1> QED
    BY <1>1, <1>2
\* What requests hold at each step, who has the backup lock and what the log is
\* while a restore has set it aside: the invariant the theorems below follow from.
THEOREM RecoveryInvariant == RecoverySpec => []RecoveryInductive
BY InitRecovery, NextRecovery, PTL DEF RecoverySpec

\* Every table, archive and request is one the program can hold.
THEOREM RecoveryTyped == RecoverySpec => []RecoveryTypeOK
BY RecoveryInvariant, PTL DEF RecoveryInductive

\* A backup and a restore exclude each other by the advisory lock, so no backup
\* reads a table a restore has truncated since its snapshot: every backup holds
\* the database of one instant.
THEOREM EveryBackupIsWhole == RecoverySpec => []BackupsAreWhole
BY RecoveryInvariant, PTL DEF RecoveryInductive

\* A restore that is about to commit has set the sequence past every tag it puts
\* back, and no insert, failure or compensation sets it lower meanwhile.
THEOREM RestoresLeaveTagsFree == RecoverySpec => []RestoredTagsAreFree
BY RecoveryInvariant, PTL DEF RecoveryInductive

\* Nothing removes a row of the activity log: between setting it aside and the
\* commit that puts it back, a restore lets nobody else write to it.
THEOREM TheLogOnlyGrows == RecoverySpec => LogNeverShrinks
<1>1. RecoveryInductive /\ [RecoveryNext]_recoveryVars => [log \subseteq log']_recoveryVars
  <2>1. SUFFICES ASSUME RecoveryInductive, RecoveryNext
                 PROVE  log \subseteq log'
      OBVIOUS
  <2>2. ASSUME NEW r \in Requests, CommitRestore(r)
        PROVE  log \subseteq log'
    <3>1. job[r].kept = log
        BY <2>1, <2>2 DEF RecoveryInductive, KeptIsTheLog, CommitRestore, Setting
    <3> QED
        BY <2>2, <3>1 DEF CommitRestore, Restored
  <2>3. ASSUME NEW r \in Requests, LogAsset(r) \/ Record(r)
        PROVE  log \subseteq log'
      BY <2>3 DEF LogAsset, Record
  <2>4. ASSUME NEW r \in Requests,
               \/ InsertAsset(r) \/ BeginBackup(r) \/ ExportEverything(r)
               \/ \E a \in archives : BeginRestore(r, a)
               \/ UniqueTag(r) \/ Snapshot(r) \/ CopyLog(r) \/ CopyAssets(r) \/ ReadSequences(r)
               \/ ReadBefore(r) \/ LockLog(r) \/ SetAside(r) \/ Load(r) \/ ApplySequences(r)
               \/ ApplyFails(r) \/ CommitFails(r) \/ Compensate(r) \/ Abandon(r)
        PROVE  log' = log
      BY <2>4 DEF InsertAsset, BeginBackup, ExportEverything, BeginRestore, UniqueTag, Snapshot,
                  CopyLog, CopyAssets, ReadSequences, ReadBefore, LockLog, SetAside, Load,
                  ApplySequences, ApplyFails, CommitFails, Compensate, Abandon
  <2>5. Restart => log' = log
      BY DEF Restart
  <2> QED
      BY <2>1, <2>2, <2>3, <2>4, <2>5 DEF RecoveryNext, Steps
<1> QED
    BY <1>1, RecoveryInvariant, PTL DEF RecoverySpec, LogNeverShrinks

-----------------------------------------------------------------------------
(* Nightly: the schedule, the folders kept and the targets.                 *)

RunSteps == {"export", "cleared", "published", "drive", "github", "trim", "record", "failed"}
NightRun == [by : {"scheduler", "admin"}, of : Runs, pc : RunSteps, ok : SUBSET Enabled]

\* Runs are numbered as they begin.
BegunInOrder ==
    /\ \A i, j \in Runs : i <= j => begun[i] <= begun[j]
    /\ \A i \in Runs : begun[i] <= now

\* The run that holds the lock is the last that began, and is not recorded yet.
RunIsLast == run # None => run.of = Len(begun) /\ \A t \in Targets : state.last[t] < run.of

\* From its rename on, the day's folder is this run's.
FolderIsTheRuns ==
    run # None /\ run.pc \in {"published", "drive", "github", "trim", "record"} =>
        local[Today] = run.of

\* Drive never holds a newer backup of a day than the folder it is copied from.
DriveLags == \A d \in Days : local[d] # 0 => drive[d] <= local[d]

\* Only a push to GitHub trims its history.
TrimMeansGitHub == run # None /\ run.pc = "trim" => "github" \in Enabled

\* What a run counts as pushed is there.
TipIs(r) == hub # <<>> /\ hub[Len(hub)].of >= r
PushesAreThere ==
    run # None =>
        /\ "drive" \in run.ok =>
              /\ run.pc \in {"github", "trim", "record"}
              /\ \A d \in Days : local[d] # 0 => drive[d] = local[d]
        /\ "github" \in run.ok => run.pc = "record"
        /\ "github" \in run.ok \/ run.pc = "trim" => TipIs(run.of)

\* What is recorded as held is held.
LocalHeld == state.last["local"] = 0 \/ cleared \/ \E d \in Days : local[d] >= state.last["local"]
DriveHeld ==
    "drive" \in Enabled =>
        state.last["drive"] = 0 \/ \E d \in Days : drive[d] >= state.last["drive"]
HubHeld == "github" \in Enabled => state.last["github"] = 0 \/ TipIs(state.last["github"])

NightlyInductive ==
    /\ NightlyTypeOK /\ BegunInOrder /\ RunIsLast /\ FolderIsTheRuns /\ DriveLags
    /\ TrimMeansGitHub /\ PushesAreThere /\ LocalHeld /\ DriveHeld /\ HubHeld /\ DriveCatchesUp
-----------------------------------------------------------------------------
(* The clock, the days and a run.                                           *)

LEMMA DayTyped ==
    ASSUME NEW h \in Hours
    PROVE  DayOf(h) \in Days
<1> DEFINE n == HoursPerDay
           a == h \div n
           b == LastHour \div n
<1>1. n \in Nat /\ n > 0 /\ h \in Nat /\ LastHour \in Nat /\ h <= LastHour
    BY NightlyFits DEF Hours
<1>2. /\ a \in Nat /\ b \in Nat
      /\ n * a <= h /\ LastHour < n * (b + 1)
    BY <1>1, Z3
<1>3. a <= b
  <2>1. SUFFICES ASSUME a >= b + 1 PROVE FALSE
      BY <1>2
  <2>2. n * a >= n * (b + 1)
      BY <1>1, <1>2, <2>1, Z3
  <2> QED
      BY <1>1, <1>2, <2>2, Z3
<1> QED
    BY <1>2, <1>3 DEF DayOf, Days
\* The commits on the branch, as sequences.
LEMMA Widened == ASSUME NEW S, NEW T, S \subseteq T, NEW q \in Seq(S) PROVE q \in Seq(T)
OBVIOUS

LEMMA Appended ==
    ASSUME NEW S, NEW q \in Seq(S), NEW e \in S
    PROVE  /\ Append(q, e) \in Seq(S) /\ <<e>> \in Seq(S)
           /\ Len(Append(q, e)) = Len(q) + 1 /\ Append(q, e)[Len(q) + 1] = e
           /\ Append(q, e) # <<>>
OBVIOUS

LEMMA RunFacts ==
    ASSUME NightlyTypeOK, run # None
    PROVE  /\ run \in NightRun /\ run.of \in Runs /\ begun[run.of] \in Hours
           /\ Today \in Days /\ Today \in Nat
<1>1. run \in NightRun /\ run.of \in Runs
    BY DEF NightlyTypeOK, NightRun, RunSteps
<1>2. begun[run.of] \in Hours
    BY <1>1 DEF NightlyTypeOK, Runs
<1> QED
    BY <1>1, <1>2, DayTyped DEF Today, RunDay, Days

\* A run takes the next number and the lock; nothing else moves.
Begins ==
    /\ run = None /\ \E by \in {"scheduler", "admin"} : BeginRun(by)
    /\ UNCHANGED <<now, local, cleared, drive, hub, state>>

\* The scheduler alone, or the clock.
Waits ==
    /\ UNCHANGED <<begun, run, local, cleared, drive, hub, state>>
    /\ now' \in {now, now + 1}

LEMMA Begun ==
    ASSUME NightlyTypeOK, NEW by \in {"scheduler", "admin"}, BeginRun(by)
    PROVE  /\ begun' \in Seq(Hours) /\ Len(begun') = Len(begun) + 1
           /\ Runs' = Runs \cup {Len(begun) + 1} /\ Runs \subseteq Runs'
           /\ \A i \in Runs : begun'[i] = begun[i]
           /\ begun'[Len(begun) + 1] = now
           /\ run'.of = Len(begun) + 1 /\ run'.pc = "export" /\ run'.ok = {}
           /\ run' \in NightRun'
<1>1. begun \in Seq(Hours) /\ now \in Hours
    BY DEF NightlyTypeOK
<1>2. /\ begun' \in Seq(Hours) /\ Len(begun') = Len(begun) + 1
      /\ \A i \in Runs : begun'[i] = begun[i]
      /\ begun'[Len(begun) + 1] = now
    BY <1>1 DEF BeginRun, Runs
<1>3. Runs' = Runs \cup {Len(begun) + 1}
    BY <1>1, <1>2 DEF Runs
<1>4. run' \in NightRun'
    BY <1>2, <1>3 DEF BeginRun, NightRun, RunSteps
<1> QED
    BY <1>2, <1>3, <1>4 DEF BeginRun

LEMMA NextIs ==
    ASSUME NightlyTypeOK, [NightlyNext]_nightlyVars
    PROVE  \/ Begins \/ Waits \/ Clear \/ Publish \/ Prune \/ PushDrive \/ PushGitHub \/ Trim
           \/ RecordRun \/ Die
<1>1. UNCHANGED nightlyVars => Waits
    BY DEF nightlyVars, Waits
<1>2. BackupNow => Begins
    BY DEF BackupNow, Begins, folders
<1>3. Boot => Begins \/ Waits
    BY DEF Boot, Fires, Begins, Waits, folders
<1>4. Tick => Begins \/ Waits
    BY DEF Tick, Fires, Begins, Waits, folders
<1>5. Start \/ Hour => Waits
    BY DEF Start, Hour, Waits, clock, folders
<1> QED
    BY <1>1, <1>2, <1>3, <1>4, <1>5 DEF NightlyNext

-----------------------------------------------------------------------------
(* Every value is one the program can hold.                                 *)

\* The run goes on, with perhaps one more target pushed to.
LEMMA RunGoesOn ==
    ASSUME NightlyTypeOK, run # None, NEW pc \in RunSteps, NEW ok \in SUBSET Enabled
    PROVE  /\ [run EXCEPT !.pc = pc, !.ok = ok] \in NightRun
           /\ [run EXCEPT !.pc = pc] \in NightRun
           /\ [run EXCEPT !.pc = pc].pc = pc
           /\ [run EXCEPT !.pc = pc].of = run.of
           /\ [run EXCEPT !.pc = pc].ok = run.ok
           /\ [run EXCEPT !.pc = pc, !.ok = ok].pc = pc
           /\ [run EXCEPT !.pc = pc, !.ok = ok].of = run.of
           /\ [run EXCEPT !.pc = pc, !.ok = ok].ok = ok
BY RunFacts DEF NightRun

State == [last : [Targets -> {0} \cup Runs], bad : [Targets -> {0} \cup Runs], ran : BOOLEAN]

LEMMA RecordedTyped ==
    ASSUME NightlyTypeOK, run # None, NEW ok \in SUBSET Targets
    PROVE  /\ Recorded(ok) \in State
           /\ \A t \in Targets : Recorded(ok).last[t] = IF t \in ok THEN run.of ELSE state.last[t]
           /\ Recorded(ok).ran
<1>1. run.of \in Runs /\ state \in State
    BY RunFacts DEF NightlyTypeOK, State
<1>2. PICK tried \in SUBSET Targets : tried = IF "local" \in ok THEN Targets ELSE {"local"}
    BY DEF Targets
<1>3. Recorded(ok) =
        [last |-> [t \in Targets |-> IF t \in ok THEN run.of ELSE state.last[t]],
         bad |-> [t \in Targets |-> IF t \in ok THEN 0
                                    ELSE IF t \in tried THEN run.of ELSE state.bad[t]],
         ran |-> TRUE]
    BY <1>2 DEF Recorded
<1>4. /\ [t \in Targets |-> IF t \in ok THEN run.of ELSE state.last[t]] \in [Targets -> {0} \cup Runs]
      /\ [t \in Targets |-> IF t \in ok THEN 0 ELSE IF t \in tried THEN run.of ELSE state.bad[t]]
             \in [Targets -> {0} \cup Runs]
    BY <1>1 DEF State
<1> QED
    BY <1>3, <1>4 DEF State

LEMMA NoStateTyped == NoState \in State /\ \A t \in Targets : NoState.last[t] = 0
BY DEF NoState, State

LEMMA CopiedTyped ==
    ASSUME NightlyTypeOK, NEW some \in SUBSET Days
    PROVE  /\ Copied(some) \in [Days -> {0} \cup Runs]
           /\ \A d \in Days : Copied(some)[d] = IF d \in some /\ local[d] # 0 THEN local[d] ELSE drive[d]
BY DEF NightlyTypeOK, Copied, Offered

\* What the steps of a run leave of the number of what happened.
LEMMA FailsTyped == ASSUME NightlyTypeOK, Fails PROVE faults' \in 0..MaxFaults
BY NightlyFits DEF NightlyTypeOK, Fails

LEMMA TypeStep ==
    ASSUME NightlyTypeOK, TrimMeansGitHub, [NightlyNext]_nightlyVars
    PROVE  NightlyTypeOK'
<1> DEFINE Clocks == now' \in Hours /\ begun' \in Seq(Hours) /\ manual' \in 0..MaxManual
           Places == {local', drive'} \subseteq [Days -> {0} \cup Runs'] /\ cleared' \in BOOLEAN
           Hub == hub' \in Seq([of : Runs', at : Hours])
           Loop == scheduler' \in [at : {"down", "boot", "loop", "run"}, lastRun : Days \cup {None}]
           Held == run' = None \/ run' \in NightRun'
           Told == state' \in State'
           Faults == faults' \in 0..MaxFaults
<1>1. SUFFICES Clocks /\ Places /\ Hub /\ Loop /\ Held /\ Told /\ Faults
    BY DEF NightlyTypeOK, NightRun, RunSteps, State
<1>2. UNCHANGED begun => Runs' = Runs /\ NightRun' = NightRun /\ State' = State
    BY DEF Runs, NightRun, State
<1>3. CASE UNCHANGED nightlyVars
    BY <1>2, <1>3 DEF nightlyVars, NightlyTypeOK, NightRun, RunSteps, State
<1>4. ASSUME NEW by \in {"scheduler", "admin"}, BeginRun(by), UNCHANGED <<now, local, cleared, drive, hub, state>>
      PROVE  begun' \in Seq(Hours) /\ Places /\ Hub /\ Held /\ Told
  <2>1. Runs \subseteq Runs' /\ begun' \in Seq(Hours) /\ run' \in NightRun'
      BY <1>4, Begun
  <2>2. Places
      BY <1>4, <2>1 DEF NightlyTypeOK
  <2>3. Hub
    <3>1. hub \in Seq([of : Runs, at : Hours])
        BY DEF NightlyTypeOK
    <3>2. [of : Runs, at : Hours] \subseteq [of : Runs', at : Hours]
        BY <2>1
    <3> QED
        BY <1>4, <3>1, <3>2, Widened
  <2>4. Told
      BY <1>4, <2>1 DEF NightlyTypeOK, State
  <2> QED
      BY <2>1, <2>2, <2>3, <2>4
<1>5. CASE BackupNow
  <2>1. Faults /\ Loop /\ Clocks
      BY <1>4, <1>5, NightlyFits DEF BackupNow, NightlyTypeOK, folders
  <2> QED
      BY <1>4, <1>5, <2>1 DEF BackupNow, folders
<1>6. CASE Boot
  <2>1. Faults /\ Loop
    <3>1. Loop
        BY <1>6 DEF Boot, NightlyTypeOK
    <3>2. faults \in 0..MaxFaults /\ MaxFaults \in Nat
        BY NightlyFits DEF NightlyTypeOK
    <3>3. faults' = faults \/ (faults < MaxFaults /\ faults' = faults + 1)
        BY <1>6 DEF Boot
    <3> QED
        BY <3>1, <3>2, <3>3
  <2>2. CASE UNCHANGED <<begun, run>>
      BY <1>2, <1>6, <2>1, <2>2 DEF Boot, NightlyTypeOK, folders, NightRun, RunSteps, State
  <2>3. CASE BeginRun("scheduler")
    <3>1. Places /\ Hub /\ Held /\ Told /\ begun' \in Seq(Hours)
        BY <1>4, <1>6, <2>3 DEF Boot, folders
    <3> QED
        BY <1>6, <2>1, <3>1 DEF Boot, NightlyTypeOK
  <2> QED
      BY <1>6, <2>2, <2>3 DEF Boot, Fires
<1>7. CASE Tick
  <2>1. Faults /\ Loop
      BY <1>7, DayTyped DEF Tick, NightlyTypeOK
  <2>2. CASE UNCHANGED <<begun, run>>
      BY <1>2, <1>7, <2>1, <2>2 DEF Tick, NightlyTypeOK, folders, NightRun, RunSteps, State
  <2>3. CASE BeginRun("scheduler")
    <3>1. Places /\ Hub /\ Held /\ Told /\ begun' \in Seq(Hours)
        BY <1>4, <1>7, <2>3 DEF Tick, folders
    <3> QED
        BY <1>7, <2>1, <3>1 DEF Tick, NightlyTypeOK
  <2> QED
      BY <1>7, <2>2, <2>3 DEF Tick, Fires
<1>8. CASE Start
    BY <1>2, <1>8 DEF Start, NightlyTypeOK, clock, folders, NightRun, RunSteps, State
<1>9. CASE Hour
  <2>1. Faults
      BY <1>9, FailsTyped DEF Hour, NightlyTypeOK
  <2> QED
      BY <1>2, <1>9, <2>1 DEF Hour, NightlyTypeOK, folders, NightRun, RunSteps, State
<1>10. CASE Die
  <2>1. Faults /\ Loop
      BY <1>10, FailsTyped DEF Die, NightlyTypeOK
  <2>2. Told
      BY <1>2, <1>10, NoStateTyped DEF Die, NightlyTypeOK, clock, State
  <2> QED
      BY <1>2, <1>10, <2>1, <2>2 DEF Die, NightlyTypeOK, clock, folders
<1>11. CASE Clear \/ Publish
  <2>1. run # None /\ Today \in Days /\ run.of \in Runs
      BY <1>11, RunFacts DEF Clear, Publish
  <2>2. Held
      BY <1>2, <1>11, RunGoesOn, ZenonT(30) DEF Clear, Publish, Goes, clock, RunSteps
  <2>3. Faults
      BY <1>11, FailsTyped DEF Clear, Publish, NightlyTypeOK
  <2>4. Places
      BY <1>2, <1>11, <2>1, ZenonT(30) DEF Clear, Publish, NightlyTypeOK, clock, folders
  <2> QED
      BY <1>2, <1>11, <2>2, <2>3, <2>4 DEF Clear, Publish, NightlyTypeOK, clock, folders, State
<1>12. CASE Prune
  <2>1. Held
      BY <1>2, <1>12, RunGoesOn DEF Prune, Goes, clock, RunSteps
  <2>2. Places
      BY <1>2, <1>12 DEF Prune, NightlyTypeOK, clock
  <2> QED
      BY <1>2, <1>12, <2>1, <2>2 DEF Prune, NightlyTypeOK, clock, State
<1>13. CASE PushDrive
  <2>1. run # None /\ run \in NightRun
      BY <1>13, RunFacts DEF PushDrive
  <2>2. run.ok \in SUBSET Enabled
      BY <2>1 DEF NightRun
  <2>3. Held
    <3>1. CASE Goes("github")
        BY <1>2, <1>13, <2>1, <3>1, RunGoesOn DEF PushDrive, Goes, clock, RunSteps
    <3>2. CASE "drive" \in Enabled /\ run' = [run EXCEPT !.pc = "github", !.ok = @ \cup {"drive"}]
      <4>1. PICK ok \in SUBSET Enabled : ok = run.ok \cup {"drive"}
          BY <2>2, <3>2
      <4>2. run' = [run EXCEPT !.pc = "github", !.ok = ok]
          BY <3>2, <4>1
      <4>3. [run EXCEPT !.pc = "github", !.ok = ok] \in NightRun
          BY <2>1, RunGoesOn DEF RunSteps
      <4> QED
          BY <1>2, <1>13, <4>2, <4>3 DEF PushDrive, clock
    <3> QED
        BY <1>13, <3>1, <3>2 DEF PushDrive
  <2>4. Faults
      BY <1>13, FailsTyped DEF PushDrive, NightlyTypeOK
  <2>5. Places
      BY <1>2, <1>13, CopiedTyped DEF PushDrive, NightlyTypeOK, clock, folders
  <2> QED
      BY <1>2, <1>13, <2>3, <2>4, <2>5 DEF PushDrive, NightlyTypeOK, clock, State
<1>14. CASE PushGitHub
  <2>1. run # None /\ run.of \in Runs /\ now \in Hours
      BY <1>14, RunFacts DEF PushGitHub, NightlyTypeOK
  <2>2. Held
      BY <1>2, <1>14, <2>1, RunGoesOn, ZenonT(30) DEF PushGitHub, Goes, clock, RunSteps
  <2>3. Faults
      BY <1>14, FailsTyped DEF PushGitHub, NightlyTypeOK
  <2>4. Hub
    <3> DEFINE C == [of : Runs, at : Hours]
               c == [of |-> run.of, at |-> now]
    <3>1. c \in C
        BY <2>1
    <3>2. hub \in Seq(C)
        BY DEF NightlyTypeOK
    <3>3. hub' = hub \/ hub' = Append(hub, c)
        BY <1>14 DEF PushGitHub
    <3>4. Hub <=> hub' \in Seq(C)
        BY <1>2, <1>14 DEF PushGitHub, clock
    <3> HIDE DEF C, c
    <3>5. hub' \in Seq(C)
        BY <3>1, <3>2, <3>3, Appended
    <3> QED
        BY <3>4, <3>5
  <2> QED
      BY <1>2, <1>14, <2>2, <2>3, <2>4 DEF PushGitHub, NightlyTypeOK, clock, folders, State
<1>15. CASE Trim
  <2>1. run # None /\ run.of \in Runs /\ now \in Hours /\ run.ok \in SUBSET Enabled
      BY <1>15, RunFacts DEF Trim, NightlyTypeOK, NightRun
  <2>2. Held
    <3>1. PICK ok \in SUBSET Enabled : ok = run.ok \cup {"github"}
        BY <1>15, <2>1 DEF TrimMeansGitHub, Trim
    <3>2. run' = [run EXCEPT !.pc = "record", !.ok = ok] \/ run' = [run EXCEPT !.pc = "record"]
        BY <1>15, <3>1 DEF Trim, PushedHub, Goes
    <3>3. [run EXCEPT !.pc = "record", !.ok = ok] \in NightRun /\ [run EXCEPT !.pc = "record"] \in NightRun
        BY <2>1, RunGoesOn DEF RunSteps
    <3> QED
        BY <1>2, <1>15, <3>2, <3>3 DEF Trim, clock
  <2>3. Faults
      BY <1>15, FailsTyped DEF Trim, NightlyTypeOK
  <2>4. Hub
    <3> DEFINE C == [of : Runs, at : Hours]
               c == [of |-> run.of, at |-> now]
    <3>1. c \in C
        BY <2>1
    <3>2. hub \in Seq(C)
        BY DEF NightlyTypeOK
    <3>3. hub' = hub \/ hub' = <<c>>
        BY <1>15 DEF Trim
    <3>4. Hub <=> hub' \in Seq(C)
        BY <1>2, <1>15 DEF Trim, clock
    <3> HIDE DEF C, c
    <3>5. hub' \in Seq(C)
        BY <3>1, <3>2, <3>3, Appended
    <3> QED
        BY <3>4, <3>5
  <2> QED
      BY <1>2, <1>15, <2>2, <2>3, <2>4 DEF Trim, NightlyTypeOK, clock, folders, State
<1>16. CASE RecordRun
  <2>1. run # None /\ run.ok \in SUBSET Enabled
      BY <1>16, RunFacts DEF RecordRun, NightRun
  <2>2. {"local"} \cup run.ok \in SUBSET Targets /\ {} \in SUBSET Targets
      BY <2>1 DEF Targets
  <2>3. Told
      BY <1>2, <1>16, <2>1, <2>2, RecordedTyped DEF RecordRun, clock
  <2>4. Loop
      BY <1>16 DEF RecordRun, NightlyTypeOK
  <2> QED
      BY <1>2, <1>16, <2>3, <2>4 DEF RecordRun, NightlyTypeOK, clock, folders
<1> QED
    BY <1>3, <1>5, <1>6, <1>7, <1>8, <1>9, <1>10, <1>11, <1>12, <1>13, <1>14, <1>15, <1>16
    DEF NightlyNext
-----------------------------------------------------------------------------
(* What each step of a run leaves, in the terms of the invariant.           *)

\* The same run, the hour it began and what was recorded before it.
SameRun ==
    /\ run # None /\ run'.of = run.of /\ Today' = Today
    /\ UNCHANGED <<now, begun, state>>

LEMMA PcChanges ==
    ASSUME NightlyTypeOK, run # None, NEW pc \in RunSteps, Goes(pc)
    PROVE  run'.pc = pc /\ run'.of = run.of /\ run'.ok = run.ok
BY RunGoesOn DEF Goes

LEMMA ClearIs ==
    ASSUME NightlyTypeOK, Clear
    PROVE  /\ SameRun /\ UNCHANGED <<drive, hub>> /\ run'.ok = run.ok /\ run.pc = "export"
           /\ run'.pc \in {"cleared", "failed"}
           /\ \A d \in Days : local'[d] = local[d] \/ local'[d] = 0
           /\ \A d \in Days : local'[d] = local[d] \/ cleared'
           /\ cleared => cleared'
<1>1. run # None /\ Today \in Days /\ local \in [Days -> {0} \cup Runs]
    BY RunFacts DEF NightlyTypeOK, Clear
<1>2. run'.of = run.of /\ run'.ok = run.ok /\ run'.pc \in {"cleared", "failed"}
    BY <1>1, PcChanges DEF Clear, RunSteps
<1>3. SameRun
    BY <1>1, <1>2 DEF SameRun, Clear, clock, Today, RunDay
<1>4. /\ \A d \in Days : local'[d] = local[d] \/ local'[d] = 0
      /\ \A d \in Days : local'[d] = local[d] \/ cleared'
      /\ cleared => cleared'
  <2>1. CASE /\ local' = [local EXCEPT ![Today] = 0]
             /\ cleared' = (cleared \/ local[Today] # 0)
    <3>1. \A d \in Days : local'[d] = IF d = Today THEN 0 ELSE local[d]
        BY <1>1, <2>1
    <3>2. cleared \/ local[Today] # 0 => cleared'
        BY <2>1
    <3> QED
        BY <1>1, <3>1, <3>2
  <2>2. CASE UNCHANGED <<local, cleared>>
      BY <2>2
  <2> QED
      BY <2>1, <2>2 DEF Clear, folders
<1> QED
    BY <1>2, <1>3, <1>4 DEF Clear

LEMMA PublishIs ==
    ASSUME NightlyTypeOK, Publish
    PROVE  /\ SameRun /\ UNCHANGED <<drive, hub>> /\ run'.ok = run.ok /\ run.pc = "cleared"
           /\ \/ /\ run'.pc = "published" /\ ~cleared'
                 /\ \A d \in Days : local'[d] = IF d = Today THEN run.of ELSE local[d]
              \/ run'.pc = "failed" /\ UNCHANGED <<local, cleared>>
<1>1. run # None /\ Today \in Days /\ local \in [Days -> {0} \cup Runs]
    BY RunFacts DEF NightlyTypeOK, Publish
<1>2. run'.of = run.of /\ run'.ok = run.ok
    BY <1>1, PcChanges DEF Publish, RunSteps
<1>3. SameRun
    BY <1>1, <1>2 DEF SameRun, Publish, clock, Today, RunDay
<1>4. \/ /\ run'.pc = "published" /\ ~cleared'
         /\ \A d \in Days : local'[d] = IF d = Today THEN run.of ELSE local[d]
      \/ run'.pc = "failed" /\ UNCHANGED <<local, cleared>>
    BY <1>1, PcChanges DEF Publish, RunSteps, folders
<1> QED
    BY <1>2, <1>3, <1>4 DEF Publish

LEMMA PruneIs ==
    ASSUME NightlyTypeOK, Prune
    PROVE  /\ SameRun /\ UNCHANGED <<drive, hub, cleared>> /\ run'.ok = run.ok
           /\ run.pc = "published" /\ run'.pc = "drive"
           /\ \A d \in Days : local'[d] = local[d] \/ (d # Today /\ local'[d] = 0)
<1>1. run # None
    BY DEF Prune
<1>2. run'.of = run.of /\ run'.ok = run.ok /\ run'.pc = "drive"
    BY <1>1, PcChanges DEF Prune, RunSteps
<1>3. SameRun
    BY <1>1, <1>2 DEF SameRun, Prune, clock, Today, RunDay
<1>4. \A d \in Days : local'[d] = local[d] \/ (d # Today /\ local'[d] = 0)
  <2>1. \A d \in Days : local'[d] = IF Prunable(d) THEN 0 ELSE local[d]
      BY DEF Prune
  <2>2. \A d \in Days : Prunable(d) => d # Today
      BY DEF Prunable
  <2> QED
      BY <2>1, <2>2
<1> QED
    BY <1>2, <1>3, <1>4 DEF Prune

LEMMA PushDriveIs ==
    ASSUME NightlyTypeOK, PushDrive
    PROVE  /\ SameRun /\ UNCHANGED <<local, cleared, hub>>
           /\ run.pc = "drive" /\ run'.pc = "github"
           /\ \A d \in Days : drive'[d] = drive[d] \/ (local[d] # 0 /\ drive'[d] = local[d])
           /\ \/ run'.ok = run.ok
              \/ /\ run'.ok = run.ok \cup {"drive"}
                 /\ \A d \in Days : local[d] # 0 => drive'[d] = local[d]
<1>1. run # None /\ run \in NightRun
    BY RunFacts DEF PushDrive
<1>2. CASE "drive" \notin Enabled
  <2>1. Goes("github") /\ drive' = drive
      BY <1>2 DEF PushDrive
  <2>2. run'.of = run.of /\ run'.ok = run.ok /\ run'.pc = "github"
      BY <1>1, <2>1, PcChanges DEF RunSteps
  <2> QED
      BY <1>1, <2>1, <2>2 DEF PushDrive, SameRun, clock, folders, Today, RunDay
<1>3. CASE "drive" \in Enabled /\ Goes("github") /\ \E some \in SUBSET Days : drive' = Copied(some)
  <2>1. run'.of = run.of /\ run'.ok = run.ok /\ run'.pc = "github"
      BY <1>1, <1>3, PcChanges DEF RunSteps
  <2>2. \A d \in Days : drive'[d] = drive[d] \/ (local[d] # 0 /\ drive'[d] = local[d])
      BY <1>3, CopiedTyped
  <2> QED
      BY <1>1, <2>1, <2>2 DEF PushDrive, SameRun, clock, folders, Today, RunDay
<1>4. CASE /\ "drive" \in Enabled /\ drive' = Copied(Days)
           /\ run' = [run EXCEPT !.pc = "github", !.ok = @ \cup {"drive"}]
  <2>1. PICK ok \in SUBSET Enabled : ok = run.ok \cup {"drive"}
      BY <1>1, <1>4 DEF NightRun
  <2>2. run' = [run EXCEPT !.pc = "github", !.ok = ok]
      BY <1>4, <2>1
  <2>3. run'.of = run.of /\ run'.ok = ok /\ run'.pc = "github"
      BY <1>1, <2>2 DEF NightRun
  <2>4. \A d \in Days : drive'[d] = IF local[d] # 0 THEN local[d] ELSE drive[d]
      BY <1>4, CopiedTyped
  <2> QED
      BY <1>1, <2>1, <2>3, <2>4 DEF PushDrive, SameRun, clock, folders, Today, RunDay
<1> QED
    BY <1>2, <1>3, <1>4 DEF PushDrive

LEMMA PushGitHubIs ==
    ASSUME NightlyTypeOK, PushGitHub
    PROVE  /\ SameRun /\ UNCHANGED <<local, cleared, drive>> /\ run'.ok = run.ok
           /\ run.pc = "github"
           /\ \/ run'.pc = "record" /\ hub' = hub
              \/ /\ run'.pc = "trim" /\ "github" \in Enabled
                 /\ hub' # <<>> /\ hub'[Len(hub')].of = run.of
<1>1. run # None /\ run.of \in Runs /\ hub \in Seq([of : Runs, at : Hours]) /\ now \in Hours
    BY RunFacts DEF PushGitHub, NightlyTypeOK
<1>2. run'.of = run.of /\ run'.ok = run.ok
    BY <1>1, PcChanges DEF PushGitHub, RunSteps
<1>3. SameRun
    BY <1>1, <1>2 DEF SameRun, PushGitHub, clock, Today, RunDay
<1>4. \/ run'.pc = "record" /\ hub' = hub
      \/ /\ run'.pc = "trim" /\ "github" \in Enabled
         /\ hub' = Append(hub, [of |-> run.of, at |-> now])
    BY <1>1, PcChanges DEF PushGitHub, RunSteps
<1> DEFINE c == [of |-> run.of, at |-> now]
<1>5. c \in [of : Runs, at : Hours] /\ c.of = run.of
    BY <1>1
<1> HIDE DEF c
<1>6. /\ Append(hub, c) # <<>> /\ Len(Append(hub, c)) = Len(hub) + 1
      /\ Append(hub, c)[Len(hub) + 1] = c
    BY <1>1, <1>5, Appended
<1>7. hub' = Append(hub, c) => hub' # <<>> /\ hub'[Len(hub')].of = run.of
    BY <1>5, <1>6
<1> QED
    BY <1>2, <1>3, <1>4, <1>7 DEF PushGitHub, folders, c

LEMMA TrimIs ==
    ASSUME NightlyTypeOK, TrimMeansGitHub, Trim
    PROVE  /\ SameRun /\ UNCHANGED <<local, cleared, drive>>
           /\ run.pc = "trim" /\ run'.pc = "record"
           /\ run'.ok \in {run.ok, run.ok \cup {"github"}}
           /\ hub' = hub \/ (hub' # <<>> /\ hub'[Len(hub')].of = run.of)
<1>1. run # None /\ run \in NightRun
    BY RunFacts DEF Trim
<1>2. PICK ok \in SUBSET Enabled : ok = run.ok \cup {"github"}
    BY <1>1 DEF TrimMeansGitHub, Trim, NightRun
<1>3. run' = [run EXCEPT !.pc = "record", !.ok = ok] \/ Goes("record")
    BY <1>2 DEF Trim, PushedHub
<1>4. run'.of = run.of /\ run'.pc = "record" /\ run'.ok \in {run.ok, ok}
    BY <1>1, <1>3 DEF NightRun, Goes
<1>5. SameRun
    BY <1>1, <1>4 DEF SameRun, Trim, clock, Today, RunDay
<1>6. hub' = hub \/ hub' = <<[of |-> run.of, at |-> now]>>
    BY DEF Trim
<1>7. hub' = hub \/ (hub' # <<>> /\ hub'[Len(hub')].of = run.of)
  <2>1. PICK c : c = [of |-> run.of, at |-> now]
      OBVIOUS
  <2>2. Len(<<c>>) = 1 /\ <<c>>[1] = c /\ <<c>> # <<>> /\ c.of = run.of
      BY <2>1
  <2> QED
      BY <1>6, <2>1, <2>2
<1> QED
    BY <1>2, <1>4, <1>5, <1>7 DEF Trim, folders

LEMMA RecordRunIs ==
    ASSUME NightlyTypeOK, RecordRun
    PROVE  /\ run # None /\ run' = None /\ UNCHANGED <<now, begun, local, cleared, drive, hub>>
           /\ state'.ran
           /\ \/ run.pc = "failed" /\ \A t \in Targets : state'.last[t] = state.last[t]
              \/ /\ run.pc = "record"
                 /\ \A t \in Targets : state'.last[t] =
                      IF t \in {"local"} \cup run.ok THEN run.of ELSE state.last[t]
<1>1. run # None /\ run \in NightRun
    BY RunFacts DEF RecordRun
<1>2. {"local"} \cup run.ok \in SUBSET Targets /\ {} \in SUBSET Targets
    BY <1>1 DEF Targets, NightRun
<1>3. CASE run.pc = "failed"
  <2>1. state' = Recorded({})
      BY <1>3 DEF RecordRun
  <2> QED
      BY <1>1, <1>2, <1>3, <2>1, RecordedTyped DEF RecordRun, clock, folders
<1>4. CASE run.pc = "record"
  <2>1. state' = Recorded({"local"} \cup run.ok)
      BY <1>4 DEF RecordRun
  <2> QED
      BY <1>1, <1>2, <1>4, <2>1, RecordedTyped DEF RecordRun, clock, folders
<1> QED
    BY <1>3, <1>4 DEF RecordRun

LEMMA DieIs ==
    ASSUME NightlyTypeOK, Die
    PROVE  /\ run' = None /\ UNCHANGED <<now, begun, local, cleared, drive, hub>>
           /\ \/ state' = state
              \/ ~state'.ran /\ \A t \in Targets : state'.last[t] = 0
BY DEF Die, NoState, clock, folders

LEMMA BeginsIs ==
    ASSUME NightlyTypeOK, Begins
    PROVE  /\ run = None /\ UNCHANGED <<now, local, cleared, drive, hub, state>>
           /\ Len(begun') = Len(begun) + 1 /\ Len(begun) \in Nat
           /\ Runs' = Runs \cup {Len(begun) + 1} /\ Runs = 1..Len(begun)
           /\ \A i \in Runs : begun'[i] = begun[i]
           /\ begun'[Len(begun) + 1] = now
           /\ run'.of = Len(begun) + 1 /\ run'.pc = "export" /\ run'.ok = {}
BY Begun DEF Begins, NightlyTypeOK, Runs
-----------------------------------------------------------------------------
(* The invariant, part by part.                                             *)

LEMMA Numbered ==
    ASSUME NightlyTypeOK
    PROVE  /\ Len(begun) \in Nat /\ now \in Nat /\ Runs = 1..Len(begun)
           /\ \A d \in Days : local[d] \in 0..Len(begun) /\ drive[d] \in 0..Len(begun)
           /\ \A t \in Targets : state.last[t] \in 0..Len(begun)
           /\ \A i \in Runs : begun[i] \in Nat
           /\ "local" \in Targets /\ Enabled \subseteq Targets
<1>1. begun \in Seq(Hours) /\ now \in Hours
    BY DEF NightlyTypeOK
<1>2. Len(begun) \in Nat /\ now \in Nat /\ Runs = 1..Len(begun) /\ \A i \in Runs : begun[i] \in Nat
  <2>1. Len(begun) \in Nat /\ \A i \in 1..Len(begun) : begun[i] \in Hours
      BY <1>1
  <2>2. Hours \subseteq Nat
      BY NightlyFits DEF Hours
  <2> QED
      BY <1>1, <2>1, <2>2 DEF Runs
<1>3. {0} \cup Runs = 0..Len(begun)
    BY <1>2
<1>4. \A d \in Days : local[d] \in {0} \cup Runs /\ drive[d] \in {0} \cup Runs
    BY DEF NightlyTypeOK
<1>5. \A t \in Targets : state.last[t] \in {0} \cup Runs
    BY DEF NightlyTypeOK
<1> QED
    BY <1>2, <1>3, <1>4, <1>5 DEF Targets

LEMMA RunNumber ==
    ASSUME NightlyTypeOK, RunIsLast, run # None
    PROVE  /\ run.of = Len(begun) /\ run.of \in Nat /\ run.of >= 1 /\ Today \in Days
           /\ \A t \in Targets : state.last[t] < run.of
BY RunFacts, Numbered DEF RunIsLast

LEMMA OrderStep ==
    ASSUME NightlyTypeOK, BegunInOrder, RunIsLast, TrimMeansGitHub, [NightlyNext]_nightlyVars
    PROVE  BegunInOrder' /\ RunIsLast' /\ TrimMeansGitHub'
<1>1. CASE Begins
  <2>1. BegunInOrder'
    <3>1. \A i \in Runs' : begun'[i] = IF i = Len(begun) + 1 THEN now ELSE begun[i]
        BY <1>1, BeginsIs, Numbered
    <3> QED
        BY <1>1, <3>1, BeginsIs, Numbered DEF BegunInOrder
  <2> QED
      BY <1>1, <2>1, BeginsIs, Numbered DEF RunIsLast, TrimMeansGitHub
<1>2. CASE Waits
  <2>1. Runs' = Runs
      BY <1>2 DEF Waits, Runs
  <2> QED
      BY <1>2, <2>1, Numbered DEF Waits, BegunInOrder, RunIsLast, TrimMeansGitHub
<1>3. CASE UNCHANGED <<now, begun>> /\ run' = None
  <2>1. Runs' = Runs
      BY <1>3 DEF Runs
  <2> QED
      BY <1>3, <2>1 DEF BegunInOrder, RunIsLast, TrimMeansGitHub
<1>4. CASE SameRun /\ (run'.pc = "trim" => "github" \in Enabled)
  <2>1. Runs' = Runs
      BY <1>4 DEF SameRun, Runs
  <2> QED
      BY <1>4, <2>1 DEF SameRun, BegunInOrder, RunIsLast, TrimMeansGitHub
<1> QED
    BY <1>1, <1>2, <1>3, <1>4, NextIs, ClearIs, PublishIs, PruneIs, PushDriveIs, PushGitHubIs,
       TrimIs, RecordRunIs, DieIs

LEMMA FolderStep ==
    ASSUME NightlyTypeOK, RunIsLast, TrimMeansGitHub, FolderIsTheRuns, DriveLags,
           [NightlyNext]_nightlyVars
    PROVE  FolderIsTheRuns' /\ DriveLags'
<1>1. CASE Begins
    BY <1>1, BeginsIs DEF FolderIsTheRuns, DriveLags
<1>2. CASE Waits
    BY <1>2 DEF Waits, FolderIsTheRuns, DriveLags, Today, RunDay
<1>3. CASE run' = None /\ UNCHANGED <<local, drive>>
    BY <1>3 DEF FolderIsTheRuns, DriveLags
<1>4. CASE Clear
  <2>1. \A d \in Days : local'[d] # 0 => local'[d] = local[d]
      BY <1>4, ClearIs
  <2> QED
      BY <1>4, <2>1, ClearIs DEF FolderIsTheRuns, DriveLags
<1>5. CASE Publish
  <2>1. Today \in Days /\ run.of = Len(begun) /\ Today' = Today /\ run'.of = run.of /\ drive' = drive
      BY <1>5, PublishIs, RunNumber DEF SameRun
  <2>2. DriveLags'
      BY <1>5, <2>1, PublishIs, Numbered DEF DriveLags
  <2>3. FolderIsTheRuns'
      BY <1>5, <2>1, PublishIs DEF FolderIsTheRuns
  <2> QED
      BY <2>2, <2>3
<1>6. CASE Prune
  <2>1. Today \in Days /\ Today' = Today /\ run'.of = run.of /\ drive' = drive /\ run # None
      BY <1>6, PruneIs, RunNumber DEF SameRun
  <2>2. local'[Today] = local[Today] /\ local[Today] = run.of
      BY <1>6, <2>1, PruneIs DEF FolderIsTheRuns
  <2>3. \A d \in Days : local'[d] # 0 => local'[d] = local[d]
      BY <1>6, PruneIs
  <2> QED
      BY <1>6, <2>1, <2>2, <2>3 DEF FolderIsTheRuns, DriveLags
<1>7. CASE PushDrive
  <2>1. run # None /\ Today' = Today /\ run'.of = run.of /\ local' = local /\ run.pc = "drive"
      BY <1>7, PushDriveIs DEF SameRun
  <2>2. FolderIsTheRuns'
      BY <2>1 DEF FolderIsTheRuns
  <2>3. DriveLags'
      BY <1>7, <2>1, PushDriveIs, Numbered DEF DriveLags
  <2> QED
      BY <2>2, <2>3
<1>8. CASE PushGitHub \/ Trim
  <2>1. /\ run # None /\ Today' = Today /\ run'.of = run.of /\ local' = local /\ drive' = drive
        /\ run.pc \in {"github", "trim"}
      BY <1>8, PushGitHubIs, TrimIs DEF SameRun
  <2> QED
      BY <2>1 DEF FolderIsTheRuns, DriveLags
<1> QED
    BY <1>1, <1>2, <1>3, <1>4, <1>5, <1>6, <1>7, <1>8, NextIs, RecordRunIs, DieIs

LEMMA PushStep ==
    ASSUME NightlyTypeOK, RunIsLast, TrimMeansGitHub, PushesAreThere, [NightlyNext]_nightlyVars
    PROVE  PushesAreThere'
<1>1. CASE Begins
    BY <1>1, BeginsIs DEF PushesAreThere
<1>2. CASE Waits
    BY <1>2 DEF Waits, PushesAreThere, TipIs
<1>3. CASE run' = None
    BY <1>3 DEF PushesAreThere
\* Before anything is pushed.
<1>4. CASE Clear \/ Publish \/ Prune
  <2>1. /\ run # None /\ run.pc \in {"export", "cleared", "published"} /\ run'.ok = run.ok
        /\ run'.pc \in {"cleared", "published", "failed", "drive"}
      BY <1>4, ClearIs, PublishIs, PruneIs DEF SameRun
  <2>2. "drive" \notin run'.ok /\ "github" \notin run'.ok
      BY <2>1 DEF PushesAreThere
  <2> QED
      BY <2>1, <2>2 DEF PushesAreThere
<1>5. CASE PushDrive
  <2>1. /\ run # None /\ run.pc = "drive" /\ run'.pc = "github"
        /\ "drive" \notin run.ok /\ "github" \notin run.ok
      BY <1>5, PushDriveIs DEF SameRun, PushesAreThere
  <2>2. /\ local' = local /\ "github" \notin run'.ok
        /\ "drive" \in run'.ok => \A d \in Days : local[d] # 0 => drive'[d] = local[d]
      BY <1>5, <2>1, PushDriveIs
  <2> QED
      BY <2>1, <2>2 DEF PushesAreThere
<1>6. CASE PushGitHub
  <2>1. /\ run # None /\ run.pc = "github" /\ run'.ok = run.ok /\ run'.pc \in {"record", "trim"}
        /\ run'.of = run.of /\ UNCHANGED <<local, drive>>
        /\ run'.pc = "trim" => hub' # <<>> /\ hub'[Len(hub')].of = run.of
      BY <1>6, PushGitHubIs DEF SameRun
  <2>2. run.of \in Nat
      BY <2>1, RunNumber
  <2>3. "github" \notin run.ok
      BY <2>1 DEF PushesAreThere
  <2> QED
      BY <2>1, <2>2, <2>3 DEF PushesAreThere, TipIs
<1>7. CASE Trim
  <2>1. /\ run # None /\ run.pc = "trim" /\ run'.pc = "record" /\ run'.of = run.of
        /\ UNCHANGED <<local, drive>>
        /\ run'.ok \in {run.ok, run.ok \cup {"github"}}
        /\ hub' = hub \/ (hub' # <<>> /\ hub'[Len(hub')].of = run.of)
      BY <1>7, TrimIs DEF SameRun
  <2>2. run.of \in Nat /\ TipIs(run.of)
      BY <2>1, RunNumber DEF PushesAreThere
  <2>3. hub' # <<>> /\ hub'[Len(hub')].of >= run.of
      BY <2>1, <2>2 DEF TipIs
  <2> QED
      BY <2>1, <2>3 DEF PushesAreThere, TipIs
<1> QED
    BY <1>1, <1>2, <1>3, <1>4, <1>5, <1>6, <1>7, NextIs, RecordRunIs, DieIs

LEMMA LocalStep ==
    ASSUME NightlyTypeOK, RunIsLast, TrimMeansGitHub, FolderIsTheRuns, LocalHeld,
           [NightlyNext]_nightlyVars
    PROVE  LocalHeld'
<1>1. CASE UNCHANGED <<local, cleared, state>>
    BY <1>1 DEF LocalHeld
<1>2. CASE Clear
  <2>1. state' = state /\ \A d \in Days : local'[d] = local[d] \/ cleared'
      BY <1>2, ClearIs DEF SameRun
  <2>2. cleared => cleared'
      BY <1>2, ClearIs
  <2> QED
      BY <2>1, <2>2 DEF LocalHeld
<1>3. CASE Publish
  <2>1. state' = state /\ run # None
      BY <1>3, PublishIs DEF SameRun
  <2>2. Today \in Days /\ run.of \in Nat /\ state.last["local"] < run.of /\ state.last["local"] \in Nat
      BY <2>1, RunNumber, Numbered
  <2>3. local'[Today] = run.of \/ UNCHANGED <<local, cleared>>
      BY <1>3, <2>2, PublishIs
  <2> QED
      BY <1>1, <2>1, <2>2, <2>3 DEF LocalHeld
<1>4. CASE Prune
  <2>1. state' = state /\ run # None /\ run.pc = "published"
      BY <1>4, PruneIs DEF SameRun
  <2>2. /\ Today \in Days /\ run.of \in Nat /\ state.last["local"] < run.of
        /\ state.last["local"] \in Nat
      BY <2>1, RunNumber, Numbered
  <2>3. local'[Today] = run.of
      BY <1>4, <2>1, <2>2, PruneIs DEF FolderIsTheRuns
  <2> QED
      BY <2>1, <2>2, <2>3 DEF LocalHeld
<1>5. CASE RecordRun
  <2>1. run # None /\ UNCHANGED <<local, cleared>>
      BY <1>5, RecordRunIs
  <2>2. CASE state'.last["local"] = state.last["local"]
      BY <2>1, <2>2 DEF LocalHeld
  <2>3. CASE run.pc = "record" /\ state'.last["local"] = run.of
    <3>1. Today \in Days /\ run.of \in Nat /\ local[Today] = run.of
        BY <2>1, <2>3, RunNumber DEF FolderIsTheRuns
    <3> QED
        BY <2>1, <2>3, <3>1 DEF LocalHeld
  <2> QED
      BY <1>5, <2>2, <2>3, RecordRunIs, Numbered
<1>6. CASE Die
    BY <1>1, <1>6, DieIs, Numbered DEF LocalHeld
<1> QED
    BY <1>1, <1>2, <1>3, <1>4, <1>5, <1>6, NextIs, BeginsIs, PushDriveIs, PushGitHubIs, TrimIs
    DEF Waits, SameRun

LEMMA DriveStep ==
    ASSUME NightlyTypeOK, RunIsLast, TrimMeansGitHub, FolderIsTheRuns, DriveLags, PushesAreThere,
           DriveHeld, [NightlyNext]_nightlyVars
    PROVE  DriveHeld'
<1> SUFFICES ASSUME "drive" \in Enabled PROVE DriveHeld'
    BY DEF DriveHeld
<1>1. CASE UNCHANGED <<drive, state>>
    BY <1>1 DEF DriveHeld
<1>2. CASE PushDrive
  <2>1. state' = state /\ \A d \in Days : drive'[d] >= drive[d]
      BY <1>2, PushDriveIs, Numbered DEF SameRun, DriveLags
  <2>2. \A d \in Days : drive'[d] \in Nat /\ drive[d] \in Nat
      BY <1>2, PushDriveIs, Numbered
  <2> QED
      BY <2>1, <2>2, Numbered DEF DriveHeld
<1>3. CASE RecordRun
  <2>1. run # None /\ drive' = drive
      BY <1>3, RecordRunIs
  <2>2. CASE state'.last["drive"] = state.last["drive"]
      BY <2>1, <2>2 DEF DriveHeld
  <2>3. CASE run.pc = "record" /\ "drive" \in run.ok /\ state'.last["drive"] = run.of
    <3>1. Today \in Days /\ run.of \in Nat /\ run.of # 0 /\ local[Today] = run.of
        BY <2>1, <2>3, RunNumber DEF FolderIsTheRuns
    <3>2. drive[Today] = run.of
        BY <2>1, <2>3, <3>1 DEF PushesAreThere
    <3> QED
        BY <2>1, <2>3, <3>1, <3>2 DEF DriveHeld
  <2> QED
      BY <1>3, <2>2, <2>3, RecordRunIs, Numbered
<1>4. CASE Die
    BY <1>1, <1>4, DieIs, Numbered DEF DriveHeld
<1> QED
    BY <1>1, <1>2, <1>3, <1>4, NextIs, BeginsIs, ClearIs, PublishIs, PruneIs, PushGitHubIs, TrimIs
    DEF Waits, SameRun

LEMMA HubStep ==
    ASSUME NightlyTypeOK, RunIsLast, TrimMeansGitHub, PushesAreThere, HubHeld,
           [NightlyNext]_nightlyVars
    PROVE  HubHeld'
<1> SUFFICES ASSUME "github" \in Enabled PROVE HubHeld'
    BY DEF HubHeld
<1>1. CASE UNCHANGED <<hub, state>>
    BY <1>1 DEF HubHeld, TipIs
<1>2. CASE PushGitHub \/ Trim
  <2>1. /\ state' = state /\ run # None
        /\ hub' = hub \/ (hub' # <<>> /\ hub'[Len(hub')].of = run.of)
      BY <1>2, PushGitHubIs, TrimIs DEF SameRun
  <2>2. /\ run.of \in Nat /\ state.last["github"] < run.of /\ state.last["github"] \in Nat
      BY <2>1, RunNumber, Numbered
  <2> QED
      BY <1>1, <2>1, <2>2 DEF HubHeld, TipIs
<1>3. CASE RecordRun
  <2>1. run # None /\ hub' = hub
      BY <1>3, RecordRunIs
  <2>2. CASE state'.last["github"] = state.last["github"]
      BY <2>1, <2>2 DEF HubHeld, TipIs
  <2>3. CASE run.pc = "record" /\ "github" \in run.ok /\ state'.last["github"] = run.of
      BY <2>1, <2>3 DEF HubHeld, PushesAreThere, TipIs
  <2> QED
      BY <1>3, <2>2, <2>3, RecordRunIs, Numbered
<1>4. CASE Die
    BY <1>1, <1>4, DieIs, Numbered DEF HubHeld
<1> QED
    BY <1>1, <1>2, <1>3, <1>4, NextIs, BeginsIs, ClearIs, PublishIs, PruneIs, PushDriveIs
    DEF Waits, SameRun

LEMMA CatchUpStep ==
    ASSUME NightlyTypeOK, RunIsLast, TrimMeansGitHub, PushesAreThere, DriveLags, DriveCatchesUp,
           [NightlyNext]_nightlyVars
    PROVE  DriveCatchesUp'
<1> SUFFICES ASSUME "drive" \in Enabled PROVE DriveCatchesUp'
    BY DEF DriveCatchesUp
<1>1. CASE UNCHANGED <<local, drive, state>>
    BY <1>1 DEF DriveCatchesUp
<1>2. CASE Clear \/ Prune
  <2>1. UNCHANGED <<drive, state>> /\ \A d \in Days : local'[d] # 0 => local'[d] = local[d]
      BY <1>2, ClearIs, PruneIs DEF SameRun
  <2> QED
      BY <2>1 DEF DriveCatchesUp
<1>3. CASE Publish
  <2>1. /\ UNCHANGED <<drive, state>> /\ run # None
        /\ \A d \in Days : local'[d] = local[d] \/ local'[d] = run.of
      BY <1>3, PublishIs DEF SameRun
  <2>2. state.last["drive"] \in Nat /\ run.of \in Nat /\ state.last["drive"] < run.of
      BY <2>1, RunNumber, Numbered
  <2> QED
      BY <2>1, <2>2 DEF DriveCatchesUp
<1>4. CASE PushDrive
  <2>1. /\ UNCHANGED <<local, state>>
        /\ \A d \in Days : drive'[d] = drive[d] \/ (local[d] # 0 /\ drive'[d] = local[d])
      BY <1>4, PushDriveIs DEF SameRun
  <2> QED
      BY <2>1, Numbered DEF DriveCatchesUp
<1>5. CASE RecordRun
  <2>1. run # None /\ UNCHANGED <<local, drive>>
      BY <1>5, RecordRunIs
  <2>2. CASE state'.last["drive"] = state.last["drive"]
      BY <2>1, <2>2 DEF DriveCatchesUp
  <2>3. CASE "drive" \in run.ok
    <3>1. \A d \in Days : local[d] # 0 => drive[d] = local[d]
        BY <2>1, <2>3 DEF PushesAreThere
    <3> QED
        BY <2>1, <3>1, Numbered DEF DriveCatchesUp
  <2> QED
      BY <1>5, <2>2, <2>3, RecordRunIs, Numbered
<1>6. CASE Die
  <2>1. UNCHANGED <<local, drive>> /\ (state' = state \/ state'.last["drive"] = 0)
      BY <1>6, DieIs, Numbered
  <2> QED
      BY <2>1, Numbered DEF DriveCatchesUp
<1> QED
    BY <1>1, <1>2, <1>3, <1>4, <1>5, <1>6, NextIs, BeginsIs, PushGitHubIs, TrimIs
    DEF Waits, SameRun
-----------------------------------------------------------------------------
(* What the picker offers.                                                  *)

LEMMA TipIsOffered ==
    ASSUME NightlyTypeOK
    PROVE  /\ VersionsOf("github") \subseteq Runs
           /\ hub # <<>> => hub[Len(hub)].of \in VersionsOf("github")
<1> DEFINE C == [of : Runs, at : Hours]
           page == Newest(hub)
<1>1. hub \in Seq(C) /\ PerPage \in Nat \ {0} /\ Len(hub) \in Nat
    BY NightlyFits DEF NightlyTypeOK
<1>2. \A c \in C : c.of \in Runs
    OBVIOUS
<1> HIDE DEF C
<1>3. /\ page \in Seq(C)
      /\ hub # <<>> => Len(page) >= 1 /\ page[Len(page)] = hub[Len(hub)]
  <2>1. CASE Len(hub) > PerPage
    <3> DEFINE m == Len(hub) - PerPage + 1
    <3>1. page = SubSeq(hub, m, Len(hub)) /\ m \in 1..Len(hub)
        BY <1>1, <2>1 DEF Newest
    <3>2. Len(page) = PerPage /\ page \in Seq(C)
        BY <1>1, <2>1, <3>1
    <3>3. page[PerPage] = hub[m + PerPage - 1]
        BY <1>1, <2>1, <3>1, <3>2
    <3> QED
        BY <1>1, <3>2, <3>3
  <2>2. CASE ~(Len(hub) > PerPage)
      BY <1>1, <2>2 DEF Newest
  <2> QED
      BY <2>1, <2>2
<1>4. VersionsOf("github") = {page[i].of : i \in 1..Len(page)}
    BY DEF VersionsOf
<1> HIDE DEF page
<1>5. \A i \in 1..Len(page) : page[i] \in C
    BY <1>3
<1>6. VersionsOf("github") \subseteq Runs
    BY <1>2, <1>4, <1>5
<1>7. ASSUME hub # <<>>
      PROVE  hub[Len(hub)].of \in VersionsOf("github")
  <2>1. Len(page) \in 1..Len(page)
      BY <1>3, <1>7
  <2> QED
      BY <1>3, <1>4, <1>7, <2>1
<1> QED
    BY <1>6, <1>7

LEMMA FoldersAreOffered ==
    ASSUME NightlyTypeOK
    PROVE  /\ VersionsOf("local") \subseteq Runs /\ VersionsOf("drive") \subseteq Runs
           /\ \A d \in Days : local[d] # 0 => local[d] \in VersionsOf("local")
           /\ \A d \in Days : drive[d] # 0 => drive[d] \in VersionsOf("drive")
<1>1. VersionsOf("local") = Folders(local) /\ VersionsOf("drive") = Folders(drive)
    BY DEF VersionsOf
<1> QED
    BY <1>1 DEF Folders, NightlyTypeOK

LEMMA HeldIsHeld == NightlyInductive => SuccessMeansHeld
<1> SUFFICES ASSUME NightlyInductive, NEW t \in Targets, state.last[t] # 0, ~(t = "local" /\ cleared)
             PROVE  Holds(t, state.last[t])
    BY DEF SuccessMeansHeld
<1>1. NightlyTypeOK /\ state.last[t] \in Nat
    BY Numbered DEF NightlyInductive
<1>2. CASE t = "local"
  <2>1. PICK d \in Days : local[d] >= state.last["local"]
      BY <1>2 DEF NightlyInductive, LocalHeld
  <2>2. local[d] # 0
      BY <1>1, <1>2, <2>1, Numbered
  <2> QED
      BY <1>1, <1>2, <2>1, <2>2, FoldersAreOffered DEF Holds
<1>3. CASE t = "drive" /\ "drive" \in Enabled
  <2>1. PICK d \in Days : drive[d] >= state.last["drive"]
      BY <1>3 DEF NightlyInductive, DriveHeld
  <2>2. drive[d] # 0
      BY <1>1, <1>3, <2>1, Numbered
  <2> QED
      BY <1>1, <1>3, <2>1, <2>2, FoldersAreOffered DEF Holds
<1>4. CASE t = "github" /\ "github" \in Enabled
  <2>1. TipIs(state.last["github"])
      BY <1>4 DEF NightlyInductive, HubHeld
  <2> QED
      BY <1>1, <1>4, <2>1, TipIsOffered DEF Holds, TipIs
<1> QED
    BY <1>2, <1>3, <1>4, NightlyFits DEF Targets

LEMMA SilenceIsSafe == NightlyInductive => SilenceMeansBackups
<1> SUFFICES ASSUME NightlyInductive, state.ran, ~Warned, NEW t \in Targets,
                    ~(t = "local" /\ cleared)
             PROVE  \E r \in VersionsOf(t) : begun[r] + StaleHours >= now
    BY DEF SilenceMeansBackups
<1>1. NightlyTypeOK /\ BegunInOrder /\ StaleHours \in Nat
    BY NightlyFits DEF NightlyInductive
<1>2. state.last[t] # 0 /\ ~Old(state.last[t])
    BY DEF Warned, Behind
<1>3. PICK r \in VersionsOf(t) : r >= state.last[t]
    BY <1>2, HeldIsHeld DEF SuccessMeansHeld, Holds
<1>4. r \in Runs
    BY <1>1, <1>3, TipIsOffered, FoldersAreOffered, NightlyFits DEF Targets
<1>5. state.last[t] \in Runs
    BY <1>1, <1>2, Numbered
<1>6. begun[state.last[t]] <= begun[r]
    BY <1>1, <1>3, <1>4, <1>5 DEF BegunInOrder
<1>7. now <= begun[state.last[t]] + StaleHours
    BY <1>1, <1>2, <1>5, Numbered DEF Old
<1> QED
    BY <1>1, <1>3, <1>4, <1>5, <1>6, <1>7, Numbered

-----------------------------------------------------------------------------
(* The theorems.                                                            *)

LEMMA InitNightly == NightlyInit => NightlyInductive
<1> SUFFICES ASSUME NightlyInit PROVE NightlyInductive
    OBVIOUS
<1>1. Len(begun) = 0 /\ Runs = {}
    BY DEF NightlyInit, Runs
<1>2. /\ now \in Hours /\ begun \in Seq(Hours) /\ hub \in Seq([of : Runs, at : Hours])
      /\ manual \in 0..MaxManual /\ faults \in 0..MaxFaults
    BY NightlyFits DEF NightlyInit, Hours
<1>3. NightlyTypeOK
    BY <1>1, <1>2 DEF NightlyInit, NightlyTypeOK, Nothing, NoState
<1>4. \A d \in Days : local[d] = 0 /\ drive[d] = 0
    BY DEF NightlyInit, Nothing
<1>5. \A t \in Targets : state.last[t] = 0
    BY DEF NightlyInit, NoState
<1>6. "local" \in Targets /\ Enabled \subseteq Targets
    BY DEF Targets
<1>7. run = None
    BY DEF NightlyInit
<1>8. /\ BegunInOrder /\ RunIsLast /\ FolderIsTheRuns /\ DriveLags /\ TrimMeansGitHub
      /\ PushesAreThere
    BY <1>1, <1>4, <1>7 DEF BegunInOrder, RunIsLast, FolderIsTheRuns, DriveLags,
                            TrimMeansGitHub, PushesAreThere
<1>9. LocalHeld /\ DriveHeld /\ HubHeld /\ DriveCatchesUp
    BY <1>4, <1>5, <1>6 DEF LocalHeld, DriveHeld, HubHeld, DriveCatchesUp
<1> QED
    BY <1>3, <1>8, <1>9 DEF NightlyInductive

\* What runs, pushes, pruning and deaths keep true between them: the invariant
\* the theorems below follow from.
THEOREM NightlyInvariant == NightlySpec => []NightlyInductive
<1>1. NightlyInductive /\ [NightlyNext]_nightlyVars => NightlyInductive'
    BY TypeStep, OrderStep, FolderStep, PushStep, LocalStep, DriveStep, HubStep, CatchUpStep
    DEF NightlyInductive
<1> QED
    BY <1>1, InitNightly, PTL DEF NightlySpec

\* Every folder, commit, run and record is one the program can hold.
THEOREM NightlyTyped == NightlySpec => []NightlyTypeOK
BY NightlyInvariant, PTL DEF NightlyInductive

\* recordBackupRun, Prune, pruneHistory and replaceBackupDir: a target recorded
\* as holding a backup holds it or a newer one, whatever failed or died since.
THEOREM RecordedMeansHeld == NightlySpec => []SuccessMeansHeld
BY NightlyInvariant, HeldIsHeld, PTL

\* Push to Drive copies the whole tree: a success leaves no earlier night behind.
THEOREM DriveIsCaughtUp == NightlySpec => []DriveCatchesUp
BY NightlyInvariant, PTL DEF NightlyInductive

\* computeBackupWarnings: no warning means a backup that is not stale everywhere.
THEOREM NoWarningMeansBackups == NightlySpec => []SilenceMeansBackups
BY NightlyInvariant, SilenceIsSafe, PTL

-----------------------------------------------------------------------------
(* Photos: the uploads folder and its mirror.  PhotosInductive has two     *)
(* halves that no action disturbs together: what uploads and restores keep *)
(* of the uploads folder, and what the mirror keeps of the generations.    *)

-----------------------------------------------------------------------------
(* The uploads folder.                                                      *)

Locked(u) == upload[u] # None /\ upload[u].pc # "wait"

\* lockPhoto: of two uploads of one photo, one waits.
OneUploadAPhoto ==
    \A u, v \in Uploaders : Locked(u) /\ Locked(v) /\ upload[u].row = upload[v].row => u = v

\* What an upload will remove is not its own name, and of its own photo; what
\* it would put back is there if the row names it.
UploadIsSound(u) ==
    Locked(u) =>
        /\ \A n \in upload[u].stale : n[1] = upload[u].row /\ n # Name(u)
        /\ upload[u].pc \in {"moved", "published"} /\ photoRow[upload[u].row] = upload[u].ext =>
              upload[u].backup # 0 \/ besides[upload[u].row] # {}
        /\ upload[u].pc \in {"published", "written"} => uploads[Name(u)] # 0
        /\ upload[u].pc = "written" => photoRow[upload[u].row] \in {"gone", upload[u].ext}

\* The picture a row names is in the folder, or beside it, or moved away by an
\* upload that has not yet put another in its place.
PictureIsKept(p) ==
    photoRow[p] \in Extensions =>
        \/ uploads[<<p, photoRow[p]>>] # 0
        \/ besides[p] # {}
        \/ \E u \in Uploaders : UploadAt(u, "moved") /\ upload[u].row = p /\ upload[u].ext = photoRow[p]

FolderIsSound ==
    /\ OneUploadAPhoto
    /\ \A u \in Uploaders : UploadIsSound(u)
    /\ \A p \in Pictured : PictureIsKept(p)

----------------------------------------------------------------------------
(* The generations.                                                        *)

\* There is a live generation once there is a mirror; the mirror copies into it,
\* or what a rollover has left to do is in it.
MirrorIsReal ==
    /\ current = None => mirror = None
    /\ current # None => gens[current] # None
    /\ mirror # None =>
          \/ mirror.pc = "copy" /\ mirror.into = current
          \/ /\ mirror.pc = "roll" /\ current # None /\ mirror.into # current
             /\ mirror.todo \subseteq FilesOf(gens[current])

\* Every name a generation has, the live one has; what a rollover has done is
\* in the generation it makes.
LiveCovers ==
    /\ current = None => \A g \in Nights : gens[g] = None
    /\ current # None =>
          \A g \in Nights : gens[g] # None => FilesOf(gens[g]) \subseteq FilesOf(gens[current])
    /\ mirror # None /\ mirror.pc = "roll" =>
          /\ gens[mirror.into] # None
          /\ FilesOf(gens[current]) \ mirror.todo \subseteq FilesOf(gens[mirror.into])

----------------------------------------------------------------------------
(* Types.                                                                  *)

\* A name is a row and an extension.
LEMMA NameParts ==
    ASSUME NEW p \in Pictured, NEW e \in Extensions
    PROVE  /\ <<p, e>> \in Names /\ <<p, e>>[1] = p
           /\ \A q \in Pictured, f \in Extensions : <<p, e>> = <<q, f>> => p = q /\ e = f
  BY DEF Names

\* An upload in flight is a record, and its name a name.
LEMMA UploadTyped ==
    ASSUME PhotosTypeOK, NEW u \in Uploaders, upload[u] # None
    PROVE  /\ upload[u] \in Upload
           /\ upload[u].row \in Pictured /\ upload[u].ext \in Extensions
           /\ upload[u].picture \in Pictures /\ upload[u].stale \subseteq Names
           /\ upload[u].backup \in {0} \cup Pictures
           /\ Name(u) \in Names /\ Name(u)[1] = upload[u].row
           /\ Name(u) = <<upload[u].row, upload[u].ext>>
  <1>1. upload[u] \in Upload
    BY DEF PhotosTypeOK
  <1>2. /\ upload[u].row \in Pictured /\ upload[u].ext \in Extensions
        /\ upload[u].picture \in Pictures /\ upload[u].stale \subseteq Names
        /\ upload[u].backup \in {0} \cup Pictures
    BY <1>1 DEF Upload
  <1> QED
    BY <1>1, <1>2, NameParts DEF Name

\* A generation that is made is a folder.
LEMMA MadeTyped ==
    ASSUME PhotosTypeOK, NEW g \in Nights
    PROVE  /\ Made(g) \in Folder /\ Made(g) # None
           /\ gens[g] # None => Made(g) = gens[g]
           /\ gens[g] = None => FilesOf(Made(g)) = {}
  <1>1. Empty \in Folder /\ FilesOf(Empty) = {}
    BY DEF Empty, Folder, FilesOf
  <1>2. gens[g] \in Folder \cup {None}
    BY DEF PhotosTypeOK
  <1> QED
    BY <1>1, <1>2, NoneIsNothing DEF Made

----------------------------------------------------------------------------
(* An upload's own step.                                                   *)

UploadIs(u, j) == upload' = [upload EXCEPT ![u] = j]

LEMMA UploadBecomes ==
    ASSUME PhotosTypeOK, NEW u \in Uploaders, NEW j \in Upload \cup {None}, UploadIs(u, j)
    PROVE  /\ upload' \in [Uploaders -> Upload \cup {None}] /\ upload'[u] = j
           /\ \A v \in Uploaders \ {u} : upload'[v] = upload[v]
  BY DEF PhotosTypeOK, UploadIs

LEMMA FolderParts ==
    ASSUME FolderIsSound
    PROVE  /\ \A u, v \in Uploaders : Locked(u) /\ Locked(v) /\ upload[u].row = upload[v].row => u = v
           /\ \A u \in Uploaders : UploadIsSound(u)
           /\ \A p \in Pictured : PictureIsKept(p)
  BY DEF FolderIsSound, OneUploadAPhoto

\* A step about the photo of row r leaves every other photo and upload as they
\* were: it is enough to look at its own.
LEMMA OthersKeep ==
    ASSUME PhotosTypeOK, FolderIsSound, NEW u \in Uploaders, NEW r \in Pictured,
           NEW j \in Upload \cup {None}, UploadIs(u, j),
           upload[u] # None, upload[u].row = r, j # None => j.row = r,
           \A v \in Uploaders \ {u} : Locked(v) => upload[v].row # r,
           \A n \in Names : n[1] # r => uploads'[n] = uploads[n],
           besides' = besides, \A p \in Pictured \ {r} : photoRow'[p] = photoRow[p],
           UploadIsSound(u)', PictureIsKept(r)'
    PROVE  FolderIsSound'
  <1>1. /\ upload'[u] = j
        /\ \A v \in Uploaders \ {u} : upload'[v] = upload[v]
    BY UploadBecomes
  <1>2. OneUploadAPhoto'
    <2> SUFFICES ASSUME NEW v \in Uploaders, NEW w \in Uploaders, v # w, Locked(v)', Locked(w)'
                 PROVE  upload'[v].row # upload'[w].row
      BY DEF OneUploadAPhoto
    <2>1. \A x \in Uploaders \ {u} : Locked(x)' => Locked(x) /\ upload'[x].row = upload[x].row
      BY <1>1 DEF Locked
    <2>2. Locked(u)' => upload'[u].row = r
      BY <1>1 DEF Locked
    <2>3. CASE v # u /\ w # u
      BY <2>1, <2>3, FolderParts
    <2>4. CASE v = u \/ w = u
      BY <2>1, <2>2, <2>4
    <2> QED
      BY <2>3, <2>4
  <1>3. ASSUME NEW v \in Uploaders PROVE UploadIsSound(v)'
    <2>1. CASE v = u
      BY <2>1
    <2>2. CASE v # u
      <3> SUFFICES ASSUME Locked(v)' PROVE UploadIsSound(v)'
        BY DEF UploadIsSound
      <3>1. upload'[v] = upload[v] /\ Locked(v) /\ upload[v] # None
        BY <1>1, <2>2 DEF Locked
      <3>2. upload[v].row \in Pictured \ {r} /\ Name(v) \in Names /\ Name(v)[1] = upload[v].row
        BY <2>2, <3>1, UploadTyped
      <3>3. /\ Name(v)' = Name(v) /\ uploads'[Name(v)] = uploads[Name(v)]
            /\ photoRow'[upload[v].row] = photoRow[upload[v].row]
        BY <3>1, <3>2 DEF Name
      <3>4. UploadIsSound(v)
        BY FolderParts
      <3> QED
        BY <3>1, <3>3, <3>4 DEF UploadIsSound
    <2> QED
      BY <2>1, <2>2
  <1>4. ASSUME NEW p \in Pictured PROVE PictureIsKept(p)'
    <2>1. CASE p = r
      BY <2>1
    <2>2. CASE p # r
      <3> SUFFICES ASSUME photoRow'[p] \in Extensions PROVE PictureIsKept(p)'
        BY DEF PictureIsKept
      <3>1. photoRow'[p] = photoRow[p]
        BY <2>2
      <3>2. <<p, photoRow[p]>> \in Names /\ <<p, photoRow[p]>>[1] = p
        BY <3>1, NameParts
      <3>3. uploads'[<<p, photoRow[p]>>] = uploads[<<p, photoRow[p]>>]
        BY <2>2, <3>2
      <3>4. PictureIsKept(p)
        BY FolderParts
      <3>5. CASE uploads[<<p, photoRow[p]>>] # 0 \/ besides[p] # {}
        BY <3>1, <3>3, <3>5 DEF PictureIsKept
      <3>6. CASE \E v \in Uploaders : UploadAt(v, "moved") /\ upload[v].row = p /\ upload[v].ext = photoRow[p]
        <4>1. PICK v \in Uploaders : UploadAt(v, "moved") /\ upload[v].row = p /\ upload[v].ext = photoRow[p]
          BY <3>6
        <4>2. v # u
          BY <2>2, <4>1
        <4>3. upload'[v] = upload[v]
          BY <1>1, <4>2
        <4> QED
          BY <3>1, <4>1, <4>3 DEF PictureIsKept, UploadAt
      <3> QED
        BY <3>1, <3>4, <3>5, <3>6 DEF PictureIsKept
    <2> QED
      BY <2>1, <2>2
  <1> QED
    BY <1>2, <1>3, <1>4 DEF FolderIsSound

\* While an upload holds a photo, no other does.
LEMMA Alone ==
    ASSUME FolderIsSound, NEW u \in Uploaders, Locked(u)
    PROVE  \A v \in Uploaders \ {u} : Locked(v) => upload[v].row # upload[u].row
  BY FolderParts

----------------------------------------------------------------------------
(* What each step of an upload makes of it.                                *)

LEMMA StagesIs ==
    ASSUME PhotosTypeOK, NEW u \in Uploaders, Stages(u)
    PROVE  \E j \in Upload :
              /\ UploadIs(u, j) /\ j.pc = "staged" /\ j.row = upload[u].row /\ j.ext = upload[u].ext
              /\ \A n \in j.stale : n[1] = upload[u].row /\ n # Name(u)
  <1> DEFINE stale == {n \in FilesOf(uploads) : n[1] = upload[u].row} \ {Name(u)}
  <1> DEFINE j == [upload[u] EXCEPT !.pc = "staged", !.stale = stale]
  <1>1. upload[u] \in Upload
    BY UploadTyped DEF Stages, UploadAt
  <1>2. stale \in SUBSET Names
    BY DEF FilesOf
  <1>3. \A n \in stale : n[1] = upload[u].row /\ n # Name(u)
    OBVIOUS
  <1>4. UploadIs(u, j)
    BY DEF Stages, UploadIs, PhotosTypeOK
  <1> HIDE DEF stale
  <1>5. j \in Upload /\ j.pc = "staged" /\ j.row = upload[u].row /\ j.ext = upload[u].ext /\ j.stale = stale
    BY <1>1, <1>2 DEF Upload
  <1> HIDE DEF j
  <1> QED
    BY <1>3, <1>4, <1>5

LEMMA MovesAwayIs ==
    ASSUME PhotosTypeOK, NEW u \in Uploaders, MovesAway(u)
    PROVE  \E j \in Upload :
              /\ UploadIs(u, j) /\ j.pc = "moved" /\ j.row = upload[u].row /\ j.ext = upload[u].ext
              /\ j.stale = upload[u].stale /\ j.backup = uploads[Name(u)]
  <1> DEFINE j == [upload[u] EXCEPT !.pc = "moved", !.backup = uploads[Name(u)]]
  <1>1. upload[u] \in Upload /\ Name(u) \in Names
    BY UploadTyped DEF MovesAway, UploadAt
  <1>2. uploads[Name(u)] \in {0} \cup Pictures
    BY <1>1 DEF PhotosTypeOK, Folder
  <1>3. UploadIs(u, j)
    BY DEF MovesAway, UploadIs, PhotosTypeOK
  <1>4. /\ j \in Upload /\ j.pc = "moved" /\ j.row = upload[u].row /\ j.ext = upload[u].ext
        /\ j.stale = upload[u].stale /\ j.backup = uploads[Name(u)]
    BY <1>1, <1>2 DEF Upload
  <1> HIDE DEF j
  <1> QED
    BY <1>3, <1>4

LEMMA MovesIs ==
    ASSUME PhotosTypeOK, NEW u \in Uploaders, upload[u] # None,
           NEW pc \in {"published", "written"}, Moves(u, pc)
    PROVE  \E j \in Upload :
              /\ UploadIs(u, j) /\ j.pc = pc /\ j.row = upload[u].row /\ j.ext = upload[u].ext
              /\ j.stale = upload[u].stale /\ j.backup = upload[u].backup
  <1> DEFINE j == [upload[u] EXCEPT !.pc = pc]
  <1>1. upload[u] \in Upload
    BY UploadTyped
  <1>2. UploadIs(u, j)
    BY DEF Moves, UploadIs, PhotosTypeOK
  <1>3. /\ j \in Upload /\ j.pc = pc /\ j.row = upload[u].row /\ j.ext = upload[u].ext
        /\ j.stale = upload[u].stale /\ j.backup = upload[u].backup
    BY <1>1 DEF Upload
  <1> HIDE DEF j
  <1> QED
    BY <1>2, <1>3

----------------------------------------------------------------------------
(* Each step keeps the folder sound.                                       *)

LEMMA SameUploads ==
    ASSUME FolderIsSound, UNCHANGED <<folder, upload>>
    PROVE  FolderIsSound'
  <1>1. \A u \in Uploaders : Locked(u)' = Locked(u) /\ Name(u)' = Name(u)
    BY DEF Locked, Name
  <1>2. OneUploadAPhoto'
    BY <1>1 DEF FolderIsSound, OneUploadAPhoto
  <1>3. ASSUME NEW u \in Uploaders PROVE UploadIsSound(u)'
    BY <1>1, FolderParts DEF UploadIsSound, folder
  <1>4. ASSUME NEW p \in Pictured PROVE PictureIsKept(p)'
    BY FolderParts DEF PictureIsKept, UploadAt, folder
  <1> QED
    BY <1>2, <1>3, <1>4 DEF FolderIsSound

LEMMA AsksKeeps ==
    ASSUME PhotosTypeOK, FolderIsSound, NEW u \in Uploaders, Asks(u)
    PROVE  FolderIsSound' /\ upload' \in [Uploaders -> Upload \cup {None}]
  <1>1. PICK row \in Pictured, ext \in Extensions :
            upload' = [upload EXCEPT ![u] = [row |-> row, ext |-> ext, picture |-> taken + 1,
                                             stale |-> {}, backup |-> 0, pc |-> "wait"]]
    BY DEF Asks
  <1> DEFINE j == [row |-> row, ext |-> ext, picture |-> taken + 1, stale |-> {}, backup |-> 0, pc |-> "wait"]
  <1>2. taken + 1 \in Pictures
    BY PhotosFit DEF PhotosTypeOK, Asks, Pictures
  <1>3. j \in Upload /\ j.pc = "wait"
    BY <1>2 DEF Upload
  <1>4. UploadIs(u, j)
    BY <1>1 DEF UploadIs
  <1> HIDE DEF j
  <1>5. /\ upload' \in [Uploaders -> Upload \cup {None}] /\ upload'[u] = j
        /\ \A v \in Uploaders \ {u} : upload'[v] = upload[v]
    BY <1>3, <1>4, UploadBecomes
  <1>6. /\ ~Locked(u)'
        /\ \A v \in Uploaders \ {u} : Locked(v)' = Locked(v) /\ Name(v)' = Name(v)
    BY <1>3, <1>5 DEF Locked, Name
  <1>7. uploads' = uploads /\ besides' = besides /\ photoRow' = photoRow /\ upload[u] = None
    BY DEF Asks, folder
  <1>8. OneUploadAPhoto'
    BY <1>5, <1>6 DEF FolderIsSound, OneUploadAPhoto
  <1>9. ASSUME NEW v \in Uploaders PROVE UploadIsSound(v)'
    <2>1. CASE v = u
      BY <1>6, <2>1 DEF UploadIsSound
    <2>2. CASE v # u
      BY <1>5, <1>6, <1>7, <2>2, FolderParts DEF UploadIsSound
    <2> QED
      BY <2>1, <2>2
  <1>10. ASSUME NEW p \in Pictured PROVE PictureIsKept(p)'
    <2>1. \A v \in Uploaders : UploadAt(v, "moved") => v # u /\ upload'[v] = upload[v]
      BY <1>5, <1>7 DEF UploadAt
    <2> QED
      BY <1>7, <2>1, FolderParts DEF PictureIsKept, UploadAt
  <1> QED
    BY <1>5, <1>8, <1>9, <1>10 DEF FolderIsSound

LEMMA StagesKeeps ==
    ASSUME PhotosTypeOK, FolderIsSound, NEW u \in Uploaders, Stages(u)
    PROVE  FolderIsSound' /\ upload' \in [Uploaders -> Upload \cup {None}]
  <1>1. PICK j \in Upload :
              /\ UploadIs(u, j) /\ j.pc = "staged" /\ j.row = upload[u].row /\ j.ext = upload[u].ext
              /\ \A n \in j.stale : n[1] = upload[u].row /\ n # Name(u)
    BY StagesIs
  <1>2. upload[u] # None /\ upload[u].pc = "wait" /\ uploads' = uploads /\ besides' = besides /\ photoRow' = photoRow
    BY DEF Stages, UploadAt, folder
  <1>3. \A v \in Uploaders \ {u} : Locked(v) => upload[v].row # upload[u].row
    BY DEF Stages, LockedBy, Locked
  <1>4. upload' \in [Uploaders -> Upload \cup {None}] /\ upload'[u] = j
    BY <1>1, UploadBecomes
  <1>5. UploadIsSound(u)'
    BY <1>1, <1>4 DEF UploadIsSound, Name
  <1>6. PICK r \in Pictured : r = upload[u].row
    BY <1>2, UploadTyped
  <1>7. PictureIsKept(r)'
    <2>1. \A v \in Uploaders \ {u} : upload'[v] = upload[v]
      BY <1>1, UploadBecomes
    <2>2. ~UploadAt(u, "moved")
      BY <1>2 DEF UploadAt
    <2>3. PictureIsKept(r)
      BY FolderParts
    <2> QED
      BY <1>2, <2>1, <2>2, <2>3 DEF PictureIsKept, UploadAt
  <1> QED
    BY <1>1, <1>2, <1>3, <1>4, <1>5, <1>6, <1>7, OthersKeep

\* A locked upload's step, and the picture its row names.
LEMMA MovesAwayKeeps ==
    ASSUME PhotosTypeOK, FolderIsSound, NEW u \in Uploaders, MovesAway(u)
    PROVE  FolderIsSound' /\ uploads' \in Folder /\ upload' \in [Uploaders -> Upload \cup {None}]
  <1>1. PICK j \in Upload :
              /\ UploadIs(u, j) /\ j.pc = "moved" /\ j.row = upload[u].row /\ j.ext = upload[u].ext
              /\ j.stale = upload[u].stale /\ j.backup = uploads[Name(u)]
    BY MovesAwayIs
  <1>2. /\ upload[u] # None /\ upload[u].pc = "staged" /\ uploads' = [uploads EXCEPT ![Name(u)] = 0]
        /\ besides' = besides /\ photoRow' = photoRow
    BY DEF MovesAway, UploadAt
  <1>3. Locked(u) /\ uploads \in Folder
    BY <1>2 DEF Locked, PhotosTypeOK
  <1>4. upload' \in [Uploaders -> Upload \cup {None}] /\ upload'[u] = j
    BY <1>1, UploadBecomes
  <1>5. PICK r \in Pictured : r = upload[u].row
    BY <1>2, UploadTyped
  <1>6. PICK e \in Extensions : e = upload[u].ext
    BY <1>2, UploadTyped
  <1>7. /\ Name(u) = <<r, e>> /\ <<r, e>> \in Names /\ <<r, e>>[1] = r /\ Name(u)' = <<r, e>>
        /\ \A f \in Extensions : f # e => <<r, f>> # <<r, e>> /\ <<r, f>> \in Names
    BY <1>1, <1>4, <1>5, <1>6, NameParts DEF Name
  <1>8. uploads' \in Folder /\ \A n \in Names \ {<<r, e>>} : uploads'[n] = uploads[n]
    <2>1. uploads' = [uploads EXCEPT ![<<r, e>>] = 0]
      BY <1>2, <1>7
    <2>2. uploads \in Folder /\ <<r, e>> \in Names /\ 0 \in {0} \cup Pictures
      BY <1>3, <1>7
    <2> QED
      BY <2>1, <2>2 DEF Folder
  <1>9. UploadIsSound(u) /\ PictureIsKept(r)
    BY FolderParts
  <1>10. ~UploadAt(u, "moved") /\ \A v \in Uploaders \ {u} : UploadAt(v, "moved") => upload[v].row # r
    BY <1>2, <1>3, <1>5, Alone DEF UploadAt, Locked
  <1>11. photoRow[r] \in Extensions => uploads[<<r, photoRow[r]>>] # 0 \/ besides[r] # {}
    BY <1>9, <1>10 DEF PictureIsKept
  <1>12. UploadIsSound(u)'
    BY <1>1, <1>2, <1>3, <1>4, <1>5, <1>6, <1>7, <1>9, <1>11 DEF UploadIsSound
  <1>13. PictureIsKept(r)'
    <2> SUFFICES ASSUME photoRow[r] \in Extensions PROVE PictureIsKept(r)'
      BY <1>2 DEF PictureIsKept
    <2>1. CASE photoRow[r] = e
      <3>1. UploadAt(u, "moved")'
        BY <1>1, <1>4, NoneIsNothing DEF UploadAt
      <3> QED
        BY <1>1, <1>2, <1>4, <1>5, <1>6, <2>1, <3>1 DEF PictureIsKept
    <2>2. CASE photoRow[r] # e
      BY <1>2, <1>7, <1>8, <1>11, <2>2 DEF PictureIsKept
    <2> QED
      BY <2>1, <2>2
  <1>14. \A n \in Names : n[1] # r => uploads'[n] = uploads[n]
    BY <1>7, <1>8
  <1> QED
    BY <1>1, <1>2, <1>3, <1>4, <1>5, <1>8, <1>12, <1>13, <1>14, Alone, OthersKeep

LEMMA PublishesKeeps ==
    ASSUME PhotosTypeOK, FolderIsSound, NEW u \in Uploaders, Publishes(u)
    PROVE  FolderIsSound' /\ uploads' \in Folder /\ upload' \in [Uploaders -> Upload \cup {None}]
  <1>1. PICK j \in Upload :
              /\ UploadIs(u, j) /\ j.pc = "published" /\ j.row = upload[u].row /\ j.ext = upload[u].ext
              /\ j.stale = upload[u].stale /\ j.backup = upload[u].backup
    BY MovesIs DEF Publishes, UploadAt
  <1>2. /\ upload[u] # None /\ upload[u].pc = "moved"
        /\ uploads' = [uploads EXCEPT ![Name(u)] = upload[u].picture]
        /\ besides' = besides /\ photoRow' = photoRow
    BY DEF Publishes, UploadAt
  <1>3. Locked(u) /\ uploads \in Folder /\ upload[u].picture \in Pictures
    BY <1>2, UploadTyped DEF Locked, PhotosTypeOK
  <1>4. upload' \in [Uploaders -> Upload \cup {None}] /\ upload'[u] = j
    BY <1>1, UploadBecomes
  <1>5. PICK r \in Pictured : r = upload[u].row
    BY <1>2, UploadTyped
  <1>6. PICK e \in Extensions : e = upload[u].ext
    BY <1>2, UploadTyped
  <1>7. /\ Name(u) = <<r, e>> /\ <<r, e>> \in Names /\ <<r, e>>[1] = r /\ Name(u)' = <<r, e>>
        /\ \A f \in Extensions : f # e => <<r, f>> # <<r, e>> /\ <<r, f>> \in Names
    BY <1>1, <1>4, <1>5, <1>6, NameParts DEF Name
  <1>8. /\ uploads' \in Folder /\ uploads'[<<r, e>>] # 0
        /\ \A n \in Names \ {<<r, e>>} : uploads'[n] = uploads[n]
    <2>1. uploads' = [uploads EXCEPT ![<<r, e>>] = upload[u].picture] /\ upload[u].picture # 0
      BY <1>2, <1>3, <1>7 DEF Pictures
    <2>2. uploads \in Folder /\ <<r, e>> \in Names /\ upload[u].picture \in {0} \cup Pictures
      BY <1>3, <1>7
    <2> QED
      BY <2>1, <2>2 DEF Folder
  <1>9. UploadIsSound(u) /\ PictureIsKept(r)
    BY FolderParts
  <1>10. \A v \in Uploaders \ {u} : UploadAt(v, "moved") => upload[v].row # r
    BY <1>3, <1>5, Alone DEF UploadAt, Locked
  <1>11. photoRow[r] \in Extensions =>
            uploads[<<r, photoRow[r]>>] # 0 \/ besides[r] # {} \/ e = photoRow[r]
    BY <1>6, <1>9, <1>10 DEF PictureIsKept
  <1>12. UploadIsSound(u)'
    BY <1>1, <1>2, <1>3, <1>4, <1>5, <1>6, <1>7, <1>8, <1>9 DEF UploadIsSound
  <1>13. PictureIsKept(r)'
    BY <1>2, <1>7, <1>8, <1>11 DEF PictureIsKept
  <1>14. \A n \in Names : n[1] # r => uploads'[n] = uploads[n]
    BY <1>7, <1>8
  <1> QED
    BY <1>1, <1>2, <1>3, <1>4, <1>5, <1>8, <1>12, <1>13, <1>14, Alone, OthersKeep

LEMMA WritesRowKeeps ==
    ASSUME PhotosTypeOK, FolderIsSound, NEW u \in Uploaders, WritesRow(u)
    PROVE  /\ FolderIsSound' /\ upload' \in [Uploaders -> Upload \cup {None}]
           /\ photoRow' \in [Pictured -> Extensions \cup {None, "gone"}]
  <1>1. PICK j \in Upload :
              /\ UploadIs(u, j) /\ j.pc = "written" /\ j.row = upload[u].row /\ j.ext = upload[u].ext
              /\ j.stale = upload[u].stale /\ j.backup = upload[u].backup
    BY MovesIs DEF WritesRow, UploadAt
  <1>2. /\ upload[u] # None /\ upload[u].pc = "published"
        /\ photoRow' = [photoRow EXCEPT ![upload[u].row] = upload[u].ext]
        /\ uploads' = uploads /\ besides' = besides
    BY DEF WritesRow, UploadAt
  <1>3. Locked(u) /\ photoRow \in [Pictured -> Extensions \cup {None, "gone"}]
    BY <1>2 DEF Locked, PhotosTypeOK
  <1>4. upload' \in [Uploaders -> Upload \cup {None}] /\ upload'[u] = j
    BY <1>1, UploadBecomes
  <1>5. PICK r \in Pictured : r = upload[u].row
    BY <1>2, UploadTyped
  <1>6. PICK e \in Extensions : e = upload[u].ext
    BY <1>2, UploadTyped
  <1>7. /\ photoRow' \in [Pictured -> Extensions \cup {None, "gone"}] /\ photoRow'[r] = e
        /\ \A p \in Pictured \ {r} : photoRow'[p] = photoRow[p]
    BY <1>2, <1>3, <1>5, <1>6
  <1>8. Name(u) = <<r, e>> /\ Name(u)' = <<r, e>>
    BY <1>1, <1>4, <1>5, <1>6 DEF Name
  <1>9. UploadIsSound(u)
    BY FolderParts
  <1>10. uploads[<<r, e>>] # 0
    BY <1>2, <1>3, <1>8, <1>9 DEF UploadIsSound
  <1>11. UploadIsSound(u)'
    BY <1>1, <1>2, <1>3, <1>4, <1>5, <1>6, <1>7, <1>8, <1>9, <1>10 DEF UploadIsSound
  <1>12. PictureIsKept(r)'
    BY <1>2, <1>7, <1>10 DEF PictureIsKept
  <1> QED
    BY <1>1, <1>2, <1>3, <1>4, <1>5, <1>7, <1>11, <1>12, Alone, OthersKeep

LEMMA CommitsKeeps ==
    ASSUME PhotosTypeOK, FolderIsSound, NEW u \in Uploaders, Commits(u)
    PROVE  FolderIsSound' /\ uploads' \in Folder /\ upload' \in [Uploaders -> Upload \cup {None}]
  <1>1. /\ upload[u] # None /\ upload[u].pc = "written" /\ UploadIs(u, None)
        /\ uploads' = [n \in Names |-> IF n \in upload[u].stale THEN 0 ELSE uploads[n]]
        /\ besides' = besides /\ photoRow' = photoRow
    BY DEF Commits, UploadAt, Leaves, UploadIs
  <1>2. Locked(u) /\ uploads \in Folder
    BY <1>1 DEF Locked, PhotosTypeOK
  <1>3. upload' \in [Uploaders -> Upload \cup {None}] /\ upload'[u] = None
    BY <1>1, UploadBecomes
  <1>4. PICK r \in Pictured : r = upload[u].row
    BY <1>1, UploadTyped
  <1>5. PICK e \in Extensions : e = upload[u].ext
    BY <1>1, UploadTyped
  <1>6. Name(u) = <<r, e>> /\ <<r, e>> \in Names
    BY <1>4, <1>5, NameParts DEF Name
  <1>7. UploadIsSound(u)
    BY FolderParts
  <1>8. /\ \A n \in upload[u].stale : n[1] = r /\ n # <<r, e>>
        /\ uploads[<<r, e>>] # 0 /\ photoRow[r] \in {"gone", e}
    BY <1>1, <1>2, <1>4, <1>5, <1>6, <1>7 DEF UploadIsSound
  <1>9. /\ uploads' \in Folder /\ uploads'[<<r, e>>] # 0
        /\ \A n \in Names : n[1] # r => uploads'[n] = uploads[n]
    BY <1>1, <1>2, <1>6, <1>8 DEF Folder
  <1>10. UploadIsSound(u)'
    BY <1>3 DEF UploadIsSound, Locked
  <1>11. PictureIsKept(r)'
    BY <1>1, <1>8, <1>9, PhotosFit DEF PictureIsKept
  <1> QED
    BY <1>1, <1>2, <1>3, <1>4, <1>9, <1>10, <1>11, Alone, OthersKeep

LEMMA RollsBackKeeps ==
    ASSUME PhotosTypeOK, FolderIsSound, NEW u \in Uploaders, RollsBack(u)
    PROVE  FolderIsSound' /\ uploads' \in Folder /\ upload' \in [Uploaders -> Upload \cup {None}]
  <1>1. /\ upload[u] # None /\ upload[u].pc \in {"staged", "moved", "published"} /\ UploadIs(u, None)
        /\ besides' = besides /\ photoRow' = photoRow
    BY DEF RollsBack, Leaves, UploadIs
  <1>2. Locked(u) /\ uploads \in Folder /\ upload[u].backup \in {0} \cup Pictures
    BY <1>1, UploadTyped DEF Locked, PhotosTypeOK
  <1>3. upload' \in [Uploaders -> Upload \cup {None}] /\ upload'[u] = None
    BY <1>1, UploadBecomes
  <1>4. PICK r \in Pictured : r = upload[u].row
    BY <1>1, UploadTyped
  <1>5. PICK e \in Extensions : e = upload[u].ext
    BY <1>1, UploadTyped
  <1>6. /\ Name(u) = <<r, e>> /\ <<r, e>> \in Names /\ <<r, e>>[1] = r
        /\ \A f \in Extensions : f # e => <<r, f>> # <<r, e>> /\ <<r, f>> \in Names
    BY <1>4, <1>5, NameParts DEF Name
  <1>7. IF upload[u].pc = "staged" THEN uploads' = uploads
        ELSE uploads' = [uploads EXCEPT ![<<r, e>>] = upload[u].backup]
    BY <1>1, <1>6 DEF RollsBack, RolledBack, UploadAt
  <1>8. uploads' \in Folder /\ \A n \in Names \ {<<r, e>>} : uploads'[n] = uploads[n]
    BY <1>2, <1>6, <1>7 DEF Folder
  <1>9. upload[u].pc # "staged" => uploads'[<<r, e>>] = upload[u].backup
    BY <1>2, <1>6, <1>7 DEF Folder
  <1>10. UploadIsSound(u) /\ PictureIsKept(r)
    BY FolderParts
  <1>11. \A v \in Uploaders \ {u} : UploadAt(v, "moved") => upload[v].row # r
    BY <1>2, <1>4, Alone DEF UploadAt, Locked
  <1>12. UploadIsSound(u)'
    BY <1>3 DEF UploadIsSound, Locked
  <1>13. PictureIsKept(r)'
    <2> SUFFICES ASSUME photoRow[r] \in Extensions
                 PROVE  uploads'[<<r, photoRow[r]>>] # 0 \/ besides[r] # {}
      BY <1>1 DEF PictureIsKept
    <2>1. CASE upload[u].pc = "staged"
      BY <1>7, <1>10, <1>11, <2>1 DEF PictureIsKept, UploadAt
    <2>2. CASE upload[u].pc # "staged" /\ photoRow[r] = e
      <3>1. upload[u].backup # 0 \/ besides[r] # {}
        BY <1>1, <1>2, <1>4, <1>5, <1>10, <2>2 DEF UploadIsSound
      <3> QED
        BY <1>9, <2>2, <3>1
    <2>3. CASE upload[u].pc # "staged" /\ photoRow[r] # e
      <3>1. uploads'[<<r, photoRow[r]>>] = uploads[<<r, photoRow[r]>>]
        BY <1>6, <1>8, <2>3
      <3> QED
        BY <1>5, <1>10, <1>11, <2>3, <3>1 DEF PictureIsKept
    <2> QED
      BY <2>1, <2>2, <2>3
  <1>14. \A n \in Names : n[1] # r => uploads'[n] = uploads[n]
    BY <1>6, <1>8
  <1> QED
    BY <1>1, <1>2, <1>3, <1>4, <1>8, <1>12, <1>13, <1>14, Alone, OthersKeep

\* A row that is deleted asks for no picture.
LEMMA RowGoesKeeps ==
    ASSUME PhotosTypeOK, FolderIsSound, RowGoes
    PROVE  FolderIsSound' /\ photoRow' \in [Pictured -> Extensions \cup {None, "gone"}]
  <1>1. PICK r \in Pictured : photoRow' = [photoRow EXCEPT ![r] = "gone"]
    BY DEF RowGoes
  <1>2. uploads' = uploads /\ besides' = besides /\ upload' = upload
    BY DEF RowGoes, jobs
  <1>3. photoRow \in [Pictured -> Extensions \cup {None, "gone"}] /\ "gone" \notin Extensions
    BY PhotosFit DEF PhotosTypeOK
  <1>4. /\ photoRow' \in [Pictured -> Extensions \cup {None, "gone"}] /\ photoRow'[r] = "gone"
        /\ \A p \in Pictured \ {r} : photoRow'[p] = photoRow[p]
    BY <1>1, <1>3
  <1>5. \A u \in Uploaders : Locked(u)' = Locked(u) /\ Name(u)' = Name(u)
    BY <1>2 DEF Locked, Name
  <1>6. OneUploadAPhoto'
    BY <1>2, <1>5 DEF FolderIsSound, OneUploadAPhoto
  <1>7. ASSUME NEW u \in Uploaders PROVE UploadIsSound(u)'
    <2> SUFFICES ASSUME Locked(u) PROVE UploadIsSound(u)'
      BY <1>5 DEF UploadIsSound
    <2>1. upload[u].row \in Pictured /\ upload[u].ext \in Extensions /\ UploadIsSound(u)
      BY UploadTyped, FolderParts DEF Locked
    <2> QED
      BY <1>2, <1>3, <1>4, <1>5, <2>1 DEF UploadIsSound
  <1>8. ASSUME NEW p \in Pictured PROVE PictureIsKept(p)'
    BY <1>2, <1>3, <1>4, FolderParts DEF PictureIsKept, UploadAt
  <1> QED
    BY <1>4, <1>6, <1>7, <1>8 DEF FolderIsSound

\* A restore takes no picture away.
LEMMA PutsBackKeeps ==
    ASSUME PhotosTypeOK, FolderIsSound, PutsBack
    PROVE  FolderIsSound' /\ uploads' \in Folder
  <1>1. putBack \in Restore /\ putBack.at # None /\ Listed(putBack.at)
    BY DEF PutsBack, PhotosTypeOK
  <1>2. PICK n \in Names : n = putBack.at
    BY <1>1 DEF Restore
  <1>3. gens[putBack.from] \in Folder
    BY <1>1 DEF Listed, PhotosTypeOK, Restore
  <1>4. PICK picture \in Pictures : uploads' = [uploads EXCEPT ![n] = picture]
    BY <1>1, <1>2, <1>3 DEF PutsBack, Listed, Folder
  <1>5. besides' = besides /\ photoRow' = photoRow /\ upload' = upload /\ uploads \in Folder
    BY DEF PutsBack, PhotosTypeOK
  <1>6. uploads' \in Folder /\ \A m \in Names : uploads[m] # 0 => uploads'[m] # 0
    BY <1>4, <1>5 DEF Folder, Pictures
  <1>7. \A u \in Uploaders : Locked(u)' = Locked(u) /\ Name(u)' = Name(u)
    BY <1>5 DEF Locked, Name
  <1>8. OneUploadAPhoto'
    BY <1>5, <1>7 DEF FolderIsSound, OneUploadAPhoto
  <1>9. ASSUME NEW u \in Uploaders PROVE UploadIsSound(u)'
    <2> SUFFICES ASSUME Locked(u) PROVE UploadIsSound(u)'
      BY <1>7 DEF UploadIsSound
    <2>1. Name(u) \in Names /\ UploadIsSound(u)
      BY UploadTyped, FolderParts DEF Locked
    <2> QED
      BY <1>5, <1>6, <1>7, <2>1 DEF UploadIsSound
  <1>10. ASSUME NEW p \in Pictured PROVE PictureIsKept(p)'
    <2>1. photoRow[p] \in Extensions => <<p, photoRow[p]>> \in Names
      BY NameParts
    <2> QED
      BY <1>5, <1>6, <2>1, FolderParts DEF PictureIsKept, UploadAt
  <1> QED
    BY <1>6, <1>8, <1>9, <1>10 DEF FolderIsSound

\* What an upload had set aside is found beside its name.
LEMMA PhotosDieKeeps ==
    ASSUME PhotosTypeOK, FolderIsSound, PhotosDie
    PROVE  /\ FolderIsSound' /\ upload' \in [Uploaders -> Upload \cup {None}]
           /\ besides' \in [Pictured -> SUBSET Pictures]
  <1> DEFINE Left(p) == {upload[u].backup : u \in {v \in Uploaders : upload[v] # None /\ upload[v].row = p}} \ {0}
  <1>1. /\ besides' = [p \in Pictured |-> besides[p] \cup Left(p)]
        /\ upload' = [u \in Uploaders |-> None] /\ uploads' = uploads /\ photoRow' = photoRow
    BY DEF PhotosDie
  <1>2. ASSUME NEW p \in Pictured PROVE Left(p) \subseteq Pictures
    BY UploadTyped
  <1>3. besides' \in [Pictured -> SUBSET Pictures] /\ \A p \in Pictured : besides'[p] = besides[p] \cup Left(p)
    <2> HIDE DEF Left
    <2> QED
      BY <1>1, <1>2 DEF PhotosTypeOK
  <1>4. upload' \in [Uploaders -> Upload \cup {None}] /\ \A u \in Uploaders : ~Locked(u)'
    BY <1>1 DEF Locked
  <1>5. ASSUME NEW p \in Pictured PROVE PictureIsKept(p)'
    <2> SUFFICES ASSUME photoRow[p] \in Extensions
                 PROVE  uploads[<<p, photoRow[p]>>] # 0 \/ besides'[p] # {}
      BY <1>1 DEF PictureIsKept
    <2>1. PictureIsKept(p)
      BY FolderParts
    <2>2. CASE uploads[<<p, photoRow[p]>>] # 0 \/ besides[p] # {}
      BY <1>3, <2>2
    <2>3. CASE \E u \in Uploaders : UploadAt(u, "moved") /\ upload[u].row = p /\ upload[u].ext = photoRow[p]
      <3>1. PICK u \in Uploaders : UploadAt(u, "moved") /\ upload[u].row = p /\ upload[u].ext = photoRow[p]
        BY <2>3
      <3>2. UploadIsSound(u) /\ Locked(u)
        BY <3>1, FolderParts DEF UploadAt, Locked
      <3>3. upload[u].backup # 0 \/ besides[p] # {}
        BY <3>1, <3>2 DEF UploadIsSound, UploadAt
      <3>4. upload[u].backup # 0 => upload[u].backup \in Left(p)
        BY <3>1 DEF UploadAt
      <3> QED
        BY <1>3, <3>3, <3>4
    <2> QED
      BY <2>1, <2>2, <2>3 DEF PictureIsKept
  <1> QED
    BY <1>3, <1>4, <1>5 DEF FolderIsSound, OneUploadAPhoto, UploadIsSound

----------------------------------------------------------------------------
(* Each step of the mirror keeps the generations sound.                    *)

GenerationsTyped ==
    /\ gens \in [Nights -> Folder \cup {None}]
    /\ current \in Nights \cup {None} /\ mirror \in Run \cup {None}

\* A picture written into a generation adds its name to it, and nothing else.
LEMMA WroteAdds ==
    ASSUME PhotosTypeOK, NEW g \in Nights, NEW n \in Names, NEW picture \in Pictures, Wrote(g, n, picture)
    PROVE  /\ gens' \in [Nights -> Folder \cup {None}] /\ gens'[g] # None
           /\ FilesOf(gens'[g]) = FilesOf(Made(g)) \cup {n}
           /\ \A h \in Nights \ {g} : gens'[h] = gens[h]
  <1> DEFINE f == [Made(g) EXCEPT ![n] = picture]
  <1>1. gens' = [gens EXCEPT ![g] = f] /\ gens \in [Nights -> Folder \cup {None}]
    BY DEF Wrote, PhotosTypeOK
  <1>2. Made(g) \in Folder
    BY MadeTyped
  <1>3. f \in Folder /\ f[n] = picture /\ \A m \in Names \ {n} : f[m] = Made(g)[m]
    BY <1>2 DEF Folder
  <1> HIDE DEF f
  <1>4. f # None /\ FilesOf(f) = FilesOf(Made(g)) \cup {n}
    BY <1>3, NoneIsNothing DEF FilesOf, Pictures
  <1> QED
    BY <1>1, <1>3, <1>4

\* Making a generation's folder adds nothing to it.
LEMMA MakingAddsNothing ==
    ASSUME PhotosTypeOK, NEW g \in Nights, gens' = [gens EXCEPT ![g] = Made(g)]
    PROVE  /\ gens' \in [Nights -> Folder \cup {None}] /\ gens'[g] # None
           /\ gens[g] # None => gens'[g] = gens[g]
           /\ gens[g] = None => FilesOf(gens'[g]) = {}
           /\ \A h \in Nights \ {g} : gens'[h] = gens[h]
  <1>1. gens' \in [Nights -> Folder \cup {None}] /\ gens'[g] = Made(g) /\ \A h \in Nights \ {g} : gens'[h] = gens[h]
    BY MadeTyped DEF PhotosTypeOK
  <1> QED
    BY <1>1, MadeTyped

\* What each step of the mirror keeps.
MirrorKeeps == MirrorIsReal' /\ GenerationsTyped' /\ (LiveCovers => LiveCovers')

LEMMA MirrorStartsKeeps ==
    ASSUME PhotosTypeOK, MirrorIsReal, MirrorStarts
    PROVE  MirrorKeeps
  <1> DEFINE to == IF RollsOver \/ current = None THEN night ELSE current
  <1>1. PICK into \in Nights : into = to
    BY DEF PhotosTypeOK, RollsOver
  <1>2. PICK pc \in {"roll", "copy"} : pc = IF RollsOver THEN "roll" ELSE "copy"
    OBVIOUS
  <1>3. PICK todo \in SUBSET Names : todo = IF RollsOver THEN FilesOf(gens[current]) ELSE Names
    BY DEF FilesOf
  <1>4. mirror' = [pc |-> pc, into |-> into, todo |-> todo] /\ gens' = [gens EXCEPT ![into] = Made(into)]
    BY <1>1, <1>2, <1>3 DEF MirrorStarts
  <1>5. /\ mirror' \in Run /\ mirror' # None
        /\ mirror'.pc = pc /\ mirror'.into = into /\ mirror'.todo = todo
    BY <1>4, NoneIsNothing DEF Run
  <1>6. /\ gens' \in [Nights -> Folder \cup {None}] /\ gens'[into] # None
        /\ gens[into] # None => gens'[into] = gens[into]
        /\ gens[into] = None => FilesOf(gens'[into]) = {}
        /\ \A h \in Nights \ {into} : gens'[h] = gens[h]
    BY <1>4, MakingAddsNothing
  <1>7. current' = (IF current = None THEN night ELSE current) /\ night \in Nights /\ None \notin Nights
    BY NoneIsNothing DEF MirrorStarts, CurrentAtStart, RollsOver, PhotosTypeOK
  <1>8. CASE current = None
    <2>1. into = night /\ current' = night /\ pc = "copy"
      BY <1>1, <1>2, <1>7, <1>8 DEF RollsOver
    <2>2. MirrorIsReal'
      BY <1>5, <1>6, <1>7, <2>1 DEF MirrorIsReal
    <2>3. LiveCovers => LiveCovers'
      BY <1>5, <1>6, <1>7, <1>8, <2>1 DEF LiveCovers
    <2> QED
      BY <1>5, <1>6, <1>7, <2>1, <2>2, <2>3 DEF MirrorKeeps, GenerationsTyped
  <1>9. CASE current # None
    <2>1. current' = current /\ current \in Nights
      BY <1>7, <1>9 DEF PhotosTypeOK
    <2>2. gens'[current] = gens[current] /\ gens[current] # None
      BY <1>6, <1>9, <2>1 DEF MirrorIsReal
    <2>3. RollsOver => pc = "roll" /\ into = night /\ night # current /\ todo = FilesOf(gens[current])
      BY <1>1, <1>2, <1>3 DEF RollsOver
    <2>4. ~RollsOver => pc = "copy" /\ into = current
      BY <1>1, <1>2, <1>9
    <2>5. MirrorIsReal'
      BY <1>5, <1>9, <2>1, <2>2, <2>3, <2>4 DEF MirrorIsReal
    <2>6. ASSUME LiveCovers PROVE LiveCovers'
      <3>1. ASSUME NEW g \in Nights, gens'[g] # None PROVE FilesOf(gens'[g]) \subseteq FilesOf(gens'[current])
        BY <1>6, <1>9, <2>2, <2>6, <3>1 DEF LiveCovers
      <3> QED
        BY <1>5, <1>6, <1>9, <2>1, <2>2, <2>3, <2>4, <3>1 DEF LiveCovers
    <2> QED
      BY <1>5, <1>6, <2>1, <2>5, <2>6 DEF MirrorKeeps, GenerationsTyped
  <1> QED
    BY <1>8, <1>9

LEMMA RollsFileKeeps ==
    ASSUME PhotosTypeOK, MirrorIsReal, RollsFile
    PROVE  MirrorKeeps
  <1>1. PICK n \in mirror.todo :
            Wrote(mirror.into, n, gens[current][n]) /\ mirror' = [mirror EXCEPT !.todo = @ \ {n}]
    BY DEF RollsFile
  <1>2. mirror # None /\ mirror.pc = "roll" /\ mirror \in Run /\ current' = current
    BY DEF RollsFile, PhotosTypeOK
  <1>3. PICK into \in Nights : into = mirror.into
    BY <1>2 DEF Run
  <1>4. PICK todo \in SUBSET Names : todo = mirror.todo
    BY <1>2 DEF Run
  <1>5. current # None /\ into # current /\ gens[current] # None /\ todo \subseteq FilesOf(gens[current])
    BY <1>2, <1>3, <1>4 DEF MirrorIsReal
  <1>6. current \in Nights /\ gens[current] \in Folder
    BY <1>5 DEF PhotosTypeOK
  <1>7. n \in Names /\ n \in FilesOf(gens[current]) /\ gens[current][n] \in Pictures
    BY <1>1, <1>4, <1>5, <1>6 DEF FilesOf, Folder
  <1>8. /\ gens' \in [Nights -> Folder \cup {None}] /\ gens'[into] # None
        /\ FilesOf(gens'[into]) = FilesOf(Made(into)) \cup {n}
        /\ \A h \in Nights \ {into} : gens'[h] = gens[h]
    BY <1>1, <1>3, <1>7, WroteAdds
  <1>9. mirror' \in Run /\ mirror'.pc = "roll" /\ mirror'.into = into /\ mirror'.todo = todo \ {n}
    BY <1>1, <1>2, <1>3, <1>4 DEF Run
  <1>10. gens'[current] = gens[current]
    BY <1>5, <1>6, <1>8
  <1>11. MirrorIsReal'
    BY <1>2, <1>5, <1>9, <1>10 DEF MirrorIsReal
  <1>12. ASSUME LiveCovers PROVE LiveCovers'
    <2>1. /\ Made(into) = gens[into] /\ gens[into] # None
          /\ FilesOf(gens[current]) \ todo \subseteq FilesOf(gens[into])
      BY <1>2, <1>3, <1>4, <1>12, MadeTyped DEF LiveCovers
    <2>2. \A g \in Nights : gens[g] # None => FilesOf(gens[g]) \subseteq FilesOf(gens[current])
      BY <1>5, <1>12 DEF LiveCovers
    <2>3. ASSUME NEW g \in Nights, gens'[g] # None PROVE FilesOf(gens'[g]) \subseteq FilesOf(gens'[current])
      <3>1. CASE g = into
        BY <1>7, <1>8, <1>10, <2>1, <2>2, <3>1
      <3>2. CASE g # into
        BY <1>8, <1>10, <2>2, <2>3, <3>2
      <3> QED
        BY <3>1, <3>2
    <2> QED
      BY <1>2, <1>5, <1>8, <1>9, <1>10, <2>1, <2>3 DEF LiveCovers
  <1> QED
    BY <1>2, <1>6, <1>8, <1>9, <1>11, <1>12 DEF MirrorKeeps, GenerationsTyped

\* The full copy covers what the live generation covered.
LEMMA RolledOverKeeps ==
    ASSUME PhotosTypeOK, MirrorIsReal, RolledOver
    PROVE  MirrorKeeps
  <1>1. /\ mirror # None /\ mirror.pc = "roll" /\ mirror \in Run /\ mirror.todo = {}
        /\ current' = mirror.into /\ mirror' = [mirror EXCEPT !.pc = "copy", !.todo = Names]
        /\ gens' = [gens EXCEPT ![mirror.into] = Made(mirror.into)]
    BY DEF RolledOver, PhotosTypeOK
  <1>2. PICK into \in Nights : into = mirror.into
    BY <1>1 DEF Run
  <1>3. mirror' \in Run /\ mirror'.pc = "copy" /\ mirror'.into = into /\ into # None
    BY <1>1, <1>2, NoneIsNothing DEF Run
  <1>4. /\ gens' \in [Nights -> Folder \cup {None}] /\ gens'[into] # None
        /\ gens[into] # None => gens'[into] = gens[into]
        /\ \A h \in Nights \ {into} : gens'[h] = gens[h]
    BY <1>1, <1>2, MakingAddsNothing
  <1>5. MirrorIsReal'
    BY <1>1, <1>2, <1>3, <1>4 DEF MirrorIsReal
  <1>6. ASSUME LiveCovers PROVE LiveCovers'
    <2>1. current # None
      BY <1>1 DEF MirrorIsReal
    <2>2. gens[into] # None /\ FilesOf(gens[current]) \subseteq FilesOf(gens[into])
      BY <1>1, <1>2, <1>6 DEF LiveCovers
    <2>3. \A g \in Nights : gens[g] # None => FilesOf(gens[g]) \subseteq FilesOf(gens[current])
      BY <1>6, <2>1 DEF LiveCovers
    <2>4. \A g \in Nights : gens'[g] = gens[g]
      BY <1>4, <2>2
    <2>5. \A g \in Nights : gens'[g] # None => FilesOf(gens'[g]) \subseteq FilesOf(gens'[into])
      BY <2>2, <2>3, <2>4
    <2> QED
      BY <1>1, <1>2, <1>3, <2>5 DEF LiveCovers
  <1> QED
    BY <1>1, <1>2, <1>3, <1>4, <1>5, <1>6 DEF MirrorKeeps, GenerationsTyped

LEMMA CopiesFileKeeps ==
    ASSUME PhotosTypeOK, MirrorIsReal, CopiesFile
    PROVE  MirrorKeeps
  <1>1. PICK n \in mirror.todo :
            /\ IF uploads[n] = 0 THEN UNCHANGED gens ELSE Wrote(mirror.into, n, uploads[n])
            /\ mirror' = [mirror EXCEPT !.todo = @ \ {n}]
    BY DEF CopiesFile
  <1>2. mirror # None /\ mirror.pc = "copy" /\ mirror \in Run /\ current' = current
    BY DEF CopiesFile, PhotosTypeOK
  <1>3. n \in Names /\ uploads[n] \in {0} \cup Pictures
    BY <1>1, <1>2 DEF Run, PhotosTypeOK, Folder
  <1>4. mirror.into = current /\ current \in Nights /\ current # None /\ gens[current] # None
    BY <1>2, NoneIsNothing DEF MirrorIsReal, Run
  <1>5. mirror' \in Run /\ mirror'.pc = "copy" /\ mirror'.into = current
    BY <1>1, <1>2, <1>4 DEF Run
  <1>6. /\ gens' \in [Nights -> Folder \cup {None}] /\ gens'[current] # None
        /\ FilesOf(gens[current]) \subseteq FilesOf(gens'[current])
        /\ \A h \in Nights \ {current} : gens'[h] = gens[h]
    <2>1. CASE uploads[n] = 0
      BY <1>1, <1>4, <2>1 DEF PhotosTypeOK
    <2>2. CASE uploads[n] # 0
      <3>1. Wrote(current, n, uploads[n]) /\ uploads[n] \in Pictures
        BY <1>1, <1>3, <1>4, <2>2
      <3> QED
        BY <1>3, <1>4, <3>1, WroteAdds, MadeTyped
    <2> QED
      BY <2>1, <2>2
  <1>7. MirrorIsReal'
    BY <1>2, <1>4, <1>5, <1>6 DEF MirrorIsReal
  <1>8. ASSUME LiveCovers PROVE LiveCovers'
    <2>1. \A g \in Nights : gens[g] # None => FilesOf(gens[g]) \subseteq FilesOf(gens[current])
      BY <1>4, <1>8 DEF LiveCovers
    <2>2. ASSUME NEW g \in Nights, gens'[g] # None PROVE FilesOf(gens'[g]) \subseteq FilesOf(gens'[current])
      <3>1. CASE g = current
        BY <3>1
      <3>2. CASE g # current
        BY <1>6, <2>1, <2>2, <3>2
      <3> QED
        BY <3>1, <3>2
    <2> QED
      BY <1>2, <1>4, <1>5, <2>2 DEF LiveCovers
  <1> QED
    BY <1>2, <1>4, <1>5, <1>6, <1>7, <1>8 DEF MirrorKeeps, GenerationsTyped

\* The live generation is refused; the one being made is a rollover's loss.
LEMMA DeleteKeeps ==
    ASSUME PhotosTypeOK, MirrorIsReal, DeletePhotoGeneration
    PROVE  MirrorIsReal' /\ GenerationsTyped' /\ (~RacingDeletes /\ LiveCovers => LiveCovers')
  <1>1. PICK g \in Nights :
            /\ gens[g] # None /\ g # current /\ (~RacingDeletes => mirror = None \/ mirror.into # g)
            /\ gens' = [gens EXCEPT ![g] = None]
    BY DEF DeletePhotoGeneration
  <1>2. current' = current /\ mirror' = mirror
    BY DEF DeletePhotoGeneration, jobs
  <1>3. /\ gens' \in [Nights -> Folder \cup {None}] /\ gens'[g] = None
        /\ \A h \in Nights \ {g} : gens'[h] = gens[h]
    BY <1>1 DEF PhotosTypeOK
  <1>4. current \in Nights \cup {None} /\ mirror \in Run \cup {None} /\ (current # None => gens'[current] = gens[current])
    BY <1>1, <1>3 DEF PhotosTypeOK
  <1>5. MirrorIsReal'
    BY <1>2, <1>4 DEF MirrorIsReal
  <1>6. ASSUME ~RacingDeletes, LiveCovers PROVE LiveCovers'
    BY <1>1, <1>2, <1>3, <1>4, <1>6 DEF LiveCovers, Run, MirrorIsReal
  <1> QED
    BY <1>2, <1>3, <1>4, <1>5, <1>6 DEF GenerationsTyped

\* A mirror that ends or dies leaves the generations as they are.
LEMMA NoMirror ==
    ASSUME PhotosTypeOK, MirrorIsReal, mirror' = None, gens' = gens, current' = current
    PROVE  MirrorKeeps
  BY DEF PhotosTypeOK, MirrorKeeps, MirrorIsReal, GenerationsTyped, LiveCovers

LEMMA SameGenerations ==
    ASSUME PhotosTypeOK, MirrorIsReal, mirror' = mirror, gens' = gens, current' = current
    PROVE  MirrorKeeps
  BY DEF PhotosTypeOK, MirrorKeeps, MirrorIsReal, GenerationsTyped, LiveCovers

----------------------------------------------------------------------------
(* The invariant.                                                          *)

FolderTyped ==
    /\ uploads \in Folder /\ besides \in [Pictured -> SUBSET Pictures]
    /\ photoRow \in [Pictured -> Extensions \cup {None, "gone"}]
    /\ upload \in [Uploaders -> Upload \cup {None}]

RestoreTyped == aside \subseteq Pictures /\ putBack \in Restore \cup {None}

CountsTyped ==
    /\ night \in Nights /\ taken \in 0..MaxPicture
    /\ chores \in 0..MaxChores /\ mishaps \in 0..MaxMishaps

\* A row's picture is where the row, a rollback or a person can find it.
PhotosInductive == PhotosTypeOK /\ FolderIsSound /\ MirrorIsReal

LEMMA TypeParts == PhotosTypeOK <=> FolderTyped /\ GenerationsTyped /\ RestoreTyped /\ CountsTyped
  BY DEF PhotosTypeOK, FolderTyped, GenerationsTyped, RestoreTyped, CountsTyped

LEMMA PhotosStart == PhotosInit => PhotosInductive
  <1> SUFFICES ASSUME PhotosInit PROVE PhotosInductive
    OBVIOUS
  <1>1. PhotosTypeOK
    BY PhotosFit DEF PhotosInit, PhotosTypeOK, Folder, Empty, Nights
  <1>2. \A u \in Uploaders : ~Locked(u)
    BY DEF PhotosInit, Locked
  <1>3. FolderIsSound
    BY <1>2, PhotosFit DEF PhotosInit, FolderIsSound, OneUploadAPhoto, UploadIsSound, PictureIsKept
  <1>4. MirrorIsReal
    BY DEF PhotosInit, MirrorIsReal
  <1> QED
    BY <1>1, <1>3, <1>4 DEF PhotosInductive

LEMMA UploadsFolderStep ==
    ASSUME PhotosInductive, PhotosNext
    PROVE  FolderIsSound' /\ FolderTyped'
  <1> USE DEF PhotosInductive
  <1>1. FolderTyped
    BY TypeParts
  <1>2. ASSUME NEW u \in Uploaders, Asks(u) PROVE FolderIsSound' /\ FolderTyped'
    BY <1>1, <1>2, AsksKeeps DEF Asks, folder, FolderTyped
  <1>3. ASSUME NEW u \in Uploaders, Stages(u) PROVE FolderIsSound' /\ FolderTyped'
    BY <1>1, <1>3, StagesKeeps DEF Stages, folder, FolderTyped
  <1>4. ASSUME NEW u \in Uploaders, MovesAway(u) PROVE FolderIsSound' /\ FolderTyped'
    BY <1>1, <1>4, MovesAwayKeeps DEF MovesAway, FolderTyped
  <1>5. ASSUME NEW u \in Uploaders, Publishes(u) PROVE FolderIsSound' /\ FolderTyped'
    BY <1>1, <1>5, PublishesKeeps DEF Publishes, FolderTyped
  <1>6. ASSUME NEW u \in Uploaders, WritesRow(u) PROVE FolderIsSound' /\ FolderTyped'
    BY <1>1, <1>6, WritesRowKeeps DEF WritesRow, FolderTyped
  <1>7. ASSUME NEW u \in Uploaders, Commits(u) PROVE FolderIsSound' /\ FolderTyped'
    BY <1>1, <1>7, CommitsKeeps DEF Commits, FolderTyped
  <1>8. ASSUME NEW u \in Uploaders, RollsBack(u) PROVE FolderIsSound' /\ FolderTyped'
    BY <1>1, <1>8, RollsBackKeeps DEF RollsBack, FolderTyped
  <1>9. CASE RowGoes
    BY <1>1, <1>9, RowGoesKeeps DEF RowGoes, jobs, FolderTyped
  <1>10. CASE PutsBack
    BY <1>1, <1>10, PutsBackKeeps DEF PutsBack, FolderTyped
  <1>11. CASE PhotosDie
    BY <1>1, <1>11, PhotosDieKeeps DEF PhotosDie, FolderTyped
  <1>12. CASE \/ MirrorStarts \/ RollsFile \/ RolledOver \/ CopiesFile \/ MirrorEnds \/ Midnight
              \/ DeletePhotoGeneration \/ RestorePhotos \/ SetsAside \/ RestoreEnds
    <2>1. UNCHANGED <<folder, upload>>
      BY <1>12 DEF MirrorStarts, RollsFile, RolledOver, CopiesFile, MirrorEnds, Midnight,
                   DeletePhotoGeneration, RestorePhotos, SetsAside, RestoreEnds, jobs
    <2> QED
      BY <1>1, <2>1, SameUploads DEF folder, FolderTyped
  <1> QED
    BY <1>2, <1>3, <1>4, <1>5, <1>6, <1>7, <1>8, <1>9, <1>10, <1>11, <1>12 DEF PhotosNext

LEMMA GenerationsStep ==
    ASSUME PhotosInductive, PhotosNext
    PROVE  MirrorIsReal' /\ GenerationsTyped' /\ (~RacingDeletes /\ LiveCovers => LiveCovers')
  <1> USE DEF PhotosInductive, MirrorKeeps
  <1>1. CASE MirrorStarts
    BY <1>1, MirrorStartsKeeps
  <1>2. CASE RollsFile
    BY <1>2, RollsFileKeeps
  <1>3. CASE RolledOver
    BY <1>3, RolledOverKeeps
  <1>4. CASE CopiesFile
    BY <1>4, CopiesFileKeeps
  <1>5. CASE DeletePhotoGeneration
    BY <1>5, DeleteKeeps
  <1>6. CASE MirrorEnds \/ PhotosDie
    BY <1>6, NoMirror DEF MirrorEnds, PhotosDie, backups
  <1>7. ASSUME NEW u \in Uploaders,
               \/ Asks(u) \/ Stages(u) \/ MovesAway(u) \/ Publishes(u) \/ WritesRow(u)
               \/ Commits(u) \/ RollsBack(u)
        PROVE  MirrorKeeps
    BY <1>7, SameGenerations
       DEF Asks, Stages, MovesAway, Publishes, WritesRow, Commits, RollsBack, backups
  <1>8. CASE RowGoes \/ Midnight \/ RestorePhotos \/ SetsAside \/ PutsBack \/ RestoreEnds
    BY <1>8, SameGenerations
       DEF RowGoes, Midnight, RestorePhotos, SetsAside, PutsBack, RestoreEnds, backups, jobs
  <1> QED
    BY <1>1, <1>2, <1>3, <1>4, <1>5, <1>6, <1>7, <1>8 DEF PhotosNext

LEMMA RestoreStep ==
    ASSUME PhotosTypeOK, PhotosNext
    PROVE  RestoreTyped'
  <1>1. RestoreTyped /\ uploads \in Folder /\ gens \in [Nights -> Folder \cup {None}]
    BY TypeParts DEF FolderTyped, GenerationsTyped
  <1>2. CASE RestorePhotos
    <2>1. PICK g \in Nights : gens[g] # None /\ putBack' = [from |-> g, todo |-> FilesOf(gens[g]), at |-> None]
      BY <1>2 DEF RestorePhotos
    <2>2. FilesOf(gens[g]) \subseteq Names
      BY DEF FilesOf
    <2> QED
      BY <1>1, <1>2, <2>1, <2>2 DEF RestorePhotos, RestoreTyped, Restore, backups
  <1>3. CASE SetsAside
    <2>1. PICK n \in putBack.todo : aside' = aside \cup ({uploads[n]} \ {0}) /\ putBack' = [putBack EXCEPT !.at = n]
      BY <1>3 DEF SetsAside
    <2>2. putBack \in Restore /\ n \in Names
      BY <1>1, <1>3 DEF SetsAside, RestoreTyped, Restore
    <2>3. uploads[n] \in {0} \cup Pictures
      BY <1>1, <2>2 DEF Folder
    <2> QED
      BY <1>1, <2>1, <2>2, <2>3 DEF RestoreTyped, Restore
  <1>4. CASE PutsBack
    <2>1. putBack \in Restore /\ putBack' = [putBack EXCEPT !.at = None, !.todo = @ \ {putBack.at}] /\ aside' = aside
      BY <1>1, <1>4 DEF PutsBack, RestoreTyped, backups
    <2> QED
      BY <1>1, <2>1 DEF RestoreTyped, Restore
  <1>5. CASE PhotosDie \/ RestoreEnds
    BY <1>1, <1>5 DEF PhotosDie, RestoreEnds, RestoreTyped, backups
  <1>6. ASSUME NEW u \in Uploaders,
               \/ Asks(u) \/ Stages(u) \/ MovesAway(u) \/ Publishes(u) \/ WritesRow(u)
               \/ Commits(u) \/ RollsBack(u)
        PROVE  RestoreTyped'
    BY <1>1, <1>6
       DEF Asks, Stages, MovesAway, Publishes, WritesRow, Commits, RollsBack, RestoreTyped, backups
  <1>7. CASE \/ RowGoes \/ MirrorStarts \/ RollsFile \/ RolledOver \/ CopiesFile \/ MirrorEnds
             \/ Midnight \/ DeletePhotoGeneration
    BY <1>1, <1>7
       DEF RowGoes, MirrorStarts, RollsFile, RolledOver, CopiesFile, MirrorEnds, Midnight,
           DeletePhotoGeneration, RestoreTyped, backups, jobs
  <1> QED
    BY <1>2, <1>3, <1>4, <1>5, <1>6, <1>7 DEF PhotosNext

LEMMA CountsStep ==
    ASSUME PhotosTypeOK, PhotosNext
    PROVE  CountsTyped'
  <1>1. CountsTyped
    BY TypeParts
  <1>2. ASSUME NEW u \in Uploaders,
               \/ Asks(u) \/ Stages(u) \/ MovesAway(u) \/ Publishes(u) \/ WritesRow(u)
               \/ Commits(u) \/ RollsBack(u)
        PROVE  CountsTyped'
    BY <1>1, <1>2, PhotosFit
       DEF Asks, Stages, MovesAway, Publishes, WritesRow, Commits, RollsBack, CountsTyped, Mishap, counts
  <1>3. CASE Midnight \/ RowGoes \/ DeletePhotoGeneration \/ RestorePhotos \/ PhotosDie \/ MirrorEnds
    BY <1>1, <1>3, PhotosFit
       DEF Midnight, RowGoes, DeletePhotoGeneration, RestorePhotos, PhotosDie, MirrorEnds,
           CountsTyped, Chore, Mishap, Nights
  <1>4. CASE \/ MirrorStarts \/ RollsFile \/ RolledOver \/ CopiesFile \/ SetsAside \/ PutsBack \/ RestoreEnds
    BY <1>1, <1>4
       DEF MirrorStarts, RollsFile, RolledOver, CopiesFile, SetsAside, PutsBack, RestoreEnds,
           CountsTyped, counts
  <1> QED
    BY <1>2, <1>3, <1>4 DEF PhotosNext

\* A step that changes no variable.
LEMMA PhotosStutter ==
    ASSUME PhotosInductive, UNCHANGED photosVars
    PROVE  PhotosInductive' /\ (LiveCovers => LiveCovers')
  <1> USE DEF photosVars, PhotosInductive
  <1>1. PhotosTypeOK'
    BY DEF PhotosTypeOK
  <1>2. FolderIsSound'
    BY SameUploads DEF folder
  <1>3. MirrorKeeps
    BY SameGenerations
  <1> QED
    BY <1>1, <1>2, <1>3 DEF MirrorKeeps

\* PhotosInductive is an invariant, whatever is deleted.
THEOREM PhotosInvariant == PhotosSpec => []PhotosInductive
  <1>1. PhotosInductive /\ [PhotosNext]_photosVars => PhotosInductive'
    <2>1. ASSUME PhotosInductive, PhotosNext PROVE PhotosInductive'
      <3>1. FolderIsSound' /\ FolderTyped' /\ MirrorIsReal' /\ GenerationsTyped' /\ RestoreTyped' /\ CountsTyped'
        BY <2>1, UploadsFolderStep, GenerationsStep, RestoreStep, CountsStep DEF PhotosInductive
      <3>2. PhotosTypeOK'
        BY <3>1 DEF PhotosTypeOK, FolderTyped, RestoreTyped, CountsTyped, GenerationsTyped
      <3> QED
        BY <3>1, <3>2 DEF PhotosInductive
    <2> QED
      BY <2>1, PhotosStutter
  <1> QED
    BY <1>1, PhotosStart, PTL DEF PhotosSpec

\* The folder, the generations and what is in flight keep their types.
THEOREM PhotosTyped == PhotosSpec => []PhotosTypeOK
  <1>1. PhotosInductive => PhotosTypeOK
    BY DEF PhotosInductive
  <1> QED
    BY <1>1, PhotosInvariant, PTL

\* Whoever uploads, restores and deletes, and whatever fails: the picture a row
\* names is under that name once no upload holds it, or was set aside beside it.
THEOREM RowsHaveTheirPhotos == PhotosSpec => []RowsKeepTheirPhotos
  <1>1. PhotosInductive => RowsKeepTheirPhotos
    <2> SUFFICES ASSUME PhotosInductive, NEW p \in Pictured, photoRow[p] \in Extensions,
                        LockedBy(p, photoRow[p]) = {}
                 PROVE  uploads[<<p, photoRow[p]>>] # 0 \/ besides[p] # {}
      BY DEF RowsKeepTheirPhotos
    <2>1. PictureIsKept(p)
      BY FolderParts DEF PhotosInductive
    <2>2. \A u \in Uploaders : UploadAt(u, "moved") => upload[u].row # p
      BY DEF LockedBy, UploadAt
    <2> QED
      BY <2>1, <2>2 DEF PictureIsKept
  <1> QED
    BY <1>1, PhotosInvariant, PTL

\* If nobody deletes the generation a rollover is making, the live generation
\* has every name an older one has: a night, a crash or a deletion later too.
THEOREM LiveGenerationIsComplete ==
    ASSUME ~RacingDeletes
    PROVE  PhotosSpec => []LiveIsComplete
  <1>1. PhotosInit => LiveCovers
    BY DEF PhotosInit, LiveCovers
  <1>2. PhotosInductive /\ LiveCovers /\ [PhotosNext]_photosVars => LiveCovers'
    BY GenerationsStep, PhotosStutter
  <1>3. PhotosInductive /\ LiveCovers => LiveIsComplete
    BY DEF PhotosInductive, MirrorIsReal, LiveCovers, LiveIsComplete
  <1> QED
    BY <1>1, <1>2, <1>3, PhotosInvariant, PTL DEF PhotosSpec

=============================================================================
