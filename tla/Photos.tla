------------------------------- MODULE Photos -------------------------------
(***************************************************************************)
(* Photos and their mirror: internal/stockroom/photos.go, photos_backup.go *)
(* and SetAssetPhoto in assets_admin.go.                                   *)
(*                                                                         *)
(* A row names its photo by a path in the uploads folder: the row's id and *)
(* an extension.  An upload replaces file and row together, one upload of  *)
(* a photo at a time.  Each night's backup mirrors the folder into the     *)
(* live generation; a generation is frozen when keep_days are over.  Every *)
(* picture has a number of its own, and 0 is no file.                      *)
(***************************************************************************)
EXTENDS Naturals, FiniteSets, Absent

CONSTANTS
    Pictured,       \* the rows with a photo: assets, accounts
    Extensions,
    Uploaders,      \* requests that upload
    GenerationDays, \* keep_days, as the mirror reads it
    RacingDeletes,  \* whether a generation is deleted while it is being made
    MaxPicture,     \* bound: pictures
    LastNight,      \* bound: the last day
    MaxChores,      \* bound: restores, and deletions of a generation or a row
    MaxMishaps      \* bound: deaths of the server, and steps that fail

ASSUME PhotosFit ==
    /\ {GenerationDays, MaxPicture, LastNight, MaxChores, MaxMishaps} \subseteq Nat
    /\ RacingDeletes \in BOOLEAN
    /\ Extensions \cap {None, "gone"} = {}

VARIABLES
    night,
    uploads,        \* the folder: the picture at each name
    besides,        \* .replaced- copies nobody will put back
    photoRow,       \* photo_path, by row; "gone" for a row that is deleted
    upload,         \* the uploads in flight
    gens,           \* the photo backup folder: its generations, by day
    current,        \* .current
    aside,          \* what restores have set aside
    mirror,         \* the mirror's run, or None
    putBack,        \* the restore in flight, or None
    taken, chores, mishaps

photosVars == <<night, uploads, besides, photoRow, upload, gens, current, aside, mirror, putBack,
                taken, chores, mishaps>>
folder == <<uploads, besides, photoRow>>
backups == <<gens, current, aside>>
jobs == <<upload, mirror, putBack>>
counts == <<night, taken, chores, mishaps>>

Nights == 0..LastNight
Names == Pictured \X Extensions
Pictures == 1..MaxPicture
Folder == [Names -> {0} \cup Pictures]
Empty == [n \in Names |-> 0]
FilesOf(f) == {n \in Names : f[n] # 0}
Upload == [row : Pictured, ext : Extensions, picture : Pictures, stale : SUBSET Names,
           backup : {0} \cup Pictures, pc : {"wait", "staged", "moved", "published", "written"}]
Run == [pc : {"roll", "copy"}, into : Nights, todo : SUBSET Names]
Restore == [from : Nights, todo : SUBSET Names, at : Names \cup {None}]

ASSUME NoneIsNothing == None \notin Nights \cup Names \cup Folder \cup Upload \cup Run \cup Restore

PhotosTypeOK ==
    /\ night \in Nights
    /\ uploads \in Folder /\ besides \in [Pictured -> SUBSET Pictures]
    /\ photoRow \in [Pictured -> Extensions \cup {None, "gone"}]
    /\ upload \in [Uploaders -> Upload \cup {None}]
    /\ gens \in [Nights -> Folder \cup {None}]
    /\ current \in Nights \cup {None} /\ aside \subseteq Pictures
    /\ mirror \in Run \cup {None} /\ putBack \in Restore \cup {None}
    /\ taken \in 0..MaxPicture /\ chores \in 0..MaxChores /\ mishaps \in 0..MaxMishaps

PhotosInit ==
    /\ night = 0
    /\ uploads = Empty /\ besides = [p \in Pictured |-> {}]
    /\ photoRow = [p \in Pictured |-> None]
    /\ upload = [u \in Uploaders |-> None]
    /\ gens = [d \in Nights |-> None] /\ current = None /\ aside = {}
    /\ mirror = None /\ putBack = None
    /\ taken = 0 /\ chores = 0 /\ mishaps = 0

Mishap == mishaps < MaxMishaps /\ mishaps' = mishaps + 1
Chore == chores < MaxChores /\ chores' = chores + 1

----------------------------------------------------------------------------
(* An upload: SetAssetPhoto, or the roster import's storePhoto.            *)

UploadAt(u, pc) == upload[u] # None /\ upload[u].pc = pc
Name(u) == <<upload[u].row, upload[u].ext>>
Moves(u, pc) == upload' = [upload EXCEPT ![u].pc = pc]
Leaves(u) == upload' = [upload EXCEPT ![u] = None]

\* Bug: the lock is the file's, not the photo's.
LockedBy_Path(row, ext) ==
    {u \in Uploaders : upload[u] # None /\ upload[u].pc # "wait" /\ Name(u) = <<row, ext>>}

\* lockPhoto: the key has no extension in it.
LockedBy(row, ext) == {u \in Uploaders : upload[u] # None /\ upload[u].pc # "wait" /\ upload[u].row = row}

Asks(u) ==
    /\ upload[u] = None /\ taken < MaxPicture
    /\ \E row \in Pictured, ext \in Extensions :
          /\ photoRow[row] # "gone"
          /\ upload' = [upload EXCEPT ![u] = [row |-> row, ext |-> ext, picture |-> taken + 1,
                                              stale |-> {}, backup |-> 0, pc |-> "wait"]]
    /\ taken' = taken + 1
    /\ UNCHANGED <<night, chores, mishaps, folder, backups, mirror, putBack>>

\* Copies under the other extensions are looked for now and removed at the end.
Stages(u) ==
    /\ UploadAt(u, "wait") /\ LockedBy(upload[u].row, upload[u].ext) = {}
    /\ upload' = [upload EXCEPT ![u].pc = "staged",
                                ![u].stale = {n \in FilesOf(uploads) : n[1] = upload[u].row} \ {Name(u)}]
    /\ UNCHANGED <<counts, folder, backups, mirror, putBack>>

\* What is there is set aside ...
MovesAway(u) ==
    /\ UploadAt(u, "staged")
    /\ upload' = [upload EXCEPT ![u].pc = "moved", ![u].backup = uploads[Name(u)]]
    /\ uploads' = [uploads EXCEPT ![Name(u)] = 0]
    /\ UNCHANGED <<counts, besides, photoRow, backups, mirror, putBack>>

\* ... and the new picture takes its place.
Publishes(u) ==
    /\ UploadAt(u, "moved")
    /\ uploads' = [uploads EXCEPT ![Name(u)] = upload[u].picture]
    /\ Moves(u, "published")
    /\ UNCHANGED <<counts, besides, photoRow, backups, mirror, putBack>>

WritesRow(u) ==
    /\ UploadAt(u, "published") /\ photoRow[upload[u].row] # "gone"
    /\ photoRow' = [photoRow EXCEPT ![upload[u].row] = upload[u].ext]
    /\ Moves(u, "written")
    /\ UNCHANGED <<counts, uploads, besides, backups, mirror, putBack>>

Commits(u) ==
    /\ UploadAt(u, "written")
    /\ uploads' = [n \in Names |-> IF n \in upload[u].stale THEN 0 ELSE uploads[n]]
    /\ Leaves(u)
    /\ UNCHANGED <<counts, besides, photoRow, backups, mirror, putBack>>

\* rollback: what was set aside goes back to its name.
RolledBack(u) ==
    IF UploadAt(u, "staged") THEN uploads
    ELSE [uploads EXCEPT ![Name(u)] = upload[u].backup]

\* A step failed, or the row was deleted meanwhile.
RollsBack(u) ==
    /\ upload[u] # None /\ upload[u].pc \in {"staged", "moved", "published"}
    /\ IF UploadAt(u, "published") /\ photoRow[upload[u].row] = "gone" THEN UNCHANGED mishaps ELSE Mishap
    /\ uploads' = RolledBack(u)
    /\ Leaves(u)
    /\ UNCHANGED <<night, taken, chores, besides, photoRow, backups, mirror, putBack>>

RowGoes ==
    /\ Chore
    /\ \E row \in Pictured : photoRow[row] # "gone" /\ photoRow' = [photoRow EXCEPT ![row] = "gone"]
    /\ UNCHANGED <<night, taken, mishaps, uploads, besides, backups, jobs>>

----------------------------------------------------------------------------
(* The mirror.                                                             *)

RollsOver == current # None /\ night >= current + GenerationDays /\ GenerationDays > 0 /\ current # night

Made(g) == IF gens[g] = None THEN Empty ELSE gens[g]

\* Bug: the new generation is the live one before it is a full copy.
CurrentAtStart_Early == night

\* writeCurrent, for the first generation; a rollover writes it when it is done.
CurrentAtStart == IF RollsOver THEN current ELSE IF current = None THEN night ELSE current

MirrorStarts ==
    /\ mirror = None
    /\ LET into == IF RollsOver \/ current = None THEN night ELSE current IN
       /\ mirror' = [pc |-> IF RollsOver THEN "roll" ELSE "copy", into |-> into,
                     todo |-> IF RollsOver THEN FilesOf(gens[current]) ELSE Names]
       /\ gens' = [gens EXCEPT ![into] = Made(into)]
    /\ current' = CurrentAtStart
    /\ UNCHANGED <<counts, folder, aside, upload, putBack>>

Wrote(g, n, picture) == gens' = [gens EXCEPT ![g] = [Made(g) EXCEPT ![n] = picture]]

\* copyTree, then writeCurrent and the walk of the uploads.
RollsFile ==
    /\ mirror # None /\ mirror.pc = "roll"
    /\ \E n \in mirror.todo :
          /\ Wrote(mirror.into, n, gens[current][n])
          /\ mirror' = [mirror EXCEPT !.todo = @ \ {n}]
    /\ UNCHANGED <<counts, folder, current, aside, upload, putBack>>

RolledOver ==
    /\ mirror # None /\ mirror.pc = "roll" /\ mirror.todo = {}
    /\ current' = mirror.into
    /\ mirror' = [mirror EXCEPT !.pc = "copy", !.todo = Names]
    /\ gens' = [gens EXCEPT ![mirror.into] = Made(mirror.into)]
    /\ UNCHANGED <<counts, folder, aside, upload, putBack>>

\* A name with no file is not listed; nothing in the generation is deleted.
CopiesFile ==
    /\ mirror # None /\ mirror.pc = "copy" /\ mirror.todo # {}
    /\ \E n \in mirror.todo :
          /\ IF uploads[n] = 0 THEN UNCHANGED gens ELSE Wrote(mirror.into, n, uploads[n])
          /\ mirror' = [mirror EXCEPT !.todo = @ \ {n}]
    /\ UNCHANGED <<counts, folder, current, aside, upload, putBack>>

MirrorEnds ==
    /\ mirror # None
    /\ IF mirror.pc = "copy" /\ mirror.todo = {} THEN UNCHANGED mishaps ELSE Mishap
    /\ mirror' = None
    /\ UNCHANGED <<night, taken, chores, folder, backups, upload, putBack>>

Midnight ==
    /\ night < LastNight /\ night' = night + 1
    /\ UNCHANGED <<taken, chores, mishaps, folder, backups, jobs>>

----------------------------------------------------------------------------
(* What an admin does with a generation.                                   *)

DeletePhotoGeneration ==
    /\ Chore
    /\ \E g \in Nights :
          /\ gens[g] # None /\ g # current
          /\ IF RacingDeletes \/ mirror = None THEN TRUE ELSE mirror.into # g
          /\ gens' = [gens EXCEPT ![g] = None]
    /\ UNCHANGED <<night, taken, mishaps, folder, current, aside, jobs>>

RestorePhotos ==
    /\ Chore /\ putBack = None
    /\ \E g \in Nights :
          gens[g] # None /\ putBack' = [from |-> g, todo |-> FilesOf(gens[g]), at |-> None]
    /\ UNCHANGED <<night, taken, mishaps, folder, backups, upload, mirror>>

Listed(n) == gens[putBack.from] # None /\ gens[putBack.from][n] # 0

\* Each file in turn: what is at its name is copied aside, then replaced.
SetsAside ==
    /\ putBack # None /\ putBack.at = None
    /\ \E n \in putBack.todo :
          /\ Listed(n)
          /\ aside' = aside \cup ({uploads[n]} \ {0})
          /\ putBack' = [putBack EXCEPT !.at = n]
    /\ UNCHANGED <<counts, folder, gens, current, upload, mirror>>

PutsBack ==
    /\ putBack # None /\ putBack.at # None /\ Listed(putBack.at)
    /\ uploads' = [uploads EXCEPT ![putBack.at] = gens[putBack.from][putBack.at]]
    /\ putBack' = [putBack EXCEPT !.at = None, !.todo = @ \ {putBack.at}]
    /\ UNCHANGED <<counts, besides, photoRow, backups, upload, mirror>>

\* Done, or stopped at a file that was deleted under it.
RestoreEnds ==
    /\ putBack # None
    /\ IF putBack.at # None THEN ~Listed(putBack.at)
       ELSE putBack.todo = {} \/ \E n \in putBack.todo : ~Listed(n)
    /\ putBack' = None
    /\ UNCHANGED <<counts, folder, backups, upload, mirror>>

\* The server dies; what an upload had set aside stays where it lies.
PhotosDie ==
    /\ Mishap
    /\ besides' = [p \in Pictured |-> besides[p] \cup
                     ({upload[u].backup : u \in {v \in Uploaders : upload[v] # None /\ upload[v].row = p}} \ {0})]
    /\ upload' = [u \in Uploaders |-> None]
    /\ mirror' = None /\ putBack' = None
    /\ UNCHANGED <<night, taken, chores, uploads, photoRow, backups>>

PhotosNext ==
    \/ \E u \in Uploaders :
          \/ Asks(u) \/ Stages(u) \/ MovesAway(u) \/ Publishes(u) \/ WritesRow(u)
          \/ Commits(u) \/ RollsBack(u)
    \/ RowGoes \/ MirrorStarts \/ RollsFile \/ RolledOver \/ CopiesFile \/ MirrorEnds \/ Midnight
    \/ DeletePhotoGeneration \/ RestorePhotos \/ SetsAside \/ PutsBack \/ RestoreEnds \/ PhotosDie

PhotosSpec == PhotosInit /\ [][PhotosNext]_photosVars

----------------------------------------------------------------------------
(* Properties.                                                             *)

(* Whoever uploads, and whatever fails: a row that names a photo finds a   *)
(* picture at that name once no upload holds it, or the copy a dead upload *)
(* set aside lies beside it (photos.go: "the row that points at it").      *)
RowsKeepTheirPhotos ==
    \A p \in Pictured :
        photoRow[p] \in Extensions /\ LockedBy(p, photoRow[p]) = {} =>
            uploads[<<p, photoRow[p]>>] # 0 \/ besides[p] # {}

(* The live generation is complete on its own: it has every name that a    *)
(* generation before it has, though rollovers are cut short and old        *)
(* generations deleted (photos_backup.go:207).                             *)
LiveIsComplete ==
    current # None =>
        /\ gens[current] # None
        /\ \A g \in Nights : g < current /\ gens[g] # None => FilesOf(gens[g]) \subseteq FilesOf(gens[current])
=============================================================================
