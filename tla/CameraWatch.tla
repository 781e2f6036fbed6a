---------------------------- MODULE CameraWatch ----------------------------
(***************************************************************************)
(* The closet camera: internal/stockroom/camera_watch.go, camera.go and    *)
(* camera_detector.go.                                                     *)
(*                                                                         *)
(* A detector beside the server tracks people.  One goroutine polls it,    *)
(* keeps a row for each stay, copies the recordings of the stay to disk,   *)
(* and deletes old ones.  Admins mark recordings as kept meanwhile.  A     *)
(* step is one request to the detector, one transaction or one change to   *)
(* the recordings folder; the server may die between any two.              *)
(***************************************************************************)
EXTENDS Naturals, FiniteSets, FiniteSetsExt, Absent

CONSTANTS
    Events,         \* the people the detector tracks
    Cameras,        \* camera names; an event is listed under its camera's
    CameraOf,       \* the camera that sees each event
    Spurious,       \* events the detector itself calls false
    OnTheDot,       \* events whose start is a whole number of milliseconds
    Kinds,          \* the recordings of a stay: "snap", "clip"
    Unmade,         \* recordings the detector never makes
    MinVisit,       \* min_visit_seconds
    Overlap,        \* the minute before the newest visit that is listed again
    MediaDelay, Attempts, PerPoll,  \* cameraMediaDelay, -Attempts, -PerPoll
    Retention,      \* retention_days
    AdminCalls,     \* what admins do in an instance
    Minded,         \* the stays they mark or release
    MaxTime,        \* bound: the clock
    MaxFaults       \* bound: deaths of the server, requests and updates that fail

Time == 0..MaxTime

ASSUME CameraFits ==
    /\ CameraOf \in [Events -> Cameras]
    /\ Spurious \subseteq Events /\ Minded \subseteq Events /\ OnTheDot \subseteq Events
    /\ Kinds \subseteq {"snap", "clip"}
    /\ Unmade \subseteq Events \X Kinds
    /\ {MinVisit, Overlap, MediaDelay, Attempts, PerPoll, Retention, MaxTime, MaxFaults}
          \subseteq Nat
    /\ AdminCalls \subseteq {"keep", "enable", "rename"}

VARIABLES
    now,
    tracked,    \* the detector's events
    settings,   \* camera_settings
    visit,      \* closet_visits, by detector event
    files,      \* the recordings folder
    watcher,    \* the goroutine: where it is in a poll, and what it read
    memory,     \* the cursor and the failed downloads, kept between polls
    faults      \* what has failed so far

cameraVars == <<now, tracked, settings, visit, files, watcher, memory, faults>>

Tracked == [state : {"unseen", "present", "left", "forgotten"}, start : Time, end : Time \cup {None}]
Visit == [started : Time, camera : Cameras, ended : Time \cup {None}, saved : SUBSET Kinds,
          keep : BOOLEAN, deleted : BOOLEAN]

ASSUME NoneIsNoVisit == None \notin Nat \cup Visit

\* What a poll knows of an event: not listed, or its end.
Heard == [listed : BOOLEAN, end : Time \cup {None}]
Silence == [listed |-> FALSE, end |-> None]

Watcher == [pc : {"wait", "retain", "list", "apply", "media", "download"},
            on : BOOLEAN, camera : Cameras,     \* the settings as the poll read them
            expired : SUBSET Events,            \* visits still to claim
            heard : [Events -> Heard],
            ask : SUBSET Events,                \* open visits not listed
            upto : Time, held : BOOLEAN,        \* where the cursor will be
            todo : SUBSET (Events \X Kinds)]    \* recordings to fetch

Between == [pc |-> "wait", on |-> FALSE, camera |-> CHOOSE c \in Cameras : TRUE, expired |-> {},
            heard |-> [e \in Events |-> Silence], ask |-> {}, upto |-> 0, held |-> FALSE,
            todo |-> {}]

NoMemory == [cursor |-> 0, tries |-> [m \in Events \X Kinds |-> 0]]

CameraTypeOK ==
    /\ now \in Time /\ faults \in 0..MaxFaults
    /\ tracked \in [Events -> Tracked]
    /\ settings \in [on : BOOLEAN, camera : Cameras]
    /\ visit \in [Events -> Visit \cup {None}]
    /\ \A e \in Events : visit[e] # None => visit[e].ended = None \/ visit[e].ended >= visit[e].started
    /\ files \subseteq Events \X Kinds
    /\ watcher \in Watcher
    /\ memory \in [cursor : Time, tries : [Events \X Kinds -> 0..Attempts]]

CameraInit ==
    /\ now = 0 /\ faults = 0
    /\ tracked = [e \in Events |-> [state |-> "unseen", start |-> 0, end |-> None]]
    /\ settings \in [on : {TRUE}, camera : {CameraOf[e] : e \in Events}]
    /\ visit = [e \in Events |-> None]
    /\ files = {}
    /\ watcher = Between
    /\ memory = NoMemory

-----------------------------------------------------------------------------
(* The room and the detector.                                              *)

Appear(e) ==
    /\ tracked[e].state = "unseen"
    /\ tracked' = [tracked EXCEPT ![e] = [state |-> "present", start |-> now, end |-> None]]
    /\ UNCHANGED <<now, settings, visit, files, watcher, memory, faults>>

Leave(e) ==
    /\ tracked[e].state = "present"
    /\ tracked' = [tracked EXCEPT ![e].state = "left", ![e].end = now]
    /\ UNCHANGED <<now, settings, visit, files, watcher, memory, faults>>

Fault == faults < MaxFaults /\ faults' = faults + 1

\* The detector restarts with a fresh database.
DetectorForgets ==
    /\ Fault
    /\ tracked' = [e \in Events |-> IF tracked[e].state = "unseen" THEN tracked[e]
                                   ELSE [tracked[e] EXCEPT !.state = "forgotten"]]
    /\ UNCHANGED <<now, settings, visit, files, watcher, memory>>

Tick ==
    /\ now < MaxTime
    /\ now' = now + 1
    /\ UNCHANGED <<tracked, settings, visit, files, watcher, memory, faults>>

-----------------------------------------------------------------------------
Polls(w) == watcher' = w
EndPoll == Polls(Between)

Visits == {e \in Events : visit[e] # None}
Open(e) == visit[e] # None /\ visit[e].ended = None
Latest(c) == Max({visit[e].started : e \in {f \in Visits : visit[f].camera = c}})

\* Where the listing starts.  The hour before a first visit and the three days the
\* detector remembers are longer than any behaviour here.
Since(c) ==
    LET fromVisits == IF \E e \in Visits : visit[e].camera = c /\ visit[e].started > Overlap
                      THEN Latest(c) - Overlap
                      ELSE 0
    IN  Max({fromVisits, memory.cursor})

\* "after" is cut to the millisecond: an event starting within that millisecond
\* comes after it, one starting on the dot does not.
Listed(e, c, since) ==
    /\ tracked[e].state \in {"present", "left"} /\ CameraOf[e] = c
    /\ tracked[e].start > since \/ (tracked[e].start = since /\ e \notin OnTheDot)

Answer(e) == [listed |-> TRUE, end |-> tracked[e].end]

-----------------------------------------------------------------------------
(* A poll.                                                                 *)

Expired(e) ==
    /\ visit[e] # None /\ ~visit[e].keep /\ ~visit[e].deleted
    /\ visit[e].started + Retention < now

\* The settings are read; retention goes first, if an hour has passed.
Poll ==
    /\ watcher.pc = "wait"
    /\ \E expired \in {{}, {e \in Events : Expired(e)}} :
          Polls([Between EXCEPT !.on = settings.on, !.camera = settings.camera,
                                !.expired = expired,
                                !.pc = IF expired # {} THEN "retain" ELSE IF settings.on THEN "list" ELSE "wait"])
    /\ UNCHANGED <<now, tracked, settings, visit, files, memory, faults>>

\* Bug: what was listed is claimed, without looking at keep again.
Claim_AsListed(e) ==
    /\ watcher.pc = "retain" /\ e \in watcher.expired
    /\ visit' = [visit EXCEPT ![e].deleted = TRUE]
    /\ files' = files \ ({e} \X visit[e].saved)
    /\ Polls([watcher EXCEPT !.expired = @ \ {e}])
    /\ UNCHANGED <<now, tracked, settings, memory, faults>>

\* One listed visit is claimed, unless it was kept or deleted since, and its files go.
\* A file that cannot be deleted is left, as it is when the server dies after the claim.
Claim(e) ==
    /\ watcher.pc = "retain" /\ e \in watcher.expired
    /\ IF visit[e].keep \/ visit[e].deleted
       THEN UNCHANGED <<visit, files>>
       ELSE /\ visit' = [visit EXCEPT ![e].deleted = TRUE]
            /\ \E gone \in SUBSET ({e} \X visit[e].saved) : files' = files \ gone
    /\ Polls([watcher EXCEPT !.expired = @ \ {e}])
    /\ UNCHANGED <<now, tracked, settings, memory, faults>>

Retained ==
    /\ watcher.pc = "retain" /\ watcher.expired = {}
    /\ IF watcher.on THEN Polls([watcher EXCEPT !.pc = "list"]) ELSE EndPoll
    /\ UNCHANGED <<now, tracked, settings, visit, files, memory, faults>>

\* A failed claim ends retention for now; the poll goes on.
RetentionFails ==
    /\ watcher.pc = "retain" /\ Fault
    /\ Polls([watcher EXCEPT !.expired = {}])
    /\ UNCHANGED <<now, tracked, settings, visit, files, memory>>

\* The detector answers (whether its camera sends frames only changes the status)
\* and lists its events; then the open visits are read.
ListEvents ==
    LET heard == [e \in Events |-> IF Listed(e, watcher.camera, Since(watcher.camera))
                                   THEN Answer(e) ELSE Silence] IN
    /\ watcher.pc = "list"
    /\ Polls([watcher EXCEPT !.pc = "apply", !.heard = heard,
                 !.ask = {e \in Events : /\ Open(e) /\ visit[e].camera = watcher.camera
                                         /\ ~heard[e].listed}])
    /\ UNCHANGED <<now, tracked, settings, visit, files, memory, faults>>

\* closeVisit: an end once written stays.
Closed(v, end) == [v EXCEPT !.ended = IF @ = None THEN end ELSE @]

\* Bug: a stay the detector forgot is passed over.
AskAbout_PassedOver(e) ==
    /\ watcher.pc = "apply" /\ e \in watcher.ask
    /\ Polls([watcher EXCEPT !.ask = @ \ {e},
                 !.heard[e] = IF tracked[e].state = "forgotten" THEN Silence ELSE Answer(e)])
    /\ UNCHANGED <<now, tracked, settings, visit, files, memory, faults>>

\* An open visit that was not listed is asked about by id, and closed if the
\* detector does not know it.
AskAbout(e) ==
    /\ watcher.pc = "apply" /\ e \in watcher.ask
    /\ IF tracked[e].state = "forgotten"
       THEN /\ visit' = [visit EXCEPT ![e] = Closed(@, now)]
            /\ Polls([watcher EXCEPT !.ask = @ \ {e}])
       ELSE /\ Polls([watcher EXCEPT !.ask = @ \ {e}, !.heard[e] = Answer(e)])
            /\ UNCHANGED visit
    /\ UNCHANGED <<now, tracked, settings, files, memory, faults>>

Oldest(e) == \A f \in Events : watcher.heard[f].listed => tracked[e].start <= tracked[f].start

\* applyDetectorEvent: the row of the visit after an event was heard.
LongEnough(e, end) == (IF end = None THEN now ELSE end) >= tracked[e].start + MinVisit

After(e) ==
    LET end == watcher.heard[e].end IN
    CASE e \in Spurious -> visit[e]
      [] e \notin Spurious /\ visit[e] = None ->
            IF LongEnough(e, end)
            THEN [started |-> tracked[e].start, camera |-> watcher.camera, ended |-> end,
                  saved |-> {}, keep |-> FALSE, deleted |-> FALSE]
            ELSE None
      [] e \notin Spurious /\ visit[e] # None ->
            Closed(visit[e], end)

\* Bug: the cursor goes past a stay that is not yet long enough.
MayComeOfIt_Never(e) == FALSE

\* A stay in progress that is not a visit yet may still become one.
MayComeOfIt(e) == watcher.heard[e].end = None /\ e \notin Spurious /\ After(e) = None

ApplyEvent(e) ==
    /\ watcher.pc = "apply" /\ watcher.ask = {} /\ watcher.heard[e].listed /\ Oldest(e)
    /\ visit' = [visit EXCEPT ![e] = After(e)]
    /\ Polls([watcher EXCEPT !.heard[e] = Silence,
                             !.upto = IF watcher.held THEN @ ELSE tracked[e].start,
                             !.held = @ \/ MayComeOfIt(e)])
    /\ UNCHANGED <<now, tracked, settings, files, memory, faults>>

\* The cursor never goes back.
MoveCursor ==
    /\ watcher.pc = "apply" /\ watcher.ask = {} /\ \A e \in Events : ~watcher.heard[e].listed
    /\ memory' = [memory EXCEPT !.cursor = Max({@, watcher.upto})]
    /\ Polls([watcher EXCEPT !.pc = "media", !.upto = 0, !.held = FALSE])
    /\ UNCHANGED <<now, tracked, settings, visit, files, faults>>

-----------------------------------------------------------------------------
(* Recordings.                                                             *)

\* A finished visit wants what it lacks, a running one its snapshot.
Wanted(m) ==
    LET v == visit[m[1]] IN
    /\ v # None /\ v.camera = watcher.camera /\ ~v.deleted /\ m[2] \notin v.saved
    /\ memory.tries[m] < Attempts
    /\ IF v.ended = None THEN m[2] = "snap" ELSE v.ended + MediaDelay < now

\* The newest visits first, some at a time.
ListMedia ==
    LET wanting == {e \in Events : \E k \in Kinds : Wanted(<<e, k>>)} IN
    /\ watcher.pc = "media"
    /\ \E some \in SUBSET wanting :
          /\ Cardinality(some) = Min({PerPoll, Cardinality(wanting)})
          /\ \A e \in some, f \in wanting \ some : visit[e].started >= visit[f].started
          /\ Polls([watcher EXCEPT !.pc = "download",
                       !.todo = {m \in some \X Kinds : Wanted(m)}])
    /\ UNCHANGED <<now, tracked, settings, visit, files, memory, faults>>

\* The detector has made it and has not forgotten it.
Available(m) == m \notin Unmade /\ tracked[m[1]].state \in {"present", "left"}

\* The file is complete when it gets its name.
SaveMedia(m) == files' = files \cup {m}

\* Then the row names it.  An error of that update is not looked at: the next poll
\* downloads again.
Download(m) ==
    /\ watcher.pc = "download" /\ m \in watcher.todo /\ Available(m)
    /\ SaveMedia(m)
    /\ \/ visit' = [visit EXCEPT ![m[1]].saved = @ \cup {m[2]}] /\ UNCHANGED faults
       \/ Fault /\ UNCHANGED visit
    /\ Polls([watcher EXCEPT !.todo = @ \ {m}])
    /\ UNCHANGED <<now, tracked, settings, memory>>

DownloadFails(m) ==
    /\ watcher.pc = "download" /\ m \in watcher.todo
    /\ IF Available(m) THEN Fault ELSE UNCHANGED faults
    /\ memory' = [memory EXCEPT !.tries[m] = Min({@ + 1, Attempts})]
    /\ Polls([watcher EXCEPT !.todo = @ \ {m}])
    /\ UNCHANGED <<now, tracked, settings, visit, files>>

MediaDone ==
    /\ watcher.pc = "download" /\ watcher.todo = {}
    /\ EndPoll
    /\ UNCHANGED <<now, tracked, settings, visit, files, memory, faults>>

\* The detector or the database does not answer: the next poll starts over.
PollFails ==
    /\ watcher.pc \in {"list", "apply", "media"} /\ Fault
    /\ EndPoll
    /\ UNCHANGED <<now, tracked, settings, visit, files, memory>>

-----------------------------------------------------------------------------
(* Admins, and the end of the process.                                     *)

\* SetVisitKeep: a recording already deleted cannot be kept.
SetVisitKeep(e, keep) ==
    /\ "keep" \in AdminCalls /\ e \in Minded /\ visit[e] # None
    /\ keep => ~visit[e].deleted
    /\ visit' = [visit EXCEPT ![e].keep = keep]
    /\ UNCHANGED <<now, tracked, settings, files, watcher, memory, faults>>

\* SaveCamera.
SaveCamera(s) ==
    /\ s # settings
    /\ s.on # settings.on => "enable" \in AdminCalls
    /\ s.camera # settings.camera => "rename" \in AdminCalls
    /\ settings' = s
    /\ UNCHANGED <<now, tracked, visit, files, watcher, memory, faults>>

CameraRestart ==
    /\ Fault
    /\ watcher' = Between /\ memory' = NoMemory
    /\ UNCHANGED <<now, tracked, settings, visit, files>>

PollSteps ==
    \/ Poll\/ Retained \/ ListEvents \/ MoveCursor
    \/ ListMedia \/ MediaDone
    \/ \E e \in Events : Claim(e) \/ AskAbout(e) \/ ApplyEvent(e)
    \/ \E m \in Events \X Kinds : Download(m) \/ DownloadFails(m)

CameraNext ==
    \/ Tick \/ DetectorForgets
    \/ \E e \in Events : Appear(e) \/ Leave(e)
    \/ PollSteps \/ RetentionFails \/ PollFails
    \/ \E e \in Events, keep \in BOOLEAN : SetVisitKeep(e, keep)
    \/ \E s \in [on : BOOLEAN, camera : Cameras] : SaveCamera(s)
    \/ CameraRestart

CameraSpec == CameraInit /\ [][CameraNext]_cameraVars

\* The ticker goes on, and what fails does not fail for ever.
CameraFair == WF_cameraVars(PollSteps)

FairCameraSpec == CameraSpec /\ CameraFair

-----------------------------------------------------------------------------
(* What must hold.                                                         *)

\* camera_watch.go: "a kept clip deleted and marked gone" must not be: whatever
\* retention had listed, a kept recording is on disk wherever its row says so.
KeptRecordingsStay ==
    \A e \in Visits : visit[e].keep => ~visit[e].deleted /\ {e} \X visit[e].saved \subseteq files

\* No stay is lost: one that the next listing will not show, and that was long enough
\* or is still going on, is a visit; even after a restart, when the cursor is gone.
StaysBecomeVisits ==
    \A e \in Events \ Spurious :
        LET end == tracked[e].end IN
        /\ tracked[e].state \in {"present", "left"}
        /\ end = None \/ LongEnough(e, end)
        /\ CameraOf[e] = settings.camera /\ ~Listed(e, settings.camera, Since(settings.camera))
        => visit[e] # None

\* "rather than leave somebody in the closet forever": once the detector knows that a
\* person left, or knows nothing, the visit ends, while the camera stays on.
VisitsEnd ==
    \A e \in Events :
        Open(e) /\ tracked[e].state \in {"left", "forgotten"} ~> ~Open(e) \/ ~settings.on

=============================================================================
