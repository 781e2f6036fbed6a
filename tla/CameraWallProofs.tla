-------------------------- MODULE CameraWallProofs --------------------------
(***************************************************************************)
(* Proofs about the two modules that show pictures: CameraWatch, for any   *)
(* number of people, cameras, kinds of recording and faults, and any       *)
(* retention; and PhotoWall, for any folders, photographs and sizes, and   *)
(* any number of admins, requests, failures and restarts.  And about the   *)
(* sign-in the wall starts with: GoogleSignIn, for any admins and clients. *)
(***************************************************************************)
EXTENDS CameraWatch, PhotoWall, GoogleSignIn, FiniteSetTheorems, SequenceTheorems,
        WellFoundedInduction, TLAPS

-----------------------------------------------------------------------------
(* CameraWatch.                                                             *)

\* The detector's times are in order.
TrackedInTime ==
    \A e \in Events :
        /\ tracked[e].start <= now
        /\ tracked[e].end # None => tracked[e].start <= tracked[e].end /\ tracked[e].end <= now
        /\ tracked[e].state \in {"unseen", "present"} => tracked[e].end = None

\* A visit is its event's, under the camera that sees it.
VisitsAreTheirs ==
    \A e \in Visits : /\ visit[e].camera = CameraOf[e] /\ visit[e].started = tracked[e].start
                      /\ tracked[e].state # "unseen"

\* What a poll holds is of events and visits there are, and no end it heard has
\* changed since.
Sound(w) ==
    /\ \A e \in Events :
          /\ w.heard[e].listed => tracked[e].state # "unseen" /\ CameraOf[e] = w.camera
          /\ w.heard[e].end \in {None, tracked[e].end}
    /\ w.expired \subseteq Visits
    /\ \A e \in w.ask : visit[e] # None /\ visit[e].camera = w.camera
    /\ \A m \in w.todo : m[1] \in Visits
    /\ w.pc \in {"retain", "list"} => w.upto = 0
    /\ w.upto <= now

PollIsSound == Sound(watcher) /\ memory.cursor <= now

\* What was saved of a visit is there until the visit is claimed, and what is
\* kept is not claimed.
SavedAreThere ==
    \A e \in Visits : /\ ~visit[e].deleted => {e} \X visit[e].saved \subseteq files
                      /\ visit[e].keep => ~visit[e].deleted

CameraInductive ==
    /\ CameraTypeOK /\ TrackedInTime /\ VisitsAreTheirs /\ PollIsSound /\ SavedAreThere

\* A stay that is owed a visit: the detector has it, and it was long enough or is
\* still going on.
Owed(e) ==
    /\ e \notin Spurious /\ visit[e] = None /\ CameraOf[e] = settings.camera
    /\ tracked[e].state \in {"present", "left"}
    /\ tracked[e].end = None \/ tracked[e].end >= tracked[e].start + MinVisit

\* The events a poll has still to apply, or to ask about and apply.
Ahead == {e \in Events : watcher.heard[e].listed} \cup watcher.ask

\* In a poll, a stay that is owed a visit is still to be applied; or it was, holds the
\* cursor, and was then younger than MinVisit, as is all that was listed with it;
\* or it began after the listing.
StillToCome(e) ==
    /\ watcher.upto <= tracked[e].start
    /\ \/ watcher.heard[e].listed
       \/ watcher.held /\ \A f \in Ahead : tracked[f].start <= tracked[e].start + MinVisit
       \/ \A f \in Ahead : tracked[f].start <= tracked[e].start

\* The next listing begins before every stay that is owed a visit.
OwedAreNext ==
    /\ watcher.pc # "wait" => watcher.camera = settings.camera
    /\ \A e \in Events : Owed(e) =>
          /\ memory.cursor <= tracked[e].start
          /\ \A f \in Visits : visit[f].camera = settings.camera =>
                visit[f].started <= tracked[e].start + Overlap
          /\ watcher.pc = "apply" => StillToCome(e)

-----------------------------------------------------------------------------
(* Numbers.                                                                 *)

\* Numbers up to a bound have a greatest: the least that none of them exceeds.
LEMMA BoundedHaveAGreatest ==
    ASSUME NEW n \in Nat, NEW S \in SUBSET (0..n), S # {}
    PROVE  Max(S) \in S /\ \A x \in S : x <= Max(S)
<1> DEFINE Above == {x \in Nat : \A y \in S : y <= x}
           R == OpToRel(<, Nat)
<1>1. n \in Above
    OBVIOUS
<1>2. PICK m \in Above : \A y \in Above : ~(<<y, m>> \in R)
    <2>1. IsWellFoundedOn(R, Nat)
        BY NatLessThanWellFounded
    <2>2. Above \subseteq Nat /\ Above # {}
        BY <1>1
    <2> HIDE DEF Above, R
    <2> QED
        BY <2>1, <2>2, WFMin
<1>3. \A y \in Above : ~(y < m)
    BY <1>2 DEF OpToRel
<1>4. m \in S
    <2>1. SUFFICES ASSUME m \notin S PROVE FALSE
        OBVIOUS
    <2>2. \A y \in S : y < m /\ y \in Nat
        BY <2>1
    <2>3. m \in Nat /\ m - 1 \in Nat
        <3>1. PICK y \in S : TRUE
            OBVIOUS
        <3> QED
            BY <2>2, <3>1
    <2>4. \A y \in S : y <= m - 1
        BY <2>2, <2>3
    <2>5. m - 1 \in Above
        BY <2>3, <2>4
    <2> QED
        BY <1>3, <2>3, <2>5
<1>5. \E x \in S : \A y \in S : x >= y
    BY <1>4
<1> QED
    BY <1>5 DEF Max

\* The later of two.
LEMMA LaterOfTwo ==
    ASSUME NEW a \in Nat, NEW b \in Nat
    PROVE  /\ Max({a, b}) \in {a, b}
           /\ a <= Max({a, b}) /\ b <= Max({a, b})
<1>1. \E x \in {a, b} : \A y \in {a, b} : x >= y
    OBVIOUS
<1> QED
    BY <1>1 DEF Max

\* The fewer of two.
LEMMA FewerOfTwo ==
    ASSUME NEW a \in Nat, NEW b \in Nat
    PROVE  Min({a, b}) \in {a, b} /\ Min({a, b}) <= b
<1>1. \E x \in {a, b} : \A y \in {a, b} : x <= y
    OBVIOUS
<1> QED
    BY <1>1 DEF Min

\* A clock's bounds and the settings are numbers.
LEMMA SettingsAreNumbers ==
    /\ MinVisit \in Nat /\ Overlap \in Nat /\ Attempts \in Nat /\ MaxTime \in Nat
    /\ MaxFaults \in Nat /\ Time \subseteq Nat
BY CameraFits DEF Time

-----------------------------------------------------------------------------
(* Steps of a poll.                                                         *)

\* Every visit is a row of its own event.
LEMMA VisitsAreRows ==
    ASSUME CameraInductive
    PROVE  \A e \in Visits :
              /\ e \in Events /\ visit[e] \in Visit
              /\ visit[e].started \in Time /\ visit[e].camera \in Cameras
              /\ visit[e].ended \in Time \cup {None} /\ visit[e].saved \subseteq Kinds
              /\ visit[e].keep \in BOOLEAN /\ visit[e].deleted \in BOOLEAN
              /\ visit[e].started = tracked[e].start /\ visit[e].camera = CameraOf[e]
<1>1. \A e \in Visits : e \in Events /\ visit[e] \in Visit
    BY DEF CameraInductive, CameraTypeOK, Visits
<1>2. \A v \in Visit :
         /\ v.started \in Time /\ v.camera \in Cameras
         /\ v.ended \in Time \cup {None} /\ v.saved \subseteq Kinds
         /\ v.keep \in BOOLEAN /\ v.deleted \in BOOLEAN
    BY DEF Visit
<1> QED
    BY <1>1, <1>2 DEF CameraInductive, VisitsAreTheirs

MemoryType == [cursor : Time, tries : [Events \X Kinds -> 0..Attempts]]

\* A poll that only reads, and perhaps moves the cursor or counts an attempt.
LEMMA ReadingKeeps ==
    ASSUME CameraInductive, NEW w \in Watcher, watcher' = w, Sound(w),
           UNCHANGED <<now, tracked, settings, visit, files>>,
           memory' \in MemoryType, memory'.cursor <= now,
           faults' \in 0..MaxFaults
    PROVE  CameraInductive'
<1>1. CameraTypeOK'
    BY DEF CameraInductive, CameraTypeOK, MemoryType
<1>2. TrackedInTime' /\ VisitsAreTheirs' /\ SavedAreThere'
    BY DEF CameraInductive, TrackedInTime, VisitsAreTheirs, SavedAreThere, Visits
<1>3. Sound(watcher)'
    BY DEF Sound, Visits
<1> QED
    BY <1>1, <1>2, <1>3 DEF CameraInductive, PollIsSound

\* A poll or an admin writes one visit, and files come or go: nothing of another
\* visit does, and what the row says was saved is there unless it is claimed.
LEMMA WritingKeeps ==
    ASSUME CameraInductive, NEW e \in Events, NEW v \in Visit,
           visit' = [visit EXCEPT ![e] = v],
           v.camera = CameraOf[e], v.started = tracked[e].start,
           tracked[e].state # "unseen",
           v.ended = None \/ v.ended >= v.started,
           v.keep => ~v.deleted,
           files' \subseteq Events \X Kinds,
           \A f \in Events, k \in Kinds : f # e /\ <<f, k>> \in files => <<f, k>> \in files',
           ~v.deleted => {e} \X v.saved \subseteq files',
           NEW w \in Watcher, watcher' = w, Sound(w),
           UNCHANGED <<now, tracked, settings, memory>>,
           faults' \in 0..MaxFaults
    PROVE  CameraInductive'
<1>1. /\ visit \in [Events -> Visit \cup {None}] /\ v # None => TRUE
      /\ \A f \in Events : visit'[f] = IF f = e THEN v ELSE visit[f]
    BY DEF CameraInductive, CameraTypeOK
<1>2. CameraTypeOK'
    BY <1>1 DEF CameraInductive, CameraTypeOK
<1>3. TrackedInTime'
    BY DEF CameraInductive, TrackedInTime
<1>4. Visits \subseteq Visits' /\ Visits' \subseteq Visits \cup {e}
    BY <1>1, NoneIsNoVisit DEF Visits
<1>5. VisitsAreTheirs'
    BY <1>1, <1>4 DEF CameraInductive, VisitsAreTheirs
<1>6. SavedAreThere'
    <2>1. SUFFICES ASSUME NEW f \in Visits'
                   PROVE  /\ ~visit'[f].deleted => {f} \X visit'[f].saved \subseteq files'
                          /\ visit'[f].keep => ~visit'[f].deleted
        BY DEF SavedAreThere
    <2>2. CASE f = e
        BY <1>1, <2>2
    <2>3. CASE f # e
        <3>1. f \in Visits /\ visit'[f] = visit[f] /\ visit[f].saved \subseteq Kinds
            BY <1>1, <1>4, <2>3, VisitsAreRows DEF Visits
        <3>2. /\ ~visit[f].deleted => {f} \X visit[f].saved \subseteq files
              /\ visit[f].keep => ~visit[f].deleted
            BY <3>1 DEF CameraInductive, SavedAreThere
        <3>3. \A m \in {f} \X visit[f].saved : m \in files => m \in files'
            BY <2>3, <3>1 DEF Visits
        <3> QED
            BY <3>1, <3>2, <3>3
    <2> QED
        BY <2>2, <2>3
<1>7. Sound(watcher)'
    <2>1. \A f \in w.ask : visit'[f] # None /\ visit'[f].camera = w.camera
        <3>1. SUFFICES ASSUME NEW f \in w.ask
                       PROVE  visit'[f] # None /\ visit'[f].camera = w.camera
            OBVIOUS
        <3>2. f \in Events /\ visit[f] # None /\ visit[f].camera = w.camera
            BY DEF Sound, Watcher
        <3>3. visit[f].camera = CameraOf[f]
            BY <3>2 DEF CameraInductive, VisitsAreTheirs, Visits
        <3> QED
            BY <1>1, <3>2, <3>3, NoneIsNoVisit
    <2> QED
        BY <1>4, <2>1 DEF Sound
<1> QED
    BY <1>2, <1>3, <1>5, <1>6, <1>7 DEF CameraInductive, PollIsSound

\* Between polls nothing is held that could be wrong.
LEMMA NothingIsHeldBetween ==
    ASSUME CameraInductive
    PROVE  Between \in Watcher /\ Sound(Between)
<1>1. settings.camera \in Cameras /\ now \in Nat
    BY SettingsAreNumbers DEF CameraInductive, CameraTypeOK
<1>2. (CHOOSE c \in Cameras : TRUE) \in Cameras
    BY <1>1
<1>3. 0 \in Time
    BY SettingsAreNumbers DEF Time
<1>4. Between \in Watcher
    BY <1>2, <1>3 DEF Between, Watcher, Heard, Silence
<1>5. Sound(Between)
    BY <1>1 DEF Between, Sound, Silence
<1> QED
    BY <1>4, <1>5

\* What the goroutine holds has its types.
LEMMA WatcherHolds ==
    ASSUME CameraInductive
    PROVE  /\ watcher \in Watcher /\ Sound(watcher)
           /\ memory \in MemoryType /\ memory.cursor \in Nat /\ memory.cursor <= now
           /\ now \in Time /\ now \in Nat /\ faults \in 0..MaxFaults
           /\ visit \in [Events -> Visit \cup {None}]
           /\ files \subseteq Events \X Kinds
           /\ settings \in [on : BOOLEAN, camera : Cameras]
BY SettingsAreNumbers DEF CameraInductive, PollIsSound, CameraTypeOK, MemoryType

\* The detector's events have their types, and their times are in order.
LEMMA TrackedHold ==
    ASSUME CameraInductive, NEW e \in Events
    PROVE  /\ tracked[e] \in Tracked
           /\ tracked[e].state \in {"unseen", "present", "left", "forgotten"}
           /\ tracked[e].start \in Time /\ tracked[e].start \in Nat /\ tracked[e].start <= now
           /\ tracked[e].end \in Time \cup {None}
           /\ tracked[e].end # None => /\ tracked[e].end \in Nat
                                       /\ tracked[e].start <= tracked[e].end /\ tracked[e].end <= now
           /\ tracked[e].state \in {"unseen", "present"} => tracked[e].end = None
<1>1. tracked[e] \in Tracked
    BY DEF CameraInductive, CameraTypeOK
<1>2. /\ tracked[e].state \in {"unseen", "present", "left", "forgotten"}
      /\ tracked[e].start \in Time /\ tracked[e].end \in Time \cup {None}
    BY <1>1 DEF Tracked
<1> QED
    BY <1>1, <1>2, SettingsAreNumbers DEF CameraInductive, TrackedInTime

\* A failure is counted.
LEMMA FaultsAreCounted ==
    ASSUME CameraInductive, Fault \/ UNCHANGED faults
    PROVE  faults' \in 0..MaxFaults
BY WatcherHolds, SettingsAreNumbers DEF Fault

LEMMA StartKeeps == CameraInit => CameraInductive
<1> SUFFICES ASSUME CameraInit PROVE CameraInductive
    OBVIOUS
<1>1. 0 \in Time /\ 0 \in 0..MaxFaults /\ 0 \in 0..Attempts
    BY SettingsAreNumbers DEF Time
<1>2. settings \in [on : BOOLEAN, camera : Cameras]
    BY CameraFits DEF CameraInit
<1>3. tracked \in [Events -> Tracked]
    BY <1>1 DEF CameraInit, Tracked
<1>4. visit \in [Events -> Visit \cup {None}] /\ \A e \in Events : visit[e] = None
    BY DEF CameraInit
<1>5. Visits = {}
    BY <1>4 DEF Visits
<1>6. settings.camera \in Cameras
    BY <1>2
<1>7. (CHOOSE c \in Cameras : TRUE) \in Cameras
    BY <1>6
<1>8. Between \in Watcher
    BY <1>1, <1>7 DEF Between, Watcher, Heard, Silence
<1>9. memory \in [cursor : Time, tries : [Events \X Kinds -> 0..Attempts]]
    BY <1>1 DEF CameraInit, NoMemory
<1>10. CameraTypeOK
    BY <1>1, <1>2, <1>3, <1>4, <1>8, <1>9 DEF CameraInit, CameraTypeOK
<1>11. TrackedInTime
    BY DEF CameraInit, TrackedInTime
<1>12. VisitsAreTheirs /\ SavedAreThere
    BY <1>5 DEF VisitsAreTheirs, SavedAreThere
<1>13. PollIsSound
    BY DEF CameraInit, PollIsSound, Sound, Between, Silence, NoMemory
<1> QED
    BY <1>10, <1>11, <1>12, <1>13 DEF CameraInductive

LEMMA AppearKeeps ==
    ASSUME CameraInductive, NEW e \in Events, Appear(e)
    PROVE  CameraInductive'
<1>1. /\ tracked[e].state = "unseen" /\ now \in Time /\ now \in Nat
      /\ tracked' = [tracked EXCEPT ![e] = [state |-> "present", start |-> now, end |-> None]]
    BY WatcherHolds DEF Appear
<1>2. /\ tracked \in [Events -> Tracked]
      /\ \A f \in Events : tracked'[f] = IF f = e THEN [state |-> "present", start |-> now, end |-> None]
                                         ELSE tracked[f]
    BY <1>1 DEF CameraInductive, CameraTypeOK
<1>3. e \notin Visits
    BY <1>1 DEF CameraInductive, VisitsAreTheirs
<1>4. CameraTypeOK'
    <2>1. [state |-> "present", start |-> now, end |-> None] \in Tracked
        BY <1>1 DEF Tracked
    <2>2. tracked' \in [Events -> Tracked]
        BY <1>1, <1>2, <2>1
    <2> QED
        BY <2>2 DEF Appear, CameraInductive, CameraTypeOK
<1>5. TrackedInTime'
    BY <1>1, <1>2 DEF Appear, CameraInductive, TrackedInTime
<1>6. VisitsAreTheirs' /\ SavedAreThere'
    BY <1>2, <1>3 DEF Appear, CameraInductive, VisitsAreTheirs, SavedAreThere, Visits
<1>7. PollIsSound'
    <2>1. /\ ~watcher.heard[e].listed
          /\ watcher.heard[e].end \in {None, tracked[e].end} /\ tracked[e].end = None
        BY <1>1, WatcherHolds, TrackedHold DEF Sound
    <2>2. UNCHANGED <<now, visit, watcher, memory, Visits>>
        BY DEF Appear, Visits
    <2> QED
        BY <1>2, <2>1, <2>2, WatcherHolds DEF PollIsSound, Sound
<1> QED
    BY <1>4, <1>5, <1>6, <1>7 DEF CameraInductive

LEMMA LeaveKeeps ==
    ASSUME CameraInductive, NEW e \in Events, Leave(e)
    PROVE  CameraInductive'
<1>1. /\ tracked[e].state = "present" /\ now \in Time /\ now \in Nat /\ tracked[e].end = None
      /\ tracked[e].start \in Nat /\ tracked[e].start <= now
      /\ tracked' = [tracked EXCEPT ![e].state = "left", ![e].end = now]
    BY WatcherHolds, TrackedHold DEF Leave
<1>2. tracked \in [Events -> Tracked]
    BY DEF CameraInductive, CameraTypeOK
<1>3. /\ \A f \in Events \ {e} : tracked'[f] = tracked[f]
      /\ tracked'[e].state = "left" /\ tracked'[e].end = now
      /\ tracked'[e].start = tracked[e].start
    BY <1>1, <1>2 DEF Tracked
<1>4. CameraTypeOK'
    <2>1. tracked' \in [Events -> Tracked]
        BY <1>1, <1>2, ZenonT(30) DEF Tracked
    <2> QED
        BY <2>1 DEF Leave, CameraInductive, CameraTypeOK
<1>5. TrackedInTime'
    <2>1. UNCHANGED now
        BY DEF Leave
    <2>2. SUFFICES ASSUME NEW f \in Events
                   PROVE  /\ tracked'[f].start <= now
                          /\ tracked'[f].end # None => /\ tracked'[f].start <= tracked'[f].end
                                                       /\ tracked'[f].end <= now
                          /\ tracked'[f].state \in {"unseen", "present"} => tracked'[f].end = None
        BY <2>1 DEF TrackedInTime
    <2>3. CASE f = e
        BY <1>1, <1>3, <2>3
    <2>4. CASE f # e
        BY <1>3, <2>4, TrackedHold
    <2> QED
        BY <2>3, <2>4
<1>6. VisitsAreTheirs' /\ SavedAreThere'
    BY <1>1, <1>3 DEF Leave, CameraInductive, VisitsAreTheirs, SavedAreThere, Visits
<1>7. PollIsSound'
    <2>1. UNCHANGED <<now, visit, watcher, memory, Visits>>
        BY DEF Leave, Visits
    <2>2. \A f \in Events : /\ tracked'[f].end = tracked[f].end \/ tracked[f].end = None
                            /\ tracked[f].state # "unseen" => tracked'[f].state # "unseen"
        BY <1>1, <1>3
    <2> QED
        BY <2>1, <2>2, WatcherHolds DEF PollIsSound, Sound
<1> QED
    BY <1>4, <1>5, <1>6, <1>7 DEF CameraInductive

LEMMA DetectorForgetsKeeps ==
    ASSUME CameraInductive, DetectorForgets
    PROVE  CameraInductive'
<1>1. tracked \in [Events -> Tracked]
    BY DEF CameraInductive, CameraTypeOK
<1>2. \A f \in Events : /\ tracked'[f].end = tracked[f].end /\ tracked'[f].start = tracked[f].start
                        /\ tracked'[f].state = IF tracked[f].state = "unseen" THEN "unseen"
                                               ELSE "forgotten"
    BY <1>1 DEF DetectorForgets, Tracked
<1>3. tracked' \in [Events -> Tracked]
    BY <1>1 DEF DetectorForgets, Tracked
<1>4. faults' \in 0..MaxFaults
    BY FaultsAreCounted DEF DetectorForgets
<1>5. CameraTypeOK'
    BY <1>3, <1>4 DEF DetectorForgets, CameraInductive, CameraTypeOK
<1>6. TrackedInTime'
    BY <1>2 DEF DetectorForgets, CameraInductive, TrackedInTime
<1>7. VisitsAreTheirs' /\ SavedAreThere'
    <2>1. UNCHANGED <<visit, files, Visits>>
        BY DEF DetectorForgets, Visits
    <2>2. \A f \in Visits : f \in Events
        BY DEF Visits
    <2>3. VisitsAreTheirs'
        BY <1>2, <2>1, <2>2 DEF CameraInductive, VisitsAreTheirs
    <2>4. SavedAreThere'
        BY <2>1 DEF CameraInductive, SavedAreThere
    <2> QED
        BY <2>3, <2>4
<1>8. PollIsSound'
    <2>1. UNCHANGED <<now, visit, watcher, memory, Visits>>
        BY DEF DetectorForgets, Visits
    <2>2. \A f \in Events : /\ tracked'[f].end = tracked[f].end
                            /\ tracked[f].state # "unseen" => tracked'[f].state # "unseen"
        BY <1>2
    <2> QED
        BY <2>1, <2>2, WatcherHolds DEF PollIsSound, Sound
<1> QED
    BY <1>5, <1>6, <1>7, <1>8 DEF CameraInductive

LEMMA TickKeeps ==
    ASSUME CameraInductive, Tick
    PROVE  CameraInductive'
<1>1. now \in Nat /\ now' = now + 1 /\ now' \in Time
    BY WatcherHolds, SettingsAreNumbers DEF Tick, Time
<1>2. CameraTypeOK'
    BY <1>1 DEF Tick, CameraInductive, CameraTypeOK
<1>3. TrackedInTime'
    BY <1>1, TrackedHold DEF Tick, CameraInductive, TrackedInTime
<1>4. VisitsAreTheirs' /\ SavedAreThere'
    BY DEF Tick, CameraInductive, VisitsAreTheirs, SavedAreThere, Visits
<1>5. PollIsSound'
    <2>1. UNCHANGED <<tracked, visit, watcher, memory, Visits>>
        BY DEF Tick, Visits
    <2>2. watcher.upto \in Nat
        BY WatcherHolds, SettingsAreNumbers DEF Watcher
    <2> QED
        BY <1>1, <2>1, <2>2, WatcherHolds DEF PollIsSound, Sound
<1> QED
    BY <1>2, <1>3, <1>4, <1>5 DEF CameraInductive

LEMMA SaveCameraKeeps ==
    ASSUME CameraInductive, NEW s \in [on : BOOLEAN, camera : Cameras], SaveCamera(s)
    PROVE  CameraInductive'
<1>1. CameraTypeOK'
    BY DEF SaveCamera, CameraInductive, CameraTypeOK
<1>2. TrackedInTime' /\ VisitsAreTheirs' /\ SavedAreThere' /\ PollIsSound'
    BY DEF SaveCamera, CameraInductive, TrackedInTime, VisitsAreTheirs, SavedAreThere, PollIsSound,
           Sound, Visits
<1> QED
    BY <1>1, <1>2 DEF CameraInductive

\* What a poll holds may shrink, and its place may change.
LEMMA LettingGoKeeps ==
    ASSUME CameraInductive, NEW w \in Watcher, watcher' = w,
           w.camera = watcher.camera, w.heard = watcher.heard, w.upto = watcher.upto,
           w.expired \subseteq watcher.expired, w.ask \subseteq watcher.ask,
           w.todo \subseteq watcher.todo,
           w.pc = watcher.pc \/ (watcher.pc = "retain" /\ w.pc = "list"),
           UNCHANGED <<now, tracked, settings, visit, files>>,
           memory' \in MemoryType, memory'.cursor <= now,
           Fault \/ UNCHANGED faults
    PROVE  CameraInductive'
<1>1. Sound(w)
    BY WatcherHolds DEF Sound
<1> QED
    BY <1>1, ReadingKeeps, FaultsAreCounted

\* A poll may end at any time.
LEMMA EndingKeeps ==
    ASSUME CameraInductive, EndPoll,
           UNCHANGED <<now, tracked, settings, visit, files>>,
           memory' \in MemoryType, memory'.cursor <= now,
           Fault \/ UNCHANGED faults
    PROVE  CameraInductive'
BY NothingIsHeldBetween, ReadingKeeps, FaultsAreCounted DEF EndPoll, Polls

LEMMA PollKeeps == ASSUME CameraInductive, Poll PROVE CameraInductive'
<1>1. PICK expired \in {{}, {e \in Events : Expired(e)}} :
         watcher' = [Between EXCEPT !.on = settings.on, !.camera = settings.camera,
                         !.expired = expired,
                         !.pc = IF expired # {} THEN "retain"
                                ELSE IF settings.on THEN "list" ELSE "wait"]
    BY DEF Poll, Polls
<1>2. expired \subseteq Visits /\ expired \subseteq Events
    BY DEF Expired, Visits
<1>3. watcher' \in Watcher
    BY <1>1, <1>2, NothingIsHeldBetween, WatcherHolds DEF Watcher
<1>4. Sound(Between) /\ Between.upto = 0
    BY NothingIsHeldBetween DEF Between
<1>5. /\ watcher'.heard = [e \in Events |-> Silence] /\ watcher'.expired = expired
      /\ watcher'.ask = {} /\ watcher'.todo = {} /\ watcher'.upto = 0
    BY <1>1 DEF Between
<1>6. Sound(watcher')
    BY <1>2, <1>5, WatcherHolds DEF Sound, Silence
<1> QED
    BY <1>3, <1>6, ReadingKeeps, WatcherHolds DEF Poll

LEMMA RetainedKeeps == ASSUME CameraInductive, Retained PROVE CameraInductive'
<1>1. CASE watcher.on
    <2>1. watcher' = [watcher EXCEPT !.pc = "list"]
        BY <1>1 DEF Retained, Polls
    <2>2. watcher' \in Watcher
        BY <2>1, WatcherHolds DEF Watcher
    <2> QED
        BY <2>1, <2>2, WatcherHolds, LettingGoKeeps DEF Retained, Watcher
<1>2. CASE ~watcher.on
    BY <1>2, EndingKeeps, WatcherHolds DEF Retained
<1> QED
    BY <1>1, <1>2

LEMMA RetentionFailsKeeps == ASSUME CameraInductive, RetentionFails PROVE CameraInductive'
<1>1. watcher' = [watcher EXCEPT !.expired = {}]
    BY DEF RetentionFails, Polls
<1>2. watcher' \in Watcher
    BY <1>1, WatcherHolds DEF Watcher
<1> QED
    BY <1>1, <1>2, WatcherHolds, LettingGoKeeps DEF RetentionFails, Watcher

LEMMA MediaDoneKeeps == ASSUME CameraInductive, MediaDone PROVE CameraInductive'
BY EndingKeeps, WatcherHolds DEF MediaDone

LEMMA PollFailsKeeps == ASSUME CameraInductive, PollFails PROVE CameraInductive'
BY EndingKeeps, WatcherHolds DEF PollFails

LEMMA CameraRestartKeeps == ASSUME CameraInductive, CameraRestart PROVE CameraInductive'
<1>1. NoMemory \in MemoryType /\ NoMemory.cursor <= now
    BY SettingsAreNumbers, WatcherHolds DEF NoMemory, MemoryType, Time
<1> QED
    BY <1>1, EndingKeeps DEF CameraRestart, EndPoll, Polls

LEMMA ListEventsKeeps == ASSUME CameraInductive, ListEvents PROVE CameraInductive'
<1> DEFINE heard == [e \in Events |-> IF Listed(e, watcher.camera, Since(watcher.camera))
                                      THEN Answer(e) ELSE Silence]
           ask == {e \in Events : /\ Open(e) /\ visit[e].camera = watcher.camera
                                  /\ ~heard[e].listed}
<1>1. /\ watcher' = [watcher EXCEPT !.pc = "apply", !.heard = heard, !.ask = ask]
      /\ watcher.pc = "list"
    BY DEF ListEvents, Polls
<1>2. \A e \in Events : /\ heard[e] \in Heard
                        /\ heard[e].listed => /\ tracked[e].state # "unseen"
                                              /\ CameraOf[e] = watcher.camera
                        /\ heard[e].end \in {None, tracked[e].end}
    <2>1. \A e \in Events : Answer(e) \in Heard /\ Answer(e).end = tracked[e].end
        BY TrackedHold DEF Answer, Heard
    <2> QED
        BY <2>1 DEF Listed, Silence, Heard
<1>3. /\ ask \subseteq Events
      /\ \A e \in ask : visit[e] # None /\ visit[e].camera = watcher.camera
    BY DEF Open
<1> HIDE DEF heard, ask
<1>4. heard \in [Events -> Heard]
    BY <1>2 DEF heard
<1>5. watcher' \in Watcher
    BY <1>1, <1>3, <1>4, WatcherHolds DEF Watcher
<1>6. /\ watcher'.heard = heard /\ watcher'.ask = ask /\ watcher'.expired = watcher.expired
      /\ watcher'.todo = watcher.todo /\ watcher'.upto = watcher.upto
      /\ watcher'.camera = watcher.camera /\ watcher'.pc = "apply"
    BY <1>1, WatcherHolds DEF Watcher
<1>7. Sound(watcher')
    BY <1>2, <1>3, <1>6, WatcherHolds DEF Sound
<1> QED
    BY <1>5, <1>7, ReadingKeeps, WatcherHolds DEF ListEvents

LEMMA MoveCursorKeeps == ASSUME CameraInductive, MoveCursor PROVE CameraInductive'
<1> DEFINE cursor == Max({memory.cursor, watcher.upto})
<1>1. /\ watcher' = [watcher EXCEPT !.pc = "media", !.upto = 0, !.held = FALSE]
      /\ memory' = [memory EXCEPT !.cursor = cursor]
    BY DEF MoveCursor, Polls
<1>2. watcher.upto \in Time /\ memory.cursor \in Time /\ watcher.upto <= now
    BY WatcherHolds DEF Watcher, MemoryType, Sound
<1>3. cursor \in {memory.cursor, watcher.upto}
    BY <1>2, LaterOfTwo, SettingsAreNumbers
<1> HIDE DEF cursor
<1>4. cursor \in Time /\ cursor <= now
    BY <1>2, <1>3, WatcherHolds
<1>5. memory' \in MemoryType /\ memory'.cursor <= now
    BY <1>1, <1>4, WatcherHolds DEF MemoryType
<1>6. 0 \in Time /\ 0 <= now
    BY SettingsAreNumbers, WatcherHolds DEF Time
<1>7. watcher' \in Watcher
    BY <1>1, <1>6, WatcherHolds DEF Watcher
<1>8. /\ watcher'.heard = watcher.heard /\ watcher'.expired = watcher.expired
      /\ watcher'.ask = watcher.ask /\ watcher'.todo = watcher.todo
      /\ watcher'.upto = 0 /\ watcher'.camera = watcher.camera
    BY <1>1, WatcherHolds DEF Watcher
<1>9. Sound(watcher')
    BY <1>6, <1>8, WatcherHolds DEF Sound
<1> QED
    BY <1>5, <1>7, <1>9, ReadingKeeps, WatcherHolds DEF MoveCursor

LEMMA ListMediaKeeps == ASSUME CameraInductive, ListMedia PROVE CameraInductive'
<1>1. PICK some \in SUBSET {e \in Events : \E k \in Kinds : Wanted(<<e, k>>)} :
         watcher' = [watcher EXCEPT !.pc = "download", !.todo = {m \in some \X Kinds : Wanted(m)}]
    BY DEF ListMedia, Polls
<1>2. \A m \in {n \in some \X Kinds : Wanted(n)} : m \in Events \X Kinds /\ m[1] \in Visits
    BY DEF Wanted, Visits
<1>3. watcher' \in Watcher
    BY <1>1, <1>2, WatcherHolds DEF Watcher
<1>4. /\ watcher'.heard = watcher.heard /\ watcher'.expired = watcher.expired
      /\ watcher'.ask = watcher.ask /\ watcher'.pc = "download"
      /\ watcher'.upto = watcher.upto /\ watcher'.camera = watcher.camera
      /\ watcher'.todo = {m \in some \X Kinds : Wanted(m)}
    BY <1>1, WatcherHolds DEF Watcher
<1>5. Sound(watcher')
    BY <1>2, <1>4, WatcherHolds DEF Sound
<1> QED
    BY <1>3, <1>5, ReadingKeeps, WatcherHolds DEF ListMedia

LEMMA DownloadFailsKeeps ==
    ASSUME CameraInductive, NEW m \in Events \X Kinds, DownloadFails(m)
    PROVE  CameraInductive'
<1> DEFINE tries == Min({memory.tries[m] + 1, Attempts})
<1>1. /\ watcher' = [watcher EXCEPT !.todo = @ \ {m}]
      /\ memory' = [memory EXCEPT !.tries[m] = tries]
      /\ Fault \/ UNCHANGED faults
    BY DEF DownloadFails, Polls
<1>2. memory.tries \in [Events \X Kinds -> 0..Attempts] /\ memory.tries[m] + 1 \in Nat
    BY WatcherHolds, SettingsAreNumbers DEF MemoryType
<1>3. tries \in {memory.tries[m] + 1, Attempts} /\ tries <= Attempts
    BY <1>2, FewerOfTwo, SettingsAreNumbers
<1> HIDE DEF tries
<1>4. tries \in 0..Attempts
    BY <1>2, <1>3, SettingsAreNumbers
<1>5. memory' \in MemoryType /\ memory'.cursor = memory.cursor
    BY <1>1, <1>2, <1>4, WatcherHolds DEF MemoryType
<1>6. watcher' \in Watcher
    BY <1>1, WatcherHolds DEF Watcher
<1> QED
    BY <1>1, <1>5, <1>6, WatcherHolds, LettingGoKeeps DEF DownloadFails, Watcher

LEMMA DownloadKeeps ==
    ASSUME CameraInductive, NEW m \in Events \X Kinds, Download(m)
    PROVE  CameraInductive'
<1> DEFINE e == m[1]
           v == [visit[e] EXCEPT !.saved = @ \cup {m[2]}]
<1>1. /\ watcher' = [watcher EXCEPT !.todo = @ \ {m}] /\ m \in watcher.todo
      /\ files' = files \cup {m}
      /\ UNCHANGED <<now, tracked, settings, memory>>
      /\ \/ visit' = [visit EXCEPT ![e] = v] /\ UNCHANGED faults
         \/ Fault /\ UNCHANGED visit
    BY DEF Download, Polls, SaveMedia
<1>2. e \in Visits /\ e \in Events /\ m[2] \in Kinds /\ m = <<e, m[2]>>
    BY <1>1, WatcherHolds DEF Sound
<1>3. watcher' \in Watcher
    BY <1>1, WatcherHolds DEF Watcher
<1>4. /\ watcher'.heard = watcher.heard /\ watcher'.expired = watcher.expired
      /\ watcher'.ask = watcher.ask /\ watcher'.pc = watcher.pc
      /\ watcher'.upto = watcher.upto /\ watcher'.camera = watcher.camera
      /\ watcher'.todo \subseteq watcher.todo
    BY <1>1, WatcherHolds DEF Watcher
<1>5. Sound(watcher')
    BY <1>4, WatcherHolds DEF Sound
<1>6. files' \subseteq Events \X Kinds /\ files \subseteq files'
    BY <1>1, WatcherHolds
<1>7. CASE visit' = [visit EXCEPT ![e] = v] /\ UNCHANGED faults
    <2>1. /\ visit[e] \in Visit /\ tracked[e].state # "unseen"
          /\ visit[e].ended = None \/ visit[e].ended >= visit[e].started
          /\ visit[e].keep => ~visit[e].deleted
          /\ ~visit[e].deleted => {e} \X visit[e].saved \subseteq files
        BY <1>2, VisitsAreRows
           DEF CameraInductive, CameraTypeOK, VisitsAreTheirs, SavedAreThere, Visits
    <2>2. /\ v \in Visit /\ v.camera = visit[e].camera /\ v.started = visit[e].started
          /\ v.ended = visit[e].ended /\ v.keep = visit[e].keep /\ v.deleted = visit[e].deleted
          /\ v.saved = visit[e].saved \cup {m[2]}
        BY <1>2, <2>1 DEF Visit
    <2> HIDE DEF v
    <2>3. ~v.deleted => {e} \X v.saved \subseteq files'
        BY <1>1, <1>2, <2>1, <2>2
    <2>4. v.camera = CameraOf[e] /\ v.started = tracked[e].start
        BY <1>2, <2>2, VisitsAreRows
    <2> HIDE DEF e
    <2> QED
        BY <1>1, <1>2, <1>3, <1>5, <1>6, <1>7, <2>1, <2>2, <2>3, <2>4, WatcherHolds, WritingKeeps
<1>8. CASE Fault /\ UNCHANGED visit
    <2>1. CameraTypeOK'
        BY <1>1, <1>3, <1>6, <1>8, FaultsAreCounted DEF CameraInductive, CameraTypeOK
    <2>2. TrackedInTime' /\ VisitsAreTheirs' /\ PollIsSound'
        BY <1>1, <1>5, <1>8 DEF CameraInductive, TrackedInTime, VisitsAreTheirs, PollIsSound, Sound,
                                Visits
    <2>3. SavedAreThere'
        BY <1>6, <1>8 DEF CameraInductive, SavedAreThere, Visits
    <2> QED
        BY <2>1, <2>2, <2>3 DEF CameraInductive
<1> QED
    BY <1>1, <1>7, <1>8

LEMMA SetVisitKeepKeeps ==
    ASSUME CameraInductive, NEW e \in Events, NEW keep \in BOOLEAN, SetVisitKeep(e, keep)
    PROVE  CameraInductive'
<1> DEFINE v == [visit[e] EXCEPT !.keep = keep]
<1>1. /\ visit' = [visit EXCEPT ![e] = v]
      /\ UNCHANGED <<now, tracked, settings, files, watcher, memory, faults>>
    BY DEF SetVisitKeep, Visits
<1>2. e \in Visits
    BY DEF SetVisitKeep, Visits
<1>3. /\ visit[e] \in Visit /\ tracked[e].state # "unseen"
      /\ visit[e].ended = None \/ visit[e].ended >= visit[e].started
      /\ ~visit[e].deleted => {e} \X visit[e].saved \subseteq files
    BY <1>2, VisitsAreRows
       DEF CameraInductive, CameraTypeOK, VisitsAreTheirs, SavedAreThere, Visits
<1>4. /\ v \in Visit /\ v.camera = visit[e].camera /\ v.started = visit[e].started
      /\ v.ended = visit[e].ended /\ v.keep = keep /\ v.deleted = visit[e].deleted
      /\ v.saved = visit[e].saved
    BY <1>3 DEF Visit
<1> HIDE DEF v
<1>5. v.camera = CameraOf[e] /\ v.started = tracked[e].start
    BY <1>2, <1>4, VisitsAreRows
<1>6. v.keep => ~v.deleted
    BY <1>4 DEF SetVisitKeep
<1> QED
    BY <1>1, <1>3, <1>4, <1>5, <1>6, WatcherHolds, WritingKeeps

LEMMA ClaimKeeps ==
    ASSUME CameraInductive, NEW e \in Events, Claim(e)
    PROVE  CameraInductive'
<1> DEFINE v == [visit[e] EXCEPT !.deleted = TRUE]
<1>1. /\ watcher' = [watcher EXCEPT !.expired = @ \ {e}] /\ e \in watcher.expired
      /\ UNCHANGED <<now, tracked, settings, memory, faults>>
    BY DEF Claim, Polls
<1>2. watcher' \in Watcher
    BY <1>1, WatcherHolds DEF Watcher
<1>3. CASE visit[e].keep \/ visit[e].deleted
    BY <1>1, <1>2, <1>3, WatcherHolds, LettingGoKeeps DEF Claim, Watcher
<1>4. CASE ~(visit[e].keep \/ visit[e].deleted)
    <2>1. PICK gone \in SUBSET ({e} \X visit[e].saved) :
             files' = files \ gone /\ visit' = [visit EXCEPT ![e] = v]
        BY <1>4 DEF Claim
    <2>2. e \in Visits
        BY <1>1, WatcherHolds DEF Sound
    <2>3. /\ visit[e] \in Visit /\ tracked[e].state # "unseen"
          /\ visit[e].ended = None \/ visit[e].ended >= visit[e].started
        BY <2>2, VisitsAreRows DEF CameraInductive, CameraTypeOK, VisitsAreTheirs, Visits
    <2>4. /\ v \in Visit /\ v.camera = visit[e].camera /\ v.started = visit[e].started
          /\ v.ended = visit[e].ended /\ v.keep = visit[e].keep /\ v.deleted
        BY <2>3 DEF Visit
    <2> HIDE DEF v
    <2>5. v.camera = CameraOf[e] /\ v.started = tracked[e].start /\ ~v.keep
        BY <1>4, <2>2, <2>4, VisitsAreRows
    <2>6. /\ watcher'.heard = watcher.heard /\ watcher'.expired \subseteq watcher.expired
          /\ watcher'.ask = watcher.ask /\ watcher'.pc = watcher.pc
          /\ watcher'.upto = watcher.upto /\ watcher'.camera = watcher.camera
          /\ watcher'.todo = watcher.todo
        BY <1>1, WatcherHolds DEF Watcher
    <2>7. Sound(watcher')
        BY <2>6, WatcherHolds DEF Sound
    <2>8. files' \subseteq Events \X Kinds
        BY <2>1, WatcherHolds
    <2>9. \A f \in Events, k \in Kinds : f # e /\ <<f, k>> \in files => <<f, k>> \in files'
        BY <2>1
    <2> QED
        BY <1>1, <1>2, <2>1, <2>3, <2>4, <2>5, <2>7, <2>8, <2>9, WatcherHolds, WritingKeeps
<1> QED
    BY <1>3, <1>4

\* An end once written stays; one written is no earlier than the start.
LEMMA ClosingKeeps ==
    ASSUME NEW v \in Visit, NEW end \in Time \cup {None},
           v.ended = None \/ v.ended >= v.started,
           end = None \/ end >= v.started
    PROVE  /\ Closed(v, end) \in Visit
           /\ Closed(v, end).started = v.started /\ Closed(v, end).camera = v.camera
           /\ Closed(v, end).saved = v.saved /\ Closed(v, end).keep = v.keep
           /\ Closed(v, end).deleted = v.deleted
           /\ Closed(v, end).ended = None \/ Closed(v, end).ended >= v.started
<1>1. Closed(v, end) = [v EXCEPT !.ended = IF v.ended = None THEN end ELSE v.ended]
    BY DEF Closed
<1>2. /\ Closed(v, end).started = v.started /\ Closed(v, end).camera = v.camera
      /\ Closed(v, end).saved = v.saved /\ Closed(v, end).keep = v.keep
      /\ Closed(v, end).deleted = v.deleted
      /\ Closed(v, end).ended = IF v.ended = None THEN end ELSE v.ended
    BY <1>1 DEF Visit
<1>3. Closed(v, end) \in Visit
    BY <1>1 DEF Visit
<1> QED
    BY <1>2, <1>3

\* Closing a visit, while a poll looks at it.
LEMMA ClosedKeeps ==
    ASSUME CameraInductive, NEW e \in Visits, NEW end \in Time \cup {None},
           end = None \/ end >= tracked[e].start,
           visit' = [visit EXCEPT ![e] = Closed(visit[e], end)],
           NEW w \in Watcher, watcher' = w, Sound(w),
           UNCHANGED <<now, tracked, settings, files, memory, faults>>
    PROVE  CameraInductive'
<1>1. /\ e \in Events /\ visit[e] \in Visit /\ tracked[e].state # "unseen"
      /\ visit[e].ended = None \/ visit[e].ended >= visit[e].started
      /\ visit[e].started = tracked[e].start /\ visit[e].camera = CameraOf[e]
      /\ ~visit[e].deleted => {e} \X visit[e].saved \subseteq files
      /\ visit[e].keep => ~visit[e].deleted
    BY VisitsAreRows DEF CameraInductive, CameraTypeOK, VisitsAreTheirs, SavedAreThere, Visits
<1> DEFINE v == Closed(visit[e], end)
<1>2. /\ v \in Visit /\ v.started = visit[e].started /\ v.camera = visit[e].camera
      /\ v.saved = visit[e].saved /\ v.keep = visit[e].keep /\ v.deleted = visit[e].deleted
      /\ v.ended = None \/ v.ended >= v.started
    BY <1>1, ClosingKeeps
<1> HIDE DEF v
<1>3. visit' = [visit EXCEPT ![e] = v]
    BY DEF v
<1>4. files' \subseteq Events \X Kinds /\ faults' \in 0..MaxFaults
    BY WatcherHolds
<1> QED
    BY <1>1, <1>2, <1>3, <1>4, WritingKeeps, ZenonT(60)

LEMMA AskAboutKeeps ==
    ASSUME CameraInductive, NEW e \in Events, AskAbout(e)
    PROVE  CameraInductive'
<1>1. /\ e \in watcher.ask /\ UNCHANGED <<now, tracked, settings, files, memory, faults>>
      /\ e \in Visits /\ visit[e].camera = watcher.camera
    BY WatcherHolds DEF AskAbout, Sound, Visits
<1>2. CASE tracked[e].state = "forgotten"
    <2>1. /\ visit' = [visit EXCEPT ![e] = Closed(visit[e], now)]
          /\ watcher' = [watcher EXCEPT !.ask = @ \ {e}]
        BY <1>2 DEF AskAbout, Polls
    <2>2. watcher' \in Watcher
        BY <2>1, WatcherHolds DEF Watcher
    <2>3. /\ watcher'.heard = watcher.heard /\ watcher'.expired = watcher.expired
          /\ watcher'.ask \subseteq watcher.ask /\ watcher'.pc = watcher.pc
          /\ watcher'.upto = watcher.upto /\ watcher'.camera = watcher.camera
          /\ watcher'.todo = watcher.todo
        BY <2>1, WatcherHolds DEF Watcher
    <2>4. Sound(watcher')
        BY <2>3, WatcherHolds DEF Sound
    <2>5. now \in Time \cup {None} /\ now >= tracked[e].start
        BY WatcherHolds, TrackedHold
    <2> QED
        BY <1>1, <2>1, <2>2, <2>4, <2>5, ClosedKeeps
<1>3. CASE tracked[e].state # "forgotten"
    <2>1. watcher' = [watcher EXCEPT !.ask = @ \ {e}, !.heard[e] = Answer(e)] /\ UNCHANGED visit
        BY <1>3 DEF AskAbout, Polls
    <2>2. Answer(e) \in Heard /\ Answer(e).end = tracked[e].end
        BY TrackedHold DEF Answer, Heard
    <2>3. watcher' \in Watcher
        BY <2>1, <2>2, WatcherHolds DEF Watcher
    <2>4. /\ watcher'.heard = [watcher.heard EXCEPT ![e] = Answer(e)]
          /\ watcher'.expired = watcher.expired
          /\ watcher'.ask \subseteq watcher.ask /\ watcher'.pc = watcher.pc
          /\ watcher'.upto = watcher.upto /\ watcher'.camera = watcher.camera
          /\ watcher'.todo = watcher.todo /\ watcher.heard \in [Events -> Heard]
        BY <2>1, WatcherHolds DEF Watcher
    <2>5. \A f \in Events : watcher'.heard[f] = IF f = e THEN Answer(e) ELSE watcher.heard[f]
        BY <2>4
    <2>6. tracked[e].state # "unseen" /\ CameraOf[e] = watcher.camera
        BY <1>1, VisitsAreRows DEF CameraInductive, VisitsAreTheirs
    <2>7. Sound(watcher')
        BY <2>2, <2>4, <2>5, <2>6, WatcherHolds DEF Sound
    <2> QED
        BY <1>1, <2>1, <2>3, <2>7, ReadingKeeps, WatcherHolds
<1> QED
    BY <1>2, <1>3

\* What a poll holds after it applied an event.
LEMMA AppliedIsSound ==
    ASSUME CameraInductive, NEW e \in Events, ApplyEvent(e)
    PROVE  /\ watcher' \in Watcher /\ Sound(watcher')
           /\ watcher'.pc = "apply" /\ watcher'.ask = {} /\ watcher.ask = {}
           /\ watcher'.camera = watcher.camera
           /\ watcher'.held = (watcher.held \/ MayComeOfIt(e))
           /\ watcher'.upto = IF watcher.held THEN watcher.upto ELSE tracked[e].start
           /\ watcher.heard \in [Events -> Heard]
           /\ \A f \in Events : watcher'.heard[f] = IF f = e THEN Silence ELSE watcher.heard[f]
<1> DEFINE upto == IF watcher.held THEN watcher.upto ELSE tracked[e].start
           held == watcher.held \/ MayComeOfIt(e)
<1>1. /\ watcher' = [watcher EXCEPT !.heard[e] = Silence, !.upto = upto, !.held = held]
      /\ watcher.pc = "apply" /\ watcher.ask = {} /\ watcher.heard[e].listed
    BY DEF ApplyEvent, Polls
<1>2. upto \in Time /\ upto <= now
    BY WatcherHolds, TrackedHold DEF Watcher, Sound
<1>3. held \in BOOLEAN
    BY DEF MayComeOfIt
<1> HIDE DEF upto, held
<1>4. Silence \in Heard
    BY DEF Silence, Heard
<1>5. /\ watcher \in Watcher /\ watcher.heard \in [Events -> Heard]
    BY WatcherHolds DEF Watcher
<1>6. watcher' \in Watcher
    BY <1>1, <1>2, <1>3, <1>4, <1>5 DEF Watcher
<1>7. /\ watcher'.heard = [watcher.heard EXCEPT ![e] = Silence]
      /\ watcher'.expired = watcher.expired
      /\ watcher'.ask = watcher.ask /\ watcher'.pc = watcher.pc
      /\ watcher'.upto = upto /\ watcher'.held = held /\ watcher'.camera = watcher.camera
      /\ watcher'.todo = watcher.todo
    BY <1>1, <1>5 DEF Watcher
<1>8. \A f \in Events : watcher'.heard[f] = IF f = e THEN Silence ELSE watcher.heard[f]
    BY <1>5, <1>7
<1>9. Sound(watcher')
    <2>1. Silence.end = None /\ ~Silence.listed
        BY DEF Silence
    <2> QED
        BY <1>1, <1>2, <1>7, <1>8, <2>1, WatcherHolds DEF Sound
<1> QED
    BY <1>1, <1>5, <1>6, <1>7, <1>8, <1>9 DEF upto, held

LEMMA ApplyEventKeeps ==
    ASSUME CameraInductive, NEW e \in Events, ApplyEvent(e)
    PROVE  CameraInductive'
<1> DEFINE end == watcher.heard[e].end
<1>1. /\ visit' = [visit EXCEPT ![e] = After(e)] /\ watcher.heard[e].listed
      /\ UNCHANGED <<now, tracked, settings, files, memory, faults>>
    BY DEF ApplyEvent
<1>2. watcher' \in Watcher /\ Sound(watcher')
    BY AppliedIsSound
<1>3. /\ end \in {None, tracked[e].end} /\ tracked[e].state # "unseen"
      /\ CameraOf[e] = watcher.camera /\ watcher.camera \in Cameras
    BY <1>1, WatcherHolds DEF Sound, Watcher
<1>4. end \in Time \cup {None} /\ (end = None \/ end >= tracked[e].start)
    BY <1>3, TrackedHold
<1> HIDE DEF end
<1>5. CASE After(e) = visit[e]
    <2>1. UNCHANGED visit
        BY <1>1, <1>5, WatcherHolds
    <2> QED
        BY <1>1, <1>2, <2>1, ReadingKeeps, WatcherHolds
<1>6. CASE e \in Visits /\ After(e) = Closed(visit[e], end)
    BY <1>1, <1>2, <1>4, <1>6, ClosedKeeps
<1>7. CASE After(e) = [started |-> tracked[e].start, camera |-> watcher.camera, ended |-> end,
                       saved |-> {}, keep |-> FALSE, deleted |-> FALSE]
    <2> DEFINE v == After(e)
    <2>1. v \in Visit
        BY <1>3, <1>4, <1>7, TrackedHold DEF Visit
    <2>2. /\ v.camera = CameraOf[e] /\ v.started = tracked[e].start /\ v.ended = end
          /\ v.saved = {} /\ ~v.keep
        BY <1>3, <1>7
    <2> HIDE DEF v
    <2>3. {e} \X v.saved \subseteq files'
        BY <2>2
    <2>4. visit' = [visit EXCEPT ![e] = v]
        BY <1>1 DEF v
    <2>5. files' \subseteq Events \X Kinds /\ files' = files /\ faults' \in 0..MaxFaults
        BY <1>1, WatcherHolds
    <2> QED
        BY <1>1, <1>2, <1>3, <1>4, <2>1, <2>2, <2>3, <2>4, <2>5, WritingKeeps
<1> QED
    BY <1>5, <1>6, <1>7 DEF After, end, Visits

LEMMA StandingStillKeeps ==
    ASSUME CameraInductive, UNCHANGED cameraVars
    PROVE  CameraInductive'
BY DEF CameraInductive, CameraTypeOK, TrackedInTime, VisitsAreTheirs, SavedAreThere, PollIsSound,
       Sound, Visits, cameraVars

LEMMA CameraStepsKeep == CameraInductive /\ [CameraNext]_cameraVars => CameraInductive'
<1> SUFFICES ASSUME CameraInductive, [CameraNext]_cameraVars PROVE CameraInductive'
    OBVIOUS
<1>1. CASE Tick
    BY <1>1, TickKeeps
<1>2. CASE DetectorForgets
    BY <1>2, DetectorForgetsKeeps
<1>3. CASE \E e \in Events : Appear(e) \/ Leave(e)
    BY <1>3, AppearKeeps, LeaveKeeps
<1>4. CASE PollSteps
    BY <1>4, PollKeeps, RetainedKeeps, ListEventsKeeps, MoveCursorKeeps, ListMediaKeeps,
       MediaDoneKeeps, ClaimKeeps, AskAboutKeeps, ApplyEventKeeps, DownloadKeeps,
       DownloadFailsKeeps DEF PollSteps
<1>5. CASE RetentionFails
    BY <1>5, RetentionFailsKeeps
<1>6. CASE PollFails
    BY <1>6, PollFailsKeeps
<1>7. CASE \E e \in Events, keep \in BOOLEAN : SetVisitKeep(e, keep)
    BY <1>7, SetVisitKeepKeeps
<1>8. CASE \E s \in [on : BOOLEAN, camera : Cameras] : SaveCamera(s)
    BY <1>8, SaveCameraKeeps
<1>9. CASE CameraRestart
    BY <1>9, CameraRestartKeeps
<1>10. CASE UNCHANGED cameraVars
    BY <1>10, StandingStillKeeps
<1> QED
    BY <1>1, <1>2, <1>3, <1>4, <1>5, <1>6, <1>7, <1>8, <1>9, <1>10 DEF CameraNext

\* At every moment the detector's times are in order, a visit is its event's, what a
\* poll holds is sound, and what was saved of a visit is on disk until it is claimed.
THEOREM CameraInvariant == CameraSpec => []CameraInductive
BY StartKeeps, CameraStepsKeep, PTL DEF CameraSpec

\* camera_watch.go, retention beside SetVisitKeep: whatever the poll listed as too old
\* and however long ago, a recording that an admin keeps is on disk, and its row says so.
THEOREM KeptStays == CameraSpec => []KeptRecordingsStay
<1>1. CameraInductive => KeptRecordingsStay
    BY DEF CameraInductive, SavedAreThere, KeptRecordingsStay
<1> QED
    BY <1>1, CameraInvariant, PTL

-----------------------------------------------------------------------------
(* No stay is lost.                                                         *)

\* The newest visit of a camera is one of them.
LEMMA LatestIsAVisits ==
    ASSUME CameraInductive, NEW c, \E e \in Visits : visit[e].camera = c
    PROVE  \E e \in Visits : visit[e].camera = c /\ Latest(c) = visit[e].started
<1> DEFINE S == {visit[e].started : e \in {f \in Visits : visit[f].camera = c}}
<1>1. S \subseteq 0..MaxTime /\ S # {}
    BY VisitsAreRows DEF Time
<1>2. Latest(c) = Max(S)
    BY DEF Latest
<1> HIDE DEF S
<1>3. Latest(c) \in S
    BY <1>1, <1>2, BoundedHaveAGreatest, SettingsAreNumbers
<1> QED
    BY <1>3 DEF S

\* A listing begins no later than a time that the cursor has not passed, nor the
\* minute before the newest visit.
LEMMA ListingsBeginBefore ==
    ASSUME CameraInductive, NEW c, NEW t \in Nat,
           memory.cursor <= t,
           \A f \in Visits : visit[f].camera = c => visit[f].started <= t + Overlap
    PROVE  Since(c) \in Nat /\ Since(c) <= t
<1> DEFINE fromVisits == IF \E e \in Visits : visit[e].camera = c /\ visit[e].started > Overlap
                         THEN Latest(c) - Overlap ELSE 0
<1>1. fromVisits \in Nat /\ fromVisits <= t
    <2>1. CASE \E e \in Visits : visit[e].camera = c /\ visit[e].started > Overlap
        <3> DEFINE S == {visit[e].started : e \in {f \in Visits : visit[f].camera = c}}
        <3>1. PICK e \in Visits : visit[e].camera = c /\ visit[e].started > Overlap
            BY <2>1
        <3>2. PICK f \in Visits : visit[f].camera = c /\ Latest(c) = visit[f].started
            BY <3>1, LatestIsAVisits
        <3>3. S \subseteq 0..MaxTime /\ visit[e].started \in S
            BY <3>1, VisitsAreRows DEF Time
        <3>4. Latest(c) = Max(S)
            BY DEF Latest
        <3> HIDE DEF S
        <3>5. visit[e].started <= Latest(c)
            BY <3>3, <3>4, BoundedHaveAGreatest, SettingsAreNumbers
        <3>6. Latest(c) \in Nat /\ Latest(c) <= t + Overlap /\ visit[e].started \in Nat
            BY <3>1, <3>2, VisitsAreRows, SettingsAreNumbers
        <3> QED
            BY <2>1, <3>1, <3>5, <3>6, SettingsAreNumbers
    <2>2. CASE ~\E e \in Visits : visit[e].camera = c /\ visit[e].started > Overlap
        BY <2>2
    <2> QED
        BY <2>1, <2>2
<1>2. Since(c) = Max({fromVisits, memory.cursor})
    BY DEF Since
<1> HIDE DEF fromVisits
<1> QED
    BY <1>1, <1>2, LaterOfTwo, WatcherHolds

\* A stay that is owed a visit is in the next listing.
LEMMA OwedAreListed ==
    ASSUME CameraInductive, OwedAreNext, OnTheDot = {}, NEW e \in Events, Owed(e)
    PROVE  Listed(e, settings.camera, Since(settings.camera))
<1>1. Since(settings.camera) \in Nat /\ Since(settings.camera) <= tracked[e].start
    BY ListingsBeginBefore, TrackedHold DEF OwedAreNext
<1> QED
    BY <1>1, TrackedHold DEF Listed, Owed

\* A step that makes no visit and moves no cursor forward, in a poll that goes on
\* where it was or is not applying events.
LEMMA NextAsBefore ==
    ASSUME CameraInductive, OwedAreNext,
           tracked' = tracked, settings'.camera = settings.camera,
           Visits' = Visits,
           \A f \in Visits : /\ visit'[f].camera = visit[f].camera
                             /\ visit'[f].started = visit[f].started,
           memory'.cursor = memory.cursor \/ memory'.cursor = 0,
           watcher'.pc # "wait" => watcher'.camera = settings.camera,
           watcher'.pc = "apply" =>
               /\ watcher.pc = "apply" /\ watcher'.upto = watcher.upto
               /\ watcher'.held = watcher.held /\ Ahead' \subseteq Ahead
               /\ \A e \in Events : visit[e] = None /\ watcher.heard[e].listed
                                    => watcher'.heard[e].listed
    PROVE  OwedAreNext'
<1>1. SUFFICES ASSUME NEW e \in Events, Owed(e)'
               PROVE  /\ memory'.cursor <= tracked[e].start
                      /\ \A f \in Visits : visit[f].camera = settings.camera =>
                            visit[f].started <= tracked[e].start + Overlap
                      /\ watcher'.pc = "apply" => StillToCome(e)'
    BY DEF OwedAreNext
<1>2. Owed(e) /\ visit[e] = None
    BY <1>1 DEF Owed, Visits
<1>3. /\ memory.cursor <= tracked[e].start /\ tracked[e].start \in Nat
      /\ \A f \in Visits : visit[f].camera = settings.camera =>
            visit[f].started <= tracked[e].start + Overlap
      /\ watcher.pc = "apply" => StillToCome(e)
    BY <1>2, TrackedHold DEF OwedAreNext
<1>4. watcher'.pc = "apply" => StillToCome(e)'
    BY <1>2, <1>3 DEF StillToCome
<1> QED
    BY <1>3, <1>4

LEMMA StartIsNext == CameraInit => OwedAreNext
<1> SUFFICES ASSUME CameraInit PROVE OwedAreNext
    OBVIOUS
<1>1. watcher.pc = "wait" /\ \A e \in Events : ~Owed(e)
    BY DEF CameraInit, Between, Owed
<1> QED
    BY <1>1 DEF OwedAreNext

LEMMA AppearIsNext ==
    ASSUME CameraInductive, OwedAreNext, NEW e \in Events, Appear(e)
    PROVE  OwedAreNext'
<1>1. /\ tracked[e].state = "unseen" /\ now \in Nat
      /\ tracked' = [tracked EXCEPT ![e] = [state |-> "present", start |-> now, end |-> None]]
      /\ UNCHANGED <<now, settings, visit, watcher, memory, Visits, Ahead>>
    BY WatcherHolds DEF Appear, Visits, Ahead
<1>2. /\ \A f \in Events \ {e} : tracked'[f] = tracked[f]
      /\ tracked'[e].start = now
    BY <1>1 DEF CameraInductive, CameraTypeOK
<1>3. e \notin Visits /\ e \notin Ahead /\ Ahead \subseteq Events
    BY <1>1, WatcherHolds DEF CameraInductive, VisitsAreTheirs, Ahead, Sound, Visits, Watcher
<1>4. \A f \in Visits : /\ visit[f].started <= now /\ visit[f].started \in Nat /\ f \in Events
                        /\ visit[f].started = tracked[f].start
    BY VisitsAreRows, TrackedHold
<1>5. SUFFICES ASSUME NEW f \in Events, Owed(f)'
               PROVE  /\ memory.cursor <= tracked'[f].start
                      /\ \A g \in Visits : visit[g].camera = settings.camera =>
                            visit[g].started <= tracked'[f].start + Overlap
                      /\ watcher.pc = "apply" => StillToCome(f)'
    BY <1>1 DEF OwedAreNext
<1>6. CASE f = e
    <2>1. watcher.upto <= now /\ \A g \in Ahead : tracked'[g].start <= now
        BY <1>2, <1>3, WatcherHolds, TrackedHold DEF Sound
    <2>2. StillToCome(f)'
        BY <1>1, <1>2, <1>6, <2>1 DEF StillToCome
    <2> QED
        BY <1>1, <1>2, <1>4, <1>6, <2>2, WatcherHolds, SettingsAreNumbers
<1>7. CASE f # e
    <2>1. Owed(f) /\ tracked'[f] = tracked[f]
        BY <1>1, <1>2, <1>5, <1>7 DEF Owed
    <2>2. watcher.pc = "apply" => StillToCome(f)'
        BY <1>1, <1>2, <1>3, <2>1 DEF OwedAreNext, StillToCome
    <2> QED
        BY <2>1, <2>2 DEF OwedAreNext
<1> QED
    BY <1>6, <1>7

LEMMA LeaveIsNext ==
    ASSUME CameraInductive, OwedAreNext, NEW e \in Events, Leave(e)
    PROVE  OwedAreNext'
<1>1. /\ tracked[e].state = "present" /\ tracked[e].end = None
      /\ tracked' = [tracked EXCEPT ![e].state = "left", ![e].end = now]
      /\ UNCHANGED <<now, settings, visit, watcher, memory, Visits, Ahead>>
    BY TrackedHold DEF Leave, Visits, Ahead
<1>2. /\ \A f \in Events : tracked'[f].start = tracked[f].start
      /\ \A f \in Events \ {e} : tracked'[f] = tracked[f]
    BY <1>1 DEF CameraInductive, CameraTypeOK, Tracked
<1>3. \A f \in Events : Owed(f)' => Owed(f)
    BY <1>1, <1>2 DEF Owed
<1>4. Ahead \subseteq Events
    BY WatcherHolds DEF Ahead, Watcher
<1>5. \A f \in Events : StillToCome(f) => StillToCome(f)'
    BY <1>1, <1>2, <1>4 DEF StillToCome
<1> QED
    BY <1>1, <1>2, <1>3, <1>5 DEF OwedAreNext

LEMMA DetectorForgetsIsNext ==
    ASSUME CameraInductive, OwedAreNext, DetectorForgets
    PROVE  OwedAreNext'
<1>1. \A f \in Events : tracked'[f].state \in {"unseen", "forgotten"}
    BY DEF DetectorForgets, CameraInductive, CameraTypeOK, Tracked
<1>2. \A f \in Events : ~Owed(f)'
    BY <1>1 DEF Owed
<1> QED
    BY <1>2 DEF OwedAreNext, DetectorForgets

LEMMA ListEventsIsNext ==
    ASSUME CameraInductive, OwedAreNext, OnTheDot = {}, ListEvents
    PROVE  OwedAreNext'
<1> DEFINE heard == [e \in Events |-> IF Listed(e, watcher.camera, Since(watcher.camera))
                                      THEN Answer(e) ELSE Silence]
<1>1. /\ watcher.pc = "list" /\ watcher.camera = settings.camera /\ watcher.upto = 0
      /\ UNCHANGED <<now, tracked, settings, visit, memory, Visits>>
    BY WatcherHolds DEF ListEvents, OwedAreNext, Sound, Visits
<1>2. /\ watcher'.heard = heard /\ watcher'.upto = 0 /\ watcher'.pc = "apply"
      /\ watcher'.camera = watcher.camera
    BY <1>1, WatcherHolds DEF ListEvents, Polls, Watcher
<1>3. SUFFICES ASSUME NEW e \in Events, Owed(e)
               PROVE  StillToCome(e)'
    BY <1>1, <1>2 DEF OwedAreNext, Owed
<1>4. heard[e] = Answer(e)
    BY <1>1, <1>3, OwedAreListed
<1>5. watcher'.heard[e].listed
    BY <1>2, <1>4 DEF Answer
<1>6. watcher'.upto <= tracked'[e].start
    BY <1>1, <1>2, TrackedHold
<1> QED
    BY <1>5, <1>6 DEF StillToCome

LEMMA AskAboutIsNext ==
    ASSUME CameraInductive, OwedAreNext, NEW e \in Events, AskAbout(e)
    PROVE  OwedAreNext'
<1>1. /\ e \in watcher.ask /\ e \in Visits /\ watcher.pc = "apply"
      /\ watcher.camera = settings.camera
      /\ UNCHANGED <<now, tracked, settings, memory>>
    BY WatcherHolds DEF AskAbout, Sound, Visits, OwedAreNext
<1>2. watcher \in Watcher /\ watcher.heard \in [Events -> Heard]
    BY WatcherHolds DEF Watcher
<1>3. CASE tracked[e].state = "forgotten"
    <2>1. /\ visit' = [visit EXCEPT ![e] = Closed(visit[e], now)]
          /\ watcher' = [watcher EXCEPT !.ask = @ \ {e}]
        BY <1>3 DEF AskAbout, Polls
    <2>2. /\ watcher'.heard = watcher.heard /\ watcher'.ask \subseteq watcher.ask
          /\ watcher'.pc = watcher.pc /\ watcher'.upto = watcher.upto
          /\ watcher'.held = watcher.held /\ watcher'.camera = watcher.camera
        BY <1>2, <2>1 DEF Watcher
    <2>3. Ahead' \subseteq Ahead
        BY <2>2 DEF Ahead
    <2>4. /\ Closed(visit[e], now).started = visit[e].started
          /\ Closed(visit[e], now).camera = visit[e].camera
          /\ Closed(visit[e], now) # None
        <3>1. /\ visit[e] \in Visit /\ now \in Time
              /\ visit[e].ended = None \/ visit[e].ended >= visit[e].started
              /\ now >= visit[e].started
            BY <1>1, VisitsAreRows, WatcherHolds, TrackedHold
               DEF CameraInductive, CameraTypeOK, Visits
        <3> QED
            BY <3>1, ClosingKeeps, NoneIsNoVisit
    <2>5. /\ visit'[e] = Closed(visit[e], now)
          /\ \A f \in Events \ {e} : visit'[f] = visit[f]
        BY <2>1, WatcherHolds
    <2>6. Visits' = Visits
        BY <1>1, <2>4, <2>5 DEF Visits
    <2>7. \A f \in Visits : /\ visit'[f].camera = visit[f].camera
                            /\ visit'[f].started = visit[f].started
        BY <2>4, <2>5 DEF Visits
    <2> QED
        BY <1>1, <2>2, <2>3, <2>6, <2>7, NextAsBefore
<1>4. CASE tracked[e].state # "forgotten"
    <2>1. watcher' = [watcher EXCEPT !.ask = @ \ {e}, !.heard[e] = Answer(e)] /\ UNCHANGED visit
        BY <1>4 DEF AskAbout, Polls
    <2>2. /\ watcher'.heard = [watcher.heard EXCEPT ![e] = Answer(e)]
          /\ watcher'.ask = watcher.ask \ {e}
          /\ watcher'.pc = watcher.pc /\ watcher'.upto = watcher.upto
          /\ watcher'.held = watcher.held /\ watcher'.camera = watcher.camera
        BY <1>2, <2>1 DEF Watcher
    <2>3. \A f \in Events : watcher'.heard[f] = IF f = e THEN Answer(e) ELSE watcher.heard[f]
        BY <1>2, <2>2
    <2>4. Ahead' \subseteq Ahead
        BY <1>1, <2>2, <2>3 DEF Ahead
    <2>5. \A f \in Events : visit[f] = None /\ watcher.heard[f].listed => watcher'.heard[f].listed
        BY <1>1, <2>3 DEF Visits
    <2>6. Visits' = Visits
        BY <2>1 DEF Visits
    <2> QED
        BY <1>1, <2>1, <2>2, <2>4, <2>5, <2>6, NextAsBefore
<1> QED
    BY <1>3, <1>4

\* A stay of which nothing came, though it is owed a visit, may still become one, and
\* is younger than MinVisit.
LEMMA WhatIsPassedOverMayCome ==
    ASSUME CameraInductive, NEW e \in Events, ApplyEvent(e), Owed(e), After(e) = None
    PROVE  MayComeOfIt(e) /\ now <= tracked[e].start + MinVisit
<1> DEFINE end == watcher.heard[e].end
<1>1. e \notin Spurious /\ visit[e] = None
    BY DEF Owed
<1>2. ~LongEnough(e, end)
    <2>1. SUFFICES ASSUME LongEnough(e, end) PROVE FALSE
        OBVIOUS
    <2>2. After(e) = [started |-> tracked[e].start, camera |-> watcher.camera, ended |-> end,
                      saved |-> {}, keep |-> FALSE, deleted |-> FALSE]
        BY <1>1, <2>1 DEF After
    <2>3. end \in Time \cup {None} /\ watcher.camera \in Cameras
        BY WatcherHolds DEF Watcher, Heard
    <2>4. After(e) \in Visit
        BY <2>2, <2>3, TrackedHold DEF Visit
    <2> QED
        BY <2>4, NoneIsNoVisit
<1>3. end \in {None, tracked[e].end}
    BY WatcherHolds DEF Sound
<1>4. end = None
    BY <1>2, <1>3, TrackedHold, SettingsAreNumbers DEF Owed, LongEnough
<1>5. now < tracked[e].start + MinVisit
    BY <1>2, <1>4, TrackedHold, WatcherHolds, SettingsAreNumbers DEF LongEnough
<1> QED
    BY <1>1, <1>4, <1>5, WatcherHolds, TrackedHold, SettingsAreNumbers DEF MayComeOfIt

\* What is applied begins no later than MinVisit after a stay that is owed a visit,
\* and, unless the cursor is held already, no later than that stay.
LEMMA OldestGoFirst ==
    ASSUME CameraInductive, OwedAreNext, NEW e \in Events, ApplyEvent(e),
           NEW f \in Events, Owed(f)
    PROVE  /\ tracked[e].start <= tracked[f].start + MinVisit
           /\ ~watcher.held => tracked[e].start <= tracked[f].start
<1>1. /\ watcher.heard[e].listed /\ Oldest(e) /\ watcher.pc = "apply" /\ e \in Ahead
    BY DEF ApplyEvent, Ahead
<1>2. /\ tracked[e].start \in Nat /\ tracked[f].start \in Nat /\ MinVisit \in Nat
    BY TrackedHold, SettingsAreNumbers
<1>3. StillToCome(f)
    BY <1>1 DEF OwedAreNext
<1>4. CASE watcher.heard[f].listed
    BY <1>1, <1>2, <1>4 DEF Oldest
<1>5. CASE watcher.held /\ \A g \in Ahead : tracked[g].start <= tracked[f].start + MinVisit
    BY <1>1, <1>2, <1>5
<1>6. CASE \A g \in Ahead : tracked[g].start <= tracked[f].start
    BY <1>1, <1>2, <1>6
<1> QED
    BY <1>3, <1>4, <1>5, <1>6 DEF StillToCome

LEMMA ApplyEventIsNext ==
    ASSUME CameraInductive, OwedAreNext, MinVisit <= Overlap, NEW e \in Events, ApplyEvent(e)
    PROVE  OwedAreNext'
<1>1. /\ watcher.pc = "apply" /\ watcher.camera = settings.camera
      /\ visit' = [visit EXCEPT ![e] = After(e)] /\ watcher.heard[e].listed
      /\ UNCHANGED <<now, tracked, settings, memory>>
    BY DEF ApplyEvent, OwedAreNext
<1>2. /\ \A f \in Events : visit'[f] = IF f = e THEN After(e) ELSE visit[f]
    BY <1>1, WatcherHolds
<1>3. e \in Visits => /\ After(e) # None /\ After(e).camera = visit[e].camera
                      /\ After(e).started = visit[e].started
    <2>1. SUFFICES ASSUME e \in Visits
                   PROVE  /\ After(e) # None /\ After(e).camera = visit[e].camera
                          /\ After(e).started = visit[e].started
        OBVIOUS
    <2>2. /\ watcher.heard[e].end \in {None, tracked[e].end}
          /\ watcher.heard[e].end \in Time \cup {None}
        BY WatcherHolds DEF Sound, Watcher, Heard
    <2>3. /\ visit[e] \in Visit /\ visit[e].started = tracked[e].start
          /\ visit[e].ended = None \/ visit[e].ended >= visit[e].started
        BY <2>1, VisitsAreRows DEF CameraInductive, CameraTypeOK, Visits
    <2>4. watcher.heard[e].end = None \/ watcher.heard[e].end >= visit[e].started
        BY <2>2, <2>3, TrackedHold
    <2> DEFINE v == Closed(visit[e], watcher.heard[e].end)
    <2>5. After(e) \in {visit[e], v}
        BY <2>1 DEF After, Visits
    <2>6. v \in Visit /\ v.camera = visit[e].camera /\ v.started = visit[e].started
        BY <2>2, <2>3, <2>4, ClosingKeeps
    <2> HIDE DEF v
    <2> QED
        BY <2>3, <2>5, <2>6, NoneIsNoVisit
<1>4. e \notin Visits /\ After(e) # None => After(e).started = tracked[e].start
    BY DEF After, Visits
<1>5. \A f \in Visits' : f \in Visits \cup {e} /\ visit'[f].started = tracked[f].start
    BY <1>2, <1>3, <1>4, VisitsAreRows DEF Visits
<1>6. \A f \in Visits' : f # e => visit'[f] = visit[f] /\ f \in Visits
    BY <1>2, <1>5 DEF Visits
<1>7. Ahead' \subseteq Ahead
    BY AppliedIsSound DEF Ahead, Silence
<1>8. SUFFICES ASSUME NEW f \in Events, Owed(f)'
               PROVE  /\ memory.cursor <= tracked[f].start
                      /\ \A g \in Visits' : visit'[g].camera = settings.camera =>
                            visit'[g].started <= tracked[f].start + Overlap
                      /\ StillToCome(f)'
    BY <1>1, AppliedIsSound DEF OwedAreNext
<1>9. Owed(f) /\ visit'[f] = None
    BY <1>1, <1>2, <1>3, <1>8 DEF Owed, Visits
<1>10. /\ tracked[f].start \in Nat /\ tracked[e].start \in Nat
       /\ MinVisit \in Nat /\ Overlap \in Nat
    BY TrackedHold, SettingsAreNumbers
<1>11. /\ tracked[e].start <= tracked[f].start + MinVisit
       /\ ~watcher.held => tracked[e].start <= tracked[f].start
    BY <1>9, OldestGoFirst
<1>12. memory.cursor <= tracked[f].start
    BY <1>9 DEF OwedAreNext
<1>13. ASSUME NEW g \in Visits', visit'[g].camera = settings.camera
       PROVE  visit'[g].started <= tracked[f].start + Overlap
    <2>1. CASE g = e
        BY <1>5, <1>10, <1>11, <2>1
    <2>2. CASE g # e
        BY <1>6, <1>9, <1>13, <2>2 DEF OwedAreNext
    <2> QED
        BY <2>1, <2>2
<1>14. StillToCome(f)
    BY <1>1, <1>9 DEF OwedAreNext
<1>15. watcher'.upto <= tracked'[f].start
    BY <1>1, <1>11, <1>14, AppliedIsSound DEF StillToCome
<1>16. CASE f = e
    <2>1. MayComeOfIt(e) /\ now <= tracked[e].start + MinVisit
        BY <1>2, <1>9, <1>16, WhatIsPassedOverMayCome
    <2>2. \A g \in Ahead' : tracked[g].start <= tracked[e].start + MinVisit
        <3>1. \A g \in Ahead' : g \in Events
            BY AppliedIsSound DEF Ahead
        <3>2. \A g \in Ahead' : tracked[g].start <= now /\ tracked[g].start \in Nat
            BY <3>1, TrackedHold
        <3> QED
            BY <1>10, <2>1, <3>2, WatcherHolds
    <2>3. watcher'.held
        BY <2>1, AppliedIsSound
    <2>4. StillToCome(f)'
        BY <1>1, <1>15, <1>16, <2>2, <2>3 DEF StillToCome
    <2> QED
        BY <1>12, <1>13, <2>4
<1>17. CASE f # e
    <2>1. watcher'.heard[f] = watcher.heard[f] /\ (watcher.held => watcher'.held)
        BY <1>17, AppliedIsSound
    <2>2. StillToCome(f)'
        BY <1>1, <1>7, <1>14, <1>15, <2>1 DEF StillToCome
    <2> QED
        BY <1>12, <1>13, <2>2
<1> QED
    BY <1>16, <1>17

LEMMA MoveCursorIsNext ==
    ASSUME CameraInductive, OwedAreNext, MoveCursor
    PROVE  OwedAreNext'
<1>1. /\ watcher.pc = "apply" /\ watcher.camera = settings.camera
      /\ UNCHANGED <<now, tracked, settings, visit, Visits>>
    BY DEF MoveCursor, OwedAreNext, Visits
<1>2. watcher'.pc = "media" /\ watcher'.camera = watcher.camera
    BY WatcherHolds DEF MoveCursor, Polls, Watcher
<1>3. memory'.cursor = Max({memory.cursor, watcher.upto})
    BY WatcherHolds DEF MoveCursor, MemoryType
<1>4. watcher.upto \in Nat /\ memory.cursor \in Nat
    BY WatcherHolds, SettingsAreNumbers DEF Watcher
<1>5. memory'.cursor \in {memory.cursor, watcher.upto}
    BY <1>3, <1>4, LaterOfTwo
<1>6. \A e \in Events : Owed(e) => memory'.cursor <= tracked[e].start
    BY <1>1, <1>5 DEF OwedAreNext, StillToCome
<1>7. \A e \in Events : Owed(e)' <=> Owed(e)
    BY <1>1 DEF Owed
<1> QED
    BY <1>1, <1>2, <1>6, <1>7 DEF OwedAreNext

\* The other steps of a poll read, write of a visit what is not its start or its
\* camera, or end the poll.
LEMMA OtherStepsAreNext ==
    ASSUME CameraInductive, OwedAreNext,
           tracked' = tracked, settings' = settings,
           Visits' = Visits,
           \A f \in Visits : /\ visit'[f].camera = visit[f].camera
                             /\ visit'[f].started = visit[f].started,
           memory'.cursor = memory.cursor \/ memory'.cursor = 0,
           watcher'.pc # "apply",
           watcher'.pc # "wait" => watcher'.camera \in {watcher.camera, settings.camera},
           watcher.pc = "wait" => watcher'.camera = settings.camera
    PROVE  OwedAreNext'
BY NextAsBefore DEF OwedAreNext

LEMMA PollIsNext == ASSUME CameraInductive, OwedAreNext, Poll PROVE OwedAreNext'
<1>1. watcher'.pc # "apply" /\ watcher'.camera = settings.camera
    BY DEF Poll, Polls, Between
<1>2. Visits' = Visits /\ UNCHANGED <<tracked, settings, visit, memory>>
    BY DEF Poll, Visits
<1> QED
    BY <1>1, <1>2, OtherStepsAreNext

LEMMA RetainedIsNext == ASSUME CameraInductive, OwedAreNext, Retained PROVE OwedAreNext'
<1>1. /\ watcher.pc = "retain" /\ Visits' = Visits
      /\ UNCHANGED <<tracked, settings, visit, memory>>
    BY DEF Retained, Visits
<1>2. \/ watcher' = [watcher EXCEPT !.pc = "list"]
      \/ watcher' = Between
    BY DEF Retained, EndPoll, Polls
<1>3. /\ watcher'.pc # "apply"
      /\ watcher'.pc # "wait" => watcher'.camera = watcher.camera
    BY <1>2, WatcherHolds DEF Between, Watcher
<1> QED
    BY <1>1, <1>3, OtherStepsAreNext

LEMMA RetentionFailsIsNext ==
    ASSUME CameraInductive, OwedAreNext, RetentionFails PROVE OwedAreNext'
<1>1. /\ watcher.pc = "retain" /\ Visits' = Visits
      /\ UNCHANGED <<tracked, settings, visit, memory>>
    BY DEF RetentionFails, Visits
<1>2. watcher'.pc = "retain" /\ watcher'.camera = watcher.camera
    BY <1>1, WatcherHolds DEF RetentionFails, Polls, Watcher
<1> QED
    BY <1>1, <1>2, OtherStepsAreNext

LEMMA ClaimIsNext ==
    ASSUME CameraInductive, OwedAreNext, NEW e \in Events, Claim(e)
    PROVE  OwedAreNext'
<1>1. /\ watcher.pc = "retain" /\ UNCHANGED <<tracked, settings, memory>>
      /\ watcher' = [watcher EXCEPT !.expired = @ \ {e}] /\ e \in Visits
    BY WatcherHolds DEF Claim, Polls, Sound
<1>2. watcher'.pc = "retain" /\ watcher'.camera = watcher.camera
    BY <1>1, WatcherHolds DEF Watcher
<1> DEFINE v == [visit[e] EXCEPT !.deleted = TRUE]
<1>3. visit' = visit \/ visit' = [visit EXCEPT ![e] = v]
    BY DEF Claim
<1>4. v \in Visit /\ v.started = visit[e].started /\ v.camera = visit[e].camera
    BY <1>1, VisitsAreRows DEF Visit
<1> HIDE DEF v
<1>5. \A f \in Events : visit'[f] = visit[f] \/ (f = e /\ visit'[f] = v)
    BY <1>3, WatcherHolds
<1>6. Visits' = Visits
    BY <1>1, <1>4, <1>5, NoneIsNoVisit DEF Visits
<1>7. \A f \in Visits : /\ visit'[f].camera = visit[f].camera
                        /\ visit'[f].started = visit[f].started
    BY <1>4, <1>5 DEF Visits
<1> QED
    BY <1>1, <1>2, <1>6, <1>7, OtherStepsAreNext

LEMMA ListMediaIsNext == ASSUME CameraInductive, OwedAreNext, ListMedia PROVE OwedAreNext'
<1>1. /\ watcher.pc = "media" /\ Visits' = Visits
      /\ UNCHANGED <<tracked, settings, visit, memory>>
    BY DEF ListMedia, Visits
<1>2. watcher'.pc = "download" /\ watcher'.camera = watcher.camera
    BY <1>1, WatcherHolds DEF ListMedia, Polls, Watcher
<1> QED
    BY <1>1, <1>2, OtherStepsAreNext

LEMMA DownloadIsNext ==
    ASSUME CameraInductive, OwedAreNext, NEW m \in Events \X Kinds, Download(m)
    PROVE  OwedAreNext'
<1> DEFINE e == m[1]
           v == [visit[e] EXCEPT !.saved = @ \cup {m[2]}]
<1>1. /\ watcher.pc = "download" /\ UNCHANGED <<tracked, settings, memory>>
      /\ watcher' = [watcher EXCEPT !.todo = @ \ {m}] /\ e \in Visits /\ m[2] \in Kinds
      /\ visit' = visit \/ visit' = [visit EXCEPT ![e] = v]
    BY WatcherHolds DEF Download, Polls, Sound
<1>2. watcher'.pc = "download" /\ watcher'.camera = watcher.camera
    BY <1>1, WatcherHolds DEF Watcher
<1>3. v \in Visit /\ v.started = visit[e].started /\ v.camera = visit[e].camera
    BY <1>1, VisitsAreRows DEF Visit
<1> HIDE DEF v, e
<1>4. \A f \in Events : visit'[f] = visit[f] \/ (f = e /\ visit'[f] = v)
    BY <1>1, WatcherHolds
<1>5. Visits' = Visits
    BY <1>1, <1>3, <1>4, NoneIsNoVisit DEF Visits
<1>6. \A f \in Visits : /\ visit'[f].camera = visit[f].camera
                        /\ visit'[f].started = visit[f].started
    BY <1>3, <1>4 DEF Visits
<1> QED
    BY <1>1, <1>2, <1>5, <1>6, OtherStepsAreNext

LEMMA DownloadFailsIsNext ==
    ASSUME CameraInductive, OwedAreNext, NEW m \in Events \X Kinds, DownloadFails(m)
    PROVE  OwedAreNext'
<1>1. /\ watcher.pc = "download" /\ Visits' = Visits
      /\ UNCHANGED <<tracked, settings, visit>>
    BY DEF DownloadFails, Visits
<1>2. watcher'.pc = "download" /\ watcher'.camera = watcher.camera
    BY <1>1, WatcherHolds DEF DownloadFails, Polls, Watcher
<1>3. memory'.cursor = memory.cursor
    BY WatcherHolds DEF DownloadFails, MemoryType
<1> QED
    BY <1>1, <1>2, <1>3, OtherStepsAreNext

\* A poll ends, or dies with the server.
LEMMA EndingIsNext ==
    ASSUME CameraInductive, OwedAreNext, MediaDone \/ PollFails \/ CameraRestart
    PROVE  OwedAreNext'
<1>1. watcher' = Between /\ Visits' = Visits /\ UNCHANGED <<tracked, settings, visit>>
    BY DEF MediaDone, PollFails, CameraRestart, EndPoll, Polls, Visits
<1>2. memory' = memory \/ memory'.cursor = 0
    BY DEF MediaDone, PollFails, CameraRestart, NoMemory
<1>3. watcher'.pc = "wait"
    BY <1>1 DEF Between
<1>4. watcher.pc # "wait" \/ CameraRestart
    BY DEF MediaDone, PollFails
<1> QED
    BY <1>1, <1>2, <1>3, NextAsBefore

LEMMA SetVisitKeepIsNext ==
    ASSUME CameraInductive, OwedAreNext, NEW e \in Events, NEW keep \in BOOLEAN,
           SetVisitKeep(e, keep)
    PROVE  OwedAreNext'
<1> DEFINE v == [visit[e] EXCEPT !.keep = keep]
<1>1. /\ visit' = [visit EXCEPT ![e] = v] /\ e \in Visits
      /\ UNCHANGED <<tracked, settings, watcher, memory, Ahead>>
    BY DEF SetVisitKeep, Visits, Ahead
<1>2. v \in Visit /\ v.started = visit[e].started /\ v.camera = visit[e].camera
    BY <1>1, VisitsAreRows DEF Visit
<1> HIDE DEF v
<1>3. \A f \in Events : visit'[f] = IF f = e THEN v ELSE visit[f]
    BY <1>1, WatcherHolds
<1>4. Visits' = Visits
    BY <1>1, <1>2, <1>3, NoneIsNoVisit DEF Visits
<1>5. \A f \in Visits : /\ visit'[f].camera = visit[f].camera
                        /\ visit'[f].started = visit[f].started
    BY <1>2, <1>3 DEF Visits
<1>6. watcher.pc # "wait" => watcher.camera = settings.camera
    BY DEF OwedAreNext
<1> QED
    BY <1>1, <1>4, <1>5, <1>6, NextAsBefore

\* The clock, and a change of settings that does not name another camera.
LEMMA ElsewhereIsNext ==
    ASSUME CameraInductive, OwedAreNext,
           UNCHANGED <<tracked, visit, watcher, memory>>, settings'.camera = settings.camera
    PROVE  OwedAreNext'
<1>1. Visits' = Visits /\ Ahead' = Ahead
    BY DEF Visits, Ahead
<1>2. watcher.pc # "wait" => watcher.camera = settings.camera
    BY DEF OwedAreNext
<1> QED
    BY <1>1, <1>2, NextAsBefore

LEMMA NextSteps ==
    ASSUME "rename" \notin AdminCalls, MinVisit <= Overlap, OnTheDot = {}
    PROVE  CameraInductive /\ OwedAreNext /\ [CameraNext]_cameraVars => OwedAreNext'
<1> SUFFICES ASSUME CameraInductive, OwedAreNext, [CameraNext]_cameraVars PROVE OwedAreNext'
    OBVIOUS
<1>1. CASE Tick
    BY <1>1, ElsewhereIsNext DEF Tick
<1>2. CASE DetectorForgets
    BY <1>2, DetectorForgetsIsNext
<1>3. CASE \E e \in Events : Appear(e) \/ Leave(e)
    BY <1>3, AppearIsNext, LeaveIsNext
<1>4. CASE PollSteps
    BY <1>4, PollIsNext, RetainedIsNext, ListEventsIsNext, MoveCursorIsNext, ListMediaIsNext,
       EndingIsNext, ClaimIsNext, AskAboutIsNext, ApplyEventIsNext, DownloadIsNext,
       DownloadFailsIsNext DEF PollSteps
<1>5. CASE RetentionFails
    BY <1>5, RetentionFailsIsNext
<1>6. CASE PollFails \/ CameraRestart
    BY <1>6, EndingIsNext
<1>7. CASE \E e \in Events, keep \in BOOLEAN : SetVisitKeep(e, keep)
    BY <1>7, SetVisitKeepIsNext
<1>8. CASE \E s \in [on : BOOLEAN, camera : Cameras] : SaveCamera(s)
    BY <1>8, ElsewhereIsNext DEF SaveCamera
<1>9. CASE UNCHANGED cameraVars
    BY <1>9, ElsewhereIsNext DEF cameraVars
<1> QED
    BY <1>1, <1>2, <1>3, <1>4, <1>5, <1>6, <1>7, <1>8, <1>9 DEF CameraNext

\* camera_watch.go, the cursor, "moves past an event only once nothing more can come of
\* it": with one camera name, visits that become long enough within the minute that is
\* listed again, and starts that are not whole milliseconds, a stay that the next listing
\* will not show is a visit if it was long enough or still goes on, also when the server
\* died in between, the detector failed, or polls ran late.
THEOREM NoStayIsLost ==
    ASSUME "rename" \notin AdminCalls, MinVisit <= Overlap, OnTheDot = {}
    PROVE  CameraSpec => []StaysBecomeVisits
<1>1. CameraInductive /\ OwedAreNext => StaysBecomeVisits
    <2>1. SUFFICES ASSUME CameraInductive, OwedAreNext,
                          NEW e \in Events \ Spurious,
                          tracked[e].state \in {"present", "left"},
                          tracked[e].end = None \/ LongEnough(e, tracked[e].end),
                          CameraOf[e] = settings.camera, visit[e] = None
                   PROVE  Listed(e, settings.camera, Since(settings.camera))
        BY DEF StaysBecomeVisits
    <2>2. Owed(e)
        BY <2>1 DEF Owed, LongEnough
    <2> QED
        BY <2>1, <2>2, OwedAreListed
<1>2. CameraInit => OwedAreNext
    BY StartIsNext
<1>3. CameraInductive /\ OwedAreNext /\ [CameraNext]_cameraVars => OwedAreNext'
    BY NextSteps
<1> QED
    BY <1>1, <1>2, <1>3, CameraInvariant, PTL DEF CameraSpec

-----------------------------------------------------------------------------
(* PhotoWall.                                                               *)

Row == [folder : Folder, size : WallSizes]
Source == [folder : Folder, manifest : {None} \cup SUBSET Paths,
           loaded : BOOLEAN, asked : BOOLEAN, gate : BOOLEAN, old : BOOLEAN]
ManifestFile == [of : Folders, paths : SUBSET Paths]
Entry == [of : Folders, path : Paths]
Filling == [gen : Nat, held : SUBSET Paths, size : WallSizes, per : [EventFolders -> Nat],
            tried : SUBSET Paths, left : 0..FetchAttempts, entry : Entry \cup {None}]

\* What the variables but the wall hold.
PartsTyped ==
    /\ drive \in [Folders -> SUBSET Paths] /\ row \in Row /\ source \in Source
    /\ listing \in Listings \cup {None} /\ file \in ManifestFile \cup {None}
    /\ fill \in Filling \cup {None}
    /\ call \in [WallAdmins -> Calls \cup {None}]
    /\ wallCalls \in 0..MaxWallCalls /\ wallFaults \in 0..MaxWallFaults

\* A manifest is of a folder; a fill that has picked has an attempt left.
ManifestHasFolder == source.manifest # None => source.folder # None
PicksWithinAttempts == fill # None => fill.entry = None \/ fill.left > 0

\* No photograph twice.
Distinct(tiles) == \A i, j \in DOMAIN tiles : tiles[i].key = tiles[j].key => i = j

Fits(tiles, n) == tiles \in Seq(Tile) /\ Len(tiles) <= n /\ Distinct(tiles)

WallTyped ==
    /\ wall \in [size : WallSizes, tiles : Seq(Tile), gen : Nat]
    /\ Len(wall.tiles) <= wall.size /\ Distinct(wall.tiles)

\* Each switch of the folder begins one generation.
Switching == {a \in WallAdmins : call[a] # None /\ call[a].at \in {"source", "wall"}}
GenerationsAreCalls == wall.gen + Cardinality(Switching) <= wallCalls

\* A switch whose source has changed and whose set has not.
HalfSwitched == \E a \in WallAdmins : call[a] # None /\ call[a].at = "wall"

\* What a fill of this generation has picked is of the live folder.
FillIsLive ==
    fill # None =>
        /\ fill.gen <= wall.gen
        /\ fill.gen = wall.gen /\ fill.entry # None
              => HalfSwitched \/ fill.entry.of = source.folder

WallInductive ==
    /\ PartsTyped /\ ManifestHasFolder /\ PicksWithinAttempts /\ WallTyped
    /\ GenerationsAreCalls /\ FillIsLive /\ WallShowsItsFolder

-----------------------------------------------------------------------------
(* Sequences of tiles.                                                      *)

\* In a finite set of numbers there is one with n - 1 below it, for each n.
LEMMA Ranks ==
    ASSUME NEW places \in SUBSET Nat, IsFiniteSet(places)
    PROVE  \A n \in 1..Cardinality(places) : \E i \in places :
               Cardinality({j \in places : j < i}) = n - 1
<1> DEFINE Before(i) == {j \in places : j < i}
           T == 1..Cardinality(places)
           rank == [i \in places |-> Cardinality(Before(i)) + 1]
<1>1. Cardinality(places) \in Nat
    BY FS_CardinalityType
<1>2. \A i \in places : IsFiniteSet(Before(i)) /\ Cardinality(Before(i)) \in Nat
    BY FS_Subset, FS_CardinalityType
<1>3. \A i \in places : rank[i] \in T
    <2> TAKE i \in places
    <2>1. Before(i) \in SUBSET places /\ Before(i) # places
        OBVIOUS
    <2>2. Cardinality(Before(i)) <= Cardinality(places)
          /\ Cardinality(Before(i)) # Cardinality(places)
        BY <2>1, FS_Subset
    <2> QED
        BY <1>1, <1>2, <2>2
<1>4. \A i, j \in places : i < j => rank[i] < rank[j]
    <2> TAKE i, j \in places
    <2> HAVE i < j
    <2>1. Before(i) \cup {i} \in SUBSET Before(j)
        <3>1. i \in Before(j)
            OBVIOUS
        <3>2. \A k \in Before(i) : k \in Nat /\ i \in Nat /\ j \in Nat /\ k < i
            OBVIOUS
        <3>3. \A k \in Before(i) : k \in Before(j)
            BY <3>2
        <3> QED
            BY <3>1, <3>3
    <2>2. Cardinality(Before(i) \cup {i}) = Cardinality(Before(i)) + 1
        <3>1. i \notin Before(i)
            OBVIOUS
        <3> HIDE DEF Before
        <3> QED
            BY <1>2, <3>1, FS_AddElement
    <2>3. Cardinality(Before(i) \cup {i}) <= Cardinality(Before(j))
        BY <1>2, <2>1, FS_Subset
    <2> QED
        BY <1>2, <2>2, <2>3
<1>5. rank \in Injection(places, T)
    <2>1. \A i, j \in places : rank[i] = rank[j] => i = j
        <3> TAKE i, j \in places
        <3>1. i < j \/ j < i \/ i = j
            OBVIOUS
        <3> QED
            BY <1>3, <1>4, <3>1
    <2>2. rank \in [places -> T]
        BY <1>3
    <2> QED
        BY <2>1, <2>2 DEF Injection, IsInjective
<1>6. IsFiniteSet(T) /\ Cardinality(T) = Cardinality(places)
    BY <1>1, FS_Interval
<1>7. rank \in Surjection(places, T)
    <2> HIDE DEF rank, T
    <2> QED
        BY <1>5, <1>6, FS_Injection
<1>8. \A n \in T : \E i \in places : rank[i] = n
    BY <1>7 DEF Surjection
<1> QED
    BY <1>1, <1>2, <1>8

\* A sequence has as many places as its length.
LEMMA PlacesAreFinite ==
    ASSUME NEW tiles \in Seq(Tile)
    PROVE  /\ Len(tiles) \in Nat /\ DOMAIN tiles = 1..Len(tiles)
           /\ IsFiniteSet(DOMAIN tiles) /\ Cardinality(DOMAIN tiles) = Len(tiles)
<1>1. Len(tiles) \in Nat /\ DOMAIN tiles = 1..Len(tiles)
    OBVIOUS
<1>2. \A n \in Nat : IsFiniteSet(1..n) /\ Cardinality(1..n) = n
    <2> TAKE n \in Nat
    <2>1. IsFiniteSet(1..n) /\ Cardinality(1..n) = IF 1 > n THEN 0 ELSE n - 1 + 1
        BY FS_Interval
    <2> QED
        BY <2>1
<1> QED
    BY <1>1, <1>2

\* What is kept of distinct tiles are distinct tiles of theirs.
LEMMA KeptTiles ==
    ASSUME NEW tiles \in Seq(Tile), Distinct(tiles),
           NEW places \in SUBSET (DOMAIN tiles)
    PROVE  /\ Kept(tiles, places) \in Seq(Tile) /\ Distinct(Kept(tiles, places))
           /\ Len(Kept(tiles, places)) = Cardinality(places)
           /\ Cardinality(places) \in Nat /\ Cardinality(places) <= Len(tiles)
           /\ Range(Kept(tiles, places)) \subseteq Range(tiles)
<1> DEFINE Before(i) == {j \in places : j < i}
           place(n) == CHOOSE i \in places : Cardinality(Before(i)) = n - 1
           N == Cardinality(places)
           kept == [n \in 1..N |-> tiles[place(n)]]
<1>1. Len(tiles) \in Nat /\ DOMAIN tiles = 1..Len(tiles)
    BY PlacesAreFinite
<1>2. IsFiniteSet(DOMAIN tiles) /\ Cardinality(DOMAIN tiles) = Len(tiles)
    BY PlacesAreFinite
<1>3. IsFiniteSet(places) /\ N \in Nat /\ N <= Len(tiles)
    BY <1>2, FS_Subset, FS_CardinalityType
<1>4. places \in SUBSET Nat
    BY <1>1
<1>5. \A n \in 1..N : place(n) \in places /\ Cardinality(Before(place(n))) = n - 1
    <2>1. \A n \in 1..N : \E i \in places : Cardinality(Before(i)) = n - 1
        BY <1>3, <1>4, Ranks
    <2> HIDE DEF N, Before
    <2> QED
        BY <2>1
<1>6. Kept(tiles, places) = kept
    BY DEF Kept
<1>7. \A n \in 1..N : kept[n] = tiles[place(n)] /\ kept[n] \in Tile
    <2> HIDE DEF N, place
    <2>1. \A n \in 1..N : place(n) \in 1..Len(tiles)
        BY <1>1, <1>5
    <2>2. \A n \in 1..N : kept[n] = tiles[place(n)]
        OBVIOUS
    <2> HIDE DEF kept
    <2> QED
        BY <2>1, <2>2
<1>8. kept \in Seq(Tile) /\ Len(kept) = N /\ DOMAIN kept = 1..N
    <2> HIDE DEF N, place
    <2> QED
        BY <1>3, <1>7
<1>9. Distinct(kept)
    <2> HIDE DEF N, place, kept, Before
    <2>1. SUFFICES ASSUME NEW m \in 1..N, NEW n \in 1..N, kept[m].key = kept[n].key
                   PROVE  m = n
        BY <1>8 DEF Distinct
    <2>2. place(m) = place(n)
        BY <1>5, <1>7, <2>1 DEF Distinct
    <2>3. m - 1 = n - 1
        BY <1>5, <2>2
    <2> QED
        BY <1>3, <2>3
<1>10. Range(kept) \subseteq Range(tiles)
    <2> HIDE DEF N, place, kept, Before
    <2> QED
        BY <1>5, <1>7, <1>8 DEF Range
<1> HIDE DEF kept
<1> QED
    BY <1>3, <1>6, <1>8, <1>9, <1>10

LEMMA TrimmedTiles ==
    ASSUME NEW tiles \in Seq(Tile), Distinct(tiles), NEW n \in Nat
    PROVE  /\ Trimmed(tiles, n) \in Seq(Tile) /\ Distinct(Trimmed(tiles, n))
           /\ Len(Trimmed(tiles, n)) <= n /\ Len(Trimmed(tiles, n)) <= Len(tiles)
           /\ Range(Trimmed(tiles, n)) \subseteq Range(tiles)
<1>1. CASE Len(tiles) <= n
    BY <1>1 DEF Trimmed
<1>2. CASE Len(tiles) > n
    <2> DEFINE t == SubSeq(tiles, 1, n)
    <2>1. \A i \in 1..n : tiles[i] \in Tile
        BY <1>2
    <2>2. /\ t \in Seq(Tile) /\ Len(t) = IF 1 <= n THEN n - 1 + 1 ELSE 0
          /\ \A i \in 1..(n - 1 + 1) : t[i] = tiles[1 + i - 1]
        BY <2>1, SubSeqProperties
    <2>3. Len(t) = n /\ DOMAIN t = 1..n /\ \A i \in 1..n : t[i] = tiles[i]
        <3> HIDE DEF t
        <3> QED
            BY <2>2
    <2>4. Distinct(t) /\ Range(t) \subseteq Range(tiles)
        <3> HIDE DEF t
        <3> QED
            BY <1>2, <2>3 DEF Distinct, Range
    <2>5. Trimmed(tiles, n) = t
        BY <1>2 DEF Trimmed
    <2> HIDE DEF t
    <2> QED
        BY <1>2, <2>2, <2>3, <2>4, <2>5
<1> QED
    BY <1>1, <1>2

\* Making room leaves at most n - 1 tiles.
LEMMA EvictedTiles ==
    ASSUME NEW tiles \in Seq(Tile), Distinct(tiles), NEW n \in Nat \ {0},
           Len(tiles) <= n, NEW left \in Evicted(tiles, n)
    PROVE  /\ left \in Seq(Tile) /\ Distinct(left) /\ Len(left) < n
           /\ Range(left) \subseteq Range(tiles)
<1> DEFINE stale == {i \in DOMAIN tiles : tiles[i].stale}
           first == CHOOSE i \in stale : \A j \in stale : i <= j
<1>1. Len(tiles) \in Nat /\ DOMAIN tiles = 1..Len(tiles)
    BY PlacesAreFinite
<1>2. IsFiniteSet(DOMAIN tiles) /\ Cardinality(DOMAIN tiles) = Len(tiles)
    BY PlacesAreFinite
<1>3. \A i \in DOMAIN tiles : Cardinality(DOMAIN tiles \ {i}) = Len(tiles) - 1
    BY <1>2, FS_RemoveElement
<1>4. CASE stale # {}
    <2>1. stale \in SUBSET Nat /\ IsFiniteSet(stale)
        BY <1>1, <1>2, FS_Subset
    <2>2. Cardinality(stale) \in Nat /\ Cardinality(stale) # 0
        BY <1>4, <2>1, FS_CardinalityType, FS_EmptySet
    <2>3. PICK i \in stale : Cardinality({j \in stale : j < i}) = 0
        <3> DEFINE Before(i) == {j \in stale : j < i}
        <3> HIDE DEF stale
        <3>1. \A m \in 1..Cardinality(stale) : \E i \in stale :
                 Cardinality(Before(i)) = m - 1
            BY <2>1, Ranks
        <3> HIDE DEF Before
        <3>2. \E i \in stale : Cardinality(Before(i)) = 0
            BY <2>2, <3>1
        <3> USE DEF Before
        <3> QED
            BY <3>2
    <2>4. {j \in stale : j < i} = {}
        BY <2>1, <2>3, FS_Subset, FS_EmptySet
    <2>5. \A j \in stale : i <= j
        BY <2>1, <2>4
    <2>6. first \in DOMAIN tiles
        BY <2>5
    <2>7. left = Kept(tiles, DOMAIN tiles \ {first})
        BY <1>4 DEF Evicted
    <2> HIDE DEF first
    <2> QED
        BY <1>1, <1>3, <2>6, <2>7, KeptTiles
<1>5. CASE stale = {} /\ Len(tiles) < n
    BY <1>5 DEF Evicted
<1>6. CASE stale = {} /\ ~(Len(tiles) < n)
    <2>1. PICK i \in DOMAIN tiles : left = Kept(tiles, DOMAIN tiles \ {i})
        BY <1>6 DEF Evicted
    <2> QED
        BY <1>1, <1>3, <2>1, KeptTiles
<1> QED
    BY <1>4, <1>5, <1>6

\* There are as many photographs as tiles.
LEMMA KeysOfDistinct ==
    ASSUME NEW tiles \in Seq(Tile), Distinct(tiles)
    PROVE  Cardinality(Keys(tiles)) = Len(tiles)
<1> DEFINE keyAt == [i \in 1..Len(tiles) |-> tiles[i].key]
<1>1. Len(tiles) \in Nat /\ DOMAIN tiles = 1..Len(tiles)
    OBVIOUS
<1>2. keyAt \in Bijection(1..Len(tiles), Keys(tiles))
    BY <1>1 DEF Bijection, Injection, Surjection, IsInjective, Distinct, Keys, Range
<1>3. ExistsBijection(1..Len(tiles), Keys(tiles))
    BY <1>2 DEF ExistsBijection
<1> QED
    BY <1>1, <1>3, FS_CountingElements

-----------------------------------------------------------------------------
(* The parts beside the wall.                                               *)

\* What the invariant says of the requests, the listing and the fill.
LEMMA WallHolds ==
    ASSUME WallInductive
    PROVE  /\ row \in Row /\ source \in Source
           /\ listing # None => listing \in Listings
           /\ file # None => file \in ManifestFile
           /\ fill # None => fill \in Filling
           /\ \A a \in WallAdmins : call[a] # None => call[a] \in Calls
           /\ call \in [WallAdmins -> Calls \cup {None}]
           /\ wallCalls \in 0..MaxWallCalls /\ wallFaults \in 0..MaxWallFaults
           /\ MaxWallCalls \in Nat /\ MaxWallFaults \in Nat /\ FetchAttempts \in Nat
           /\ \A f \in Folders : f # None
           /\ WallSizes \subseteq Nat \ {0}
BY WallFits, NoneIsNothing DEF WallInductive, PartsTyped

\* A switch names a folder, a resize a size.
LEMMA CallNames ==
    ASSUME WallInductive, NEW a \in WallAdmins, call[a] # None
    PROVE  /\ call[a].at \in {"source", "wall", "size"}
           /\ call[a].at = "source" => /\ call[a].to \in Folders
                                       /\ [call[a] EXCEPT !.at = "wall"] \in Calls
           /\ call[a].at = "size" => call[a].to \in WallSizes
<1>1. call[a] \in Calls
    BY WallHolds
<1>2. CASE call[a] \in [at : {"source", "wall"}, to : Folders]
    BY <1>2 DEF Calls
<1>3. CASE call[a] \in [at : {"size"}, to : WallSizes]
    BY <1>3
<1> QED
    BY <1>1, <1>2, <1>3 DEF Calls

\* The saved row, the folders, the counters.
LEMMA RowKeeps ==
    ASSUME WallInductive, PhotoWallNext
    PROVE  row' \in Row
<1>1. \/ UNCHANGED row
      \/ \E f \in Folders : row' = [row EXCEPT !.folder = f]
      \/ \E n \in WallSizes : row' = [row EXCEPT !.size = n]
    BY DEF PhotoWallNext, Request, GoesOn, Lister, Filler, SavesFolder, SavesSize, Rebuild, Reshuffle,
           SetFolder, Invalidate, SetSize, LoadManifest, BuildDue, ListingEnds, ListingFails,
           WritesManifest, FillBegins, Picks, Fetched, NotFetched, GateOpens, ManifestAges,
           LeavesDrive, Restart
<1> QED
    BY <1>1, WallHolds DEF Row, Folder

LEMMA DriveKeeps ==
    ASSUME WallInductive, PhotoWallNext
    PROVE  drive' \in [Folders -> SUBSET Paths]
<1>1. \/ UNCHANGED drive
      \/ \E f \in Folders : \E p \in drive[f] : drive' = [drive EXCEPT ![f] = @ \ {p}]
    BY DEF PhotoWallNext, Request, GoesOn, Lister, Filler, SavesFolder, SavesSize, Rebuild, Reshuffle,
           SetFolder, Invalidate, SetSize, LoadManifest, BuildDue, ListingEnds, ListingFails,
           WritesManifest, FillBegins, Picks, Fetched, NotFetched, GateOpens, ManifestAges,
           LeavesDrive, Restart
<1> QED
    BY <1>1 DEF WallInductive, PartsTyped

LEMMA CountersKeep ==
    ASSUME WallInductive, PhotoWallNext
    PROVE  wallCalls' \in 0..MaxWallCalls /\ wallFaults' \in 0..MaxWallFaults
<1>1. UNCHANGED wallCalls \/ \E a \in WallAdmins : \E request : Asks(a, request)
    BY DEF PhotoWallNext, Request, GoesOn, Lister, Filler, SavesFolder, SavesSize, Rebuild, Reshuffle,
           SetFolder, Invalidate, SetSize, LoadManifest, BuildDue, ListingEnds, ListingFails,
           WritesManifest, FillBegins, Picks, Fetched, NotFetched, GateOpens, ManifestAges,
           LeavesDrive, Restart
<1>2. UNCHANGED wallFaults \/ WallFault
    BY DEF PhotoWallNext, Request, GoesOn, Lister, Filler, SavesFolder, SavesSize, Rebuild, Reshuffle,
           SetFolder, Invalidate, SetSize, LoadManifest, BuildDue, ListingEnds, ListingFails,
           WritesManifest, FillBegins, Picks, Fetched, NotFetched, GateOpens, ManifestAges,
           LeavesDrive, Restart
<1> QED
    BY <1>1, <1>2, WallHolds DEF WallFault, Asks

\* The source: a manifest is of the live folder.
LEMMA SourceKeeps ==
    ASSUME WallInductive, PhotoWallNext
    PROVE  source' \in Source /\ ManifestHasFolder'
<1>1. /\ source \in Source /\ ManifestHasFolder /\ row \in Row
      /\ \A f \in Folders : f # None
    BY WallHolds DEF WallInductive
<1>2. \/ UNCHANGED source
      \/ \E a \in WallAdmins : SetFolder(a) \/ Rebuild(a)
      \/ LoadManifest \/ BuildDue \/ ListingEnds \/ ListingFails \/ GateOpens \/ ManifestAges \/ Restart
    BY DEF PhotoWallNext, Request, GoesOn, Lister, Filler, SavesFolder, SavesSize, Reshuffle,
           Invalidate, SetSize, WritesManifest, FillBegins, Picks, Fetched, NotFetched, LeavesDrive
<1>3. CASE UNCHANGED source
    BY <1>1, <1>3 DEF ManifestHasFolder
<1>4. ASSUME NEW a \in WallAdmins, SetFolder(a) PROVE source' \in Source /\ ManifestHasFolder'
    <2>1. call[a].to \in Folders
        BY <1>4, CallNames DEF SetFolder
    <2>2. CASE UNCHANGED source
        BY <1>3, <2>2
    <2>3. CASE source' = [source EXCEPT !.folder = call[a].to, !.manifest = None, !.gate = FALSE]
        <3>1. source'.manifest = None
            BY <1>1, <2>3 DEF Source
        <3>2. source' \in Source
            BY <1>1, <2>1, <2>3 DEF Source, Folder
        <3> QED
            BY <3>1, <3>2 DEF ManifestHasFolder
    <2> QED
        BY <1>4, <2>2, <2>3 DEF SetFolder
<1>5. ASSUME NEW a \in WallAdmins, Rebuild(a) PROVE source' \in Source /\ ManifestHasFolder'
    BY <1>1, <1>5 DEF Rebuild, ManifestHasFolder, Source
<1>6. CASE LoadManifest
    <2>1. \/ source' = [source EXCEPT !.loaded = TRUE, !.manifest = source.manifest]
          \/ /\ file # None /\ file.of = source.folder
             /\ source' = [source EXCEPT !.loaded = TRUE, !.manifest = file.paths]
        BY <1>6 DEF LoadManifest
    <2>2. file # None => file.of # None /\ file.paths \in SUBSET Paths
        BY <1>1, WallHolds DEF ManifestFile
    <2> QED
        BY <1>1, <2>1, <2>2 DEF ManifestHasFolder, Source
<1>7. CASE BuildDue
    BY <1>1, <1>7 DEF BuildDue, ManifestHasFolder, Source
<1>8. CASE ListingEnds
    <2>1. listing.of \in Folders
        BY <1>8, WallHolds DEF ListingEnds, Listings
    <2>2. drive[listing.of] \in SUBSET Paths
        BY <2>1 DEF WallInductive, PartsTyped
    <2> QED
        BY <1>1, <1>8, <2>1, <2>2 DEF ListingEnds, Dropped, ManifestHasFolder, Source
<1>9. CASE ListingFails \/ GateOpens \/ ManifestAges
    BY <1>1, <1>9 DEF ListingFails, GateOpens, ManifestAges, ManifestHasFolder, Source
<1>10. CASE Restart
    <2>1. source' = FreshSource(row.folder) /\ row.folder \in Folder
        BY <1>1, <1>10 DEF Restart, Row
    <2> QED
        BY <2>1 DEF FreshSource, ManifestHasFolder, Source
<1> QED
    BY <1>2, <1>3, <1>4, <1>5, <1>6, <1>7, <1>8, <1>9, <1>10

LEMMA ListingKeeps ==
    ASSUME WallInductive, PhotoWallNext
    PROVE  listing' \in Listings \cup {None} /\ file' \in ManifestFile \cup {None}
<1>1. listing \in Listings \cup {None} /\ file \in ManifestFile \cup {None}
    BY DEF WallInductive, PartsTyped
<1>2. \/ UNCHANGED <<listing, file>>
      \/ \E a \in WallAdmins : SetFolder(a)
      \/ BuildDue \/ ListingEnds \/ ListingFails \/ WritesManifest \/ Restart
    BY DEF PhotoWallNext, Request, GoesOn, Lister, Filler, SavesFolder, SavesSize, Rebuild, Reshuffle,
           Invalidate, SetSize, LoadManifest, FillBegins, Picks, Fetched, NotFetched, GateOpens,
           ManifestAges, LeavesDrive
<1>3. CASE UNCHANGED <<listing, file>>
    BY <1>1, <1>3
<1>4. ASSUME NEW a \in WallAdmins, SetFolder(a)
      PROVE  listing' \in Listings \cup {None} /\ file' \in ManifestFile \cup {None}
    <2>1. CASE UNCHANGED listing
        BY <1>1, <1>4, <2>1 DEF SetFolder
    <2>2. CASE listing # None /\ listing.at = "drive" /\ listing' = [listing EXCEPT !.cut = TRUE]
        <3>1. listing \in [at : {"drive"}, of : Folders, cut : BOOLEAN]
            BY <1>1, <2>2 DEF Listings
        <3>2. listing' \in [at : {"drive"}, of : Folders, cut : BOOLEAN]
            BY <2>2, <3>1
        <3> QED
            BY <1>1, <1>4, <3>2 DEF SetFolder, Listings
    <2> QED
        BY <1>4, <2>1, <2>2 DEF SetFolder
<1>5. CASE BuildDue
    <2>1. source.folder \in Folders \cup {None}
        BY WallHolds DEF Source, Folder
    <2>2. \/ UNCHANGED <<listing, file>>
          \/ /\ UNCHANGED file /\ source.folder # None
             /\ listing' = [at |-> "drive", of |-> source.folder, cut |-> FALSE]
        BY <1>5 DEF BuildDue
    <2>3. CASE UNCHANGED <<listing, file>>
        BY <1>1, <2>3
    <2>4. CASE /\ UNCHANGED file /\ source.folder # None
               /\ listing' = [at |-> "drive", of |-> source.folder, cut |-> FALSE]
        <3>1. listing' \in [at : {"drive"}, of : Folders, cut : BOOLEAN]
            BY <2>1, <2>4
        <3> QED
            BY <1>1, <2>4, <3>1 DEF Listings
    <2> QED
        BY <2>2, <2>3, <2>4
<1>6. CASE ListingEnds
    <2>1. listing.of \in Folders
        BY <1>6, WallHolds DEF ListingEnds, Listings
    <2>2. drive[listing.of] \in SUBSET Paths
        BY <2>1 DEF WallInductive, PartsTyped
    <2> QED
        BY <1>1, <1>6, <2>1, <2>2 DEF ListingEnds, Listings
<1>7. CASE ListingFails
    BY <1>1, <1>7 DEF ListingFails
<1>8. CASE WritesManifest
    <2>1. listing \in [at : {"file"}, of : Folders, paths : SUBSET Paths]
        BY <1>8, WallHolds DEF WritesManifest, Listings
    <2> QED
        BY <1>8, <2>1 DEF WritesManifest, ManifestFile
<1>9. CASE Restart
    BY <1>1, <1>9 DEF Restart
<1> QED
    BY <1>2, <1>3, <1>4, <1>5, <1>6, <1>7, <1>8, <1>9

LEMMA KeysArePaths ==
    ASSUME NEW tiles \in Seq(Tile)
    PROVE  Keys(tiles) \in SUBSET Paths
<1>1. \A i \in DOMAIN tiles : tiles[i] \in Tile
    OBVIOUS
<1> QED
    BY <1>1 DEF Keys, Range, Tile

\* What a fill keeps of the wall.
LEMMA PrunedTiles ==
    ASSUME WallInductive
    PROVE  /\ wall.size \in WallSizes /\ wall.size \in Nat \ {0} /\ wall.gen \in Nat
           /\ wall.tiles \in Seq(Tile) /\ Distinct(wall.tiles)
           /\ Trimmed(Pruned, wall.size) \in Seq(Tile)
           /\ Distinct(Trimmed(Pruned, wall.size))
           /\ Len(Trimmed(Pruned, wall.size)) <= wall.size
           /\ Range(Trimmed(Pruned, wall.size)) \subseteq Range(wall.tiles)
<1>1. /\ wall.size \in WallSizes /\ wall.size \in Nat \ {0} /\ wall.gen \in Nat
      /\ wall.tiles \in Seq(Tile) /\ Distinct(wall.tiles)
    BY WallHolds DEF WallInductive, WallTyped
<1>2. {i \in DOMAIN wall.tiles : InManifest(wall.tiles[i].key)} \in SUBSET (DOMAIN wall.tiles)
    OBVIOUS
<1>3. /\ Pruned \in Seq(Tile) /\ Distinct(Pruned)
      /\ Range(Pruned) \subseteq Range(wall.tiles)
    BY <1>1, <1>2, KeptTiles DEF Pruned
<1> QED
    BY <1>1, <1>3, TrimmedTiles

\* The fill: past its picks it has an attempt left.
LEMMA FillKeeps ==
    ASSUME WallInductive, PhotoWallNext
    PROVE  fill' \in Filling \cup {None} /\ PicksWithinAttempts'
<1>1. fill \in Filling \cup {None} /\ PicksWithinAttempts
    BY DEF WallInductive, PartsTyped
<1>2. UNCHANGED fill \/ FillBegins \/ Picks \/ Fetched \/ NotFetched \/ Restart
    BY DEF PhotoWallNext, Request, GoesOn, Lister, Filler, SavesFolder, SavesSize, Rebuild, Reshuffle,
           SetFolder, Invalidate, SetSize, LoadManifest, BuildDue, ListingEnds, ListingFails,
           WritesManifest, GateOpens, ManifestAges, LeavesDrive
<1>3. CASE UNCHANGED fill
    BY <1>1, <1>3 DEF PicksWithinAttempts
<1>4. CASE FillBegins
    <2> DEFINE tiles == Trimmed(Pruned, wall.size)
               per == [e \in EventFolders |->
                         Cardinality({i \in Fresh(tiles) : EventOf[tiles[i].key] = e})]
    <2>1. tiles \in Seq(Tile) /\ wall.size \in WallSizes /\ wall.gen \in Nat
        BY PrunedTiles
    <2> HIDE DEF tiles
    <2>2. Keys(tiles) \in SUBSET Paths
        BY <2>1, KeysArePaths
    <2>3. per \in [EventFolders -> Nat]
        <3> SUFFICES ASSUME NEW e \in EventFolders
                     PROVE  Cardinality({i \in Fresh(tiles) : EventOf[tiles[i].key] = e}) \in Nat
            OBVIOUS
        <3>1. {i \in Fresh(tiles) : EventOf[tiles[i].key] = e} \in SUBSET (DOMAIN tiles)
            BY DEF Fresh
        <3> QED
            BY <2>1, <3>1, PlacesAreFinite, FS_Subset, FS_CardinalityType
    <2>4. fill' = [gen |-> wall.gen, held |-> Keys(tiles), size |-> wall.size, per |-> per,
                   tried |-> {}, left |-> FetchAttempts, entry |-> None]
        BY <1>4 DEF FillBegins, tiles
    <2>5. FetchAttempts \in 0..FetchAttempts
        BY WallHolds
    <2> HIDE DEF per
    <2>6. fill' \in Filling /\ fill'.entry = None
        BY <2>1, <2>2, <2>3, <2>4, <2>5 DEF Filling
    <2> QED
        BY <2>6 DEF PicksWithinAttempts
<1>5. CASE Picks
    <2>1. CASE fill' = None
        BY <2>1 DEF PicksWithinAttempts
    <2>2. CASE \E p \in Pickable : fill.left # 0
                 /\ fill' = [fill EXCEPT !.entry = [of |-> source.folder, path |-> p]]
        <3>1. PICK p \in Pickable :
                 fill.left # 0 /\ fill' = [fill EXCEPT !.entry = [of |-> source.folder, path |-> p]]
            BY <2>2
        <3>2. p \in source.manifest /\ source.manifest # None
            BY DEF Pickable
        <3>3. p \in Paths /\ source.folder \in Folders
            BY <3>2, WallHolds DEF Source, Folder, WallInductive, ManifestHasFolder
        <3>4. fill \in Filling
            BY <1>1, <1>5 DEF Picks
        <3>5. [of |-> source.folder, path |-> p] \in Entry
            BY <3>3 DEF Entry
        <3>6. PICK x \in Entry : x = [of |-> source.folder, path |-> p]
            BY <3>5
        <3>7. fill' = [fill EXCEPT !.entry = x]
            BY <3>1, <3>6
        <3>8. fill' \in Filling /\ fill'.left = fill.left
            BY <3>4, <3>7 DEF Filling
        <3>9. fill.left > 0
            BY <3>1, <3>4, WallHolds DEF Filling
        <3> QED
            BY <3>8, <3>9 DEF PicksWithinAttempts
    <2> QED
        BY <1>5, <2>1, <2>2 DEF Picks
<1>6. CASE Fetched \/ Restart
    BY <1>6 DEF Fetched, Restart, PicksWithinAttempts
<1>7. CASE NotFetched
    <2>1. fill \in Filling /\ fill.left > 0 /\ fill.entry \in Entry
        BY <1>1, <1>7 DEF NotFetched, PicksWithinAttempts, Filling
    <2>2. PICK tried \in SUBSET Paths :
             fill' = [fill EXCEPT !.entry = None, !.left = fill.left - 1, !.tried = tried]
        <3>1. fill.tried \in SUBSET Paths /\ fill.tried \cup {fill.entry.path} \in SUBSET Paths
            BY <2>1 DEF Filling, Entry
        <3> QED
            BY <1>7, <3>1 DEF NotFetched
    <2>3. fill.left - 1 \in 0..FetchAttempts
        BY <2>1, WallHolds DEF Filling
    <2>4. fill' \in Filling /\ fill'.entry = None
        BY <2>1, <2>2, <2>3 DEF Filling
    <2> QED
        BY <2>4 DEF PicksWithinAttempts
<1> QED
    BY <1>2, <1>3, <1>4, <1>5, <1>6, <1>7

LEMMA CallsKeep ==
    ASSUME WallInductive, PhotoWallNext
    PROVE  call' \in [WallAdmins -> Calls \cup {None}]
<1>1. call \in [WallAdmins -> Calls \cup {None}]
    BY WallHolds
<1>2. \/ UNCHANGED call
      \/ \E a \in WallAdmins : SavesFolder(a) \/ SavesSize(a) \/ Rebuild(a) \/ Reshuffle(a) \/ GoesOn(a)
      \/ Restart
    BY DEF PhotoWallNext, Request, Lister, Filler, LoadManifest, BuildDue, ListingEnds, ListingFails,
           WritesManifest, FillBegins, Picks, Fetched, NotFetched, GateOpens, ManifestAges,
           LeavesDrive
<1>3. ASSUME NEW a \in WallAdmins,
             SavesFolder(a) \/ SavesSize(a) \/ Rebuild(a) \/ Reshuffle(a) \/ GoesOn(a)
      PROVE  \E c \in Calls \cup {None} : call' = [call EXCEPT ![a] = c]
    <2>1. CASE SavesFolder(a)
        BY <2>1 DEF SavesFolder, Asks, Calls
    <2>2. CASE SavesSize(a)
        BY <2>2 DEF SavesSize, Asks, Calls
    <2>3. CASE Rebuild(a) \/ Reshuffle(a) \/ Invalidate(a) \/ SetSize(a)
        BY <2>3 DEF Rebuild, Reshuffle, Invalidate, SetSize, Asks
    <2>4. CASE SetFolder(a)
        <3>1. [call[a] EXCEPT !.at = "wall"] \in Calls
            BY <2>4, CallNames DEF SetFolder
        <3> QED
            BY <2>4, <3>1 DEF SetFolder
    <2> QED
        BY <1>3, <2>1, <2>2, <2>3, <2>4 DEF GoesOn
<1>4. CASE Restart
    BY <1>4 DEF Restart
<1> QED
    BY <1>1, <1>2, <1>3, <1>4

LEMMA PartsKeep ==
    ASSUME WallInductive, PhotoWallNext
    PROVE  PartsTyped' /\ ManifestHasFolder' /\ PicksWithinAttempts'
BY RowKeeps, DriveKeeps, CountersKeep, SourceKeeps, ListingKeeps, FillKeeps, CallsKeep DEF PartsTyped

-----------------------------------------------------------------------------
(* The wall.                                                                *)

\* A reshuffle leaves the photographs, and where they came from.
LEMMA ReshuffledTiles ==
    ASSUME NEW tiles \in Seq(Tile), Distinct(tiles),
           NEW left, left = [i \in DOMAIN tiles |-> [tiles[i] EXCEPT !.stale = TRUE]]
    PROVE  /\ left \in Seq(Tile) /\ Distinct(left) /\ Len(left) = Len(tiles)
           /\ \A t \in Range(left) : \E u \in Range(tiles) : t.from = u.from
<1>1. Len(tiles) \in Nat /\ DOMAIN tiles = 1..Len(tiles)
    BY PlacesAreFinite
<1>2. \A i \in 1..Len(tiles) : tiles[i] \in Tile
    OBVIOUS
<1>3. \A i \in 1..Len(tiles) : /\ left[i] \in Tile /\ left[i].key = tiles[i].key
                               /\ left[i].from = tiles[i].from
    BY <1>1, <1>2 DEF Tile
<1>4. left \in Seq(Tile) /\ Len(left) = Len(tiles) /\ DOMAIN left = 1..Len(tiles)
    BY <1>1, <1>3
<1>5. Distinct(left)
    BY <1>1, <1>3, <1>4 DEF Distinct
<1>6. \A t \in Range(left) : \E u \in Range(tiles) : t.from = u.from
    BY <1>1, <1>3, <1>4 DEF Range
<1> QED
    BY <1>4, <1>5, <1>6

\* A download is filed at the end, if its photograph is not there.
LEMMA AppendedTiles ==
    ASSUME NEW tiles \in Seq(Tile), Distinct(tiles), NEW t \in Tile, t.key \notin Keys(tiles)
    PROVE  /\ Append(tiles, t) \in Seq(Tile) /\ Distinct(Append(tiles, t))
           /\ Len(Append(tiles, t)) = Len(tiles) + 1
           /\ Range(Append(tiles, t)) = Range(tiles) \cup {t}
<1> DEFINE more == Append(tiles, t)
<1>1. Len(tiles) \in Nat /\ DOMAIN tiles = 1..Len(tiles)
    BY PlacesAreFinite
<1>2. more \in Seq(Tile) /\ Len(more) = Len(tiles) + 1
    OBVIOUS
<1>3. DOMAIN more = 1..(Len(tiles) + 1)
    BY <1>2
<1>4. /\ \A i \in 1..Len(tiles) : more[i] = tiles[i]
      /\ more[Len(tiles) + 1] = t
    OBVIOUS
<1>5. \A i \in 1..Len(tiles) : tiles[i].key # t.key
    BY <1>1 DEF Keys, Range
<1> HIDE DEF more
<1>6. Distinct(more)
    BY <1>1, <1>3, <1>4, <1>5 DEF Distinct
<1>7. Range(more) = Range(tiles) \cup {t}
    BY <1>1, <1>3, <1>4 DEF Range
<1> USE DEF more
<1> QED
    BY <1>2, <1>6, <1>7

\* Filing a download leaves the wall within its size, with one photograph more at most.
LEMMA FilesOne ==
    ASSUME WallInductive, Fetched
    PROVE  /\ fill # None /\ fill.entry # None /\ UNCHANGED <<source, call>> /\ fill' = None
           /\ wall' \in [size : WallSizes, tiles : Seq(Tile), gen : Nat]
           /\ wall'.gen = wall.gen
           /\ Len(wall'.tiles) <= wall'.size /\ Distinct(wall'.tiles)
           /\ \A t \in Range(wall'.tiles) :
                 t \in Range(wall.tiles) \/ /\ fill.gen = wall.gen
                                            /\ t.from = fill.entry.of
<1>1. wall \in [size : WallSizes, tiles : Seq(Tile), gen : Nat] /\ Distinct(wall.tiles)
      /\ Len(wall.tiles) <= wall.size /\ wall.size \in Nat \ {0}
    BY WallHolds DEF WallInductive, WallTyped
<1>2. /\ fill # None /\ fill.entry # None /\ UNCHANGED <<source, call>> /\ fill' = None
    BY DEF Fetched
<1>3. fill.entry \in Entry
    BY <1>2, WallHolds DEF Filling
<1> DEFINE t == [key |-> fill.entry.path, from |-> fill.entry.of, stale |-> FALSE]
<1>4. CASE UNCHANGED wall
    BY <1>1, <1>2, <1>4
<1>5. CASE /\ Files(fill.entry.path)
           /\ \E tiles \in Evicted(wall.tiles, wall.size) :
                 wall' = [wall EXCEPT !.tiles = Append(tiles, t)]
    <2>1. t \in Tile
        BY <1>3 DEF Entry, Tile
    <2>2. PICK tiles \in Evicted(wall.tiles, wall.size) :
             wall' = [wall EXCEPT !.tiles = Append(tiles, t)]
        BY <1>5
    <2>3. /\ tiles \in Seq(Tile) /\ Distinct(tiles) /\ Len(tiles) < wall.size
          /\ Range(tiles) \subseteq Range(wall.tiles)
        BY <1>1, EvictedTiles
    <2>4. t.key \notin Keys(tiles) /\ fill.gen = wall.gen /\ t.from = fill.entry.of
        BY <1>5, <2>3 DEF Files, Keys
    <2> HIDE DEF t
    <2>5. /\ Append(tiles, t) \in Seq(Tile) /\ Distinct(Append(tiles, t))
          /\ Len(Append(tiles, t)) = Len(tiles) + 1
          /\ Range(Append(tiles, t)) = Range(tiles) \cup {t}
        BY <2>1, <2>3, <2>4, AppendedTiles
    <2>6. PICK more \in Seq(Tile) : more = Append(tiles, t)
        BY <2>5
    <2>7. /\ wall' = [wall EXCEPT !.tiles = more] /\ Len(more) <= wall.size
          /\ Distinct(more) /\ Range(more) = Range(tiles) \cup {t}
        <3>1. Len(tiles) \in Nat
            BY <2>3, PlacesAreFinite
        <3> QED
            BY <1>1, <2>2, <2>3, <2>5, <2>6, <3>1
    <2>8. /\ wall' \in [size : WallSizes, tiles : Seq(Tile), gen : Nat]
          /\ wall'.gen = wall.gen /\ wall'.size = wall.size /\ wall'.tiles = more
        BY <1>1, <2>7
    <2> QED
        BY <1>2, <2>3, <2>4, <2>7, <2>8
<1> QED
    BY <1>4, <1>5 DEF Fetched

\* Resizing, reshuffling and pruning keep photographs that were there.
LEMMA WallShrinks ==
    ASSUME WallInductive, (\E a \in WallAdmins : SetSize(a) \/ Reshuffle(a)) \/ FillBegins
    PROVE  /\ wall' \in [size : WallSizes, tiles : Seq(Tile), gen : Nat]
           /\ wall'.gen = wall.gen
           /\ Len(wall'.tiles) <= wall'.size /\ Distinct(wall'.tiles)
           /\ \A t \in Range(wall'.tiles) : \E u \in Range(wall.tiles) : t.from = u.from
<1>1. /\ wall \in [size : WallSizes, tiles : Seq(Tile), gen : Nat]
      /\ Distinct(wall.tiles) /\ Len(wall.tiles) <= wall.size
    BY DEF WallInductive, WallTyped
<1>2. ASSUME NEW n \in WallSizes, NEW tiles \in Seq(Tile), Distinct(tiles), Len(tiles) <= n,
             \A t \in Range(tiles) : \E u \in Range(wall.tiles) : t.from = u.from,
             wall' = [wall EXCEPT !.size = n, !.tiles = tiles]
      PROVE  /\ wall' \in [size : WallSizes, tiles : Seq(Tile), gen : Nat]
             /\ wall'.gen = wall.gen
             /\ Len(wall'.tiles) <= wall'.size /\ Distinct(wall'.tiles)
             /\ \A t \in Range(wall'.tiles) : \E u \in Range(wall.tiles) : t.from = u.from
    <2>1. /\ wall' \in [size : WallSizes, tiles : Seq(Tile), gen : Nat]
          /\ wall'.gen = wall.gen /\ wall'.size = n /\ wall'.tiles = tiles
        BY <1>1, <1>2
    <2> QED
        BY <1>2, <2>1
<1>3. ASSUME NEW a \in WallAdmins, SetSize(a)
      PROVE  \E n \in WallSizes, tiles \in Seq(Tile) :
                /\ Distinct(tiles) /\ Len(tiles) <= n /\ Range(tiles) \subseteq Range(wall.tiles)
                /\ wall' = [wall EXCEPT !.size = n, !.tiles = tiles]
    <2>1. call[a].to \in WallSizes /\ call[a].to \in Nat
        BY <1>3, CallNames, WallHolds DEF SetSize
    <2>2. wall' = [wall EXCEPT !.size = call[a].to, !.tiles = Trimmed(wall.tiles, call[a].to)]
        BY <1>3 DEF SetSize
    <2> QED
        BY <1>1, <2>1, <2>2, TrimmedTiles
<1>4. ASSUME NEW a \in WallAdmins, Reshuffle(a)
      PROVE  \E tiles \in Seq(Tile) :
                /\ Distinct(tiles) /\ Len(tiles) = Len(wall.tiles)
                /\ \A t \in Range(tiles) : \E u \in Range(wall.tiles) : t.from = u.from
                /\ wall' = [wall EXCEPT !.tiles = tiles]
    <2> DEFINE left == [i \in DOMAIN wall.tiles |-> [wall.tiles[i] EXCEPT !.stale = TRUE]]
    <2>1. wall' = [wall EXCEPT !.tiles = left]
        BY <1>4 DEF Reshuffle
    <2>2. /\ left \in Seq(Tile) /\ Distinct(left) /\ Len(left) = Len(wall.tiles)
          /\ \A t \in Range(left) : \E u \in Range(wall.tiles) : t.from = u.from
        BY <1>1, ReshuffledTiles
    <2> HIDE DEF left
    <2> QED
        BY <2>1, <2>2
<1>5. ASSUME FillBegins
      PROVE  \E tiles \in Seq(Tile) :
                /\ Distinct(tiles) /\ Len(tiles) <= wall.size
                /\ Range(tiles) \subseteq Range(wall.tiles)
                /\ wall' = [wall EXCEPT !.tiles = tiles]
    BY <1>5, PrunedTiles DEF FillBegins
<1>6. \A tiles : [wall EXCEPT !.tiles = tiles] = [wall EXCEPT !.size = wall.size, !.tiles = tiles]
    BY <1>1
<1>7. CASE \E a \in WallAdmins : SetSize(a)
    BY <1>2, <1>3, <1>7
<1>8. CASE \E a \in WallAdmins : Reshuffle(a)
    <2>1. PICK tiles \in Seq(Tile) :
                /\ Distinct(tiles) /\ Len(tiles) = Len(wall.tiles)
                /\ \A t \in Range(tiles) : \E u \in Range(wall.tiles) : t.from = u.from
                /\ wall' = [wall EXCEPT !.tiles = tiles]
        BY <1>4, <1>8
    <2>2. wall' = [wall EXCEPT !.size = wall.size, !.tiles = tiles]
        BY <1>6, <2>1
    <2> QED
        BY <1>1, <1>2, <2>1, <2>2
<1>9. CASE FillBegins
    <2>1. PICK tiles \in Seq(Tile) :
                /\ Distinct(tiles) /\ Len(tiles) <= wall.size
                /\ Range(tiles) \subseteq Range(wall.tiles)
                /\ wall' = [wall EXCEPT !.tiles = tiles]
        BY <1>5, <1>9
    <2>2. wall' = [wall EXCEPT !.size = wall.size, !.tiles = tiles]
        BY <1>6, <2>1
    <2> QED
        BY <1>1, <1>2, <2>1, <2>2
<1> QED
    BY <1>7, <1>8, <1>9

LEMMA WallKeeps ==
    ASSUME WallInductive, PhotoWallNext
    PROVE  WallTyped'
<1>1. /\ wall \in [size : WallSizes, tiles : Seq(Tile), gen : Nat] /\ WallTyped
      /\ row \in Row /\ WallSizes \subseteq Nat \ {0}
    BY WallHolds DEF WallInductive, WallTyped
<1>2. \/ UNCHANGED wall
      \/ \E a \in WallAdmins : Invalidate(a) \/ SetSize(a) \/ Reshuffle(a)
      \/ FillBegins \/ Fetched \/ Restart
    BY DEF PhotoWallNext, Request, GoesOn, Lister, Filler, SavesFolder, SavesSize, Rebuild, SetFolder,
           LoadManifest, BuildDue, ListingEnds, ListingFails, WritesManifest, Picks, NotFetched,
           GateOpens, ManifestAges, LeavesDrive
<1>3. CASE UNCHANGED wall
    BY <1>1, <1>3 DEF WallTyped
<1>4. ASSUME NEW a \in WallAdmins, Invalidate(a) PROVE WallTyped'
    <2>1. wall' = [wall EXCEPT !.gen = wall.gen + 1, !.tiles = <<>>]
        BY <1>4 DEF Invalidate
    <2>2. PICK none \in Seq(Tile) : none = <<>>
        BY EmptySeq
    <2>3. /\ wall' \in [size : WallSizes, tiles : Seq(Tile), gen : Nat] /\ wall'.tiles = none
        <3>1. wall.gen + 1 \in Nat
            BY <1>1
        <3>2. wall' = [wall EXCEPT !.gen = wall.gen + 1, !.tiles = none]
            BY <2>1, <2>2
        <3> QED
            BY <1>1, <3>1, <3>2
    <2>4. wall'.size \in Nat
        BY <1>1, <2>3
    <2> QED
        BY <2>2, <2>3, <2>4 DEF WallTyped, Distinct
<1>5. CASE (\E a \in WallAdmins : SetSize(a) \/ Reshuffle(a)) \/ FillBegins
    BY <1>5, WallShrinks DEF WallTyped
<1>6. CASE Fetched
    BY <1>6, FilesOne DEF WallTyped
<1>7. CASE Restart
    <2>1. wall' = [size |-> row.size, tiles |-> <<>>, gen |-> 0] /\ row.size \in WallSizes
        BY <1>1, <1>7 DEF Restart, FreshWall, Row
    <2>2. PICK none \in Seq(Tile) : none = <<>>
        BY EmptySeq
    <2>3. /\ wall' \in [size : WallSizes, tiles : Seq(Tile), gen : Nat] /\ wall'.tiles = none
        BY <1>1, <2>1, <2>2
    <2>4. wall'.size \in Nat
        BY <1>1, <2>3
    <2> QED
        BY <2>2, <2>3, <2>4 DEF WallTyped, Distinct
<1> QED
    BY <1>2, <1>3, <1>4, <1>5, <1>6, <1>7

-----------------------------------------------------------------------------
(* Generations.                                                             *)

\* A finite set loses or gains one.
LEMMA SwitchingIsFinite ==
    ASSUME WallInductive
    PROVE  /\ IsFiniteSet(Switching) /\ Cardinality(Switching) \in Nat
           /\ \A a \in Switching : Cardinality(Switching \ {a}) = Cardinality(Switching) - 1
           /\ \A a : a \notin Switching =>
                 Cardinality(Switching \cup {a}) = Cardinality(Switching) + 1
<1>1. IsFiniteSet(Switching)
    BY WallFits, FS_Subset DEF Switching
<1> QED
    BY <1>1, FS_CardinalityType, FS_AddElement, FS_RemoveElement

LEMMA GenerationsKeep ==
    ASSUME WallInductive, PhotoWallNext
    PROVE  GenerationsAreCalls'
<1>1. /\ wall \in [size : WallSizes, tiles : Seq(Tile), gen : Nat]
      /\ wallCalls \in Nat /\ wall.gen + Cardinality(Switching) <= wallCalls
      /\ call \in [WallAdmins -> Calls \cup {None}]
    BY WallHolds DEF WallInductive, WallTyped, GenerationsAreCalls
<1>2. \/ UNCHANGED <<call, wallCalls>> /\ wall'.gen = wall.gen
      \/ \E a \in WallAdmins : SavesFolder(a) \/ SavesSize(a) \/ Rebuild(a) \/ Reshuffle(a) \/ GoesOn(a)
      \/ Restart
    <2>1. \/ UNCHANGED <<call, wallCalls, wall>>
          \/ UNCHANGED <<call, wallCalls>> /\ (FillBegins \/ Fetched)
          \/ \E a \in WallAdmins :
                SavesFolder(a) \/ SavesSize(a) \/ Rebuild(a) \/ Reshuffle(a) \/ GoesOn(a)
          \/ Restart
        BY DEF PhotoWallNext, Request, Lister, Filler, LoadManifest, BuildDue, ListingEnds,
               ListingFails, WritesManifest, FillBegins, Picks, Fetched, NotFetched, GateOpens,
               ManifestAges, LeavesDrive
    <2> QED
        BY <2>1, WallShrinks, FilesOne
<1>3. CASE UNCHANGED <<call, wallCalls>> /\ wall'.gen = wall.gen
    BY <1>1, <1>3 DEF GenerationsAreCalls, Switching
<1>4. ASSUME NEW a \in WallAdmins, SavesFolder(a) \/ SavesSize(a) \/ Rebuild(a) \/ Reshuffle(a)
      PROVE  GenerationsAreCalls'
    <2>1. call[a] = None /\ wallCalls' = wallCalls + 1 /\ wall'.gen = wall.gen
        BY <1>4, WallShrinks DEF SavesFolder, SavesSize, Rebuild, Reshuffle, Asks
    <2>2. \A b \in WallAdmins \ {a} : call'[b] = call[b]
        BY <1>1, <1>4 DEF SavesFolder, SavesSize, Rebuild, Reshuffle, Asks
    <2>3. a \notin Switching
        BY <2>1 DEF Switching
    <2>4. Switching' = Switching \/ Switching' = Switching \cup {a}
        BY <2>2, <2>3 DEF Switching
    <2>5. Cardinality(Switching)' <= Cardinality(Switching) + 1 /\ Cardinality(Switching)' \in Nat
        BY <2>3, <2>4, SwitchingIsFinite
    <2> QED
        BY <1>1, <2>1, <2>5, SwitchingIsFinite DEF GenerationsAreCalls
<1>5. ASSUME NEW a \in WallAdmins, SetFolder(a) \/ SetSize(a)
      PROVE  GenerationsAreCalls'
    <2>1. call[a] # None /\ wallCalls' = wallCalls /\ wall'.gen = wall.gen
        BY <1>5, WallShrinks DEF SetFolder, SetSize
    <2>2. \A b \in WallAdmins \ {a} : call'[b] = call[b]
        BY <1>1, <1>5 DEF SetFolder, SetSize
    <2>3. a \in Switching \/ call'[a] = None
        BY <1>1, <1>5 DEF SetFolder, SetSize, Switching
    <2>4. Switching' = Switching \/ /\ a \in Switching
                                    /\ Switching' = Switching \ {a}
        BY <2>2, <2>3 DEF Switching
    <2>5. Cardinality(Switching)' <= Cardinality(Switching) /\ Cardinality(Switching)' \in Nat
        BY <2>4, SwitchingIsFinite, FS_Subset, FS_CardinalityType
    <2> QED
        BY <1>1, <2>1, <2>5, SwitchingIsFinite DEF GenerationsAreCalls
<1>6. ASSUME NEW a \in WallAdmins, Invalidate(a)
      PROVE  GenerationsAreCalls'
    <2>1. /\ call[a] # None /\ call[a].at = "wall" /\ call' = [call EXCEPT ![a] = None]
          /\ wallCalls' = wallCalls /\ wall' = [wall EXCEPT !.gen = wall.gen + 1, !.tiles = <<>>]
        BY <1>6 DEF Invalidate
    <2>2. wall'.gen = wall.gen + 1
        BY <1>1, <2>1
    <2>3. a \in Switching /\ Switching' = Switching \ {a}
        BY <1>1, <2>1 DEF Switching
    <2>4. Cardinality(Switching)' = Cardinality(Switching) - 1
        BY <2>3, SwitchingIsFinite
    <2> QED
        BY <1>1, <2>1, <2>2, <2>4, SwitchingIsFinite DEF GenerationsAreCalls
<1>7. CASE Restart
    <2>1. wall'.gen = 0 /\ Switching' = {} /\ wallCalls' = wallCalls
        BY <1>7 DEF Restart, FreshWall, Switching
    <2> QED
        BY <1>1, <2>1, FS_EmptySet DEF GenerationsAreCalls
<1> QED
    BY <1>2, <1>3, <1>4, <1>5, <1>6, <1>7 DEF GoesOn

-----------------------------------------------------------------------------
(* The folder that is shown.                                                *)

\* A step that neither switches nor fills changes nothing of these.
LEMMA ElsewhereKeeps ==
    ASSUME WallInductive,
           source'.folder = source.folder, UNCHANGED fill, wall'.gen = wall.gen,
           HalfSwitched => HalfSwitched',
           \A t \in Range(wall'.tiles) : \E u \in Range(wall.tiles) : t.from = u.from
    PROVE  FillIsLive' /\ WallShowsItsFolder'
BY DEF WallInductive, FillIsLive, WallShowsItsFolder, HalfSwitched

LEMMA FolderKeeps ==
    ASSUME WallInductive, PhotoWallNext
    PROVE  FillIsLive' /\ WallShowsItsFolder'
<1>1. /\ wall \in [size : WallSizes, tiles : Seq(Tile), gen : Nat]
      /\ call \in [WallAdmins -> Calls \cup {None}] /\ source \in Source
      /\ FillIsLive /\ WallShowsItsFolder
    BY WallHolds DEF WallInductive, WallTyped
<1>2. ASSUME NEW a \in WallAdmins,
             SavesFolder(a) \/ SavesSize(a) \/ Rebuild(a) \/ Reshuffle(a) \/ SetSize(a)
      PROVE  FillIsLive' /\ WallShowsItsFolder'
    <2>1. UNCHANGED fill /\ source'.folder = source.folder
        BY <1>1, <1>2 DEF SavesFolder, SavesSize, Rebuild, Reshuffle, SetSize, Source
    <2>2. /\ wall'.gen = wall.gen
          /\ \A t \in Range(wall'.tiles) : \E u \in Range(wall.tiles) : t.from = u.from
        <3>1. CASE UNCHANGED wall
            BY <3>1
        <3>2. CASE SetSize(a) \/ Reshuffle(a)
            BY <3>2, WallShrinks
        <3> QED
            BY <1>2, <3>1, <3>2 DEF SavesFolder, SavesSize, Rebuild
    <2>3. /\ \A b \in WallAdmins \ {a} : call'[b] = call[b]
          /\ call[a] = None \/ call[a].at = "size"
        BY <1>1, <1>2 DEF SavesFolder, SavesSize, Rebuild, Reshuffle, SetSize, Asks
    <2>4. HalfSwitched => HalfSwitched'
        BY <2>3 DEF HalfSwitched
    <2> QED
        BY <2>1, <2>2, <2>4, ElsewhereKeeps
<1>3. ASSUME NEW a \in WallAdmins, SetFolder(a)
      PROVE  FillIsLive' /\ WallShowsItsFolder'
    <2>1. /\ UNCHANGED <<wall, fill>> /\ call[a].at = "source"
          /\ \A b \in WallAdmins \ {a} : call'[b] = call[b]
        BY <1>1, <1>3 DEF SetFolder
    <2>2. CASE UNCHANGED source
        <3>1. HalfSwitched => HalfSwitched'
            BY <2>1 DEF HalfSwitched
        <3> QED
            BY <2>1, <2>2, <3>1, ElsewhereKeeps
    <2>3. CASE call' = [call EXCEPT ![a].at = "wall"]
        <3>1. call'[a] = [call[a] EXCEPT !.at = "wall"]
            BY <1>1, <2>3
        <3>2. call[a] # None /\ call[a] \in Calls
            BY <1>1, <1>3, WallHolds DEF SetFolder
        <3>3. call'[a].at = "wall" /\ call'[a] \in Calls
            BY <2>1, <3>1, <3>2, CallNames DEF Calls
        <3>4. call'[a] # None
            BY <3>3, NoneIsNothing
        <3>5. HalfSwitched'
            BY <3>3, <3>4 DEF HalfSwitched
        <3> QED
            BY <1>1, <2>1, <3>5 DEF FillIsLive, WallShowsItsFolder, HalfSwitched
    <2> QED
        BY <1>3, <2>2, <2>3 DEF SetFolder
<1>4. ASSUME NEW a \in WallAdmins, Invalidate(a)
      PROVE  FillIsLive' /\ WallShowsItsFolder'
    <2>1. /\ wall' = [wall EXCEPT !.gen = wall.gen + 1, !.tiles = <<>>] /\ UNCHANGED fill
        BY <1>4 DEF Invalidate
    <2>2. wall'.gen = wall.gen + 1 /\ wall'.tiles = <<>>
        BY <1>1, <2>1
    <2>3. WallShowsItsFolder'
        BY <2>2 DEF WallShowsItsFolder, Range
    <2>4. fill # None => fill.gen \in Nat
        BY WallHolds DEF Filling
    <2> QED
        BY <1>1, <2>1, <2>2, <2>3, <2>4 DEF FillIsLive
<1>5. CASE Lister \/ GateOpens \/ ManifestAges \/ LeavesDrive
    <2>1. UNCHANGED <<fill, wall, call>> /\ source'.folder = source.folder
        BY <1>1, <1>5 DEF Lister, LoadManifest, BuildDue, ListingEnds, ListingFails, WritesManifest,
                          GateOpens, ManifestAges, LeavesDrive, Source
    <2> QED
        BY <2>1, ElsewhereKeeps DEF HalfSwitched
<1>6. CASE FillBegins
    <2>1. UNCHANGED <<source, call>> /\ fill'.gen = wall.gen /\ fill'.entry = None
        BY <1>6 DEF FillBegins
    <2>2. /\ wall'.gen = wall.gen /\ wall.gen \in Nat
          /\ \A t \in Range(wall'.tiles) : \E u \in Range(wall.tiles) : t.from = u.from
        BY <1>1, <1>6, WallShrinks
    <2> QED
        BY <1>1, <2>1, <2>2 DEF FillIsLive, WallShowsItsFolder
<1>7. CASE Picks
    <2>1. fill # None /\ fill \in Filling /\ UNCHANGED <<source, wall, call>>
        BY <1>7, WallHolds DEF Picks
    <2>2. \/ fill' = None
          \/ fill'.gen = fill.gen /\ fill'.entry.of = source.folder
        BY <1>7, <2>1 DEF Picks, Filling
    <2> QED
        BY <1>1, <2>1, <2>2 DEF FillIsLive, WallShowsItsFolder
<1>8. CASE Fetched
    BY <1>1, <1>8, FilesOne DEF FillIsLive, WallShowsItsFolder, HalfSwitched
<1>9. CASE NotFetched
    <2>1. fill # None /\ fill \in Filling /\ UNCHANGED <<source, wall, call>>
        BY <1>9, WallHolds DEF NotFetched
    <2>2. fill'.gen = fill.gen /\ fill'.entry = None
        BY <1>9, <2>1 DEF NotFetched, Filling
    <2> QED
        BY <1>1, <2>1, <2>2 DEF FillIsLive, WallShowsItsFolder
<1>10. CASE Restart
    <2>1. fill' = None /\ wall'.tiles = <<>>
        BY <1>10 DEF Restart, FreshWall
    <2> QED
        BY <2>1 DEF FillIsLive, WallShowsItsFolder, Range
<1> QED
    BY <1>2, <1>3, <1>4, <1>5, <1>6, <1>7, <1>8, <1>9, <1>10
       DEF PhotoWallNext, Request, GoesOn, Filler

-----------------------------------------------------------------------------
(* The theorems.                                                            *)

LEMMA WallStarts ==
    ASSUME PhotoWallInit
    PROVE  WallInductive
<1>1. /\ drive = Contents /\ row \in Row /\ source = FreshSource(row.folder)
      /\ wall = FreshWall(row.size) /\ listing = None /\ file = None /\ fill = None
      /\ call = [a \in WallAdmins |-> None] /\ wallCalls = 0 /\ wallFaults = 0
    BY DEF PhotoWallInit, Row
<1>2. row.folder \in Folder /\ row.size \in WallSizes /\ row.size \in Nat \ {0}
    BY <1>1, WallFits DEF Row
<1>3. source \in Source /\ source.manifest = None
    BY <1>1, <1>2 DEF FreshSource, Source
<1>4. PartsTyped
    BY <1>1, <1>3, WallFits DEF PartsTyped
<1>5. wall \in [size : WallSizes, tiles : Seq(Tile), gen : Nat]
      /\ wall.size = row.size /\ wall.tiles = <<>> /\ wall.gen = 0
    BY <1>1, <1>2 DEF FreshWall
<1>6. WallTyped
    BY <1>2, <1>5 DEF WallTyped, Distinct
<1>7. Switching = {}
    BY <1>1 DEF Switching
<1>8. GenerationsAreCalls
    BY <1>1, <1>5, <1>7, FS_EmptySet DEF GenerationsAreCalls
<1>9. WallShowsItsFolder
    BY <1>5 DEF WallShowsItsFolder, Range
<1> QED
    BY <1>1, <1>3, <1>4, <1>6, <1>8, <1>9
       DEF WallInductive, ManifestHasFolder, PicksWithinAttempts, FillIsLive

LEMMA WallStutters ==
    ASSUME WallInductive, UNCHANGED wallVars
    PROVE  WallInductive'
BY DEF wallVars, WallInductive, PartsTyped, ManifestHasFolder, PicksWithinAttempts, WallTyped,
       GenerationsAreCalls, Switching, FillIsLive, HalfSwitched, WallShowsItsFolder

\* Whatever the admins ask, the lister and the filler do, and however often they start
\* again: the parts are typed, a generation is a switch that was asked for, and what a
\* fill of this generation has picked is of the live folder.
THEOREM WallInvariant == PhotoWallSpec => []WallInductive
<1>1. WallInductive /\ [PhotoWallNext]_wallVars => WallInductive'
    <2>1. ASSUME WallInductive, PhotoWallNext PROVE WallInductive'
        BY <2>1, PartsKeep, WallKeeps, GenerationsKeep, FolderKeeps DEF WallInductive
    <2> QED
        BY <2>1, WallStutters
<1> QED
    BY <1>1, WallStarts, PTL DEF PhotoWallSpec

\* photowall.go, prune, SetSize and fillOne: no photograph is on the wall twice, and there are
\* never more than the size, whatever the order of fills, resizes and reshuffles.
THEOREM WallTypeHolds == PhotoWallSpec => []PhotoWallTypeOK
<1>1. WallInductive => PhotoWallTypeOK
    <2> SUFFICES ASSUME WallInductive PROVE PhotoWallTypeOK
        OBVIOUS
    <2>1. /\ wall.size \in WallSizes /\ wall.gen \in Nat /\ wall.tiles \in Seq(Tile)
          /\ Len(wall.tiles) <= wall.size /\ Distinct(wall.tiles)
        BY DEF WallInductive, WallTyped
    <2>2. wall.gen \in 0..MaxWallCalls
        BY <2>1, WallHolds, SwitchingIsFinite DEF WallInductive, GenerationsAreCalls
    <2>3. Range(wall.tiles) \subseteq Tile
        BY <2>1 DEF Range
    <2>4. Cardinality(Keys(wall.tiles)) = Len(wall.tiles)
        BY <2>1, KeysOfDistinct
    <2>5. \A a \in WallAdmins : call[a] # None => call[a].at \in {"source", "wall", "size"}
        BY CallNames
    <2> QED
        BY <2>1, <2>2, <2>3, <2>4, <2>5, WallHolds
           DEF PhotoWallTypeOK, WallInductive, PartsTyped, Row, Source
<1> QED
    BY <1>1, WallInvariant, PTL

\* photowall.go, fillOne beside Invalidate: however long a download takes, and whoever
\* switches meanwhile, no photograph of a replaced folder is filed once the switch has
\* answered: it has begun a generation that the fill does not have.
THEOREM NoPhotoOfAReplacedFolder == PhotoWallSpec => []WallShowsItsFolder
<1>1. WallInductive => WallShowsItsFolder
    BY DEF WallInductive
<1> QED
    BY <1>1, WallInvariant, PTL

-----------------------------------------------------------------------------
(* GoogleSignIn: the port every `rclone authorize` wants.                   *)

\* A connection is one request's, from the press to its link.
Connects(r) == r # None /\ r.at \in {"stop", "link"}
IdsAreOwn == \A a, b \in Connectors :
    Connects(press[a]) /\ Connects(press[b]) /\ press[a].id = press[b].id => a = b

\* A request's process starts when what it replaces has been stopped, and none
\* starts without a request.
ConnectionFits(r) ==
    /\ r \in Connection /\ r.id <= connects
    /\ At(r.id) = "none" <=> r.at = "stop"
BegunInOrder ==
    /\ \A i \in Attempt : i > connects => At(i) = "none"
    /\ \A a \in Connectors : press[a] # None => ConnectionFits(press[a])

OneListens == \A i, j \in Listening : i = j

GoogleTyped ==
    /\ client \in Clients /\ pending \subseteq Attempt /\ superseded \subseteq Attempt
    /\ rclone \in [Attempt -> [client : Clients, at : {"none", "listening"} \cup Over]]
    /\ press \in [Connectors -> Connection \cup {None}]
    /\ remote \in [token : Clients, client : Clients] \cup {None}
    /\ connects \in 0 .. MaxConnects
    /\ \A i \in pending : At(i) # "none"

GoogleInductive == GoogleTyped /\ OneListens /\ PortIsKnown /\ BegunInOrder /\ IdsAreOwn

LEMMA GoogleStarts ==
    ASSUME GoogleInit
    PROVE  GoogleInductive
<1>1. \A i \in Attempt : At(i) = "none"
    BY DEF GoogleInit, At
<1>2. GoogleTyped
    BY <1>1, ConnectsFit DEF GoogleInit, GoogleTyped
<1>3. BegunInOrder /\ IdsAreOwn
    BY <1>1 DEF GoogleInit, BegunInOrder, IdsAreOwn, Connects
<1>4. OneListens /\ PortIsKnown
    BY <1>1 DEF OneListens, PortIsKnown, Listening
<1> QED
    BY <1>2, <1>3, <1>4 DEF GoogleInductive

\* Of a request in flight.
LEMMA ConnectionHolds ==
    ASSUME GoogleInductive, NEW a \in Connectors, press[a] # None
    PROVE  /\ ConnectionFits(press[a]) /\ press[a] \in Connection /\ press[a].id \in Attempt
           /\ press[a].client \in Clients
           /\ press[a].at \in {"stop", "link", "finish", "write"}
<1>1. ConnectionFits(press[a])
    BY DEF GoogleInductive, BegunInOrder
<1>2. press[a] \in Connection
    BY <1>1 DEF ConnectionFits
<1>3. \A r \in Connection : /\ r.id \in Attempt /\ r.client \in Clients
                         /\ r.at \in {"stop", "link", "finish", "write"}
    BY DEF Connection
<1> QED
    BY <1>1, <1>2, <1>3

\* A request that goes on keeps its id, and what it may become is a request again.
LEMMA NextConnections ==
    ASSUME NEW r \in Connection
    PROVE  /\ r.at = "stop" => \A S : /\ [r EXCEPT !.todo = @ \ S] \in Connection
                                      /\ [r EXCEPT !.todo = @ \ S].at = "stop"
                                      /\ [r EXCEPT !.todo = @ \ S].id = r.id
           /\ r.at = "stop" => /\ [r EXCEPT !.at = "link"] \in Connection
                               /\ [r EXCEPT !.at = "link"].at = "link"
                               /\ [r EXCEPT !.at = "link"].id = r.id
           /\ r.at = "finish" => /\ [r EXCEPT !.at = "write"] \in Connection
                                 /\ [r EXCEPT !.at = "write"].at = "write"
                                 /\ [r EXCEPT !.at = "write"].id = r.id
<1>1. CASE r \in [at : {"stop", "link"}, id : Attempt, client : Clients, todo : SUBSET Attempt]
    BY <1>1 DEF Connection
<1>2. CASE r \in [at : {"finish", "write"}, id : Attempt, client : Clients]
    BY <1>2 DEF Connection
<1> QED
    BY <1>1, <1>2 DEF Connection

\* Processes only end: none starts, and what listened and listens no longer is over.
ProcessesEnd ==
    \A i \in Attempt :
        /\ rclone'[i] \in [client : Clients, at : {"none", "listening"} \cup Over]
        /\ At(i)' # At(i) => At(i) = "listening" /\ At(i)' \in Over

LEMMA ProcessEnds ==
    ASSUME GoogleInductive, NEW i \in Listening, NEW st \in Over,
           Process(i, rclone[i].client, st)
    PROVE  /\ ProcessesEnd /\ rclone' \in [Attempt -> [client : Clients, at : {"none", "listening"} \cup Over]]
           /\ At(i)' = st
           /\ \A j \in Attempt \ {i} : At(j)' = At(j)
<1>1. /\ rclone \in [Attempt -> [client : Clients, at : {"none", "listening"} \cup Over]]
      /\ i \in Attempt /\ At(i) = "listening"
    BY DEF GoogleInductive, GoogleTyped, Listening
<1>2. rclone' = [rclone EXCEPT ![i] = [client |-> rclone[i].client, at |-> st]]
    BY DEF Process
<1>3. rclone[i].client \in Clients
    BY <1>1
<1>4. rclone'[i] = [client |-> rclone[i].client, at |-> st] /\ rclone'[i].at = st
    BY <1>1, <1>2
<1>5. \A j \in Attempt \ {i} : rclone'[j] = rclone[j]
    BY <1>1, <1>2
<1>6. rclone' \in [Attempt -> [client : Clients, at : {"none", "listening"} \cup Over]]
    BY <1>1, <1>2, <1>3
<1>7. At(i)' = st /\ \A j \in Attempt \ {i} : At(j)' = At(j)
    BY <1>4, <1>5 DEF At
<1>8. ProcessesEnd
    BY <1>1, <1>6, <1>7 DEF ProcessesEnd
<1> QED
    BY <1>6, <1>7, <1>8

\* A step that starts no process and no connection keeps what the port's holder needs:
\* an attempt leaves the map when it does not listen, and a link is given up when it is
\* in the map or its process has ended.
LEMMA ReleaseKeeps ==
    ASSUME GoogleInductive, UNCHANGED <<superseded, connects>>, client' \in Clients,
           remote' \in [token : Clients, client : Clients] \cup {None},
           rclone' \in [Attempt -> [client : Clients, at : {"none", "listening"} \cup Over]],
           ProcessesEnd,
           pending' \subseteq Attempt, \A i \in pending' : At(i)' # "none",
           \A i \in pending \ pending' : At(i)' # "listening",
           press' \in [Connectors -> Connection \cup {None}],
           \A a \in Connectors : press'[a] # None => ConnectionFits(press'[a]),
           \A a \in Connectors : Connects(press'[a]) =>
              Connects(press[a]) /\ press[a].id = press'[a].id,
           \A a \in Connectors : press[a] # None /\ press[a].at = "link" =>
              \/ press'[a] # None /\ press'[a].at = "link" /\ press'[a].id = press[a].id
              \/ press[a].id \in pending' \/ rclone'[press[a].id].at # "listening"
    PROVE  GoogleInductive'
<1>1. \A i \in Attempt : /\ At(i)' = "none" <=> At(i) = "none"
                         /\ At(i)' = "listening" => At(i) = "listening"
    BY DEF ProcessesEnd, Over
<1>2. GoogleTyped'
    BY DEF GoogleInductive, GoogleTyped, Over, At
<1>3. OneListens'
    BY <1>1 DEF GoogleInductive, OneListens, Listening
<1>4. PortIsKnown'
    <2>1. SUFFICES ASSUME NEW i \in Attempt, At(i)' = "listening"
                   PROVE  i \in pending' \/ \E b \in Connectors :
                             press'[b] # None /\ press'[b].at = "link" /\ press'[b].id = i
        BY DEF PortIsKnown, Listening
    <2>2. i \in Listening /\ rclone'[i].at = "listening"
        BY <1>1, <2>1 DEF Listening, At
    <2>3. CASE i \in pending
        BY <2>1, <2>3
    <2>4. ASSUME NEW b \in Connectors, press[b] # None, press[b].at = "link", press[b].id = i
          PROVE  \/ i \in pending'
                 \/ press'[b] # None /\ press'[b].at = "link" /\ press'[b].id = i
        BY <2>2, <2>4
    <2> QED
        BY <2>2, <2>3, <2>4 DEF GoogleInductive, PortIsKnown
<1>5. BegunInOrder'
    <2>1. \A i \in Attempt : i > connects' => At(i)' = "none"
        BY <1>1 DEF GoogleInductive, BegunInOrder
    <2>2. ASSUME NEW r \in Connection, ConnectionFits(r) PROVE ConnectionFits(r)'
        <3>1. r.id \in Attempt
            BY DEF Connection
        <3> QED
            BY <1>1, <2>2, <3>1 DEF ConnectionFits, At
    <2>3. \A b \in Connectors : press'[b] # None => press'[b] \in Connection
        OBVIOUS
    <2> QED
        BY <2>1, <2>2, <2>3 DEF BegunInOrder
<1>6. IdsAreOwn'
    BY DEF GoogleInductive, IdsAreOwn, Connects
<1> QED
    BY <1>2, <1>3, <1>4, <1>5, <1>6 DEF GoogleInductive

\* One request of them goes on or ends.
LEMMA MoveKeeps ==
    ASSUME GoogleInductive, NEW a \in Connectors, UNCHANGED <<client, superseded, connects>>,
           remote' \in [token : Clients, client : Clients] \cup {None},
           rclone' \in [Attempt -> [client : Clients, at : {"none", "listening"} \cup Over]],
           ProcessesEnd,
           pending' \subseteq Attempt, \A i \in pending' : At(i)' # "none",
           \A i \in pending \ pending' : At(i)' # "listening",
           NEW next, Press(a, next), next # None => ConnectionFits(next),
           Connects(next) => press[a] # None /\ press[a].at = next.at /\ press[a].id = next.id,
           press[a] # None /\ press[a].at = "link" =>
              press[a].id \in pending' \/ rclone'[press[a].id].at # "listening"
    PROVE  GoogleInductive'
<1>1. press \in [Connectors -> Connection \cup {None}] /\ client \in Clients
    BY DEF GoogleInductive, GoogleTyped
<1>2. next \in Connection \cup {None}
    BY DEF ConnectionFits
<1>3. /\ press'[a] = next /\ \A b \in Connectors \ {a} : press'[b] = press[b]
      /\ press' \in [Connectors -> Connection \cup {None}]
    BY <1>1, <1>2 DEF Press
<1>4. \A b \in Connectors : press[b] # None => ConnectionFits(press[b])
    BY ConnectionHolds
<1>5. \A b \in Connectors : press'[b] # None => ConnectionFits(press'[b])
    BY <1>3, <1>4
<1>6. \A b \in Connectors : Connects(press'[b]) => Connects(press[b]) /\ press[b].id = press'[b].id
    BY <1>3 DEF Connects
<1> QED
    BY <1>1, <1>3, <1>5, <1>6, ReleaseKeeps

\* While no process changes, what is in the map was launched.
LEMMA MapFits ==
    ASSUME GoogleInductive, UNCHANGED rclone
    PROVE  /\ rclone' \in [Attempt -> [client : Clients, at : {"none", "listening"} \cup Over]]
           /\ ProcessesEnd
           /\ remote \in [token : Clients, client : Clients] \cup {None}
           /\ pending \subseteq Attempt /\ \A i \in pending : At(i)' # "none"
BY DEF GoogleInductive, GoogleTyped, ProcessesEnd, At

\* Connect takes the next id, which no process, attempt or other connection has.
LEMMA ConnectKeeps ==
    ASSUME GoogleInductive, NEW a \in Connectors, Connect(a)
    PROVE  GoogleInductive'
<1> DEFINE id == connects + 1
           next == [at |-> "stop", id |-> id, client |-> client, todo |-> pending \cap Listening]
<1>1. /\ connects' = id /\ press' = [press EXCEPT ![a] = next]
      /\ superseded' = pending \cap Listening
      /\ UNCHANGED <<client, rclone, pending, remote>>
    BY DEF Connect, Press
<1>2. GoogleTyped /\ connects \in Nat
    BY ConnectsFit DEF GoogleInductive, GoogleTyped
<1>3. id \in Attempt /\ id > connects
    BY <1>2, ConnectsFit DEF Connect, Attempt, GoogleTyped
<1>4. next \in Connection /\ next.at = "stop" /\ next.id = id
    <2> HIDE DEF id
    <2> QED
        BY <1>2, <1>3 DEF Connection, GoogleTyped
<1> HIDE DEF next
<1>5. /\ press'[a] = next /\ \A b \in Connectors \ {a} : press'[b] = press[b]
      /\ press' \in [Connectors -> Connection \cup {None}]
    BY <1>1, <1>2, <1>4 DEF GoogleTyped
<1>6. press[a] = None
    BY DEF Connect
<1>7. GoogleTyped'
    <2>1. id \in 0 .. MaxConnects
        BY <1>3 DEF Attempt
    <2> QED
        BY <1>1, <1>2, <1>5, <2>1 DEF GoogleTyped, At
<1>8. OneListens'
    BY <1>1 DEF GoogleInductive, OneListens, Listening, At
<1>9. PortIsKnown'
    <2>1. SUFFICES ASSUME NEW i \in Listening, i \notin pending
                   PROVE  \E b \in Connectors :
                             press'[b] # None /\ press'[b].at = "link" /\ press'[b].id = i
        BY <1>1 DEF PortIsKnown, Listening, At
    <2> QED
        BY <1>5, <1>6, <2>1 DEF GoogleInductive, PortIsKnown
<1>10. \A b \in Connectors \ {a} : press[b] # None => press[b].id \in Attempt /\ press[b].id <= connects
    BY ConnectionHolds DEF ConnectionFits
<1>11. BegunInOrder'
    <2>1. \A i \in Attempt : i \in Nat
        BY DEF Attempt
    <2>2. \A i \in Attempt : i > id => At(i) = "none"
        BY <1>2, <2>1 DEF GoogleInductive, BegunInOrder
    <2>3. ConnectionFits(press[a])'
        BY <1>1, <1>3, <1>4, <1>5 DEF GoogleInductive, BegunInOrder, ConnectionFits, At
    <2>4. ASSUME NEW b \in Connectors \ {a}, press[b] # None PROVE ConnectionFits(press[b])'
        <3>1. ConnectionFits(press[b]) /\ press[b].id \in Nat
            BY <2>1, <2>4, ConnectionHolds
        <3>2. press[b].id <= id
            BY <1>2, <3>1 DEF ConnectionFits
        <3> QED
            BY <1>1, <1>5, <3>1, <3>2 DEF ConnectionFits, At
    <2> QED
        BY <1>1, <1>5, <2>2, <2>3, <2>4 DEF BegunInOrder, At
<1>12. IdsAreOwn'
    <2>1. \A b \in Connectors \ {a} : press[b] # None => press[b].id # id
        BY <1>2, <1>3, <1>10 DEF Attempt
    <2> QED
        BY <1>4, <1>5, <2>1 DEF GoogleInductive, IdsAreOwn, Connects
<1> QED
    BY <1>7, <1>8, <1>9, <1>11, <1>12 DEF GoogleInductive

\* The one step that starts a process: it listens when nobody does.
LEMMA LaunchKeeps ==
    ASSUME GoogleInductive, NEW a \in Connectors, Launch(a)
    PROVE  GoogleInductive'
<1>0. PICK r, i : r = press[a] /\ i = r.id
    OBVIOUS
<1> DEFINE next == [r EXCEPT !.at = "link"]
           st == IF Listening = {} THEN "listening" ELSE "failed"
<1>1. /\ r # None /\ r.at = "stop" /\ press' = [press EXCEPT ![a] = next]
      /\ rclone' = [rclone EXCEPT ![i] = [client |-> r.client, at |-> st]]
      /\ UNCHANGED <<client, pending, superseded, remote, connects>>
    BY <1>0 DEF Launch, Press, Process
<1>2. ConnectionFits(r) /\ r \in Connection /\ i \in Attempt /\ r.client \in Clients /\ At(i) = "none"
    BY <1>0, <1>1, ConnectionHolds DEF ConnectionFits
<1>3. next \in Connection /\ next.at = "link" /\ next.id = i
    BY <1>0, <1>1, <1>2, NextConnections
<1>4. GoogleTyped
    BY DEF GoogleInductive
<1> HIDE DEF next
<1>5. /\ press'[a] = next /\ \A b \in Connectors \ {a} : press'[b] = press[b]
      /\ press' \in [Connectors -> Connection \cup {None}]
    BY <1>1, <1>3, <1>4 DEF GoogleTyped
<1>6. /\ rclone' \in [Attempt -> [client : Clients, at : {"none", "listening"} \cup Over]]
      /\ At(i)' = st /\ \A j \in Attempt \ {i} : At(j)' = At(j)
    <2>1. st \in {"none", "listening"} \cup Over
        BY DEF Over
    <2> HIDE DEF st
    <2>2. /\ rclone' \in [Attempt -> [client : Clients, at : {"none", "listening"} \cup Over]]
          /\ rclone'[i] = [client |-> r.client, at |-> st]
          /\ \A j \in Attempt \ {i} : rclone'[j] = rclone[j]
        BY <1>1, <1>2, <1>4, <2>1 DEF GoogleTyped
    <2>3. At(i)' = st
        BY <2>2 DEF At
    <2>4. \A j \in Attempt \ {i} : At(j)' = At(j)
        BY <2>2 DEF At
    <2> QED
        BY <2>2, <2>3, <2>4
<1>7. i \notin pending
    BY <1>2, <1>4 DEF GoogleTyped
<1>8. GoogleTyped'
    BY <1>1, <1>4, <1>5, <1>6, <1>7 DEF GoogleTyped, At
<1>9. OneListens'
    <2>1. CASE Listening = {}
        BY <1>2, <1>6, <2>1 DEF OneListens, Listening
    <2>2. CASE Listening # {}
        BY <1>2, <1>6, <2>2 DEF GoogleInductive, OneListens, Listening
    <2> QED
        BY <2>1, <2>2
<1>10. PortIsKnown'
    <2>1. SUFFICES ASSUME NEW j \in Attempt, At(j)' = "listening"
                   PROVE  j \in pending \/ \E b \in Connectors :
                             press'[b] # None /\ press'[b].at = "link" /\ press'[b].id = j
        BY <1>1 DEF PortIsKnown, Listening
    <2>2. CASE j = i
        <3>1. press'[a] # None
            BY <1>3, <1>5, NoneIsNoConnection
        <3> QED
            BY <1>3, <1>5, <2>2, <3>1
    <2>3. CASE j # i
        <3>1. j \in Listening
            BY <1>6, <2>1, <2>3 DEF Listening
        <3> QED
            BY <1>0, <1>1, <1>5, <3>1 DEF GoogleInductive, PortIsKnown
    <2> QED
        BY <2>2, <2>3
<1>11. BegunInOrder'
    <2>1. \A j \in Attempt : j > connects' => At(j)' = "none"
        BY <1>0, <1>1, <1>2, <1>4, <1>6 DEF GoogleInductive, BegunInOrder, ConnectionFits, Attempt, GoogleTyped
    <2>2. ConnectionFits(press[a])'
        <3>1. rclone'[i].at # "none"
            BY <1>6 DEF At
        <3>2. i <= connects'
            BY <1>0, <1>1, <1>2 DEF ConnectionFits
        <3>3. press'[a] \in Connection /\ press'[a].id = i /\ press'[a].at = "link"
            BY <1>3, <1>5
        <3> QED
            BY <3>1, <3>2, <3>3 DEF ConnectionFits, At
    <2>3. ASSUME NEW b \in Connectors \ {a}, press[b] # None PROVE ConnectionFits(press[b])'
        <3>1. ConnectionFits(press[b]) /\ press[b].id \in Attempt
            BY <2>3, ConnectionHolds
        <3>2. CASE press[b].id = i
            BY <1>0, <1>1, <1>2, <1>5, <2>3, <3>1, <3>2 DEF GoogleInductive, IdsAreOwn, Connects, ConnectionFits
        <3>3. CASE press[b].id # i
            BY <1>1, <1>5, <1>6, <3>1, <3>3 DEF ConnectionFits, At
        <3> QED
            BY <3>2, <3>3
    <2> QED
        BY <1>5, <2>1, <2>2, <2>3 DEF BegunInOrder
<1>12. IdsAreOwn'
    BY <1>0, <1>1, <1>3, <1>5 DEF GoogleInductive, IdsAreOwn, Connects
<1> QED
    BY <1>8, <1>9, <1>10, <1>11, <1>12 DEF GoogleInductive

LEMMA StopsKeeps ==
    ASSUME GoogleInductive, NEW a \in Connectors, Stops(a)
    PROVE  GoogleInductive'
<1>1. PICK i \in press[a].todo :
         /\ pending' = pending \ {i}
         /\ IF i \in Listening THEN Process(i, rclone[i].client, "failed") ELSE UNCHANGED rclone
         /\ Press(a, [press[a] EXCEPT !.todo = @ \ {i}])
    BY DEF Stops
<1>2. PICK next : next = [press[a] EXCEPT !.todo = @ \ {i}] /\ Press(a, next)
    BY <1>1
<1>3. press[a] # None /\ press[a].at = "stop" /\ UNCHANGED <<client, superseded, remote, connects>>
    BY DEF Stops
<1>4. ConnectionFits(press[a]) /\ press[a] \in Connection
    BY <1>3, ConnectionHolds
<1>5. next \in Connection /\ next.at = "stop" /\ next.id = press[a].id
    <2>1. PICK r, S : r = press[a] /\ S = {i}
        OBVIOUS
    <2>2. next = [r EXCEPT !.todo = @ \ S] /\ r \in Connection /\ r.at = "stop"
        BY <1>2, <1>3, <1>4, <2>1
    <2>3. next \in Connection /\ next.at = "stop" /\ next.id = r.id
        BY <2>2, NextConnections, Zenon
    <2> QED
        BY <2>1, <2>3
<1>6. ConnectionFits(next)
    BY <1>3, <1>4, <1>5 DEF ConnectionFits
<1>7. /\ remote \in [token : Clients, client : Clients] \cup {None} /\ pending \subseteq Attempt
      /\ \A j \in pending : At(j) # "none"
    BY DEF GoogleInductive, GoogleTyped
<1>8. /\ rclone' \in [Attempt -> [client : Clients, at : {"none", "listening"} \cup Over]]
      /\ ProcessesEnd /\ (i \in Attempt => At(i)' # "listening")
    <2>1. CASE i \in Listening
        BY <1>1, <2>1, ProcessEnds DEF Over
    <2>2. CASE i \notin Listening
        BY <1>1, <2>2, MapFits DEF Listening, At
    <2> QED
        BY <2>1, <2>2
<1>9. \A j \in pending' : At(j)' # "none"
    BY <1>1, <1>7, <1>8 DEF ProcessesEnd, Over
<1> QED
    BY <1>1, <1>2, <1>3, <1>5, <1>6, <1>7, <1>8, <1>9, MoveKeeps DEF Connects

LEMMA LinkKeeps ==
    ASSUME GoogleInductive, NEW a \in Connectors, Link(a)
    PROVE  GoogleInductive'
<1>1. PICK i : i = press[a].id
    OBVIOUS
<1>2. /\ press[a] # None /\ press[a].at = "link" /\ Press(a, None)
      /\ pending' = IF i \in Listening THEN pending \cup {i} ELSE pending
      /\ UNCHANGED <<client, rclone, superseded, remote, connects>>
    BY <1>1 DEF Link
<1>3. i \in Attempt
    BY <1>1, <1>2, ConnectionHolds
<1>4. \A j \in Listening : At(j)' # "none" /\ j \in Attempt
    BY <1>2 DEF Listening, At
<1>5. pending' \subseteq Attempt /\ (\A j \in pending' : At(j)' # "none") /\ pending \subseteq pending'
    BY <1>2, <1>4, MapFits
<1>6. i \in pending' \/ rclone'[i].at # "listening"
    BY <1>2, <1>3 DEF Listening, At
<1> QED
    BY <1>1, <1>2, <1>5, <1>6, MapFits, MoveKeeps DEF Connects

\* Nobody waits for the link of a process that Google called back.
LEMMA ExitsKeeps ==
    ASSUME GoogleInductive, NEW i \in Attempt, Exits(i)
    PROVE  GoogleInductive'
<1>1. PICK st \in Over : Process(i, rclone[i].client, st)
    BY DEF Exits
<1>2. i \in Listening /\ UNCHANGED <<client, pending, superseded, press, remote, connects>>
    BY DEF Exits
<1>3. GoogleTyped
    BY DEF GoogleInductive
<1>4. /\ rclone' \in [Attempt -> [client : Clients, at : {"none", "listening"} \cup Over]]
      /\ ProcessesEnd
    BY <1>1, <1>2, ProcessEnds
<1>5. \A j \in pending' : At(j)' # "none"
    BY <1>2, <1>3, <1>4 DEF ProcessesEnd, Over, GoogleTyped
<1>6. \A a \in Connectors : press[a] # None => ConnectionFits(press[a])
    BY ConnectionHolds
<1> QED
    BY <1>2, <1>3, <1>4, <1>5, <1>6, ReleaseKeeps DEF GoogleTyped

LEMMA ForgetKeeps ==
    ASSUME GoogleInductive, NEW i \in Attempt, Forget(i)
    PROVE  GoogleInductive'
<1>1. /\ i \in pending /\ At(i) \in Over /\ pending' = pending \ {i}
      /\ UNCHANGED <<client, rclone, superseded, press, remote, connects>>
    BY DEF Forget, Forgotten
<1>2. GoogleTyped
    BY DEF GoogleInductive
<1>3. At(i)' # "listening"
    BY <1>1 DEF Over, At
<1>4. \A a \in Connectors : press[a] # None => ConnectionFits(press[a])
    BY ConnectionHolds
<1> QED
    BY <1>1, <1>2, <1>3, <1>4, MapFits, ReleaseKeeps DEF GoogleTyped

\* A poll or a paste asks for an attempt there is.
LEMMA FinishKeeps ==
    ASSUME GoogleInductive, NEW a \in Connectors, Finish(a)
    PROVE  GoogleInductive'
<1>1. PICK i \in Attempt :
         /\ At(i) # "none" /\ press[a] = None
         /\ Press(a, [at |-> "finish", id |-> i, client |-> client])
         /\ UNCHANGED <<client, rclone, pending, superseded, remote, connects>>
    BY DEF Finish
<1>2. PICK next : next = [at |-> "finish", id |-> i, client |-> client] /\ Press(a, next)
    BY <1>1
<1>3. i <= connects
    BY <1>1 DEF GoogleInductive, BegunInOrder, GoogleTyped, Attempt
<1>4. next \in Connection
    BY <1>2 DEF GoogleInductive, GoogleTyped, Connection
<1>5. ConnectionFits(next)
    BY <1>1, <1>2, <1>3, <1>4 DEF ConnectionFits
<1> QED
    BY <1>1, <1>2, <1>5, MapFits, MoveKeeps DEF Connects

\* What is being finished may be written, and the connection is over.
LEMMA WriteFits ==
    ASSUME GoogleInductive, NEW a \in Connectors, press[a] # None, press[a].at = "finish"
    PROVE  ConnectionFits([press[a] EXCEPT !.at = "write"]) /\ ~Connects([press[a] EXCEPT !.at = "write"])
<1>1. PICK r, next : r = press[a] /\ next = [r EXCEPT !.at = "write"]
    OBVIOUS
<1>2. ConnectionFits(r) /\ r \in Connection /\ r.at = "finish"
    BY <1>1, ConnectionHolds
<1>3. next \in Connection /\ next.at = "write" /\ next.id = r.id
    BY <1>1, <1>2, NextConnections
<1>4. ConnectionFits(next) /\ ~Connects(next)
    BY <1>2, <1>3 DEF ConnectionFits, Connects
<1> QED
    BY <1>1, <1>4

LEMMA TakesTokenKeeps ==
    ASSUME GoogleInductive, NEW a \in Connectors, TakesToken(a)
    PROVE  GoogleInductive'
<1>1. PICK next : /\ Press(a, next)
                  /\ next \in {None, [press[a] EXCEPT !.at = "write"]}
    BY DEF TakesToken
<1>2. /\ press[a] # None /\ press[a].at = "finish"
      /\ UNCHANGED <<client, rclone, superseded, remote, connects>>
      /\ \/ UNCHANGED pending
         \/ At(press[a].id) \in Over /\ pending' = pending \ {press[a].id}
    BY DEF TakesToken
<1>3. PICK i : i = press[a].id
    OBVIOUS
<1>4. \A j \in pending \ pending' : At(j)' # "listening"
    BY <1>2, <1>3 DEF Over, At
<1>5. pending' \subseteq Attempt /\ \A j \in pending' : At(j)' # "none"
    BY <1>2, MapFits
<1>6. next # None => ConnectionFits(next) /\ ~Connects(next)
    BY <1>1, <1>2, WriteFits
<1> QED
    BY <1>1, <1>2, <1>4, <1>5, <1>6, MapFits, MoveKeeps DEF Connects

LEMMA PastesKeeps ==
    ASSUME GoogleInductive, NEW a \in Connectors, Pastes(a)
    PROVE  GoogleInductive'
<1>1. PICK i, next : /\ i = press[a].id /\ next = [press[a] EXCEPT !.at = "write"]
    OBVIOUS
<1>2. /\ press[a] # None /\ press[a].at = "finish" /\ Press(a, next)
      /\ pending' = pending \ {i}
      /\ IF i \in pending \cap Listening THEN Process(i, rclone[i].client, "failed")
         ELSE UNCHANGED rclone
      /\ UNCHANGED <<client, superseded, remote, connects>>
    BY <1>1 DEF Pastes
<1>3. ConnectionFits(next) /\ ~Connects(next)
    BY <1>1, <1>2, WriteFits
<1>4. /\ rclone' \in [Attempt -> [client : Clients, at : {"none", "listening"} \cup Over]]
      /\ ProcessesEnd /\ (i \in pending => At(i)' # "listening")
    <2>1. CASE i \in pending \cap Listening
        BY <1>2, <2>1, ProcessEnds DEF Over
    <2>2. CASE i \notin pending \cap Listening
        BY <1>2, <2>2, MapFits DEF Listening, At
    <2> QED
        BY <2>1, <2>2
<1>5. /\ remote \in [token : Clients, client : Clients] \cup {None} /\ pending' \subseteq Attempt
      /\ \A j \in pending' : At(j)' # "none"
    BY <1>2, <1>4 DEF GoogleInductive, GoogleTyped, ProcessesEnd, Over
<1> QED
    BY <1>2, <1>3, <1>4, <1>5, MoveKeeps

LEMMA WritesRemoteKeeps ==
    ASSUME GoogleInductive, NEW a \in Connectors, WritesRemote(a)
    PROVE  GoogleInductive'
<1>1. /\ press[a] # None /\ press[a].at = "write" /\ Press(a, None)
      /\ UNCHANGED <<client, rclone, pending, superseded, connects>>
      /\ \/ remote' = [token |-> rclone[press[a].id].client, client |-> press[a].client]
         \/ UNCHANGED remote
    BY DEF WritesRemote
<1>2. press[a].id \in Attempt /\ press[a].client \in Clients
    BY <1>1, ConnectionHolds
<1>3. rclone[press[a].id].client \in Clients
    BY <1>2 DEF GoogleInductive, GoogleTyped
<1>4. remote' \in [token : Clients, client : Clients] \cup {None}
    BY <1>1, <1>2, <1>3, MapFits
<1> QED
    BY <1>1, <1>4, MapFits, MoveKeeps DEF Connects

LEMMA SaveClientKeeps ==
    ASSUME GoogleInductive, SaveClient
    PROVE  GoogleInductive'
<1>1. client' \in Clients /\ UNCHANGED <<rclone, pending, superseded, press, remote, connects>>
    BY DEF SaveClient
<1>2. press \in [Connectors -> Connection \cup {None}]
    BY DEF GoogleInductive, GoogleTyped
<1>3. \A a \in Connectors : press[a] # None => ConnectionFits(press[a])
    BY ConnectionHolds
<1> QED
    BY <1>1, <1>2, <1>3, MapFits, ReleaseKeeps

\* google.go and drive_authorize.go: processes start one by one and end, attempts are in the
\* map when their link works, and a connection's id is its own, for any admins and presses.
THEOREM GoogleInvariant == GoogleSpec => []GoogleInductive
<1>1. ASSUME GoogleInductive, GoogleNext PROVE GoogleInductive'
    BY <1>1, ConnectKeeps, FinishKeeps, StopsKeeps, LaunchKeeps, LinkKeeps, TakesTokenKeeps,
       PastesKeeps, WritesRemoteKeeps, ExitsKeeps, ForgetKeeps, SaveClientKeeps
       DEF GoogleNext, Serves
<1>2. ASSUME GoogleInductive, UNCHANGED googleVars PROVE GoogleInductive'
    BY <1>2 DEF googleVars, GoogleInductive, GoogleTyped, OneListens, PortIsKnown, BegunInOrder,
                IdsAreOwn, Connects, ConnectionFits, Listening, At
<1> QED
    BY <1>1, <1>2, GoogleStarts, PTL DEF GoogleSpec

\* The types hold, and of the processes that want the port one listens at most.
THEOREM GoogleTypeHolds == GoogleSpec => []GoogleTypeOK
<1>1. GoogleInductive => GoogleTypeOK
    <2>1. SUFFICES ASSUME GoogleInductive PROVE Cardinality(Listening) <= 1
        BY DEF GoogleInductive, GoogleTyped, GoogleTypeOK
    <2>2. CASE Listening = {}
        BY <2>2, FS_EmptySet
    <2>3. ASSUME NEW i \in Listening PROVE Cardinality(Listening) <= 1
        <3>1. Listening = {i}
            BY <2>1 DEF GoogleInductive, OneListens
        <3>2. Cardinality({i}) = 1
            BY FS_Singleton
        <3> QED
            BY <3>1, <3>2
    <2> QED
        BY <2>2, <2>3
<1> QED
    BY <1>1, GoogleInvariant, PTL

\* drive_authorize.go: whichever process holds the port, its attempt is in the map, where the
\* next Connect finds and stops it, or is about to be put there: no admin is locked out of
\* Google sign-in for the fifteen minutes of a process that nobody knows.
THEOREM PortHolderIsKnown == GoogleSpec => []PortIsKnown
<1>1. GoogleInductive => PortIsKnown
    BY DEF GoogleInductive
<1> QED
    BY <1>1, GoogleInvariant, PTL

=============================================================================
