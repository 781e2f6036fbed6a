------------------------------ MODULE MCBackups ------------------------------
(* Instances of Nightly, Photos and Recovery for TLC: a behaviour runs one of *)
(* the three, as "part" says, and the others stay as they began.              *)
EXTENDS Nightly, Photos, Recovery, TLC

CONSTANTS camera, u1, u2, r1, r2

VARIABLE part

backupsVars == <<part, nightlyVars, photosVars, recoveryVars>>

BackupsInit ==
    /\ part \in {"nightly", "photos", "recovery"}
    /\ NightlyInit /\ PhotosInit /\ RecoveryInit

BackupsNext ==
    /\ UNCHANGED part
    /\ \/ part = "nightly" /\ NightlyNext /\ UNCHANGED <<photosVars, recoveryVars>>
       \/ /\ part = "photos" /\ PhotosNext /\ UNCHANGED <<nightlyVars, recoveryVars>>
          /\ chores' + mishaps' <= MaxChores    \* bound: a mishap takes a chore's place
       \/ part = "recovery" /\ RecoveryNext /\ UNCHANGED <<nightlyVars, photosVars>>

BackupsSpec == BackupsInit /\ [][BackupsNext]_backupsVars

Symmetric == Permutations({r1, r2}) \cup Permutations({u1, u2})
=============================================================================
