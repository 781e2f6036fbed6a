---------------------------- MODULE MCWalls --------------------------------
(* The wall, on two Drive folders with a path in common, or the sign-in that *)
(* starts it: one or the other runs, as "part" says.                         *)
EXTENDS PhotoWall, GoogleSignIn, TLC
CONSTANTS f1, f2, p, q, r, bad
VARIABLE part
MCContents == f1 :> {p, q} @@ f2 :> {q, r, bad}
MCUsable == {p, q, r}
MCEventOf == p :> "e1" @@ q :> "e1" @@ r :> "e1" @@ bad :> "e2"

WallsInit ==
    /\ part \in {"wall", "google"}
    /\ PhotoWallInit /\ GoogleInit
    /\ part = "wall" => client = CHOOSE c \in Clients : TRUE
    /\ row.size = 2 /\ row.folder # f2 /\ (part = "google" => row.folder = None)
WallsNext ==
    /\ UNCHANGED part
    /\ \/ part = "wall" /\ PhotoWallNext /\ UNCHANGED googleVars
       \/ part = "google" /\ GoogleNext /\ UNCHANGED wallVars
Vars == <<part, wallVars, googleVars>>
\* Requests in flight go on, both goroutines run and time passes; a process and
\* its attempt have time limits.  Drive fails only so often.
WallsFairness ==
    /\ \A a \in WallAdmins : WF_wallVars(part = "wall" /\ GoesOn(a))
    /\ WF_wallVars(part = "wall" /\ Lister)
    /\ WF_wallVars(part = "wall" /\ Filler)
    /\ WF_wallVars(part = "wall" /\ GateOpens)
    /\ WF_wallVars(part = "wall" /\ ManifestAges)
    /\ \A a \in Connectors : WF_googleVars(part = "google" /\ Serves(a))
    /\ \A i \in Attempt : /\ WF_googleVars(part = "google" /\ Exits(i))
                         /\ WF_googleVars(part = "google" /\ Forget(i))

WallsSpec == WallsInit /\ [][WallsNext]_Vars /\ WallsFairness
=============================================================================
