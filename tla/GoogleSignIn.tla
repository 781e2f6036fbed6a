---------------------------- MODULE GoogleSignIn ----------------------------
(***************************************************************************)
(* Signing in to Google from the admin panel: `rclone authorize` processes *)
(* that all listen on one port, the map of attempts waiting to be finished *)
(* and the remote a finished one writes.                                   *)
(***************************************************************************)
EXTENDS Naturals, FiniteSets, Absent

CONSTANTS
    Clients,        \* OAuth clients the settings may name
    Connectors,     \* requests in flight at once
    MaxConnects,    \* bound: presses of Connect
    MaxClientSaves, \* bound: changes of client
    MaxFinishes     \* bound: polls and pastes

VARIABLES
    client,      \* the client in the settings
    rclone,      \* each authorize process: its client and how far it is
    pending,     \* pendingDriveAuth.m
    superseded,  \* the attempts the latest Connect stopped
    press,       \* each admin's request
    remote,      \* the remote in rclone's file, and whose token it holds
    connects, clientSaves, finishes

googleVars == <<client, rclone, pending, superseded, press, remote, connects,
                clientSaves, finishes>>

Attempt == 1 .. MaxConnects
\* A connection under way, or one that is being finished.
Connection ==
    [at : {"stop", "link"}, id : Attempt, client : Clients, todo : SUBSET Attempt]
      \cup [at : {"finish", "write"}, id : Attempt, client : Clients]
ASSUME ConnectsFit == MaxConnects \in Nat
ASSUME NoneIsNoConnection == None \notin Connection

Process(i, c, st) == rclone' = [rclone EXCEPT ![i] = [client |-> c, at |-> st]]
At(i) == rclone[i].at
Listening == {i \in Attempt : At(i) = "listening"}
Over == {"token", "failed"}

GoogleInit ==
    /\ client \in Clients
    /\ rclone = [i \in Attempt |-> [client |-> client, at |-> "none"]]
    /\ pending = {} /\ superseded = {}
    /\ press = [a \in Connectors |-> None]
    /\ remote = None
    /\ connects = 0 /\ clientSaves = 0 /\ finishes = 0

Press(a, next) == press' = [press EXCEPT ![a] = next]

\* ConnectGoogle: what still waits is noted, to be stopped one by one.
Connect(a) ==
    /\ press[a] = None /\ connects < MaxConnects
    /\ connects' = connects + 1
    /\ superseded' = pending \cap Listening
    /\ Press(a, [at |-> "stop", id |-> connects + 1, client |-> client,
                 todo |-> pending \cap Listening])
    /\ UNCHANGED <<client, rclone, pending, remote, clientSaves, finishes>>

Stops(a) ==
    /\ press[a] # None /\ press[a].at = "stop"
    /\ \E i \in press[a].todo :
         /\ pending' = pending \ {i}
         /\ IF i \in Listening THEN Process(i, rclone[i].client, "failed")
            ELSE UNCHANGED rclone
         /\ Press(a, [press[a] EXCEPT !.todo = @ \ {i}])
    /\ UNCHANGED <<client, superseded, remote, connects, clientSaves, finishes>>

\* A process that finds the port taken exits, and prints no link.
Launch(a) ==
    /\ press[a] # None /\ press[a].at = "stop" /\ press[a].todo = {}
    /\ Process(press[a].id, press[a].client,
               IF Listening = {} THEN "listening" ELSE "failed")
    /\ Press(a, [press[a] EXCEPT !.at = "link"])
    /\ UNCHANGED <<client, pending, superseded, remote, connects, clientSaves,
                   finishes>>

\* Only an attempt with a link is remembered; the other request gives up.
Link(a) ==
    /\ press[a] # None /\ press[a].at = "link"
    /\ pending' = IF press[a].id \in Listening THEN pending \cup {press[a].id}
                  ELSE pending
    /\ Press(a, None)
    /\ UNCHANGED <<client, rclone, superseded, remote, connects, clientSaves,
                   finishes>>

\* Google calls back, or nobody signs in within fifteen minutes.
Exits(i) ==
    /\ i \in Listening /\ \A a \in Connectors :
         press[a] # None /\ press[a].at = "link" => press[a].id # i
    /\ \E st \in Over : Process(i, rclone[i].client, st)
    /\ UNCHANGED <<client, pending, superseded, press, remote, connects,
                   clientSaves, finishes>>

\* Bug: only what failed is forgotten.
Forgotten_Failed(i) == At(i) = "failed"

Forgotten(i) == At(i) \in Over

\* Ten minutes after the process exits, its attempt is forgotten.
Forget(i) ==
    /\ i \in pending /\ Forgotten(i)
    /\ pending' = pending \ {i}
    /\ UNCHANGED <<client, rclone, superseded, press, remote, connects,
                   clientSaves, finishes>>

\* FinishGoogle reads the settings, then asks for the token.
Finish(a) == \E i \in Attempt :
    /\ press[a] = None /\ At(i) # "none" /\ finishes < MaxFinishes
    /\ finishes' = finishes + 1
    /\ Press(a, [at |-> "finish", id |-> i, client |-> client])
    /\ UNCHANGED <<client, rclone, pending, superseded, remote, connects,
                   clientSaves>>

\* The token is taken with the attempt; a failed one is dropped, one that
\* waits is asked again, and one replaced or forgotten is refused.
TakesToken(a) ==
    /\ press[a] # None /\ press[a].at = "finish"
    /\ LET i == press[a].id IN
       IF i \in pending /\ i \notin superseded /\ At(i) \in Over
       THEN /\ pending' = pending \ {i}
            /\ Press(a, IF At(i) = "token" THEN [press[a] EXCEPT !.at = "write"] ELSE None)
       ELSE Press(a, None) /\ UNCHANGED pending
    /\ UNCHANGED <<client, rclone, superseded, remote, connects, clientSaves, finishes>>

\* A pasted block is a token whatever became of the attempt, which is stopped.
Pastes(a) ==
    /\ press[a] # None /\ press[a].at = "finish"
    /\ LET i == press[a].id IN
       /\ pending' = pending \ {i}
       /\ IF i \in pending \cap Listening THEN Process(i, rclone[i].client, "failed")
          ELSE UNCHANGED rclone
    /\ Press(a, [press[a] EXCEPT !.at = "write"])
    /\ UNCHANGED <<client, superseded, remote, connects, clientSaves, finishes>>

\* config create, with the client read first; when it fails the token is lost.
WritesRemote(a) ==
    /\ press[a] # None /\ press[a].at = "write"
    /\ \/ remote' = [token |-> rclone[press[a].id].client, client |-> press[a].client]
       \/ UNCHANGED remote
    /\ Press(a, None)
    /\ UNCHANGED <<client, rclone, pending, superseded, connects, clientSaves,
                   finishes>>

SaveClient == \E c \in Clients \ {client} :
    /\ clientSaves < MaxClientSaves /\ clientSaves' = clientSaves + 1
    /\ client' = c
    /\ UNCHANGED <<rclone, pending, superseded, press, remote, connects, finishes>>

Serves(a) ==
    Stops(a) \/ Launch(a) \/ Link(a) \/ TakesToken(a) \/ Pastes(a) \/ WritesRemote(a)

GoogleNext ==
    \/ \E a \in Connectors : Connect(a) \/ Finish(a) \/ Serves(a)
    \/ \E i \in Attempt : Exits(i) \/ Forget(i)
    \/ SaveClient

GoogleSpec == GoogleInit /\ [][GoogleNext]_googleVars

-----------------------------------------------------------------------------
\* The type invariant: one process listens at a time, and an attempt waiting in
\* the map is one whose link works or that has ended.
GoogleTypeOK ==
    /\ client \in Clients /\ pending \subseteq Attempt /\ superseded \subseteq Attempt
    /\ rclone \in [Attempt -> [client : Clients,
                               at : {"none", "listening"} \cup Over]]
    /\ press \in [Connectors -> Connection \cup {None}]
    /\ remote \in [token : Clients, client : Clients] \cup {None}
    /\ connects \in 0 .. MaxConnects
    /\ Cardinality(Listening) <= 1
    /\ \A i \in pending : At(i) # "none"

\* Whoever holds the port can be stopped: its attempt is in the map, where the next
\* Connect finds it, or about to be put there by the request that started it.
PortIsKnown == \A i \in Listening :
    i \in pending \/ \E a \in Connectors : press[a] # None /\ press[a].at = "link" /\ press[a].id = i

\* A process nobody came back for ends, and no token stays in memory: the time
\* limits of startDriveAuthorize, whatever was pressed meanwhile.
NothingLingers == \A i \in Attempt :
    (i \in Listening \cup pending) ~> (i \notin Listening \cup pending)

=============================================================================
