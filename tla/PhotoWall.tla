------------------------------ MODULE PhotoWall ------------------------------
(***************************************************************************)
(* The sign-in photo wall: a set of tiles in memory filled by one          *)
(* goroutine, the source that lists a Drive folder from a second one, and  *)
(* the admins' requests that switch, resize, relist and reshuffle it.      *)
(*                                                                         *)
(* Every action is one critical section of the set's lock, of the source's *)
(* lock or of the database.  The filler holds no lock while it downloads,  *)
(* nor the lister while Drive answers, and a switch is three sections: the *)
(* row, the source, the set.  Pauses between downloads are left out.       *)
(***************************************************************************)
EXTENDS Naturals, FiniteSets, Sequences, Functions, Absent

CONSTANTS
    Folders, Contents,  \* Drive folders, and the paths listed in each at first
    Usable, EventOf,    \* the paths the wall can use; the subfolder of a path
    WallSizes,          \* the sizes an admin may ask for
    WallAdmins,         \* requests in flight at once
    FetchAttempts,      \* photoFetchAttempts
    MaxWallCalls,       \* bound: requests made
    MaxWallFaults       \* bound: failed listings and downloads, changes, boots

VARIABLES
    drive,         \* the photographs in each folder
    row,           \* app_settings: the folder and size saved
    source,        \* DrivePhotoSource: folder, manifest, rebuild flag, gate
    listing,       \* the listing under way, or its file still to write
    file,          \* manifest.json
    wall,          \* PhotoWall: size, tiles in strip order, generation
    fill,          \* the fill under way
    call,          \* each admin's request
    wallCalls, wallFaults

wallVars == <<drive, row, source, listing, file, wall, fill, call, wallCalls,
              wallFaults>>

Paths == UNION Range(Contents)
EventFolders == Range(EventOf)
Folder == Folders \cup {None}
Calls == [at : {"source", "wall"}, to : Folders] \cup [at : {"size"}, to : WallSizes]
Listings == [at : {"drive"}, of : Folders, cut : BOOLEAN]
              \cup [at : {"file"}, of : Folders, paths : SUBSET Paths]

ASSUME WallFits ==
    /\ Contents \in [Folders -> SUBSET Paths]
    /\ WallSizes \subseteq Nat \ {0}
    /\ IsFiniteSet(WallAdmins)
    /\ {FetchAttempts, MaxWallCalls, MaxWallFaults} \subseteq Nat
ASSUME NoneIsNothing == None \notin Folders \cup Calls \cup Listings

FreshSource(f) ==
    [folder |-> f, manifest |-> None, loaded |-> FALSE, asked |-> FALSE,
     gate |-> FALSE, old |-> FALSE]
FreshWall(n) == [size |-> n, tiles |-> <<>>, gen |-> 0]

PhotoWallInit ==
    /\ drive = Contents
    /\ row \in [folder : Folder, size : WallSizes]
    /\ source = FreshSource(row.folder)
    /\ wall = FreshWall(row.size)
    /\ listing = None /\ file = None /\ fill = None
    /\ call = [a \in WallAdmins |-> None]
    /\ wallCalls = 0 /\ wallFaults = 0

WallFault == wallFaults < MaxWallFaults /\ wallFaults' = wallFaults + 1

-----------------------------------------------------------------------------
(* The set of tiles.                                                        *)

Keys(tiles) == {t.key : t \in Range(tiles)}
Fresh(tiles) == {i \in DOMAIN tiles : ~tiles[i].stale}

\* The tiles at some places, in the order they have.
Kept(tiles, places) ==
    LET Before(i) == {j \in places : j < i}
    IN  [n \in 1..Cardinality(places) |->
           tiles[CHOOSE i \in places : Cardinality(Before(i)) = n - 1]]

InManifest(key) == IF source.manifest = None THEN TRUE
               ELSE source.manifest = {} \/ key \in source.manifest

Pruned == Kept(wall.tiles, {i \in DOMAIN wall.tiles : InManifest(wall.tiles[i].key)})

Trimmed(tiles, n) == IF Len(tiles) > n THEN SubSeq(tiles, 1, n) ELSE tiles

\* The sets that making room for one more tile may leave.
Evicted(tiles, n) ==
    LET stale == {i \in DOMAIN tiles : tiles[i].stale}
        first == CHOOSE i \in stale : \A j \in stale : i <= j
    IN  IF stale # {} THEN {Kept(tiles, DOMAIN tiles \ {first})}
        ELSE IF Len(tiles) < n THEN {tiles}
        ELSE {Kept(tiles, DOMAIN tiles \ {i}) : i \in DOMAIN tiles}

-----------------------------------------------------------------------------
(* Requests.                                                                *)

Asks(a, request) ==
    /\ call[a] = None /\ wallCalls < MaxWallCalls
    /\ wallCalls' = wallCalls + 1
    /\ call' = [call EXCEPT ![a] = request]

\* SetPhotoWallFolder: the folder answered the probe, and the row is saved.
SavesFolder(a) == \E f \in Folders :
    /\ Asks(a, [at |-> "source", to |-> f])
    /\ row' = [row EXCEPT !.folder = f]
    /\ UNCHANGED <<drive, source, listing, file, wall, fill, wallFaults>>

\* SetFolder drops the manifest, opens the gate and cancels the listing; a
\* folder that was live already leaves the set alone.
SetFolder(a) ==
    /\ call[a] # None /\ call[a].at = "source"
    /\ IF call[a].to = source.folder
       THEN call' = [call EXCEPT ![a] = None] /\ UNCHANGED <<source, listing>>
       ELSE /\ call' = [call EXCEPT ![a].at = "wall"]
            /\ source' = [source EXCEPT !.folder = call[a].to, !.manifest = None,
                                        !.gate = FALSE]
            /\ listing' = IF listing # None /\ listing.at = "drive"
                          THEN [listing EXCEPT !.cut = TRUE] ELSE listing
    /\ UNCHANGED <<drive, row, file, wall, fill, wallCalls, wallFaults>>

Invalidate(a) ==
    /\ call[a] # None /\ call[a].at = "wall"
    /\ call' = [call EXCEPT ![a] = None]
    /\ wall' = [wall EXCEPT !.gen = @ + 1, !.tiles = <<>>]
    /\ UNCHANGED <<drive, row, source, listing, file, fill, wallCalls, wallFaults>>

SavesSize(a) == \E n \in WallSizes :
    /\ Asks(a, [at |-> "size", to |-> n])
    /\ row' = [row EXCEPT !.size = n]
    /\ UNCHANGED <<drive, source, listing, file, wall, fill, wallFaults>>

SetSize(a) ==
    /\ call[a] # None /\ call[a].at = "size"
    /\ call' = [call EXCEPT ![a] = None]
    /\ wall' = [wall EXCEPT !.size = call[a].to, !.tiles = Trimmed(@, call[a].to)]
    /\ UNCHANGED <<drive, row, source, listing, file, fill, wallCalls, wallFaults>>

\* Refused while no folder is saved; the manifest is kept.
Rebuild(a) ==
    /\ row.folder # None /\ Asks(a, None)
    /\ source' = [source EXCEPT !.asked = TRUE]
    /\ UNCHANGED <<drive, row, listing, file, wall, fill, wallFaults>>

Reshuffle(a) ==
    /\ Asks(a, None)
    /\ wall' = [wall EXCEPT !.tiles = [i \in DOMAIN @ |-> [@[i] EXCEPT !.stale = TRUE]]]
    /\ UNCHANGED <<drive, row, source, listing, file, fill, wallFaults>>

-----------------------------------------------------------------------------
(* The lister.                                                              *)

\* loadManifest: the file is kept only if it lists the live folder.
LoadManifest ==
    /\ ~source.loaded
    /\ source' = [source EXCEPT !.loaded = TRUE,
         !.manifest = IF file # None /\ file.of = source.folder /\ file.paths # {}
                      THEN file.paths ELSE @]
    /\ UNCHANGED <<drive, row, listing, file, wall, fill, call, wallCalls, wallFaults>>

\* buildDue: the rebuild flag is spent whether or not there is a folder.
BuildDue ==
    /\ source.loaded /\ listing = None
    /\ source' = [source EXCEPT !.asked = FALSE]
    /\ IF source.folder = None THEN source.asked /\ UNCHANGED listing
       ELSE /\ source.asked \/ (~source.gate /\ (source.manifest = None \/ source.old))
            /\ listing' = [at |-> "drive", of |-> source.folder, cut |-> FALSE]
    /\ UNCHANGED <<drive, row, file, wall, fill, call, wallCalls, wallFaults>>

Dropped == listing.of # source.folder

\* A listing that was cancelled may still deliver; of a replaced folder, it is
\* dropped either way.
ListingEnds ==
    /\ listing # None /\ listing.at = "drive"
    /\ LET paths == drive[listing.of] IN
       IF Dropped THEN listing' = None /\ UNCHANGED source
       ELSE /\ source' = [source EXCEPT !.manifest = paths, !.gate = FALSE, !.old = FALSE]
            /\ listing' = [at |-> "file", of |-> listing.of, paths |-> paths]
    /\ UNCHANGED <<drive, row, file, wall, fill, call, wallCalls, wallFaults>>

ListingFails ==
    /\ listing # None /\ listing.at = "drive"
    /\ IF listing.cut THEN UNCHANGED wallFaults ELSE WallFault
    /\ source' = IF Dropped THEN source ELSE [source EXCEPT !.gate = TRUE]
    /\ listing' = None
    /\ UNCHANGED <<drive, row, file, wall, fill, call, wallCalls>>

\* The file is written outside the lock: the folder may have been switched.
WritesManifest ==
    /\ listing # None /\ listing.at = "file"
    /\ file' = [of |-> listing.of, paths |-> listing.paths]
    /\ listing' = None
    /\ UNCHANGED <<drive, row, source, wall, fill, call, wallCalls, wallFaults>>

\* Five minutes after a failure; a week after a listing.
GateOpens ==
    /\ source.gate /\ source' = [source EXCEPT !.gate = FALSE]
    /\ UNCHANGED <<drive, row, listing, file, wall, fill, call, wallCalls, wallFaults>>
ManifestAges ==
    /\ source.manifest # None /\ ~source.old
    /\ source' = [source EXCEPT !.old = TRUE]
    /\ UNCHANGED <<drive, row, listing, file, wall, fill, call, wallCalls, wallFaults>>

-----------------------------------------------------------------------------
(* The filler.                                                              *)

\* One turn of Run: prune, trim and, if a tile is wanted, note the generation
\* and what the set holds.  A full set wants one when its swap is due.
FillBegins ==
    /\ fill = None
    /\ LET tiles == Trimmed(Pruned, wall.size) IN
       /\ wall' = [wall EXCEPT !.tiles = tiles]
       /\ fill' = [gen |-> wall.gen, held |-> Keys(tiles), size |-> wall.size,
                   per |-> [e \in EventFolders |->
                        Cardinality({i \in Fresh(tiles) : EventOf[tiles[i].key] = e})],
                   tried |-> {}, left |-> FetchAttempts, entry |-> None]
    /\ UNCHANGED <<drive, row, source, listing, file, call, wallCalls, wallFaults>>

FolderCap(n, events) ==
    LET even == (n + events - 1) \div events
        tenth == (n + 9) \div 10
    IN  IF even > tenth THEN even ELSE tenth

\* Bug: a folder at its cap is never picked from.
Pickable_Capped ==
    LET listed == IF source.manifest = None THEN {} ELSE source.manifest
        free == (listed \ fill.held) \ fill.tried
        cap == FolderCap(fill.size, Cardinality({EventOf[p] : p \in listed}))
    IN  {p \in free : fill.per[EventOf[p]] < cap}

\* pick: folders under their cap first, then any.
Pickable ==
    LET listed == IF source.manifest = None THEN {} ELSE source.manifest
        free == (listed \ fill.held) \ fill.tried
        cap == FolderCap(fill.size, Cardinality({EventOf[p] : p \in listed}))
        under == {p \in free : fill.per[EventOf[p]] < cap}
    IN  IF under # {} THEN under ELSE free

Picks ==
    /\ fill # None /\ fill.entry = None
    /\ IF Pickable = {} \/ fill.left = 0 THEN fill' = None
       ELSE \E p \in Pickable :
              fill' = [fill EXCEPT !.entry = [of |-> source.folder, path |-> p]]
    /\ UNCHANGED <<drive, row, source, listing, file, wall, call, wallCalls, wallFaults>>

Downloads == fill.entry.path \in drive[fill.entry.of]

\* Bug: the generation is not compared.
Files_AnyGen(key) == key \notin Keys(wall.tiles)

Files(key) == fill.gen = wall.gen /\ key \notin Keys(wall.tiles)

\* A tile of a replaced folder, or that the set came to hold, is thrown away.
Fetched ==
    /\ fill # None /\ fill.entry # None /\ Downloads /\ fill.entry.path \in Usable
    /\ LET key == fill.entry.path IN
       IF Files(key)
       THEN \E tiles \in Evicted(wall.tiles, wall.size) :
              wall' = [wall EXCEPT !.tiles = Append(tiles,
                        [key |-> key, from |-> fill.entry.of, stale |-> FALSE])]
       ELSE UNCHANGED wall
    /\ fill' = None
    /\ UNCHANGED <<drive, row, source, listing, file, call, wallCalls, wallFaults>>

\* What cannot be used is not tried again in this fill; a failed download may be.
NotFetched ==
    /\ fill # None /\ fill.entry # None
    /\ \/ ~Downloads /\ UNCHANGED wallFaults
       \/ Downloads /\ fill.entry.path \notin Usable /\ UNCHANGED wallFaults
       \/ WallFault
    /\ fill' = [fill EXCEPT !.entry = None, !.left = @ - 1,
          !.tried = IF Downloads /\ wallFaults' = wallFaults
                    THEN @ \cup {fill.entry.path} ELSE @]
    /\ UNCHANGED <<drive, row, source, listing, file, wall, call, wallCalls>>

-----------------------------------------------------------------------------
(* The world: a photograph leaves the folder; the server restarts.          *)

LeavesDrive ==
    /\ WallFault
    /\ \E f \in Folders : \E p \in drive[f] : drive' = [drive EXCEPT ![f] = @ \ {p}]
    /\ UNCHANGED <<row, source, listing, file, wall, fill, call, wallCalls>>

\* startPhotoWallLocked builds both from the row.
Restart ==
    /\ WallFault
    /\ source' = FreshSource(row.folder) /\ wall' = FreshWall(row.size)
    /\ listing' = None /\ fill' = None /\ call' = [a \in WallAdmins |-> None]
    /\ UNCHANGED <<drive, row, file, wallCalls>>

GoesOn(a) == SetFolder(a) \/ Invalidate(a) \/ SetSize(a)
Request(a) ==
    SavesFolder(a) \/ SavesSize(a) \/ Rebuild(a) \/ Reshuffle(a) \/ GoesOn(a)
Lister == LoadManifest \/ BuildDue \/ ListingEnds \/ ListingFails \/ WritesManifest
Filler == FillBegins \/ Picks \/ Fetched \/ NotFetched

PhotoWallNext ==
    \/ \E a \in WallAdmins : Request(a)
    \/ Lister \/ Filler \/ GateOpens \/ ManifestAges \/ LeavesDrive \/ Restart

PhotoWallSpec == PhotoWallInit /\ [][PhotoWallNext]_wallVars

-----------------------------------------------------------------------------
Tile == [key : Paths, from : Folders, stale : BOOLEAN]

\* The type invariant: of the set, its tiles are distinct and no more than its
\* size, whatever the order of fills, resizes and reshuffles.
PhotoWallTypeOK ==
    /\ drive \in [Folders -> SUBSET Paths]
    /\ row \in [folder : Folder, size : WallSizes]
    /\ source \in [folder : Folder, manifest : {None} \cup SUBSET Paths,
                   loaded : BOOLEAN, asked : BOOLEAN, gate : BOOLEAN, old : BOOLEAN]
    /\ wall.size \in WallSizes /\ wall.gen \in 0 .. MaxWallCalls
    /\ Range(wall.tiles) \subseteq Tile
    /\ Len(wall.tiles) <= wall.size
    /\ Cardinality(Keys(wall.tiles)) = Len(wall.tiles)
    /\ \A a \in WallAdmins : call[a] # None => call[a].at \in {"source", "wall", "size"}

\* No photograph of a replaced folder is shown once the switch has answered,
\* though a download of it began before: fillOne's generation and Invalidate.
WallShowsItsFolder ==
    (\E a \in WallAdmins : call[a] # None /\ call[a].at = "wall")
    \/ \A t \in Range(wall.tiles) : t.from = source.folder

\* Once Drive stays as it is and answers, the wall holds as many photographs
\* as it should or all there are, each still in the folder; and reshuffled, it
\* is all new when there is a photograph to spare.
WallSettles ==
    LET usable == IF source.folder = None THEN {} ELSE drive[source.folder] \cap Usable
        few == Cardinality(usable) <= wall.size
    IN  source.folder # None =>
          /\ Keys(wall.tiles) \subseteq usable
          /\ Len(wall.tiles) = IF few THEN Cardinality(usable) ELSE wall.size
          /\ few \/ Fresh(wall.tiles) = DOMAIN wall.tiles
WallFills == <>[]WallSettles

=============================================================================
