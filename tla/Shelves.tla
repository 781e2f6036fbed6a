------------------------------- MODULE Shelves -------------------------------
(***************************************************************************)
(* What the catalogue promises whoever browses it, with no snapshots,      *)
(* locks or rows: the categories are always an orderly tree, an edit       *)
(* happens at once, and no unit loses its shelf.  Catalogue.tla is the     *)
(* program's way of keeping the promise.                                   *)
(***************************************************************************)
EXTENDS Naturals, Absent

CONSTANTS Cats, Names, Serials, MaxCategoryDepth

VARIABLES
    tree,  \* each category: its name and what it is under
    unit   \* each unit there is: what it is filed under

shelvesVars == <<tree, unit>>

There(t) == {c \in Cats : t[c] # None}
Shelf == Cats \cup {None}

\* Every category has a level: 1 at the top, one more than its parent's below.
HasLevels(t) == \E level \in [There(t) -> 1 .. MaxCategoryDepth] :
    \A c \in There(t) :
        IF t[c].parent = None THEN level[c] = 1
        ELSE t[c].parent \in There(t) /\ level[c] = level[t[c].parent] + 1

Orderly(t) ==
    /\ t \in [Cats -> [name : Names, parent : Shelf] \cup {None}]
    /\ HasLevels(t)
    /\ \A c, d \in There(t) : t[c].name = t[d].name => c = d

ShelvesInit ==
    /\ Orderly(tree)
    /\ unit = [s \in Serials |-> None]

\* One category is made, renamed or moved.
Hang(c) ==
    /\ UNCHANGED unit
    /\ tree'[c] # None /\ tree' = [tree EXCEPT ![c] = tree'[c]]
    /\ Orderly(tree')

\* A file adds categories, all of them at once, and touches none there was.
Extend ==
    /\ UNCHANGED unit
    /\ There(tree) \subseteq There(tree')
    /\ \A c \in There(tree) : tree'[c] = tree[c]
    /\ Orderly(tree')

\* A category goes, that nothing is under.
Remove(c) ==
    /\ UNCHANGED unit /\ c \in There(tree)
    /\ \A d \in There(tree) : tree[d].parent # c
    /\ \A s \in Serials : unit[s] # None => unit[s].cat # c
    /\ tree' = [tree EXCEPT ![c] = None]

\* Units are filed together under one category that is there; only what is new may
\* go under none.
File(S, c) ==
    /\ UNCHANGED tree /\ c \in There(tree) \cup {None}
    /\ c = None => \A s \in S : unit[s] = None
    /\ unit' = [s \in Serials |-> IF s \in S THEN [cat |-> c] ELSE unit[s]]

ShelvesNext ==
    \/ \E c \in Cats : Hang(c) \/ Remove(c)
    \/ Extend
    \/ \E S \in SUBSET Serials, c \in Shelf : File(S, c)

ShelvesSpec == ShelvesInit /\ [][ShelvesNext]_shelvesVars
=============================================================================
