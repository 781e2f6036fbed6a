------------------------------ MODULE Catalogue ------------------------------
(***************************************************************************)
(* The category tree, its imports, and the units filed under it.           *)
(*                                                                         *)
(* Edits of the tree are decided against a snapshot and written row by     *)
(* row, so each holds an advisory lock from its snapshot to its commit.    *)
(* Filing a unit takes no part in that: it shares the category's row, by   *)
(* the foreign key, and a deletion takes the row for itself.               *)
(* Order among siblings is left out.                                       *)
(***************************************************************************)
EXTENDS Naturals, FiniteSets, FiniteSetsExt, Sequences, SequencesExt, Functions, Absent

CONSTANTS
    Cats, Names, Lower,  \* ids; names as typed, and each in lower case
    MaxCategoryDepth,
    CategoryFiles,       \* the files an admin may import
    FirstTrees,          \* the trees to start from
    Editors, Filers,     \* requests in flight at once
    Serials,             \* bound: the numbers of one prefix, 1 up
    RunLength,           \* how many a bulk add makes
    MaxEdits, MaxFilings \* bounds: requests made

VARIABLES
    tree,                   \* categories: each id's name and parent
    edit,                   \* each edit of the tree in flight
    unit,                   \* assets: each serial's category
    filing,                 \* each write of units in flight
    editsLeft, filingsLeft

catalogueVars == <<tree, edit, unit, filing, editsLeft, filingsLeft>>

Unit == [cat : Cats \cup {None}]
Node == [name : Names, parent : Cats \cup {None}]
TextLine == [mark : {"#", "-", ""}, n : Nat, name : Names]

ASSUME CatalogueFits ==
    IsFiniteSet(Cats) /\ None \notin Cats \cup Names \cup Unit \cup Node /\ MaxCategoryDepth \in Nat \ {0}
ASSUME FilesFit == \A f \in CategoryFiles :
    \/ f.format = "csv" /\ f.rows \in Seq(Seq(Names \cup {None}))
    \/ f.format = "text" /\ f.lines \in Seq(TextLine)

-----------------------------------------------------------------------------
(* categoryTree: what a snapshot says.                                      *)

Present(t) == {c \in Cats : t[c] # None}
Spare(t) == Cats \ Present(t)
NewId(t) == CHOOSE c \in Spare(t) : TRUE

ParentIn(t, c) ==
    LET p == t[c].parent
    IN  IF p = None \/ p = c THEN None ELSE IF t[p] = None THEN None ELSE p

\* c and its ancestors, upwards; a cycle ends the walk.
Climb(t, s) ==
    LET p == ParentIn(t, Last(s)) IN IF p = None \/ p \in Range(s) THEN s ELSE Append(s, p)
Chain(t, c) ==
    LET up[n \in 0 .. Cardinality(Cats)] == IF n = 0 THEN <<c>> ELSE Climb(t, up[n - 1])
    IN  up[Cardinality(Cats)]

DepthOf(t, c) == Len(Chain(t, c))
Height(t, c) == Max({DepthOf(t, d) - DepthOf(t, c) :
                     d \in {d \in Present(t) : c \in Range(Chain(t, d))}})
IsDescendant(t, c, ancestor) == ancestor \in Range(Tail(Chain(t, c)))

CheckMove(t, c, p) ==
    IF p = None THEN 1 + Height(t, c) <= MaxCategoryDepth
    ELSE /\ p # c /\ p \in Present(t)
         /\ ~IsDescendant(t, p, c)
         /\ DepthOf(t, p) + 1 + Height(t, c) <= MaxCategoryDepth

NameFree(t, name) == \A c \in Present(t) : t[c].name # name

Sound(t) ==
    /\ t \in [Cats -> Node \cup {None}]
    /\ \A c \in Present(t) :
         /\ DepthOf(t, c) <= MaxCategoryDepth
         /\ t[Last(Chain(t, c))].parent = None
         /\ \A d \in Present(t) \ {c} : t[d].name # t[c].name
ASSUME FirstTreesAreSound == \A t \in FirstTrees : Sound(t)

-----------------------------------------------------------------------------
(* Files.  A text file is lines [mark, n, name]: "#" with its hashes, "-"   *)
(* or "" with their indent; a CSV is rows of names, None a blank cell.      *)

Markdown(lines) == \E l \in Range(lines) : l.mark = "#"
IsCategory(lines, l) == IF l.mark = "#" THEN l.n > 1 ELSE l.mark = "-" \/ ~Markdown(lines)
LineDepth(l) == IF l.mark = "#" THEN l.n - 2
                ELSE IF l.mark = "-" THEN 2 + l.n \div 2 ELSE l.n \div 2

\* Every line is a path, one too deep under the line before; what is no category
\* repeats the path before it, which makes nothing.
TextPaths(lines) ==
    LET stack[n \in 0 .. Len(lines)] ==
          IF n = 0 THEN <<>>
          ELSE LET d == Min({LineDepth(lines[n]), Len(stack[n - 1])})
               IN  IF IsCategory(lines, lines[n])
                   THEN Append(SubSeq(stack[n - 1], 1, d), lines[n].name) ELSE stack[n - 1]
    IN  [n \in DOMAIN lines |-> stack[n]]

\* A blank cell ends the path; an empty one makes nothing.
CsvPath(row) ==
    LET blank == {i \in DOMAIN row : row[i] = None}
    IN  IF blank = {} THEN row ELSE SubSeq(row, 1, Min(blank) - 1)
CsvPaths(rows) == [i \in DOMAIN rows |-> CsvPath(rows[i])]

FilePaths == [f \in CategoryFiles |->
    IF f.format = "csv" THEN CsvPaths(f.rows) ELSE TextPaths(f.lines)]

Key(path) == [i \in DOMAIN path |-> Lower[path[i]]]
KeyOf(t, c) == LET up == Reverse(Chain(t, c)) IN Key([i \in DOMAIN up |-> t[up[i]].name])

\* Bug: only what this import made is in the map.
ExistingKeys_Empty(t) == <<>>

\* created, at first: the nodes there already, by their whole path.
ExistingKeys(t) ==
    LET key == [c \in Present(t) |-> KeyOf(t, c)]
    IN  [k \in Range(key) |-> CHOOSE c \in Present(t) : key[c] = k]

\* ensureCategoryPath, and its part for one more level of a path.
Ensure(acc, path) ==
    LET key == Key(path)
        parent == IF Len(path) = 1 THEN None ELSE acc.keys[Key(Front(path))]
    IN  IF acc.verdict # "ok" \/ key \in DOMAIN acc.keys THEN acc
        ELSE IF Len(path) > MaxCategoryDepth \/ ~NameFree(acc.tree, Last(path))
             THEN [acc EXCEPT !.verdict = "refused"]
        ELSE IF Spare(acc.tree) = {} THEN [acc EXCEPT !.verdict = "full"]
        ELSE LET id == NewId(acc.tree) IN
             [tree |-> [acc.tree EXCEPT ![id] = [name |-> Last(path), parent |-> parent]],
              keys |-> [k \in DOMAIN acc.keys \cup {key} |-> IF k = key THEN id ELSE acc.keys[k]],
              verdict |-> "ok"]
EnsurePath(acc, path) ==
    LET to[n \in 0 .. Len(path)] ==
          IF n = 0 THEN acc ELSE Ensure(to[n - 1], SubSeq(path, 1, n))
    IN  to[Len(path)]

\* ImportCategories: the tree it leaves, unless one path is refused.  "full"
\* says the model has no id left.
Import(t, f) ==
    LET paths == FilePaths[f]
        after[n \in 0 .. Len(paths)] ==
          IF n = 0 THEN [tree |-> t, keys |-> ExistingKeys(t), verdict |-> "ok"]
          ELSE EnsurePath(after[n - 1], paths[n])
    IN  after[Len(paths)]

-----------------------------------------------------------------------------
CatalogueInit ==
    /\ tree \in FirstTrees
    /\ edit = [e \in Editors |-> None]
    /\ unit = [s \in Serials |-> None]
    /\ filing = [f \in Filers |-> None]
    /\ editsLeft \in 0 .. MaxEdits /\ filingsLeft \in 0 .. MaxFilings

(* Edits of the tree.                                                       *)

\* Bug: an edit does not wait for the one before.
CategoryWriteLocked_Never == FALSE

CategoryWriteLocked == \E e \in Editors : edit[e] # None

\* beginCategoryWrite and loadCategoryTree.
Begins(e, request) ==
    /\ edit[e] = None /\ ~CategoryWriteLocked /\ editsLeft > 0
    /\ editsLeft' = editsLeft - 1
    /\ edit' = [edit EXCEPT ![e] = request]
    /\ UNCHANGED <<tree, unit, filing, filingsLeft>>

CreateCategory(e) ==
    \E p \in Present(tree) \cup {None}, n \in Names :
      /\ Spare(tree) # {}
      /\ Begins(e, [op |-> "row", id |-> NewId(tree), name |-> n, parent |-> p, is |-> None])
      /\ p # None => DepthOf(tree, p) < MaxCategoryDepth

UpdateCategory(e) ==
    \E c \in Present(tree), p \in Present(tree) \cup {None}, n \in Names :
      /\ Begins(e, [op |-> "row", id |-> c, name |-> n, parent |-> p, is |-> tree[c]])
      /\ CheckMove(tree, c, p)

\* The row is written whatever became of the rest of the snapshot; a name
\* taken, or a row or parent gone, is refused by the database.
WritesRow(e) ==
    /\ edit[e] # None /\ edit[e].op = "row"
    /\ LET r == edit[e]
           without == [tree EXCEPT ![r.id] = None]
       IN  tree' = IF /\ NameFree(without, r.name)
                      /\ r.parent = None \/ r.parent \in Present(tree)
                      /\ (r.is = None) = (tree[r.id] = None)
                   THEN [tree EXCEPT ![r.id] = [name |-> r.name, parent |-> r.parent]]
                   ELSE tree
    /\ edit' = [edit EXCEPT ![e] = None]
    /\ UNCHANGED <<unit, filing, editsLeft, filingsLeft>>

ImportCategories(e) == \E f \in CategoryFiles :
    LET done == Import(tree, f) IN
    /\ Begins(e, [op |-> "import", of |-> f])
    /\ done.verdict = "ok" /\ done.tree # tree

\* Its rows are added to what is there when they are written.
WritesImport(e) ==
    /\ edit[e] # None /\ edit[e].op = "import"
    /\ LET done == Import(tree, edit[e].of)
       IN  tree' = IF done.verdict = "ok" THEN done.tree ELSE tree
    /\ edit' = [edit EXCEPT ![e] = None]
    /\ UNCHANGED <<unit, filing, editsLeft, filingsLeft>>

Deleting(e, st) == edit[e] # None /\ edit[e].op = st

\* Bug: the row is not locked before what hangs off it is counted.
RowLocked_Never(c) == FALSE

RowLocked(c) == \E e \in Editors : Deleting(e, "delete") /\ edit[e].id = c
RowShared(c) == \E f \in Filers : filing[f] # None /\ filing[f].at = "commit" /\ filing[f].cat = c

DeleteCategory(e) == \E c \in Present(tree) : Begins(e, [op |-> "count", id |-> c])

\* for update, then the count: refused with a child or a unit under it.
CountsUnder(e) ==
    /\ Deleting(e, "count") /\ ~RowShared(edit[e].id)
    /\ LET c == edit[e].id
           under == {d \in Present(tree) : tree[d].parent = c}
                      \cup {s \in Serials : unit[s] # None /\ unit[s].cat = c}
       IN  edit' = [edit EXCEPT ![e] = IF c \in Present(tree) /\ under = {}
                                       THEN [op |-> "delete", id |-> c] ELSE None]
    /\ UNCHANGED <<tree, unit, filing, editsLeft, filingsLeft>>

\* on delete set null.
Deletes(e) ==
    /\ Deleting(e, "delete") /\ ~RowShared(edit[e].id)
    /\ LET c == edit[e].id IN
       /\ tree' = [d \in Cats |-> IF d = c \/ tree[d] = None THEN None
                                  ELSE IF tree[d].parent = c
                                       THEN [tree[d] EXCEPT !.parent = None] ELSE tree[d]]
       /\ unit' = [s \in Serials |-> IF unit[s] # None /\ unit[s].cat = c
                                     THEN [unit[s] EXCEPT !.cat = None] ELSE unit[s]]
    /\ edit' = [edit EXCEPT ![e] = None]
    /\ UNCHANGED <<filing, editsLeft, filingsLeft>>

-----------------------------------------------------------------------------
(* Filing units.                                                            *)

Taken(ss) == \E s \in ss : unit[s] # None

Files(f, request) ==
    /\ filing[f] = None /\ filingsLeft > 0
    /\ filingsLeft' = filingsLeft - 1
    /\ filing' = [filing EXCEPT ![f] = request]
    /\ UNCHANGED <<tree, edit, unit, editsLeft>>

\* ImportAssets reads the tree once; a name that means no category, or more
\* than one, fails its row.
ImportsRow(f) == \E s \in Serials, w \in Range(Lower) \cup {None} :
    LET named == {c \in Present(tree) : Lower[tree[c].name] = w} IN
    /\ w # None => Cardinality(named) = 1
    /\ Files(f, [at |-> "look", serials |-> {s}, new |-> TRUE,
                 cat |-> IF w = None THEN None ELSE CHOOSE c \in named : TRUE])

LooksForRow(f) ==
    /\ filing[f] # None /\ filing[f].at = "look"
    /\ filing' = [filing EXCEPT ![f].at = "write", ![f].new = ~Taken(filing[f].serials)]
    /\ UNCHANGED <<tree, edit, unit, editsLeft, filingsLeft>>

CreateAsset(f) == \E s \in Serials, c \in Present(tree) \cup {None} :
    Files(f, [at |-> "write", serials |-> {s}, new |-> TRUE, cat |-> c])

\* A unit edited; here it is moved, never filed nowhere, which is its admin's wish.
UpdateAsset(f) == \E s \in Serials, c \in Present(tree) :
    /\ unit[s] # None
    /\ Files(f, [at |-> "write", serials |-> {s}, new |-> FALSE, cat |-> c])

NextSerial == Max({0} \cup {s \in Serials : unit[s] # None}) + 1

\* BulkAddAssets: from the highest number on, or where the admin says.
BulkAddAssets(f) == \E first \in {NextSerial} \cup Serials, c \in Present(tree) \cup {None} :
    LET run == first .. first + RunLength - 1 IN
    /\ run \subseteq Serials /\ ~Taken(run)
    /\ Files(f, [at |-> "write", serials |-> run, new |-> TRUE,
                 cat |-> c])

\* What the database refuses: a category that is gone, a serial that is taken.
Refuses(r) == (r.cat # None /\ r.cat \notin Present(tree)) \/ (r.new /\ Taken(r.serials))

\* The statement waits for whoever locks the category or wrote its serial.
Writes(f) ==
    /\ filing[f] # None /\ filing[f].at = "write" /\ ~RowLocked(filing[f].cat)
    /\ \A g \in Filers : filing[g] # None /\ filing[g].at = "commit"
                           => filing[g].serials \cap filing[f].serials = {}
    /\ filing' = [filing EXCEPT ![f] = IF Refuses(filing[f]) THEN None
                                       ELSE [filing[f] EXCEPT !.at = "commit"]]
    /\ UNCHANGED <<tree, edit, unit, editsLeft, filingsLeft>>

Commits(f) ==
    /\ filing[f] # None /\ filing[f].at = "commit"
    /\ LET r == filing[f] IN
       unit' = [s \in Serials |->
                 IF s \notin r.serials THEN unit[s]
                 ELSE IF unit[s] = None THEN [cat |-> r.cat]
                 ELSE IF r.new \/ r.cat = None THEN unit[s]
                 ELSE [unit[s] EXCEPT !.cat = r.cat]]
    /\ filing' = [filing EXCEPT ![f] = None]
    /\ UNCHANGED <<tree, edit, editsLeft, filingsLeft>>

CatalogueNext ==
    \/ \E e \in Editors :
         \/ CreateCategory(e) \/ UpdateCategory(e) \/ WritesRow(e)
         \/ ImportCategories(e) \/ WritesImport(e)
         \/ DeleteCategory(e) \/ CountsUnder(e) \/ Deletes(e)
    \/ \E f \in Filers :
         \/ ImportsRow(f) \/ LooksForRow(f) \/ CreateAsset(f) \/ UpdateAsset(f)
         \/ BulkAddAssets(f) \/ Writes(f) \/ Commits(f)

CatalogueSpec == CatalogueInit /\ [][CatalogueNext]_catalogueVars

-----------------------------------------------------------------------------
\* The type invariant, and with it the tree's shape: no cycle, no branch deeper
\* than the browse filter can draw and no name twice, whatever edits overlap;
\* a filed unit's category is there.
TreeIsSound ==
    /\ Sound(tree)
    /\ \A s \in Serials : unit[s] # None =>
         unit[s].cat = None \/ unit[s].cat \in Present(tree)

\* No category goes while a unit is filed under it: DeleteCategory refuses,
\* though filing takes no part in the tree's lock.
FiledStaysFiled ==
    [][\A s \in Serials : unit[s] # None /\ unit[s].cat # None
         => unit'[s] # None /\ unit'[s].cat # None]_catalogueVars

\* Every edit of the tree and every filing of units happens at once and on what is there, as
\* Shelves promises, though each is decided against a snapshot or waits for its commit; no
\* category goes while a unit is filed under it, or a category under it.
Shelving == INSTANCE Shelves
EditsHappenAtOnce == Shelving!ShelvesSpec

\* A file imported and imported again makes nothing and is not refused, from
\* every tree edits can lead to: "correct the file and import again".
ImportIsIdempotent == \A f \in CategoryFiles :
    LET once == Import(tree, f) IN
    once.verdict = "ok" => /\ Import(once.tree, f).verdict = "ok"
                           /\ Import(once.tree, f).tree = once.tree

=============================================================================
