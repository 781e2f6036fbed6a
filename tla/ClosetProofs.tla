---------------------------- MODULE ClosetProofs ----------------------------
(***************************************************************************)
(* Proofs about what stands beside the custody loop: Upgrade, for any      *)
(* servers, binaries, schemas and number of copies kept, and DueDates, for *)
(* any calendars, closing times, caps and due times sent.                  *)
(***************************************************************************)
EXTENDS Upgrade, DueDates, FiniteSetTheorems, TLAPS

\* A set of numbers has a least.
LEMMA LeastIsThere ==
    ASSUME NEW S \in SUBSET Nat, S # {}
    PROVE  Min(S) \in S /\ \A y \in S : Min(S) <= y
<1> DEFINE R == OpToRel(<, Nat)
<1>1. PICK x \in S : \A y \in S : ~(<<y, x>> \in R)
    <2>1. IsWellFoundedOn(R, Nat)
        BY NatLessThanWellFounded
    <2>2. S \subseteq Nat
        OBVIOUS
    <2> HIDE DEF R
    <2> QED
        BY <2>1, <2>2, WFMin
<1>2. \A y \in S : ~(y < x)
    BY <1>1 DEF OpToRel
<1>3. \E z \in S : \A y \in S : z <= y
    BY <1>2
<1> QED
    BY <1>3 DEF Min

-----------------------------------------------------------------------------
(* Upgrade: what a start has copied by the time it migrates.                *)

Starting == [at : {"list", "data", "begin", "dump", "lock", "migrate", "serve"},
             files : Binaries, mode : DumpModes, copy : Nat,
             fresh : BOOLEAN, missed : BOOLEAN]
Dump == [begun : Nat, modified : Nat, applied : SUBSET Nat, entries : Nat, by : Servers,
         is : {"writing", "whole", "partial"}]
Owed == [version : Nat, entries : Nat, missed : BOOLEAN, copy : Nat]

UpgradeTyped ==
    /\ clock \in Nat /\ entries \in Nat /\ applied \in SUBSET Nat
    /\ server \in [Servers -> Starting \cup {Down}]
    /\ owed \in SUBSET Owed
    /\ copies \in SUBSET (0 .. clock)

\* Files are told apart by when they were begun, and a server begins one when
\* the one before is no longer written.
Ordered(files, made, now) ==
    /\ files \in SUBSET Dump
    /\ \A f \in files : f.begun \in made /\ f.begun <= f.modified /\ f.modified <= now
    /\ \A f, g \in files : f.begun = g.begun => f = g
    /\ \A f, g \in files : f.by = g.by /\ g.begun < f.begun =>
          ~Writing(g) /\ g.modified < f.begun

\* Whoever writes a file knows it.
WritersKnow == \A f \in dumps : Writing(f) =>
    server[f.by].at = "dump" /\ server[f.by].copy = f.begun

\* The copy a start makes or has made, as long as there is room for it, is from
\* before what it is about to apply, and of all there is but what it missed.
CopyOf(s, phase) == \E f \in dumps :
    /\ f.by = s /\ f.begun = server[s].copy /\ f.is = phase
    /\ f.applied \subseteq applied
    /\ f.entries = entries \/ server[s].missed
CopyUnderWay == \A s \in Servers :
    server[s].at = "dump" /\ HasRoom(server[s].copy) => CopyOf(s, "writing")
NeedsOne(st) ==
    /\ st.at \in {"lock", "migrate"} /\ st.mode = "required" /\ ~st.fresh
    /\ ~(st.files \subseteq applied)
CopyMade == \A s \in Servers :
    NeedsOne(server[s]) /\ HasRoom(server[s].copy) => CopyOf(s, "whole")

\* And it is still there when the migration has run.
CopyStays == \A m \in owed : HasRoom(m.copy) =>
    \E f \in dumps :
        /\ f.begun = m.copy /\ f.is = "whole" /\ m.version \notin f.applied
        /\ f.entries = m.entries \/ m.missed

UpgradeInductive ==
    /\ UpgradeTyped /\ Ordered(dumps, copies, clock)
    /\ WritersKnow /\ CopyUnderWay /\ CopyMade /\ CopyStays

-----------------------------------------------------------------------------
\* A file goes only when as many were begun after it, or were being written by
\* other servers when it was finished, as are kept.
LEMMA PruneKeeps ==
    ASSUME NEW files, NEW made \in SUBSET Nat, IsFiniteSet(made), NEW now \in Nat,
           Ordered(files, made, now), NEW f \in files,
           Cardinality({c \in made : c > f.begun}) + Cardinality(Servers) <= DumpKeep
    PROVE  f \in PruneDumps(files)
<1> DEFINE Later == {g \in files : ModifiedAfter(g, f)}
           Begun == {g \in Later : g.begun > f.begun}
           Beside == {g \in Later : ~(g.begun > f.begun)}
           After == {c \in made : c > f.begun}
           Others == Servers \ {f.by}
<1>1. f \in Dump /\ files \in SUBSET Dump /\ IsFiniteSet(Servers) /\ f.by \in Servers
    BY UpgradeFits DEF Ordered, Dump
<1>2. IsFiniteSet(After) /\ IsFiniteSet(Others)
    BY <1>1, FS_Subset
<1>3. IsFiniteSet(Begun) /\ Cardinality(Begun) <= Cardinality(After)
    <2> DEFINE at == [g \in Begun |-> g.begun]
    <2>1. \A g \in Begun : g.begun \in After
        BY DEF Ordered
    <2>2. \A g, h \in Begun : g.begun = h.begun => g = h
        BY DEF Ordered
    <2>3. at \in Injection(Begun, After)
        BY <2>1, <2>2 DEF Injection, IsInjective
    <2> HIDE DEF at, Begun, After
    <2> QED
        BY <2>3, <1>2, FS_Injection
<1>4. IsFiniteSet(Beside) /\ Cardinality(Beside) <= Cardinality(Others)
    <2> DEFINE whose == [g \in Beside |-> g.by]
    <2>1. \A g \in Beside : g \in files /\ g.begun <= f.begun /\ ModifiedAfter(g, f) /\ g \in Dump
        BY <1>1 DEF Dump
    <2>2. \A g \in Beside : g.by \in Others
        <3>1. SUFFICES ASSUME NEW g \in Beside, g.by = f.by PROVE FALSE
            BY <2>1 DEF Dump
        <3>2. CASE g = f
            BY <2>1, <3>2 DEF ModifiedAfter, Dump
        <3>3. CASE g # f
            <4>1. g.begun < f.begun
                BY <1>1, <2>1, <3>3 DEF Ordered, Dump
            <4>2. ~Writing(g) /\ g.modified < f.begun /\ f.begun <= f.modified
                BY <2>1, <3>1, <4>1 DEF Ordered
            <4> QED
                BY <1>1, <2>1, <4>2 DEF ModifiedAfter, Dump
        <3> QED
            BY <3>2, <3>3
    <2>3. \A g, h \in Beside : g.by = h.by /\ g.begun < h.begun => FALSE
        <3>1. SUFFICES ASSUME NEW g \in Beside, NEW h \in Beside, g.by = h.by, g.begun < h.begun
                       PROVE  FALSE
            OBVIOUS
        <3>2. ~Writing(g) /\ g.modified < h.begun /\ h.begun <= f.begun /\ f.begun <= f.modified
            BY <2>1, <3>1 DEF Ordered
        <3> QED
            BY <1>1, <2>1, <3>2 DEF ModifiedAfter, Dump
    <2>4. \A g, h \in Beside : g.by = h.by => g = h
        BY <2>1, <2>3 DEF Ordered, Dump
    <2>5. whose \in Injection(Beside, Others)
        BY <2>2, <2>4 DEF Injection, IsInjective
    <2> HIDE DEF whose, Beside, Others
    <2> QED
        BY <2>5, <1>2, FS_Injection
<1>5. /\ IsFiniteSet(Begun \cup Beside)
      /\ Cardinality(Begun \cup Beside) =
           Cardinality(Begun) + Cardinality(Beside) - Cardinality(Begun \cap Beside)
    <2> HIDE DEF Begun, Beside
    <2> QED
        BY <1>3, <1>4, FS_Union
<1>6. Begun \cup Beside = Later
    OBVIOUS
<1>7. Cardinality(Others) = Cardinality(Servers) - 1
    <2>1. \A who \in Servers : Cardinality(Servers \ {who}) = Cardinality(Servers) - 1
        <3>1. SUFFICES ASSUME NEW who \in Servers
                       PROVE  Cardinality(Servers \ {who}) = Cardinality(Servers) - 1
            OBVIOUS
        <3>2. IsFiniteSet(Servers)
            BY <1>1
        <3> QED
            BY <3>2, FS_RemoveElement
    <2> QED
        BY <1>1, <2>1
<1>8. /\ Cardinality(Begun) \in Nat /\ Cardinality(Beside) \in Nat
      /\ Cardinality(Begun \cap Beside) \in Nat
      /\ Cardinality(After) \in Nat /\ Cardinality(Servers) \in Nat
    <2>1. IsFiniteSet(Begun \cap Beside)
        <3> HIDE DEF Begun, Beside
        <3> QED
            BY <1>3, FS_Intersection
    <2> HIDE DEF Begun, Beside, After
    <2> QED
        BY <1>1, <1>2, <1>3, <1>4, <2>1, FS_CardinalityType
<1>9. Cardinality(Later) < DumpKeep
    <2>1. Cardinality(After) + Cardinality(Servers) <= DumpKeep
        OBVIOUS
    <2>2. DumpKeep \in Nat
        BY UpgradeFits
    <2> HIDE DEF Begun, Beside, After, Others, Later
    <2>3. Cardinality(Later) = Cardinality(Begun) + Cardinality(Beside)
                                 - Cardinality(Begun \cap Beside)
        BY <1>5, <1>6
    <2> QED
        BY <2>1, <2>2, <2>3, <1>3, <1>4, <1>7, <1>8
<1> QED
    BY <1>9 DEF PruneDumps

-----------------------------------------------------------------------------
LEMMA UpgradeStarts ==
    ASSUME UpgradeInit
    PROVE  UpgradeInductive
<1>1. UpgradeTyped
    BY UpgradeFits DEF UpgradeInit, UpgradeTyped
<1>2. Ordered(dumps, copies, clock)
    BY DEF UpgradeInit, Ordered
<1> QED
    BY <1>1, <1>2 DEF UpgradeInit, UpgradeInductive, WritersKnow, CopyUnderWay, CopyMade, NeedsOne,
                      CopyStays, Down

\* Who has room for a copy had it before.
LEMMA RoomBefore ==
    ASSUME NEW k \in Nat, clock' \in Nat, copies' \in SUBSET (0 .. clock'),
           copies \subseteq copies', HasRoom(k)'
    PROVE  HasRoom(k)
<1> DEFINE before == {c \in copies : c > k}
           after == {c \in copies' : c > k}
<1>1. IsFiniteSet(copies')
    <2>1. \A n \in Nat : IsFiniteSet(0 .. n)
        BY FS_Interval
    <2>2. \A S, T : IsFiniteSet(S) /\ T \subseteq S => IsFiniteSet(T)
        BY FS_Subset
    <2> QED
        BY <2>1, <2>2
<1>2. IsFiniteSet(after) /\ after \subseteq copies'
    BY <1>1, FS_Subset
<1>3. before \subseteq after
    OBVIOUS
<1>4. /\ IsFiniteSet(before) /\ Cardinality(before) <= Cardinality(after)
      /\ Cardinality(before) \in Nat /\ Cardinality(after) \in Nat
    <2> HIDE DEF before, after
    <2> QED
        BY <1>2, <1>3, FS_Subset, FS_CardinalityType
<1>5. Cardinality(Servers) \in Nat /\ DumpKeep \in Nat
    BY UpgradeFits, FS_CardinalityType
<1>6. Cardinality(after) + Cardinality(Servers) <= DumpKeep
    BY DEF HasRoom
<1>7. Cardinality(before) + Cardinality(Servers) <= DumpKeep
    <2> HIDE DEF before, after
    <2> QED
        BY <1>4, <1>5, <1>6
<1> QED
    BY <1>7 DEF HasRoom

\* What a start that writes no copy any more leaves: every file there is room for, but
\* the one it was writing.
LEMMA Remains ==
    ASSUME UpgradeInductive, NEW s \in Servers, NEW st \in Starting \cup {Down},
           server' = [server EXCEPT ![s] = st], st.at # "dump",
           UNCHANGED <<applied, entries, owed, copies>>,
           clock' \in Nat, clock <= clock', Ordered(dumps', copies, clock'),
           \A f \in dumps' : Writing(f) => f \in dumps \ WrittenBy(s),
           \A f \in dumps \ WrittenBy(s) : HasRoom(f.begun) => f \in dumps',
           NeedsOne(st) /\ HasRoom(st.copy) => CopyOf(s, "whole")'
    PROVE  UpgradeInductive'
<1>1. UpgradeTyped'
    BY DEF UpgradeInductive, UpgradeTyped
<1>2. /\ server \in [Servers -> Starting \cup {Down}] /\ server'[s] = st
      /\ \A o \in Servers \ {s} : server'[o] = server[o]
    BY DEF UpgradeInductive, UpgradeTyped
<1>3. WritersKnow'
    <2>1. SUFFICES ASSUME NEW f \in dumps', Writing(f)
                   PROVE  server'[f.by].at = "dump" /\ server'[f.by].copy = f.begun
        BY DEF WritersKnow
    <2>2. f \in dumps /\ f.by # s /\ f.by \in Servers
        BY <2>1 DEF WrittenBy, Ordered, Dump
    <2> QED
        BY <1>2, <2>1, <2>2 DEF UpgradeInductive, WritersKnow
<1>4. ASSUME NEW o \in Servers \ {s}, NEW phase, HasRoom(server[o].copy), CopyOf(o, phase)
      PROVE  CopyOf(o, phase)'
    <2>1. PICK f \in dumps : /\ f.by = o /\ f.begun = server[o].copy /\ f.is = phase
                             /\ f.applied \subseteq applied
                             /\ f.entries = entries \/ server[o].missed
        BY <1>4 DEF CopyOf
    <2>2. f \in dumps'
        BY <1>4, <2>1 DEF WrittenBy
    <2> QED
        BY <1>2, <2>1, <2>2 DEF CopyOf
<1>5. CopyUnderWay'
    <2>1. SUFFICES ASSUME NEW o \in Servers, server'[o].at = "dump", HasRoom(server[o].copy)'
                   PROVE  CopyOf(o, "writing")'
        BY DEF CopyUnderWay
    <2>2. o # s /\ HasRoom(server[o].copy) /\ server[o].at = "dump"
        BY <1>2, <2>1 DEF HasRoom
    <2> QED
        BY <1>4, <2>2 DEF UpgradeInductive, CopyUnderWay
<1>6. CopyMade'
    <2>1. SUFFICES ASSUME NEW o \in Servers, NeedsOne(server[o])', HasRoom(server[o].copy)'
                   PROVE  CopyOf(o, "whole")'
        BY DEF CopyMade
    <2>2. NeedsOne(server'[o]) /\ HasRoom(server'[o].copy)
        BY <2>1 DEF NeedsOne, HasRoom
    <2>3. CASE o = s
        BY <1>2, <2>2, <2>3
    <2>4. CASE o # s
        BY <1>2, <1>4, <2>2, <2>4 DEF UpgradeInductive, CopyMade
    <2> QED
        BY <2>3, <2>4
<1>7. CopyStays'
    <2>1. SUFFICES ASSUME NEW m \in owed, HasRoom(m.copy)'
                   PROVE  \E f \in dumps' :
                            /\ f.begun = m.copy /\ f.is = "whole" /\ m.version \notin f.applied
                            /\ f.entries = m.entries \/ m.missed
        BY DEF CopyStays
    <2>2. HasRoom(m.copy)
        BY <2>1 DEF HasRoom
    <2>3. PICK f \in dumps : /\ f.begun = m.copy /\ f.is = "whole" /\ m.version \notin f.applied
                             /\ f.entries = m.entries \/ m.missed
        BY <2>2 DEF UpgradeInductive, CopyStays
    <2>4. f \in dumps'
        BY <2>2, <2>3 DEF WrittenBy, Writing
    <2> QED
        BY <2>3, <2>4
<1> QED
    BY <1>1, <1>3, <1>5, <1>6, <1>7 DEF UpgradeInductive

\* What a server was writing and leaves is in order with what is there.
LEMMA LeavesInOrder ==
    ASSUME UpgradeInductive, NEW s \in Servers, NEW as \in {"whole", "partial"}, Ticks
    PROVE  LET files == (dumps \ WrittenBy(s)) \cup Left(WrittenBy(s), as)
           IN  /\ Ordered(files, copies, clock')
               /\ \A f \in files : Writing(f) => f \in dumps \ WrittenBy(s)
<1> DEFINE Was(f, g) == \/ f = g /\ g \notin WrittenBy(s)
                        \/ g \in WrittenBy(s) /\ f = [g EXCEPT !.is = as, !.modified = clock']
           files == (dumps \ WrittenBy(s)) \cup Left(WrittenBy(s), as)
<1>1. dumps \in SUBSET Dump /\ clock \in Nat /\ clock' = clock + 1
    BY DEF UpgradeInductive, UpgradeTyped, Ordered, Ticks
<1>2. \A f \in files : \E g \in dumps : Was(f, g)
    BY DEF Left, WrittenBy
<1>3. ASSUME NEW f \in files, NEW g \in dumps, Was(f, g)
      PROVE  /\ f \in Dump /\ f.begun = g.begun /\ f.by = g.by
             /\ f.begun <= f.modified /\ f.modified <= clock' /\ f.begun \in copies
             /\ Writing(f) => f = g
             /\ \/ f = g
                \/ Writing(g) /\ g.by = s
    <2>1. g \in Dump /\ g.begun <= g.modified /\ g.modified <= clock /\ g.begun \in copies
        BY <1>1 DEF UpgradeInductive, Ordered
    <2>2. CASE f = g
        BY <1>1, <2>1, <2>2 DEF Dump
    <2>3. CASE g \in WrittenBy(s) /\ f = [g EXCEPT !.is = as, !.modified = clock']
        <3>1. /\ f \in Dump /\ f.begun = g.begun /\ f.by = g.by /\ f.modified = clock'
              /\ f.is = as
            <4>1. as \in {"writing", "whole", "partial"}
                OBVIOUS
            <4>2. clock' \in Nat
                BY <1>1
            <4> QED
                BY <2>1, <2>3, <4>1, <4>2 DEF Dump
        <3>2. Writing(g) /\ g.by = s /\ ~Writing(f)
            BY <2>3, <3>1 DEF WrittenBy, Writing
        <3>3. g.begun <= clock'
            BY <1>1, <2>1 DEF Dump
        <3> QED
            BY <1>1, <2>1, <3>1, <3>2, <3>3
    <2> QED
        BY <1>3, <2>2, <2>3
<1>4. \A f, h \in files : f.begun = h.begun => f = h
    <2>1. SUFFICES ASSUME NEW f \in files, NEW h \in files, f.begun = h.begun PROVE f = h
        OBVIOUS
    <2>2. PICK g \in dumps : Was(f, g)
        BY <1>2
    <2>3. PICK k \in dumps : Was(h, k)
        BY <1>2
    <2>4. f.begun = g.begun /\ h.begun = k.begun
        BY <1>3, <2>2, <2>3
    <2>5. g = k
        BY <2>1, <2>4 DEF UpgradeInductive, Ordered
    <2> QED
        BY <2>2, <2>3, <2>5
<1>5. ASSUME NEW f \in files, NEW h \in files, f.by = h.by, h.begun < f.begun
      PROVE  ~Writing(h) /\ h.modified < f.begun
    <2>2. PICK g \in dumps : Was(f, g)
        BY <1>2
    <2>3. PICK k \in dumps : Was(h, k)
        BY <1>2
    <2>4. k.by = g.by /\ k.begun < g.begun
        BY <1>3, <1>5, <2>2, <2>3
    <2>5. ~Writing(k) /\ k.modified < g.begun
        BY <2>4 DEF UpgradeInductive, Ordered
    <2>6. h = k
        BY <1>3, <2>3, <2>5
    <2>7. f.begun = g.begun
        BY <1>3, <2>2
    <2> QED
        BY <2>5, <2>6, <2>7
<1>6. /\ files \in SUBSET Dump
      /\ \A f \in files : f.begun \in copies /\ f.begun <= f.modified /\ f.modified <= clock'
    <2>1. ASSUME NEW f \in files
          PROVE  f \in Dump /\ f.begun \in copies /\ f.begun <= f.modified /\ f.modified <= clock'
        <3>1. PICK g \in dumps : Was(f, g)
            BY <1>2
        <3> QED
            BY <3>1, <1>3
    <2> QED
        BY <2>1
<1>7. \A f \in files : Writing(f) => f \in dumps \ WrittenBy(s)
    <2>1. SUFFICES ASSUME NEW f \in files, Writing(f) PROVE f \in dumps \ WrittenBy(s)
        OBVIOUS
    <2>2. \A g \in WrittenBy(s) : f # [g EXCEPT !.is = as, !.modified = clock']
        BY <1>1, <2>1 DEF Writing, WrittenBy, Dump
    <2> QED
        BY <2>2 DEF Left
<1>8. Ordered(files, copies, clock')
    <2> HIDE DEF files
    <2> QED
        BY <1>4, <1>5, <1>6 DEF Ordered
<1> QED
    BY <1>7, <1>8

\* A step that touches no file and no copy.
LEMMA PhaseKeeps ==
    ASSUME UpgradeInductive, NEW s \in Servers, NEW st \in Starting \cup {Down},
           server' = [server EXCEPT ![s] = st], server[s].at # "dump", st.at # "dump",
           UNCHANGED <<applied, entries, dumps, owed, copies, clock>>,
           NeedsOne(st) => /\ NeedsOne(server[s])
                           /\ st.copy = server[s].copy /\ st.missed = server[s].missed
    PROVE  UpgradeInductive'
<1>1. /\ Ordered(dumps', copies, clock') /\ clock' \in Nat /\ clock <= clock'
      /\ server'[s] = st
    BY DEF UpgradeInductive, UpgradeTyped
<1>2. WrittenBy(s) = {}
    BY DEF UpgradeInductive, WritersKnow, WrittenBy
<1>3. NeedsOne(st) /\ HasRoom(st.copy) => CopyOf(s, "whole")'
    BY <1>1 DEF UpgradeInductive, CopyMade, CopyOf
<1> QED
    BY <1>1, <1>2, <1>3, Remains

LEMMA PhaseStep ==
    ASSUME UpgradeInductive, NEW s \in Servers,
           \/ StartsServer(s) \/ ListsPending(s) \/ LooksForData(s) \/ TakesMigrateLock(s)
           \/ FailsMigration(s) \/ BeginsServing(s)
    PROVE  UpgradeInductive'
<1>1. /\ server \in [Servers -> Starting \cup {Down}]
      /\ \A o \in Servers : server[o].at # "down" => server[o] \in Starting
      /\ server[s].at # "down" => server[s] \in Starting
      /\ Down.at = "down" /\ Down \in Starting \cup {Down}
    BY DEF UpgradeInductive, UpgradeTyped, Down
<1>2. ~NeedsOne(Down)
    BY DEF NeedsOne, Down
<1>3. CASE StartsServer(s)
    <2>1. PICK files \in Binaries, mode \in DumpModes :
             /\ server[s] = Down
             /\ server' = [server EXCEPT ![s] =
                    [at |-> "list", files |-> files, mode |-> mode, copy |-> 0,
                     fresh |-> FALSE, missed |-> FALSE]]
             /\ UNCHANGED <<applied, entries, dumps, owed, copies, clock>>
        BY <1>3 DEF StartsServer
    <2> DEFINE st == [at |-> "list", files |-> files, mode |-> mode, copy |-> 0,
                      fresh |-> FALSE, missed |-> FALSE]
    <2>2. st \in Starting /\ st.at # "dump" /\ ~NeedsOne(st) /\ server[s].at # "dump"
        BY <1>1, <2>1 DEF Starting, NeedsOne
    <2> QED
        BY <2>1, <2>2, PhaseKeeps
<1>4. CASE FailsMigration(s) \/ (Dies(s) /\ (ListsPending(s) \/ TakesMigrateLock(s)))
    <2>1. server' = [server EXCEPT ![s] = Down] /\ server[s].at # "dump"
        BY <1>4 DEF FailsMigration, ListsPending, TakesMigrateLock, Dies
    <2>2. UNCHANGED <<applied, entries, dumps, owed, copies, clock>>
        BY <1>4 DEF FailsMigration, ListsPending, TakesMigrateLock
    <2>3. Down.at # "dump"
        BY <1>1
    <2> QED
        BY <1>1, <1>2, <2>1, <2>2, <2>3, PhaseKeeps
<1>5. CASE ListsPending(s) /\ ~Dies(s)
    <2> DEFINE st == [server[s] EXCEPT !.at = IF NeedsCopy(s) THEN "data" ELSE "lock"]
    <2>1. /\ server[s].at = "list" /\ server[s] \in Starting
          /\ server' = [server EXCEPT ![s] = st]
          /\ UNCHANGED <<applied, entries, dumps, owed, copies, clock>>
        BY <1>1, <1>5 DEF ListsPending, Proceeds
    <2>2. st \in Starting /\ st.at # "dump"
        BY <2>1 DEF Starting
    <2>3. ~NeedsOne(st)
        BY <2>1 DEF Starting, NeedsOne, NeedsCopy
    <2> QED
        BY <2>1, <2>2, <2>3, PhaseKeeps
<1>6. CASE LooksForData(s)
    <2> DEFINE st == [server[s] EXCEPT !.at = IF applied = {} THEN "lock" ELSE "begin",
                                       !.fresh = (applied = {})]
    <2>1. /\ server[s].at = "data" /\ server[s] \in Starting
          /\ server' = [server EXCEPT ![s] = st]
          /\ UNCHANGED <<applied, entries, dumps, owed, copies, clock>>
        BY <1>1, <1>6 DEF LooksForData
    <2>2. st \in Starting /\ st.at # "dump" /\ ~NeedsOne(st)
        <3>1. CASE applied = {}
            <4>1. st = [server[s] EXCEPT !.at = "lock", !.fresh = TRUE]
                BY <3>1
            <4> QED
                BY <2>1, <4>1 DEF Starting, NeedsOne
        <3>2. CASE applied # {}
            <4>1. st = [server[s] EXCEPT !.at = "begin", !.fresh = FALSE]
                BY <3>2
            <4> QED
                BY <2>1, <4>1 DEF Starting, NeedsOne
        <3> QED
            BY <3>1, <3>2
    <2> HIDE DEF st
    <2> QED
        BY <2>1, <2>2, PhaseKeeps
<1>7. CASE TakesMigrateLock(s) /\ ~Dies(s)
    <2> DEFINE st == [server[s] EXCEPT !.at = "migrate"]
    <2>1. /\ server[s].at = "lock" /\ server[s] \in Starting
          /\ server' = [server EXCEPT ![s] = st]
          /\ UNCHANGED <<applied, entries, dumps, owed, copies, clock>>
        BY <1>1, <1>7 DEF TakesMigrateLock, Proceeds
    <2>2. /\ st \in Starting /\ st.at # "dump" /\ st.copy = server[s].copy
          /\ st.missed = server[s].missed /\ st.mode = server[s].mode
          /\ st.fresh = server[s].fresh /\ st.files = server[s].files
        BY <2>1 DEF Starting
    <2>3. NeedsOne(st) => NeedsOne(server[s])
        BY <2>1, <2>2 DEF NeedsOne
    <2> QED
        BY <2>1, <2>2, <2>3, PhaseKeeps
<1>8. CASE BeginsServing(s)
    <2> DEFINE st == [server[s] EXCEPT !.at = "serve"]
    <2>1. /\ server[s].at = "migrate" /\ server[s] \in Starting
          /\ server' = [server EXCEPT ![s] = st]
          /\ UNCHANGED <<applied, entries, dumps, owed, copies, clock>>
        BY <1>1, <1>8 DEF BeginsServing, Proceeds
    <2>2. st \in Starting /\ st.at # "dump" /\ ~NeedsOne(st)
        BY <2>1 DEF Starting, NeedsOne
    <2> QED
        BY <2>1, <2>2, PhaseKeeps
<1> QED
    BY <1>3, <1>4, <1>5, <1>6, <1>7, <1>8

\* A copy is begun: the newest file, and the only one its server writes.
LEMMA BeginsKeeps ==
    ASSUME UpgradeInductive, NEW s \in Servers, BeginsDump(s)
    PROVE  UpgradeInductive'
<1> DEFINE new == [begun |-> clock', modified |-> clock', applied |-> applied,
                   entries |-> entries, by |-> s, is |-> "writing"]
           st == [server[s] EXCEPT !.at = "dump", !.copy = clock']
<1>1. /\ server \in [Servers -> Starting \cup {Down}] /\ server[s].at = "begin"
      /\ clock \in Nat /\ clock' = clock + 1 /\ copies \in SUBSET (0 .. clock)
      /\ applied \in SUBSET Nat /\ entries \in Nat
      /\ copies' = copies \cup {clock'} /\ dumps' = dumps \cup {new}
      /\ server' = [server EXCEPT ![s] = st]
      /\ UNCHANGED <<applied, entries, owed>>
    BY DEF UpgradeInductive, UpgradeTyped, BeginsDump, Ticks
<1>2. server[s] \in Starting
    BY <1>1 DEF Down
<1>3. /\ st \in Starting /\ st.at = "dump" /\ st.copy = clock'
      /\ server'[s] = st /\ \A o \in Servers \ {s} : server'[o] = server[o]
      /\ clock' \in Nat /\ copies' \in SUBSET (0 .. clock')
    <2>1. clock' \in Nat /\ copies' \in SUBSET (0 .. clock')
        BY <1>1
    <2>2. st \in Starting /\ st.at = "dump" /\ st.copy = clock'
        BY <1>2, <2>1 DEF Starting
    <2>3. server'[s] = st /\ \A o \in Servers \ {s} : server'[o] = server[o]
        BY <1>1
    <2> QED
        BY <2>1, <2>2, <2>3
<1>4. /\ new \in Dump /\ new.begun = clock' /\ new.modified = clock' /\ new.by = s
      /\ new.is = "writing" /\ new.applied = applied /\ new.entries = entries
    BY <1>1, <1>3 DEF Dump
<1> HIDE DEF new, st
<1>5. UpgradeTyped'
    BY <1>1, <1>3 DEF UpgradeInductive, UpgradeTyped
<1>6. \A f \in dumps : /\ f \in Dump /\ f.begun \in copies /\ f.begun <= f.modified
                       /\ f.modified <= clock /\ f.begun < clock' /\ f.modified < clock'
                       /\ f.modified <= clock'
    BY <1>1 DEF UpgradeInductive, Ordered, Dump
<1>7. \A f \in dumps : f.by = s => ~Writing(f)
    BY <1>1 DEF UpgradeInductive, WritersKnow
<1>8. Ordered(dumps', copies', clock')
    <2>1. \A f \in dumps' : /\ f \in Dump /\ f.begun \in copies' /\ f.begun <= f.modified
                            /\ f.modified <= clock'
        BY <1>1, <1>3, <1>4, <1>6
    <2>2. \A f, g \in dumps' : f.begun = g.begun => f = g
        BY <1>1, <1>3, <1>4, <1>6 DEF UpgradeInductive, Ordered
    <2>3. ASSUME NEW f \in dumps', NEW g \in dumps', f.by = g.by, g.begun < f.begun
          PROVE  ~Writing(g) /\ g.modified < f.begun
        <3>1. CASE f \in dumps /\ g \in dumps
            BY <2>3, <3>1 DEF UpgradeInductive, Ordered
        <3>2. CASE f = new /\ g \in dumps
            BY <1>4, <1>6, <1>7, <2>3, <3>2
        <3>3. g # new
            <4>1. f.begun \in Nat /\ f.begun <= clock'
                BY <1>1, <1>3, <1>4, <1>6 DEF Dump
            <4> QED
                BY <1>3, <1>4, <2>3, <4>1
        <3> QED
            BY <1>1, <3>1, <3>2, <3>3
    <2> QED
        BY <2>1, <2>2, <2>3 DEF Ordered
<1>9. WritersKnow'
    <2>1. SUFFICES ASSUME NEW f \in dumps', Writing(f)
                   PROVE  server'[f.by].at = "dump" /\ server'[f.by].copy = f.begun
        BY DEF WritersKnow
    <2>2. CASE f = new
        BY <1>3, <1>4, <2>2
    <2>3. CASE f \in dumps
        <3>1. f.by \in Servers \ {s}
            BY <1>6, <1>7, <2>1, <2>3 DEF Dump
        <3> QED
            BY <1>3, <2>1, <2>3, <3>1 DEF UpgradeInductive, WritersKnow
    <2> QED
        BY <1>1, <2>2, <2>3
<1>10. \A k \in Nat : HasRoom(k)' => HasRoom(k)
    BY <1>1, <1>3, RoomBefore
<1>11. ASSUME NEW o \in Servers \ {s}, NEW phase, CopyOf(o, phase)
       PROVE  CopyOf(o, phase)'
    BY <1>1, <1>3, <1>11 DEF CopyOf
<1>12. CopyOf(s, "writing")'
    BY <1>1, <1>3, <1>4 DEF CopyOf
<1>13. \A o \in Servers \ {s} : server[o].at # "down" => server[o].copy \in Nat
    BY <1>1 DEF Starting, Down
<1>14. CopyUnderWay'
    <2>1. SUFFICES ASSUME NEW o \in Servers \ {s}, server'[o].at = "dump",
                          HasRoom(server[o].copy)'
                   PROVE  CopyOf(o, "writing")'
        BY <1>12 DEF CopyUnderWay
    <2>2. server[o].at = "dump" /\ HasRoom(server[o].copy)
        <3>1. server'[o] = server[o] /\ server[o].copy \in Nat
            BY <1>3, <1>13, <2>1
        <3> QED
            BY <1>10, <2>1, <3>1 DEF HasRoom
    <2> QED
        BY <1>11, <2>2 DEF UpgradeInductive, CopyUnderWay
<1>15. CopyMade'
    <2>1. SUFFICES ASSUME NEW o \in Servers, NeedsOne(server[o])', HasRoom(server[o].copy)'
                   PROVE  CopyOf(o, "whole")'
        BY DEF CopyMade
    <2>2. o # s
        BY <1>3, <2>1 DEF NeedsOne
    <2>3. NeedsOne(server[o]) /\ server'[o] = server[o] /\ server[o].copy \in Nat
        BY <1>1, <1>3, <1>13, <2>1, <2>2 DEF NeedsOne
    <2>4. HasRoom(server[o].copy)
        BY <1>10, <2>1, <2>3 DEF HasRoom
    <2> QED
        BY <1>11, <2>2, <2>3, <2>4 DEF UpgradeInductive, CopyMade
<1>16. CopyStays'
    <2>1. \A m \in owed : m.copy \in Nat
        BY DEF UpgradeInductive, UpgradeTyped, Owed
    <2> QED
        BY <1>1, <1>10, <2>1 DEF UpgradeInductive, CopyStays
<1> QED
    BY <1>5, <1>8, <1>9, <1>14, <1>15, <1>16 DEF UpgradeInductive

\* A copy is finished, and the oldest go.
LEMMA EndsKeeps ==
    ASSUME UpgradeInductive, NEW s \in Servers, EndsDump(s)
    PROVE  UpgradeInductive'
<1> DEFINE files == (dumps \ WrittenBy(s)) \cup Left(WrittenBy(s), "whole")
           st == [server[s] EXCEPT !.at = "lock"]
<1>1. /\ server[s].at = "dump" /\ Ticks /\ server' = [server EXCEPT ![s] = st]
      /\ dumps' = PruneDumps(files) /\ UNCHANGED <<applied, entries, owed, copies>>
      /\ clock \in Nat /\ clock' \in Nat /\ clock <= clock' /\ copies \in SUBSET (0 .. clock)
    BY DEF EndsDump, Proceeds, Ticks, UpgradeInductive, UpgradeTyped
<1>2. /\ server[s] \in Starting /\ st \in Starting /\ st.at # "dump"
      /\ st.copy = server[s].copy /\ st.missed = server[s].missed
      /\ server'[s] = st
    BY <1>1 DEF UpgradeInductive, UpgradeTyped, Starting, Down
<1>3. /\ Ordered(files, copies, clock')
      /\ \A f \in files : Writing(f) => f \in dumps \ WrittenBy(s)
    BY <1>1, LeavesInOrder
<1>4. IsFiniteSet(copies) /\ copies \in SUBSET Nat
    <2>1. \A n \in Nat : IsFiniteSet(0 .. n)
        BY FS_Interval
    <2>2. \A S, T : IsFiniteSet(S) /\ T \subseteq S => IsFiniteSet(T)
        BY FS_Subset
    <2> QED
        BY <1>1, <2>1, <2>2
<1>5. dumps' \subseteq files
    BY <1>1 DEF PruneDumps
<1>6. ASSUME NEW f \in files, HasRoom(f.begun)
      PROVE  f \in dumps'
    <2> HIDE DEF files
    <2>1. f \in PruneDumps(files)
        BY <1>1, <1>3, <1>4, <1>6, PruneKeeps DEF HasRoom
    <2> QED
        BY <1>1, <2>1
<1>7. Ordered(dumps', copies, clock')
    BY <1>3, <1>5 DEF Ordered
<1>8. \A f \in dumps' : Writing(f) => f \in dumps \ WrittenBy(s)
    BY <1>3, <1>5
<1>9. \A f \in dumps \ WrittenBy(s) : HasRoom(f.begun) => f \in dumps'
    BY <1>6
<1>10. NeedsOne(st) /\ HasRoom(st.copy) => CopyOf(s, "whole")'
    <2>1. SUFFICES ASSUME HasRoom(st.copy) PROVE CopyOf(s, "whole")'
        OBVIOUS
    <2>2. PICK f \in dumps : /\ f.by = s /\ f.begun = server[s].copy /\ f.is = "writing"
                             /\ f.applied \subseteq applied
                             /\ f.entries = entries \/ server[s].missed
        BY <1>1, <1>2, <2>1 DEF UpgradeInductive, CopyUnderWay, CopyOf
    <2> DEFINE done == [f EXCEPT !.is = "whole", !.modified = clock']
    <2>3. f \in Dump
        BY <2>2 DEF UpgradeInductive, Ordered
    <2>4. /\ done.by = f.by /\ done.begun = f.begun /\ done.is = "whole"
          /\ done.applied = f.applied /\ done.entries = f.entries
        BY <2>3 DEF Dump
    <2>5. done \in files
        BY <2>2 DEF WrittenBy, Writing, Left
    <2> HIDE DEF done
    <2>6. done \in dumps'
        BY <1>2, <1>6, <2>1, <2>2, <2>4, <2>5
    <2> QED
        BY <1>1, <1>2, <2>2, <2>4, <2>6 DEF CopyOf
<1> HIDE DEF st, files
<1> QED
    BY <1>1, <1>2, <1>7, <1>8, <1>9, <1>10, Remains

\* A start that fails at its copy, or is killed, leaves the copies of the others.
LEMMA StopsKeeps ==
    ASSUME UpgradeInductive, NEW s \in Servers, FailsDump(s) \/ Halts(s)
    PROVE  UpgradeInductive'
<1>1. /\ server' = [server EXCEPT ![s] = Down] /\ UNCHANGED <<applied, entries, owed, copies>>
      /\ clock \in Nat /\ Down.at = "down"
    BY DEF FailsDump, Halts, Dies, UpgradeInductive, UpgradeTyped, Down
<1>2. ~NeedsOne(Down)
    BY <1>1 DEF NeedsOne
<1>3. /\ clock' \in Nat /\ clock <= clock' /\ Ordered(dumps', copies, clock')
      /\ \A f \in dumps' : Writing(f) => f \in dumps \ WrittenBy(s)
      /\ \A f \in dumps \ WrittenBy(s) : f \in dumps'
    <2>1. CASE FailsDump(s)
        <3>1. dumps' = dumps \ WrittenBy(s) /\ clock' = clock
            BY <2>1 DEF FailsDump
        <3>2. Ordered(dumps', copies, clock')
            BY <3>1 DEF UpgradeInductive, Ordered
        <3> QED
            BY <1>1, <3>1, <3>2
    <2>2. CASE Halts(s) /\ WrittenBy(s) = {}
        <3>1. dumps' = dumps /\ clock' = clock
            BY <2>2 DEF Halts, Left
        <3> QED
            BY <1>1, <2>2, <3>1 DEF UpgradeInductive
    <2>3. CASE Halts(s) /\ WrittenBy(s) # {}
        <3> DEFINE files == (dumps \ WrittenBy(s)) \cup Left(WrittenBy(s), "partial")
        <3>1. Ticks /\ dumps' = files
            BY <2>3 DEF Halts
        <3>2. /\ Ordered(files, copies, clock')
              /\ \A f \in files : Writing(f) => f \in dumps \ WrittenBy(s)
            BY <3>1, LeavesInOrder
        <3>3. clock' \in Nat /\ clock <= clock'
            BY <1>1, <3>1 DEF Ticks
        <3> QED
            BY <3>1, <3>2, <3>3
    <2> QED
        BY <2>1, <2>2, <2>3
<1> QED
    BY <1>1, <1>2, <1>3, Remains

\* A migration runs: what it owes is there.
LEMMA AppliesKeeps ==
    ASSUME UpgradeInductive, NEW s \in Servers, AppliesMigration(s)
    PROVE  UpgradeInductive'
<1> DEFINE v == Min(server[s].files \ applied)
           m == [version |-> v, entries |-> entries,
                 missed |-> server[s].missed, copy |-> server[s].copy]
           Owes == server[s].mode = "required" /\ ~server[s].fresh
<1>1. /\ server[s].at = "migrate" /\ server[s].files \ applied # {}
      /\ applied' = applied \cup {v} /\ owed' = IF Owes THEN owed \cup {m} ELSE owed
      /\ UNCHANGED <<entries, server, dumps, copies, clock>>
    BY DEF AppliesMigration
<1>2. /\ server[s] \in Starting /\ applied \in SUBSET Nat /\ entries \in Nat
      /\ server \in [Servers -> Starting \cup {Down}]
    BY <1>1 DEF UpgradeInductive, UpgradeTyped, Down
<1>3. v \in server[s].files \ applied /\ v \in Nat
    <2>1. server[s].files \in Binaries
        BY <1>2 DEF Starting
    <2>2. server[s].files \ applied \in SUBSET Nat
        BY <2>1, UpgradeFits
    <2> QED
        BY <1>1, <2>2, LeastIsThere
<1>4. m \in Owed
    BY <1>2, <1>3 DEF Owed, Starting
<1> HIDE DEF v
<1>5. UpgradeTyped'
    BY <1>1, <1>2, <1>3, <1>4 DEF UpgradeInductive, UpgradeTyped
<1>6. Ordered(dumps', copies', clock') /\ WritersKnow'
    BY <1>1 DEF UpgradeInductive, WritersKnow, Ordered
<1>7. ASSUME NEW o \in Servers, NEW phase, CopyOf(o, phase)
      PROVE  CopyOf(o, phase)'
    BY <1>1, <1>7 DEF CopyOf
<1>8. \A k : HasRoom(k)' <=> HasRoom(k)
    BY <1>1 DEF HasRoom
<1>9. CopyUnderWay'
    BY <1>1, <1>7 DEF UpgradeInductive, CopyUnderWay, HasRoom
<1>10. CopyMade'
    <2>1. \A o \in Servers : NeedsOne(server[o])' => NeedsOne(server[o])
        BY <1>1 DEF NeedsOne
    <2> QED
        BY <1>1, <1>7, <2>1 DEF UpgradeInductive, CopyMade, HasRoom
<1>11. CopyStays'
    <2>1. SUFFICES ASSUME NEW n \in owed', HasRoom(n.copy)
                   PROVE  \E f \in dumps :
                            /\ f.begun = n.copy /\ f.is = "whole" /\ n.version \notin f.applied
                            /\ f.entries = n.entries \/ n.missed
        BY <1>1 DEF CopyStays, HasRoom
    <2>2. CASE n \in owed
        BY <2>1, <2>2 DEF UpgradeInductive, CopyStays
    <2>3. CASE Owes /\ n = m
        <3>1. NeedsOne(server[s]) /\ HasRoom(server[s].copy)
            BY <1>1, <2>1, <2>3 DEF NeedsOne
        <3>2. PICK f \in dumps : /\ f.begun = server[s].copy /\ f.is = "whole"
                                 /\ f.applied \subseteq applied
                                 /\ f.entries = entries \/ server[s].missed
            BY <3>1 DEF UpgradeInductive, CopyMade, CopyOf
        <3> QED
            BY <1>3, <2>3, <3>2
    <2> QED
        BY <1>1, <2>2, <2>3
<1> QED
    BY <1>5, <1>6, <1>9, <1>10, <1>11 DEF UpgradeInductive

\* Something is entered: who has begun a copy has missed it.
LEMMA EntersKeeps ==
    ASSUME UpgradeInductive, NEW s \in Servers, DataIsEntered(s)
    PROVE  UpgradeInductive'
<1> DEFINE Passed(o) == server[o].at \in {"dump", "lock", "migrate"}
<1>1. /\ entries' = entries + 1 /\ entries \in Nat
      /\ server' = [o \in Servers |-> IF Passed(o) THEN [server[o] EXCEPT !.missed = TRUE]
                                      ELSE server[o]]
      /\ UNCHANGED <<applied, dumps, owed, copies, clock>>
      /\ server \in [Servers -> Starting \cup {Down}]
    BY DEF DataIsEntered, UpgradeInductive, UpgradeTyped
<1>2. \A o \in Servers : Passed(o) => server[o] \in Starting
    BY <1>1 DEF Down
<1>3. ASSUME NEW o \in Servers, Passed(o)
      PROVE  /\ server'[o] \in Starting /\ server'[o].at = server[o].at
             /\ server'[o].copy = server[o].copy /\ server'[o].missed
             /\ server'[o].mode = server[o].mode /\ server'[o].fresh = server[o].fresh
             /\ server'[o].files = server[o].files
    <2>1. server'[o] = [server[o] EXCEPT !.missed = TRUE]
        BY <1>1, <1>3
    <2> QED
        BY <1>2, <1>3, <2>1 DEF Starting
<1>4. \A o \in Servers : ~Passed(o) => server'[o] = server[o]
    BY <1>1
<1> HIDE DEF Passed
<1>5. UpgradeTyped'
    <2>1. server' \in [Servers -> Starting \cup {Down}]
        BY <1>1, <1>3, <1>4
    <2> QED
        BY <1>1, <2>1 DEF UpgradeInductive, UpgradeTyped
<1>6. Ordered(dumps', copies', clock')
    BY <1>1 DEF UpgradeInductive
<1>7. WritersKnow'
    <2>1. SUFFICES ASSUME NEW f \in dumps, Writing(f)
                   PROVE  server'[f.by].at = "dump" /\ server'[f.by].copy = f.begun
        BY <1>1 DEF WritersKnow
    <2>2. f.by \in Servers /\ server[f.by].at = "dump" /\ server[f.by].copy = f.begun
        BY <2>1 DEF UpgradeInductive, WritersKnow, Ordered, Dump
    <2> QED
        BY <1>3, <2>2 DEF Passed
<1>8. ASSUME NEW o \in Servers, NEW phase, Passed(o), CopyOf(o, phase)
      PROVE  CopyOf(o, phase)'
    BY <1>1, <1>3, <1>8 DEF CopyOf
<1>9. CopyUnderWay'
    <2>1. SUFFICES ASSUME NEW o \in Servers, server'[o].at = "dump", HasRoom(server[o].copy)'
                   PROVE  CopyOf(o, "writing")'
        BY DEF CopyUnderWay
    <2>2. Passed(o)
        BY <1>4, <2>1 DEF Passed
    <2>3. server[o].at = "dump" /\ HasRoom(server[o].copy)
        BY <1>1, <1>3, <2>1, <2>2 DEF HasRoom
    <2> QED
        BY <1>8, <2>2, <2>3 DEF UpgradeInductive, CopyUnderWay
<1>10. CopyMade'
    <2>1. SUFFICES ASSUME NEW o \in Servers, NeedsOne(server[o])', HasRoom(server[o].copy)'
                   PROVE  CopyOf(o, "whole")'
        BY DEF CopyMade
    <2>2. Passed(o)
        BY <1>4, <2>1 DEF Passed, NeedsOne
    <2>3. NeedsOne(server[o]) /\ HasRoom(server[o].copy)
        BY <1>1, <1>3, <2>1, <2>2 DEF HasRoom, NeedsOne
    <2> QED
        BY <1>8, <2>2, <2>3 DEF UpgradeInductive, CopyMade
<1>11. CopyStays'
    BY <1>1 DEF UpgradeInductive, CopyStays, HasRoom
<1> QED
    BY <1>5, <1>6, <1>7, <1>9, <1>10, <1>11 DEF UpgradeInductive

\* What starts have copied, and what that is a copy of, in every reachable state.
THEOREM UpgradeInvariant == UpgradeSpec => []UpgradeInductive
<1>1. UpgradeInductive /\ [UpgradeNext]_upgradeVars => UpgradeInductive'
    <2>1. ASSUME UpgradeInductive, UpgradeNext PROVE UpgradeInductive'
        BY <2>1, PhaseStep, BeginsKeeps, EndsKeeps, StopsKeeps, AppliesKeeps, EntersKeeps
           DEF UpgradeNext
    <2>2. ASSUME UpgradeInductive, UNCHANGED upgradeVars PROVE UpgradeInductive'
        BY <2>2 DEF upgradeVars, UpgradeInductive, UpgradeTyped, WritersKnow, CopyUnderWay,
                    CopyMade, CopyStays, NeedsOne, HasRoom, CopyOf
    <2> QED
        BY <2>1, <2>2
<1> QED
    BY <1>1, UpgradeStarts, PTL DEF UpgradeSpec

\* premigrate.go: however starts overlap, fail or are killed, a migration that ran has a
\* whole copy from before it, until later copies leave no room for it; for any binaries, any
\* servers and any number of copies kept.
THEOREM UpgradesCanBeUndone == UpgradeSpec => []UpgradeCanBeUndone
<1>1. UpgradeInductive => UpgradeCanBeUndone
    BY DEF UpgradeInductive, CopyStays, UpgradeCanBeUndone
<1> QED
    BY <1>1, UpgradeInvariant, PTL

-----------------------------------------------------------------------------
(* Due dates.                                                               *)

\* A time is on the date whose hours it is among.
LEMMA DateHolds ==
    ASSUME NEW t \in Nat
    PROVE  DateOf(t) \in Nat /\ DateOf(t) * DayHours <= t /\ t < DateOf(t) * DayHours + DayHours
<1>1. DayHours \in Nat /\ DayHours > 0
    BY DueFits
<1> QED
    BY <1>1 DEF DateOf

LEMMA Times ==
    ASSUME NEW c \in Nat, NEW d \in Nat, c < d
    PROVE  c * DayHours \in Nat /\ d * DayHours \in Nat /\ c * DayHours + DayHours <= d * DayHours
<1>1. DayHours \in Nat /\ DayHours > 0
    BY DueFits
<1>2. PICK k \in Nat : d = c + 1 + k
    <2>1. d - c - 1 \in Nat
        OBVIOUS
    <2> QED
        BY <2>1
<1>3. (c + 1 + k) * DayHours = c * DayHours + DayHours + k * DayHours
    BY <1>1
<1>4. c * DayHours \in Nat /\ k * DayHours \in Nat /\ d * DayHours \in Nat
    BY <1>1
<1> QED
    BY <1>1, <1>2, <1>3, <1>4

AllRules == Rules \cup {DefaultRules}

LEMMA RulesFit ==
    ASSUME NEW r \in AllRules
    PROVE  r.at \in 0..DayHours - 1 /\ r.at \in Nat /\ r.maxDays \in Nat
<1>1. r.at \in Closings \cup {DefaultClosing} /\ r.maxDays \in Caps \cup {DefaultCap}
    BY DEF AllRules, Rules, DefaultRules
<1> QED
    BY <1>1, DueFits

\* A closing time is on its date, and a later date closes later.
LEMMA ClosingIsOnItsDate ==
    ASSUME NEW r \in AllRules, NEW d \in Nat
    PROVE  ClosingOn(r, d) \in Nat /\ DateOf(ClosingOn(r, d)) = d
<1> DEFINE t == ClosingOn(r, d)
<1>1. DayHours \in Nat /\ DayHours > 0 /\ r.at \in Nat /\ r.at < DayHours
    BY DueFits, RulesFit
<1>2. d * DayHours \in Nat
    BY <1>1
<1>3. t \in Nat /\ t = d * DayHours + r.at
    BY <1>1, <1>2 DEF ClosingOn
<1> HIDE DEF t
<1>4. DateOf(t) \in Nat /\ DateOf(t) * DayHours <= t /\ t < DateOf(t) * DayHours + DayHours
    BY <1>3, DateHolds
<1>5. DateOf(t) * DayHours \in Nat
    BY <1>1, <1>4
<1>6. ~(DateOf(t) < d)
    <2>1. SUFFICES ASSUME DateOf(t) < d PROVE FALSE
        OBVIOUS
    <2>2. DateOf(t) * DayHours + DayHours <= d * DayHours
        BY <1>4, <2>1, Times
    <2> QED
        BY <1>1, <1>2, <1>3, <1>4, <1>5, <2>2
<1>7. ~(d < DateOf(t))
    <2>1. SUFFICES ASSUME d < DateOf(t) PROVE FALSE
        OBVIOUS
    <2>2. d * DayHours + DayHours <= DateOf(t) * DayHours
        BY <1>4, <2>1, Times
    <2> QED
        BY <1>1, <1>2, <1>3, <1>4, <1>5, <2>2
<1> QED
    BY <1>3, <1>4, <1>6, <1>7 DEF t

LEMMA LaterClosesLater ==
    ASSUME NEW r \in AllRules, NEW c \in Nat, NEW d \in Nat, c <= d
    PROVE  ClosingOn(r, c) <= ClosingOn(r, d)
<1>1. DayHours \in Nat /\ DayHours > 0 /\ r.at \in Nat
    BY DueFits, RulesFit
<1>2. CASE c = d
    <2>1. ClosingOn(r, d) \in Nat
        BY ClosingIsOnItsDate
    <2> QED
        BY <1>2, <2>1
<1>3. CASE c < d
    <2>1. /\ c * DayHours \in Nat /\ d * DayHours \in Nat
          /\ c * DayHours + DayHours <= d * DayHours
        BY <1>3, Times
    <2> QED
        BY <1>1, <2>1 DEF ClosingOn
<1> QED
    BY <1>2, <1>3

\* Time passes and the date does not go back.
LEMMA DatesGoOn ==
    ASSUME NEW t \in Nat, NEW u \in Nat, t <= u
    PROVE  DateOf(t) \in Nat /\ DateOf(u) \in Nat /\ DateOf(t) <= DateOf(u)
<1>1. /\ DateOf(t) \in Nat /\ DateOf(t) * DayHours <= t
      /\ DateOf(u) \in Nat /\ u < DateOf(u) * DayHours + DayHours
    BY DateHolds
<1>2. SUFFICES ASSUME DateOf(u) < DateOf(t) PROVE FALSE
    BY <1>1
<1>3. /\ DateOf(u) * DayHours \in Nat /\ DateOf(t) * DayHours \in Nat
      /\ DateOf(u) * DayHours + DayHours <= DateOf(t) * DayHours
    BY <1>1, <1>2, Times
<1> QED
    BY <1>1, <1>3, DueFits

\* The first school day after a date, if the code looks far enough.
LEMMA FirstSchoolDay ==
    ASSUME NEW r \in AllRules, NEW date \in Nat,
           \E n \in 1..MaxClosedRun + 1 : SchoolDay(r, date + n)
    PROVE  \E d \in Nat : /\ NextSchoolDayAt(r, date) = ClosingOn(r, d)
                          /\ d > date /\ SchoolDay(r, d)
                          /\ \A e \in Nat : e > date /\ SchoolDay(r, e) => d <= e
<1> DEFINE open == {n \in 0..MaxClosedRun : SchoolDay(r, date + 1 + n)}
           all == open \cup {MaxClosedRun}
<1>1. MaxClosedRun \in Nat
    BY DueFits
<1>2. PICK k \in open : TRUE
    <2>1. PICK n \in 1..MaxClosedRun + 1 : SchoolDay(r, date + n)
        OBVIOUS
    <2>2. n - 1 \in 0..MaxClosedRun /\ date + 1 + (n - 1) = date + n
        BY <1>1, <2>1
    <2> QED
        BY <2>1, <2>2
<1>3. all \in SUBSET Nat /\ all # {}
    BY <1>1
<1> DEFINE least == Min(all)
<1>4. least \in all /\ \A y \in all : least <= y
    <2> HIDE DEF all
    <2> QED
        BY <1>3, LeastIsThere
<1>5. least \in open
    <2>1. k \in all /\ k <= MaxClosedRun /\ k \in Nat
        BY <1>1, <1>2
    <2>2. CASE least = MaxClosedRun
        <3>1. MaxClosedRun <= k
            BY <1>4, <2>1, <2>2
        <3> QED
            BY <1>1, <1>2, <2>1, <2>2, <3>1
    <2> QED
        BY <1>4, <2>2
<1>6. least \in Nat /\ least <= MaxClosedRun /\ SchoolDay(r, date + 1 + least)
    BY <1>1, <1>5
<1>7. NextSchoolDayAt(r, date) = ClosingOn(r, date + 1 + least)
    BY DEF NextSchoolDayAt
<1> HIDE DEF least
<1>8. ASSUME NEW e \in Nat, e > date, SchoolDay(r, e)
      PROVE  date + 1 + least <= e
    <2>1. SUFFICES ASSUME e < date + 1 + least PROVE FALSE
        BY <1>6
    <2>2. e - date - 1 \in 0..MaxClosedRun /\ date + 1 + (e - date - 1) = e
        BY <1>1, <1>6, <1>8, <2>1
    <2>3. e - date - 1 \in all
        BY <1>8, <2>2
    <2> HIDE DEF all
    <2> QED
        BY <1>4, <1>6, <1>8, <2>1, <2>3
<1>9. date + 1 + least \in Nat /\ date + 1 + least > date
    BY <1>6
<1> QED
    BY <1>6, <1>7, <1>8, <1>9

\* A due time as the picker computes it by some rules, for a last day it offers.
FromPicker(sent, r, t) ==
    \E lastDay \in Nat : sent = NextSchoolDayAt(r, lastDay) /\ lastDay <= DateOf(t) + r.maxDays

DueInductive ==
    /\ hour \in Nat /\ rules \in AllRules /\ page \in AllRules
    /\ \A p \in picked : /\ p.by \in AllRules /\ p.sent \in Nat
                         /\ FromPicker(p.sent, p.by, hour)
    /\ \A a \in answer : /\ a.rules \in AllRules /\ a.sent \in Nat /\ a.now \in Nat
                         /\ a.due = CheckDueAt(a.rules, a.sent, a.now)
                         /\ \A r \in a.by : FromPicker(a.sent, r, a.now)

\* What the code computes is a time, also when it finds no school day.
LEMMA NextIsATime ==
    ASSUME NEW r \in AllRules, NEW date \in Nat
    PROVE  NextSchoolDayAt(r, date) \in Nat
<1> DEFINE open == {n \in 0..MaxClosedRun : SchoolDay(r, date + 1 + n)}
           all == open \cup {MaxClosedRun}
           least == Min(all)
<1>1. all \in SUBSET Nat /\ all # {}
    BY DueFits
<1>2. least \in Nat
    <2> HIDE DEF all
    <2> QED
        BY <1>1, LeastIsThere
<1>3. NextSchoolDayAt(r, date) = ClosingOn(r, date + 1 + least)
    BY DEF NextSchoolDayAt
<1> HIDE DEF least
<1> QED
    BY <1>2, <1>3, ClosingIsOnItsDate

LEMMA DueStarts ==
    ASSUME DueInit
    PROVE  DueInductive
BY DEF DueInit, DueInductive, AllRules

LEMMA AnswersKeeps ==
    ASSUME DueInductive, NEW sent \in Nat, NEW by, Answers(sent, by),
           \A r \in by : FromPicker(sent, r, hour)
    PROVE  DueInductive'
<1>1. PICK r \in {rules, DefaultRules} :
         answer' = {[sent |-> sent, by |-> by, rules |-> r, now |-> hour,
                     due |-> CheckDueAt(r, sent, hour)]}
    BY DEF Answers
<1>2. r \in AllRules /\ picked' = {} /\ UNCHANGED <<hour, rules, page>>
    BY DEF Answers, DueInductive, AllRules
<1> QED
    BY <1>1, <1>2 DEF DueInductive

LEMMA DueStep ==
    ASSUME DueInductive, DueNext
    PROVE  DueInductive'
<1>1. CASE LoadsPage
    BY <1>1 DEF LoadsPage, DueInductive, AllRules
<1>2. ASSUME NEW lastDay, PicksLastDay(lastDay)
      PROVE  DueInductive'
    <2>1. /\ DateOf(hour) \in Nat /\ page \in AllRules /\ page.maxDays \in Nat /\ hour' = hour
          /\ lastDay \in DateOf(hour)..DateOf(hour) + page.maxDays
          /\ picked' = {[sent |-> NextSchoolDayAt(page, lastDay), by |-> page]}
          /\ answer' = {} /\ UNCHANGED <<rules, page>>
        BY <1>2, DatesGoOn, RulesFit DEF PicksLastDay, DueInductive
    <2>2. lastDay \in Nat /\ lastDay <= DateOf(hour) + page.maxDays
        BY <2>1
    <2>3. NextSchoolDayAt(page, lastDay) \in Nat
        BY <2>1, <2>2, NextIsATime
    <2>4. FromPicker(NextSchoolDayAt(page, lastDay), page, hour)
        BY <2>2 DEF FromPicker
    <2> QED
        BY <2>1, <2>3, <2>4 DEF DueInductive
<1>3. CASE SendsPick
    <2>1. PICK p \in picked : Answers(p.sent, {p.by})
        BY <1>3 DEF SendsPick
    <2>2. p.sent \in Nat /\ \A r \in {p.by} : FromPicker(p.sent, r, hour)
        BY DEF DueInductive
    <2> QED
        BY <2>1, <2>2, AnswersKeeps
<1>4. CASE SendsOther
    <2>1. PICK t \in OtherTimes : Answers(t, {})
        BY <1>4 DEF SendsOther
    <2>2. t \in Nat /\ \A r \in {} : FromPicker(t, r, hour)
        BY DueFits
    <2> QED
        BY <2>1, <2>2, AnswersKeeps
<1>5. CASE HourPasses
    <2>1. /\ hour \in Nat /\ hour' = hour + 1 /\ answer' = {} /\ UNCHANGED <<rules, page, picked>>
        BY <1>5 DEF HourPasses, DueInductive
    <2>2. DateOf(hour) \in Nat /\ DateOf(hour') \in Nat /\ DateOf(hour) <= DateOf(hour')
        <3>1. hour' \in Nat /\ hour <= hour'
            BY <2>1
        <3> QED
            BY <2>1, <3>1, DatesGoOn
    <2>3. ASSUME NEW p \in picked
          PROVE  FromPicker(p.sent, p.by, hour')
        <3>1. p.by \in AllRules /\ p.by.maxDays \in Nat
            BY RulesFit DEF DueInductive
        <3>2. PICK lastDay \in Nat : /\ p.sent = NextSchoolDayAt(p.by, lastDay)
                                     /\ lastDay <= DateOf(hour) + p.by.maxDays
            BY DEF DueInductive, FromPicker
        <3>3. lastDay <= DateOf(hour') + p.by.maxDays
            BY <2>2, <3>1, <3>2
        <3> QED
            BY <3>2, <3>3 DEF FromPicker
    <2>4. hour' \in Nat
        BY <2>1
    <2> QED
        BY <2>1, <2>3, <2>4 DEF DueInductive
<1>6. ASSUME NEW r \in Rules, SavesRules(r)
      PROVE  DueInductive'
    BY <1>6 DEF SavesRules, DueInductive, AllRules
<1> QED
    BY <1>1, <1>2, <1>3, <1>4, <1>5, <1>6 DEF DueNext

\* Times and rules are such, and what the page sends is what its rules give for a last
\* day that it offered.
THEOREM DueInvariant == DueSpec => []DueInductive
<1>1. DueInductive /\ [DueNext]_dueVars => DueInductive'
    <2>1. ASSUME DueInductive, UNCHANGED dueVars PROVE DueInductive'
        BY <2>1 DEF dueVars, DueInductive
    <2> QED
        BY <2>1, DueStep
<1> QED
    BY <1>1, DueStarts, PTL DEF DueSpec

\* Where closed dates leave a school day to find: from the time asked for, and from the
\* last day that may be asked for.
LEMMA SchoolDaysAhead ==
    ASSUME NEW a, a.rules \in AllRules, a.sent \in Nat, a.now \in Nat, ShortHolidays(a)
    PROVE  \A date \in Nat : date <= DateOf(a.sent) \/ date <= DateOf(a.now) + a.rules.maxDays
              => \E n \in 1..MaxClosedRun + 1 : SchoolDay(a.rules, date + n)
<1> DEFINE x == DateOf(a.sent)
           y == DateOf(a.now) + a.rules.maxDays
<1>1. x \in Nat /\ y \in Nat
    BY DatesGoOn, RulesFit
<1> HIDE DEF x, y
<1>2. Max({x, y}) \in Nat /\ x <= Max({x, y}) /\ y <= Max({x, y})
    <2>1. \E z \in {x, y} : \A w \in {x, y} : z >= w
        BY <1>1
    <2> QED
        BY <1>1, <2>1 DEF Max
<1>3. \A date \in 0..Max({x, y}) : \E n \in 1..MaxClosedRun + 1 : SchoolDay(a.rules, date + n)
    BY DEF ShortHolidays, x, y
<1>4. \A date \in Nat : date <= x \/ date <= y => date \in 0..Max({x, y})
    BY <1>1, <1>2
<1> QED
    BY <1>3, <1>4 DEF x, y

\* The first closing time on a school day at or after the time asked for.
LEMMA ClosesAfter ==
    ASSUME NEW r \in AllRules, NEW t \in Nat,
           \E n \in 1..MaxClosedRun + 1 : SchoolDay(r, DateOf(t) + n)
    PROVE  LET due == ClosingAtOrAfter(r, t) IN
           /\ SchoolDay(r, DateOf(due)) /\ due = ClosingOn(r, DateOf(due)) /\ due >= t
           /\ \A date \in DateOf(t)..DateOf(due) - 1 :
                 SchoolDay(r, date) => ClosingOn(r, date) < t
<1> DEFINE today == DateOf(t)
           due == ClosingAtOrAfter(r, t)
<1>1. /\ today \in Nat /\ today * DayHours \in Nat /\ t < today * DayHours + DayHours
      /\ DayHours \in Nat
    BY DateHolds, DueFits
<1>2. ClosingOn(r, today) \in Nat /\ DateOf(ClosingOn(r, today)) = today
    BY <1>1, ClosingIsOnItsDate
<1>3. CASE ClosingOn(r, today) < t \/ ~SchoolDay(r, today)
    <2>1. PICK d \in Nat : /\ NextSchoolDayAt(r, today) = ClosingOn(r, d)
                           /\ d > today /\ SchoolDay(r, d)
                           /\ \A e \in Nat : e > today /\ SchoolDay(r, e) => d <= e
        BY <1>1, FirstSchoolDay
    <2>2. due = ClosingOn(r, d)
        BY <1>3, <2>1 DEF ClosingAtOrAfter
    <2>3. due \in Nat /\ DateOf(due) = d
        BY <2>2, ClosingIsOnItsDate
    <2>4. due >= t
        <3>1. today * DayHours + DayHours <= d * DayHours /\ d * DayHours \in Nat
            BY <1>1, <2>1, Times
        <3>2. r.at \in Nat
            BY RulesFit
        <3> QED
            BY <1>1, <2>2, <3>1, <3>2 DEF ClosingOn
    <2>5. ASSUME NEW date \in today..d - 1, SchoolDay(r, date)
          PROVE  ClosingOn(r, date) < t
        <3>1. date \in Nat /\ date < d /\ (date = today \/ date > today)
            BY <1>1, <2>1
        <3>2. date = today
            BY <2>1, <2>5, <3>1
        <3> QED
            BY <1>3, <2>5, <3>2
    <2> HIDE DEF due, today
    <2> QED
        BY <2>1, <2>2, <2>3, <2>4, <2>5 DEF due, today
<1>4. CASE ~(ClosingOn(r, today) < t \/ ~SchoolDay(r, today))
    <2>1. due = ClosingOn(r, today)
        BY <1>4 DEF ClosingAtOrAfter
    <2>2. today..today - 1 = {}
        BY <1>1
    <2> QED
        BY <1>2, <1>4, <2>1, <2>2
<1> QED
    BY <1>3, <1>4

\* What the page computed by the rules in force is stored as it is.
LEMMA PickIsTaken ==
    ASSUME DueInductive, NEW a \in answer, ShortHolidays(a), a.by = {a.rules}, a.sent > a.now
    PROVE  a.due = {a.sent}
<1> DEFINE r == a.rules
           latest == DateOf(a.now) + r.maxDays
<1>1. /\ r \in AllRules /\ a.sent \in Nat /\ a.now \in Nat
      /\ a.due = CheckDueAt(r, a.sent, a.now) /\ FromPicker(a.sent, r, a.now)
    BY DEF DueInductive
<1>2. DateOf(a.now) \in Nat /\ r.maxDays \in Nat /\ latest \in Nat
    BY <1>1, DatesGoOn, RulesFit
<1>3. PICK lastDay \in Nat : a.sent = NextSchoolDayAt(r, lastDay) /\ lastDay <= latest
    BY <1>1 DEF FromPicker
<1>4. PICK d \in Nat : /\ NextSchoolDayAt(r, lastDay) = ClosingOn(r, d)
                       /\ d > lastDay /\ SchoolDay(r, d)
                       /\ \A e \in Nat : e > lastDay /\ SchoolDay(r, e) => d <= e
    BY <1>1, <1>3, SchoolDaysAhead, FirstSchoolDay
<1>5. PICK c \in Nat : /\ NextSchoolDayAt(r, latest) = ClosingOn(r, c)
                       /\ c > latest /\ SchoolDay(r, c)
                       /\ \A e \in Nat : e > latest /\ SchoolDay(r, e) => c <= e
    <2>1. latest <= DateOf(a.now) + a.rules.maxDays
        BY <1>2
    <2>2. \E n \in 1..MaxClosedRun + 1 : SchoolDay(r, latest + n)
        BY <1>1, <1>2, <2>1, SchoolDaysAhead
    <2> HIDE DEF latest
    <2> QED
        BY <1>1, <1>2, <2>2, FirstSchoolDay
<1>6. DateOf(a.sent) = d /\ a.sent = ClosingOn(r, d)
    BY <1>1, <1>3, <1>4, ClosingIsOnItsDate
<1>7. ClosingAtOrAfter(r, a.sent) = a.sent
    BY <1>1, <1>4, <1>6 DEF ClosingAtOrAfter
<1>8. a.sent <= LatestDueAt(r, a.now)
    <2>1. d <= c
        BY <1>2, <1>3, <1>4, <1>5
    <2>2. ClosingOn(r, d) <= ClosingOn(r, c)
        BY <1>1, <2>1, LaterClosesLater
    <2> QED
        BY <1>5, <1>6, <2>2 DEF LatestDueAt
<1> QED
    BY <1>1, <1>7, <1>8 DEF CheckDueAt

\* due.go: a loan falls due at the first closing time on a school day from the one asked
\* for, and what the page offered by the rules in force is not refused; for any calendar,
\* closing time, cap and time of day.
THEOREM LoansFallDueAtClosing == DueSpec => []DueAtClosing
<1>1. ASSUME DueInductive PROVE DueAtClosing
    <2>1. SUFFICES ASSUME NEW a \in answer, ShortHolidays(a)
                   PROVE  /\ \A due \in a.due :
                                /\ SchoolDay(a.rules, DateOf(due))
                                /\ due = ClosingOn(a.rules, DateOf(due)) /\ due >= a.sent
                                /\ \A date \in DateOf(a.sent)..DateOf(due) - 1 :
                                     SchoolDay(a.rules, date) => ClosingOn(a.rules, date) < a.sent
                          /\ a.by = {a.rules} /\ a.sent > a.now => a.due = {a.sent}
        BY DEF DueAtClosing
    <2>2. /\ a.rules \in AllRules /\ a.sent \in Nat /\ a.now \in Nat
          /\ a.due = CheckDueAt(a.rules, a.sent, a.now) /\ DateOf(a.sent) \in Nat
        BY <1>1, DatesGoOn DEF DueInductive
    <2>3. \A due \in a.due : due = ClosingAtOrAfter(a.rules, a.sent)
        BY <2>2 DEF CheckDueAt
    <2>4. \E n \in 1..MaxClosedRun + 1 : SchoolDay(a.rules, DateOf(a.sent) + n)
        BY <2>1, <2>2, SchoolDaysAhead
    <2> QED
        BY <1>1, <2>1, <2>2, <2>3, <2>4, ClosesAfter, PickIsTaken
<1> QED
    BY <1>1, DueInvariant, PTL
=============================================================================
