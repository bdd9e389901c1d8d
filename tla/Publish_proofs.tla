--------------------------- MODULE Publish_proofs ---------------------------
(***************************************************************************)
(* Proofs about Publish, for any versions, any executables they declare,   *)
(* any number of predecessors kept and any number of errors, crashes and   *)
(* power losses.                                                           *)
(***************************************************************************)
EXTENDS Publish, TLAPS

\* The entries of opt/<name> are what they are named after.
LEMMA EntryFacts ==
    /\ \A v \in Versions : Live(v) \in Entries /\ Staging(v) \in Entries /\ Backup(v) \in Entries
    /\ \A u, v \in Versions : Live(u) # Staging(v) /\ Live(u) # Backup(v) /\ Staging(u) # Backup(v)
    /\ \A u, v \in Versions : Live(u) = Live(v) => u = v
    /\ \A e \in Entries : e[1] = "live" => e[2] \in Versions /\ e = Live(e[2])
BY DEF Entries, Live, Staging, Backup

\* What Put writes.
LEMMA PutFacts ==
    ASSUME tree \in [Entries -> Contents], NEW e \in Entries, NEW c \in Contents
    PROVE  /\ Put(e, c) \in [Entries -> Contents]
           /\ Put(e, c)[e] = c
           /\ \A f \in Entries : f # e => Put(e, c)[f] = tree[f]
BY DEF Put

\* What Move writes.
LEMMA MoveFacts ==
    ASSUME tree \in [Entries -> Contents], NEW a \in Entries, NEW b \in Entries, a # b
    PROVE  /\ Move(a, b) \in [Entries -> Contents]
           /\ Move(a, b)[b] = tree[a]
           /\ \A f \in Entries : f # a /\ f # b => Move(a, b)[f] = tree[f]
BY DEF Move, Contents

\* Ranks stay integers.
LEMMA RankFacts ==
    ASSUME age \in [Versions -> Int], NEW v \in Versions, NEW k \in Int
    PROVE  Touched(v) \in [Versions -> Int] /\ PutBack(v, k) \in [Versions -> Int]
BY PublishAssumption DEF Touched, PutBack

\* A target is a version while an install runs.
LEMMA TargetFacts ==
    ASSUME TypeOK, pc \in InstallPcs
    PROVE  /\ target \in Versions
           /\ Live(target) \in Entries /\ Staging(target) \in Entries /\ Backup(target) \in Entries
           /\ Declares[target] \subseteq Bins
           /\ Installed \in Record
<1>1. target \in Versions
    BY PublishAssumption DEF TypeOK, Versions
<1> QED
    BY <1>1, EntryFacts, PublishAssumption DEF Installed, Record, Versions

\* Fewer possible contents and more unsettled versions keep both invariants.
LEMMA Fewer ==
    ASSUME RecordedIsWhole, PathRuns,
           unsettled \subseteq unsettled', trees' \subseteq trees,
           links' \subseteq links, recs' \subseteq recs
    PROVE  RecordedIsWhole' /\ PathRuns'
BY DEF RecordedIsWhole, PathRuns

\* So does a new tree that spares the live tree of every settled version.
LEMMA TreeWritten ==
    ASSUME TypeOK, RecordedIsWhole, PathRuns, NEW t, Tree(t),
           unsettled \subseteq unsettled', links' = links, recs' \subseteq recs,
           \A v \in Versions \ unsettled : t[Live(v)] = tree[Live(v)] \/ v \in unsettled'
    PROVE  RecordedIsWhole' /\ PathRuns'
<1>1. tree \in trees /\ trees' = trees \cup {t}
    BY DEF TypeOK, Tree
<1>2. RecordedIsWhole'
    BY <1>1 DEF RecordedIsWhole
<1>3. PathRuns'
    BY <1>1 DEF PathRuns
<1> QED
    BY <1>2, <1>3

\* And a new link to a version whose tree is durably complete, or to none.
LEMMA LinkWritten ==
    ASSUME TypeOK, RecordedIsWhole, PathRuns,
           NEW b \in Bins, NEW v \in 0 .. NumVersions, Link([link EXCEPT ![b] = v]),
           unsettled' = unsettled, trees' = trees, recs' \subseteq recs,
           \A r \in recs, t \in trees :
               b \in r.bins /\ v \in Versions \ unsettled => t[Live(v)] = "whole"
    PROVE  RecordedIsWhole' /\ PathRuns'
<1>1. link \in links /\ links' = links \cup {[link EXCEPT ![b] = v]}
    BY DEF TypeOK, Link
<1>2. link \in [Bins -> 0 .. NumVersions]
    BY DEF TypeOK
<1>3. RecordedIsWhole'
    BY DEF RecordedIsWhole
<1>4. PathRuns'
    <2> SUFFICES ASSUME NEW r \in recs', NEW l \in links', NEW t \in trees', NEW c \in r.bins,
                        l[c] \in Versions \ unsettled
                 PROVE  t[Live(l[c])] = "whole"
        BY DEF PathRuns
    <2>1. CASE l \in links
        BY <2>1 DEF PathRuns
    <2>2. CASE l = [link EXCEPT ![b] = v]
        <3>1. c \in Bins
            BY DEF TypeOK, Record
        <3>2. CASE c = b
            BY <1>2, <2>2, <3>2
        <3>3. CASE c # b
            BY <1>1, <1>2, <2>2, <3>1, <3>3 DEF PathRuns
        <3> QED
            BY <3>2, <3>3
    <2> QED
        BY <1>1, <2>1, <2>2
<1> QED
    BY <1>3, <1>4

\* And a record whose version and whose links lead to complete trees.
LEMMA RecordWritten ==
    ASSUME RecordedIsWhole, PathRuns, NEW r, recs' \subseteq recs \cup {r},
           UNCHANGED <<trees, links, unsettled>>,
           r.ver \in Versions \ unsettled => \A t \in trees : t[Live(r.ver)] = "whole",
           \A b \in r.bins, l \in links, t \in trees :
               l[b] \in Versions \ unsettled => t[Live(l[b])] = "whole"
    PROVE  RecordedIsWhole' /\ PathRuns'
BY DEF RecordedIsWhole, PathRuns

\* Between jobs nothing is asked of a position.
LEMMA AtRest ==
    ASSUME EndJob
    PROVE  SwapOK' /\ LinksOK' /\ PruneOK' /\ RemovalOK'
BY DEF EndJob, SwapOK, LinksOK, PruneOK, RemovalOK, SettledPcs, UninstallPcs

-----------------------------------------------------------------------------
(* The invariant holds at first.                                           *)

LEMMA InitInv == Init => IInv
<1> SUFFICES ASSUME Init PROVE IInv
    OBVIOUS
<1>1. want \in 0 .. NumVersions /\ (want # 0 => want \in Versions /\ Live(want) \in Entries)
    BY EntryFacts, PublishAssumption DEF Init, Versions
<1>2. tree \in [Entries -> Contents]
    BY DEF Init, Contents
<1>3. link \in [Bins -> 0 .. NumVersions]
    BY PublishAssumption DEF Init
<1>4. rec \in Record
    BY <1>1, PublishAssumption DEF Init, Record, NoRec
<1>5. TypeOK
    BY <1>1, <1>2, <1>3, <1>4, PublishAssumption DEF Init, TypeOK, Versions, InstallPcs
<1>6. want # 0 => tree[Live(want)] = "whole"
    BY <1>1 DEF Init
<1>7. \A b \in Bins : link[b] # 0 => link[b] = want
    BY DEF Init
<1>8. RecordedIsWhole
    BY <1>6 DEF Init, RecordedIsWhole, Versions, NoRec
<1>9. PathRuns
    BY <1>4, <1>6, <1>7 DEF Init, PathRuns, Versions, Record
<1>10. SwapOK /\ LinksOK /\ PruneOK /\ RemovalOK
    BY DEF Init, SwapOK, LinksOK, PruneOK, RemovalOK, SettledPcs, UninstallPcs
<1> QED
    BY <1>5, <1>8, <1>9, <1>10 DEF IInv

-----------------------------------------------------------------------------
(* Each step keeps it.                                                     *)

\* The steps that change only the job's position, and what it is to do.
LEMMA PositionSteps ==
    ASSUME IInv, \/ \E v \in 0 .. NumVersions : SetWant(v)
                 \/ BeginInstall \/ BeginUninstall \/ StageFails \/ LinksMade
                 \/ Done \/ EraseFails \/ Crash
    PROVE  IInv'
<1>1. TypeOK
    BY DEF IInv
<1>2. UNCHANGED disk /\ unsettled \subseteq unsettled'
    BY <1>1 DEF SetWant, BeginInstall, BeginUninstall, StageFails, LinksMade, Done, EraseFails,
        Crash, TypeOK
<1>3. TypeOK'
    <2>1. CASE \E v \in 0 .. NumVersions : SetWant(v)
        BY <1>1, <2>1, PublishAssumption DEF SetWant, TypeOK, disk, job, Event
    <2>2. CASE BeginInstall
        BY <1>1, <2>2, PublishAssumption DEF BeginInstall, TypeOK, disk, Event, InstallPcs
    <2>3. CASE BeginUninstall
        BY <1>1, <2>3, PublishAssumption
        DEF BeginUninstall, TypeOK, disk, Event, InstallPcs, UninstallPcs, Record
    <2>4. CASE StageFails
        BY <1>1, <2>4, PublishAssumption DEF StageFails, TypeOK, disk, job, Event, InstallPcs, Goto
    <2>5. CASE LinksMade
        BY <1>1, <2>5 DEF LinksMade, TypeOK, disk, job, InstallPcs, Goto
    <2>6. CASE Done \/ EraseFails \/ Crash
        BY <1>1, <2>6, PublishAssumption
        DEF Done, EraseFails, Crash, EndJob, TypeOK, disk, Event, InstallPcs
    <2> QED
        BY <2>1, <2>2, <2>3, <2>4, <2>5, <2>6
<1>4. RecordedIsWhole' /\ PathRuns'
    BY <1>2, Fewer DEF IInv, disk
<1>5. SwapOK' /\ LinksOK' /\ PruneOK' /\ RemovalOK'
    <2>1. CASE \E v \in 0 .. NumVersions : SetWant(v)
        BY <2>1 DEF SetWant, IInv, SwapOK, LinksOK, PruneOK, RemovalOK, disk, job, Installed
    <2>2. CASE BeginInstall
        BY <2>2 DEF BeginInstall, SwapOK, LinksOK, PruneOK, RemovalOK, SettledPcs, UninstallPcs
    <2>3. CASE BeginUninstall
        BY <2>3 DEF BeginUninstall, SwapOK, LinksOK, PruneOK, RemovalOK, SettledPcs, UninstallPcs
    <2>4. CASE StageFails
        BY <2>4 DEF StageFails, IInv, SwapOK, LinksOK, PruneOK, RemovalOK, SettledPcs, UninstallPcs,
            disk, job, Goto
    <2>5. CASE LinksMade
        BY <2>5 DEF LinksMade, IInv, SwapOK, LinksOK, PruneOK, RemovalOK, SettledPcs, UninstallPcs,
            disk, job, Goto
    <2>6. CASE Done \/ EraseFails \/ Crash
        BY <2>6, AtRest DEF Done, EraseFails, Crash
    <2> QED
        BY <2>1, <2>2, <2>3, <2>4, <2>5, <2>6
<1> QED
    BY <1>3, <1>4, <1>5 DEF IInv

\* What a write of the trees leaves alone.
LEMMA TreeTyped ==
    ASSUME TypeOK, NEW t \in [Entries -> Contents], Tree(t),
           age' \in [Versions -> Int], unsettled' \subseteq Versions,
           UNCHANGED <<want, link, links, rec, recs, target, todo, victims, victim, cur>>,
           pc' \in InstallPcs \cup UninstallPcs, pc' \in InstallPcs => pc \in InstallPcs,
           pc' \in {"symlinking", "binbarrier", "relinking"} => cur \in Bins,
           pc' = "deleting" => victim \in Entries,
           was' \in Int, events' \in 0 .. MaxEvents
    PROVE  TypeOK'
BY DEF TypeOK, Tree

\* The install's own writes of the trees, up to the one before the barrier.
LEMMA SwapSteps ==
    ASSUME IInv, \/ Stage \/ Extract \/ Flush \/ ClearBackup \/ MoveAside \/ Rename
    PROVE  IInv'
<1>1. TypeOK /\ RecordedIsWhole /\ PathRuns /\ SwapOK
    BY DEF IInv
<1>2. pc \in InstallPcs
    BY DEF Stage, Extract, Flush, ClearBackup, MoveAside, Rename, InstallPcs
<1>3. /\ target \in Versions
      /\ Live(target) \in Entries /\ Staging(target) \in Entries /\ Backup(target) \in Entries
    BY <1>1, <1>2, TargetFacts
<1>4. tree \in [Entries -> Contents] /\ {"none", "torn", "unflushed", "whole"} \subseteq Contents
    BY <1>1 DEF TypeOK, Contents
<1>5. /\ \A u, v \in Versions : Live(u) # Staging(v) /\ Live(u) # Backup(v) /\ Staging(u) # Backup(v)
      /\ \A u, v \in Versions : Live(u) = Live(v) => u = v
      /\ \A v \in Versions : Live(v) \in Entries
    BY EntryFacts
<1>6. CASE Stage
    <2> DEFINE t == Put(Staging(target), "torn")
    <2>1. Tree(t) /\ t \in [Entries -> Contents] /\ \A v \in Versions : t[Live(v)] = tree[Live(v)]
        BY <1>3, <1>4, <1>5, <1>6, PutFacts DEF Stage
    <2> HIDE DEF t
    <2>2. TypeOK'
        BY <1>1, <1>2, <1>6, <2>1, TreeTyped DEF Stage, treeOnly, Goto, job, TypeOK, InstallPcs
    <2>3. RecordedIsWhole' /\ PathRuns'
        BY <1>1, <1>6, <2>1, TreeWritten DEF Stage, treeOnly
    <2>4. SwapOK' /\ LinksOK' /\ PruneOK' /\ RemovalOK'
        BY <1>6 DEF Stage, Goto, SwapOK, LinksOK, PruneOK, RemovalOK, SettledPcs, UninstallPcs
    <2> QED
        BY <2>2, <2>3, <2>4 DEF IInv
<1>7. CASE Extract
    <2> DEFINE t == Put(Staging(target), "unflushed")
    <2>1. Tree(t) /\ t \in [Entries -> Contents] /\ \A v \in Versions : t[Live(v)] = tree[Live(v)]
        BY <1>3, <1>4, <1>5, <1>7, PutFacts DEF Extract
    <2> HIDE DEF t
    <2>2. TypeOK'
        BY <1>1, <1>2, <1>7, <2>1, TreeTyped DEF Extract, treeOnly, Goto, job, TypeOK, InstallPcs
    <2>3. RecordedIsWhole' /\ PathRuns'
        BY <1>1, <1>7, <2>1, TreeWritten DEF Extract, treeOnly
    <2>4. SwapOK' /\ LinksOK' /\ PruneOK' /\ RemovalOK'
        BY <1>7 DEF Extract, Goto, SwapOK, LinksOK, PruneOK, RemovalOK, SettledPcs, UninstallPcs
    <2> QED
        BY <2>2, <2>3, <2>4 DEF IInv
<1>8. CASE Flush
    <2> DEFINE t == Put(Staging(target), "whole")
    <2>1. Tree(t) /\ t \in [Entries -> Contents] /\ \A v \in Versions : t[Live(v)] = tree[Live(v)]
        BY <1>3, <1>4, <1>5, <1>8, PutFacts DEF Flush
    <2>2. t[Staging(target)] = "whole"
        BY <1>3, <1>4, PutFacts
    <2> HIDE DEF t
    <2>3. TypeOK'
        BY <1>1, <1>2, <1>8, <2>1, TreeTyped DEF Flush, treeOnly, Goto, job, TypeOK, InstallPcs
    <2>4. RecordedIsWhole' /\ PathRuns'
        BY <1>1, <1>8, <2>1, TreeWritten DEF Flush, treeOnly
    <2>5. SwapOK' /\ LinksOK' /\ PruneOK' /\ RemovalOK'
        BY <1>8, <2>1, <2>2
        DEF Flush, Tree, Goto, job, SwapOK, LinksOK, PruneOK, RemovalOK, SettledPcs, UninstallPcs
    <2> QED
        BY <2>3, <2>4, <2>5 DEF IInv
<1>9. CASE ClearBackup
    <2> DEFINE t == Put(Backup(target), "none")
    <2>1. Tree(t) /\ t \in [Entries -> Contents] /\ \A v \in Versions : t[Live(v)] = tree[Live(v)]
        BY <1>3, <1>4, <1>5, <1>9, PutFacts DEF ClearBackup
    <2>2. t[Staging(target)] = "whole"
        <3>1. tree[Staging(target)] = "whole"
            BY <1>1, <1>9 DEF ClearBackup, SwapOK
        <3> QED
            BY <1>3, <1>4, <1>5, <3>1, PutFacts
    <2> HIDE DEF t
    <2>3. TypeOK'
        BY <1>1, <1>2, <1>9, <2>1, TreeTyped
        DEF ClearBackup, treeOnly, Goto, job, TypeOK, InstallPcs
    <2>4. RecordedIsWhole' /\ PathRuns'
        BY <1>1, <1>9, <2>1, TreeWritten DEF ClearBackup, treeOnly
    <2>5. SwapOK' /\ LinksOK' /\ PruneOK' /\ RemovalOK'
        BY <1>9, <2>1, <2>2
        DEF ClearBackup, Tree, Goto, job, SwapOK, LinksOK, PruneOK, RemovalOK, SettledPcs,
            UninstallPcs
    <2> QED
        BY <2>3, <2>4, <2>5 DEF IInv
<1>10. CASE MoveAside
    <2> DEFINE t == IF tree[Live(target)] # "none" THEN Move(Live(target), Backup(target)) ELSE tree
    <2>1. /\ Tree(t) /\ t \in [Entries -> Contents]
          /\ \A v \in Versions \ {target} : t[Live(v)] = tree[Live(v)]
          /\ t[Staging(target)] = tree[Staging(target)]
        BY <1>3, <1>4, <1>5, <1>10, MoveFacts DEF MoveAside
    <2> HIDE DEF t
    <2>2. unsettled' = unsettled \cup {target} /\ UNCHANGED <<link, links, rec, recs, target>>
        BY <1>10 DEF MoveAside, treeOnly
    <2>3. TypeOK'
        <3>1. was' \in Int /\ unsettled' \subseteq Versions
            BY <1>1, <1>3, <1>10 DEF MoveAside, TypeOK
        <3> QED
            BY <1>1, <1>2, <1>10, <2>1, <3>1, TreeTyped DEF MoveAside, treeOnly, TypeOK, InstallPcs
    <2>4. RecordedIsWhole' /\ PathRuns'
        BY <1>1, <2>1, <2>2, TreeWritten
    <2>5. SwapOK' /\ LinksOK' /\ PruneOK' /\ RemovalOK'
        BY <1>1, <1>10, <2>1, <2>2
        DEF MoveAside, Tree, SwapOK, LinksOK, PruneOK, RemovalOK, SettledPcs, UninstallPcs
    <2> QED
        BY <2>3, <2>4, <2>5 DEF IInv
<1>11. CASE Rename
    <2> DEFINE t == Move(Staging(target), Live(target))
    <2>1. /\ Tree(t) /\ t \in [Entries -> Contents]
          /\ \A v \in Versions \ {target} : t[Live(v)] = tree[Live(v)]
          /\ t[Live(target)] = tree[Staging(target)]
        BY <1>3, <1>4, <1>5, <1>11, MoveFacts DEF Rename
    <2> HIDE DEF t
    <2>2. target \in unsettled /\ tree[Staging(target)] = "whole"
        BY <1>1, <1>11 DEF Rename, SwapOK
    <2>3. TypeOK'
        <3>1. age' \in [Versions -> Int]
            BY <1>1, <1>3, <1>11, RankFacts DEF Rename, TypeOK
        <3> QED
            BY <1>1, <1>2, <1>11, <2>1, <3>1, TreeTyped DEF Rename, Goto, job, TypeOK, InstallPcs
    <2>4. RecordedIsWhole' /\ PathRuns'
        BY <1>1, <1>11, <2>1, <2>2, TreeWritten DEF Rename
    <2>5. SwapOK' /\ LinksOK' /\ PruneOK' /\ RemovalOK'
        BY <1>11, <2>1, <2>2
        DEF Rename, Tree, Goto, job, SwapOK, LinksOK, PruneOK, RemovalOK, SettledPcs, UninstallPcs
    <2> QED
        BY <2>3, <2>4, <2>5 DEF IInv
<1> QED
    BY <1>6, <1>7, <1>8, <1>9, <1>10, <1>11

\* A failed barrier and its undoing, which touch the target's own entries
\* while its version is unsettled, and the cleanup of any failed install.
LEMMA UndoSteps ==
    ASSUME IInv, \/ BarrierFails \/ Undo \/ Restore \/ Clean
    PROVE  IInv'
<1>1. TypeOK /\ RecordedIsWhole /\ PathRuns /\ SwapOK
    BY DEF IInv
<1>2. pc \in InstallPcs
    BY DEF BarrierFails, Undo, Restore, Clean, InstallPcs
<1>3. /\ target \in Versions
      /\ Live(target) \in Entries /\ Staging(target) \in Entries /\ Backup(target) \in Entries
    BY <1>1, <1>2, TargetFacts
<1>4. tree \in [Entries -> Contents] /\ {"none", "torn", "unflushed", "whole"} \subseteq Contents
    BY <1>1 DEF TypeOK, Contents
<1>5. /\ \A u, v \in Versions : Live(u) # Staging(v) /\ Live(u) # Backup(v) /\ Staging(u) # Backup(v)
      /\ \A u, v \in Versions : Live(u) = Live(v) => u = v
      /\ \A v \in Versions : Live(v) \in Entries
    BY EntryFacts
<1>6. CASE BarrierFails
    <2> DEFINE t == Put(Live(target), "torn")
    <2>1. /\ Tree(t) /\ t \in [Entries -> Contents]
          /\ \A v \in Versions \ {target} : t[Live(v)] = tree[Live(v)]
        BY <1>3, <1>4, <1>5, <1>6, PutFacts DEF BarrierFails
    <2> HIDE DEF t
    <2>2. target \in unsettled
        BY <1>1, <1>6 DEF BarrierFails, SwapOK
    <2>3. TypeOK'
        <3>1. events' \in 0 .. MaxEvents
            BY <1>1, <1>6, PublishAssumption DEF BarrierFails, Event, TypeOK
        <3> QED
            BY <1>1, <1>2, <1>6, <2>1, <3>1, TreeTyped
            DEF BarrierFails, treeOnly, Goto, job, TypeOK, InstallPcs
    <2>4. RecordedIsWhole' /\ PathRuns'
        BY <1>1, <1>6, <2>1, <2>2, TreeWritten DEF BarrierFails, treeOnly
    <2>5. SwapOK' /\ LinksOK' /\ PruneOK' /\ RemovalOK'
        BY <1>6, <2>2
        DEF BarrierFails, Goto, job, SwapOK, LinksOK, PruneOK, RemovalOK, SettledPcs, UninstallPcs
    <2> QED
        BY <2>3, <2>4, <2>5 DEF IInv
<1>7. CASE Undo
    <2>1. PICK t \in [Entries -> Contents] :
            Tree(t) /\ \A v \in Versions \ {target} : t[Live(v)] = tree[Live(v)]
        <3>1. CASE Tree(Put(Live(target), "none"))
            <4>1. /\ Put(Live(target), "none") \in [Entries -> Contents]
                  /\ \A v \in Versions \ {target} : Put(Live(target), "none")[Live(v)] = tree[Live(v)]
                BY <1>3, <1>4, <1>5, PutFacts
            <4> QED
                BY <3>1, <4>1
        <3>2. CASE UNCHANGED <<tree, trees>>
            BY <1>1, <1>4, <3>2 DEF Tree, TypeOK
        <3> QED
            BY <1>7, <3>1, <3>2 DEF Undo
    <2>2. target \in unsettled
        BY <1>1, <1>7 DEF Undo, SwapOK
    <2>3. TypeOK'
        <3>1. events' \in 0 .. MaxEvents
            BY <1>1, <1>7, PublishAssumption DEF Undo, Event, TypeOK
        <3> QED
            BY <1>1, <1>2, <1>7, <2>1, <3>1, TreeTyped
            DEF Undo, treeOnly, Goto, job, TypeOK, InstallPcs
    <2>4. RecordedIsWhole' /\ PathRuns'
        BY <1>1, <1>7, <2>1, <2>2, TreeWritten DEF Undo, treeOnly
    <2>5. SwapOK' /\ LinksOK' /\ PruneOK' /\ RemovalOK'
        BY <1>7, <2>2
        DEF Undo, Goto, job, SwapOK, LinksOK, PruneOK, RemovalOK, SettledPcs, UninstallPcs
    <2> QED
        BY <2>3, <2>4, <2>5 DEF IInv
<1>8. CASE Restore
    <2>1. PICK t \in [Entries -> Contents] :
            Tree(t) /\ \A v \in Versions \ {target} : t[Live(v)] = tree[Live(v)]
        <3>1. CASE Tree(Move(Backup(target), Live(target)))
            BY <1>3, <1>4, <1>5, <3>1, MoveFacts
        <3>2. CASE UNCHANGED <<tree, trees>>
            BY <1>1, <1>4, <3>2 DEF Tree, TypeOK
        <3> QED
            BY <1>8, <3>1, <3>2 DEF Restore
    <2>2. target \in unsettled
        BY <1>1, <1>8 DEF Restore, SwapOK
    <2>3. TypeOK'
        <3>1. age' \in [Versions -> Int]
            BY <1>1, <1>3, <1>8, RankFacts DEF Restore, TypeOK
        <3> QED
            BY <1>1, <1>2, <1>8, <2>1, <3>1, TreeTyped DEF Restore, Goto, job, TypeOK, InstallPcs
    <2>4. RecordedIsWhole' /\ PathRuns'
        BY <1>1, <1>8, <2>1, <2>2, TreeWritten DEF Restore
    <2>5. SwapOK' /\ LinksOK' /\ PruneOK' /\ RemovalOK'
        BY <1>8 DEF Restore, Goto, SwapOK, LinksOK, PruneOK, RemovalOK, SettledPcs, UninstallPcs
    <2> QED
        BY <2>3, <2>4, <2>5 DEF IInv
<1>9. CASE Clean
    <2> DEFINE t == Put(Staging(target), "none")
    <2>1. Tree(t) /\ t \in [Entries -> Contents] /\ \A v \in Versions : t[Live(v)] = tree[Live(v)]
        BY <1>3, <1>4, <1>5, <1>9, PutFacts DEF Clean
    <2> HIDE DEF t
    <2>2. recs' \subseteq recs /\ rec' \in recs' /\ UNCHANGED <<link, links, unsettled>>
        BY <1>1, <1>9 DEF Clean, Restated, TypeOK
    <2>3. TypeOK'
        BY <1>1, <1>9, <2>1, <2>2, PublishAssumption DEF Clean, Tree, EndJob, TypeOK, InstallPcs
    <2>4. RecordedIsWhole' /\ PathRuns'
        BY <1>1, <2>1, <2>2, TreeWritten
    <2> QED
        BY <1>9, <2>3, <2>4, AtRest DEF Clean, IInv
<1> QED
    BY <1>6, <1>7, <1>8, <1>9

\* The barrier leaves one content, the swapped one, which is complete.
LEMMA BarrierStep == ASSUME IInv, Barrier PROVE IInv'
<1>1. TypeOK /\ RecordedIsWhole /\ PathRuns /\ SwapOK
    BY DEF IInv
<1>2. pc = "barrier" /\ pc \in InstallPcs
    BY DEF Barrier, InstallPcs
<1>3. target \in Versions /\ tree \in trees /\ tree[Live(target)] = "whole"
    BY <1>1, <1>2, TargetFacts DEF TypeOK, SwapOK
<1>4. /\ trees' = {tree} /\ unsettled' = unsettled \ {target}
      /\ UNCHANGED <<link, links, rec, recs, target, todo, cur, was>>
    BY DEF Barrier, Goto, job, treeOnly
<1>5. TypeOK'
    BY <1>1, <1>2, <1>4 DEF Barrier, Goto, job, treeOnly, TypeOK, InstallPcs
<1>6. RecordedIsWhole'
    BY <1>1, <1>3, <1>4 DEF RecordedIsWhole
<1>7. PathRuns'
    BY <1>1, <1>3, <1>4 DEF PathRuns
<1>8. SwapOK' /\ LinksOK' /\ PruneOK' /\ RemovalOK'
    BY <1>3, <1>4 DEF Barrier, Goto, SwapOK, LinksOK, PruneOK, RemovalOK, SettledPcs, UninstallPcs
<1> QED
    BY <1>5, <1>6, <1>7, <1>8 DEF IInv

\* The backup of a settled version can go.
LEMMA BackupStep == ASSUME IInv, DropBackup PROVE IInv'
<1>1. TypeOK /\ RecordedIsWhole /\ PathRuns /\ SwapOK
    BY DEF IInv
<1>2. pc = "dropping" /\ pc \in InstallPcs
    BY DEF DropBackup, InstallPcs
<1>3. target \in Versions /\ Backup(target) \in Entries /\ Declares[target] \subseteq Bins
    BY <1>1, <1>2, TargetFacts
<1>4. tree \in trees /\ tree \in [Entries -> Contents]
    BY <1>1 DEF TypeOK
<1>5. PICK t \in [Entries -> Contents] : Tree(t) /\ \A v \in Versions : t[Live(v)] = tree[Live(v)]
    <2>1. \A c \in {"none", "torn"} :
            /\ Put(Backup(target), c) \in [Entries -> Contents]
            /\ \A v \in Versions : Put(Backup(target), c)[Live(v)] = tree[Live(v)]
        BY <1>3, <1>4, EntryFacts, PutFacts DEF Contents
    <2> QED
        BY <2>1 DEF DropBackup
<1>6. UNCHANGED <<link, links, rec, recs, target, unsettled>> /\ todo' = Declares[target]
    BY DEF DropBackup, treeOnly
<1>7. TypeOK'
    <2>1. events' \in 0 .. MaxEvents
        BY <1>1, PublishAssumption DEF DropBackup, Event, TypeOK
    <2> QED
        BY <1>1, <1>2, <1>3, <1>5, <1>6, <2>1 DEF DropBackup, Tree, treeOnly, TypeOK, InstallPcs
<1>8. RecordedIsWhole' /\ PathRuns'
    BY <1>1, <1>5, <1>6, TreeWritten
<1>9. SwapOK'
    BY <1>1, <1>2, <1>3, <1>4, <1>5, <1>6 DEF DropBackup, Tree, SwapOK, SettledPcs
<1>10. LinksOK' /\ PruneOK' /\ RemovalOK'
    BY <1>6 DEF DropBackup, LinksOK, PruneOK, RemovalOK, UninstallPcs
<1> QED
    BY <1>7, <1>8, <1>9, <1>10 DEF IInv

\* A removal has given every version up, so any content of the trees will do.
LEMMA EraseSteps == ASSUME IInv, EraseBegins \/ Erase PROVE IInv'
<1>1. TypeOK /\ RecordedIsWhole /\ PathRuns /\ unsettled = Versions
    BY DEF IInv, RemovalOK, EraseBegins, Erase, UninstallPcs
<1>2. PICK t \in [Entries -> Contents] : Tree(t)
    <2>1. /\ [e \in Entries |-> "none"] \in [Entries -> Contents]
          /\ [e \in Entries |-> IF tree[e] = "none" THEN "none" ELSE "torn"] \in [Entries -> Contents]
        BY DEF Contents
    <2> QED
        BY <2>1 DEF EraseBegins, Erase
<1>3. UNCHANGED <<want, age, link, links, rec, recs, unsettled, job, events>>
    BY DEF EraseBegins, Erase, treeOnly, Goto
<1>4. pc' \in UninstallPcs
    BY DEF EraseBegins, Erase, Goto, UninstallPcs
<1>5. TypeOK'
    BY <1>1, <1>2, <1>3, <1>4 DEF Tree, job, TypeOK, InstallPcs, UninstallPcs
<1>6. RecordedIsWhole' /\ PathRuns'
    BY <1>1, <1>2, <1>3, TreeWritten
<1>7. SwapOK' /\ LinksOK' /\ PruneOK' /\ RemovalOK'
    BY <1>1, <1>3, <1>4 DEF SwapOK, LinksOK, PruneOK, RemovalOK, SettledPcs, UninstallPcs
<1> QED
    BY <1>5, <1>6, <1>7 DEF IInv

\* The prune spares what the one possible record and its links lead to.
LEMMA PruneSpares ==
    ASSUME IInv, pc \in {"pruning", "deleting"}, NEW t, Tree(t),
           UNCHANGED <<unsettled, links, recs>>, t[Live(target)] = tree[Live(target)]
    PROVE  /\ RecordedIsWhole' /\ PathRuns'
           /\ \A s \in trees' : s[Live(target)] = "whole"
<1>1. TypeOK /\ SwapOK /\ LinksOK /\ PruneOK
    BY DEF IInv
<1>2. tree \in trees /\ trees' = trees \cup {t}
    BY <1>1 DEF TypeOK, Tree
<1>3. \A s \in trees' : s[Live(target)] = "whole"
    BY <1>1, <1>2 DEF SwapOK, SettledPcs
<1>4. recs' = {Installed} /\ links' = links
    BY <1>1 DEF PruneOK
<1>5. \A b \in Declares[target], l \in links : l[b] = target
    BY <1>1 DEF LinksOK
<1>6. RecordedIsWhole'
    BY <1>3, <1>4 DEF RecordedIsWhole, Installed
<1>7. PathRuns'
    BY <1>3, <1>4, <1>5 DEF PathRuns, Installed
<1> QED
    BY <1>3, <1>6, <1>7

\* The probe that lists the victims, and their deletion.
LEMMA PruneSteps ==
    ASSUME IInv, \/ Verify \/ PruneEnds \/ \E e \in Entries : PruneBegins(e)
    PROVE  IInv'
<1>1. TypeOK /\ RecordedIsWhole /\ PathRuns /\ SwapOK /\ LinksOK /\ PruneOK
    BY DEF IInv
<1>2. pc \in InstallPcs
    BY DEF Verify, PruneEnds, PruneBegins, InstallPcs
<1>3. target \in Versions /\ Live(target) \in Entries
    BY <1>1, <1>2, TargetFacts
<1>4. tree \in trees /\ tree \in [Entries -> Contents]
    BY <1>1 DEF TypeOK
<1>5. CASE Verify
    <2>1. UNCHANGED <<disk, unsettled, target, todo, cur, was>>
        BY <1>5 DEF Verify
    <2>2. victims' \subseteq Entries /\ Live(target) \notin victims'
        <3>1. Live(target)[1] = "live"
            BY DEF Live
        <3>2. \A v \in Victims : v \in Versions /\ v # target
            BY DEF Victims
        <3> QED
            BY <1>3, <1>5, <3>1, <3>2, EntryFacts DEF Verify
    <2>3. TypeOK'
        BY <1>1, <1>2, <1>5, <2>1, <2>2 DEF Verify, TypeOK, disk, InstallPcs
    <2>4. RecordedIsWhole' /\ PathRuns'
        BY <1>1, <2>1, Fewer DEF disk
    <2>5. SwapOK' /\ LinksOK' /\ PruneOK' /\ RemovalOK'
        BY <1>1, <1>5, <2>1, <2>2
        DEF Verify, disk, Installed, SwapOK, LinksOK, PruneOK, RemovalOK, SettledPcs, UninstallPcs
    <2> QED
        BY <2>3, <2>4, <2>5 DEF IInv
<1>6. ASSUME NEW e \in Entries, PruneBegins(e)
      PROVE  IInv'
    <2> DEFINE t == Put(e, "torn")
    <2>1. e # Live(target) /\ Tree(t) /\ pc = "pruning"
        BY <1>1, <1>6 DEF PruneBegins, PruneOK
    <2>2. t \in [Entries -> Contents] /\ t[Live(target)] = tree[Live(target)]
        BY <1>3, <1>4, <2>1, PutFacts DEF Contents
    <2> HIDE DEF t
    <2>3. UNCHANGED <<want, link, links, rec, recs, unsettled, target, todo, cur, was, events>>
        BY <1>6 DEF PruneBegins
    <2>4. age' \in [Versions -> Int]
        BY <1>1, <1>6, EntryFacts, RankFacts DEF PruneBegins, TypeOK
    <2>5. TypeOK'
        BY <1>1, <1>2, <1>6, <2>1, <2>2, <2>3, <2>4 DEF PruneBegins, Tree, TypeOK, InstallPcs
    <2>6. RecordedIsWhole' /\ PathRuns' /\ \A s \in trees' : s[Live(target)] = "whole"
        BY <2>1, <2>2, <2>3, PruneSpares
    <2>7. SwapOK' /\ LinksOK' /\ PruneOK' /\ RemovalOK'
        BY <1>1, <1>6, <2>1, <2>3, <2>6
        DEF PruneBegins, Installed, SwapOK, LinksOK, PruneOK, RemovalOK, SettledPcs, UninstallPcs
    <2> QED
        BY <2>5, <2>6, <2>7 DEF IInv
<1>7. CASE PruneEnds
    <2>1. PICK t \in [Entries -> Contents] : Tree(t) /\ t[Live(target)] = tree[Live(target)]
        <3>1. CASE Tree(Put(victim, "none"))
            <4>1. victim \in Entries /\ victim # Live(target)
                BY <1>1, <1>7 DEF PruneEnds, TypeOK, PruneOK
            <4>2. /\ Put(victim, "none") \in [Entries -> Contents]
                  /\ Put(victim, "none")[Live(target)] = tree[Live(target)]
                BY <1>3, <1>4, <4>1, PutFacts DEF Contents
            <4> QED
                BY <3>1, <4>2
        <3>2. CASE UNCHANGED <<tree, trees>>
            BY <1>4, <3>2 DEF Tree
        <3> QED
            BY <1>7, <3>1, <3>2 DEF PruneEnds
    <2>2. UNCHANGED <<want, link, links, rec, recs, unsettled, age, target, todo, victims, victim, cur, was>>
        BY <1>7 DEF PruneEnds, treeOnly, Goto, job
    <2>3. TypeOK'
        <3>1. events' \in 0 .. MaxEvents
            BY <1>1, <1>7, PublishAssumption DEF PruneEnds, Event, TypeOK
        <3> QED
            BY <1>1, <1>2, <1>7, <2>1, <2>2, <3>1, TreeTyped DEF PruneEnds, Goto, TypeOK, InstallPcs
    <2>4. RecordedIsWhole' /\ PathRuns' /\ \A s \in trees' : s[Live(target)] = "whole"
        BY <1>7, <2>1, <2>2, PruneSpares DEF PruneEnds
    <2>5. SwapOK' /\ LinksOK' /\ PruneOK' /\ RemovalOK'
        BY <1>1, <1>7, <2>2, <2>4
        DEF PruneEnds, Goto, Installed, SwapOK, LinksOK, PruneOK, RemovalOK, SettledPcs,
            UninstallPcs
    <2> QED
        BY <2>3, <2>4, <2>5 DEF IInv
<1> QED
    BY <1>5, <1>6, <1>7

\* The writes of bin/.
LEMMA LinkSteps ==
    ASSUME IInv, \/ \E b \in Bins : Unlink(b) \/ RemoveLink(b)
                 \/ Symlink \/ BinBarrier \/ BinBarrierFails \/ Relink \/ LinkFails
    PROVE  IInv'
<1>1. TypeOK /\ RecordedIsWhole /\ PathRuns /\ SwapOK /\ LinksOK /\ RemovalOK
    BY DEF IInv
<1>2. /\ link \in links /\ link \in [Bins -> 0 .. NumVersions] /\ links \subseteq [Bins -> 0 .. NumVersions]
      /\ 0 \in 0 .. NumVersions /\ 0 \notin Versions
    BY <1>1, PublishAssumption DEF TypeOK, Versions
<1>3. pc \in InstallPcs => target \in Versions /\ Declares[target] \subseteq Bins /\ target \in 0 .. NumVersions
    BY <1>1, TargetFacts DEF TypeOK
<1>4. ASSUME NEW b \in Bins, Unlink(b)
      PROVE  IInv'
    <2>1. /\ pc = "linking" /\ b \in todo /\ pc' = "symlinking" /\ pc \in InstallPcs
          /\ Link([link EXCEPT ![b] = 0]) /\ cur' = b /\ was' = link[b]
          /\ UNCHANGED <<want, tree, trees, age, rec, recs, unsettled, target, todo, victims, victim, events>>
        BY <1>4 DEF Unlink, linkOnly, InstallPcs
    <2>2. TypeOK'
        BY <1>1, <1>2, <2>1, PublishAssumption DEF Link, TypeOK, InstallPcs
    <2>3. RecordedIsWhole' /\ PathRuns'
        BY <1>1, <1>2, <2>1, LinkWritten
    <2>4. SwapOK' /\ PruneOK' /\ RemovalOK'
        BY <1>1, <2>1 DEF SwapOK, PruneOK, RemovalOK, SettledPcs, UninstallPcs
    <2>5. LinksOK'
        <3>1. \A c \in Declares[target] \ todo, l \in links' : l[c] = target
            BY <1>1, <1>2, <1>3, <2>1 DEF Link, LinksOK
        <3>2. was' \in 0 .. NumVersions
            BY <1>2, <2>1
        <3>3. \A r \in recs, t \in trees :
                cur' \in r.bins /\ was' \in Versions \ unsettled => t[Live(was')] = "whole"
            BY <1>1, <1>2, <2>1 DEF PathRuns
        <3> QED
            BY <2>1, <3>1, <3>2, <3>3 DEF LinksOK
    <2> QED
        BY <2>2, <2>3, <2>4, <2>5 DEF IInv
<1>5. ASSUME NEW b \in Bins, RemoveLink(b)
      PROVE  IInv'
    <2>1. /\ pc = "unlinking" /\ todo' = todo \ {b}
          /\ UNCHANGED <<want, tree, trees, age, rec, recs, unsettled, pc, target, victims, victim, cur, was>>
        BY <1>5 DEF RemoveLink, linkOnly
    <2>2. TypeOK'
        <3>1. events' \in 0 .. MaxEvents
            BY <1>1, <1>5, PublishAssumption DEF RemoveLink, Event, TypeOK
        <3>2. links' \subseteq [Bins -> 0 .. NumVersions] /\ link' \in links'
            BY <1>2, <1>5 DEF RemoveLink, Link
        <3> QED
            BY <1>1, <2>1, <3>1, <3>2 DEF TypeOK
    <2>3. RecordedIsWhole' /\ PathRuns'
        <3>1. CASE Link([link EXCEPT ![b] = 0])
            BY <1>1, <1>2, <2>1, <3>1, LinkWritten
        <3>2. CASE UNCHANGED <<link, links>>
            BY <1>1, <2>1, <3>2, Fewer
        <3> QED
            BY <1>5, <3>1, <3>2 DEF RemoveLink
    <2>4. SwapOK' /\ LinksOK' /\ PruneOK' /\ RemovalOK'
        BY <1>1, <2>1 DEF SwapOK, LinksOK, PruneOK, RemovalOK, SettledPcs, UninstallPcs
    <2> QED
        BY <2>2, <2>3, <2>4 DEF IInv
<1>6. CASE Symlink
    <2>1. /\ pc = "symlinking" /\ pc' = "binbarrier" /\ pc \in InstallPcs
          /\ Link([link EXCEPT ![cur] = target]) /\ cur \in Bins /\ cur \in todo
          /\ UNCHANGED <<want, tree, trees, age, rec, recs, unsettled, target, todo, victims, victim, cur, was, events>>
        BY <1>1, <1>6 DEF Symlink, linkOnly, Goto, job, InstallPcs, TypeOK, LinksOK
    <2>2. \A t \in trees : t[Live(target)] = "whole"
        BY <1>1, <2>1 DEF SwapOK, SettledPcs
    <2>3. TypeOK'
        BY <1>1, <1>2, <1>3, <2>1 DEF Link, TypeOK, InstallPcs
    <2>4. RecordedIsWhole' /\ PathRuns'
        BY <1>1, <1>3, <2>1, <2>2, LinkWritten
    <2>5. SwapOK' /\ PruneOK' /\ RemovalOK'
        BY <1>1, <2>1 DEF SwapOK, PruneOK, RemovalOK, SettledPcs, UninstallPcs
    <2>6. LinksOK'
        <3>1. \A c \in Declares[target] \ todo, l \in links' : l[c] = target
            BY <1>1, <1>2, <1>3, <2>1 DEF Link, LinksOK
        <3>2. link'[cur] = target
            BY <1>2, <2>1 DEF Link
        <3> QED
            BY <1>1, <2>1, <3>1, <3>2 DEF LinksOK
    <2> QED
        BY <2>3, <2>4, <2>5, <2>6 DEF IInv
<1>7. CASE BinBarrier
    <2>1. /\ pc = "binbarrier" /\ pc' = "linking" /\ pc \in InstallPcs
          /\ links' = {link} /\ todo' = todo \ {cur} /\ link[cur] = target
          /\ UNCHANGED <<want, tree, trees, age, link, rec, recs, unsettled, target, victims, victim, cur, was, events>>
        BY <1>1, <1>7 DEF BinBarrier, linkOnly, InstallPcs, LinksOK
    <2>2. TypeOK'
        BY <1>1, <1>2, <2>1 DEF TypeOK, InstallPcs
    <2>3. RecordedIsWhole' /\ PathRuns'
        BY <1>1, <1>2, <2>1, Fewer
    <2>4. SwapOK' /\ LinksOK' /\ PruneOK' /\ RemovalOK'
        BY <1>1, <1>2, <2>1 DEF SwapOK, LinksOK, PruneOK, RemovalOK, SettledPcs, UninstallPcs
    <2> QED
        BY <2>2, <2>3, <2>4 DEF IInv
<1>8. CASE BinBarrierFails
    <2>1. /\ pc = "binbarrier" /\ pc' = "relinking" /\ pc \in InstallPcs
          /\ Link([link EXCEPT ![cur] = 0]) /\ cur \in Bins /\ Event
          /\ UNCHANGED <<want, tree, trees, age, rec, recs, unsettled, target, todo, victims, victim, cur, was>>
        BY <1>1, <1>8 DEF BinBarrierFails, linkOnly, Goto, job, InstallPcs, TypeOK
    <2>2. TypeOK'
        BY <1>1, <1>2, <2>1, PublishAssumption DEF Event, Link, TypeOK, InstallPcs
    <2>3. RecordedIsWhole' /\ PathRuns'
        BY <1>1, <1>2, <2>1, LinkWritten
    <2>4. SwapOK' /\ LinksOK' /\ PruneOK' /\ RemovalOK'
        BY <1>1, <2>1 DEF SwapOK, LinksOK, PruneOK, RemovalOK, SettledPcs, UninstallPcs
    <2> QED
        BY <2>2, <2>3, <2>4 DEF IInv
<1>9. CASE Relink
    <2>1. /\ pc = "relinking" /\ Link([link EXCEPT ![cur] = was]) /\ cur \in Bins /\ was \in 0 .. NumVersions
          /\ recs' \subseteq recs /\ rec' \in recs' /\ EndJob
          /\ UNCHANGED <<want, tree, trees, age, unsettled, events>>
        BY <1>1, <1>9 DEF Relink, TypeOK, LinksOK
    <2>2. TypeOK'
        BY <1>1, <1>2, <2>1, PublishAssumption DEF Link, EndJob, TypeOK, InstallPcs
    <2>3. RecordedIsWhole' /\ PathRuns'
        BY <1>1, <2>1, LinkWritten DEF LinksOK
    <2> QED
        BY <2>1, <2>2, <2>3, AtRest DEF IInv
<1>10. CASE LinkFails
    <2>1. /\ recs' \subseteq recs /\ rec' \in recs' /\ EndJob /\ Event
          /\ UNCHANGED <<want, tree, trees, age, link, links, unsettled>>
        BY <1>1, <1>10 DEF LinkFails, Restated, TypeOK
    <2>2. TypeOK'
        BY <1>1, <2>1, PublishAssumption DEF Event, EndJob, TypeOK, InstallPcs
    <2>3. RecordedIsWhole' /\ PathRuns'
        BY <1>1, <2>1, Fewer
    <2> QED
        BY <2>1, <2>2, <2>3, AtRest DEF IInv
<1> QED
    BY <1>4, <1>5, <1>6, <1>7, <1>8, <1>9, <1>10

\* The writes of the state file, and the failed probe.
LEMMA RecordSteps ==
    ASSUME IInv, Commit \/ CommitFails \/ VerifyFails \/ Drop \/ DropFails
    PROVE  IInv'
<1>1. TypeOK /\ RecordedIsWhole /\ PathRuns /\ SwapOK /\ LinksOK
    BY DEF IInv
<1>2. rec \in recs /\ recs \subseteq Record
    BY <1>1 DEF TypeOK
<1>3. ASSUME pc = "committing",
             UNCHANGED <<trees, links, unsettled>>, recs' \subseteq recs \cup {Installed}
      PROVE  RecordedIsWhole' /\ PathRuns' /\ Installed \in Record
    <2>1. pc \in SettledPcs /\ pc \in InstallPcs
        BY <1>3 DEF SettledPcs, InstallPcs
    <2>2. \A t \in trees : t[Live(target)] = "whole"
        BY <1>1, <2>1 DEF SwapOK
    <2>3. \A b \in Declares[target], l \in links : l[b] = target
        BY <1>1, <1>3 DEF LinksOK
    <2> DEFINE r == Installed
    <2>4. r.ver = target /\ r.bins = Declares[target]
        BY DEF Installed
    <2> HIDE DEF r
    <2>5. RecordedIsWhole' /\ PathRuns'
        BY <1>1, <1>3, <2>2, <2>3, <2>4, RecordWritten DEF r
    <2>6. Installed \in Record
        BY <1>1, <2>1, TargetFacts
    <2> QED
        BY <2>5, <2>6
<1>4. NoRec \in Record /\ NoRec.ver \notin Versions /\ NoRec.bins = {}
    BY PublishAssumption DEF NoRec, Record, Versions
<1>5. ASSUME UNCHANGED <<trees, links, unsettled>>, recs' \subseteq recs \cup {NoRec}
      PROVE  RecordedIsWhole' /\ PathRuns'
    BY <1>1, <1>4, <1>5, RecordWritten
<1>6. CASE Commit
    <2>1. /\ pc = "committing" /\ pc \in InstallPcs /\ pc' = "verifying"
          /\ rec' = Installed /\ recs' = {Installed}
          /\ UNCHANGED <<want, tree, trees, age, link, links, unsettled, target, todo, victims, victim, cur, was, events>>
        BY <1>6 DEF Commit, Goto, job, InstallPcs
    <2>2. RecordedIsWhole' /\ PathRuns' /\ Installed \in Record
        BY <1>3, <2>1
    <2>3. TypeOK'
        BY <1>1, <2>1, <2>2 DEF TypeOK, InstallPcs
    <2>4. SwapOK' /\ LinksOK' /\ PruneOK' /\ RemovalOK'
        BY <1>1, <2>1 DEF Installed, SwapOK, LinksOK, PruneOK, RemovalOK, SettledPcs, UninstallPcs
    <2> QED
        BY <2>2, <2>3, <2>4 DEF IInv
<1>7. CASE CommitFails
    <2>1. /\ pc = "committing" /\ Event /\ EndJob
          /\ recs' \subseteq recs \cup {Installed} /\ rec' \in recs'
          /\ UNCHANGED <<want, tree, trees, age, link, links, unsettled>>
        BY <1>2, <1>7 DEF CommitFails
    <2>2. RecordedIsWhole' /\ PathRuns' /\ Installed \in Record
        BY <1>3, <2>1
    <2>3. TypeOK'
        BY <1>1, <2>1, <2>2, PublishAssumption DEF Event, EndJob, TypeOK, InstallPcs
    <2> QED
        BY <2>1, <2>2, <2>3, AtRest DEF IInv
<1>8. CASE VerifyFails
    <2>1. /\ recs' \subseteq recs /\ rec' \in recs' /\ EndJob /\ Event
          /\ UNCHANGED <<want, tree, trees, age, link, links, unsettled>>
        BY <1>2, <1>8 DEF VerifyFails, Restated
    <2>2. TypeOK'
        BY <1>1, <2>1, PublishAssumption DEF Event, EndJob, TypeOK, InstallPcs
    <2>3. RecordedIsWhole' /\ PathRuns'
        BY <1>1, <2>1, Fewer
    <2> QED
        BY <2>1, <2>2, <2>3, AtRest DEF IInv
<1>9. CASE Drop \/ DropFails
    <2>1. /\ recs' \subseteq recs \cup {NoRec} /\ rec' \in recs' /\ EndJob
          /\ UNCHANGED <<want, tree, trees, age, link, links, unsettled>>
        BY <1>2, <1>9 DEF Drop, DropFails
    <2>2. TypeOK'
        <3>1. events' \in 0 .. MaxEvents
            BY <1>1, <1>9, PublishAssumption DEF Drop, DropFails, Event, TypeOK
        <3> QED
            BY <1>1, <1>4, <2>1, <3>1, PublishAssumption DEF EndJob, TypeOK, InstallPcs
    <2>3. RecordedIsWhole' /\ PathRuns'
        BY <1>5, <2>1
    <2> QED
        BY <2>1, <2>2, <2>3, AtRest DEF IInv
<1> QED
    BY <1>6, <1>7, <1>8, <1>9

\* A power loss takes every directory to a content it might have been left
\* with, where a tree that was complete still is.
LEMMA PowerLossStep == ASSUME IInv, PowerLoss PROVE IInv'
<1>1. TypeOK /\ RecordedIsWhole /\ PathRuns
    BY DEF IInv
<1>2. PICK t \in trees : tree' = [e \in Entries |-> IF t[e] = "unflushed" THEN "torn" ELSE t[e]]
    BY DEF PowerLoss
<1>3. /\ link' \in links /\ rec' \in recs /\ EndJob /\ Event
      /\ trees' = {tree'} /\ links' = {link'} /\ recs' = {rec'}
      /\ UNCHANGED <<want, age, unsettled>>
    BY DEF PowerLoss
<1>4. tree' \in [Entries -> Contents]
    BY <1>1, <1>2 DEF TypeOK, Contents
<1>5. \A v \in Versions : t[Live(v)] = "whole" => tree'[Live(v)] = "whole"
    BY <1>2, EntryFacts
<1>6. TypeOK'
    BY <1>1, <1>3, <1>4, PublishAssumption DEF Event, EndJob, TypeOK, InstallPcs
<1>7. RecordedIsWhole'
    BY <1>1, <1>3, <1>5 DEF RecordedIsWhole
<1>8. PathRuns'
    BY <1>1, <1>3, <1>5 DEF PathRuns
<1> QED
    BY <1>3, <1>6, <1>7, <1>8, AtRest DEF IInv

\* Every step keeps the invariant.
LEMMA StepInv == IInv /\ [Next]_vars => IInv'
<1> SUFFICES ASSUME IInv, [Next]_vars PROVE IInv'
    OBVIOUS
<1>1. CASE UNCHANGED vars
    BY <1>1 DEF vars, disk, job, IInv, TypeOK, RecordedIsWhole, PathRuns, SwapOK, LinksOK, PruneOK,
        RemovalOK, Installed
<1>2. CASE Install
    BY <1>2, PositionSteps, SwapSteps, UndoSteps, BarrierStep, BackupStep, PruneSteps, LinkSteps,
        RecordSteps DEF Install
<1>3. CASE Uninstall
    BY <1>3, PositionSteps, EraseSteps, LinkSteps, RecordSteps DEF Uninstall
<1>4. CASE Errors
    BY <1>4, PositionSteps, UndoSteps, LinkSteps, RecordSteps DEF Errors
<1>5. CASE \E v \in 0 .. NumVersions : SetWant(v)
    BY <1>5, PositionSteps
<1>6. CASE Crash
    BY <1>6, PositionSteps
<1>7. CASE PowerLoss
    BY <1>7, PowerLossStep
<1> QED
    BY <1>1, <1>2, <1>3, <1>4, <1>5, <1>6, <1>7 DEF Next

-----------------------------------------------------------------------------
(* The theorems.                                                           *)

\* Every step of the specification, from any start, satisfies IInv.
THEOREM Inductive == Safe => []IInv
BY InitInv, StepInv, PTL DEF Safe

\* Every variable keeps its type: no install of opt/<name>, bin or the state
\* file leaves an entry, a link or a record of another shape.
THEOREM TypeCorrect == Safe => []TypeOK
<1>1. IInv => TypeOK
    BY DEF IInv
<1> QED
    BY <1>1, Inductive, PTL

\* Whatever the state file may name after a power loss, installTool has made
\* its tree complete and durable, unless a reinstall or a removal of that very
\* version was cut short.
THEOREM RecordedStaysWhole == Safe => []RecordedIsWhole
<1>1. IInv => RecordedIsWhole
    BY DEF IInv
<1> QED
    BY <1>1, Inductive, PTL

\* A recorded executable that is on PATH runs from a complete tree, whatever
\* linkBin, the prune, errors, crashes and power losses did.
THEOREM PathAlwaysRuns == Safe => []PathRuns
<1>1. IInv => PathRuns
    BY DEF IInv
<1> QED
    BY <1>1, Inductive, PTL

\* commitInstall records a version only over a durable tree and durable links.
THEOREM RecordsFollowPath == Safe => RecordFollowsPath
<1>1. IInv => (pc = "committing" /\ rec' = Installed =>
        /\ \A t \in trees : t[Live(rec'.ver)] = "whole"
        /\ \A l \in links, b \in rec'.bins : l[b] = rec'.ver)
    BY DEF IInv, SwapOK, LinksOK, SettledPcs, Installed
<1> QED
    BY <1>1, Inductive, PTL DEF RecordFollowsPath

\* A prune that ends leaves the tool installed: recorded, linked and complete
\* (verifyInstalled, pruneSuperseded).
THEOREM DoneInstalled == Safe => DoneIsInstalled
<1>1. IInv /\ [Next]_vars => (pc = "pruning" /\ pc' = "idle" /\ events' = events =>
        /\ rec' = Installed
        /\ \A b \in rec'.bins : link'[b] = rec'.ver
        /\ tree'[Live(rec'.ver)] = "whole")
    <2> SUFFICES ASSUME IInv, [Next]_vars, pc = "pruning", pc' = "idle", events' = events
                 PROVE  /\ rec' = Installed
                        /\ \A b \in rec'.bins : link'[b] = rec'.ver
                        /\ tree'[Live(rec'.ver)] = "whole"
        OBVIOUS
    <2>1. ~Event
        BY DEF Event, IInv, TypeOK
    <2>2. UNCHANGED disk
        BY <2>1 DEF vars, Next, Install, Uninstall, Errors, SetWant, BeginInstall, Stage, Extract,
            Flush, ClearBackup, MoveAside, Rename, Barrier, BarrierFails, Undo, Restore, StageFails,
            Clean, DropBackup, Unlink, Symlink, BinBarrier, BinBarrierFails, Relink, LinkFails,
            LinksMade, Commit, CommitFails, Verify, VerifyFails, PruneBegins, PruneEnds, Done,
            BeginUninstall, RemoveLink, EraseBegins, Erase, EraseFails, Drop, DropFails, Crash,
            PowerLoss, Goto
    <2>3. /\ rec = Installed
          /\ \A b \in Declares[target] : link[b] = target
          /\ tree[Live(target)] = "whole"
        BY DEF IInv, TypeOK, SwapOK, LinksOK, PruneOK, SettledPcs
    <2> QED
        BY <2>2, <2>3 DEF disk, Installed
<1> QED
    BY <1>1, Inductive, PTL DEF Safe, DoneIsInstalled
=============================================================================
