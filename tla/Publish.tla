------------------------------ MODULE Publish ------------------------------
(***************************************************************************)
(* How one tool gets on disk and off it: the staged swap, the bin links,   *)
(* the state record, the prune of install.go and engine.go, and the        *)
(* uninstall, over errors, process crashes and power losses.               *)
(*                                                                         *)
(* Each of three directories (the tool's opt/<name>, bin, and the one that *)
(* holds the state file) has its content now and the set of contents a     *)
(* power loss may leave: every one it had since its last fsync.  The three *)
(* roll back independently.                                                *)
(***************************************************************************)
EXTENDS Integers, FiniteSets

CONSTANTS
    NumVersions,    \* the tool's versions are 1..NumVersions
    Bins,           \* names in bin/
    Declares,       \* version -> the executables it declares
    KeepVersions,   \* Config.KeepVersions
    MaxEvents       \* bound of the model: calls, errors, crashes, power losses

Versions == 1 .. NumVersions

ASSUME PublishAssumption ==
    /\ NumVersions \in Nat
    /\ Declares \in [Versions -> SUBSET Bins]
    /\ KeepVersions \in Int
    /\ MaxEvents \in Nat

VARIABLES
    want,       \* the version the manifest asks for, 0 when disabled or gone
    tree,       \* opt/<name>: what each entry holds
    trees,      \* what a power loss may leave of it
    age,        \* the rank of each version tree's mtime, larger is later
    link,       \* bin/<b>: the version the link leads to, 0 when absent
    links,
    rec,        \* ToolStatus in tools-state.json
    recs,
    unsettled,  \* history: versions whose publication or removal is unfinished
    pc,         \* where the job is
    target,     \* the version being installed
    todo,       \* links to make or remove
    victims,    \* entries to prune
    victim,     \* the one being deleted
    cur,        \* the link in hand
    was,        \* what a failing step restores: the rank of the tree set aside,
                \* or where the link in hand led
    events

disk == <<tree, trees, age, link, links, rec, recs>>
job  == <<target, todo, victims, victim, cur, was>>
vars == <<want, disk, unsettled, pc, job, events>>

\* Entries of opt/<name>: a version tree and its two transient names.
Live(v)    == <<"live", v>>
Staging(v) == <<"staging", v>>
Backup(v)  == <<"old", v>>
Entries    == {"live", "staging", "old"} \X Versions

\* A tree is absent, partly there, extracted but not flushed, or complete.
Contents == {"none", "torn", "unflushed", "whole"}

NoBin   == "none"
NoEntry == <<"none", 0>>
NoRec  == [ver |-> 0, bins |-> {}]
Record == [ver : 0 .. NumVersions, bins : SUBSET Bins]

InstallPcs == {"staging", "extracting", "flushing", "clearing", "moving", "publishing", "barrier",
               "undoing", "restoring", "cleaning", "dropping", "linking", "symlinking",
               "binbarrier", "relinking", "committing", "verifying", "pruning", "deleting"}
UninstallPcs == {"unlinking", "erasing", "recording"}

TypeOK ==
    /\ want \in 0 .. NumVersions
    /\ trees \subseteq [Entries -> Contents] /\ tree \in trees
    /\ age \in [Versions -> Int]
    /\ links \subseteq [Bins -> 0 .. NumVersions] /\ link \in links
    /\ recs \subseteq Record /\ rec \in recs
    /\ unsettled \subseteq Versions
    /\ pc \in {"idle"} \cup InstallPcs \cup UninstallPcs
    /\ target \in 0 .. NumVersions
    /\ pc \in InstallPcs => target # 0
    /\ todo \subseteq Bins
    /\ victims \subseteq Entries
    /\ victim \in Entries \cup {NoEntry}
    /\ cur \in Bins \cup {NoBin}
    /\ pc \in {"symlinking", "binbarrier", "relinking"} => cur \in Bins
    /\ pc = "deleting" => victim \in Entries
    /\ was \in Int
    /\ events \in 0 .. MaxEvents

\* An empty tool, or one an earlier session installed.
Init ==
    /\ want \in 0 .. NumVersions
    /\ tree = [e \in Entries |-> IF want # 0 /\ e = Live(want) THEN "whole" ELSE "none"]
    /\ trees = {tree}
    /\ age = [v \in Versions |-> v]
    /\ link = [b \in Bins |-> IF want # 0 /\ b \in Declares[want] THEN want ELSE 0]
    /\ links = {link}
    /\ rec = IF want = 0 THEN NoRec ELSE [ver |-> want, bins |-> Declares[want]]
    /\ recs = {rec}
    /\ unsettled = {}
    /\ pc = "idle"
    /\ target = 0 /\ todo = {} /\ victims = {} /\ victim = NoEntry /\ cur = NoBin /\ was = 0
    /\ events = 0

-----------------------------------------------------------------------------
(* Writes.  A flush is fsyncDir.                                           *)

\* Calls, errors, crashes and power losses are bounded together.
Event == events < MaxEvents /\ events' = events + 1

Tree(t) == tree' = t /\ trees' = trees \cup {t}
Link(l) == link' = l /\ links' = links \cup {l}

Put(e, c)  == [tree EXCEPT ![e] = c]
Move(a, b) == [tree EXCEPT ![b] = tree[a], ![a] = "none"]

\* The rank of v's mtime once its directory has just changed.
Touched(v) == [u \in Versions |->
    IF u = v THEN NumVersions ELSE IF age[u] > age[v] THEN age[u] - 1 ELSE age[u]]

\* ... and once a tree with rank k is back in its place.
PutBack(v, k) ==
    IF age[v] = k THEN age
    ELSE [u \in Versions |-> IF u = v THEN k ELSE IF age[u] >= k THEN age[u] + 1 ELSE age[u]]

\* recordFailure's state write, which keeps the version and the bins.
Restated == link' = link /\ rec' = rec /\ recs' \in {recs, {rec}}

Goto(p) == pc' = p /\ UNCHANGED job

EndJob ==
    /\ pc' = "idle"
    /\ target' = 0 /\ todo' = {} /\ victims' = {} /\ victim' = NoEntry
    /\ cur' = NoBin /\ was' = 0

treeOnly == <<age, link, links, rec, recs>>
linkOnly == <<tree, trees, age, rec, recs>>

-----------------------------------------------------------------------------
(* The probe and the manifest.                                             *)

\* probeBins: every recorded executable is there.
Present == \A b \in rec.bins : link[b] # 0 /\ tree[Live(link[b])] # "none"

\* Add, Patch, Remove, or an update: another version, or none.
SetWant(v) ==
    /\ Event
    /\ v # want
    /\ want' = v
    /\ UNCHANGED <<disk, unsettled, pc, job>>

-----------------------------------------------------------------------------
(* Staging.                                                                *)

\* Mutant: the record decides alone.
BeginByRecord ==
    /\ pc = "idle"
    /\ want # 0
    /\ rec.ver # want
    /\ target' = want
    /\ pc' = "staging"
    /\ UNCHANGED <<want, disk, unsettled, todo, victims, victim, cur, was, events>>

\* installTool goes past "already installed"; a probe may also fail on a
\* sound install, which is an event.
BeginInstall ==
    /\ pc = "idle"
    /\ want # 0
    /\ IF rec.ver = want /\ Present THEN Event ELSE UNCHANGED events
    /\ target' = want
    /\ pc' = "staging"
    /\ UNCHANGED <<want, disk, unsettled, todo, victims, victim, cur, was>>

\* stageArtifact: an older staging tree goes, the new one is begun.
Stage ==
    /\ pc = "staging"
    /\ Tree(Put(Staging(target), "torn"))
    /\ Goto("extracting")
    /\ UNCHANGED <<want, treeOnly, unsettled, events>>

\* Extracted, and its declared executables resolved.
Extract ==
    /\ pc = "extracting"
    /\ Tree(Put(Staging(target), "unflushed"))
    /\ Goto("flushing")
    /\ UNCHANGED <<want, treeOnly, unsettled, events>>

\* Mutant: the flush is forgotten.
NoFlush ==
    /\ pc = "flushing"
    /\ Goto("clearing")
    /\ UNCHANGED <<want, disk, unsettled, events>>

\* syncTree.
Flush ==
    /\ pc = "flushing"
    /\ Tree(Put(Staging(target), "whole"))
    /\ Goto("clearing")
    /\ UNCHANGED <<want, treeOnly, unsettled, events>>

-----------------------------------------------------------------------------
(* publishStaged.                                                          *)

ClearBackup ==
    /\ pc = "clearing"
    /\ Tree(Put(Backup(target), "none"))
    /\ Goto("moving")
    /\ UNCHANGED <<want, treeOnly, unsettled, events>>

\* A reinstall sets the live tree of the version aside.
MoveAside ==
    /\ pc = "moving"
    /\ Tree(IF tree[Live(target)] # "none" THEN Move(Live(target), Backup(target)) ELSE tree)
    /\ unsettled' = unsettled \cup {target}
    /\ was' = age[target]
    /\ pc' = "publishing"
    /\ UNCHANGED <<want, treeOnly, target, todo, victims, victim, cur, events>>

\* The staged tree goes live with the time it was made.
Rename ==
    /\ pc = "publishing"
    /\ Tree(Move(Staging(target), Live(target)))
    /\ age' = Touched(target)
    /\ Goto("barrier")
    /\ UNCHANGED <<want, link, links, rec, recs, unsettled, events>>

\* Mutant: the rename is not flushed.
NoBarrier ==
    /\ pc = "barrier"
    /\ unsettled' = unsettled \ {target}
    /\ Goto("dropping")
    /\ UNCHANGED <<want, disk, events>>

\* fsyncDir of opt/<name>; the stamp that follows leaves the tree the latest.
Barrier ==
    /\ pc = "barrier"
    /\ trees' = {tree}
    /\ unsettled' = unsettled \ {target}
    /\ Goto("dropping")
    /\ UNCHANGED <<want, tree, treeOnly, events>>

\* A failed fsync: the published tree goes, and the backup comes back.
BarrierFails ==
    /\ pc = "barrier"
    /\ Event
    /\ Tree(Put(Live(target), "torn"))
    /\ Goto("undoing")
    /\ UNCHANGED <<want, treeOnly, unsettled>>

\* Its removal ends, or fails unnoticed.
Undo ==
    /\ pc = "undoing"
    /\ \/ Tree(Put(Live(target), "none")) /\ UNCHANGED events
       \/ UNCHANGED <<tree, trees>> /\ Event
    /\ Goto("restoring")
    /\ UNCHANGED <<want, treeOnly, unsettled>>

\* restoreBackup, which a tree in its place defeats.
Restore ==
    /\ pc = "restoring"
    /\ IF tree[Backup(target)] # "none" /\ tree[Live(target)] = "none"
       THEN Tree(Move(Backup(target), Live(target))) /\ age' = PutBack(target, was)
       ELSE UNCHANGED <<tree, trees, age>>
    /\ Goto("cleaning")
    /\ UNCHANGED <<want, link, links, rec, recs, unsettled, events>>

\* A failure before the swap, and the failed rename.
StageFails ==
    /\ pc \in {"staging", "extracting", "flushing", "clearing", "moving", "publishing"}
    /\ Event
    /\ Goto(IF pc = "publishing" THEN "restoring" ELSE "cleaning")
    /\ UNCHANGED <<want, disk, unsettled>>

\* extractAndSwap's cleanup, and the failure on record.
Clean ==
    /\ pc = "cleaning"
    /\ Tree(Put(Staging(target), "none"))
    /\ Restated /\ links' = links
    /\ EndJob
    /\ UNCHANGED <<want, age, unsettled, events>>

\* Mutant: a link that exists is taken for made.
DropBackupLinksNew ==
    /\ pc = "dropping"
    /\ Tree(Put(Backup(target), "none")) /\ UNCHANGED events
    /\ pc' = "linking"
    /\ todo' = {b \in Declares[target] : link[b] = 0}
    /\ UNCHANGED <<want, treeOnly, unsettled, target, victims, victim, cur, was>>

\* The backup goes, or what is left of it stays.
DropBackup ==
    /\ pc = "dropping"
    /\ \/ Tree(Put(Backup(target), "none")) /\ UNCHANGED events
       \/ tree[Backup(target)] # "none" /\ Tree(Put(Backup(target), "torn")) /\ Event
    /\ pc' = "linking"
    /\ todo' = Declares[target]
    /\ UNCHANGED <<want, treeOnly, unsettled, target, victims, victim, cur, was>>

-----------------------------------------------------------------------------
(* linkDeclaredBins and linkBin.                                           *)

Unlink(b) ==
    /\ pc = "linking"
    /\ b \in todo
    /\ cur' = b
    /\ was' = link[b]
    /\ Link([link EXCEPT ![b] = 0])
    /\ pc' = "symlinking"
    /\ UNCHANGED <<want, linkOnly, unsettled, target, todo, victims, victim, events>>

Symlink ==
    /\ pc = "symlinking"
    /\ Link([link EXCEPT ![cur] = target])
    /\ Goto("binbarrier")
    /\ UNCHANGED <<want, linkOnly, unsettled, events>>

\* Mutant: bin/ is not flushed.
NoBinBarrier ==
    /\ pc = "binbarrier"
    /\ todo' = todo \ {cur}
    /\ pc' = "linking"
    /\ UNCHANGED <<want, disk, unsettled, target, victims, victim, cur, was, events>>

\* fsyncDir of bin/.
BinBarrier ==
    /\ pc = "binbarrier"
    /\ links' = {link}
    /\ todo' = todo \ {cur}
    /\ pc' = "linking"
    /\ UNCHANGED <<want, linkOnly, link, unsettled, target, victims, victim, cur, was, events>>

\* A failed fsync removes the new link and then puts the previous one back.
BinBarrierFails ==
    /\ pc = "binbarrier"
    /\ Event
    /\ Link([link EXCEPT ![cur] = 0])
    /\ Goto("relinking")
    /\ UNCHANGED <<want, linkOnly, unsettled>>

Relink ==
    /\ pc = "relinking"
    /\ Link([link EXCEPT ![cur] = was])
    /\ rec' = rec /\ recs' \in {recs, {rec}}
    /\ EndJob
    /\ UNCHANGED <<want, tree, trees, age, unsettled, events>>

\* Removing the old link or making the new one fails.
LinkFails ==
    /\ \/ pc = "linking" /\ todo # {}
       \/ pc = "symlinking"
    /\ Event
    /\ Restated /\ links' = links
    /\ EndJob
    /\ UNCHANGED <<want, tree, trees, age, unsettled>>

LinksMade ==
    /\ pc = "linking"
    /\ todo = {}
    /\ Goto("committing")
    /\ UNCHANGED <<want, disk, unsettled, events>>

-----------------------------------------------------------------------------
(* commitInstall, verifyInstalled and pruneSuperseded.                     *)

Installed == [ver |-> target, bins |-> Declares[target]]

\* The commit point: the state file durably names the version.
Commit ==
    /\ pc = "committing"
    /\ rec' = Installed
    /\ recs' = {Installed}
    /\ Goto("verifying")
    /\ UNCHANGED <<want, tree, trees, age, link, links, unsettled, events>>

\* The write fails, or lands and may not last (errNotDurable).
CommitFails ==
    /\ pc = "committing"
    /\ Event
    /\ \/ UNCHANGED <<rec, recs>>
       \/ rec' = Installed /\ recs' = recs \cup {Installed}
    /\ EndJob
    /\ UNCHANGED <<want, tree, trees, age, link, links, unsettled>>

\* retain.Keep.
Keep(n) == IF n = 0 THEN 1 ELSE IF n < 0 THEN 0 ELSE n

\* The predecessors that rank before v.
Ahead(v) == {u \in Versions \ {target} : tree[Live(u)] # "none" /\ age[u] > age[v]}

\* retain.Victims, every predecessor taken for a Fallback.
Victims ==
    {v \in Versions \ {target} : tree[Live(v)] # "none" /\ Cardinality(Ahead(v)) >= Keep(KeepVersions)}

\* The probe passes: what pruneOldVersions will delete is listed.
Verify ==
    /\ pc = "verifying"
    /\ Present
    /\ victims' = {Live(v) : v \in Victims} \cup
                  {e \in Entries : e[1] # "live" /\ tree[e] # "none"}
    /\ pc' = "pruning"
    /\ UNCHANGED <<want, disk, unsettled, target, todo, victim, cur, was, events>>

VerifyFails ==
    /\ pc = "verifying"
    /\ Event
    /\ Restated /\ links' = links
    /\ EndJob
    /\ UNCHANGED <<want, tree, trees, age, unsettled>>

\* RemoveAll begins on a victim, which touches its directory.
PruneBegins(e) ==
    /\ pc = "pruning"
    /\ e \in victims
    /\ Tree(Put(e, "torn"))
    /\ age' = IF e[1] = "live" THEN Touched(e[2]) ELSE age
    /\ victims' = victims \ {e}
    /\ victim' = e
    /\ pc' = "deleting"
    /\ UNCHANGED <<want, link, links, rec, recs, unsettled, target, todo, cur, was, events>>

\* It ends, or fails and leaves the rest.
PruneEnds ==
    /\ pc = "deleting"
    /\ \/ Tree(Put(victim, "none")) /\ UNCHANGED events
       \/ UNCHANGED <<tree, trees>> /\ Event
    /\ Goto("pruning")
    /\ UNCHANGED <<want, treeOnly, unsettled>>

Done ==
    /\ pc = "pruning"
    /\ victims = {}
    /\ EndJob
    /\ UNCHANGED <<want, disk, unsettled, events>>

-----------------------------------------------------------------------------
(* uninstall and dropToolStatus.                                           *)

\* The tool is not wanted and is owned; Remove also runs it when it is not.
BeginUninstall ==
    /\ pc = "idle"
    /\ want = 0
    /\ IF rec.ver = 0 THEN Event ELSE UNCHANGED events
    /\ unsettled' = Versions
    /\ todo' = rec.bins
    /\ pc' = "unlinking"
    /\ UNCHANGED <<want, disk, target, victims, victim, cur, was>>

\* os.Remove of a recorded link, whose error is ignored.
RemoveLink(b) ==
    /\ pc = "unlinking"
    /\ b \in todo
    /\ \/ Link([link EXCEPT ![b] = 0]) /\ UNCHANGED events
       \/ link[b] # 0 /\ UNCHANGED <<link, links>> /\ Event
    /\ todo' = todo \ {b}
    /\ UNCHANGED <<want, linkOnly, unsettled, pc, target, victims, victim, cur, was>>

\* RemoveAll of opt/<name> begins.
EraseBegins ==
    /\ pc = "unlinking"
    /\ todo = {}
    /\ Tree([e \in Entries |-> IF tree[e] = "none" THEN "none" ELSE "torn"])
    /\ Goto("erasing")
    /\ UNCHANGED <<want, treeOnly, unsettled, events>>

Erase ==
    /\ pc = "erasing"
    /\ Tree([e \in Entries |-> "none"])
    /\ Goto("recording")
    /\ UNCHANGED <<want, treeOnly, unsettled, events>>

EraseFails ==
    /\ pc = "erasing"
    /\ Event
    /\ EndJob
    /\ UNCHANGED <<want, disk, unsettled>>

\* dropToolStatus.
Drop ==
    /\ pc = "recording"
    /\ rec' = NoRec
    /\ recs' = {NoRec}
    /\ EndJob
    /\ UNCHANGED <<want, tree, trees, age, link, links, unsettled, events>>

DropFails ==
    /\ pc = "recording"
    /\ Event
    /\ \/ UNCHANGED <<rec, recs>>
       \/ rec' = NoRec /\ recs' = recs \cup {NoRec}
    /\ EndJob
    /\ UNCHANGED <<want, tree, trees, age, link, links, unsettled>>

-----------------------------------------------------------------------------

\* The process dies between two steps; the files are as they were.
Crash ==
    /\ Event
    /\ pc # "idle"
    /\ EndJob
    /\ UNCHANGED <<want, disk, unsettled>>

\* The power fails: each directory is as it was at some moment since its last
\* flush, and what was not flushed of a tree is torn.
PowerLoss ==
    /\ Event
    /\ \E t \in trees : tree' = [e \in Entries |-> IF t[e] = "unflushed" THEN "torn" ELSE t[e]]
    /\ link' \in links
    /\ rec' \in recs
    /\ trees' = {tree'} /\ links' = {link'} /\ recs' = {rec'}
    /\ EndJob
    /\ UNCHANGED <<want, age, unsettled>>

Install ==
    \/ BeginInstall \/ Stage \/ Extract \/ Flush \/ ClearBackup \/ MoveAside \/ Rename
    \/ Barrier \/ Undo \/ Restore \/ Clean \/ DropBackup
    \/ \E b \in Bins : Unlink(b)
    \/ Symlink \/ BinBarrier \/ Relink \/ LinksMade
    \/ Commit \/ Verify \/ PruneEnds \/ Done
    \/ \E e \in Entries : PruneBegins(e)

Uninstall ==
    \/ BeginUninstall \/ EraseBegins \/ Erase \/ Drop
    \/ \E b \in Bins : RemoveLink(b)

Errors ==
    \/ StageFails \/ BarrierFails \/ BinBarrierFails \/ LinkFails
    \/ CommitFails \/ VerifyFails \/ EraseFails \/ DropFails

Next ==
    \/ \E v \in 0 .. NumVersions : SetWant(v)
    \/ Install \/ Uninstall \/ Errors
    \/ Crash \/ PowerLoss

Safe == Init /\ [][Next]_vars

\* The worker goes on, and what is not as the manifest wants is reconciled
\* again: a host calls Reconcile at startup, and any later one repairs.
Spec == Safe /\ WF_vars(Install \/ Uninstall)
-----------------------------------------------------------------------------
(* Safety.                                                                 *)

\* Whatever record the state file may hold after a power loss, the version it
\* names has its complete tree in whatever opt/<name> may hold: nothing of a
\* version is pruned before its successor is durably recorded, and no version
\* is recorded before its tree is durable (installTool, publishStaged).  The
\* exception is a version whose own reinstall or removal was interrupted.
RecordedIsWhole ==
    \A r \in recs, t \in trees :
        r.ver \in Versions \ unsettled => t[Live(r.ver)] = "whole"

\* An executable the engine recorded, when it is on PATH, runs from a complete
\* tree, of whatever version, after any error, crash or power loss (linkBin,
\* pruneOldVersions, restoreBackup).  The same exception holds.
PathRuns ==
    \A r \in recs, l \in links, t \in trees : \A b \in r.bins :
        l[b] \in Versions \ unsettled => t[Live(l[b])] = "whole"

-----------------------------------------------------------------------------
(* The inductive invariant behind the two: what the job's position says of *)
(* the trees, the links and the record.                                    *)

\* Positions after the barrier: the target's tree is durably complete.
SettledPcs == {"dropping", "linking", "symlinking", "binbarrier", "relinking",
               "committing", "verifying", "pruning", "deleting"}

\* The swap moves a complete tree, and only one whose version is unsettled.
SwapOK ==
    /\ pc \in {"clearing", "moving", "publishing"} => tree[Staging(target)] = "whole"
    /\ pc = "barrier" => tree[Live(target)] = "whole"
    /\ pc \in {"publishing", "barrier", "undoing", "restoring"} => target \in unsettled
    /\ pc \in SettledPcs =>
        target \notin unsettled /\ \A t \in trees : t[Live(target)] = "whole"

\* The links made so far lead to the target, and the one in hand led nowhere
\* that is torn.
LinksOK ==
    /\ pc \in {"linking", "symlinking", "binbarrier", "committing", "verifying", "pruning", "deleting"} =>
        \A b \in Declares[target] \ todo, l \in links : l[b] = target
    /\ pc \in {"committing", "verifying", "pruning", "deleting"} => todo = {}
    /\ pc = "binbarrier" => link[cur] = target
    /\ pc \in {"symlinking", "binbarrier"} => cur \in todo
    /\ pc \in {"symlinking", "binbarrier", "relinking"} =>
        /\ was \in 0 .. NumVersions
        /\ \A r \in recs, t \in trees :
            cur \in r.bins /\ was \in Versions \ unsettled => t[Live(was)] = "whole"

\* The prune begins with the target durably recorded, and spares it.
PruneOK ==
    /\ pc \in {"verifying", "pruning", "deleting"} => recs = {Installed}
    /\ pc \in {"pruning", "deleting"} => Live(target) \notin victims
    /\ pc = "deleting" => victim # Live(target)

\* An uninstall has given every tree up.
RemovalOK == pc \in UninstallPcs => unsettled = Versions

IInv == TypeOK /\ RecordedIsWhole /\ PathRuns /\ SwapOK /\ LinksOK /\ PruneOK /\ RemovalOK

-----------------------------------------------------------------------------
(* Action properties.                                                      *)

\* A version is recorded once its tree and every link it declares would
\* survive a power loss (the install's commit point).
RecordFollowsPath ==
    [][pc = "committing" /\ rec' = Installed =>
        /\ \A t \in trees : t[Live(rec'.ver)] = "whole"
        /\ \A l \in links, b \in rec'.bins : l[b] = rec'.ver]_vars

\* A done job never leaves a tool that Reconcile would install again
\* (verifyInstalled): the prune takes nothing the recorded links lead to.
DoneIsInstalled ==
    [][pc = "pruning" /\ pc' = "idle" /\ events' = events =>
        /\ rec' = Installed
        /\ \A b \in rec'.bins : link'[b] = rec'.ver
        /\ tree'[Live(rec'.ver)] = "whole"]_vars

\* "a bad update always has a previous tree under <ToolsDir>/opt/<name>/ to fall
\* back to" (install.go:181): while a predecessor is to be kept, a prune does
\* not delete the last complete one.
LastWholeKept ==
    [][\A v \in Versions :
        (/\ Keep(KeepVersions) > 0
         /\ pc = "pruning" /\ pc' = "deleting" /\ victim' = Live(v)
         /\ tree[Live(v)] = "whole")
        => \E u \in Versions \ {v, target} : tree[Live(u)] = "whole"]_vars

-----------------------------------------------------------------------------
(* Liveness.                                                               *)

\* "a retry converges" (commitInstall): after the last error, crash and change
\* of mind, the tool is recorded and on PATH at the wanted version, or gone.
Converges ==
    <>[](pc = "idle" /\ rec.ver = want /\ Present)
=============================================================================
