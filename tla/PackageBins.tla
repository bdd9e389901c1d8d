----------------------------- MODULE PackageBins -----------------------------
(***************************************************************************)
(* What a tool that a package manager or a shell command installs owns on  *)
(* PATH (install.go: binDiff, ownedBins, linkPMBins, uninstall).  Such a   *)
(* tool declares no executables: the engine takes what appeared in a       *)
(* directory while the command ran for the tool's, unites it with what it  *)
(* had recorded, links it into bin/ when the directory is the package      *)
(* manager's own, and removes on uninstall what it recorded.               *)
(*                                                                         *)
(* One tool and one worker; the command, the job and the process may end   *)
(* between any two steps.  The executables' names are the tool's alone.    *)
(* Planning, queue limits and cancels are Engine's and JobQueue's.         *)
(***************************************************************************)
EXTENDS Integers, Sequences

CONSTANTS
    Sources,    \* sources of the model
    Linked,     \* those with a directory of their own, linked into bin/: npm, pip
    Tidy,       \* those that remove a replaced version's executables: npm, pip, cargo
    Proven,     \* those whose package names its version and executables: npm
    Shell,      \* manual: installed by the row's command, which puts the probe there
    Conv,       \* source -> derivedProbeName, pkgBinName
    Names,
    Ships,      \* version -> the executables the package has then
    QueueCap,
    Events,
    MaxEvents

Versions == DOMAIN Ships

ASSUME BinsAssumption ==
    /\ Linked \subseteq Sources /\ Proven \subseteq Linked /\ Tidy \subseteq Sources
    /\ Shell \subseteq Sources \ Linked
    /\ Conv \in [Sources -> Names]
    /\ Versions \subseteq Nat \ {0}
    /\ Ships \in [Versions -> SUBSET Names]
    /\ QueueCap \in Nat \ {0} /\ MaxEvents \in Nat

VARIABLES
    src,        \* the row's source
    row,        \* Tool.Version, 0 without a row
    rec,        \* ToolStatus: InstalledVersion, and Bins or PMBins
    dir,        \* the directory binDiff reads
    pack,       \* the version in the installed package.json; 0 when there is none to read
    links,      \* for a linked source, the names bin/ has links for
    queue,      \* jobs pending
    pc,         \* the worker
    want,       \* the version the job installs
    before,     \* binDiff's snapshot
    owned,      \* the names the install found
    todo,       \* of those, or of the recorded ones, what is left to link or remove
    events,
    stale,      \* history: what no record named in the directory when the install began
    lost        \* history: what an install put there, or linked, and did not record

history == <<stale, lost>>
jobVars == <<want, before, owned, todo>>
vars == <<src, row, rec, dir, pack, links, queue, pc, jobVars, events, history>>

Event(e) == e \in Events /\ events < MaxEvents /\ events' = events + 1

NoRecord == [ver |-> 0, bins |-> {}]
Jobs == {"install", "uninstall", "reconcile"}
Pcs  == {"idle", "running", "linking", "committing", "verifying",
         "purging", "removing", "dropping"}

TypeOK ==
    /\ src \in Sources
    /\ row \in Versions \cup {0}
    /\ rec \in [ver : Versions \cup {0}, bins : SUBSET Names]
    /\ pack \in Versions \cup {0}
    /\ dir \subseteq Names /\ links \subseteq Names
    /\ queue \in Seq(Jobs)
    /\ pc \in Pcs
    /\ want \in Versions \cup {0}
    /\ before \subseteq Names /\ owned \subseteq Names /\ todo \subseteq Names
    /\ events \in 0 .. MaxEvents
    /\ stale \subseteq Names /\ lost \subseteq Names

Init ==
    /\ src \in Sources
    /\ row = 0 /\ rec = NoRecord /\ dir = {} /\ pack = 0 /\ links = {}
    /\ queue = <<>>
    /\ pc = "idle" /\ want = 0 /\ before = {} /\ owned = {} /\ todo = {}
    /\ events = 0
    /\ stale = {} /\ lost = {}

\* What runs from bin/.
OnPath == IF src \in Linked THEN links \cap dir ELSE dir

-----------------------------------------------------------------------------
(* Callers.                                                                *)

Enqueue(r, k) ==
    /\ Len(queue) < QueueCap
    /\ row' = r
    /\ queue' = Append(queue, k)
    /\ UNCHANGED <<src, rec, dir, pack, links, pc, jobVars, history>>

Add(v)    == Event("add") /\ row = 0 /\ Enqueue(v, "install")
Update(v) == Event("update") /\ row \notin {0, v} /\ Enqueue(v, "install")
Remove    == Event("remove") /\ row # 0 /\ Enqueue(0, "uninstall")
Reconcile == Event("reconcile") /\ Enqueue(row, "reconcile")

-----------------------------------------------------------------------------
(* Ownership.                                                              *)

\* probeNpmPackage: a package without executables decides by its version, any
\* other leaves it to the executables.
PackageDecides == src \in Proven /\ rec.bins = {} /\ pack # 0 /\ Ships[pack] = {}

\* recordedBins and probeBins: the recorded names, or the conventional one.
Present ==
    IF PackageDecides THEN rec.ver \in {0, pack}
    ELSE (IF rec.bins = {} THEN {Conv[src]} ELSE rec.bins) \subseteq OnPath

\* converged: a tool without a record is left alone.
Converged == rec.ver \in {0, row} /\ Present

\* installTool: already installed.
Installed == rec.ver = row /\ Present

\* Mutant: what the record named is forgotten.
OwnedByDiff(d, added) ==
    IF added = {} THEN {Conv[src]} \cap d ELSE added

\* Mutant: what appeared counts only when the record names nothing.
OwnedByRecord(d, added) ==
    IF rec.bins \cap d # {} THEN rec.bins \cap d ELSE added

\* ownedBins: the recorded names still there, what the diff saw appear, and,
\* when that is nothing, the conventional name.
OwnedBins(d, added) ==
    LET known == (rec.bins \cap d) \cup added
    IN  IF known = {} THEN {Conv[src]} \cap d ELSE known

\* What the command leaves when it succeeds.
Landed == (IF src \in Tidy THEN {} ELSE dir) \cup Ships[want]

\* What binDiff reports for it; a manual tool's probe is its own in any case.
Added == (Landed \ before) \cup (IF src \in Shell THEN {Conv[src]} ELSE {})

\* Or what is there when it is cut short: some of it.
CutShort == {dir \cup s : s \in SUBSET Ships[want]} \cup {Landed}

\* The package.json a command that succeeds leaves, or one cut short.
Packed(done) ==
    IF src \notin Proven THEN UNCHANGED pack
    ELSE IF done THEN pack' = want
    ELSE pack' \in {pack, want, 0}

-----------------------------------------------------------------------------
(* An install.                                                             *)

Rest == pc' = "idle" /\ want' = 0 /\ before' = {} /\ owned' = {} /\ todo' = {}

\* The install failed, or died, with d in the directory.
Loses(d) == lost' = lost \cup (((d \ before) \cup owned) \ rec.bins)

\* installTool.
Install ==
    IF row # 0 /\ ~Installed
    THEN /\ pc' = "running"
         /\ want' = row
         /\ before' = dir
         /\ stale' = dir \ rec.bins
         /\ UNCHANGED <<owned, todo, lost>>
    ELSE UNCHANGED <<pc, jobVars, history>>

\* uninstall, of the source's package or, for an orphaned record, of the
\* recorded names only (sweepOrphans).
Uninstall(p) ==
    /\ pc' = p
    /\ todo' = rec.bins
    /\ UNCHANGED <<want, before, owned, history>>

Take ==
    /\ pc = "idle" /\ queue # <<>>
    /\ queue' = Tail(queue)
    /\ LET reconciles == Head(queue) = "reconcile"
           sweeps     == reconciles /\ row = 0 /\ rec # NoRecord
           leaves     == reconciles /\ row # 0 /\ Converged
       IN  CASE Head(queue) = "uninstall" -> Uninstall("purging")
             [] sweeps                    -> Uninstall("removing")
             [] leaves                    -> UNCHANGED <<pc, jobVars, history>>
             [] OTHER                     -> Install
    /\ UNCHANGED <<src, row, rec, dir, pack, links, events>>

\* binDiff over the command, then ownedBins; a manual tool's probe must be there.
Run ==
    /\ pc = "running"
    /\ src \in Shell => Conv[src] \in Landed
    /\ dir' = Landed /\ Packed(TRUE)
    /\ owned' = OwnedBins(Landed, Added)
    /\ IF src \in Linked THEN pc' = "linking" /\ todo' = owned'
                         ELSE pc' = "committing" /\ UNCHANGED todo
    /\ UNCHANGED <<src, row, rec, links, queue, want, before, events, history>>

\* The command fails or is killed, or installs no probe.
RunFails ==
    /\ pc = "running"
    /\ \/ Event("fail") /\ \E d \in CutShort : dir' = d
       \/ src \in Shell /\ Conv[src] \notin Landed /\ dir' = Landed /\ UNCHANGED events
    /\ Packed(FALSE)
    /\ Loses(dir')
    /\ Rest
    /\ UNCHANGED <<src, row, rec, links, queue, stale>>

\* linkPMBins, one name at a time.
Link(b) ==
    /\ pc = "linking"
    /\ b \in todo
    /\ links' = links \cup {b}
    /\ todo' = todo \ {b}
    /\ UNCHANGED <<src, row, rec, dir, pack, queue, pc, want, before, owned, events, history>>

LinksDone ==
    /\ pc = "linking" /\ todo = {}
    /\ pc' = "committing"
    /\ UNCHANGED <<src, row, rec, dir, pack, links, queue, jobVars, events, history>>

\* A link, which linkBin removes before it makes it anew, or the state write
\* fails.
StepFails ==
    /\ pc \in {"linking", "committing"}
    /\ Event("fail")
    /\ \/ UNCHANGED links
       \/ \E b \in todo : links' = links \ {b}
    /\ Loses(dir)
    /\ Rest
    /\ UNCHANGED <<src, row, rec, dir, pack, queue, stale>>

\* commitInstall.
Commit ==
    /\ pc = "committing"
    /\ rec' = [ver |-> want, bins |-> owned]
    /\ lost' = lost \ owned
    /\ pc' = "verifying"
    /\ UNCHANGED <<src, row, dir, pack, links, queue, jobVars, events, stale>>

\* verifyInstalled; either way the record stands.
Verify ==
    /\ pc = "verifying"
    /\ Rest
    /\ UNCHANGED <<src, row, rec, dir, pack, links, queue, events, history>>

-----------------------------------------------------------------------------
(* An uninstall.                                                           *)

\* The package manager's or the row's own, whose failure is only logged.
Purge ==
    /\ pc = "purging"
    /\ \/ src \in Linked \cup Shell /\ dir' = {} /\ pack' = 0 /\ UNCHANGED events
       \/ src \in Linked \cup Shell /\ Event("fail") /\ UNCHANGED <<dir, pack>>
       \/ src \notin Linked /\ UNCHANGED <<dir, pack, events>>
    /\ pc' = "removing"
    /\ UNCHANGED <<src, row, rec, links, queue, jobVars, history>>

\* The recorded names leave bin/.
RemoveBin(b) ==
    /\ pc = "removing"
    /\ b \in todo
    /\ todo' = todo \ {b}
    /\ links' = links \ {b}
    /\ dir' = IF src \in Linked THEN dir ELSE dir \ {b}
    /\ UNCHANGED <<src, row, rec, pack, queue, pc, want, before, owned, events, history>>

\* dropToolStatus, or its failure.
Drop ==
    /\ pc = "removing" /\ todo = {}
    /\ \/ rec' = NoRecord /\ UNCHANGED events
       \/ Event("fail") /\ UNCHANGED rec
    /\ Rest
    /\ UNCHANGED <<src, row, dir, pack, links, queue, history>>

-----------------------------------------------------------------------------

\* The process dies, and the command with it; the queue is memory.
Crash ==
    /\ Event("crash")
    /\ \/ pc # "running" /\ UNCHANGED <<dir, pack>>
       \/ pc = "running" /\ Packed(FALSE) /\ \E d \in CutShort : dir' = d
    /\ IF pc \in {"running", "linking", "committing"} THEN Loses(dir') ELSE UNCHANGED lost
    /\ Rest
    /\ queue' = <<>>
    /\ UNCHANGED <<src, row, rec, links, stale>>

Next ==
    \/ \E v \in Versions : Add(v) \/ Update(v)
    \/ Remove \/ Reconcile \/ Crash
    \/ Take \/ Run \/ RunFails \/ LinksDone \/ StepFails \/ Commit \/ Verify \/ Purge \/ Drop
    \/ \E b \in Names : Link(b) \/ RemoveBin(b)

Safe == Init /\ [][Next]_vars

-----------------------------------------------------------------------------
(* Properties.                                                             *)

\* Once a tool's row and record are gone, nothing of it runs from bin/, however
\* many installs, updates and removals with failures and crashes came before,
\* but for what an install put there and did not live to record, since
\* "uninstall acts only on the record" (install.go:1065-1071).
NothingOutlives ==
    pc = "idle" /\ queue = <<>> /\ row = 0 /\ rec = NoRecord => OnPath \subseteq lost

\* An install that ends well has every executable of its package on PATH, but for
\* those that lay in the directory without a record before it: the diff does not
\* see them appear (binDiff, ownedBins).
DoneIsWhole ==
    [][Verify /\ Present => Ships[rec.ver] \subseteq OnPath \cup stale]_vars
=============================================================================
