------------------------------- MODULE Engine -------------------------------
(***************************************************************************)
(* The engine of engine.go over the two documents of manifest.go: callers  *)
(* change the manifest (tools.json) and queue jobs; one worker runs the    *)
(* jobs against the manifest, the state file (tools-state.json) and the    *)
(* disk; the process may crash between any two steps, keeping the files    *)
(* and losing the queue.                                                   *)
(*                                                                         *)
(* Every step is one critical section of store.mu, or one effect on the    *)
(* disk.  The queue is JobQueue's, reduced to what the engine sees of it:  *)
(* a reserved job blocks the head and is published or released by its      *)
(* caller.  A row keeps the requirements the catalog gives its name, every *)
(* name has a source that publishes into opt/ (aqua or release), and the   *)
(* newest upstream version is Latest.                                      *)
(***************************************************************************)
EXTENDS Integers, SequencesExt

CONSTANTS
    Names,         \* tool names, all known to the catalog
    Requires,      \* name -> the names of depsOf
    Latest,        \* the versions are 1..Latest; 0 is no version
    JobQueueCap,   \* jobQueueCap
    MaxCalls,      \* bound of the model: calls and crashes
    Calls          \* the calls the environment makes

ASSUME EngineAssumption ==
    /\ Requires \in [Names -> SUBSET Names]
    /\ \A n \in Names : n \notin Requires[n]
    /\ Latest \in Nat \ {0}
    /\ JobQueueCap \in Nat \ {0}
    /\ MaxCalls \in Nat

VARIABLES
    row,        \* Tool.Disabled, or no row: "absent", "disabled", "enabled"
    ver,        \* Tool.Version
    pin,        \* Tool.Pin
    inst,       \* ToolStatus.InstalledVersion, 0 when the row owns nothing
    disk,       \* the version published on disk
    queue,      \* jobQueue.pending
    asked,      \* names Install found enabled and has yet to enqueue
    job,        \* the active job
    pc,         \* where the worker is
    snap,       \* the manifest the job loaded
    todo,       \* names left to uninstall or to check
    roots,      \* names left to plan
    ordered,    \* planned names left to install
    seen,       \* names planned
    failed,     \* names the job could not install
    cur,        \* the name in progress
    target,     \* the version being installed
    bumped,     \* names whose version the update wrote
    ok,         \* the job has not failed
    calls,      \* calls made
    dirty,      \* history: a job was lost or failed since a Reconcile last queued
                \* a job of its own
    misplanned  \* history: names a plan enabled for a root that was not enabled
                \* (or was so enabled), or that need a template which appeared
                \* under a plan that would have adopted its name

manifest == <<row, ver, pin>>
progress == <<snap, todo, roots, ordered, seen, failed, cur, target, bumped, ok>>
vars == <<manifest, inst, disk, queue, asked, job, pc, progress, calls, dirty, misplanned>>

Versions == 0 .. Latest
NoName   == "none"
Kinds    == {"install", "uninstall", "disable", "update", "reconcile"}
JobSet   == [kind : Kinds, names : SUBSET Names, st : {"reserved", "refused", "queued"}]
Idle     == [kind |-> "none", names |-> {}, st |-> "queued"]
Nothing  == [row |-> [n \in Names |-> "absent"], ver |-> [n \in Names |-> 0],
             pin |-> [n \in Names |-> FALSE]]
Manifest == [row : [Names -> {"absent", "disabled", "enabled"}],
             ver : [Names -> Versions], pin : [Names -> BOOLEAN]]
Pcs      == {"idle", "loading", "planning", "installing", "resolving", "publishing",
             "recording", "removing", "dropping", "checking", "bumping"}

TypeOK ==
    /\ row \in [Names -> {"absent", "disabled", "enabled"}]
    /\ ver \in [Names -> Versions]
    /\ pin \in [Names -> BOOLEAN]
    /\ inst \in [Names -> Versions]
    /\ disk \in [Names -> Versions]
    /\ queue \in Seq(JobSet)
    /\ asked \subseteq Names
    /\ job \in JobSet \cup {Idle}
    /\ pc \in Pcs
    /\ snap \in Manifest
    /\ todo \subseteq Names /\ roots \subseteq Names /\ ordered \subseteq Names
    /\ seen \subseteq Names /\ failed \subseteq Names /\ bumped \subseteq Names
    /\ cur \in Names \cup {NoName}
    /\ target \in Versions
    /\ pc \in {"resolving", "publishing", "recording"} => target # 0
    /\ pc \in {"resolving", "publishing", "recording"} => cur \in ordered
    /\ pc \in {"dropping", "bumping"} => cur \in Names
    /\ ok \in BOOLEAN
    /\ calls \in 0 .. MaxCalls
    /\ dirty \in BOOLEAN
    /\ misplanned \subseteq Names

\* New over files an earlier session left: a converged manifest and state.
Init ==
    /\ row \in [Names -> {"absent", "disabled", "enabled"}]
    /\ \A n \in Names : row[n] = "enabled" => \A d \in Requires[n] : row[d] = "enabled"
    /\ ver = [n \in Names |-> IF row[n] = "enabled" THEN 1 ELSE 0]
    /\ pin = Nothing.pin
    /\ inst = ver
    /\ disk = ver
    /\ queue = <<>>
    /\ asked = {}
    /\ job = Idle
    /\ pc = "idle"
    /\ snap = Nothing
    /\ todo = {} /\ roots = {} /\ ordered = {} /\ seen = {} /\ failed = {} /\ bumped = {}
    /\ cur = NoName /\ target = 0 /\ ok = TRUE
    /\ calls = 0
    /\ dirty = FALSE
    /\ misplanned = {}

-----------------------------------------------------------------------------
(* Dependencies.                                                           *)

\* installClosure of one name: the least set holding it and what it requires.
Closure(n) ==
    {m \in Names : \A S \in SUBSET Names :
        (n \in S /\ \A x \in S : Requires[x] \subseteq S) => m \in S}

\* cascadeOf over dependentsIndex: the least set holding n and whatever
\* requires one of its members.
Cascade(n) ==
    {m \in Names : \A S \in SUBSET Names :
        (n \in S /\ \A x \in S : {d \in Names : x \in Requires[d]} \subseteq S) => m \in S}

\* Mutant: a disabled row is taken for an enabled one.
DisabledDependents(n) == {d \in Cascade(n) \ {n} : row[d] = "disabled"}

\* enabledDependents: the enabled rows of the cascade.
EnabledDependents(n) == {d \in Cascade(n) \ {n} : row[d] = "enabled"}

-----------------------------------------------------------------------------
(* Callers.  A manifest transaction reserves its job inside the mutation,  *)
(* and the write may fail; commitJob then publishes or releases the job    *)
(* outside the lock.                                                       *)

Call(c) == c \in Calls /\ calls < MaxCalls /\ calls' = calls + 1

Reserved(k, ns, st) ==
    /\ Len(queue) < JobQueueCap
    /\ queue' = Append(queue, [kind |-> k, names |-> ns, st |-> st])

\* The mutation wrote and its job is reserved, or the write failed.
Transaction(k, ns, rows, vers, pins) ==
    /\ \/ /\ Reserved(k, ns, "reserved")
          /\ row' = rows /\ ver' = vers /\ pin' = pins
       \/ /\ Reserved(k, ns, "refused")
          /\ UNCHANGED manifest
    /\ UNCHANGED <<inst, disk, asked, job, pc, progress, dirty, misplanned>>

\* A mutation that needs no job.
Edit(rows, vers, pins) ==
    /\ row' = rows /\ ver' = vers /\ pin' = pins
    /\ UNCHANGED <<inst, disk, queue, asked, job, pc, progress, dirty, misplanned>>

\* Add of an enabled tool: v is the request's version, or the latest.
Add(n, v) ==
    /\ Call("add")
    /\ row[n] = "absent"
    /\ Transaction("install", {n}, [row EXCEPT ![n] = "enabled"],
                   [ver EXCEPT ![n] = v], [pin EXCEPT ![n] = FALSE])

\* Add of a template, which stays offline and needs no job.
AddTemplate(n) ==
    /\ Call("template")
    /\ row[n] = "absent"
    /\ Edit([row EXCEPT ![n] = "disabled"], [ver EXCEPT ![n] = 0], [pin EXCEPT ![n] = FALSE])

\* Patch: enable.
Enable(n) ==
    /\ Call("enable")
    /\ row[n] = "disabled"
    /\ Transaction("install", {n}, [row EXCEPT ![n] = "enabled"], ver, pin)

\* Mutant: the cascade disables the dependents and forgets their footprint.
DisableOne(n) ==
    /\ Call("disable")
    /\ row[n] = "enabled"
    /\ Transaction("disable", {n},
           [m \in Names |-> IF m \in {n} \cup EnabledDependents(n) THEN "disabled" ELSE row[m]],
           ver, pin)

\* Mutant: a forced disable does not cascade.
DisableAlone(n) ==
    /\ Call("disable")
    /\ row[n] = "enabled"
    /\ Transaction("disable", {n}, [row EXCEPT ![n] = "disabled"], ver, pin)

\* Patch: disable, cascading over the enabled dependents when forced.
Disable(n) ==
    /\ Call("disable")
    /\ row[n] = "enabled"
    /\ LET taken == {n} \cup EnabledDependents(n) IN
       Transaction("disable", taken,
           [m \in Names |-> IF m \in taken THEN "disabled" ELSE row[m]], ver, pin)

\* Patch: another version, a reinstall when the row is enabled.
PatchVersion(n, v) ==
    /\ Call("version")
    /\ row[n] # "absent"
    /\ v # ver[n]
    /\ IF row[n] = "enabled"
       THEN Transaction("install", {n}, row, [ver EXCEPT ![n] = v], pin)
       ELSE Edit(row, [ver EXCEPT ![n] = v], pin)

\* Patch: the pin of a row that is not apt:, which needs no job.
PatchPin(n) ==
    /\ Call("pin")
    /\ row[n] # "absent"
    /\ Edit(row, ver, [pin EXCEPT ![n] = ~@])

\* Remove and RemoveWithDependents.
RemoveTool(n) ==
    /\ Call("remove")
    /\ row[n] # "absent"
    /\ LET taken == {n} \cup EnabledDependents(n) IN
       Transaction("uninstall", taken,
           [m \in Names |-> IF m \in taken THEN "absent" ELSE row[m]],
           [m \in Names |-> IF m \in taken THEN 0 ELSE ver[m]],
           [m \in Names |-> IF m \in taken THEN FALSE ELSE pin[m]])

\* Mutant: a failed write keeps its reservation.
PublishOnly(i) ==
    /\ i \in DOMAIN queue
    /\ queue[i].st = "reserved"
    /\ queue' = [queue EXCEPT ![i].st = "queued"]
    /\ UNCHANGED <<manifest, inst, disk, asked, job, pc, progress, calls, dirty, misplanned>>

\* commitJob: publish after the write, release after a failed one.
CommitJob(i) ==
    /\ i \in DOMAIN queue
    /\ \/ queue[i].st = "reserved" /\ queue' = [queue EXCEPT ![i].st = "queued"]
       \/ queue[i].st = "refused" /\ queue' = RemoveAt(queue, i)
    /\ UNCHANGED <<manifest, inst, disk, asked, job, pc, progress, calls, dirty, misplanned>>

\* Install reads the manifest, then enqueues.
InstallAsk(n) ==
    /\ Call("install")
    /\ row[n] = "enabled"
    /\ asked' = asked \cup {n}
    /\ UNCHANGED <<manifest, inst, disk, queue, job, pc, progress, dirty, misplanned>>

InstallEnqueue(n) ==
    /\ n \in asked
    /\ asked' = asked \ {n}
    /\ IF Len(queue) < JobQueueCap THEN Reserved("install", {n}, "queued") ELSE UNCHANGED queue
    /\ UNCHANGED <<manifest, inst, disk, job, pc, progress, calls, dirty, misplanned>>

\* Update of every tool (no names) or of one.
Update(ns) ==
    /\ Call("update")
    /\ Reserved("update", ns, "queued")
    /\ UNCHANGED <<manifest, inst, disk, asked, job, pc, progress, dirty, misplanned>>

\* The queued reconcile a second one would duplicate.
ReconcileQueued == \E i \in DOMAIN queue : queue[i].kind = "reconcile" /\ queue[i].st = "queued"

\* Reconcile: nothing for an empty manifest and state; never refused, coalesced
\* with a queued one, which jobs behind it may follow.
Reconcile ==
    /\ Call("reconcile")
    /\ \E n \in Names : row[n] # "absent" \/ inst[n] # 0
    /\ queue' = IF ReconcileQueued THEN queue
                ELSE Append(queue, [kind |-> "reconcile", names |-> {}, st |-> "queued"])
    /\ dirty' = (dirty /\ ReconcileQueued)
    /\ UNCHANGED <<manifest, inst, disk, asked, job, pc, progress, misplanned>>

\* CancelJob of a queued job.
CancelQueued(i) ==
    /\ Call("cancel")
    /\ i \in DOMAIN queue
    /\ queue[i].st = "queued"
    /\ queue' = RemoveAt(queue, i)
    /\ dirty' = TRUE
    /\ UNCHANGED <<manifest, inst, disk, asked, job, pc, progress, misplanned>>

-----------------------------------------------------------------------------
(* The worker: executeJob.                                                 *)

callerVars == <<asked, calls>>

\* The job ends: a failed or aborted one leaves the disk behind its manifest.
Finish(good) ==
    /\ job' = Idle
    /\ pc' = "idle"
    /\ snap' = Nothing
    /\ todo' = {} /\ roots' = {} /\ ordered' = {} /\ seen' = {} /\ failed' = {}
    /\ cur' = NoName /\ target' = 0 /\ bumped' = {} /\ ok' = TRUE
    /\ dirty' = (dirty \/ ~good)

\* The worker takes the head: an uninstall removes its names, a disable those
\* the engine owns; the other kinds load the manifest first.
Take ==
    /\ pc = "idle"
    /\ queue # <<>>
    /\ Head(queue).st = "queued"
    /\ job' = Head(queue)
    /\ queue' = Tail(queue)
    /\ pc' = IF Head(queue).kind \in {"uninstall", "disable"} THEN "removing" ELSE "loading"
    /\ todo' = CASE Head(queue).kind = "uninstall" -> Head(queue).names
                 [] Head(queue).kind = "disable"   -> {n \in Head(queue).names : inst[n] # 0}
                 [] OTHER                          -> {}
    /\ roots' = IF Head(queue).kind = "install" THEN Head(queue).names ELSE {}
    /\ UNCHANGED <<manifest, inst, disk, callerVars, snap, ordered, seen, failed, cur,
                   target, bumped, ok, dirty, misplanned>>

\* runInstall: LoadManifest, before the plan's lookups.
LoadInstall ==
    /\ pc = "loading"
    /\ roots # {}
    /\ snap' = [row |-> row, ver |-> ver, pin |-> pin]
    /\ pc' = "planning"
    /\ UNCHANGED <<manifest, inst, disk, queue, callerVars, job, todo, roots, ordered,
                   seen, failed, cur, target, bumped, ok, dirty, misplanned>>

\* runUpdate: LoadManifest, once for every name it checks.
LoadUpdate ==
    /\ pc = "loading"
    /\ job.kind = "update" /\ roots = {}
    /\ snap' = [row |-> row, ver |-> ver, pin |-> pin]
    /\ todo' = IF job.names = {} THEN {n \in Names : row[n] # "absent"} ELSE job.names
    /\ pc' = "checking"
    /\ UNCHANGED <<manifest, inst, disk, queue, callerVars, job, roots, ordered, seen,
                   failed, cur, target, bumped, ok, dirty, misplanned>>

\* probeInstalled: what is on disk answers the recorded version.
Probed(n) == disk[n] # 0 /\ (inst[n] # 0 => disk[n] = inst[n])

\* Mutant: converged does not compare the versions.
ConvergedByProbe(n) ==
    /\ \A d \in Requires[n] : row[d] = "enabled"
    /\ Probed(n)

\* converged: no version drift, an enabled row for every dependency, a probe.
Converged(n) ==
    /\ ver[n] # 0 /\ inst[n] # 0 => ver[n] = inst[n]
    /\ \A d \in Requires[n] : row[d] = "enabled"
    /\ Probed(n)

Missing == {n \in Names : row[n] = "enabled" /\ ~Converged(n)}
Needed  == UNION {Closure(n) : n \in Missing}

\* The extras and the orphans of reconcilePlan: owned, and not wanted.
Unwanted == {n \in Names : row[n] # "enabled" /\ inst[n] # 0} \ Needed

\* runReconcile: LoadManifest and reconcilePlan.
LoadReconcile ==
    /\ pc = "loading"
    /\ job.kind = "reconcile" /\ roots = {}
    /\ todo' = Unwanted
    /\ roots' = Missing
    /\ pc' = "removing"
    /\ UNCHANGED <<manifest, inst, disk, queue, callerVars, job, snap, ordered, seen,
                   failed, cur, target, bumped, ok, dirty, misplanned>>

-----------------------------------------------------------------------------
(* Installing: installOrder and installTool.                               *)

Walk(r)    == Closure(r) \ seen
Adopted(r) == {n \in Walk(r) : snap.row[n] = "absent"}
Enabled(r) == {n \in Walk(r) \ {r} : snap.row[n] = "disabled"}

\* The rows rootStage.apply writes: an adoption yields to a row that appeared.
Written(r) == {n \in Adopted(r) : row[n] = "absent"} \cup Enabled(r)

\* Adoptions that yielded to a template: the plan does not enable it.
Yielded(r) == {n \in Adopted(r) : row[n] = "disabled"}

\* A root whose chain plans: one mutation adopts and enables what it needs.
PlanRoot(r) ==
    /\ pc = "planning"
    /\ r \in roots
    /\ \A n \in Enabled(r) : row[n] # "absent"
    /\ LET fresh == {n \in Adopted(r) : row[n] = "absent"}
           staged == Adopted(r) \cup Enabled(r) IN
       /\ row' = [n \in Names |-> IF n \in Written(r) THEN "enabled" ELSE row[n]]
       /\ ver' = [n \in Names |-> IF n \in fresh THEN Latest ELSE ver[n]]
       /\ snap' = [snap EXCEPT
                     !.row = [n \in Names |-> IF n \in staged THEN row'[n] ELSE @[n]],
                     !.ver = [n \in Names |-> IF n \in staged THEN ver'[n] ELSE @[n]]]
    /\ seen' = seen \cup Walk(r)
    /\ ordered' = ordered \cup Walk(r)
    /\ roots' = roots \ {r}
    /\ misplanned' = misplanned
          \cup (IF row[r] = "enabled" /\ r \notin misplanned THEN {} ELSE Written(r))
          \cup {n \in Names : Closure(n) \cap Yielded(r) # {}}
    /\ UNCHANGED <<pin, inst, disk, queue, callerVars, job, pc, todo, failed, cur,
                   target, bumped, ok, dirty>>

\* A root that cannot be planned, looked up or written: nothing of it persists.
PlanFails(r) ==
    /\ pc = "planning"
    /\ r \in roots
    /\ Adopted(r) \cup Enabled(r) # {}
    /\ roots' = roots \ {r}
    /\ ok' = FALSE
    /\ UNCHANGED <<manifest, inst, disk, queue, callerVars, job, pc, snap, todo, ordered,
                   seen, failed, cur, target, bumped, dirty, misplanned>>

PlanEnds ==
    /\ pc = "planning"
    /\ roots = {}
    /\ pc' = "installing"
    /\ UNCHANGED <<manifest, inst, disk, queue, callerVars, job, progress, dirty, misplanned>>

\* The next planned tool, its dependencies handled.
NextTool(n) == pc = "installing" /\ n \in ordered /\ Requires[n] \cap ordered = {}

\* A tool behind one that failed is skipped, and one without a row fails.
SkipBlocked(n) ==
    /\ NextTool(n)
    /\ Requires[n] \cap failed # {} \/ row[n] = "absent"
    /\ failed' = failed \cup {n}
    /\ ordered' = ordered \ {n}
    /\ UNCHANGED <<manifest, inst, disk, queue, callerVars, job, pc, snap, todo, roots,
                   seen, cur, target, bumped, ok, dirty, misplanned>>

\* A template, and a tool already at its version, need nothing.
SkipDone(n) ==
    /\ NextTool(n)
    /\ Requires[n] \cap failed = {}
    /\ \/ row[n] = "disabled"
       \/ row[n] = "enabled" /\ ver[n] # 0 /\ inst[n] = ver[n] /\ Probed(n)
    /\ ordered' = ordered \ {n}
    /\ UNCHANGED <<manifest, inst, disk, queue, callerVars, job, pc, snap, todo, roots,
                   seen, failed, cur, target, bumped, ok, dirty, misplanned>>

\* resolveInstallTarget: the version of the row as it is now.
Resolve(n) ==
    /\ NextTool(n)
    /\ Requires[n] \cap failed = {}
    /\ row[n] = "enabled"
    /\ ~(ver[n] # 0 /\ inst[n] = ver[n] /\ Probed(n))
    /\ cur' = n
    /\ target' = IF ver[n] = 0 THEN Latest ELSE ver[n]
    /\ pc' = IF ver[n] = 0 THEN "resolving" ELSE "publishing"
    /\ UNCHANGED <<manifest, inst, disk, queue, callerVars, job, snap, todo, roots,
                   ordered, seen, failed, bumped, ok, dirty, misplanned>>

\* persistVersion: only a version that is still missing is written.
PersistVersion ==
    /\ pc = "resolving"
    /\ ver' = IF row[cur] # "absent" /\ ver[cur] = 0 THEN [ver EXCEPT ![cur] = target] ELSE ver
    /\ pc' = "publishing"
    /\ UNCHANGED <<row, pin, inst, disk, queue, callerVars, job, progress, dirty, misplanned>>

\* inst.install publishes the new version.
PublishTool ==
    /\ pc = "publishing"
    /\ disk' = [disk EXCEPT ![cur] = target]
    /\ pc' = "recording"
    /\ UNCHANGED <<manifest, inst, queue, callerVars, job, progress, dirty, misplanned>>

\* The version lookup, the install or the state write fails.
InstallFails ==
    /\ pc \in {"resolving", "publishing", "recording"}
    /\ failed' = failed \cup {cur}
    /\ ordered' = ordered \ {cur}
    /\ cur' = NoName /\ target' = 0
    /\ pc' = "installing"
    /\ UNCHANGED <<manifest, inst, disk, queue, callerVars, job, snap, todo, roots, seen,
                   bumped, ok, dirty, misplanned>>

\* commitInstall, then verifyInstalled: a failed check fails the tool.
RecordTool ==
    /\ pc = "recording"
    /\ inst' = [inst EXCEPT ![cur] = target]
    /\ failed' \in {failed, failed \cup {cur}}
    /\ ordered' = ordered \ {cur}
    /\ cur' = NoName /\ target' = 0
    /\ pc' = "installing"
    /\ UNCHANGED <<manifest, disk, queue, callerVars, job, snap, todo, roots, seen,
                   bumped, ok, dirty, misplanned>>

InstallEnds ==
    /\ pc = "installing"
    /\ ordered = {}
    /\ Finish(ok /\ failed = {})
    /\ UNCHANGED <<manifest, inst, disk, queue, callerVars, misplanned>>

-----------------------------------------------------------------------------
(* Uninstalling: runUninstall, runDisable and sweepOrphans.                *)

RemoveFiles(n) ==
    /\ pc = "removing"
    /\ n \in todo
    /\ disk' = [disk EXCEPT ![n] = 0]
    /\ cur' = n
    /\ pc' = "dropping"
    /\ UNCHANGED <<manifest, inst, queue, callerVars, job, snap, todo, roots, ordered,
                   seen, failed, target, bumped, ok, dirty, misplanned>>

\* dropToolStatus.
DropStatus ==
    /\ pc = "dropping"
    /\ inst' = [inst EXCEPT ![cur] = 0]
    /\ todo' = todo \ {cur}
    /\ cur' = NoName
    /\ pc' = "removing"
    /\ UNCHANGED <<manifest, disk, queue, callerVars, job, snap, roots, ordered, seen,
                   failed, target, bumped, ok, dirty, misplanned>>

\* Removing the files or writing the state fails: the job ends there.
RemovalFails ==
    /\ \/ pc = "removing" /\ todo # {}
       \/ pc = "dropping"
    /\ Finish(FALSE)
    /\ UNCHANGED <<manifest, inst, disk, queue, callerVars, misplanned>>

\* Nothing is left to remove: a reconcile installs what is missing.
RemovalEnds ==
    /\ pc = "removing"
    /\ todo = {}
    /\ IF roots # {}
       THEN /\ pc' = "loading"
            /\ UNCHANGED <<job, progress, dirty>>
       ELSE Finish(TRUE)
    /\ UNCHANGED <<manifest, inst, disk, queue, callerVars, misplanned>>

-----------------------------------------------------------------------------
(* Updating: checkUpdates and updateOne.                                   *)

\* What updateOne skips, judged on the manifest the job loaded.
Skipped(n) ==
    \/ snap.row[n] # "enabled"
    \/ snap.pin[n] /\ job.names = {}
    \/ snap.ver[n] = Latest

\* A skipped name, or one whose version check failed other than by a rate limit.
CheckSkips(n) ==
    /\ pc = "checking"
    /\ n \in todo
    /\ todo' = todo \ {n}
    /\ UNCHANGED <<manifest, inst, disk, queue, callerVars, job, pc, snap, roots, ordered,
                   seen, failed, cur, target, bumped, ok, dirty, misplanned>>

\* A check that GitHub's rate limit refused: the others go on, and the job fails.
CheckLimited(n) ==
    /\ pc = "checking"
    /\ n \in todo
    /\ ~Skipped(n)
    /\ todo' = todo \ {n}
    /\ ok' = FALSE
    /\ UNCHANGED <<manifest, inst, disk, queue, callerVars, job, pc, snap, roots, ordered,
                   seen, failed, cur, target, bumped, dirty, misplanned>>

\* A newer version was found.
CheckFinds(n) ==
    /\ pc = "checking"
    /\ n \in todo
    /\ ~Skipped(n)
    /\ todo' = todo \ {n}
    /\ cur' = n
    /\ pc' = "bumping"
    /\ UNCHANGED <<manifest, inst, disk, queue, callerVars, job, snap, roots, ordered,
                   seen, failed, target, bumped, ok, dirty, misplanned>>

\* The version is written over the row as it is now, whatever became of it.
Bump ==
    /\ pc = "bumping"
    /\ ver' = IF row[cur] = "absent" THEN ver ELSE [ver EXCEPT ![cur] = Latest]
    /\ bumped' = bumped \cup {cur}
    /\ cur' = NoName
    /\ pc' = "checking"
    /\ UNCHANGED <<row, pin, inst, disk, queue, callerVars, job, snap, todo, roots,
                   ordered, seen, failed, target, ok, dirty, misplanned>>

BumpFails ==
    /\ pc = "bumping"
    /\ Finish(FALSE)
    /\ UNCHANGED <<manifest, inst, disk, queue, callerVars, misplanned>>

\* The bumped names are installed.
CheckEnds ==
    /\ pc = "checking"
    /\ todo = {}
    /\ IF bumped # {}
       THEN /\ roots' = bumped
            /\ pc' = "loading"
            /\ UNCHANGED <<job, snap, todo, ordered, seen, failed, cur, target, bumped,
                           ok, dirty>>
       ELSE Finish(ok)
    /\ UNCHANGED <<manifest, inst, disk, queue, callerVars, misplanned>>

-----------------------------------------------------------------------------

\* A cancel, the job timeout or Close ended the context, and the worker sees
\* it at one of its checks.
Cancelled ==
    /\ Call("cancel")
    /\ \/ pc = "planning" /\ roots = {}
       \/ pc = "installing" /\ ordered # {}
       \/ pc = "removing" /\ todo # {}
    /\ Finish(FALSE)
    /\ UNCHANGED <<manifest, inst, disk, queue, asked, misplanned>>

\* The process dies; the files stay.
Crash ==
    /\ Call("crash")
    /\ queue' = <<>>
    /\ asked' = {}
    /\ Finish(FALSE)
    /\ UNCHANGED <<manifest, inst, disk, misplanned>>

\* closureConverged.
ClosureConverged(n) == \A m \in Closure(n) : row[m] = "enabled" /\ Converged(m)

\* EnsureInstalled and ensureJob: of a tool that is not converged with all it
\* requires, the call its row asks for.  Each call judges the row again.
EnsureInstalled(n) ==
    /\ ~ClosureConverged(n)
    /\ Add(n, Latest) \/ Enable(n) \/ InstallAsk(n)

Callers ==
    \/ \E n \in Names :
        \/ \E v \in 1 .. Latest : Add(n, v) \/ PatchVersion(n, v)
        \/ AddTemplate(n) \/ Enable(n) \/ Disable(n) \/ PatchPin(n) \/ RemoveTool(n)
        \/ InstallAsk(n) \/ EnsureInstalled(n)
        \/ Update({n})
    \/ Update({})
    \/ Reconcile
    \/ \E i \in DOMAIN queue : CancelQueued(i)

Returns == (\E i \in DOMAIN queue : CommitJob(i)) \/ (\E n \in Names : InstallEnqueue(n))

Worker ==
    \/ Take \/ LoadInstall \/ LoadUpdate \/ LoadReconcile
    \/ \E n \in Names : PlanRoot(n) \/ PlanFails(n)
    \/ PlanEnds
    \/ \E n \in Names : SkipBlocked(n) \/ SkipDone(n) \/ Resolve(n)
    \/ PersistVersion \/ PublishTool \/ InstallFails \/ RecordTool \/ InstallEnds
    \/ \E n \in Names : RemoveFiles(n)
    \/ DropStatus \/ RemovalFails \/ RemovalEnds
    \/ \E n \in Names : CheckSkips(n) \/ CheckLimited(n) \/ CheckFinds(n)
    \/ Bump \/ BumpFails \/ CheckEnds

Next == Callers \/ Returns \/ Worker \/ Cancelled \/ Crash

Safe == Init /\ [][Next]_vars

\* The worker goroutine runs, and a caller's call returns.
Spec == Safe /\ WF_vars(Worker) /\ WF_vars(Returns)

-----------------------------------------------------------------------------
(* Properties.                                                             *)

\* No job is queued or running.
Drained == queue = <<>> /\ pc = "idle"

\* Nothing was cancelled, failed or lost since a Reconcile last queued a job of
\* its own, and that job and every later one has run.  (A Reconcile joined to a
\* queued one promises less: an uninstall behind it may still empty the disk of
\* a name whose later install was cancelled.)
Settled == Drained /\ ~dirty

\* Once every job has run, the engine owns nothing on disk for a name whose
\* row is disabled or gone, whatever calls were interleaved with the jobs and
\* whatever crashed before the Reconcile (runDisable, runUninstall and the
\* reconcilePlan orphans and extras).  The exception is a name that a plan
\* handled against its manifest: a root adopted or enabled again after its row
\* went, or a tool whose dependency came as a template under the plan.
NothingOwnedUnintended ==
    Settled => \A n \in Names \ misplanned : row[n] # "enabled" => inst[n] = 0

\* Once every job has run, an enabled tool is on disk, at the version the
\* manifest names when the engine recorded its install.  The same
\* exception holds.
EnabledIsInstalled ==
    Settled => \A n \in Names \ misplanned : row[n] = "enabled" =>
        /\ disk[n] # 0
        /\ inst[n] # 0 => disk[n] = inst[n] /\ ver[n] \in {0, inst[n]}

\* Once every job has run, every dependency of an enabled tool has an enabled
\* row (with the same exception): a forced disable or remove takes every dependent, and an install
\* brings every dependency.
DependenciesEnabled ==
    Settled => \A n \in Names \ misplanned : row[n] = "enabled" =>
        \A d \in Closure(n) : row[d] = "enabled"

\* A disable or a remove leaves no enabled row that still needs the tool,
\* directly or through any other name: the walk over the reverse edges
\* (cascadeOf) takes exactly the rows whose install plan would reach it
\* (installClosure), so no Reconcile restores what went.
TakesEveryDependent ==
    [][\A n \in Names : (Disable(n) \/ RemoveTool(n)) /\ row'[n] # row[n] =>
        \A m \in Names : row'[m] = "enabled" => n \notin Closure(m)]_vars

\* The queue always empties again: no reservation is left at its head and no
\* job waits on a call that never returns (commitJob).
QueueDrains == []<>Drained

\* "A disabled tool ... has nothing on disk" (docs/how-it-works.md:24).
DisabledHasNothingOnDisk ==
    Settled => \A n \in Names : row[n] = "disabled" => disk[n] = 0
=============================================================================
