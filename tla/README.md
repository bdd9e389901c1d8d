# Verification of toolbelt

`toolbelt` is a Go library that keeps a set of command-line tools installed in
a container: a manifest says which tools are wanted, an engine brings the disk
to it through a single-flight job queue, and a second, separate package
(`pin`) keeps one pinned executable. This directory holds TLA+ models of that
code, the TLC configurations that check them, and proofs for TLAPS. Every
definition carries the code's names; `PROJECT.json` maps each one to the lines
it models.

## 1. Inventory

| Component | State | Operations | Hard behaviour |
|---|---|---|---|
| Job queue (`jobs.go`, `wire.go`) | `pending`, `active`, `recent`, `terminal`, `wake`, each job's state, cause, `done` channel | reserve, publish, release, Enqueue, Cancel, Close, Wait, the worker goroutine | Reservations made under the manifest lock and settled outside it; a worker that unlocks and then blocks; cancels that race completion; shutdown |
| Engine (`engine.go`, `manifest.go`) | `tools.json` (manifest), `tools-state.json` (what the engine owns), the files on disk | Add, Patch, Remove, Install, Update, Reconcile, CancelJob; the worker's install, uninstall, disable, update and reconcile jobs | Jobs act on a manifest that callers keep changing; a job is several transactions; a crash loses the queue and keeps the files |
| Install publication (`install.go`, `durability.go`, `extract.go`, `layout.go`) | one tree per version, a backup beside it, a staging tree, links in `bin/` | stage, swap, link, record, verify, prune, uninstall | A swap is several renames; power loss between them; an error at any of them |
| Retention (`internal/retain`) | none | Victims | A pure choice |
| `pin.Manager` (`pin/`) | active version, phase, last error, custody verdict; version directories, markers | Ensure, EnsureWithRetry, Rescan, Ready | Retry and rescan share the phase; custody may be lost between any two steps; crash during an install |
| Its purge and links (`pin/purge.go`) | a marker on the volume, links in a directory with other owners | the one-shot sweep, publish and retract links | Look and act on a name others write to; a sweep recorded once for good |
| Catalog refresh (`catalogrefresh.go`) | the live catalog, its baked and cached copies | initCatalog, refresh job | A cache that is newer, older or unusable; overlays edited between boot and refresh |
| Catalog (`catalog.go`) | immutable tables | lookups, overlays | Completeness of the overlay copy |
| GitHub gate (`githubapi.go`) | the refusal held per credential | record, check, release at its time | Requests in flight when a refusal arrives |
| Version resolution (`versions.go`, `versionpolicy.go`) | the cached latest versions | Latest, Cached, the page walks and the choices | Lists, rows and definitions that change between two requests |
| Package-manager backends (`install.go`: npm, pip, cargo, go, manual) | the executables in the manager's directory, links in `bin/`, the recorded names | the command under `binDiff`, `ownedBins`, `linkPMBins`, uninstall | Ownership is inferred from what appeared; a command may die half-way |
| Install probe (`probe.go`) | a fingerprint cache | probe, forget | A cached verdict about a file that changed; probes overlap an install |
| apt source (`apt.go`, `aptindex.go`, `aptdiscover.go`) | the package index, a once-only update | ensure lists, refresh, install, Close | A once-only step under the first caller's context |
| Root and system integrity (`rootintegrity.go`, `systembin.go`), custody (`internal/custody`) | none | inspection of modes, owners and ACLs | Stateless checks |
| Unpacking (`internal/unpack`), asset resolution (`aqua.go`, `release.go`) | none | byte and string work | Stateless; covered by table tests |
| Construction and Close (`toolbelt.go`) | the engine's life | New, Close | Close drains the queue |
| REST handler (`httpapi`), catalog compiler (`cmd/toolcatalog`) | none | request translation; a build-time command | None of their own |

How they interact. A caller's mutation runs inside `store.MutateManifest`; it
reserves a job under the manifest lock, and publishes it after the write (or
releases it when the write failed). The worker takes published jobs in
reservation order and runs them against the manifest, the state file and the
disk, through the installer and, for versions, the GitHub gate and the catalog.
A catalog refresh is a job too. `pin.Manager` shares the publication rules, the
custody checks and the retention rule with the engine and nothing else.

What makes each part correct:

* **queue**: no lost wake-up, every wait returns, jobs start in reservation
  order and one at a time, each ends once and is told once, a cancellation is
  named by its first cause, shutdown leaves nothing behind;
* **engine**: once everything asked has run, the disk holds what the manifest
  wants: no owned tool that is not wanted, every wanted tool at its version,
  every dependency of a wanted tool wanted; a forced removal takes exactly the
  tools that need the removed one;
* **publication**: a link on PATH never leads to a torn tree, also after a power
  loss; the record never names a version that is not whole; nothing is pruned
  before its successor is recorded durably;
* **pin**: a version that starts survives every step and every power loss,
  nothing is deleted in a tree whose custody is refused, a retry brings the pin
  online once nothing fails;
* **catalog refresh**: only an accepted catalog serves, a failed refresh changes
  nothing, the last good one is what a restart serves, and a published one
  comes into use;
* **gate**: no request is sent with a credential while its refusal holds, and
  none is refused locally otherwise;
* **version resolution**: the version picked is the highest candidate although
  the lists change under the walk, and the cached offer fits the row and the
  definition as they are;
* **probe**: a cached verdict that would be found is the one running the tool
  would give, and a job that ends done leaves a tool that reads as installed;
* **apt**: dpkg, the record, the row and the hold agree again after a Reconcile,
  an entry that is not settled says so, and Close ends with nothing running;
* **package ownership**: nothing of a removed tool runs from `bin/` any more, and
  an install that ends well has all its executables there;
* **link directory**: the links end where the selection is, no entry of another
  owner goes, and a sweep that is recorded left nothing behind.

## 2. Plan

The order was that of importance; all of it is done.

1. `JobQueue`, refining `JobLifecycle`; proofs in `JobQueue_proofs`.
2. `Engine`: manifest transactions, planning and the worker's jobs over a
   crash; it uses the queue's reduced view, whose guarantees are those proved
   of `JobQueue`. Proofs in `Engine_proofs`.
3. `Publish`: the staged swap, the fsync barriers, the links, the record, the
   prune and the uninstall, over errors, process crashes and power losses.
   Proofs in `Publish_proofs`.
4. `Pin`: Ensure, EnsureWithRetry and Rescan under `opSem`, with outside
   changes, custody changes, restarts and power losses. Proofs in `Pin_proofs`.
5. `AptIndex`, extended by `AptEntry`: the package index and its shutdown, and
   one apt entry over it. Proofs in `AptEntry_proofs`.
6. `CatalogRefresh`: boot, refresh job, cache and overlays. Proofs in the first
   part of `Upstream_proofs`.
7. `GitHubGate`, extended by `VersionLookup`: the lookups whose requests pass the
   gate. Proofs in the second part of `Upstream_proofs`, which is on both things
   the engine reads from upstream.
8. `Probe`: inventory reads and the worker's probes over one cache. Proofs in
   `Probe_proofs`.
9. `PackageBins`: what a package manager's tool owns on PATH. Proofs in
   `PackageBins_proofs`.
10. `LinkDir`: the one-shot sweep and the convenience links of `pin.Manager`.
    Proofs in the first part of `Pin_proofs`, as they are the same manager's.

Each module of 3 to 10 opens up steps that another one takes as a whole:
`Publish` and `PackageBins` the engine's `PublishTool` to `RecordTool` and
`RemoveFiles` to `DropStatus`, `Probe` its `Probed`, `VersionLookup` its
`Latest`, `LinkDir` what follows `Pin`'s custody check and its mark; `AptEntry` and `CatalogRefresh` are the jobs of the kinds the engine's
model leaves out. The queue is `JobQueue`'s in all of them, reduced to what it
guarantees: in order and one at a time. A run named below is a row of
`PROJECT.json`, with its configuration.

## 3. The job queue

`JobQueue.tla` models `jobs.go`. One action is one critical section of `q.mu`,
or one step a goroutine takes outside it: `release` and `Close` unlock before
they wake the worker, so a call between the two is in `owing` and `Wake`
finishes it; the worker's `runOne` settles a job in two sections
(`WorkerFinalize`, `WorkerPublish`), with everything in between; the drain keeps
the lock over several actions (`WorkerDrain`), which `MuFree` expresses. Job ids
are the values of `nextID`; as reservations append and nothing reorders,
`pending` is the set of its ids read in increasing order. `told` is the state in
the last view handed to `onChanged`, `closes` counts the closings of `done` (a
second one would panic). The output ring, the progress text and the JSON view
are left out: no property is about them.

`JobLifecycle.tla` is what a consumer of the callback is promised: admitted jobs
run at most once, alone, in order of admission, end exactly once, and none
starts once the queue is closed. `ImplementsLifecycle` states that the queue
implements it with `status = told`, fairness included.

| Run | Shows |
|---|---|
| `jobqueue` | Two jobs, a cap, a history and a terminal map of one, one waiter: the wake-up, the caps, one end per job and a named cause, an empty exit, first cause wins, starts in order, Wait never loses a job, every blocked Wait and every Close returns, and the refinement of `JobLifecycle`, its fairness included |

*Bounds.* With a cap of one, the second job is refused or follows a
reservation; with a history and a terminal map of one, the second ended job
evicts the first from both. Reconcile and one other kind are all the admission
code tells apart. Three jobs with a cap of two were checked for the safety
properties as well; the proofs below cover any number.

*Fairness.* The worker goroutine runs; a run ends, as its context has a
deadline; a reservation is settled by the transaction that made it
(`commitJob` is called on every path); a call past its unlock goes on to wake
the worker; a waiter whose channel is ready is scheduled.

*Proved* in `JobQueue_proofs.tla`, for any number of jobs, any cap, history and
set of waiters: `IInv` is inductive, and from it follow `TypeOK`,
`NoLostWakeup`, `Bounded`, `EndsOnceAndSaysWhy` (with its parts `DoneOnce` and
`CauseNamed`), `NothingLeftAfterExit`, `StartsInOrder`, `FirstCauseWins` and the safety half of
`CallsAnswer` (`UnknownOnlyOutsideHistory`: `Wait` says that it does not know a
job only when the job was never visible or ended and left the recent history),
and that every step is a step of `JobLifecycle` or leaves it unchanged. None of these is inductive by itself:
that `done` is closed once needs to know that a job is in exactly one place
(`PlaceOK`) and what an ended job published (`RecordOK`), and the worker's steps
need what its position says of the active job (`WorkerOK`).
The rest of `CallsAnswer` (that `Wait` and `Close` return) and the fairness of `ImplementsLifecycle` are checked by TLC only.

## 4. The engine

`Engine.tla` models the mutations, the planning and the jobs of `engine.go`
over the two documents of `manifest.go`. A row of the manifest is `row`, `ver`
and `pin`; `inst` is the version of the state file, `disk` the version
published. A caller's mutation and its reservation are one action
(`MutateManifest` holds the lock), which may also fail to write and leave a
`refused` reservation; `CommitJob` publishes or releases it. `Install` reads the
manifest and enqueues later, so it is two actions. The worker's jobs are split
where they let go of the lock or touch the disk: loading, one transaction per
planned root, resolving, `PublishTool`, `RecordTool`; `RemoveFiles`,
`DropStatus`; `CheckFinds`, `CheckLimited` (a rate-limited check, which fails the job
but not the rest of its work), `Bump`. Every step that can return an error has its
failing action. `Crash` keeps the files and loses the queue.

What is abstracted: rows keep the catalog's requirements of their name; the
sources are those that publish into `opt/` (no apt hold, no python field);
`Latest` is the newest upstream version; the catalog knows every name; the
files are not edited by hand; `EnsureInstalled`, whose last step only waits, is
its read and the call it makes, which judges the row again; `Close` is modelled in `JobQueue`; a cancel of the running job and the
worker noticing it are one step. The queue is the reduced view of what
`JobQueue` guarantees: in order, one at a time, blocked by a reservation at its
head. `dirty` and `misplanned` are history variables: a job failed or was lost
since the last Reconcile; a name a plan handled against its manifest.

| Run | Expects | Shows |
|---|---|---|
| `engine` | pass | Two tools, one needing the other, any three calls, failures and crashes between any steps: once everything asked has run, the disk, the state file and the manifest agree; forced removals take every dependent; the queue always drains |
| `engine_crash_unrecorded` | violation | A tool published and never recorded survives on disk when disabled |

*Bounds.* Three calls are what the shortest interactions take (a call, a job, a
call that changes what the job loaded); a queue of two lets a job be refused
(1,019,535 states). Larger instances, too slow for a routine run: one name and
five calls (3.7 million states) is where the exception of `dirty` below was
found; two names that need each other, and a chain of three names, found
nothing new. The proofs need no bound. `CHECK_DEADLOCK FALSE`: once the calls are
used up and the queue is empty the model stops, as the engine idles.

*What the settled properties except.* They speak of states in which no job is
queued or running and nothing failed since the last Reconcile: in between, the
disk is meant to be behind. Two exceptions are the code's:

* A Reconcile that joins one already queued (`jobs.go:175`) is placed where that
  one is. With an uninstall between the two and the install behind it
  cancelled, the joined Reconcile has already run when the uninstall empties the
  disk, so `dirty` is cleared only by a Reconcile with a place of its own.
* `misplanned` names, which a plan handled against the manifest of that moment:
  an install job loaded before its root was disabled or removed adopts or
  enables it again, and a dependency that became a template during planning
  stays one. Both follow from planning on a snapshot, one transaction per root.

Observed as well, and outside these properties: an update moves a row that was
pinned while its lookup ran (`updateOne` reads the pin from its snapshot).

*Fairness.* The worker runs, and a caller whose mutation has returned settles
its reservation.

*Proved* in `Engine_proofs.tla`, for any set of tools, any requirement
relation (cycles included), any number of versions and calls: `TypeOK`,
`TakesEveryDependent`, `NothingOwnedUnintended`, `EnabledIsInstalled` and
`DependenciesEnabled`.

`TakesEveryDependent` rests on `CascadeIsWhatReaches`: the walk over the reverse
edges that a forced removal makes and the walk over the forward edges that an
install plan makes are both least closed sets, and each contains exactly the
pairs of the other.

The settled properties say nothing while a job waits, so they are far from
inductive. `IInv` says in every state what the idle state will need: each way in
which a name is not yet as wanted has a job that waits, or a position of the
running one, that will see to it. What is owned and not enabled will be cleaned
(`OwnedCleaned`); an enabled tool is good or will be brought (`EnabledBrought`),
what it needs is enabled or will be restored (`NeededRestored`), and the version
in hand is the row's, or another install waits (`CurrentTarget`). A waiting
removal threatens all of them, so one that takes what an enabled tool needs has
that tool's install behind it (`RemovalsFollowed`). `Phases` says what each
position of the worker has read already. Each action moves one of these promises
from the caller to the queue, from the queue to the worker, or from the worker to
the disk. With the queue empty and the worker idle no promise can be pending,
which leaves the three properties. `QueueDrains` is checked by TLC only.
## 5. Publication

`Publish.tla` models how one tool of an aqua or release source gets on disk and
off it: `extractAndSwap`, `stageArtifact`, `syncTree`, `publishStaged`,
`restoreBackup`, `linkDeclaredBins`, `linkBin`, `pruneOldVersions` and
`uninstall` of `install.go`, `commitInstall`, `verifyInstalled`,
`recordFailure` and `pruneSuperseded` of `engine.go`, `MutateState` of
`manifest.go`, `retain.Keep` and `retain.Victims`. It opens up the two actions
`PublishTool` and `RecordTool`, `RemoveFiles` and `DropStatus` of the engine's
model; in between, nothing else of the engine touches the tool's files.

One action is one system call that changes an entry, or one walk whose parts no
property tells apart. A `RemoveAll` is two: it begins (the tree is torn, its
mtime fresh) and it ends, or fails and leaves the rest. Every step that can
return an error has its failing form, with the undoing the code does then
(`BarrierFails`, `Undo`, `Restore`; `BinBarrierFails`, `Relink`) and
`recordFailure`'s state write (`Restated`). `Crash` stops the job between any
two steps.

*Power loss.* `tree`, `link` and `rec` are what a process sees in `opt/<name>`,
`bin/` and the state file's directory. `trees`, `links` and `recs` are the
contents a power loss may leave there: each write adds one, an fsync leaves the
current one alone. `PowerLoss` picks one of each, independently, and what was
extracted and not flushed is torn. This is the guarantee a journalled file
system gives for the renames and links of one directory (they are not lost out
of order within a directory, and not kept in order between directories) and the
one the code's barriers are written for.

*What is abstracted.* A tree is `none`, `torn`, `unflushed` or `whole`. `age`
holds the ranks of the version trees' mtimes rather than times. The probe is
`Present`: the recorded executables lead to existing trees; a probe that fails
on what is there (a torn tree, a wrong exit status) is an event. `unsettled` is a history
variable: the versions whose own reinstall was cut short, and all of them once
an uninstall begins. Not modelled: download and checksums (`Extract` succeeds or
`StageFails`), the residue names of older releases (`legacyResidue`), mtimes lost
in a power loss, and the loss of a just created directory's own entry. The
package-manager backends, which install in place, are `PackageBins` (§11).

| Run | Expects | Shows |
|---|---|---|
| `publish` | pass | Three versions, the second declaring one executable less, one predecessor kept, any four events: the recorded version and what PATH runs are complete in whatever a power loss leaves, the record follows durable trees and links, a finished job is an installed tool, and a retry converges |
| `publish_fallback` | violation | A partly deleted tree counts as the fallback, and the last complete predecessor is pruned |

Observed, and kept as no run: `linkBin` removes the old link before it makes the
new one, so a failing symlink leaves the executable off PATH until the next
install; a definition that declares fewer executables drops the older links
from the record (`engine.go:1739`), and they dangle once their tree is pruned.

*Bounds.* `MaxEvents` counts the changes of mind, errors, crashes and power
losses together; the steps of the job itself are free. A prune that keeps one
predecessor deletes something at the third version, which takes two events from
an installed first one; the other two fall anywhere. With two versions, no
predecessor kept and six events (3.7 million states), and with three versions,
none kept and four events, nothing new is found; these are too slow for a
routine run. `CHECK_DEADLOCK FALSE`: with the events used up and the tool as
wanted the model stops, as the engine idles.

*Fairness.* The job's own steps are weakly fair: the worker goroutine runs.
`BeginInstall` and `BeginUninstall` are among them, which stands for a host
that calls `Reconcile` (at startup, README.md:51); `Converges` would be
meaningless for one that never does.

*Proved* in `Publish_proofs.tla`, for any number of versions, any executables
they declare, any predecessors kept and any number of events: `TypeOK`,
`RecordedIsWhole`, `PathRuns`, `RecordFollowsPath` and `DoneIsInstalled`.
`RecordedIsWhole` and `PathRuns` are not inductive: `Commit` needs to know that
the target's tree is complete in every content a power loss may leave
(`SwapOK`), `Symlink` the same, the undo of a link that where it led before is
still complete (`LinksOK`), the prune that the record names the target and
nothing else, and that every link it records leads there (`PruneOK`,
`LinksOK`), and the uninstall that it has given every version up (`RemovalOK`).
`IInv` is their conjunction. `Converges` is
checked by TLC only.

## 6. pin.Manager

`Pin.tla` models one manager and its volume: `EnsureWithRetry`, `Ensure` and
`Rescan`, which take turns through `opSem`, the phase, the active version and
the verdict they share under `mu`, and the version directories.

*State.* `tree` is what each version directory holds: nothing, an incomplete
install (`versionDirComplete` is false), a complete one that answers its
version (`good`), or a complete one that `activatable` refuses (`wedged`: its
probe, or an entry that is not private). `trees` are the contents a power loss
may leave, as in `Publish`. `age` ranks the directories' mtimes, the order
`retain.Order` uses. `op`, `waiting` and `pc` are the slot, its queue and the
holder's position; `rpc`, `attempt`, `failed` and `cancelled` are
`EnsureWithRetry`'s locals. `control` is what `custody.Verify` would answer now,
`verdict` what it last answered.

*Actions.* One per step whose order with the others matters: the custody check,
the sweep of partial directories, a selection (`selectActive`, the set of probes
that go unanswered chosen freely), `requireCustody`, the download up to the
assembled staging tree (no selection sees it, so it is one step that succeeds or
fails), the removal, the rename and the flush of `publish`, the assertions with
`commit`, the activation mark, the choice and the removals of the prune,
`settlePhase`, `releaseOp`. Every one that can fail has its failing form. Around
them: `Call` and `GiveUp` of a second `Ensure` or a `Rescan`, `Cancel` of the
retry's context (after which every command it runs fails), `Outside` (another
principal, or an operator repairing, changes a directory; flushed), a change of
custody, a restart and a power loss between any two steps.

*Abstracted.* The staging tree; the artifact's bytes, digest and archive; the
text of errors. The one-shot purge and the convenience links, which
touch other directories, are `LinkDir` (§12). *Not modelled:* the state record
(diagnostic only) and `validate`. A bare `Ensure` whose context ends is modelled by its failures one
by one. A cancelled `Rescan` is not cancelled once admitted (it detaches).

| Run | Expects | Shows |
|---|---|---|
| `pin` | pass | Three versions, each in any state and of any age, the second pinned, two attempts, any three events, with the volume trusted or not: a version that starts is there after any power loss, nothing is touched without custody, an untrusted volume serves only what this process published, a prune keeps a fallback, and a retry that begins after the last event brings the pin online |

*What the properties leave out.* `Recoverable` speaks of a process that has
served since the last outside change, and exempts two windows the code opens:
the reinstall of the last good version (`publish` removes it before the rename;
the retained predecessor covers the window when there is one), and a publication
whose own flush failed.

Observed, and kept as no run: a rescan that fails during the retry's backoff
leaves the phase `Unavailable`, and `Ready` reports that no attempt is
scheduled although the backoff's is; a version selected before an install is
still activated after it when the install found custody lost
(`pin/pin.go:329`); a probe of the version just installed that times out makes
the second selection fall back, and `Ensure` returns nil without the pin
(`pin/pin.go:333`).

*Bounds.* `MaxEvents` counts calls, failures, outside changes, cancellations,
restarts and power losses together; the steps themselves are free. Three events
let a retry fail while a rescan runs, and a restart follow a failed install.
Three versions are the fewest with a predecessor kept and one pruned. The ranks
of incomplete directories are fixed at the start, as nothing reads them.
`CHECK_DEADLOCK FALSE`: with the events used up the manager idles.

*Fairness.* The admitted operation and the retry loop are weakly fair: each step
is bounded by a timeout or by the download's stall guard, a waiting caller is
admitted when the slot is free, and a backoff ends. Calls, failures and outside
changes are not.

*Proved* in `Pin_proofs.tla`, for any number of versions, attempts and events:
`TypeOK`, `Recoverable`, `OnlyOwnInstalls`, `HandsOff`, `FallbackKept` and
`GoodEndsReady`. The inductive invariant `IInv` says what the holder's position
means: under which verdict it got there (`CustodyOK`), that the retry holds or
awaits the slot only inside an attempt (`RetryOK`: otherwise its loop could
overwrite the phase its own operation set), that what is asserted is active
(`PhaseOK`), that the selection was trusted when made (`SelectionOK`), and for
`Recoverable` (`VolumeOK`) that since it last served the selection stays good
until the slot is free, is never the directory an install replaces and is never
a victim, while every content a power loss may leave starts whenever the current
one does. `Heals` is checked by TLC only.

## 7. apt

`AptIndex.tla` models `aptindex.go`: the lists on disk, the one `apt-get update`
a process runs under `updateOnce`, the parsed names, the background refresh a
search starts, and the order in which `Engine.Close` stops things. Three
requesters reach it (the worker, an API request, the refresh); each is in a stage
of `ensureLists` and the parse, and one waits while another is inside
`updateOnce.Do`. A requester in `gone` has a context that ended.

`AptEntry.tla` extends it with the life of one `apt:` row: the row, its status,
dpkg's version and hold, the candidate, the job queue, the worker step by step
through `installTool`, `installApt` (lift the hold, aim, `apt-get`, read back),
`commitInstall`, `verifyInstalled`, `followInstalledVersion`, `recordFailure`,
`holdToPin` and `settleAptHold`, `updateOne` before it, and the cached list of
discovered packages (`seen`). dpkg is shared: a shell upgrades, removes, marks or
unmarks the package between any two steps, a new container forgets it, the
mirror gets a newer version. `dirty` and `unseen` are history variables: something
failed or moved since the last Reconcile, and something did so where the engine
does not look (a shell, a failed state write, a job dropped before it began).

*Abstracted.* Output parsing is its result; versions are 1 to `Newest`; `apt-get`
succeeds, leaves the package as it was, moved or removed, or finds the archives
lock busy. The index's text is left out.

| Run | Shows |
|---|---|
| `apt` | After a Reconcile all of whose jobs succeed, dpkg, the hold, the record and the row agree; an unsettled row always says that its last job failed; a reader that looks after an install does not see the list from before it; Close returns and leaves nothing running |

*Bounds.* Two versions let the package move and go back, a queue of two lets an
edit wait behind a job, two lock attempts fail and succeed, four events (396,822
states). `Expands` is TRUE: a name the index could not confirm is refused; with it
FALSE, where the fallback lets it pass, the properties hold as well. *Fairness.* The worker's commands end within their
budgets; each consultation of the index goes on; Close's two waits are for
things that end.

*Proved* in `AptEntry_proofs.tla`, for any number of versions, any queue, any lock
attempts and events: `TypeOK`, `ReconcileHeals`, `AccountedFor`,
`ListFollowsInstall` and, of `CloseEndsClean`, that nothing runs once Close has
returned. The entry is unsettled between an edit and the end of the job it
queued, so `IInv` says which queued job will see to it (`Covered`, and `Replaced`:
behind a queued uninstall of a row that is back there is an install) and, while
the last such job runs, what each of its steps established of the row, dpkg and
the record (`Follows`); the list needs that the package can only have moved up or
gone since the install read it (`Upward`, `Listed`). That Close returns is
checked by TLC only.

Observed: an update that fails under the first caller's context, such as a
cancelled job's, fails every later consultation of the process
(`aptindex.go:78`), until names parse from lists that arrived otherwise or
`FallbackAllows` lets the name pass unchecked. `Invalidate` follows a
successful commit only, although `aptdiscover.go:70` says "Called after any apt
job"; a failed one may leave an older list. A failing state write in
`commitInstall` leaves the row without an error. `Close` waits for a refresh that
may itself wait in `updateOnce` for a job it has not cancelled yet; that job's
command is bounded, so Close is late, not stuck.

## 8. The catalog

`CatalogRefresh.tla` models `catalogrefresh.go` and what of `catalog.go` decides
which catalog serves. A document is judged by what each tool's entry is in it
(absent, listed, good, refused by `verifyEntry`); an overlay by what it does to
each tool. `Accepted` is `prepareCatalog`: the floor on entries, the overlays,
`VerifyCatalog` over the required names. `Init` and `Restart` are `initCatalog`,
with the cached document when it is readable, accepted and not older than the
image's. The refresh job is `Fetch`, `Current` (the bytes equal the cache file's)
or `Reject` or `Accept`, `Write`, `Store`, each with its failure. Around it:
`Publish`, `EditOverlay`, `Damage`, `Restart` into another image, `Close`.

| Run | Expects | Shows |
|---|---|---|
| `catalog` | pass | Only a catalog that passed serves, none older than the image's comes from the cache; a failed refresh changes nothing and the last good document survives restarts; a published document comes into use |

*Bounds.* Two images with different stamps and none; a published document of the
newer image's stamp, one with too few entries, one that lost a required tool;
overlays that patch, replace, bring an entry that `verifyEntry` refuses, are
refused and cannot be read; four events (251,241 states). *Fairness.* The schedule fires (`Refresh`) and the worker runs
(`Job`). A publisher that never stops is not helped by it: `CatchesUp` is of the
form `<>[]`, and the events are bounded.

`CatchesUp` excepts a published document the cache holds already: `Current`
compares with the cache file and not with the catalog in use
(`catalogrefresh.go:360`), so a document that boot passed over, or that was
cached before a later one could not be written, counts as current. `LastGoodStands`
excepts a damaged or unwritten cache and an overlay edited meanwhile.

Observed, and kept as no run: `overlaidCopy`, which every boot and refresh passes
a catalog through, names the fields it carries and `Backends` is not one of them
(`catalogrefresh.go:218`), although `catalog.go:86-88` says that "a consumer
bundling a different provider says so here"; a catalog in use has the default
backends. Which tool provides a backend is not in the model.

*Proved* in `Upstream_proofs.tla`, for any documents, images, overlays and
required names: `TypeOK`, `ServesGood` and `LastGoodStands`. `IInv` adds what the
job established before each of its steps (`PreparedGood`) and that the cache
holds the document about to be stored, afterwards the one in use, unless a write
failed or the file was damaged (`CacheFollows`). `CatchesUp` is checked by TLC
only.

## 9. Version lookups and the GitHub gate

`GitHubGate.tla` models the transport of `githubapi.go`: a clock, the token in
force, and until when each credential is held. `ResetOf` and `Until` are
`rateLimitFrom` and `record`; a refusal replaces the entry of the credential its
request carried, and drops lapsed ones.

`VersionLookup.tla` extends it with the lookups of `versions.go`. A lookup begins
with the key and the admission of prereleases it read from the row, makes its
requests one by one and holds what it got so far. One to GitHub asks for the
credential (`Ask`) and then passes the gate or is refused by it (`Send`,
`Withheld`), and the client makes a failed attempt again (`Retries`); upstream
publishes and withdraws between any two of them, the row and the definition
change, the token is rotated, a second lookup overlaps. The list it reads depends
on its kind: GitHub's latest release (and the tag list when the filter refuses
it), tag pages, a feed, GitLab pages, a Go module's list (of the
longest path the proxy knows: `NextPrefix`), a registry's one answer. A
definition is that kind with the tags its `version_filter` and its
`version_prefix` pass (`Filtered`, `Prefixed`); the two make `Passes`, which the
pick from a list asks, while GitHub's latest release is asked the filter alone
and may have any tag. The choices are the code's: `LatestTag`, `LatestOnGitLab`,
`LatestModuleVersion` with its retractions and shadowed `+incompatible`
versions; `PickIsLatest` compares them with what was listed all along.

*Abstracted.* A tag is its rank and whether it is a version, a prerelease, legal;
precedence is that rank. One tool stands for all, which share only the gate. A
path has any number of prefixes, and the three attempts of a request are as many
as the failures a run allows.

| Run | Shows |
|---|---|
| `lookup` | A finished walk picks a version no candidate listed throughout is higher than, whatever is published under it; the cached offer passes the filter of the definition in use and, where the engine picks it from a list, has its prefix and is no prerelease for a row at a release; a request leaves only outside its credential's window and is refused locally only inside it |

*Bounds.* Two requesters and two credentials overlap and rotate; pages of two and
a cap of two make a list of one tag short, and one of three full after one
publication and past the cap after two; a horizon of three lets a
window lapse; refusals spend the quota, name a delay, a delay of nothing or no
time, or are a plain 403; two events (2,804,724 states under symmetry, sound here as nothing
temporal but an action property that names no requester or credential is
checked). No fairness: only safety is checked.

`OfferFits` asks of a registry's version nothing, and of GitHub's latest release
the filter alone: both name one version and the engine takes it
(`docs/how-it-works.md:45`), its prefix unasked (`versions.go:268`), and GitHub's
prerelease flag is not the tag's. TLC reaches an offer of each of those forms.
`SentUnheld` excepts credentials in `cut`: of two refusals in flight the later
recorded one replaces the entry even when it is the shorter
(`githubapi.go:80`). `PickIsLatest` excepts a walk under which a tag was
withdrawn, which moves another one to a page already read.

*Proved* in `Upstream_proofs.tla`, for any requesters, credentials, refusals,
tags, precedence, and lists and pages of any length: `LookupTypeOK`, `SentUnheld`,
`PickIsLatest` and `OfferFits`. For the gate the invariant `Honest` says that an
entry is never longer than a window GitHub named, and no shorter unless cut; it
holds because `record` takes the credential from the request. For the walk,
`LooksAfter` says that what was listed all along has been read or stands at or
after the next page: publishing moves a tag only towards the end, and only a
withdrawal (`lost`) moves one back over the walk. What a finished walk picks is
then the highest of what it read (`PicksHighest`). `CacheFits` says that an offer
fits the key it is kept under (`Fits`).

## 10. The install probe

`Probe.tla` models `probe.go` and its uses: a probe takes its want, the file's
identity (`LookAt`), asks the cache (`Ask`), runs the tool (`Run`, `TimesOut`) and
stores the verdict (`Store`), with no lock across the four. Inventory reads and
the worker probe at the same time, while the install job publishes, undoes,
records, forgets and verifies in steps of its own; from outside the file is
rewritten, or the interpreter or node moves. A file is an identity and what it
answers when run.

| Run | Shows |
|---|---|
| `probe` | A cached verdict that the next probe would find is what running the tool would give; after a job that ended done the tool reads as installed and is, whichever probe stored last |

*Bounds.* One reader and the job, two versions, the three kinds of launcher, and
three events (6.5 million states, symmetric in the versions; only safety is
checked). The proofs hold for any number of readers.

`CachedIsTrue` excepts `Tainted` verdicts, the ways out the code leaves: a
timeout is stored like an answer; node is not in the fingerprint, so an npm
tool's verdict stands when node goes; and a probe whose link moved between
fingerprint and run stores another file's verdict, which is found once an undone
publication moves the link back (`probe.go:112-118`).

*Proved* in `Probe_proofs.tla`, for any readers, versions and events: `TypeOK`,
`CachedIsTrue` and `DoneStands`. `IInv` says that two files the memory still
speaks of with one identity are one (`Agree`), that a verdict on its way in or
kept is right about the file that was run (`Verdicts`), and what the job's own
probe is about to see while nothing disturbs it (`JobProbe`).

## 11. What a package manager's tool owns

`PackageBins.tla` models `binDiff`, `ownedBins`, `linkPMBins` and the uninstall
of npm, pip, cargo, go and manual sources. The tool declares no executables: the
engine takes what appeared in a directory while a command ran (`Added`), unites
it with what was recorded and is still there, falls back to the conventional
name (`OwnedBins`), links it (`Link`, one name at a time), records it, and later
removes what is recorded. The command may die having left any part of the
package (`CutShort`), the process between any two steps. A package without
executables reads as installed by the version in its `package.json` (`pack`,
`PackageDecides`), every other by its names.

*Abstracted.* The names are disjoint among tools; presence stands for the probe.
`os.Remove`'s errors, which the code ignores, are left out.

| Run | Shows |
|---|---|
| `package_bins` | Once row and record are gone nothing of the tool runs from `bin/` but what an install landed and did not live to record; an install that ends well has every executable of the package on PATH |

*Bounds.* Six sources cover the four ways a backend can behave; the second of
four versions drops one executable and brings another, the third drops one more,
the fourth has none; seven events (1,931,495 states). No fairness: only safety is
checked.

`lost` and `stale` name the exceptions. What landed and was not recorded, after a
failure or a crash, is not seen to appear the next time and only its conventional
name is adopted again (`install.go:1065-1071`). The orphan sweep removes the
recorded links and leaves the manager's package, so that adding the tool again
links only the conventional name.

*Proved* in `PackageBins_proofs.tla`, for any packages, sources, jobs, failures
and crashes: `TypeOK`, `NothingOutlives` and `DoneIsWhole`. Neither is inductive:
`IInv` adds where each name on PATH is accounted for while a job is under way
(`Accounted`), that the snapshot is the directory's (`Running`), and what an
install found and linked so far (`Found`, `Whole`).

## 12. The link directory and the one-shot sweep

`LinkDir.tla` models `pin/purge.go`, which `Ensure` and `Rescan` call with
custody: `purgeOnce` before anything else, `publishConvenienceLinks` at the end.
`ent` is what is at each name (nothing, the previous installer's file, another
owner's file or something else, a link into a version), `ents` what a power loss
may leave there, `marker` the record of the sweep. Both parts look at an entry
(`SweepLooks`, `RetractLooks`) and act on its name in a later step (`SweepRemoves`,
`Retract`, `PublishLink`), so `Other` may write between the two. `PurgeSkips` and
`PurgeBegins` are `purgeOnce`; `Record` and `RecordFlushes` are `recordPurge`,
whose marker is renamed before it is flushed; `StageLink`, `PublishLink`, `ListLinks`,
`Retract` and `LinksFlush` are the links. Every one has its failing form, and an
entry that cannot be read is the event `unread`.

*Abstracted.* One swept name, the primary's, stands for `Purge.Artifacts` and
`Names`, one directory with `StagePrefix` for the staging trees, one for a sidecar's
link. `Purge.Marker` is set. Which version is selected is any (`LinksBegin`); that
its directory is there is `Pin`'s. No other owner uses the staged name: there
`publishLink` removes whatever it finds, although the comment of
`publishConvenienceLinks` allows only an empty slot or an own link.

| Run | Shows |
|---|---|
| `link_dir` | An operation whose link steps succeed ends with the primary's link at the version selected, no other link of the manager's and every other owner's entry as it was; while the marker is there, nothing of the previous installer is left |

*Bounds.* Two interchangeable versions, a volume in any state, any number of
operations, and three failures, unreadable entries, writes of other owners,
crashes or power losses (2,326,074 states). No fairness: only safety is checked.

Two exceptions of `RecordedIsSwept` are the code's (`missed`): an entry `Lstat`
cannot read counts as absent and does not withhold the marker, although a removal
that fails does; and a removal under `LinkDir` is not flushed before the marker
is, so a power loss may bring the entry back beside it.

*Proved* in `Pin_proofs.tla`, for any versions, swept names, failures and losses:
`LinkTypeOK`, `RecordedIsSwept` and `LinksFollow`. `LinkInv` adds that what is left
of the previous installer is yet to be looked at, was missed, or withholds the
marker (`Leftovers`), and, for the links, what each name that nobody else wrote
holds at each step compared with what the operation found there (`Entered`,
`Staging`, `Renaming`, `Linked`, `Retracting`, `Looked`).

## Limits

*Only model-checked.* Every invariant and every action property that a passing
run checks has a theorem. What TLC alone shows is liveness, which with ENABLED is
outside the prover: that `Wait` and `Close` return (`CallsAnswer`,
`CloseEndsClean`), the fairness of `ImplementsLifecycle`, `QueueDrains`,
`Converges`, `Heals` and `CatchesUp`.

*Induction.* The library's induction theorems take an operator as a parameter,
which the installed provers cannot instantiate, so nothing is proved about what a
recursive definition or a fold computes. Where an argument needed an induction it
is made by a least counterexample instead, from the well-foundedness of the
naturals (`Least` in `Upstream_proofs`: a set of naturals that is not empty has a
least element). The models take the highest of a set of positions where the code
loops, so that what it picks can be reasoned about.

*The proof modules.* Each part of one begins with the invariant and what its
conjuncts are for; then come the lemmas on sets and sequences, those on the
actions or on the parts of the invariant, the step that combines them, and the
theorems. The constants have the assumptions that the models state (`...Assumption`),
and no others; TLC evaluates each on the runs of its module.

*The findings* of `PROJECT.json` are the two runs that expect a violation:
`engine_crash_unrecorded` and `publish_fallback`. Each checks what a document or a comment of the repository states. The other divergences
named in the sections above are exceptions of the properties, at their line.

*Not modelled*, with the reason:

* engine: search, the validation of a request and of a patch's `requires` and
  `python` fields (stateless);
* catalog: search ranking, featured lists and aliases, which no state depends on;
* installation: download, checksums, extraction, archive formats
  (`internal/unpack`), template expansion and the scoring of release assets
  (`aqua.go`, `release.go`): functions of bytes and strings; their results are
  the outcomes `Extract` and `StageFails`, and a model would restate them
  character by character;
* version strings: parsing and precedence are an order given as a constant;
* root integrity, system binaries and custody decoding: reads of modes, owners
  and ACLs; the verdict is `control` in `Pin`;
* `pin`: the state record and `validate`;
* the REST handler and the catalog compiler: translations without state of their
  own.

Each property has a mutant in the modules (an operator whose comment begins with
"Mutant:"), a plausible slip in the code that the property's run detects.
