-------------------------------- MODULE Pin --------------------------------
(***************************************************************************)
(* pin.Manager (pin/): one pinned release on a volume that outlives the    *)
(* process and that others may reach.  EnsureWithRetry, Ensure and Rescan  *)
(* take turns through opSem; the phase, the active version and the custody *)
(* verdict are shared under mu and read between any two steps.             *)
(*                                                                         *)
(* The volume has its content now and the set of contents a power loss may *)
(* leave: every one it had since its last fsync.                           *)
(***************************************************************************)
EXTENDS Integers, FiniteSets

CONSTANTS
    NumVersions,    \* the versions are 1..NumVersions
    Pin,            \* Config.Version
    MaxAttempts,    \* Config.MaxAttempts
    MaxEvents       \* bound of the model: calls, failures and outside changes

Versions == 1 .. NumVersions

ASSUME PinAssumption ==
    /\ NumVersions \in Nat
    /\ Pin \in Versions
    /\ MaxAttempts \in Nat \ {0}
    /\ MaxEvents \in Nat

VARIABLES
    untrusted,  \* Config.Untrusted
    control,    \* what custody.Trust.Verify would answer now
    tree,       \* the version directories
    trees,      \* what a power loss may leave of them
    age,        \* the rank of each directory's mtime, larger is later
    verdict,    \* custodyErr = nil
    active,     \* active.version, 0 when none is
    asserted,   \* assertionsOK
    phase,
    installed,  \* versions this process published
    op,         \* who holds opSem
    waiting,    \* who waits for it
    pc,         \* where the holder is
    sel,        \* its selection, 0 when there is none
    inst,       \* its install
    victims,    \* what its prune deletes
    victim,     \* the directory being deleted
    rpc,        \* where EnsureWithRetry is
    attempt,
    failed,     \* its last attempt returned an error
    cancelled,  \* its context is done
    served,     \* history: a good version was activated, nothing but this
                \* package changed the volume since, and no reinstall had to
                \* remove the last good one
    unsynced,   \* history: the last publish was not flushed
    events

volume  == <<tree, trees, age>>
memory  == <<verdict, active, asserted, phase, installed>>
holder  == <<sel, inst, victims, victim>>
retry   == <<rpc, attempt, failed, cancelled>>
history == <<served, unsynced>>
vars == <<untrusted, control, volume, memory, op, waiting, pc, holder, retry, history, events>>

\* A version directory is absent, incomplete (no sentinel, or no primary
\* artifact beside it), complete and answering its version, or complete and
\* refused by activatable (its probe, or an entry that is not private).
Contents == {"none", "partial", "good", "wedged"}
Complete(c) == c \in {"good", "wedged"}

\* A process that finds t has a version to activate.
Starts(t) == \E v \in Versions : t[v] = "good"

Callers == {"retry", "ensure", "rescan"}

OpPcs == {"custody", "sweeping", "selecting", "requiring", "obtaining", "clearing", "emptying", "renaming",
          "syncing", "asserting", "marking", "listing", "pruning", "deleting", "unavailable", "settling",
          "returning"}

\* The parts of TypeOK: the volume, the flags, the positions.
VolumeType ==
    /\ trees \subseteq [Versions -> Contents] /\ tree \in trees
    /\ age \in [Versions -> Int]

FlagType ==
    /\ untrusted \in BOOLEAN /\ control \in BOOLEAN
    /\ verdict \in BOOLEAN /\ asserted \in BOOLEAN
    /\ failed \in BOOLEAN /\ cancelled \in BOOLEAN
    /\ served \in BOOLEAN /\ unsynced \in BOOLEAN

PlaceType ==
    /\ active \in 0 .. NumVersions
    /\ phase \in {"idle", "installing", "retrying", "ready", "failed"}
    /\ installed \subseteq Versions
    /\ op \in Callers \cup {"none"}
    /\ waiting \subseteq Callers
    /\ pc \in OpPcs \cup {"idle"}
    /\ op = "none" <=> pc = "idle"
    /\ sel \in 0 .. NumVersions
    /\ pc \in {"asserting", "marking", "listing", "pruning", "deleting"} => sel # 0
    /\ inst \in {"untried", "ok", "failed"}
    /\ victims \subseteq Versions
    /\ victim \in 0 .. NumVersions
    /\ pc = "deleting" => victim # 0
    /\ rpc \in {"none", "begin", "attempting", "returned", "sleeping", "settling"}
    /\ attempt \in 0 .. MaxAttempts
    /\ events \in 0 .. MaxEvents

\* Every variable keeps its type; a position from the assertions on has its
\* selection, and the slot is held by whoever has a position.
TypeOK == VolumeType /\ FlagType /\ PlaceType

\* A first process on a volume earlier ones, with other pins, left in any way,
\* under any history of activations (nothing reads the rank of an incomplete
\* directory).
Init ==
    /\ untrusted \in BOOLEAN
    /\ control \in BOOLEAN
    /\ tree \in [Versions -> Contents]
    /\ trees = {tree}
    /\ age \in {a \in [Versions -> Versions] : \A u, v \in Versions : u # v =>
            /\ a[u] # a[v]
            /\ ~Complete(tree[u]) /\ (Complete(tree[v]) \/ u < v) => a[u] < a[v]}
    /\ verdict = TRUE
    /\ active = 0 /\ asserted = FALSE
    /\ phase = "idle"
    /\ installed = {}
    /\ op = "none" /\ waiting = {} /\ pc = "idle"
    /\ sel = 0 /\ inst = "untried" /\ victims = {} /\ victim = 0
    /\ rpc = "none" /\ attempt = 0 /\ failed = FALSE /\ cancelled = FALSE
    /\ served = FALSE /\ unsynced = FALSE
    /\ events = 0

-----------------------------------------------------------------------------
(* Writes, choices and their failures.                                     *)

Event == events < MaxEvents /\ events' = events + 1

Tree(t)   == tree' = t /\ trees' = trees \cup {t}
Put(v, c) == [tree EXCEPT ![v] = c]

\* v's mtime becomes the latest.
Touched(v) == [u \in Versions |->
    IF u = v THEN NumVersions ELSE IF age[u] > age[v] THEN age[u] - 1 ELSE age[u]]

Ready == active # 0 /\ asserted

\* The probes that go unanswered: all of them once the context is done, or
\* some by accident (a timeout).
ProbesOut == SUBSET {v \in Versions : tree[v] = "good"} \cup {Versions}

Unanswered(F) ==
    IF op = "retry" /\ cancelled THEN F = Versions /\ UNCHANGED events
    ELSE IF F = {} THEN UNCHANGED events ELSE Event

\* A run that failed, or was cut short by the context.
Fails == IF op = "retry" /\ cancelled THEN UNCHANGED events ELSE Event

Works == ~(op = "retry" /\ cancelled) /\ UNCHANGED events

\* The holder goes on.
Goto(p) == pc' = p /\ UNCHANGED <<op, waiting>>

-----------------------------------------------------------------------------
(* versions.go: what may be activated.                                     *)

\* Mutant: what is on the volume is believed.
TrustedAsFound(v) == verdict

\* trusted
Trusted(v) == verdict /\ (untrusted => v \in installed)

\* activatable, of a complete version, when the probes of F fail.
Activatable(v, F) == Trusted(v) /\ tree[v] = "good" /\ v \notin F

\* preferPin: the pin, then the latest activated.
Before(u, v) == u = Pin \/ (v # Pin /\ age[u] > age[v])

\* selectActive's answer is s.
Selected(s, F) ==
    LET can == {v \in Versions : Activatable(v, F)}
    IN  IF can = {} THEN s = 0 ELSE s \in can /\ \A u \in can \ {s} : Before(s, u)

Predecessors == {v \in Versions \ {sel} : Complete(tree[v])}

\* Mutant: a predecessor that would fail its probe takes the slot.
RoleWithoutProbe(v, F) == IF Trusted(v) THEN "fallback" ELSE "prunable"

\* predecessorRole, asked only under a clean verdict.
Role(v, F) ==
    IF ~Trusted(v) THEN "prunable"
    ELSE IF Activatable(v, F) THEN "fallback" ELSE "immune"

\* The most recently activated fallback is f, which is kept.
Kept(f, F) ==
    LET can == {v \in Predecessors : Role(v, F) = "fallback"}
    IN  IF can = {} THEN f = 0 ELSE f \in can /\ \A u \in can \ {f} : age[f] > age[u]

\* retain.Victims with one predecessor kept: what ranks after it, and what is
\* prunable.
Victims(f, F) ==
    {v \in Predecessors : \/ f # 0 /\ age[f] > age[v]
                          \/ Role(v, F) = "prunable"}

-----------------------------------------------------------------------------
(* Ensure and Rescan.                                                      *)

\* A caller other than EnsureWithRetry asks for the slot.
Call(c) ==
    /\ c \in Callers \ ({"retry"} \cup waiting)
    /\ op # c
    /\ Event
    /\ waiting' = waiting \cup {c}
    /\ UNCHANGED <<untrusted, control, volume, memory, op, pc, holder, retry, history>>

\* acquireOp
Acquire(c) ==
    /\ op = "none"
    /\ c \in waiting
    /\ op' = c
    /\ waiting' = waiting \ {c}
    /\ pc' = "custody"
    /\ UNCHANGED <<untrusted, control, volume, memory, holder, retry, history, events>>

\* Its caller's context ends first.
GiveUp(c) ==
    /\ c \in waiting
    /\ IF c = "retry" THEN cancelled /\ rpc' = "returned" /\ failed' = TRUE /\ UNCHANGED events
       ELSE Event /\ UNCHANGED <<rpc, failed>>
    /\ waiting' = waiting \ {c}
    /\ UNCHANGED <<untrusted, control, volume, memory, op, pc, holder, attempt, cancelled, history>>

CheckCustody ==
    /\ pc = "custody"
    /\ verdict' = control
    /\ Goto(IF op # "rescan" /\ control THEN "sweeping" ELSE "selecting")
    /\ UNCHANGED <<untrusted, control, volume, active, asserted, phase, installed, holder, retry, history, events>>

\* prunePartials: what it fails to remove stays.
Sweep ==
    /\ pc = "sweeping"
    /\ \E left \in SUBSET {v \in Versions : tree[v] = "partial"} :
        /\ IF left = {} THEN UNCHANGED events ELSE Event
        /\ Tree([v \in Versions |-> IF tree[v] = "partial" /\ v \notin left THEN "none" ELSE tree[v]])
    /\ Goto("selecting")
    /\ UNCHANGED <<untrusted, control, age, memory, holder, retry, history>>

\* selectActive, and what Ensure and Rescan make of it.
Select ==
    /\ pc = "selecting"
    /\ \E F \in ProbesOut, s \in 0 .. NumVersions :
        /\ Unanswered(F)
        /\ Selected(s, F)
        /\ sel' = s
    /\ Goto(IF op # "rescan" /\ sel' # Pin /\ inst = "untried" THEN "requiring"
            ELSE IF sel' = 0 THEN "unavailable" ELSE "asserting")
    /\ UNCHANGED <<untrusted, control, volume, memory, inst, victims, victim, retry, history>>

-----------------------------------------------------------------------------
(* install                                                                 *)

\* The install returns an error: any version selected before it is kept.
InstallFailed ==
    /\ inst' = "failed"
    /\ Goto(IF sel = 0 THEN "unavailable" ELSE "asserting")
    /\ UNCHANGED <<sel, victims, victim>>

\* requireCustody
Require ==
    /\ pc = "requiring"
    /\ verdict' = control
    /\ IF control THEN Goto("obtaining") /\ UNCHANGED holder ELSE InstallFailed
    /\ UNCHANGED <<untrusted, control, volume, active, asserted, phase, installed, retry, history, events>>

\* ensureVersionsDir fails before it.
RequireFails ==
    /\ pc = "requiring"
    /\ Event
    /\ InstallFailed
    /\ UNCHANGED <<untrusted, control, volume, memory, retry, history>>

\* The archive is fetched, verified, extracted, gated and assembled in a
\* staging tree that no selection sees.
Obtain ==
    /\ pc = "obtaining"
    /\ Works
    /\ Goto("clearing")
    /\ UNCHANGED <<untrusted, control, volume, memory, holder, retry, history>>

ObtainFails ==
    /\ pc = "obtaining"
    /\ Fails
    /\ InstallFailed
    /\ UNCHANGED <<untrusted, control, volume, memory, retry, history>>

\* publish removes the pin's directory, file by file.
ClearBegins ==
    /\ pc = "clearing"
    /\ tree[Pin] # "none"
    /\ Tree(Put(Pin, "partial"))
    /\ served' = (served /\ Starts(tree'))
    /\ Goto("emptying")
    /\ UNCHANGED <<untrusted, control, age, memory, holder, retry, unsynced, events>>

Clear ==
    /\ pc = "emptying" \/ (pc = "clearing" /\ tree[Pin] = "none")
    /\ Tree(Put(Pin, "none"))
    /\ Goto("renaming")
    /\ UNCHANGED <<untrusted, control, age, memory, holder, retry, history, events>>

\* The removal stops half-way.
ClearFails ==
    /\ pc \in {"clearing", "emptying"}
    /\ Event
    /\ InstallFailed
    /\ UNCHANGED <<untrusted, control, volume, memory, retry, history>>

\* The staged directory takes the pin's name.
Rename ==
    /\ pc = "renaming"
    /\ tree[Pin] = "none"
    /\ Tree(Put(Pin, "good"))
    /\ age' = Touched(Pin)
    /\ unsynced' = TRUE
    /\ Goto("syncing")
    /\ UNCHANGED <<untrusted, control, memory, holder, retry, served, events>>

\* Something took the name since, or the call fails.
RenameFails ==
    /\ pc = "renaming"
    /\ IF tree[Pin] = "none" THEN Event ELSE UNCHANGED events
    /\ InstallFailed
    /\ UNCHANGED <<untrusted, control, volume, memory, retry, history>>

\* Mutant: the flush of the installation root is forgotten.
NotFlushed == trees

Flushed == {tree}

\* The installation root is flushed and the publication noted.
Sync ==
    /\ pc = "syncing"
    /\ trees' = Flushed
    /\ unsynced' = FALSE
    /\ installed' = installed \cup {Pin}
    /\ inst' = "ok"
    /\ Goto("selecting")
    /\ UNCHANGED <<untrusted, control, tree, age, verdict, active, asserted, phase, sel, victims, victim, retry, served, events>>

SyncFails ==
    /\ pc = "syncing"
    /\ Event
    /\ InstallFailed
    /\ UNCHANGED <<untrusted, control, volume, memory, retry, history>>

-----------------------------------------------------------------------------
(* finish, recordUnavailable and settlePhase.                              *)

Closing == IF op = "rescan" THEN "settling" ELSE "returning"

\* applyAssertions on the selected artifact, and commit.
Commit ==
    /\ pc = "asserting"
    /\ \/ tree[sel] # "none" /\ Works /\ asserted' = TRUE
       \/ tree[sel] # "good" /\ UNCHANGED events /\ asserted' = FALSE
       \/ Fails /\ asserted' = FALSE
    /\ active' = sel
    /\ phase' = IF asserted' THEN "ready" ELSE phase
    /\ served' = (served \/ tree[sel] = "good")
    /\ Goto("marking")
    /\ UNCHANGED <<untrusted, control, volume, verdict, installed, holder, retry, unsynced>>

\* Mutant: the tree is written under any verdict.
AnyTree == TRUE

MayMutateTree == verdict

\* markActivated, which may fail; a refused verdict or a failed install ends
\* the operation here.
Mark ==
    /\ pc = "marking"
    /\ \/ MayMutateTree /\ tree[sel] # "none" /\ age' = Touched(sel) /\ UNCHANGED events
       \/ (~MayMutateTree \/ tree[sel] = "none") /\ UNCHANGED <<age, events>>
       \/ MayMutateTree /\ Event /\ UNCHANGED age
    /\ Goto(IF MayMutateTree /\ inst # "failed" THEN "listing" ELSE Closing)
    /\ UNCHANGED <<untrusted, control, tree, trees, memory, holder, retry, history>>

\* pruneSuperseded chooses.
List ==
    /\ pc = "listing"
    /\ \E F \in ProbesOut, f \in 0 .. NumVersions :
        /\ Unanswered(F)
        /\ Kept(f, F)
        /\ victims' = Victims(f, F)
    /\ Goto(IF victims' = {} THEN Closing ELSE "pruning")
    /\ UNCHANGED <<untrusted, control, volume, memory, sel, inst, victim, retry, history>>

PruneBegins(v) ==
    /\ pc = "pruning"
    /\ v \in victims
    /\ Tree(IF tree[v] = "none" THEN tree ELSE Put(v, "partial"))
    /\ victims' = victims \ {v}
    /\ victim' = v
    /\ Goto("deleting")
    /\ UNCHANGED <<untrusted, control, age, memory, sel, inst, retry, history, events>>

\* The removal ends, or fails and leaves the rest.
Prune ==
    /\ pc = "deleting"
    /\ \/ Tree(Put(victim, "none")) /\ UNCHANGED events
       \/ Event /\ UNCHANGED <<tree, trees>>
    /\ victim' = 0
    /\ Goto("pruning")
    /\ UNCHANGED <<untrusted, control, age, memory, sel, inst, victims, retry, history>>

\* The flush after the removals is skipped when none succeeded, and may fail.
PruneEnds ==
    /\ pc = "pruning"
    /\ victims = {}
    /\ trees' \in {trees, {tree}}
    /\ Goto(Closing)
    /\ UNCHANGED <<untrusted, control, tree, age, memory, holder, retry, history, events>>

\* recordUnavailable
Unavailable ==
    /\ pc = "unavailable"
    /\ active' = 0 /\ asserted' = FALSE
    /\ Goto(Closing)
    /\ UNCHANGED <<untrusted, control, volume, verdict, phase, installed, holder, retry, history, events>>

SettledPhase == IF Ready THEN "ready" ELSE "failed"

\* Rescan's settlePhase.
Settle ==
    /\ pc = "settling"
    /\ phase' = SettledPhase
    /\ Goto("returning")
    /\ UNCHANGED <<untrusted, control, volume, verdict, active, asserted, installed, holder, retry, history, events>>

\* Mutant: a failed assertion is not returned.
InstallErr == inst = "failed"

\* Ensure returns an error when nothing is active, an assertion failed or the
\* install did.
EnsureErr == ~asserted \/ inst = "failed"

\* Mutant: a return without releaseOp.
NotReleased == op

Released == "none"

\* releaseOp, and the caller goes on.
Return ==
    /\ pc = "returning"
    /\ IF op = "retry" THEN rpc' = "returned" /\ failed' = EnsureErr
       ELSE UNCHANGED <<rpc, failed>>
    /\ op' = Released /\ pc' = "idle"
    /\ sel' = 0 /\ inst' = "untried" /\ victims' = {} /\ victim' = 0
    /\ UNCHANGED <<untrusted, control, volume, memory, waiting, attempt, cancelled, history, events>>

-----------------------------------------------------------------------------
(* EnsureWithRetry                                                         *)

RetryBegins ==
    /\ rpc = "none"
    /\ Event
    /\ rpc' = "begin" /\ attempt' = 1
    /\ UNCHANGED <<untrusted, control, volume, memory, op, waiting, pc, holder, failed, cancelled, history>>

\* setAttemptPhase, and Ensure is called.
AttemptBegins ==
    /\ rpc = "begin"
    /\ phase' = IF phase = "ready" THEN phase ELSE IF attempt = 1 THEN "installing" ELSE "retrying"
    /\ rpc' = "attempting"
    /\ waiting' = waiting \cup {"retry"}
    /\ UNCHANGED <<untrusted, control, volume, verdict, active, asserted, installed, op, pc, holder,
                   attempt, failed, cancelled, history, events>>

TriesAgain == failed /\ ~cancelled /\ attempt < MaxAttempts

AttemptEnds ==
    /\ rpc = "returned"
    /\ IF TriesAgain
       THEN rpc' = "sleeping" /\ phase' = "retrying"
       ELSE rpc' = "settling" /\ UNCHANGED phase
    /\ UNCHANGED <<untrusted, control, volume, verdict, active, asserted, installed, op, waiting, pc, holder,
                   attempt, failed, cancelled, history, events>>

\* The backoff ends: its timer first, or the context.
WakesUp ==
    /\ rpc = "sleeping"
    /\ \/ rpc' = "begin" /\ attempt' = attempt + 1
       \/ cancelled /\ rpc' = "settling" /\ UNCHANGED attempt
    /\ UNCHANGED <<untrusted, control, volume, memory, op, waiting, pc, holder, failed, cancelled, history, events>>

\* settlePhase, and EnsureWithRetry returns.
RetrySettles ==
    /\ rpc = "settling"
    /\ phase' = SettledPhase
    /\ rpc' = "none" /\ attempt' = 0 /\ failed' = FALSE /\ cancelled' = FALSE
    /\ UNCHANGED <<untrusted, control, volume, verdict, active, asserted, installed, op, waiting, pc, holder,
                   history, events>>

Cancel ==
    /\ rpc # "none"
    /\ ~cancelled
    /\ Event
    /\ cancelled' = TRUE
    /\ UNCHANGED <<untrusted, control, volume, memory, op, waiting, pc, holder, rpc, attempt, failed, history>>

-----------------------------------------------------------------------------
(* The volume and the process.                                             *)

\* Another principal, or an operator, puts c where version v is.
Outside(v, c) ==
    /\ Event
    /\ tree[v] # c
    /\ tree' = Put(v, c) /\ trees' = {tree'}
    /\ age' \in {age, Touched(v)}
    /\ served' = FALSE /\ unsynced' = FALSE
    /\ UNCHANGED <<untrusted, control, memory, op, waiting, pc, holder, retry>>

\* The volume is remounted or its modes change.
ControlChanges ==
    /\ Event
    /\ control' = ~control
    /\ UNCHANGED <<untrusted, volume, memory, op, waiting, pc, holder, retry, history>>

\* A new process begins.
Fresh ==
    /\ verdict' = TRUE
    /\ active' = 0 /\ asserted' = FALSE /\ phase' = "idle" /\ installed' = {}
    /\ op' = "none" /\ waiting' = {} /\ pc' = "idle"
    /\ sel' = 0 /\ inst' = "untried" /\ victims' = {} /\ victim' = 0
    /\ rpc' = "none" /\ attempt' = 0 /\ failed' = FALSE /\ cancelled' = FALSE

Restart ==
    /\ Event
    /\ Fresh
    /\ UNCHANGED <<untrusted, control, volume, history>>

PowerLoss ==
    /\ Event
    /\ Fresh
    /\ tree' \in trees /\ trees' = {tree'}
    /\ served' = (served /\ ~unsynced) /\ unsynced' = FALSE
    /\ UNCHANGED <<untrusted, control, age>>

Operation ==
    \/ \E c \in Callers : Acquire(c)
    \/ CheckCustody \/ Sweep \/ Select
    \/ Require \/ RequireFails \/ Obtain \/ ObtainFails \/ ClearBegins \/ Clear \/ ClearFails \/ Rename \/ RenameFails
    \/ Sync \/ SyncFails
    \/ Commit \/ Mark \/ List
    \/ \E v \in Versions : PruneBegins(v)
    \/ Prune \/ PruneEnds \/ Unavailable \/ Settle \/ Return

Retry == AttemptBegins \/ AttemptEnds \/ WakesUp \/ RetrySettles

Next ==
    \/ Operation \/ Retry
    \/ RetryBegins \/ Cancel
    \/ \E c \in Callers : Call(c) \/ GiveUp(c)
    \/ \E v \in Versions, c \in Contents : Outside(v, c)
    \/ ControlChanges \/ Restart \/ PowerLoss

Safe == Init /\ [][Next]_vars

\* An admitted operation runs to its end (each step is bounded by a timeout or
\* the stall guard), a waiting one is admitted, and so does the retry loop.
Spec == Safe /\ WF_vars(Operation) /\ WF_vars(Retry)
-----------------------------------------------------------------------------
(* Properties.                                                             *)

\* The refusal means what it says (finish, Ensure): this package deletes,
\* publishes and marks nothing after its last look at the custody refused.
HandsOff ==
    [][Operation /\ <<tree, age>>' # <<tree, age>> => verdict]_vars

\* Whatever a power loss leaves, a version that would start again is there,
\* once one was activated: a reinstall is flushed before the selection sees it
\* and a prune never takes what it would fall back to (publish, prunePartials,
\* pruneSuperseded).  Unless the publication's own flush failed.
Recoverable ==
    served /\ ~unsynced => \A t \in trees : Starts(t)

\* On a volume declared untrusted, an active version is one this very process
\* published, through every retry, rescan and restart (trusted).
OnlyOwnInstalls ==
    untrusted /\ active # 0 => active \in installed

\* A prune takes a version that could be activated only if one more such
\* predecessor stays (predecessorRole, retain.Victims).
FallbackKept ==
    [][List => \A v \in victims' : Activatable(v, {}) =>
        \E u \in Versions \ (victims' \cup {sel}) : Activatable(u, {})]_vars

\* A retry that ends well leaves the manager ready (EnsureWithRetry), whatever
\* its concurrent rescans found before.
GoodEndsReady ==
    [][Return /\ op = "retry" /\ ~failed' => Ready /\ phase = "ready" /\ verdict]_vars

\* Whatever the volume holds and whatever failed before: an EnsureWithRetry, or
\* one more attempt of it, that begins after the last failure on a volume this
\* process controls returns with the pin online, rescans notwithstanding.
Heals ==
    (rpc = "begin" /\ events = MaxEvents /\ control /\ ~cancelled)
        ~> (rpc = "none" /\ active = Pin /\ Ready /\ phase = "ready")

-----------------------------------------------------------------------------
(* The inductive invariant: what the holder's position says of the         *)
(* verdict, of its selection and of the volume.                            *)

InstallPcs == {"requiring", "obtaining", "clearing", "emptying", "renaming", "syncing"}

\* The tree is written under a clean verdict; a selection whose install did not
\* fail was made under one.
CustodyOK ==
    /\ pc \in (InstallPcs \ {"requiring"}) \cup {"sweeping", "listing", "pruning", "deleting"} => verdict
    /\ pc \in {"asserting", "marking"} /\ inst # "failed" => verdict
    /\ pc \in {"settling", "returning"} /\ inst # "failed" /\ asserted => verdict

\* EnsureWithRetry waits for the slot or holds it only inside an attempt, and
\* sleeps only with one left.
RetryOK ==
    /\ op = "retry" \/ "retry" \in waiting => rpc = "attempting"
    /\ ~(op = "retry" /\ "retry" \in waiting)
    /\ rpc = "sleeping" => attempt < MaxAttempts

\* What an operation asserted is active, and the retry's own made it ready.
PhaseOK ==
    /\ asserted => active # 0
    /\ op = "retry" /\ asserted /\ pc \in {"marking", "listing", "pruning", "deleting", "returning"} =>
        phase = "ready"

\* The selection is trusted.
SelectionOK == untrusted /\ sel # 0 => sel \in installed

\* Once served, the selection stays good, is not the directory an install
\* replaces, and no prune takes it.
VolumeOK ==
    /\ served => Starts(tree)
    /\ ~unsynced /\ Starts(tree) => \A t \in trees : Starts(t)
    /\ served /\ sel # 0 => tree[sel] = "good"
    /\ pc \in InstallPcs => sel # Pin
    /\ pc = "emptying" /\ served => tree[Pin] # "good"
    /\ sel \notin victims
    /\ pc \notin {"pruning", "deleting"} => victims = {}
    /\ pc = "deleting" => victim # sel

IInv == TypeOK /\ CustodyOK /\ RetryOK /\ PhaseOK /\ SelectionOK /\ OnlyOwnInstalls /\ VolumeOK
=============================================================================
