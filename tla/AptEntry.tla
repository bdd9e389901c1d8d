------------------------------ MODULE AptEntry ------------------------------
(***************************************************************************)
(* The life of one apt: entry: its manifest row and state record, the      *)
(* package's record in dpkg, and the worker that brings them together for  *)
(* the jobs callers queue, asking the index of AptIndex about the name.    *)
(*                                                                         *)
(* dpkg is shared: somebody in a shell upgrades the package, marks it held *)
(* or not, and a recreated container forgets it.  A step of the worker is  *)
(* one command it runs or one critical section of store.mu.  The catalog   *)
(* does not know the name, nothing requires it, and a row has a version,   *)
(* which Add or a Patch gave it.  Templates and dependencies are Engine's, *)
(* reservations and admission JobQueue's.                                  *)
(***************************************************************************)
EXTENDS AptIndex

CONSTANTS
    Newest,     \* package versions are 1..Newest; 0 is none
    QueueCap,   \* bound of the model: jobs pending
    LockTries   \* aptArchivesLockRetries

ASSUME EntryAssumption ==
    /\ Newest \in Nat \ {0}
    /\ QueueCap \in Nat \ {0}
    /\ LockTries \in Nat \ {0}

VARIABLES
    row,        \* the Tool, or Absent
    st,         \* its ToolStatus: InstalledVersion, and whether LastError is set
    dpkg,       \* dpkg's record: the version installed, and the hold
    cand,       \* the candidate apt offers
    queue,      \* jobQueue.pending
    pc,         \* where the worker is
    job,        \* the active job's kind
    tool,       \* the row the job read
    found,      \* the version dpkg reported after apt-get
    tries,      \* attempts of aptGetInstall
    good,       \* the install has not failed
    wanted,     \* the pin the job's last step read
    seen,       \* aptDiscovery: the version of the package its list shows, or NotLoaded
    dirty,      \* history: a job failed, or something moved, since the last Reconcile
    unseen      \* history: it did so where the engine does not look

entryVars == <<row, st, dpkg, cand, seen, queue, pc, job, tool, found, tries, good, wanted, dirty, unseen>>
vars == <<indexVars, events, entryVars>>

Versions == 1 .. Newest
NotLoaded == Newest + 1
Absent   == [pin |-> FALSE, ver |-> 0]
Row      == [pin : BOOLEAN, ver : Versions] \cup {Absent}
Kinds    == {"install", "uninstall", "update", "reconcile"}
Pcs      == {"idle", "looking", "deciding", "asking", "lifting", "installing", "reading",
             "committing", "verifying", "following", "failing", "settling", "marking"}

EntryTypeOK ==
    /\ row \in Row
    /\ st \in [ver : 0 .. Newest, failed : BOOLEAN]
    /\ dpkg \in [ver : 0 .. Newest, held : BOOLEAN]
    /\ cand \in Versions
    /\ queue \in Seq(Kinds)
    /\ pc \in Pcs
    /\ job \in Kinds \cup {"none"}
    /\ tool \in Row
    /\ found \in 0 .. Newest
    /\ tries \in 0 .. LockTries
    /\ seen \in 0 .. NotLoaded
    /\ good \in BOOLEAN /\ wanted \in BOOLEAN /\ dirty \in BOOLEAN /\ unseen \in BOOLEAN

TypeOK == IndexTypeOK /\ EntryTypeOK

\* A process starts over the files and the dpkg database it finds: none yet,
\* an installed entry, or one whose container was recreated.
Init ==
    /\ IndexInit
    /\ \/ row = Absent /\ st = [ver |-> 0, failed |-> FALSE]
       \/ row = [pin |-> FALSE, ver |-> 1] /\ st = [ver |-> 1, failed |-> FALSE]
    /\ dpkg \in {[ver |-> 0, held |-> FALSE], [ver |-> 1, held |-> FALSE]}
    /\ cand = 1
    /\ seen = NotLoaded
    /\ queue = <<>>
    /\ pc = "idle" /\ job = "none"
    /\ tool = Absent /\ found = 0 /\ tries = 0 /\ good = TRUE /\ wanted = FALSE
    /\ dirty = (row # Absent /\ dpkg.ver = 0) /\ unseen = dirty

-----------------------------------------------------------------------------
(* Callers: a manifest transaction and the job it queues.                  *)

jobVars == <<pc, job, tool, found, tries, good, wanted>>

Enqueue(k) ==
    /\ closing \in {"open", "index"}
    /\ Len(queue) < QueueCap
    /\ queue' = Append(queue, k)

\* Patches of an enabled apt: row queue an install, for its hold or version.
Edited(r, k) ==
    /\ row' = r
    /\ Enqueue(k)
    /\ UNCHANGED <<indexVars, st, dpkg, cand, seen, jobVars, dirty, unseen>>

\* Add records the candidate it resolved.
Add       == Event("add") /\ row = Absent /\ Edited([pin |-> FALSE, ver |-> cand], "install")
Remove    == Event("remove") /\ row # Absent /\ Edited(Absent, "uninstall")
PatchPin  == Event("pin") /\ row # Absent /\ Edited([row EXCEPT !.pin = ~@], "install")
PatchVersion(v) ==
    /\ Event("version")
    /\ row # Absent /\ v # row.ver
    /\ Edited([row EXCEPT !.ver = v], "install")

Install == Event("install") /\ row # Absent /\ Edited(row, "install")
Update  == Event("update") /\ Edited(row, "update")

Queued(k) == \E i \in DOMAIN queue : queue[i] = k

\* Reconcile, coalesced with a queued one and never refused.  An uninstall that
\* runs after it drops what it recorded.
Reconcile ==
    /\ Event("reconcile")
    /\ closing \in {"open", "index"}
    /\ row # Absent \/ st # [ver |-> 0, failed |-> FALSE]
    /\ queue' = IF Queued("reconcile") THEN queue ELSE Append(queue, "reconcile")
    /\ dirty' = FALSE /\ unseen' = (unseen /\ Queued("uninstall"))
    /\ UNCHANGED <<indexVars, row, st, dpkg, cand, seen, jobVars>>

\* CancelJob of the running job, or its time budget ends.
Cancel ==
    /\ Event("cancel")
    /\ pc # "idle" /\ "worker" \notin gone
    /\ gone' = gone \cup {"worker"}
    /\ UNCHANGED <<lists, once, updateErr, parsed, stage, closing, entryVars>>

\* CancelJob of any queued one, which Close does to all of them.
CancelQueued ==
    /\ \/ Event("cancel")
       \/ closing \in {"queue", "closed"} /\ UNCHANGED events
    /\ \E i \in DOMAIN queue :
           queue' = SubSeq(queue, 1, i - 1) \o SubSeq(queue, i + 1, Len(queue))
    /\ dirty' = TRUE /\ unseen' = TRUE
    /\ UNCHANGED <<indexVars, row, st, dpkg, cand, seen, jobVars>>

Callers ==
    \/ Add \/ Remove \/ PatchPin \/ Install \/ Update \/ Reconcile \/ Cancel
    \/ \E v \in Versions : PatchVersion(v)

-----------------------------------------------------------------------------
(* Outside the engine: the mirror, a shell, the container, the process.    *)

Disturbed(d) ==
    /\ dpkg' = d
    /\ dirty' = TRUE /\ unseen' = TRUE
    /\ UNCHANGED <<indexVars, row, st, cand, seen, queue, jobVars>>

\* A newer version reaches the mirror and the lists.
NewCandidate ==
    /\ Event("candidate")
    /\ cand < Newest
    /\ cand' = cand + 1
    /\ UNCHANGED <<indexVars, row, st, dpkg, seen, queue, jobVars, dirty, unseen>>

\* apt upgrades the package as another one's dependency, or removes it.
ShellMoves(v) ==
    /\ Event("shell")
    /\ ~dpkg.held /\ dpkg.ver # 0
    /\ v \in {0, cand} \ {dpkg.ver}
    /\ Disturbed([dpkg EXCEPT !.ver = v])

\* A hand-run apt-mark.
ShellMarks == Event("shell") /\ dpkg.ver # 0 /\ Disturbed([dpkg EXCEPT !.held = ~@])

\* The process restarts, in the same container or in a new one, which has
\* neither the package nor lists.
Restart(fresh) ==
    /\ Event("restart")
    /\ lists' = (lists /\ ~fresh)
    /\ once' = "fresh" /\ updateErr' = FALSE /\ parsed' = FALSE
    /\ stage' = [x \in Requesters |-> "idle"]
    /\ gone' = {} /\ closing' = "open"
    /\ dpkg' = IF fresh THEN [ver |-> 0, held |-> FALSE] ELSE dpkg
    /\ queue' = <<>>
    /\ pc' = "idle" /\ job' = "none"
    /\ tool' = Absent /\ found' = 0 /\ tries' = 0 /\ good' = TRUE /\ wanted' = FALSE
    /\ dirty' = TRUE /\ unseen' = TRUE
    /\ seen' = NotLoaded
    /\ UNCHANGED <<row, st, cand>>

\* Inventory lists the packages the engine did not install: aptDiscovery.List
\* enumerates them once, and again after Invalidate.
Listing == dpkg.ver

List ==
    /\ Event("list")
    /\ seen = NotLoaded
    /\ seen' = Listing
    /\ UNCHANGED <<indexVars, row, st, dpkg, cand, queue, jobVars, dirty, unseen>>

Outside ==
    \/ NewCandidate \/ ShellMarks \/ List
    \/ \E v \in 0 .. Newest : ShellMoves(v)
    \/ \E fresh \in BOOLEAN : Restart(fresh)

-----------------------------------------------------------------------------
(* The worker.  A command of the job fails by itself, or because the       *)
(* job's context has ended.                                                *)

Alive == "worker" \notin gone
Fails == IF Alive THEN Event("fail") ELSE UNCHANGED events

\* The job is over.
Finish(ok) ==
    /\ pc' = "idle" /\ job' = "none"
    /\ tool' = Absent /\ found' = 0 /\ tries' = 0 /\ good' = TRUE /\ wanted' = FALSE
    /\ dirty' = (dirty \/ ~ok)
    /\ gone' = IF closing = "queue" THEN gone ELSE gone \ {"worker"}

\* aptRecordStale.
RecordStale == st.failed /\ dpkg.ver # st.ver

\* probeApt: a pinned row asks for its version (aptRequest).
Probed(t) ==
    /\ dpkg.ver # 0
    /\ t.pin => dpkg.ver = t.ver
    /\ ~RecordStale

\* converged, for an apt: row.
Converged ==
    /\ st.ver = 0 \/ st.ver = row.ver
    /\ Probed(row)
    /\ dpkg.held = row.pin

\* runOne takes the head.  An uninstall, and a reconcile that finds the record
\* of a row that is gone, drops the record and leaves the package.
Take ==
    /\ pc = "idle" /\ queue # <<>>
    /\ closing \in {"open", "index"}
    /\ queue' = Tail(queue)
    /\ LET k == Head(queue)
           drops == k = "uninstall" \/ (k = "reconcile" /\ row = Absent /\ st.ver # 0)
           installs == row # Absent /\ (k = "install" \/ (k = "reconcile" /\ ~Converged))
           looks == row # Absent /\ k = "update" /\ ~row.pin IN
       /\ \/ st' = (IF drops THEN [ver |-> 0, failed |-> FALSE] ELSE st) /\ UNCHANGED <<dirty, events>>
          \/ drops /\ Event("store") /\ dirty' = TRUE /\ UNCHANGED st
       /\ IF installs \/ looks
          THEN /\ pc' = IF installs THEN "deciding" ELSE "looking"
               /\ job' = k
               /\ tool' = row
               /\ stage' = IF looks THEN [stage EXCEPT !["worker"] = "lists"] ELSE stage
          ELSE UNCHANGED <<pc, job, tool, stage>>
    /\ UNCHANGED <<lists, once, updateErr, parsed, gone, closing,
                   row, dpkg, cand, seen, found, tries, good, wanted, unseen>>

\* updateOne finds a newer candidate and writes it over the row as it is now.
Bump ==
    /\ pc = "looking"
    /\ stage["worker"] = "told"
    /\ Known /\ lists /\ Alive /\ cand # tool.ver
    /\ row' = IF row = Absent THEN row ELSE [row EXCEPT !.ver = cand]
    /\ pc' = "deciding"
    /\ At("worker", "idle")
    /\ UNCHANGED <<lists, once, updateErr, parsed, gone, closing, events, st, dpkg, cand, seen,
                   queue, job, tool, found, tries, good, wanted, dirty, unseen>>

\* It finds none, or the lookup fails, which skips the tool.
BumpSkips ==
    /\ pc = "looking"
    /\ stage["worker"] = "told"
    /\ \/ ~(Known /\ lists) \/ cand = tool.ver
       \/ ~Alive
    /\ At("worker", "idle")
    /\ Finish(TRUE)
    /\ UNCHANGED <<lists, once, updateErr, parsed, closing, events, row, st, dpkg, cand, seen,
                   queue, unseen>>

\* installTool reads the row: one already installed at its version only needs
\* its hold.
Decide ==
    /\ pc = "deciding"
    /\ Alive /\ row # Absent
    /\ tool' = row
    /\ IF st.ver = row.ver /\ Probed(row)
       THEN pc' = "settling" /\ UNCHANGED stage
       ELSE pc' = "asking" /\ At("worker", "lists")
    /\ UNCHANGED <<lists, once, updateErr, parsed, gone, closing, events, row, st, dpkg, cand, seen,
                   queue, job, found, tries, good, wanted, dirty, unseen>>

\* The row is gone, or the job was cancelled: it ends before the install.
DecideNot ==
    /\ pc = "deciding"
    /\ ~Alive \/ row = Absent
    /\ unseen' = TRUE
    /\ Finish(FALSE)
    /\ UNCHANGED <<lists, once, updateErr, parsed, stage, closing, events, row, st, dpkg, cand, seen,
                   queue>>

\* A step of installApt and of what follows it: on to p.
To(p) ==
    /\ pc' = p
    /\ UNCHANGED <<lists, once, updateErr, parsed, gone, closing, cand, queue, job, tool,
                   wanted, dirty>>

\* The index's verdict on the name.
Asked ==
    /\ pc = "asking"
    /\ stage["worker"] = "told"
    /\ At("worker", "idle")
    /\ To(IF Known THEN "lifting" ELSE "failing")
    /\ UNCHANGED <<events, seen, row, st, dpkg, found, tries, good, unseen>>

\* aptQuery, then syncAptHold releases the package's hold.
Lift ==
    /\ pc = "lifting"
    /\ Alive
    /\ found' = dpkg.ver
    /\ dpkg' = [dpkg EXCEPT !.held = FALSE]
    /\ tries' = 1
    /\ To("installing")
    /\ UNCHANGED <<stage, events, seen, row, st, good, unseen>>

\* The version apt-get would leave.
Aim == IF tool.pin THEN tool.ver ELSE IF dpkg.ver > cand THEN dpkg.ver ELSE cand

\* apt-get refuses to move a held package, needs the lists and the version in
\* them, and goes back only when the version installed before asked it to.
AptCan ==
    \/ dpkg.ver = Aim
    \/ /\ ~dpkg.held /\ lists /\ Aim <= cand
       /\ dpkg.ver > Aim => found \notin {0, Aim}

AptGetSucceeds ==
    /\ pc = "installing"
    /\ Alive /\ AptCan
    /\ dpkg' = [dpkg EXCEPT !.ver = Aim]
    /\ To("reading")
    /\ UNCHANGED <<stage, events, seen, row, st, found, tries, good, unseen>>

\* apt-get cannot, fails or is killed, having moved or broken the package or
\* not.
AptGetFails ==
    /\ pc = "installing"
    /\ \/ ~AptCan /\ UNCHANGED <<events, dpkg>>
       \/ AptCan /\ Fails /\ \E v \in {dpkg.ver, Aim, 0} : dpkg' = [dpkg EXCEPT !.ver = v]
    /\ To("failing")
    /\ UNCHANGED <<stage, seen, row, st, found, tries, good, unseen>>

\* The archives lock is held: LockTries attempts in all.
LockBusy ==
    /\ pc = "installing"
    /\ Alive /\ Event("lock")
    /\ IF tries < LockTries THEN tries' = tries + 1 /\ To("installing")
                            ELSE UNCHANGED tries /\ To("failing")
    /\ UNCHANGED <<stage, seen, row, st, dpkg, found, good, unseen>>

\* aptQuery reports the version installed.
Read ==
    /\ pc = "reading"
    /\ Alive /\ dpkg.ver # 0
    /\ found' = dpkg.ver
    /\ To("committing")
    /\ UNCHANGED <<stage, events, seen, row, st, dpkg, tries, good, unseen>>

\* What landed is recorded, and the discovered list becomes list.
Recorded(v, list) ==
    /\ pc = "committing"
    /\ st' = [ver |-> v, failed |-> FALSE]
    /\ seen' = list
    /\ To("verifying")
    /\ UNCHANGED <<stage, events, row, dpkg, found, tries, good, unseen>>

\* Mutants: the record takes the version the row named; the list is kept.
CommitRow       == Recorded(tool.ver, NotLoaded)
CommitKeepsList == Recorded(found, seen)

\* commitInstall, and Invalidate.
Commit == Recorded(found, NotLoaded)

\* Its write fails: the job fails, and no failure is recorded.
CommitFails ==
    /\ pc = "committing"
    /\ Event("store")
    /\ good' = FALSE
    /\ unseen' = TRUE
    /\ To("settling")
    /\ UNCHANGED <<stage, row, st, dpkg, seen, found, tries>>

\* verifyInstalled, by what dpkg says now.
Verify ==
    /\ pc = "verifying"
    /\ To(IF ~Probed(tool) THEN "failing" ELSE IF found # tool.ver THEN "following" ELSE "settling")
    /\ UNCHANGED <<stage, events, seen, row, st, dpkg, found, tries, good, unseen>>

\* followInstalledVersion: the row takes the version dpkg has, unless it was
\* pinned, changed or removed meanwhile.
Follow ==
    /\ pc = "following"
    /\ row' = IF row = Absent \/ row.pin \/ row.ver # tool.ver THEN row
              ELSE [row EXCEPT !.ver = found]
    /\ To("settling")
    /\ UNCHANGED <<stage, events, seen, st, dpkg, found, tries, good, unseen>>

\* A step fails by itself or with its context; the manifest write by itself.
StepFails ==
    /\ \/ pc \in {"lifting", "reading"} /\ Fails
       \/ pc = "reading" /\ dpkg.ver = 0 /\ UNCHANGED events
       \/ pc = "verifying" /\ Event("fail")
       \/ pc = "following" /\ Event("store")
    /\ To("failing")
    /\ UNCHANGED <<stage, seen, row, st, dpkg, found, tries, good, unseen>>

\* Mutant: an install failure is not recorded.
FailQuietly ==
    /\ pc = "failing"
    /\ good' = FALSE
    /\ To("settling")
    /\ UNCHANGED <<stage, events, seen, row, st, dpkg, found, tries, unseen>>

\* recordFailure, whose own failure is only logged.
Fail ==
    /\ pc = "failing"
    /\ \/ st' = [st EXCEPT !.failed = TRUE] /\ UNCHANGED <<events, unseen>>
       \/ Event("store") /\ unseen' = TRUE /\ UNCHANGED st
    /\ good' = FALSE
    /\ To("settling")
    /\ UNCHANGED <<stage, seen, row, dpkg, found, tries>>

\* holdToPin reads the row as it is now, whatever the install did.
Settle ==
    /\ pc = "settling"
    /\ row # Absent
    /\ wanted' = row.pin
    /\ pc' = "marking"
    /\ UNCHANGED <<indexVars, events, row, st, dpkg, cand, seen, queue, job, tool, found, tries,
                   good, dirty, unseen>>

\* settleAptHold after holdToPin: a job that did both clears the row's error.
Ended ==
    /\ st' = IF good THEN [st EXCEPT !.failed = FALSE] ELSE st
    /\ Finish(good)
    /\ UNCHANGED <<lists, once, updateErr, parsed, stage, closing, events, row, cand, seen, queue,
                   unseen>>

\* A row that is gone has no hold to settle.
SettleNot ==
    /\ pc = "settling"
    /\ row = Absent
    /\ Ended
    /\ UNCHANGED dpkg

\* syncAptHold, which a cancelled job still runs: only an installed package is
\* held.
Mark ==
    /\ pc = "marking"
    /\ dpkg' = IF wanted /\ dpkg.ver = 0 THEN dpkg ELSE [dpkg EXCEPT !.held = wanted]
    /\ Ended

\* apt-mark fails, and the failure is recorded, or that write fails too.
MarkFails ==
    /\ pc = "marking"
    /\ Event("fail")
    /\ \/ st' = [st EXCEPT !.failed = TRUE] /\ UNCHANGED unseen
       \/ unseen' = TRUE /\ UNCHANGED st
    /\ Finish(FALSE)
    /\ UNCHANGED <<lists, once, updateErr, parsed, stage, closing, row, dpkg, cand, seen, queue>>

\* jobQueue.Close returned.
CloseEnds ==
    /\ closing = "queue"
    /\ pc = "idle"
    /\ closing' = "closed"
    /\ UNCHANGED <<lists, once, updateErr, parsed, stage, gone, events, entryVars>>

Worker ==
    \/ Take \/ Bump \/ BumpSkips \/ Decide \/ DecideNot \/ Asked \/ Lift
    \/ AptGetSucceeds \/ AptGetFails \/ LockBusy \/ Read \/ Commit \/ CommitFails
    \/ Verify \/ Follow \/ StepFails \/ Fail \/ Settle \/ SettleNot \/ Mark \/ MarkFails

Index ==
    \/ Requests
    \/ IndexClosed
    \/ \E x \in Requesters : IndexStep(x)

Next == Callers \/ CancelQueued \/ Outside \/ Worker \/ CloseEnds \/ (Index /\ UNCHANGED entryVars)

Safe == Init /\ [][Next]_vars

\* Commands end within their budgets, and the worker and Close go on.
Fairness ==
    /\ WF_vars(Worker)
    /\ \A x \in Requesters : WF_vars(IndexStep(x) /\ UNCHANGED entryVars)
    /\ WF_vars(IndexClosed /\ UNCHANGED entryVars)
    /\ WF_vars(CloseEnds)

Spec == Safe /\ Fairness

-----------------------------------------------------------------------------
(* Properties.                                                             *)

\* What an entry's install promises: dpkg has the package, held exactly when
\* the entry is pinned and then at its version, and the record and the entry
\* name one version.
Settled ==
    /\ dpkg.ver # 0
    /\ dpkg.held = row.pin
    /\ row.pin => dpkg.ver = row.ver
    /\ st.ver # 0 => st.ver = row.ver

Quiet == pc = "idle" /\ queue = <<>>

\* Whatever a shell, a new container, a crash or a failed job left, a Reconcile
\* whose jobs all succeed leaves the entry settled, and so do the edits made
\* meanwhile (runReconcile, converged; docs/how-it-works.md:100).
ReconcileHeals == Quiet /\ ~dirty /\ row # Absent => Settled

\* An entry is never left unsettled in silence: unless a job was dropped before
\* it began, a state write failed or somebody else moved the package, the entry
\* says its last job failed (recordFailure, settleAptHold).
AccountedFor == Quiet /\ ~unseen /\ row # Absent => Settled \/ st.failed

\* A reader who looks after an install that ran apt-get sees what it left,
\* though the list was enumerated while it ran and nothing else drops it
\* (aptDiscovery.Invalidate in commitInstall).
ListFollowsInstall ==
    [][job # "none" /\ job' = "none" /\ tries > 0 /\ good /\ dpkg.ver = found
        => seen' \in {NotLoaded, found}]_vars

\* Close returns, though the refresh it waits for may be waiting for an update
\* that runs in a job it has yet to cancel, and afterwards neither the refresh
\* nor the worker runs (Engine.Close, aptIndex.Close, aptIndex.refresh).
CloseEndsClean ==
    /\ [](closing = "closed" => stage["refresh"] = "idle" /\ pc = "idle")
    /\ closing = "index" ~> closing \in {"closed", "open"}

=============================================================================
