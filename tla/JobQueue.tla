------------------------------ MODULE JobQueue ------------------------------
(***************************************************************************)
(* The single-flight job queue of jobs.go: callers reserve, publish,       *)
(* release, enqueue, cancel and wait; one worker goroutine runs the jobs   *)
(* one at a time; Close drains what is left.                               *)
(*                                                                         *)
(* Every action is one critical section of q.mu, or one step a goroutine   *)
(* takes outside it.  Job ids are the values of q.nextID.  reserveLocked   *)
(* increments nextID and appends to q.pending in one critical section and  *)
(* nothing reorders q.pending, so the slice is the SET of its ids read in  *)
(* increasing order: pending[0] is the least element.                      *)
(***************************************************************************)
EXTENDS Integers, Sequences, FiniteSets

CONSTANTS
    MaxJobs,       \* bound of the model: jobs ever reserved
    JobQueueCap,   \* jobQueueCap, 8 in the code
    JobHistory,    \* jobHistory, 10 in the code
    TerminalCap,   \* 4*jobHistory in the code
    OtherKinds,    \* the job kinds that are not "reconcile"
    PlanKinds,     \* the kinds that resolve an install plan
    Waiters        \* goroutines calling Wait

ASSUME JobQueueAssumption ==
    /\ MaxJobs \in Nat
    /\ JobQueueCap \in Nat \ {0}
    /\ JobHistory \in Nat \ {0}
    /\ TerminalCap \in Nat
    /\ TerminalCap >= JobHistory
    /\ "reconcile" \notin OtherKinds
    /\ "none" \notin OtherKinds

Jobs     == 1 .. MaxJobs
NoJob    == 0
Kinds    == OtherKinds \cup {"reconcile"}
Ended    == {"done", "failed", "cancelled"}
States   == {"none", "queued", "running"} \cup Ended
Causes   == {"unknown", "caller", "shutdown"}
NoView   == [state |-> "none", cause |-> "unknown"]

VARIABLES
    stopped,    \* q.stopped
    nextID,     \* q.nextID
    pending,    \* ids in q.pending
    active,     \* id of q.active, NoJob for nil
    recent,     \* ids of q.recent, oldest first
    terminal,   \* keys of q.terminal
    wake,       \* the one-slot channel q.wake holds a token
    owing,      \* calls that left q.mu and have yet to wake the worker:
                \* release's job, NoJob for Close
    kind,       \* job.kind
    state,      \* job.state
    reserved,   \* ids whose job.reserved is set
    cause,      \* job.cause
    covered,    \* ids whose job.covers has been set
    closes,     \* how often job.done was closed (twice panics)
    final,      \* job.final, NoView for nil
    told,       \* the state of the last view handed to onChanged
    worker,     \* where the worker goroutine is
    ctx,        \* the running job's context
    runErr,     \* what q.run returned
    wstate,     \* where each waiter is
    wjob        \* the id each waiter asked for

jobVars    == <<kind, state, reserved, cause, covered, closes, final, told>>
queueVars  == <<stopped, nextID, pending, active, recent, terminal, wake, owing>>
workerVars == <<worker, ctx, runErr>>
waitVars   == <<wstate, wjob>>
vars       == <<jobVars, queueVars, workerVars, waitVars>>

WorkerStates == {"top", "parked", "running", "finalizing", "publishing",
                 "draining", "exited"}
WaitStates   == {"idle", "blocked", "final", "unknown", "ctx"}

TypeOK ==
    /\ stopped \in BOOLEAN
    /\ nextID \in 0 .. MaxJobs
    /\ pending \subseteq Jobs
    /\ active \in Jobs \cup {NoJob}
    /\ recent \in Seq(Jobs)
    /\ terminal \subseteq Jobs
    /\ wake \in BOOLEAN
    /\ owing \subseteq Jobs \cup {NoJob}
    /\ kind \in [Jobs -> Kinds \cup {"none"}]
    /\ state \in [Jobs -> States]
    /\ reserved \subseteq Jobs
    /\ cause \in [Jobs -> Causes]
    /\ covered \subseteq Jobs
    /\ closes \in [Jobs -> Nat]
    /\ final \in [Jobs -> [state : States, cause : Causes]]
    /\ told \in [Jobs -> States]
    /\ worker \in WorkerStates
    /\ ctx \in {"none", "live", "cancelled", "expired"}
    /\ runErr \in {"none", "nil", "err"}
    /\ wstate \in [Waiters -> WaitStates]
    /\ wjob \in [Waiters -> Jobs \cup {NoJob}]

Init ==
    /\ stopped = FALSE
    /\ nextID = 0
    /\ pending = {}
    /\ active = NoJob
    /\ recent = <<>>
    /\ terminal = {}
    /\ wake = FALSE
    /\ owing = {}
    /\ kind = [j \in Jobs |-> "none"]
    /\ state = [j \in Jobs |-> "none"]
    /\ reserved = {}
    /\ cause = [j \in Jobs |-> "unknown"]
    /\ covered = {}
    /\ closes = [j \in Jobs |-> 0]
    /\ final = [j \in Jobs |-> NoView]
    /\ told = [j \in Jobs |-> "none"]
    /\ worker = "top"
    /\ ctx = "none"
    /\ runErr = "none"
    /\ wstate = [w \in Waiters |-> "idle"]
    /\ wjob = [w \in Waiters |-> NoJob]

-----------------------------------------------------------------------------
(* Helpers of the critical sections.                                       *)

IsHead(j) == j \in pending /\ \A i \in pending : j <= i

\* firstQueuedLocked: the published pending jobs.
Queued == pending \ reserved

\* A job a view, a Wait or a cancel can see.
Visible(j) == state[j] # "none" /\ j \notin reserved

\* Mutant: the last cause wins.
LastCause(j, c) == IF state[j] \in {"queued", "running"} THEN c ELSE cause[j]

\* noteCancelLocked: the first cause wins, and only on a live job.
NotedCause(j, c) ==
    IF state[j] \in {"queued", "running"} /\ cause[j] = "unknown" THEN c ELSE cause[j]

\* The history cap of pushRecentLocked: the last JobHistory of s.
Capped(s) ==
    IF Len(s) > JobHistory THEN SubSeq(s, Len(s) - JobHistory + 1, Len(s)) ELSE s

\* Mutant: an overfull map is emptied, recent history with it.
EvictAll(ids, rec, act) == IF Cardinality(ids) > TerminalCap THEN {} ELSE ids

\* The eviction of pushRecentLocked: an overfull map keeps recent and active.
Evicted(ids, rec, act) ==
    IF Cardinality(ids) > TerminalCap
    THEN ids \cap ({rec[i] : i \in DOMAIN rec} \cup {act})
    ELSE ids

\* pushRecentLocked(j), the job having ended as st with cause c.
PushRecent(j, act, st, c) ==
    /\ recent' = Capped(Append(recent, j))
    /\ terminal' = Evicted(terminal \cup {j}, recent', act)
    /\ final' = [final EXCEPT ![j] = [state |-> st, cause |-> c]]
    /\ closes' = [closes EXCEPT ![j] = @ + 1]

\* dropQueuedLocked(j, c).
DropQueued(j, c) ==
    /\ cause' = [cause EXCEPT ![j] = NotedCause(j, c)]
    /\ state' = [state EXCEPT ![j] = "cancelled"]
    /\ PushRecent(j, active, "cancelled", NotedCause(j, c))
    /\ told' = [told EXCEPT ![j] = "cancelled"]

-----------------------------------------------------------------------------
(* Admission.                                                              *)

\* Mutant: the cap is compared with > instead of >=.
AdmitsOneMore(k) ==
    /\ ~stopped
    /\ k # "reconcile" => Cardinality(pending) <= JobQueueCap

\* reserveLocked's refusals: Close has begun, or the queue is at its cap.
Admits(k) ==
    /\ ~stopped
    /\ k # "reconcile" => Cardinality(pending) < JobQueueCap

\* The fields reserveLocked sets on the new job.
NewJob(k) ==
    /\ nextID < MaxJobs
    /\ nextID' = nextID + 1
    /\ pending' = pending \cup {nextID + 1}
    /\ kind' = [kind EXCEPT ![nextID + 1] = k]
    /\ state' = [state EXCEPT ![nextID + 1] = "queued"]

\* reserve: called inside a manifest mutation, which never reconciles.
Reserve(k) ==
    /\ k # "reconcile"
    /\ Admits(k)
    /\ NewJob(k)
    /\ reserved' = reserved \cup {nextID + 1}
    /\ UNCHANGED <<stopped, active, recent, terminal, wake, owing, cause, covered,
                   closes, final, told, workerVars, waitVars>>

\* Enqueue returns the queued reconcile a second one would duplicate.
Coalesces(k) == k = "reconcile" /\ \E j \in Queued : kind[j] = "reconcile"

\* Enqueue: reserveLocked and publishLocked in one critical section, so the
\* job is never seen reserved and stopped is known to be false.
Enqueue(k) ==
    /\ Admits(k)
    /\ ~Coalesces(k)
    /\ NewJob(k)
    /\ told' = [told EXCEPT ![nextID + 1] = "queued"]
    /\ wake' = TRUE
    /\ UNCHANGED <<stopped, active, recent, terminal, owing, reserved, cause, covered,
                   closes, final, workerVars, waitVars>>

\* publish(j) while the queue runs.
PublishRunning(j) ==
    /\ j \in reserved
    /\ ~stopped
    /\ reserved' = reserved \ {j}
    /\ told' = [told EXCEPT ![j] = "queued"]
    /\ wake' = TRUE
    /\ UNCHANGED <<stopped, nextID, pending, active, recent, terminal, owing,
                   kind, state, cause, covered, closes, final, workerVars, waitVars>>

\* Mutant: publish does not look at stopped.
PublishBlind(j) ==
    /\ j \in reserved
    /\ reserved' = reserved \ {j}
    /\ told' = [told EXCEPT ![j] = "queued"]
    /\ wake' = TRUE
    /\ UNCHANGED <<stopped, nextID, pending, active, recent, terminal, owing,
                   kind, state, cause, covered, closes, final, workerVars, waitVars>>

\* publish(j) after Close: told queued, then drained as cancelled.
PublishStopped(j) ==
    /\ j \in reserved
    /\ stopped
    /\ reserved' = reserved \ {j}
    /\ pending' = pending \ {j}
    /\ DropQueued(j, "shutdown")
    /\ UNCHANGED <<stopped, nextID, active, wake, owing, kind, covered, workerVars, waitVars>>

Publish(j) == PublishRunning(j) \/ PublishStopped(j)

\* Mutant: release does not wake the worker.
ReleaseSilently(j) ==
    /\ j \in reserved
    /\ reserved' = reserved \ {j}
    /\ pending' = pending \ {j}
    /\ state' = [state EXCEPT ![j] = "none"]
    /\ UNCHANGED <<stopped, nextID, active, recent, terminal, wake, owing, kind,
                   cause, covered, closes, final, told, workerVars, waitVars>>

\* release(j) up to its unlock: the reservation is abandoned without trace.
Release(j) ==
    /\ j \in reserved
    /\ reserved' = reserved \ {j}
    /\ pending' = pending \ {j}
    /\ state' = [state EXCEPT ![j] = "none"]
    /\ owing' = owing \cup {j}
    /\ UNCHANGED <<stopped, nextID, active, recent, terminal, wake, kind, cause,
                   covered, closes, final, told, workerVars, waitVars>>

-----------------------------------------------------------------------------
(* Cancellation and shutdown.                                              *)

\* j.cancel() on the running job's context.
CancelledCtx == IF ctx = "live" THEN "cancelled" ELSE ctx

\* Cancel(id) of the active job; the worker finalizes it.
CancelActive(j) ==
    /\ j = active
    /\ j # NoJob
    /\ cause' = [cause EXCEPT ![j] = NotedCause(j, "caller")]
    /\ ctx' = CancelledCtx
    /\ UNCHANGED <<queueVars, kind, state, reserved, covered, closes, final,
                   told, worker, runErr, waitVars>>

\* Mutant: a queued job is cancelled without its terminal publication.
CancelSilently(j) ==
    /\ j \in Queued
    /\ pending' = pending \ {j}
    /\ cause' = [cause EXCEPT ![j] = NotedCause(j, "caller")]
    /\ state' = [state EXCEPT ![j] = "cancelled"]
    /\ UNCHANGED <<stopped, nextID, active, recent, terminal, wake, owing, kind,
                   reserved, covered, closes, final, told, workerVars, waitVars>>

\* Cancel(id) of a queued job.
CancelPending(j) ==
    /\ j \in Queued
    /\ pending' = pending \ {j}
    /\ DropQueued(j, "caller")
    /\ UNCHANGED <<stopped, nextID, active, wake, owing, kind, reserved, covered,
                   workerVars, waitVars>>

\* Mutant: Close only cancels the running job and does not wake the worker.
CloseSilently ==
    /\ stopped' = TRUE
    /\ IF active # NoJob
       THEN /\ cause' = [cause EXCEPT ![active] = NotedCause(active, "shutdown")]
            /\ ctx' = CancelledCtx
       ELSE UNCHANGED <<cause, ctx>>
    /\ UNCHANGED <<nextID, pending, active, recent, terminal, wake, owing, kind,
                   state, reserved, covered, closes, final, told, worker, runErr,
                   waitVars>>

\* Close up to its unlock; it may be called again.
Close ==
    /\ stopped' = TRUE
    /\ owing' = owing \cup {NoJob}
    /\ IF active # NoJob
       THEN /\ cause' = [cause EXCEPT ![active] = NotedCause(active, "shutdown")]
            /\ ctx' = CancelledCtx
       ELSE UNCHANGED <<cause, ctx>>
    /\ UNCHANGED <<nextID, pending, active, recent, terminal, wake, kind,
                   state, reserved, covered, closes, final, told, worker, runErr,
                   waitVars>>

\* wakeWorker of a release or a Close, called after the unlock.
Wake(j) ==
    /\ j \in owing
    /\ owing' = owing \ {j}
    /\ wake' = TRUE
    /\ UNCHANGED <<stopped, nextID, pending, active, recent, terminal, jobVars,
                   workerVars, waitVars>>

-----------------------------------------------------------------------------
(* The worker goroutine.                                                   *)

\* The drain loop: it keeps q.mu from its first job to its last, in pending
\* order, but each job's waiters are released as the loop passes it.
WorkerDrain ==
    /\ worker \in {"top", "draining"}
    /\ stopped
    /\ \E j \in Queued :
        /\ \A i \in Queued : j <= i
        /\ pending' = pending \ {j}
        /\ DropQueued(j, "shutdown")
    /\ worker' = "draining"
    /\ UNCHANGED <<stopped, nextID, active, wake, owing, kind, reserved, covered,
                   ctx, runErr, waitVars>>

\* The end of the drain: pending = nil, and the goroutine returns.
WorkerExit ==
    /\ worker \in {"top", "draining"}
    /\ stopped
    /\ Queued = {}
    /\ pending' = {}
    /\ worker' = "exited"
    /\ UNCHANGED <<stopped, nextID, active, recent, terminal, wake, owing, jobVars,
                   ctx, runErr, waitVars>>

\* Nothing runnable, or a reservation holds the head: unlock and block on wake.
WorkerPark ==
    /\ worker = "top"
    /\ ~stopped
    /\ pending = {} \/ \E j \in reserved : IsHead(j)
    /\ worker' = "parked"
    /\ UNCHANGED <<jobVars, queueVars, ctx, runErr, waitVars>>

\* <-q.wake.
WorkerWake ==
    /\ worker = "parked"
    /\ wake
    /\ wake' = FALSE
    /\ worker' = "top"
    /\ UNCHANGED <<jobVars, stopped, nextID, pending, active, recent, terminal,
                   owing, ctx, runErr, waitVars>>

\* Starting j, whatever let it start.
Run(j) ==
    /\ worker = "top"
    /\ pending' = pending \ {j}
    /\ active' = j
    /\ state' = [state EXCEPT ![j] = "running"]
    /\ told' = [told EXCEPT ![j] = "running"]
    /\ ctx' = "live"
    /\ worker' = "running"
    /\ UNCHANGED <<stopped, nextID, recent, terminal, wake, owing, kind, reserved,
                   cause, covered, closes, final, runErr, waitVars>>

\* Mutant: the oldest published job runs, past an older reservation.
TakePastReservation ==
    /\ ~stopped
    /\ \E j \in Queued : (\A i \in Queued : j <= i) /\ Run(j)

\* Mutant: the loop does not look at stopped before it starts a job.
TakeWhenStopped == \E j \in Queued : IsHead(j) /\ Run(j)

\* The head becomes the running job.
WorkerTake ==
    /\ ~stopped
    /\ \E j \in Queued : IsHead(j) /\ Run(j)

\* setCovers: the running job publishes its resolved plan.
SetCovers ==
    /\ worker = "running"
    /\ kind[active] \in PlanKinds
    /\ active \notin covered
    /\ covered' = covered \cup {active}
    /\ told' = [told EXCEPT ![active] = state[active]]
    /\ UNCHANGED <<kind, state, reserved, cause, closes, final, queueVars,
                   workerVars, waitVars>>

\* jobTimeout elapses while the job holds its context.
CtxExpire ==
    /\ worker \in {"running", "finalizing"}
    /\ ctx = "live"
    /\ ctx' = "expired"
    /\ UNCHANGED <<jobVars, queueVars, worker, runErr, waitVars>>

\* q.run returns, with an error or without, whatever became of the context.
RunReturns ==
    /\ worker = "running"
    /\ \E e \in {"nil", "err"} : runErr' = e
    /\ worker' = "finalizing"
    /\ UNCHANGED <<jobVars, queueVars, ctx, waitVars>>

\* runOne's switch over the error and ctx.Err().
Outcome ==
    IF runErr = "nil" THEN "done" ELSE IF ctx = "cancelled" THEN "cancelled" ELSE "failed"

\* Mutant: a cancellation that lost the race keeps its cause.
FinalizeKeepsCause ==
    /\ worker = "finalizing"
    /\ state' = [state EXCEPT ![active] = Outcome]
    /\ worker' = "publishing"
    /\ UNCHANGED <<kind, reserved, cause, covered, closes, final, told, queueVars,
                   ctx, runErr, waitVars>>

\* runOne's finalize section: the terminal state, and a cause only on a
\* cancellation.
WorkerFinalize ==
    /\ worker = "finalizing"
    /\ state' = [state EXCEPT ![active] = Outcome]
    /\ cause' = [cause EXCEPT ![active] = IF Outcome = "cancelled" THEN @ ELSE "unknown"]
    /\ worker' = "publishing"
    /\ UNCHANGED <<kind, reserved, covered, closes, final, told, queueVars, ctx,
                   runErr, waitVars>>

\* The worker's last section for a job: history, waiters, callback.
WorkerPublish ==
    /\ worker = "publishing"
    /\ active' = NoJob
    /\ PushRecent(active, NoJob, state[active], cause[active])
    /\ told' = [told EXCEPT ![active] = state[active]]
    /\ worker' = "top"
    /\ ctx' = "none"
    /\ runErr' = "none"
    /\ UNCHANGED <<stopped, nextID, pending, wake, owing, kind, state, reserved,
                   cause, covered, waitVars>>

-----------------------------------------------------------------------------
(* Wait.                                                                   *)

\* waitTarget's lookup of id j under q.mu.
WaitTarget(j) ==
    IF j \in terminal THEN "final"
    ELSE IF j = active \/ j \in Queued THEN "blocked"
    ELSE "unknown"

WaitCall(w, j) ==
    /\ wstate[w] = "idle"
    /\ j \in 1 .. nextID
    /\ wjob' = [wjob EXCEPT ![w] = j]
    /\ wstate' = [wstate EXCEPT ![w] = WaitTarget(j)]
    /\ UNCHANGED <<jobVars, queueVars, workerVars>>

\* <-live.done.
WaitDone(w) ==
    /\ wstate[w] = "blocked"
    /\ closes[wjob[w]] > 0
    /\ wstate' = [wstate EXCEPT ![w] = "final"]
    /\ UNCHANGED <<jobVars, queueVars, workerVars, wjob>>

\* <-ctx.Done(): the re-check of done decides.
WaitCtx(w) ==
    /\ wstate[w] = "blocked"
    /\ wstate' = [wstate EXCEPT ![w] = IF closes[wjob[w]] > 0 THEN "final" ELSE "ctx"]
    /\ UNCHANGED <<jobVars, queueVars, workerVars, wjob>>

-----------------------------------------------------------------------------
\* q.mu is free: only the drain loop spans more than one action.
MuFree == worker # "draining"

Caller ==
    /\ MuFree
    /\ \/ \E k \in OtherKinds : Reserve(k)
       \/ \E k \in Kinds : Enqueue(k)
       \/ \E j \in Jobs : Publish(j) \/ Release(j)
       \/ \E j \in Jobs : CancelActive(j) \/ CancelPending(j)
       \/ \E w \in Waiters, j \in Jobs : WaitCall(w, j)
       \/ Close

Worker ==
    \/ WorkerDrain \/ WorkerExit \/ WorkerPark \/ WorkerWake \/ WorkerTake
    \/ RunReturns \/ WorkerFinalize \/ WorkerPublish

Next ==
    \/ Caller
    \/ Worker
    \/ SetCovers
    \/ CtxExpire
    \/ \E j \in Jobs \cup {NoJob} : Wake(j)
    \/ \E w \in Waiters : WaitDone(w) \/ WaitCtx(w)

Safe == Init /\ [][Next]_vars

\* The worker never stops while it can move (a run ends: its context has a
\* deadline), a reservation is settled by the transaction that made it, a
\* call past its unlock goes on to wake the worker, and a waiter whose
\* channel is ready is scheduled.
Fairness ==
    /\ WF_vars(Worker)
    /\ \A j \in Jobs : WF_vars(MuFree /\ (Publish(j) \/ Release(j)))
    /\ \A j \in Jobs \cup {NoJob} : WF_vars(Wake(j))
    /\ \A w \in Waiters : WF_vars(WaitDone(w))

Spec == Safe /\ Fairness

-----------------------------------------------------------------------------
(* Safety.                                                                 *)

\* A worker blocked on q.wake with no token and no wake on its way has
\* nothing to do: no shutdown to serve and no published job at the head
\* (publishLocked, release, Close against worker's unlock-then-receive).
NoLostWakeup ==
    worker = "parked" /\ ~wake /\ owing = {} =>
        /\ ~stopped
        /\ pending = {} \/ \E j \in reserved : IsHead(j)

\* What the queue retains is bounded: jobQueueCap bounds what is pending but a
\* reconcile, reservations included, coalescing bounds the reconciles to one;
\* the history and the terminal map stay within their caps, and no job still
\* in the history has been evicted from the map (reserveLocked, Enqueue,
\* pushRecentLocked).
Bounded ==
    /\ Cardinality({j \in pending : kind[j] # "reconcile"}) <= JobQueueCap
    /\ Cardinality({j \in pending : kind[j] = "reconcile"}) <= 1
    /\ Len(recent) <= JobHistory
    /\ Cardinality(terminal) <= TerminalCap
    /\ \A i \in DOMAIN recent : recent[i] \in terminal

\* job.done is closed at most once (a second close would panic), and a job's
\* waiters are released exactly when its terminal state has been told and
\* its final view agrees with it, whichever of the worker, Cancel, the drain
\* and a late publish ended it.
DoneOnce ==
    \A j \in Jobs :
        /\ closes[j] <= 1
        /\ closes[j] = 1 <=> told[j] \in Ended
        /\ closes[j] = 1 => final[j].state = told[j]
        /\ closes[j] = 0 => final[j] = NoView

\* A published terminal view carries a cause exactly when it is a
\* cancellation: none is anonymous, and a cancel that lost the race leaves no
\* cause behind (noteCancelLocked, runOne's finalize).
CauseNamed ==
    \A j \in Jobs : closes[j] > 0 => (final[j].state = "cancelled" <=> final[j].cause # "unknown")

\* Every job ends once, and says how and why.
EndsOnceAndSaysWhy == DoneOnce /\ CauseNamed

\* Once the worker has exited every job ever shown has been told its end: the
\* drain misses none and no later publish leaves one queued.
NothingLeftAfterExit ==
    worker = "exited" => \A j \in Jobs : Visible(j) => told[j] \in Ended

-----------------------------------------------------------------------------
(* The inductive invariant behind the safety properties: where a job is    *)
(* decides what every part of its record says.                             *)

\* A job lives in exactly one place: nowhere, reserved, queued, active, ended.
PlaceOK(j) ==
    /\ j > nextID => state[j] = "none"
    /\ state[j] = "none" =>
        /\ j \notin pending
        /\ j \notin reserved
        /\ j # active
        /\ told[j] = "none"
        /\ closes[j] = 0
    /\ j \in pending \/ j \in reserved =>
        /\ state[j] = "queued"
        /\ closes[j] = 0
        /\ j # active
    /\ j \in reserved => told[j] = "none"
    /\ j \in pending /\ j \notin reserved => told[j] = "queued"
    /\ j = active => told[j] = "running" /\ closes[j] = 0
    /\ state[j] # "none" => j \in pending \/ j \in reserved \/ j = active \/ closes[j] = 1

\* What an ended job published, and that the others published nothing.
RecordOK(j) ==
    /\ closes[j] = 0 => final[j] = NoView /\ told[j] \notin Ended
    /\ closes[j] # 0 =>
        /\ closes[j] = 1
        /\ told[j] \in Ended
        /\ state[j] = told[j]
        /\ final[j].state = told[j]
        /\ final[j].state = "cancelled" <=> final[j].cause # "unknown"

\* What the worker's position says of the active job, its context and pending.
WorkerOK ==
    /\ active # NoJob <=> worker \in {"running", "finalizing", "publishing"}
    /\ worker \in {"running", "finalizing"} => state[active] = "running"
    /\ worker \in {"running", "finalizing"} /\ ctx = "cancelled" => cause[active] # "unknown"
    /\ worker = "finalizing" => runErr \in {"nil", "err"}
    /\ worker = "publishing" =>
        /\ state[active] \in Ended
        /\ state[active] = "cancelled" <=> cause[active] # "unknown"
    /\ worker \in {"draining", "exited"} => stopped
    /\ worker = "exited" => pending = {}
    /\ worker # "exited" => reserved \subseteq pending

IInv ==
    /\ TypeOK
    /\ NoLostWakeup
    /\ WorkerOK
    /\ \A j \in Jobs : PlaceOK(j) /\ RecordOK(j)

-----------------------------------------------------------------------------
(* Action properties.                                                      *)

\* The first cause wins: a cause is never replaced by another one, and it is
\* only dropped by a run that ends otherwise than cancelled.
FirstCauseWins ==
    [][\A j \in Jobs :
        cause[j] # "unknown" =>
            \/ cause'[j] = cause[j]
            \/ cause'[j] = "unknown" /\ state'[j] \in {"done", "failed"}]_vars

\* A reservation holds its place: no job starts while an older one, queued or
\* still reserved, is pending, or while another job is active.
StartsInOrder ==
    [][\A j \in Jobs :
        active' = j /\ active # j =>
            /\ active = NoJob
            /\ \A i \in pending : j <= i
            /\ j \notin reserved]_vars

\* Wait answers ErrUnknownJob only for a job it must not see or one that
\* ended and left the recent history.
UnknownOnlyOutsideHistory ==
    [][\A w \in Waiters :
        wstate[w] = "idle" /\ wstate'[w] = "unknown" =>
            LET j == wjob'[w] IN
            \/ ~Visible(j)
            \/ told[j] \in Ended /\ \A i \in DOMAIN recent : recent[i] # j]_vars

-----------------------------------------------------------------------------
(* Liveness under Fairness.                                                *)

\* A blocked Wait returns, whatever ends its job.
WaitReturns == \A w \in Waiters : wstate[w] = "blocked" ~> wstate[w] # "blocked"

\* Close's wg.Wait returns: once stopped, the worker exits.
CloseReturns == stopped ~> worker = "exited"

\* No call is left without its answer, whatever the others do (Wait, Close, the
\* worker): Wait and Close return, and Wait never says that it does not know a job
\* that is pending, active or in the history, however the job moves among them.
CallsAnswer == WaitReturns /\ CloseReturns /\ UnknownOnlyOutsideHistory

-----------------------------------------------------------------------------
\* The queue as its consumer sees it.
Lifecycle == INSTANCE JobLifecycle WITH status <- told, closed <- stopped

\* Every step is a step of the abstract queue or invisible, and its fairness
\* is implied by the code's.
ImplementsLifecycle == Lifecycle!Spec
=============================================================================
