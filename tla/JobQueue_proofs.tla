--------------------------- MODULE JobQueue_proofs ---------------------------
(***************************************************************************)
(* Proofs about JobQueue, for every number of jobs and waiters, every cap  *)
(* and every history length.                                               *)
(***************************************************************************)
EXTENDS JobQueue, FiniteSetTheorems, TLAPS

\* The history cap returns a sequence of the same jobs.
LEMMA CappedType ==
    ASSUME NEW s \in Seq(Jobs)
    PROVE  Capped(s) \in Seq(Jobs)
<1>1. CASE Len(s) > JobHistory
    <2>1. JobHistory \in Nat /\ JobHistory >= 1
        BY JobQueueAssumption
    <2>2. Capped(s) = SubSeq(s, Len(s) - JobHistory + 1, Len(s))
        BY <1>1 DEF Capped
    <2>3. \A i \in (Len(s) - JobHistory + 1) .. Len(s) : s[i] \in Jobs
        BY <1>1, <2>1
    <2> QED
        BY <1>1, <2>1, <2>2, <2>3
<1>2. CASE ~(Len(s) > JobHistory)
    BY <1>2 DEF Capped
<1> QED
    BY <1>1, <1>2

\* The terminal publication of a job keeps the types.
LEMMA PushRecentType ==
    ASSUME TypeOK, NEW j \in Jobs, NEW act, NEW st \in States, NEW c \in Causes,
           PushRecent(j, act, st, c)
    PROVE  /\ recent' \in Seq(Jobs)
           /\ terminal' \subseteq Jobs
           /\ final' \in [Jobs -> [state : States, cause : Causes]]
           /\ closes' \in [Jobs -> Nat]
<1>1. Append(recent, j) \in Seq(Jobs)
    BY DEF TypeOK
<1>2. recent' \in Seq(Jobs)
    BY <1>1, CappedType DEF PushRecent
<1>3. terminal' \subseteq Jobs
    BY DEF PushRecent, Evicted, TypeOK
<1>4. final' \in [Jobs -> [state : States, cause : Causes]]
    BY DEF PushRecent, TypeOK
<1>5. closes' \in [Jobs -> Nat]
    BY DEF PushRecent, TypeOK
<1> QED
    BY <1>2, <1>3, <1>4, <1>5

LEMMA NotedCauseType ==
    ASSUME TypeOK, NEW j \in Jobs, NEW c \in Causes
    PROVE  NotedCause(j, c) \in Causes
BY DEF NotedCause, TypeOK

LEMMA DropQueuedType ==
    ASSUME TypeOK, NEW j \in Jobs, NEW c \in Causes, DropQueued(j, c)
    PROVE  /\ recent' \in Seq(Jobs)
           /\ terminal' \subseteq Jobs
           /\ final' \in [Jobs -> [state : States, cause : Causes]]
           /\ closes' \in [Jobs -> Nat]
           /\ cause' \in [Jobs -> Causes]
           /\ state' \in [Jobs -> States]
           /\ told' \in [Jobs -> States]
<1>1. NotedCause(j, c) \in Causes
    BY NotedCauseType
<1>2. PushRecent(j, active, "cancelled", NotedCause(j, c))
    BY DEF DropQueued
<1>3. "cancelled" \in States
    BY DEF States, Ended
<1>4. /\ recent' \in Seq(Jobs)
      /\ terminal' \subseteq Jobs
      /\ final' \in [Jobs -> [state : States, cause : Causes]]
      /\ closes' \in [Jobs -> Nat]
    BY <1>1, <1>2, <1>3, PushRecentType
<1>5. /\ cause' \in [Jobs -> Causes]
      /\ state' \in [Jobs -> States]
      /\ told' \in [Jobs -> States]
    BY <1>1, <1>3 DEF DropQueued, TypeOK
<1> QED
    BY <1>4, <1>5

-----------------------------------------------------------------------------
(* Type correctness.                                                       *)

LEMMA InitType == Init => TypeOK
<1> SUFFICES ASSUME Init PROVE TypeOK
    OBVIOUS
<1>1. NoView \in [state : States, cause : Causes]
    BY DEF NoView, States, Causes
<1>2. /\ nextID \in 0 .. MaxJobs
      /\ recent \in Seq(Jobs)
      /\ closes \in [Jobs -> Nat]
    BY JobQueueAssumption DEF Init
<1> QED
    BY <1>1, <1>2 DEF Init, TypeOK, States, Causes, WorkerStates, WaitStates

\* Callers: what Reserve, Enqueue, publish, release, Cancel, Close and Wait do
\* to the queue keeps its types.
LEMMA CallerType == ASSUME TypeOK, Caller PROVE TypeOK'
<1> USE JobQueueAssumption DEF TypeOK
<1>1. ASSUME NEW k \in OtherKinds, Reserve(k) PROVE TypeOK'
    BY <1>1 DEF Reserve, NewJob, Jobs, Kinds, States, Ended, NoJob, workerVars, waitVars
<1>2. ASSUME NEW k \in Kinds, Enqueue(k) PROVE TypeOK'
    BY <1>2 DEF Enqueue, NewJob, Jobs, Kinds, States, Ended, NoJob, workerVars, waitVars
<1>3. ASSUME NEW j \in Jobs, PublishRunning(j) PROVE TypeOK'
    BY <1>3 DEF PublishRunning, States, workerVars, waitVars
<1>4. ASSUME NEW j \in Jobs, PublishStopped(j) PROVE TypeOK'
    <2>1. DropQueued(j, "shutdown") /\ "shutdown" \in Causes
        BY <1>4 DEF PublishStopped, Causes
    <2> QED
        BY <1>4, <2>1, DropQueuedType DEF PublishStopped, workerVars, waitVars
<1>5. ASSUME NEW j \in Jobs, Release(j) PROVE TypeOK'
    BY <1>5 DEF Release, States, workerVars, waitVars
<1>6. ASSUME NEW j \in Jobs, CancelActive(j) PROVE TypeOK'
    <2>1. NotedCause(j, "caller") \in Causes
        BY NotedCauseType DEF Causes
    <2> QED
        BY <1>6, <2>1 DEF CancelActive, CancelledCtx, queueVars, waitVars
<1>7. ASSUME NEW j \in Jobs, CancelPending(j) PROVE TypeOK'
    <2>1. DropQueued(j, "caller") /\ "caller" \in Causes
        BY <1>7 DEF CancelPending, Causes
    <2> QED
        BY <1>7, <2>1, DropQueuedType DEF CancelPending, workerVars, waitVars
<1>8. ASSUME NEW w \in Waiters, NEW j \in Jobs, WaitCall(w, j) PROVE TypeOK'
    BY <1>8 DEF WaitCall, WaitTarget, WaitStates, jobVars, queueVars, workerVars
<1>9. ASSUME Close PROVE TypeOK'
    <2>1. CASE active # NoJob
        <3>1. active \in Jobs /\ NotedCause(active, "shutdown") \in Causes
            BY <2>1, NotedCauseType DEF Causes
        <3>2. /\ cause' = [cause EXCEPT ![active] = NotedCause(active, "shutdown")]
              /\ ctx' \in {ctx, "cancelled"}
            BY <1>9, <2>1 DEF Close, CancelledCtx
        <3>3. cause' \in [Jobs -> Causes] /\ ctx' \in {"none", "live", "cancelled", "expired"}
            <4> HIDE DEF TypeOK
            <4>1. cause \in [Jobs -> Causes] /\ ctx \in {"none", "live", "cancelled", "expired"}
                BY DEF TypeOK
            <4> QED
                BY <3>1, <3>2, <4>1
        <3> QED
            BY <1>9, <3>3 DEF Close, waitVars
    <2>2. CASE active = NoJob
        BY <1>9, <2>2 DEF Close, waitVars
    <2> QED
        BY <2>1, <2>2
<1> QED
    BY <1>1, <1>2, <1>3, <1>4, <1>5, <1>6, <1>7, <1>8, <1>9 DEF Caller, Publish

\* The worker loop and runOne keep the types.
LEMMA WorkerType ==
    ASSUME TypeOK, Worker, worker = "publishing" => active \in Jobs
    PROVE  TypeOK'
<1> USE JobQueueAssumption DEF TypeOK
<1>1. ASSUME WorkerDrain PROVE TypeOK'
    <2>1. PICK j \in Queued : pending' = pending \ {j} /\ DropQueued(j, "shutdown")
        BY <1>1 DEF WorkerDrain
    <2>2. j \in Jobs /\ "shutdown" \in Causes /\ "draining" \in WorkerStates
        BY <2>1 DEF Queued, Causes, WorkerStates
    <2> QED
        BY <1>1, <2>1, <2>2, DropQueuedType DEF WorkerDrain, waitVars
<1>2. ASSUME WorkerExit PROVE TypeOK'
    BY <1>2 DEF WorkerExit, WorkerStates, jobVars, waitVars
<1>3. ASSUME WorkerPark PROVE TypeOK'
    BY <1>3 DEF WorkerPark, WorkerStates, jobVars, queueVars, waitVars
<1>4. ASSUME WorkerWake PROVE TypeOK'
    BY <1>4 DEF WorkerWake, WorkerStates, jobVars, waitVars
<1>5. ASSUME WorkerTake PROVE TypeOK'
    <2>1. PICK j \in Queued : Run(j)
        BY <1>5 DEF WorkerTake
    <2> QED
        BY <2>1 DEF Run, Queued, States, WorkerStates, waitVars
<1>6. ASSUME RunReturns PROVE TypeOK'
    BY <1>6 DEF RunReturns, WorkerStates, jobVars, queueVars, waitVars
<1>7. ASSUME WorkerFinalize PROVE TypeOK'
    <2>1. Outcome \in States
        BY DEF Outcome, States, Ended
    <2> QED
        BY <1>7, <2>1 DEF WorkerFinalize, WorkerStates, Causes, queueVars, waitVars
<1>8. ASSUME WorkerPublish PROVE TypeOK'
    <2>1. active \in Jobs
        BY <1>8 DEF WorkerPublish
    <2>2. /\ PushRecent(active, NoJob, state[active], cause[active])
          /\ state[active] \in States
          /\ cause[active] \in Causes
        BY <1>8, <2>1 DEF WorkerPublish
    <2>3. /\ recent' \in Seq(Jobs)
          /\ terminal' \subseteq Jobs
          /\ final' \in [Jobs -> [state : States, cause : Causes]]
          /\ closes' \in [Jobs -> Nat]
        BY <2>1, <2>2, PushRecentType
    <2> QED
        BY <1>8, <2>1, <2>2, <2>3 DEF WorkerPublish, WorkerStates, waitVars
<1> QED
    BY <1>1, <1>2, <1>3, <1>4, <1>5, <1>6, <1>7, <1>8 DEF Worker

\* Every other step keeps the types.
LEMMA OtherType ==
    ASSUME TypeOK,
           worker = "running" => active \in Jobs,
           \/ SetCovers
           \/ CtxExpire
           \/ \E j \in Jobs \cup {NoJob} : Wake(j)
           \/ \E w \in Waiters : WaitDone(w) \/ WaitCtx(w)
           \/ UNCHANGED vars
    PROVE  TypeOK'
<1> USE DEF TypeOK
<1>1. ASSUME SetCovers PROVE TypeOK'
    <2>1. active \in Jobs
        BY <1>1 DEF SetCovers
    <2> QED
        BY <1>1, <2>1 DEF SetCovers, queueVars, workerVars, waitVars
<1>2. ASSUME CtxExpire PROVE TypeOK'
    BY <1>2 DEF CtxExpire, jobVars, queueVars, waitVars
<1>3. ASSUME NEW j \in Jobs \cup {NoJob}, Wake(j) PROVE TypeOK'
    BY <1>3 DEF Wake, jobVars, workerVars, waitVars
<1>4. ASSUME NEW w \in Waiters, WaitDone(w) \/ WaitCtx(w) PROVE TypeOK'
    BY <1>4 DEF WaitDone, WaitCtx, WaitStates, jobVars, queueVars, workerVars
<1>5. ASSUME UNCHANGED vars PROVE TypeOK'
    BY <1>5 DEF vars, jobVars, queueVars, workerVars, waitVars
<1> QED
    BY <1>1, <1>2, <1>3, <1>4, <1>5

-----------------------------------------------------------------------------
(* The inductive invariant.                                                *)

\* The part of IInv that is not about types.
Consistent == NoLostWakeup /\ WorkerOK /\ \A j \in Jobs : PlaceOK(j) /\ RecordOK(j)

LEMMA InitConsistent == Init => Consistent
BY DEF Init, Consistent, NoLostWakeup, WorkerOK, PlaceOK, RecordOK, Jobs, NoJob, Ended, NoView

\* IInv makes the job of every worker step a job.
LEMMA ActiveIsJob ==
    ASSUME IInv
    PROVE  worker \in {"running", "finalizing", "publishing"} => active \in Jobs
BY DEF IInv, WorkerOK, TypeOK

LEMMA TypeStep == ASSUME IInv, [Next]_vars PROVE TypeOK'
<1>1. TypeOK
    BY DEF IInv
<1>2. CASE Caller
    BY <1>1, <1>2, CallerType
<1>3. CASE Worker
    BY <1>1, <1>3, WorkerType, ActiveIsJob
<1>4. CASE ~Caller /\ ~Worker
    BY <1>1, <1>4, OtherType, ActiveIsJob DEF Next
<1> QED
    BY <1>2, <1>3, <1>4

\* A new id is larger than every pending one and has no record yet.
LEMMA NewIdFresh ==
    ASSUME IInv, nextID < MaxJobs
    PROVE  /\ nextID + 1 \in Jobs
           /\ \A i \in pending : i < nextID + 1
           /\ nextID + 1 \notin pending
           /\ nextID + 1 \notin reserved
           /\ nextID + 1 # active
           /\ told[nextID + 1] = "none"
           /\ closes[nextID + 1] = 0
           /\ final[nextID + 1] = NoView
<1>1. nextID + 1 \in Jobs
    BY JobQueueAssumption DEF IInv, TypeOK, Jobs
<1>2. PlaceOK(nextID + 1) /\ RecordOK(nextID + 1)
    BY <1>1 DEF IInv
<1>3. nextID \in Int /\ nextID + 1 > nextID
    BY DEF IInv, TypeOK
<1>4. \A i \in pending : i <= nextID
    BY JobQueueAssumption DEF IInv, TypeOK, Jobs, PlaceOK
<1>5. \A i \in pending : i \in Int
    BY DEF IInv, TypeOK, Jobs
<1> QED
    BY <1>1, <1>2, <1>3, <1>4, <1>5 DEF PlaceOK, RecordOK

LEMMA ReserveStep ==
    ASSUME IInv, NEW k \in OtherKinds, MuFree, Reserve(k), TypeOK'
    PROVE  Consistent'
<1>1. nextID < MaxJobs
    BY DEF Reserve, NewJob
<1> DEFINE n == nextID + 1
<1>2. /\ n \in Jobs
      /\ \A i \in pending : i < n
      /\ n \notin pending /\ n \notin reserved /\ n # active
      /\ told[n] = "none" /\ closes[n] = 0 /\ final[n] = NoView
    BY <1>1, NewIdFresh
<1>3. /\ ~stopped /\ UNCHANGED <<stopped, wake, owing, worker, ctx, runErr, active>>
      /\ pending' = pending \cup {n} /\ reserved' = reserved \cup {n}
      /\ state' = [state EXCEPT ![n] = "queued"]
      /\ nextID' = n
      /\ UNCHANGED <<cause, closes, final, told>>
    BY DEF Reserve, NewJob, Admits, workerVars
<1> HIDE DEF n
<1>4. NoLostWakeup'
    <2> SUFFICES ASSUME worker = "parked", ~wake, owing = {}
                 PROVE  \E j \in reserved' : IsHead(j)'
        BY <1>3 DEF NoLostWakeup
    <2>1. CASE pending = {}
        BY <1>2, <1>3, <2>1 DEF IsHead, Jobs
    <2>2. CASE pending # {}
        <3>1. PICK j \in reserved : IsHead(j)
            BY <2>2 DEF IInv, NoLostWakeup
        <3>2. j < n
            BY <1>2, <3>1 DEF IsHead
        <3>3. j <= n
            BY <1>2, <3>1, <3>2 DEF IInv, TypeOK, Jobs
        <3> QED
            BY <1>3, <3>1, <3>3 DEF IsHead
    <2> QED
        BY <2>1, <2>2
<1>5. WorkerOK'
    BY <1>2, <1>3 DEF IInv, WorkerOK, TypeOK, NoJob
<1>6. ASSUME NEW j \in Jobs PROVE (PlaceOK(j) /\ RecordOK(j))'
    <2>1. PlaceOK(j) /\ RecordOK(j)
        BY DEF IInv
    <2>2. j > n => j > nextID
        BY DEF n, IInv, TypeOK, Jobs
    <2>3. CASE j = n
        BY <1>2, <1>3, <2>1, <2>3 DEF PlaceOK, RecordOK, IInv, TypeOK, Jobs, Ended
    <2>4. CASE j # n
        BY <1>2, <1>3, <2>1, <2>2, <2>4 DEF PlaceOK, RecordOK, IInv, TypeOK
    <2> QED
        BY <2>3, <2>4
<1> QED
    BY <1>4, <1>5, <1>6 DEF Consistent

LEMMA EnqueueStep ==
    ASSUME IInv, NEW k \in Kinds, Enqueue(k), TypeOK'
    PROVE  Consistent'
<1>1. nextID < MaxJobs
    BY DEF Enqueue, NewJob
<1> DEFINE n == nextID + 1
<1>2. /\ n \in Jobs
      /\ n \notin pending /\ n \notin reserved /\ n # active
      /\ told[n] = "none" /\ closes[n] = 0 /\ final[n] = NoView
    BY <1>1, NewIdFresh
<1>3. /\ ~stopped /\ UNCHANGED <<stopped, owing, worker, ctx, runErr, active>>
      /\ wake'
      /\ pending' = pending \cup {n}
      /\ state' = [state EXCEPT ![n] = "queued"]
      /\ told' = [told EXCEPT ![n] = "queued"]
      /\ nextID' = n
      /\ UNCHANGED <<reserved, cause, closes, final>>
    BY DEF Enqueue, NewJob, Admits, workerVars
<1>4. \A j \in Jobs : j > n => j > nextID
    BY DEF IInv, TypeOK, Jobs
<1> HIDE DEF n
<1>5. NoLostWakeup'
    BY <1>3 DEF NoLostWakeup
<1>6. WorkerOK'
    BY <1>2, <1>3 DEF IInv, WorkerOK, TypeOK, NoJob
<1>7. ASSUME NEW j \in Jobs PROVE (PlaceOK(j) /\ RecordOK(j))'
    <2>1. PlaceOK(j) /\ RecordOK(j)
        BY DEF IInv
    <2>2. CASE j = n
        BY <1>2, <1>3, <2>1, <2>2 DEF PlaceOK, RecordOK, IInv, TypeOK, Jobs, Ended
    <2>3. CASE j # n
        BY <1>2, <1>3, <1>4, <2>1, <2>3 DEF PlaceOK, RecordOK, IInv, TypeOK
    <2> QED
        BY <2>2, <2>3
<1> QED
    BY <1>5, <1>6, <1>7 DEF Consistent

LEMMA PublishRunningStep ==
    ASSUME IInv, NEW p \in Jobs, PublishRunning(p), TypeOK'
    PROVE  Consistent'
<1>1. NoLostWakeup'
    BY DEF PublishRunning, NoLostWakeup
<1>2. WorkerOK'
    BY DEF PublishRunning, workerVars, IInv, WorkerOK
<1>3. p \in pending
    BY DEF PublishRunning, IInv, WorkerOK
<1>4. ASSUME NEW j \in Jobs PROVE (PlaceOK(j) /\ RecordOK(j))'
    BY <1>3 DEF PublishRunning, IInv, TypeOK, PlaceOK, RecordOK, Ended
<1> QED
    BY <1>1, <1>2, <1>4 DEF Consistent

\* What dropQueuedLocked does to every record: it ends the dropped job under a
\* named cause and touches no other.
LEMMA DropRecords ==
    ASSUME IInv, NEW d \in Jobs, d \in pending \/ d \in reserved,
           NEW c \in {"caller", "shutdown"}, DropQueued(d, c)
    PROVE  /\ cause'[d] # "unknown"
           /\ state'[d] = "cancelled" /\ told'[d] = "cancelled" /\ closes'[d] = 1
           /\ final'[d] = [state |-> "cancelled", cause |-> cause'[d]]
           /\ \A j \in Jobs \ {d} :
                /\ cause'[j] = cause[j] /\ state'[j] = state[j] /\ told'[j] = told[j]
                /\ closes'[j] = closes[j] /\ final'[j] = final[j]
<1>1. closes[d] = 0 /\ state[d] = "queued"
    BY DEF IInv, PlaceOK
<1>2. NotedCause(d, c) # "unknown"
    BY <1>1 DEF NotedCause
<1>3. /\ cause' = [cause EXCEPT ![d] = NotedCause(d, c)]
      /\ state' = [state EXCEPT ![d] = "cancelled"]
      /\ told' = [told EXCEPT ![d] = "cancelled"]
      /\ final' = [final EXCEPT ![d] = [state |-> "cancelled", cause |-> NotedCause(d, c)]]
      /\ closes' = [closes EXCEPT ![d] = @ + 1]
    BY DEF DropQueued, PushRecent
<1> QED
    BY <1>1, <1>2, <1>3 DEF IInv, TypeOK

LEMMA DropStep ==
    ASSUME IInv, NEW d \in Jobs, d \in pending \/ d \in reserved,
           NEW c \in {"caller", "shutdown"}, DropQueued(d, c),
           pending' = pending \ {d}, reserved' = reserved \ {d},
           UNCHANGED <<nextID, active>>, TypeOK'
    PROVE  \A j \in Jobs : (PlaceOK(j) /\ RecordOK(j))'
<1> SUFFICES ASSUME NEW j \in Jobs PROVE (PlaceOK(j) /\ RecordOK(j))'
    OBVIOUS
<1>1. PlaceOK(j) /\ RecordOK(j)
    BY DEF IInv
<1>2. CASE j = d
    <2>1. /\ cause'[d] # "unknown"
          /\ state'[d] = "cancelled" /\ told'[d] = "cancelled" /\ closes'[d] = 1
          /\ final'[d] = [state |-> "cancelled", cause |-> cause'[d]]
        BY DropRecords
    <2>2. ~(d > nextID) /\ d # active
        BY <1>1, <1>2 DEF PlaceOK
    <2> QED
        BY <1>2, <2>1, <2>2 DEF PlaceOK, RecordOK, Ended
<1>3. CASE j # d
    <2>1. PlaceOK(j)'
        BY <1>1, <1>3, DropRecords DEF PlaceOK
    <2>2. /\ cause'[j] = cause[j] /\ state'[j] = state[j] /\ told'[j] = told[j]
          /\ closes'[j] = closes[j] /\ final'[j] = final[j]
        BY <1>3, DropRecords
    <2>3. RecordOK(j)'
        BY <1>1, <2>2 DEF RecordOK, Ended
    <2> QED BY <2>1, <2>3
<1> QED
    BY <1>2, <1>3

LEMMA PublishStoppedStep ==
    ASSUME IInv, NEW p \in Jobs, PublishStopped(p), TypeOK'
    PROVE  Consistent'
<1>1. p \in reserved /\ DropQueued(p, "shutdown")
    BY DEF PublishStopped
<1>2. NoLostWakeup'
    BY DEF PublishStopped, IInv, NoLostWakeup, workerVars
<1>3. p # active
    BY <1>1 DEF IInv, PlaceOK
<1>4. WorkerOK'
    BY <1>1, <1>3, DropRecords DEF PublishStopped, workerVars, IInv, TypeOK, WorkerOK, NoJob
<1>5. \A j \in Jobs : (PlaceOK(j) /\ RecordOK(j))'
    BY <1>1, DropStep DEF PublishStopped
<1> QED
    BY <1>2, <1>4, <1>5 DEF Consistent

LEMMA ReleaseStep ==
    ASSUME IInv, NEW r \in Jobs, Release(r), TypeOK'
    PROVE  Consistent'
<1>1. NoLostWakeup'
    BY DEF Release, NoLostWakeup
<1>2. r # active
    BY DEF Release, IInv, PlaceOK
<1>3. WorkerOK'
    BY <1>2 DEF Release, workerVars, IInv, TypeOK, WorkerOK, NoJob
<1>4. ASSUME NEW j \in Jobs PROVE (PlaceOK(j) /\ RecordOK(j))'
    BY DEF Release, IInv, TypeOK, PlaceOK, RecordOK, Ended
<1> QED
    BY <1>1, <1>3, <1>4 DEF Consistent

LEMMA CancelActiveStep ==
    ASSUME IInv, NEW a \in Jobs, CancelActive(a), TypeOK'
    PROVE  Consistent'
<1>1. a = active /\ cause' = [cause EXCEPT ![a] = NotedCause(a, "caller")]
    BY DEF CancelActive
<1>2. state[a] \in {"queued", "running"} => cause'[a] # "unknown"
    BY <1>1 DEF NotedCause, IInv, TypeOK
<1>3. state[a] \notin {"queued", "running"} => cause'[a] = cause[a]
    BY <1>1 DEF NotedCause, IInv, TypeOK
<1>4. NoLostWakeup'
    BY DEF CancelActive, queueVars, IInv, NoLostWakeup, IsHead
<1>5. WorkerOK'
    BY <1>1, <1>2, <1>3 DEF CancelActive, queueVars, IInv, TypeOK, WorkerOK, Ended
<1>6. ASSUME NEW j \in Jobs PROVE (PlaceOK(j) /\ RecordOK(j))'
    BY DEF CancelActive, queueVars, IInv, PlaceOK, RecordOK
<1> QED
    BY <1>4, <1>5, <1>6 DEF Consistent

LEMMA CancelPendingStep ==
    ASSUME IInv, NEW c \in Jobs, CancelPending(c), TypeOK'
    PROVE  Consistent'
<1>1. c \in pending /\ c \notin reserved /\ DropQueued(c, "caller")
    BY DEF CancelPending, Queued
<1>2. reserved' = reserved \ {c}
    BY <1>1 DEF CancelPending
<1>3. NoLostWakeup'
    BY <1>1 DEF CancelPending, IInv, NoLostWakeup, IsHead, workerVars
<1>4. c # active
    BY <1>1 DEF IInv, PlaceOK
<1>5. WorkerOK'
    BY <1>1, <1>4, DropRecords DEF CancelPending, workerVars, IInv, TypeOK, WorkerOK, NoJob
<1>6. \A j \in Jobs : (PlaceOK(j) /\ RecordOK(j))'
    BY <1>1, <1>2, DropStep DEF CancelPending
<1> QED
    BY <1>3, <1>5, <1>6 DEF Consistent

LEMMA CloseStep ==
    ASSUME IInv, Close, worker # "draining", TypeOK'
    PROVE  Consistent'
<1>1. NoLostWakeup'
    BY DEF Close, NoLostWakeup
<1>2. CASE active = NoJob
    <2>1. WorkerOK'
        BY <1>2 DEF Close, IInv, TypeOK, WorkerOK
    <2>2. ASSUME NEW j \in Jobs PROVE (PlaceOK(j) /\ RecordOK(j))'
        BY <1>2 DEF Close, IInv, PlaceOK, RecordOK
    <2> QED
        BY <1>1, <2>1, <2>2 DEF Consistent
<1>3. CASE active # NoJob
    <2>1. active \in Jobs
        BY <1>3 DEF IInv, TypeOK
    <2>2. cause' = [cause EXCEPT ![active] = NotedCause(active, "shutdown")]
        BY <1>3 DEF Close
    <2>3. state[active] \in {"queued", "running"} => cause'[active] # "unknown"
        BY <2>1, <2>2 DEF NotedCause, IInv, TypeOK
    <2>4. state[active] \notin {"queued", "running"} => cause'[active] = cause[active]
        BY <2>1, <2>2 DEF NotedCause, IInv, TypeOK
    <2>5. WorkerOK'
        BY <1>3, <2>1, <2>3, <2>4 DEF Close, IInv, TypeOK, WorkerOK, Ended
    <2>6. ASSUME NEW j \in Jobs PROVE (PlaceOK(j) /\ RecordOK(j))'
        BY DEF Close, IInv, PlaceOK, RecordOK
    <2> QED
        BY <1>1, <2>5, <2>6 DEF Consistent
<1> QED
    BY <1>2, <1>3

LEMMA WaitCallStep ==
    ASSUME IInv, NEW w \in Waiters, NEW a \in Jobs, WaitCall(w, a)
    PROVE  Consistent'
BY DEF WaitCall, jobVars, queueVars, workerVars, IInv, Consistent, NoLostWakeup, IsHead,
   WorkerOK, PlaceOK, RecordOK

LEMMA CallerStep == ASSUME IInv, Caller, TypeOK' PROVE Consistent'
BY ReserveStep, EnqueueStep, PublishRunningStep, PublishStoppedStep, ReleaseStep,
   CancelActiveStep, CancelPendingStep, CloseStep, WaitCallStep DEF Caller, MuFree, Publish

LEMMA WorkerDrainStep ==
    ASSUME IInv, WorkerDrain, TypeOK'
    PROVE  Consistent'
<1>1. PICK d \in Queued : pending' = pending \ {d} /\ DropQueued(d, "shutdown")
    BY DEF WorkerDrain
<1>2. d \in Jobs /\ d \in pending /\ d \notin reserved
    BY <1>1 DEF Queued, IInv, TypeOK
<1>3. NoLostWakeup'
    BY DEF WorkerDrain, NoLostWakeup
<1>4. active = NoJob
    BY DEF WorkerDrain, IInv, WorkerOK
<1>5. WorkerOK'
    BY <1>1, <1>2, <1>4 DEF WorkerDrain, IInv, WorkerOK
<1>6. \A j \in Jobs : (PlaceOK(j) /\ RecordOK(j))'
    <2>1. reserved' = reserved \ {d} /\ UNCHANGED <<nextID, active>>
        BY <1>2 DEF WorkerDrain
    <2> QED
        BY <1>1, <1>2, <2>1, DropStep
<1> QED
    BY <1>3, <1>5, <1>6 DEF Consistent

LEMMA WorkerExitStep ==
    ASSUME IInv, WorkerExit, TypeOK'
    PROVE  Consistent'
<1>1. NoLostWakeup'
    BY DEF WorkerExit, NoLostWakeup
<1>2. WorkerOK'
    BY DEF WorkerExit, jobVars, IInv, WorkerOK
<1>3. pending \subseteq reserved
    BY DEF WorkerExit, Queued
<1>4. ASSUME NEW j \in Jobs PROVE (PlaceOK(j) /\ RecordOK(j))'
    BY <1>3 DEF WorkerExit, jobVars, IInv, PlaceOK, RecordOK
<1> QED
    BY <1>1, <1>2, <1>4 DEF Consistent

LEMMA WorkerParkStep ==
    ASSUME IInv, WorkerPark
    PROVE  Consistent'
BY DEF WorkerPark, jobVars, queueVars, IInv, Consistent, NoLostWakeup, IsHead, WorkerOK,
   PlaceOK, RecordOK

LEMMA WorkerWakeStep ==
    ASSUME IInv, WorkerWake
    PROVE  Consistent'
BY DEF WorkerWake, jobVars, IInv, Consistent, NoLostWakeup, WorkerOK, PlaceOK, RecordOK

LEMMA WorkerTakeStep ==
    ASSUME IInv, WorkerTake, TypeOK'
    PROVE  Consistent'
<1>1. PICK t \in Queued : Run(t)
    BY DEF WorkerTake
<1>2. t \in Jobs /\ t \in pending /\ t \notin reserved
    BY <1>1 DEF Queued, IInv, TypeOK
<1>3. NoLostWakeup'
    BY <1>1 DEF Run, NoLostWakeup
<1>4. active = NoJob
    BY <1>1 DEF Run, IInv, WorkerOK
<1>5. WorkerOK'
    BY <1>1, <1>2 DEF Run, IInv, TypeOK, WorkerOK, Jobs, NoJob
<1>6. ASSUME NEW j \in Jobs PROVE (PlaceOK(j) /\ RecordOK(j))'
    BY <1>1, <1>2, <1>4 DEF Run, IInv, TypeOK, PlaceOK, RecordOK, Jobs, NoJob, Ended
<1> QED
    BY <1>3, <1>5, <1>6 DEF Consistent

LEMMA RunReturnsStep ==
    ASSUME IInv, RunReturns
    PROVE  Consistent'
BY DEF RunReturns, jobVars, queueVars, IInv, Consistent, NoLostWakeup, WorkerOK, PlaceOK,
   RecordOK

LEMMA WorkerFinalizeStep ==
    ASSUME IInv, WorkerFinalize, TypeOK'
    PROVE  Consistent'
<1>1. active \in Jobs /\ active # NoJob
    BY ActiveIsJob DEF WorkerFinalize, IInv, WorkerOK
<1>2. NoLostWakeup'
    BY DEF WorkerFinalize, NoLostWakeup
<1>3. Outcome \in Ended /\ (Outcome = "cancelled" => cause[active] # "unknown")
    BY DEF WorkerFinalize, Outcome, IInv, WorkerOK, Ended
<1>4. WorkerOK'
    BY <1>1, <1>3 DEF WorkerFinalize, queueVars, IInv, TypeOK, WorkerOK
<1>5. ASSUME NEW j \in Jobs PROVE (PlaceOK(j) /\ RecordOK(j))'
    <2>1. PlaceOK(j) /\ RecordOK(j)
        BY DEF IInv
    <2>2. CASE j = active
        BY <1>1, <1>3, <2>1, <2>2 DEF WorkerFinalize, queueVars, IInv, TypeOK, PlaceOK,
           RecordOK, Ended
    <2>3. CASE j # active
        BY <1>1, <2>1, <2>3 DEF WorkerFinalize, queueVars, IInv, TypeOK, PlaceOK, RecordOK
    <2> QED
        BY <2>2, <2>3
<1> QED
    BY <1>2, <1>4, <1>5 DEF Consistent

LEMMA WorkerPublishStep ==
    ASSUME IInv, WorkerPublish, TypeOK'
    PROVE  Consistent'
<1>1. active \in Jobs /\ active # NoJob
    BY ActiveIsJob DEF WorkerPublish, IInv, WorkerOK
<1>2. /\ final' = [final EXCEPT ![active] = [state |-> state[active], cause |-> cause[active]]]
      /\ closes' = [closes EXCEPT ![active] = @ + 1]
      /\ told' = [told EXCEPT ![active] = state[active]]
      /\ active' = NoJob
      /\ UNCHANGED <<nextID, pending, state, reserved, cause>>
    BY DEF WorkerPublish, PushRecent
<1>3. /\ state[active] \in Ended
      /\ state[active] = "cancelled" <=> cause[active] # "unknown"
    BY DEF WorkerPublish, IInv, WorkerOK
<1>4. NoLostWakeup'
    BY DEF WorkerPublish, NoLostWakeup
<1>5. WorkerOK'
    BY <1>2 DEF WorkerPublish, IInv, WorkerOK
<1>6. ASSUME NEW j \in Jobs PROVE (PlaceOK(j) /\ RecordOK(j))'
    <2>1. PlaceOK(j) /\ RecordOK(j)
        BY DEF IInv
    <2>2. CASE j = active
        BY <1>1, <1>2, <1>3, <2>1, <2>2 DEF IInv, TypeOK, PlaceOK, RecordOK, Ended
    <2>3. CASE j # active
        BY <1>1, <1>2, <2>1, <2>3 DEF IInv, TypeOK, PlaceOK, RecordOK, Jobs, NoJob
    <2> QED
        BY <2>2, <2>3
<1> QED
    BY <1>4, <1>5, <1>6 DEF Consistent

LEMMA WorkerStep == ASSUME IInv, Worker, TypeOK' PROVE Consistent'
BY WorkerDrainStep, WorkerExitStep, WorkerParkStep, WorkerWakeStep, WorkerTakeStep,
   RunReturnsStep, WorkerFinalizeStep, WorkerPublishStep DEF Worker

LEMMA OtherStep ==
    ASSUME IInv, TypeOK',
           \/ SetCovers
           \/ CtxExpire
           \/ \E j \in Jobs \cup {NoJob} : Wake(j)
           \/ \E w \in Waiters : WaitDone(w) \/ WaitCtx(w)
           \/ UNCHANGED vars
    PROVE  Consistent'
<1> USE DEF Consistent
<1>1. ASSUME SetCovers PROVE Consistent'
    <2>1. active \in Jobs /\ state[active] = "running" /\ told[active] = "running"
        BY <1>1, ActiveIsJob DEF SetCovers, IInv, WorkerOK, PlaceOK
    <2>2. told' = told
        BY <1>1, <2>1 DEF SetCovers, IInv, TypeOK
    <2> QED
        BY <1>1, <2>2 DEF SetCovers, queueVars, workerVars, IInv, NoLostWakeup, WorkerOK,
           PlaceOK, RecordOK
<1>2. ASSUME CtxExpire PROVE Consistent'
    BY <1>2 DEF CtxExpire, jobVars, queueVars, IInv, NoLostWakeup, IsHead, WorkerOK, PlaceOK,
       RecordOK
<1>3. ASSUME NEW j \in Jobs \cup {NoJob}, Wake(j) PROVE Consistent'
    BY <1>3 DEF Wake, jobVars, workerVars, IInv, NoLostWakeup, WorkerOK, PlaceOK, RecordOK
<1>4. ASSUME NEW w \in Waiters, WaitDone(w) \/ WaitCtx(w) PROVE Consistent'
    BY <1>4 DEF WaitDone, WaitCtx, jobVars, queueVars, workerVars, IInv, NoLostWakeup, IsHead,
       WorkerOK, PlaceOK, RecordOK
<1>5. ASSUME UNCHANGED vars PROVE Consistent'
    BY <1>5 DEF vars, jobVars, queueVars, workerVars, IInv, NoLostWakeup, IsHead, WorkerOK,
       PlaceOK, RecordOK
<1> QED
    BY <1>1, <1>2, <1>3, <1>4, <1>5

\* IInv holds at the start and every step keeps it.
LEMMA InvStep == ASSUME IInv, [Next]_vars PROVE IInv'
<1>1. TypeOK'
    BY TypeStep
<1>2. Consistent'
    BY <1>1, CallerStep, WorkerStep, OtherStep DEF Next
<1> QED
    BY <1>1, <1>2 DEF IInv, Consistent

THEOREM Inductive == Safe => []IInv
<1>1. Init => IInv
    BY InitType, InitConsistent DEF IInv, Consistent
<1>2. IInv /\ [Next]_vars => IInv'
    BY InvStep
<1> QED
    BY <1>1, <1>2, PTL DEF Safe

-----------------------------------------------------------------------------
(* The bounds.                                                             *)

NotReconcile == {j \in pending : kind[j] # "reconcile"}
Reconciles   == {j \in pending : kind[j] = "reconcile"}

\* The part about what is pending: reservations are never reconciles, so a
\* coalesced reconcile is the only one.
QueueBound ==
    /\ \A j \in reserved : kind[j] # "reconcile"
    /\ \A i, j \in Reconciles : i = j
    /\ Cardinality(NotReconcile) <= JobQueueCap

\* The part about what has ended.
HistoryBound ==
    /\ Len(recent) <= JobHistory
    /\ \A i \in DOMAIN recent : recent[i] \in terminal
    /\ Cardinality(terminal) <= TerminalCap
    /\ \A j \in terminal : closes[j] = 1

LEMMA JobsFinite == ASSUME NEW S, S \subseteq Jobs PROVE IsFiniteSet(S) /\ Cardinality(S) \in Nat
<1>1. IsFiniteSet(Jobs)
    BY FS_Interval, JobQueueAssumption DEF Jobs
<1>2. S \in SUBSET Jobs
    OBVIOUS
<1> QED
    BY <1>1, <1>2, FS_Subset, FS_CardinalityType

\* What leaves the queue keeps its bounds.
LEMMA QueueShrinks ==
    ASSUME TypeOK, QueueBound, pending' \subseteq pending, reserved' \subseteq reserved, kind' = kind
    PROVE  QueueBound'
<1>1. NotReconcile' \in SUBSET NotReconcile /\ Reconciles' \subseteq Reconciles
    BY DEF NotReconcile, Reconciles
<1>2. NotReconcile \subseteq Jobs
    BY DEF NotReconcile, TypeOK
<1>3. IsFiniteSet(NotReconcile) /\ Cardinality(NotReconcile) \in Nat
    BY <1>2, JobsFinite
<1>4. Cardinality(NotReconcile') <= Cardinality(NotReconcile) /\ Cardinality(NotReconcile') \in Nat
    BY <1>1, <1>3, FS_Subset, FS_CardinalityType
<1>5. Cardinality(NotReconcile') <= JobQueueCap
    BY <1>3, <1>4, JobQueueAssumption DEF QueueBound
<1> QED
    BY <1>1, <1>5 DEF QueueBound

\* What is admitted finds room.
LEMMA QueueAdmits ==
    ASSUME IInv, QueueBound, NEW k \in Kinds, Admits(k), NewJob(k),
           reserved' \subseteq reserved \cup {nextID + 1},
           k = "reconcile" => reserved' = reserved /\ ~Coalesces(k)
    PROVE  QueueBound'
<1> DEFINE n == nextID + 1
<1>1. /\ n \in Jobs /\ n \notin pending /\ n \notin reserved
      /\ pending' = pending \cup {n} /\ kind' = [kind EXCEPT ![n] = k]
    BY NewIdFresh DEF NewJob
<1>2. pending \subseteq Jobs /\ reserved \subseteq Jobs /\ kind \in [Jobs -> Kinds \cup {"none"}]
    BY DEF IInv, TypeOK
<1>3. \A j \in Jobs : kind'[j] = IF j = n THEN k ELSE kind[j]
    BY <1>1, <1>2
<1> HIDE DEF n
<1>4. CASE k = "reconcile"
    <2>1. Reconciles = {}
        <3>1. Reconciles \subseteq Queued
            BY DEF Reconciles, QueueBound, Queued
        <3> QED
            BY <1>4, <3>1 DEF Coalesces, Reconciles
    <2>2. NotReconcile' = NotReconcile /\ Reconciles' = {n}
        BY <1>1, <1>2, <1>3, <1>4, <2>1 DEF NotReconcile, Reconciles
    <2> QED
        BY <1>1, <1>2, <1>3, <1>4, <2>2 DEF QueueBound
<1>5. CASE k # "reconcile"
    <2>1. NotReconcile' = NotReconcile \cup {n} /\ Reconciles' = Reconciles
        BY <1>1, <1>2, <1>3, <1>5 DEF NotReconcile, Reconciles
    <2>2. NotReconcile \in SUBSET pending /\ n \notin NotReconcile
        BY <1>1 DEF NotReconcile
    <2>3. IsFiniteSet(pending) /\ Cardinality(pending) \in Nat
        BY <1>2, JobsFinite
    <2>4. /\ IsFiniteSet(NotReconcile) /\ Cardinality(NotReconcile) \in Nat
          /\ Cardinality(NotReconcile) <= Cardinality(pending)
        BY <2>2, <2>3, FS_Subset, FS_CardinalityType
    <2>5. Cardinality(NotReconcile') = Cardinality(NotReconcile) + 1
        BY <2>1, <2>2, <2>4, FS_AddElement
    <2>6. Cardinality(pending) < JobQueueCap
        BY <1>5 DEF Admits
    <2>7. Cardinality(NotReconcile') <= JobQueueCap
        BY <2>3, <2>4, <2>5, <2>6, JobQueueAssumption
    <2>8. \A j \in reserved' : kind'[j] # "reconcile"
        BY <1>1, <1>2, <1>3, <1>5 DEF QueueBound, n
    <2> QED
        BY <2>1, <2>7, <2>8 DEF QueueBound
<1> QED
    BY <1>4, <1>5

\* A set every member of which is in a sequence is no larger than the sequence.
LEMMA FewerThanListed ==
    ASSUME NEW s \in Seq(Jobs), NEW S, \A j \in S : \E i \in DOMAIN s : s[i] = j
    PROVE  IsFiniteSet(S) /\ Cardinality(S) <= Len(s) /\ Cardinality(S) \in Nat
<1> DEFINE T == {s[i] : i \in DOMAIN s}
<1>1. DOMAIN s = 1 .. Len(s) /\ Len(s) \in Nat
    OBVIOUS
<1>2. s \in Surjection(1 .. Len(s), T)
    BY <1>1 DEF Surjection
<1>3. IsFiniteSet(1 .. Len(s)) /\ Cardinality(1 .. Len(s)) = Len(s)
    BY <1>1, FS_Interval
<1>4. IsFiniteSet(T) /\ Cardinality(T) <= Len(s)
    BY <1>2, <1>3, FS_Surjection
<1>5. S \in SUBSET T
    OBVIOUS
<1> HIDE DEF T
<1>6. IsFiniteSet(S) /\ Cardinality(S) <= Cardinality(T)
    BY <1>4, <1>5, FS_Subset
<1>7. Cardinality(S) \in Nat /\ Cardinality(T) \in Nat
    BY <1>4, <1>6, FS_CardinalityType
<1> QED
    BY <1>1, <1>4, <1>6, <1>7

\* The terminal publication keeps the history's bounds.
LEMMA PushKeepsBound ==
    ASSUME TypeOK, HistoryBound, NEW j \in Jobs, closes[j] = 0, NEW act, NEW st, NEW c,
           PushRecent(j, act, st, c), act \notin terminal \cup {j}
    PROVE  HistoryBound'
<1>1. JobHistory \in Nat /\ JobHistory >= 1 /\ TerminalCap \in Nat /\ TerminalCap >= JobHistory
    BY JobQueueAssumption
<1> DEFINE s   == Append(recent, j)
           ids == terminal \cup {j}
<1>2. s \in Seq(Jobs) /\ Len(s) = Len(recent) + 1
      /\ \A i \in 1 .. Len(s) : s[i] \in ids
    BY DEF TypeOK, HistoryBound
<1>3. recent' = Capped(s) /\ terminal' = Evicted(ids, recent', act)
    BY DEF PushRecent
<1>4. ids \subseteq Jobs
    BY DEF TypeOK
<1> HIDE DEF s, ids
<1>5. recent' \in Seq(Jobs)
    BY <1>2, <1>3, CappedType
<1>6. Len(recent') <= JobHistory /\ \A i \in DOMAIN recent' : recent'[i] \in ids
    <2>1. CASE Len(s) > JobHistory
        <3>1. recent' = SubSeq(s, Len(s) - JobHistory + 1, Len(s))
            BY <1>3, <2>1 DEF Capped
        <3> QED
            BY <1>1, <1>2, <2>1, <3>1
    <2>2. CASE ~(Len(s) > JobHistory)
        BY <1>1, <1>2, <1>3, <2>2 DEF Capped
    <2> QED
        BY <2>1, <2>2
<1>7. /\ Cardinality(terminal') <= TerminalCap
      /\ \A i \in DOMAIN recent' : recent'[i] \in terminal'
      /\ terminal' \subseteq ids
    <2>1. CASE Cardinality(ids) > TerminalCap
        <3>1. terminal' = ids \cap ({recent'[i] : i \in DOMAIN recent'} \cup {act})
            BY <1>3, <2>1 DEF Evicted
        <3>2. act \notin ids
            BY DEF ids
        <3>3. \A x \in terminal' : \E i \in DOMAIN recent' : recent'[i] = x
            BY <3>1, <3>2
        <3>4. Cardinality(terminal') <= Len(recent') /\ Cardinality(terminal') \in Nat
            BY <1>5, <3>3, FewerThanListed
        <3>5. Cardinality(terminal') <= TerminalCap
            BY <1>1, <1>5, <1>6, <3>4
        <3> QED
            BY <1>6, <3>1, <3>5
    <2>2. CASE ~(Cardinality(ids) > TerminalCap)
        <3>1. terminal' = ids
            BY <1>3, <2>2 DEF Evicted
        <3>2. Cardinality(ids) \in Nat
            BY <1>4, JobsFinite
        <3> QED
            BY <1>1, <1>6, <2>2, <3>1, <3>2
    <2> QED
        BY <2>1, <2>2
<1>8. \A x \in terminal' : closes'[x] = 1
    <2>1. closes \in [Jobs -> Nat] /\ closes' = [closes EXCEPT ![j] = @ + 1]
        BY DEF PushRecent, TypeOK
    <2>2. closes'[j] = 1 /\ \A x \in Jobs \ {j} : closes'[x] = closes[x]
        BY <2>1
    <2>3. \A x \in terminal' : x = j \/ x \in terminal
        BY <1>7 DEF ids
    <2> QED
        BY <1>4, <1>7, <2>2, <2>3 DEF HistoryBound
<1> QED
    BY <1>6, <1>7, <1>8 DEF HistoryBound

\* A job that ends was not the active one, or is no longer.
LEMMA DropKeepsBound ==
    ASSUME IInv, HistoryBound, NEW j \in Jobs, NEW c, j \in pending \/ j \in reserved,
           DropQueued(j, c)
    PROVE  HistoryBound'
<1>1. closes[j] = 0 /\ j # active
    BY DEF IInv, PlaceOK
<1>2. active \notin terminal
    BY DEF IInv, TypeOK, PlaceOK, HistoryBound, Jobs, NoJob
<1> QED
    BY <1>1, <1>2, PushKeepsBound DEF DropQueued, IInv

LEMMA BoundStep ==
    ASSUME IInv, QueueBound, HistoryBound, [Next]_vars PROVE QueueBound' /\ HistoryBound'
<1> USE DEF Queued
<1>1. ASSUME NEW k \in Kinds, NewJob(k), Admits(k), UNCHANGED <<recent, terminal, closes>>,
             reserved' \subseteq reserved \cup {nextID + 1},
             k = "reconcile" => reserved' = reserved /\ ~Coalesces(k)
      PROVE  QueueBound' /\ HistoryBound'
    BY <1>1, QueueAdmits DEF HistoryBound
<1>2. ASSUME pending' \subseteq pending, reserved' \subseteq reserved, kind' = kind,
             UNCHANGED <<recent, terminal, closes>>
      PROVE  QueueBound' /\ HistoryBound'
    BY <1>2, QueueShrinks DEF HistoryBound, IInv
<1>3. ASSUME pending' \subseteq pending, reserved' \subseteq reserved, kind' = kind,
             NEW j \in Jobs, NEW c, j \in pending \/ j \in reserved, DropQueued(j, c)
      PROVE  QueueBound' /\ HistoryBound'
    BY <1>3, QueueShrinks, DropKeepsBound DEF IInv
<1>4. ASSUME NEW k \in OtherKinds, Reserve(k) PROVE QueueBound' /\ HistoryBound'
    BY <1>1, <1>4, JobQueueAssumption DEF Reserve, Kinds
<1>5. ASSUME NEW k \in Kinds, Enqueue(k) PROVE QueueBound' /\ HistoryBound'
    BY <1>1, <1>5 DEF Enqueue
<1>6. ASSUME NEW j \in Jobs, PublishRunning(j) \/ Release(j) \/ CancelActive(j)
      PROVE  QueueBound' /\ HistoryBound'
    BY <1>2, <1>6 DEF PublishRunning, Release, CancelActive, queueVars
<1>7. ASSUME NEW j \in Jobs, PublishStopped(j) PROVE QueueBound' /\ HistoryBound'
    BY <1>3, <1>7 DEF PublishStopped
<1>8. ASSUME NEW j \in Jobs, CancelPending(j) PROVE QueueBound' /\ HistoryBound'
    BY <1>3, <1>8 DEF CancelPending
<1>9. ASSUME NEW w \in Waiters, NEW j \in Jobs, WaitCall(w, j) PROVE QueueBound' /\ HistoryBound'
    BY <1>2, <1>9 DEF WaitCall, jobVars, queueVars
<1>10. ASSUME Close PROVE QueueBound' /\ HistoryBound'
    BY <1>2, <1>10 DEF Close
<1>11. ASSUME Caller PROVE QueueBound' /\ HistoryBound'
    BY <1>4, <1>5, <1>6, <1>7, <1>8, <1>9, <1>10, <1>11 DEF Caller, Publish
<1>12. ASSUME WorkerDrain PROVE QueueBound' /\ HistoryBound'
    <2>1. PICK j \in Queued : pending' = pending \ {j} /\ DropQueued(j, "shutdown")
        BY <1>12 DEF WorkerDrain
    <2>2. j \in Jobs
        BY <2>1 DEF IInv, TypeOK
    <2>3. UNCHANGED <<reserved, kind>>
        BY <1>12 DEF WorkerDrain
    <2> QED
        BY <1>3, <2>1, <2>2, <2>3
<1>13. ASSUME WorkerExit \/ WorkerPark \/ WorkerWake \/ WorkerTake \/ RunReturns \/ WorkerFinalize
       PROVE  QueueBound' /\ HistoryBound'
    BY <1>2, <1>13 DEF WorkerExit, WorkerPark, WorkerWake, WorkerTake, Run, RunReturns,
        WorkerFinalize, jobVars, queueVars
<1>14. ASSUME WorkerPublish PROVE QueueBound' /\ HistoryBound'
    <2>1. active \in Jobs
        BY <1>14, ActiveIsJob DEF WorkerPublish
    <2>2. closes[active] = 0
        BY <2>1 DEF IInv, PlaceOK
    <2>3. NoJob \notin terminal \cup {active}
        BY <2>1 DEF IInv, TypeOK, Jobs, NoJob
    <2>4. HistoryBound'
        BY <1>14, <2>1, <2>2, <2>3, PushKeepsBound DEF WorkerPublish, IInv
    <2> QED
        BY <1>14, <2>4, QueueShrinks DEF WorkerPublish, IInv
<1>15. ASSUME SetCovers \/ CtxExpire \/ UNCHANGED vars
              \/ (\E j \in Jobs \cup {NoJob} : Wake(j))
              \/ (\E w \in Waiters : WaitDone(w) \/ WaitCtx(w))
       PROVE  QueueBound' /\ HistoryBound'
    BY <1>2, <1>15 DEF SetCovers, CtxExpire, Wake, WaitDone, WaitCtx, vars, jobVars, queueVars
<1> QED
    BY <1>11, <1>12, <1>13, <1>14, <1>15 DEF Next, Worker

LEMMA BoundsFollow == ASSUME TypeOK, QueueBound, HistoryBound PROVE Bounded
<1>1. Cardinality(Reconciles) <= 1
    <2>1. CASE Reconciles = {}
        BY <2>1, FS_EmptySet
    <2>2. CASE Reconciles # {}
        <3>1. PICK j : Reconciles = {j}
            BY <2>2 DEF QueueBound
        <3>2. Cardinality({j}) = 1
            BY FS_Singleton
        <3> QED
            BY <3>1, <3>2
    <2> QED
        BY <2>1, <2>2
<1> QED
    BY <1>1 DEF Bounded, QueueBound, HistoryBound, NotReconcile, Reconciles

\* The queue, the history and the terminal map stay within their caps
\* (reserveLocked, Enqueue, pushRecentLocked).
THEOREM AlwaysBounded == Safe => []Bounded
<1>1. Init => QueueBound /\ HistoryBound
    <2> SUFFICES ASSUME Init PROVE QueueBound /\ HistoryBound
        OBVIOUS
    <2>1. NotReconcile = {} /\ Reconciles = {}
        BY DEF Init, NotReconcile, Reconciles
    <2> QED
        BY <2>1, FS_EmptySet, JobQueueAssumption DEF Init, QueueBound, HistoryBound
<1>2. IInv /\ (QueueBound /\ HistoryBound) /\ [Next]_vars => (QueueBound /\ HistoryBound)'
    BY BoundStep
<1>3. IInv /\ QueueBound /\ HistoryBound => Bounded
    BY BoundsFollow DEF IInv
<1> QED
    BY <1>1, <1>2, <1>3, Inductive, PTL DEF Safe

-----------------------------------------------------------------------------
(* The safety properties.                                                  *)

\* Every reachable state of the queue is well typed.
THEOREM TypeCorrect == Safe => []TypeOK
<1>1. IInv => TypeOK
    BY DEF IInv
<1> QED
    BY <1>1, Inductive, PTL

\* No wake is ever lost, whatever the callers do between an unlock and a wake.
THEOREM WakeupNeverLost == Safe => []NoLostWakeup
<1>1. IInv => NoLostWakeup
    BY DEF IInv
<1> QED
    BY <1>1, Inductive, PTL

\* No job is closed twice, and a job's waiters are released exactly when its
\* end has been told.
THEOREM DoneExactlyOnce == Safe => []DoneOnce
<1>1. IInv => DoneOnce
    <2> SUFFICES ASSUME IInv, NEW j \in Jobs
                 PROVE  /\ closes[j] <= 1
                        /\ closes[j] = 1 <=> told[j] \in Ended
                        /\ closes[j] = 1 => final[j].state = told[j]
                        /\ closes[j] = 0 => final[j] = NoView
        BY DEF DoneOnce
    <2> QED
        BY DEF IInv, TypeOK, RecordOK
<1> QED
    BY <1>1, Inductive, PTL

\* A published view names a cause exactly when it is a cancellation.
THEOREM EveryCauseNamed == Safe => []CauseNamed
<1>1. IInv => CauseNamed
    BY DEF IInv, TypeOK, RecordOK, CauseNamed
<1> QED
    BY <1>1, Inductive, PTL

\* Both together, the invariant the run checks: every job ends once, with a view
\* that says how, and why when it was cancelled.
THEOREM EveryEnd == Safe => []EndsOnceAndSaysWhy
BY DoneExactlyOnce, EveryCauseNamed, PTL DEF EndsOnceAndSaysWhy

\* After the worker's exit no visible job is without an end.
THEOREM ExitLeavesNothing == Safe => []NothingLeftAfterExit
<1>1. IInv => NothingLeftAfterExit
    <2> SUFFICES ASSUME IInv, worker = "exited", NEW j \in Jobs, Visible(j)
                 PROVE  told[j] \in Ended
        BY DEF NothingLeftAfterExit
    <2>1. pending = {} /\ j # active
        BY DEF IInv, WorkerOK, Jobs, NoJob
    <2>2. closes[j] = 1
        BY <2>1 DEF Visible, IInv, PlaceOK
    <2> QED
        BY <2>2 DEF IInv, RecordOK
<1> QED
    BY <1>1, Inductive, PTL

\* A job starts only as the oldest of all pending ones, reservations included,
\* and only while no other is active.
THEOREM OrderedStart == Safe => StartsInOrder
<1>1. IInv /\ [Next]_vars =>
        [\A j \in Jobs :
            active' = j /\ active # j =>
                /\ active = NoJob
                /\ \A i \in pending : j <= i
                /\ j \notin reserved]_vars
    <2> SUFFICES ASSUME IInv, Next, NEW j \in Jobs, active' = j, active # j
                 PROVE  /\ active = NoJob
                        /\ \A i \in pending : j <= i
                        /\ j \notin reserved
        OBVIOUS
    <2>1. ASSUME NEW t \in Queued, IsHead(t), Run(t)
          PROVE  /\ active = NoJob
                 /\ \A i \in pending : j <= i
                 /\ j \notin reserved
        BY <2>1 DEF Run, IsHead, Queued, IInv, WorkerOK
    <2>2. WorkerPublish => active' = NoJob
        BY DEF WorkerPublish
    <2>3. j # NoJob
        BY DEF Jobs, NoJob
    <2>4. ~WorkerTake /\ ~WorkerPublish => active' = active
        BY DEF Next, Caller, Worker, Reserve, Enqueue, Publish, PublishRunning,
           PublishStopped, Release, CancelActive, CancelPending, WaitCall, Close, Wake,
           WorkerDrain, WorkerExit, WorkerPark, WorkerWake, RunReturns, WorkerFinalize,
           SetCovers, CtxExpire, WaitDone, WaitCtx, queueVars
    <2> QED
        BY <2>1, <2>2, <2>3, <2>4 DEF WorkerTake
<1> QED
    BY <1>1, Inductive, PTL DEF Safe, StartsInOrder

\* Wait does not know a job only when it must not see it, or when the job ended and
\* left the history: what it says is no trace of a job on its way from one place to
\* the next.
THEOREM UnknownOnlyWhenGone == Safe => UnknownOnlyOutsideHistory
<1>1. ASSUME IInv, Bounded, Next, NEW w \in Waiters,
             wstate[w] = "idle", wstate'[w] = "unknown"
      PROVE  LET j == wjob'[w] IN
             \/ ~Visible(j)
             \/ told[j] \in Ended /\ \A i \in DOMAIN recent : recent[i] # j
    <2> USE <1>1
    <2>1. \E j \in Jobs : WaitCall(w, j)
        <3>1. wstate' # wstate
            OBVIOUS
        <3>2. \E v \in Waiters : (\E j \in Jobs : WaitCall(v, j)) \/ WaitDone(v) \/ WaitCtx(v)
            BY <3>1
            DEF Next, Caller, Worker, Reserve, Enqueue, Publish, PublishRunning, PublishStopped,
                Release, CancelActive, CancelPending, Close, WorkerDrain, WorkerExit, WorkerPark,
                WorkerWake, WorkerTake, Run, RunReturns, WorkerFinalize, WorkerPublish,
                SetCovers, CtxExpire, Wake, waitVars
        <3>3. PICK v \in Waiters : (\E j \in Jobs : WaitCall(v, j)) \/ WaitDone(v) \/ WaitCtx(v)
            BY <3>2
        <3>4. v = w
            BY <3>3 DEF WaitCall, WaitDone, WaitCtx, IInv, TypeOK
        <3> QED
            BY <3>3, <3>4 DEF WaitDone, WaitCtx
    <2>2. PICK j \in Jobs : WaitCall(w, j)
        BY <2>1
    <2>3. wjob'[w] = j /\ WaitTarget(j) = "unknown"
        BY <2>2 DEF WaitCall, IInv, TypeOK
    <2>4. j \notin terminal /\ j # active /\ j \notin Queued
        BY <2>3 DEF WaitTarget
    <2>5. \A i \in DOMAIN recent : recent[i] # j
        BY <2>4 DEF Bounded
    <2>6. Visible(j) => told[j] \in Ended
        BY <2>4 DEF Visible, Queued, IInv, PlaceOK, RecordOK
    <2> QED
        BY <2>3, <2>5, <2>6
<1>2. IInv /\ Bounded /\ [Next]_vars =>
        [\A w \in Waiters :
            wstate[w] = "idle" /\ wstate'[w] = "unknown" =>
                LET j == wjob'[w] IN
                \/ ~Visible(j)
                \/ told[j] \in Ended /\ \A i \in DOMAIN recent : recent[i] # j]_vars
    BY <1>1
<1> QED
    BY <1>2, Inductive, AlwaysBounded, PTL DEF Safe, UnknownOnlyOutsideHistory

\* The first cause recorded for a job is never replaced by another.
THEOREM CauseNeverReplaced == Safe => FirstCauseWins
<1>1. IInv /\ [Next]_vars =>
        [\A j \in Jobs :
            cause[j] # "unknown" =>
                \/ cause'[j] = cause[j]
                \/ cause'[j] = "unknown" /\ state'[j] \in {"done", "failed"}]_vars
    <2> SUFFICES ASSUME IInv, Next, NEW j \in Jobs, cause[j] # "unknown"
                 PROVE  \/ cause'[j] = cause[j]
                        \/ cause'[j] = "unknown" /\ state'[j] \in {"done", "failed"}
        OBVIOUS
    <2> USE DEF IInv, TypeOK
    <2>1. ASSUME NEW i \in Jobs, NEW c, cause' = [cause EXCEPT ![i] = NotedCause(i, c)]
          PROVE  cause'[j] = cause[j]
        BY <2>1 DEF NotedCause
    <2>2. ASSUME NEW i \in Jobs, CancelActive(i) \/ CancelPending(i) \/ Publish(i)
          PROVE  cause'[j] = cause[j]
        BY <2>1, <2>2 DEF CancelActive, CancelPending, Publish, PublishRunning,
           PublishStopped, DropQueued
    <2>3. ASSUME Close PROVE cause'[j] = cause[j]
        BY <2>1, <2>3 DEF Close
    <2>4. ASSUME WorkerDrain PROVE cause'[j] = cause[j]
        BY <2>1, <2>4 DEF WorkerDrain, DropQueued, Queued
    <2>5. ASSUME WorkerFinalize
          PROVE  \/ cause'[j] = cause[j]
                 \/ cause'[j] = "unknown" /\ state'[j] \in {"done", "failed"}
        BY <2>5 DEF WorkerFinalize, Outcome
    <2>6. ASSUME \/ \E k \in OtherKinds : Reserve(k)
                 \/ \E k \in Kinds : Enqueue(k)
                 \/ \E i \in Jobs : Release(i)
                 \/ \E w \in Waiters, i \in Jobs : WaitCall(w, i)
                 \/ WorkerExit \/ WorkerPark \/ WorkerWake \/ WorkerTake
                 \/ RunReturns \/ WorkerPublish \/ SetCovers \/ CtxExpire
                 \/ \E i \in Jobs \cup {NoJob} : Wake(i)
                 \/ \E w \in Waiters : WaitDone(w) \/ WaitCtx(w)
          PROVE  cause'[j] = cause[j]
        BY <2>6 DEF Reserve, Enqueue, Release, WaitCall, WorkerExit, WorkerPark, WorkerWake,
           WorkerTake, Run, RunReturns, WorkerPublish, SetCovers, CtxExpire, Wake, WaitDone,
           WaitCtx, jobVars
    <2> QED
        BY <2>2, <2>3, <2>4, <2>5, <2>6 DEF Next, Caller, Worker
<1> QED
    BY <1>1, Inductive, PTL DEF Safe, FirstCauseWins

-----------------------------------------------------------------------------
(* Refinement: JobQueue implements the safety part of JobLifecycle.        *)

\* A job told to be queued is a published pending one.
LEMMA ToldQueued ==
    ASSUME IInv, NEW j \in Jobs, told[j] = "queued"
    PROVE  j \in pending /\ j \notin reserved
<1>1. PlaceOK(j) /\ RecordOK(j)
    BY DEF IInv
<1>2. closes[j] = 0
    BY <1>1 DEF RecordOK, Ended
<1> QED
    BY <1>1, <1>2 DEF PlaceOK

\* A job told to be running is the active one.
LEMMA ToldRunning ==
    ASSUME IInv, NEW j \in Jobs, told[j] = "running"
    PROVE  j = active
<1>1. PlaceOK(j) /\ RecordOK(j)
    BY DEF IInv
<1>2. closes[j] = 0
    BY <1>1 DEF RecordOK, Ended
<1> QED
    BY <1>1, <1>2 DEF PlaceOK

LEMMA LifecycleStep ==
    ASSUME IInv, Next
    PROVE  [Lifecycle!Next]_(Lifecycle!vars)
<1> USE DEF Lifecycle!Next, Lifecycle!vars, Lifecycle!Become, Lifecycle!Outcomes
<1>1. ASSUME NEW k \in Kinds, Enqueue(k) PROVE [Lifecycle!Next]_(Lifecycle!vars)
    <2>1. nextID + 1 \in Jobs /\ told[nextID + 1] = "none"
        BY <1>1, NewIdFresh DEF Enqueue, NewJob
    <2> QED
        BY <1>1, <2>1 DEF Enqueue, Admits, Lifecycle!Submit
<1>2. ASSUME NEW j \in Jobs, PublishRunning(j) PROVE [Lifecycle!Next]_(Lifecycle!vars)
    BY <1>2 DEF PublishRunning, IInv, PlaceOK, Lifecycle!Submit
<1>3. ASSUME NEW j \in Jobs, PublishStopped(j) PROVE [Lifecycle!Next]_(Lifecycle!vars)
    BY <1>3 DEF PublishStopped, DropQueued, IInv, PlaceOK, Lifecycle!Reject
<1>4. ASSUME NEW j \in Jobs, CancelPending(j) PROVE [Lifecycle!Next]_(Lifecycle!vars)
    BY <1>4 DEF CancelPending, Queued, DropQueued, IInv, PlaceOK, Lifecycle!Drop
<1>5. ASSUME Close PROVE [Lifecycle!Next]_(Lifecycle!vars)
    BY <1>5 DEF Close, Lifecycle!Shut
<1>6. ASSUME WorkerDrain PROVE [Lifecycle!Next]_(Lifecycle!vars)
    BY <1>6 DEF WorkerDrain, Queued, DropQueued, IInv, TypeOK, PlaceOK, Lifecycle!Drop
<1>7. ASSUME WorkerTake PROVE [Lifecycle!Next]_(Lifecycle!vars)
    <2>1. PICK j \in Queued : IsHead(j) /\ Run(j)
        BY <1>7 DEF WorkerTake
    <2>2. j \in Jobs /\ told[j] = "queued" /\ j \in pending
        BY <2>1 DEF Queued, IInv, TypeOK, PlaceOK
    <2>3. ASSUME NEW i \in Jobs, i < j PROVE told[i] # "queued"
        <3>1. j \in Int /\ i \in Int /\ ~(j <= i)
            BY <2>2, <2>3 DEF Jobs
        <3>2. i \notin pending
            BY <2>1, <3>1 DEF IsHead
        <3> QED
            BY <3>2, ToldQueued
    <2>4. active = NoJob
        BY <2>1 DEF Run, IInv, WorkerOK
    <2>5. ASSUME NEW i \in Jobs PROVE told[i] # "running"
        BY <2>4, ToldRunning DEF Jobs, NoJob
    <2>6. ~stopped /\ stopped' = stopped /\ told' = [told EXCEPT ![j] = "running"]
        BY <1>7, <2>1 DEF WorkerTake, Run
    <2>7. Lifecycle!Start(j)
        BY <2>2, <2>3, <2>5, <2>6 DEF Lifecycle!Start
    <2> QED
        BY <2>2, <2>7
<1>8. ASSUME WorkerPublish PROVE [Lifecycle!Next]_(Lifecycle!vars)
    <2>1. active \in Jobs /\ state[active] \in Ended
        BY <1>8, ActiveIsJob DEF WorkerPublish, IInv, WorkerOK
    <2>2. told[active] = "running"
        BY <2>1 DEF IInv, PlaceOK
    <2>3. stopped' = stopped /\ told' = [told EXCEPT ![active] = state[active]]
        BY <1>8 DEF WorkerPublish
    <2>4. Lifecycle!Finish(active)
        BY <2>1, <2>2, <2>3 DEF Lifecycle!Finish, Ended
    <2> QED
        BY <2>1, <2>4
<1>9. ASSUME SetCovers PROVE [Lifecycle!Next]_(Lifecycle!vars)
    <2>1. active \in Jobs /\ state[active] = "running" /\ told[active] = "running"
        BY <1>9, ActiveIsJob DEF SetCovers, IInv, WorkerOK, PlaceOK
    <2>2. told' = told /\ stopped' = stopped
        BY <1>9, <2>1 DEF SetCovers, queueVars, IInv, TypeOK
    <2> QED
        BY <2>2
<1>10. ASSUME \/ \E k \in OtherKinds : Reserve(k)
              \/ \E j \in Jobs : Release(j) \/ CancelActive(j)
              \/ \E w \in Waiters, j \in Jobs : WaitCall(w, j)
              \/ WorkerExit \/ WorkerPark \/ WorkerWake \/ RunReturns \/ WorkerFinalize
              \/ CtxExpire
              \/ \E j \in Jobs \cup {NoJob} : Wake(j)
              \/ \E w \in Waiters : WaitDone(w) \/ WaitCtx(w)
       PROVE  [Lifecycle!Next]_(Lifecycle!vars)
    <2>1. UNCHANGED <<told, stopped>>
        BY <1>10 DEF Reserve, Release, CancelActive, WaitCall, WorkerExit, WorkerPark,
           WorkerWake, RunReturns, WorkerFinalize, CtxExpire, Wake, WaitDone, WaitCtx,
           jobVars, queueVars
    <2> QED
        BY <2>1
<1> HIDE DEF Lifecycle!Next, Lifecycle!vars, Lifecycle!Become, Lifecycle!Outcomes
<1>11. CASE Caller
    BY <1>1, <1>2, <1>3, <1>4, <1>5, <1>10, <1>11 DEF Caller, Publish
<1>12. CASE Worker
    BY <1>6, <1>7, <1>8, <1>10, <1>12 DEF Worker
<1> QED
    BY <1>9, <1>10, <1>11, <1>12 DEF Next

\* The consumer of onChanged sees a queue that keeps JobLifecycle's promise.
THEOREM Refinement == Safe => Lifecycle!Init /\ [][Lifecycle!Next]_(Lifecycle!vars)
<1>1. Init => Lifecycle!Init
    BY DEF Init, Lifecycle!Init
<1>2. IInv /\ [Next]_vars => [Lifecycle!Next]_(Lifecycle!vars)
    <2>1. ASSUME IInv, Next PROVE [Lifecycle!Next]_(Lifecycle!vars)
        BY <2>1, LifecycleStep
    <2>2. ASSUME UNCHANGED vars PROVE [Lifecycle!Next]_(Lifecycle!vars)
        BY <2>2 DEF vars, jobVars, queueVars, Lifecycle!vars
    <2> QED
        BY <2>1, <2>2
<1> QED
    BY <1>1, <1>2, Inductive, PTL DEF Safe
=============================================================================
