---------------------------- MODULE JobLifecycle ----------------------------
(***************************************************************************)
(* What the job queue promises a consumer of its onChanged callback: every *)
(* job it is told of runs at most once, alone, in order of admission, ends *)
(* exactly once, and is neither queued nor started once the queue is       *)
(* closed.  JobQueue implements this with status = the last state told.    *)
(***************************************************************************)
EXTENDS Integers

CONSTANT Jobs   \* job ids, integers in order of admission

VARIABLES
    status,   \* the last state told of each job
    closed    \* Close has begun

vars == <<status, closed>>

Outcomes == {"done", "failed", "cancelled"}

Init ==
    /\ status = [j \in Jobs |-> "none"]
    /\ closed = FALSE

Become(j, s) == status' = [status EXCEPT ![j] = s] /\ UNCHANGED closed

Submit(j) == ~closed /\ status[j] = "none" /\ Become(j, "queued")

Start(j) ==
    /\ ~closed
    /\ status[j] = "queued"
    /\ \A i \in Jobs : status[i] # "running"
    /\ \A i \in Jobs : i < j => status[i] # "queued"
    /\ Become(j, "running")

Finish(j) == status[j] = "running" /\ \E s \in Outcomes : Become(j, s)

\* A queued job is cancelled, or dropped by shutdown.
Drop(j) == status[j] = "queued" /\ Become(j, "cancelled")

\* A job admitted before Close and committed after it.
Reject(j) == closed /\ status[j] = "none" /\ Become(j, "cancelled")

Shut == closed' = TRUE /\ UNCHANGED status

Next ==
    \/ \E j \in Jobs : Submit(j) \/ Start(j) \/ Finish(j) \/ Drop(j) \/ Reject(j)
    \/ Shut

\* A running job ends, and the queue moves while a job is queued.
Fairness ==
    /\ WF_vars(\E j \in Jobs : Finish(j))
    /\ WF_vars(\E j \in Jobs : Start(j) \/ Drop(j))

Spec == Init /\ [][Next]_vars /\ Fairness

\* What Fairness buys: a job that was queued ends.
EveryJobEnds == \A j \in Jobs : status[j] = "queued" ~> status[j] \in Outcomes
=============================================================================
