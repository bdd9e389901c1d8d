--------------------------- MODULE AptEntry_proofs ---------------------------
(***************************************************************************)
(* What holds of an apt: entry for any number of versions, queued jobs,    *)
(* attempts and events.  No property is inductive by itself: between an    *)
(* edit and the end of the job it queued the entry is unsettled, so IInv   *)
(* says which queued job will see to it, and, of the job that runs with    *)
(* none behind it, what its last step established of the row, dpkg and the *)
(* record.                                                                 *)
(***************************************************************************)
EXTENDS AptEntry, SequenceTheorems, TLAPS

\* A job that will look at the row as it is then.
Covered == Queued("install") \/ Queued("reconcile")

\* Nobody moved the package, and no job was lost, since the last Reconcile, so
\* far as one of the two histories tells.
Undisturbed == row # Absent /\ ~Covered /\ ~(dirty /\ unseen)

\* What Settled asks beside the hold.
Placed ==
    /\ dpkg.ver # 0
    /\ row.pin => dpkg.ver = row.ver
    /\ st.ver # 0 => st.ver = row.ver

\* Where the job works on the row it read.
Working == {"asking", "lifting", "installing", "reading", "committing", "verifying", "following"}

\* What the running job has established when no later job will redo it.
Follows ==
    Undisturbed =>
        /\ pc \in Working => tool = row
        /\ pc \in {"committing", "verifying", "following"} => found = dpkg.ver /\ found # 0
        /\ pc \in {"verifying", "following"} => st.ver = found
        /\ pc = "following" => ~row.pin
        /\ pc \in {"settling", "marking"} /\ good => Placed
        /\ pc = "marking" => wanted = row.pin

\* Between jobs, and before an update writes, nothing is owed.
Healed == row # Absent /\ ~Covered /\ ~dirty /\ pc \in {"idle", "looking"} => Settled

\* The same, or the record says so; so it does once the install has failed.
Told ==
    row # Absent /\ ~Covered /\ ~unseen =>
        /\ pc \in {"idle", "looking"} => Settled \/ st.failed
        /\ pc \in {"settling", "marking"} /\ ~good => st.failed

\* A queued uninstall is of a row that Add has replaced since, so the install
\* that Add queued is behind it.
Replaced ==
    row # Absent /\ ~unseen =>
        \A i \in DOMAIN queue : queue[i] = "uninstall" =>
            \E j \in DOMAIN queue : i < j /\ queue[j] = "install"

\* What has not run has not failed, and the attempts are those of this job.
Fresh ==
    /\ pc \notin {"settling", "marking"} => good
    /\ pc \in {"idle", "looking", "deciding", "asking", "lifting"} => tries = 0
    /\ pc \in {"installing", "reading", "committing", "verifying", "following"} => tries > 0
    /\ pc = "idle" <=> job = "none"

\* Since apt-get is not asked for more than the candidate, and the shell installs
\* no less, a package that moved after the install moved up, or is gone.
Upward ==
    /\ dpkg.ver <= cand /\ found <= cand
    /\ pc \in {"committing", "verifying", "following", "settling", "marking"} /\ tries > 0 /\ good =>
           found # 0 /\ (dpkg.ver = 0 \/ found <= dpkg.ver)

\* So the list, enumerated after the commit, shows what the install left if dpkg
\* still has it.
Listed ==
    pc \in {"verifying", "following", "settling", "marking"} /\ tries > 0 /\ good /\ dpkg.ver = found
        => seen \in {NotLoaded, found}

\* No refresh outlives the index's close, no job the queue's.
Closed ==
    /\ closing \in {"queue", "closed"} => stage["refresh"] = "idle"
    /\ closing = "closed" => pc = "idle"

IInv == TypeOK /\ Follows /\ Healed /\ Told /\ Replaced /\ Fresh /\ Upward /\ Listed /\ Closed
-----------------------------------------------------------------------------
(* The queue.                                                              *)

\* A job appended is queued with those before it, and is behind them all.
LEMMA AppendQueues ==
    ASSUME queue \in Seq(Kinds), NEW k \in Kinds, queue' = Append(queue, k)
    PROVE  /\ queue' \in Seq(Kinds)
           /\ \A x : Queued(x)' <=> Queued(x) \/ x = k
           /\ (\A i \in DOMAIN queue : queue[i] = "uninstall" =>
                  \E j \in DOMAIN queue : i < j /\ queue[j] = "install")
              /\ k # "uninstall" =>
              \A i \in DOMAIN queue' : queue'[i] = "uninstall" =>
                  \E j \in DOMAIN queue' : i < j /\ queue'[j] = "install"
           /\ k = "install" =>
              \A i \in DOMAIN queue' : queue'[i] = "uninstall" =>
                  \E j \in DOMAIN queue' : i < j /\ queue'[j] = "install"
<1>1. /\ queue' \in Seq(Kinds) /\ Len(queue) \in Nat /\ Len(queue') = Len(queue) + 1
      /\ DOMAIN queue = 1 .. Len(queue) /\ DOMAIN queue' = 1 .. Len(queue')
      /\ queue'[Len(queue')] = k
      /\ \A i \in 1 .. Len(queue) : queue'[i] = queue[i]
    OBVIOUS
<1>2. ASSUME NEW x PROVE Queued(x)' <=> Queued(x) \/ x = k
    BY <1>1 DEF Queued
<1>3. ASSUME k = "install", NEW i \in DOMAIN queue', queue'[i] = "uninstall"
      PROVE  \E j \in DOMAIN queue' : i < j /\ queue'[j] = "install"
    BY <1>1, <1>3
<1>4. ASSUME \A i \in DOMAIN queue : queue[i] = "uninstall" =>
                  \E j \in DOMAIN queue : i < j /\ queue[j] = "install",
             k # "uninstall", NEW i \in DOMAIN queue', queue'[i] = "uninstall"
      PROVE  \E j \in DOMAIN queue' : i < j /\ queue'[j] = "install"
    <2>1. i \in DOMAIN queue /\ queue[i] = "uninstall"
        BY <1>1, <1>4
    <2>2. PICK j \in DOMAIN queue : i < j /\ queue[j] = "install"
        BY <1>4, <2>1
    <2> QED
        BY <1>1, <2>2
<1> QED
    BY <1>1, <1>2, <1>3, <1>4

\* Taking the head leaves the others queued, in their order.
LEMMA TakeQueues ==
    ASSUME queue \in Seq(Kinds), queue # <<>>, queue' = Tail(queue)
    PROVE  /\ queue' \in Seq(Kinds) /\ Head(queue) \in Kinds
           /\ \A x : Queued(x) => Queued(x)' \/ x = Head(queue)
           /\ \A x : Queued(x)' => Queued(x)
           /\ (\A i \in DOMAIN queue : queue[i] = "uninstall" =>
                  \E j \in DOMAIN queue : i < j /\ queue[j] = "install") =>
              /\ \A i \in DOMAIN queue' : queue'[i] = "uninstall" =>
                     \E j \in DOMAIN queue' : i < j /\ queue'[j] = "install"
              /\ Head(queue) = "uninstall" => Queued("install")'
<1>1. /\ queue' \in Seq(Kinds) /\ Head(queue) \in Kinds /\ Len(queue) \in Nat \ {0}
      /\ Len(queue') = Len(queue) - 1 /\ Head(queue) = queue[1]
      /\ DOMAIN queue = 1 .. Len(queue) /\ DOMAIN queue' = 1 .. Len(queue')
      /\ \A i \in 1 .. Len(queue') : queue'[i] = queue[i + 1]
    OBVIOUS
<1>2. ASSUME NEW i \in DOMAIN queue, i # 1
      PROVE  i - 1 \in DOMAIN queue' /\ queue'[i - 1] = queue[i]
    BY <1>1, <1>2
<1>3. ASSUME NEW x, Queued(x) PROVE Queued(x)' \/ x = Head(queue)
    <2>1. PICK i \in DOMAIN queue : queue[i] = x
        BY <1>3 DEF Queued
    <2> QED
        BY <1>1, <1>2, <2>1 DEF Queued
<1>4. ASSUME NEW x, Queued(x)' PROVE Queued(x)
    <2>1. PICK i \in DOMAIN queue' : queue'[i] = x
        BY <1>4 DEF Queued
    <2>2. i + 1 \in DOMAIN queue /\ queue[i + 1] = x
        BY <1>1, <2>1
    <2> QED
        BY <2>2 DEF Queued
<1>5. ASSUME \A i \in DOMAIN queue : queue[i] = "uninstall" =>
                  \E j \in DOMAIN queue : i < j /\ queue[j] = "install"
      PROVE  /\ \A i \in DOMAIN queue' : queue'[i] = "uninstall" =>
                     \E j \in DOMAIN queue' : i < j /\ queue'[j] = "install"
             /\ Head(queue) = "uninstall" => Queued("install")'
    <2>1. ASSUME NEW i \in DOMAIN queue', queue'[i] = "uninstall"
          PROVE  \E j \in DOMAIN queue' : i < j /\ queue'[j] = "install"
        <3>1. i + 1 \in DOMAIN queue /\ queue[i + 1] = "uninstall" /\ i \in Nat \ {0}
            BY <1>1, <2>1
        <3>2. PICK j \in DOMAIN queue : i + 1 < j /\ queue[j] = "install"
            BY <1>5, <3>1
        <3>3. j - 1 \in DOMAIN queue' /\ queue'[j - 1] = "install" /\ i < j - 1
            BY <1>1, <1>2, <3>1, <3>2
        <3> QED
            BY <3>3
    <2>2. ASSUME Head(queue) = "uninstall" PROVE Queued("install")'
        <3>1. 1 \in DOMAIN queue /\ queue[1] = "uninstall"
            BY <1>1, <2>2
        <3>2. PICK j \in DOMAIN queue : 1 < j /\ queue[j] = "install"
            BY <1>5, <3>1
        <3>3. j - 1 \in DOMAIN queue' /\ queue'[j - 1] = "install"
            BY <1>1, <1>2, <3>2
        <3> QED
            BY <3>3 DEF Queued
    <2> QED
        BY <2>1, <2>2
<1> QED
    BY <1>1, <1>3, <1>4, <1>5

\* What a cancelled job leaves of the queue.
LEMMA DropQueues ==
    ASSUME queue \in Seq(Kinds), NEW i \in DOMAIN queue
    PROVE  SubSeq(queue, 1, i - 1) \o SubSeq(queue, i + 1, Len(queue)) \in Seq(Kinds)
<1>1. i \in 1 .. Len(queue) /\ Len(queue) \in Nat
    OBVIOUS
<1>2. SubSeq(queue, 1, i - 1) \in Seq(Kinds)
    BY <1>1, SubSeqProperties
<1>3. SubSeq(queue, i + 1, Len(queue)) \in Seq(Kinds)
    BY <1>1, SubSeqProperties
<1> QED
    BY <1>2, <1>3, ConcatProperties

-----------------------------------------------------------------------------
(* Beginnings.                                                             *)

LEMMA EventType ==
    ASSUME events \in 0 .. MaxEvents, NEW e, Event(e)
    PROVE  events' \in 0 .. MaxEvents
    BY IndexAssumption DEF Event

LEMMA InitInv == Init => IInv
<1> SUFFICES ASSUME Init PROVE IInv
    OBVIOUS
<1>1. IndexTypeOK
    <2>1. /\ lists \in BOOLEAN /\ updateErr \in BOOLEAN /\ parsed \in BOOLEAN /\ gone = {}
          /\ once = "fresh" /\ closing = "open" /\ events = 0
          /\ stage = [x \in Requesters |-> "idle"]
        BY DEF Init, IndexInit
    <2>2. stage \in [Requesters -> Stages]
        BY <2>1 DEF Stages
    <2> QED
        BY <2>1, <2>2, IndexAssumption DEF IndexTypeOK
<1>2. \/ row = Absent /\ st = [ver |-> 0, failed |-> FALSE]
      \/ row = [pin |-> FALSE, ver |-> 1] /\ st = [ver |-> 1, failed |-> FALSE]
    BY DEF Init
<1>3. dpkg = [ver |-> 0, held |-> FALSE] \/ dpkg = [ver |-> 1, held |-> FALSE]
    BY DEF Init
<1>4. row \in Row /\ tool \in Row
    <2>1. tool \in Row /\ Absent \in Row
        BY DEF Init, Row
    <2>2. CASE row = [pin |-> FALSE, ver |-> 1]
        BY <2>1, <2>2, EntryAssumption DEF Row, Versions
    <2> QED
        BY <1>2, <2>1, <2>2
<1>5. st \in [ver : 0 .. Newest, failed : BOOLEAN]
    <2>1. CASE st = [ver |-> 0, failed |-> FALSE]
        BY <2>1, EntryAssumption
    <2>2. CASE st = [ver |-> 1, failed |-> FALSE]
        BY <2>2, EntryAssumption
    <2> QED
        BY <1>2, <2>1, <2>2
<1>6. dpkg \in [ver : 0 .. Newest, held : BOOLEAN] /\ dpkg.ver \in {0, 1}
    <2>1. CASE dpkg = [ver |-> 0, held |-> FALSE]
        BY <2>1, EntryAssumption
    <2>2. CASE dpkg = [ver |-> 1, held |-> FALSE]
        BY <2>2, EntryAssumption
    <2> QED
        BY <1>3, <2>1, <2>2
<1>7. EntryTypeOK
    <2>1. dirty \in BOOLEAN /\ unseen \in BOOLEAN
        BY Zenon DEF Init
    <2>2. /\ cand = 1 /\ seen = NotLoaded /\ queue = <<>> /\ pc = "idle" /\ job = "none"
          /\ found = 0 /\ tries = 0 /\ good = TRUE /\ wanted = FALSE
        BY DEF Init
    <2>3. good \in BOOLEAN /\ wanted \in BOOLEAN
        BY <2>2
    <2>4. cand \in Versions /\ found \in 0 .. Newest /\ tries \in 0 .. LockTries /\ seen \in 0 .. NotLoaded
        BY <2>2, EntryAssumption DEF Versions, NotLoaded
    <2>5. queue \in Seq(Kinds) /\ pc \in Pcs /\ job \in Kinds \cup {"none"}
        BY <2>2 DEF Pcs
    <2> QED
        BY <1>4, <1>5, <1>6, <2>1, <2>3, <2>4, <2>5 DEF EntryTypeOK
<1>8. ~Covered /\ (\A i \in DOMAIN queue : queue[i] # "uninstall")
    BY DEF Init, Covered, Queued
<1>9. Healed /\ Told
    <2>1. row # Absent /\ dpkg.ver = 0 => dirty /\ unseen
        BY Zenon DEF Init
    <2>2. CASE row = [pin |-> FALSE, ver |-> 1] /\ dpkg = [ver |-> 1, held |-> FALSE]
        <3>1. st = [ver |-> 1, failed |-> FALSE]
            BY <1>2, <2>2 DEF Absent
        <3> QED
            BY <2>2, <3>1 DEF Healed, Told, Settled, Init
    <2>3. CASE dpkg = [ver |-> 0, held |-> FALSE]
        BY <2>1, <2>3 DEF Healed, Told
    <2>4. CASE row = Absent
        BY <2>4 DEF Healed, Told
    <2> QED
        BY <1>2, <1>3, <2>2, <2>3, <2>4
<1>10. Replaced
    BY <1>8 DEF Replaced
<1> QED
    BY <1>1, <1>6, <1>7, <1>9, <1>10
       DEF Init, IndexInit, IInv, TypeOK, Follows, Working, Fresh, Upward, Listed, Closed, Requesters
-----------------------------------------------------------------------------
(* Callers and the outside.                                                *)

\* The parts that speak of the worker alone.
Inner == Fresh /\ Upward /\ Listed /\ Closed

LEMMA InnerStands ==
    ASSUME Inner, UNCHANGED <<pc, job, found, tries, good, dpkg, cand, seen, stage, closing>>
    PROVE  Inner'
    BY DEF Inner, Fresh, Upward, Listed, Closed

\* With a job queued that will look, nothing is owed.
LEMMA CoveredOwesNothing ==
    ASSUME Covered' \/ row' = Absent PROVE Follows' /\ Healed' /\ Told'
    BY DEF Follows, Undisturbed, Healed, Told

LEMMA EditedKeeps ==
    ASSUME IInv, NEW r \in Row, NEW k \in Kinds, Edited(r, k), events' \in 0 .. MaxEvents,
           \/ k = "install"
           \/ k = "uninstall" /\ r = Absent
           \/ k = "update" /\ r = row
    PROVE  IInv'
<1>1. /\ row' = r /\ queue' = Append(queue, k)
      /\ UNCHANGED <<indexVars, st, dpkg, cand, seen, pc, job, tool, found, tries, good, wanted,
                     dirty, unseen>>
    BY DEF Edited, Enqueue, jobVars
<1>2. /\ queue' \in Seq(Kinds)
      /\ \A x : Queued(x)' <=> Queued(x) \/ x = k
    BY <1>1, AppendQueues DEF IInv, TypeOK, EntryTypeOK
<1>3. TypeOK'
    BY <1>1, <1>2 DEF IInv, TypeOK, EntryTypeOK, IndexTypeOK, indexVars
<1>4. Inner'
    BY <1>1, InnerStands DEF IInv, Inner, indexVars
<1>5. CASE k = "install"
    <2>1. Covered'
        BY <1>2, <1>5 DEF Covered
    <2>2. Replaced'
        BY <1>1, <1>5, AppendQueues DEF IInv, TypeOK, EntryTypeOK, Replaced
    <2> QED
        BY <1>3, <1>4, <2>1, <2>2, CoveredOwesNothing DEF IInv, Inner
<1>6. CASE k = "uninstall" /\ r = Absent
    BY <1>1, <1>3, <1>4, <1>6, CoveredOwesNothing DEF IInv, Inner, Replaced
<1>7. CASE k = "update" /\ r = row
    <2>1. Covered' <=> Covered
        BY <1>2, <1>7 DEF Covered
    <2>2. Replaced'
        BY <1>1, <1>7, AppendQueues DEF IInv, TypeOK, EntryTypeOK, Replaced
    <2>3. Follows' /\ Healed' /\ Told'
        BY <1>1, <1>7, <2>1 DEF IInv, Follows, Undisturbed, Placed, Healed, Told, Settled
    <2> QED
        BY <1>3, <1>4, <2>2, <2>3 DEF IInv, Inner
<1> QED
    BY <1>5, <1>6, <1>7

LEMMA CallersKeep ==
    ASSUME IInv,
           \/ Add \/ Remove \/ PatchPin \/ Install \/ Update
           \/ \E v \in Versions : PatchVersion(v)
    PROVE  IInv'
<1>1. /\ row \in Row /\ cand \in Versions /\ events \in 0 .. MaxEvents
    BY DEF IInv, TypeOK, EntryTypeOK, IndexTypeOK
<1>2. CASE Add
    BY <1>1, <1>2, EditedKeeps, EventType DEF Add, Row, Kinds
<1>3. CASE Remove
    BY <1>1, <1>3, EditedKeeps, EventType DEF Remove, Row, Kinds
<1>4. CASE PatchPin
    <2>1. [row EXCEPT !.pin = ~@] \in Row
        BY <1>1, <1>4 DEF PatchPin, Row
    <2> QED
        BY <1>1, <1>4, <2>1, EditedKeeps, EventType DEF PatchPin, Kinds
<1>5. CASE Install
    BY <1>1, <1>5, EditedKeeps, EventType DEF Install, Kinds
<1>6. CASE Update
    BY <1>1, <1>6, EditedKeeps, EventType DEF Update, Kinds
<1>7. ASSUME NEW v \in Versions, PatchVersion(v) PROVE IInv'
    <2>1. [row EXCEPT !.ver = v] \in Row
        BY <1>1, <1>7 DEF PatchVersion, Row
    <2> QED
        BY <1>1, <1>7, <2>1, EditedKeeps, EventType DEF PatchVersion, Kinds
<1> QED
    BY <1>2, <1>3, <1>4, <1>5, <1>6, <1>7

\* A Reconcile has a job queued that will look.
LEMMA ReconcileKeeps == ASSUME IInv, Reconcile PROVE IInv'
<1>1. /\ queue' = (IF Queued("reconcile") THEN queue ELSE Append(queue, "reconcile"))
      /\ dirty' = FALSE /\ (unseen' <=> unseen /\ Queued("uninstall")) /\ unseen' \in BOOLEAN
      /\ UNCHANGED <<lists, once, updateErr, parsed, stage, gone, closing, row, st, dpkg, cand, seen,
                     pc, job, tool, found, tries, good, wanted>>
      /\ Event("reconcile")
    BY Zenon DEF Reconcile, indexVars, jobVars
<1>2. queue \in Seq(Kinds) /\ "reconcile" \in Kinds /\ events' \in 0 .. MaxEvents
    BY <1>1, EventType DEF IInv, TypeOK, EntryTypeOK, IndexTypeOK, Kinds
<1>3. queue' \in Seq(Kinds) /\ Queued("reconcile")' /\ (Queued("uninstall")' => Queued("uninstall"))
    <2>1. CASE Queued("reconcile")
        BY <1>1, <1>2, <2>1 DEF Queued
    <2>2. CASE ~Queued("reconcile")
        BY <1>1, <1>2, <2>2, AppendQueues
    <2> QED
        BY <2>1, <2>2
<1>4. Inner'
    BY <1>1, InnerStands DEF IInv, Inner
<1>5. Follows' /\ Healed' /\ Told'
    BY <1>3, CoveredOwesNothing DEF Covered
<1>6. Replaced'
    <2>1. CASE Queued("uninstall") /\ ~unseen
        <3>1. CASE Queued("reconcile")
            BY <1>1, <2>1, <3>1 DEF IInv, Replaced
        <3>2. CASE ~Queued("reconcile")
            BY <1>1, <1>2, <2>1, <3>2, AppendQueues DEF IInv, Replaced
        <3> QED
            BY <3>1, <3>2
    <2>2. CASE Queued("uninstall") /\ unseen
        BY <1>1, <2>2 DEF Replaced
    <2>3. CASE ~Queued("uninstall")
        BY <1>3, <2>3 DEF Replaced, Queued
    <2> QED
        BY <2>1, <2>2, <2>3
<1>7. TypeOK'
    <2>1. IndexTypeOK'
        BY <1>1, <1>2 DEF IInv, TypeOK, IndexTypeOK
    <2>2. /\ row' \in Row /\ st' \in [ver : 0 .. Newest, failed : BOOLEAN]
          /\ dpkg' \in [ver : 0 .. Newest, held : BOOLEAN] /\ cand' \in Versions
          /\ pc' \in Pcs /\ job' \in Kinds \cup {"none"} /\ tool' \in Row
          /\ found' \in 0 .. Newest /\ tries' \in 0 .. LockTries /\ seen' \in 0 .. NotLoaded
          /\ good' \in BOOLEAN /\ wanted' \in BOOLEAN /\ dirty' \in BOOLEAN
        BY <1>1 DEF IInv, TypeOK, EntryTypeOK
    <2>3. queue' \in Seq(Kinds) /\ unseen' \in BOOLEAN
        BY <1>1, <1>3, Zenon
    <2> QED BY <2>1, <2>2, <2>3, Zenon DEF TypeOK, EntryTypeOK
<1> QED
    BY <1>4, <1>5, <1>6, <1>7 DEF IInv, Inner

LEMMA CancelKeeps == ASSUME IInv, Cancel PROVE IInv'
<1>1. /\ gone' = gone \cup {"worker"} /\ Event("cancel")
      /\ UNCHANGED <<lists, once, updateErr, parsed, stage, closing, entryVars>>
    BY DEF Cancel
<1>2. TypeOK'
    BY <1>1, EventType DEF IInv, TypeOK, EntryTypeOK, IndexTypeOK, entryVars, Requesters
<1> QED
    BY <1>1, <1>2 DEF IInv, entryVars, Follows, Undisturbed, Placed, Healed, Told, Settled, Covered,
                      Queued, Replaced, Fresh, Upward, Listed, Closed

\* What moves the package or drops a job sets both histories.
LEMMA DisturbedOwesNothing ==
    ASSUME dirty' = TRUE, unseen' = TRUE PROVE Follows' /\ Healed' /\ Told' /\ Replaced'
    BY DEF Follows, Undisturbed, Healed, Told, Replaced

LEMMA CancelQueuedKeeps == ASSUME IInv, CancelQueued PROVE IInv'
<1>1. /\ dirty' = TRUE /\ unseen' = TRUE
      /\ UNCHANGED <<indexVars, row, st, dpkg, cand, seen, jobVars>>
      /\ Event("cancel") \/ UNCHANGED events
    BY DEF CancelQueued
<1>2. queue' \in Seq(Kinds)
    BY DropQueues DEF CancelQueued, IInv, TypeOK, EntryTypeOK
<1>3. TypeOK'
    BY <1>1, <1>2, EventType DEF IInv, TypeOK, EntryTypeOK, IndexTypeOK, indexVars, jobVars
<1>4. Inner'
    BY <1>1, InnerStands DEF IInv, Inner, indexVars, jobVars
<1> QED
    BY <1>1, <1>3, <1>4, DisturbedOwesNothing DEF IInv, Inner

\* A package that moves in the engine's absence is gone, at the candidate, or
\* where it was.
LEMMA DisturbedKeeps ==
    ASSUME IInv, NEW d \in [ver : 0 .. Newest, held : BOOLEAN], Disturbed(d), events' \in 0 .. MaxEvents,
           d.ver \in {0, dpkg.ver} \/ (dpkg.ver # 0 /\ d.ver = cand)
    PROVE  IInv'
<1>1. /\ dpkg' = d /\ dirty' = TRUE /\ unseen' = TRUE
      /\ UNCHANGED <<indexVars, row, st, cand, seen, queue, jobVars>>
    BY DEF Disturbed
<1>2. TypeOK'
    BY <1>1 DEF IInv, TypeOK, EntryTypeOK, IndexTypeOK, indexVars, jobVars
<1>3. cand \in Versions /\ dpkg.ver \in 0 .. Newest /\ found \in 0 .. Newest
    BY DEF IInv, TypeOK, EntryTypeOK
<1>4. Upward'
    BY <1>1, <1>3, EntryAssumption DEF IInv, Upward, Versions, jobVars
<1>5. Listed'
    BY <1>1, <1>3, EntryAssumption DEF IInv, Upward, Listed, Versions, jobVars, NotLoaded
<1>6. Fresh' /\ Closed'
    BY <1>1 DEF IInv, Fresh, Closed, jobVars, indexVars
<1> QED
    BY <1>1, <1>2, <1>4, <1>5, <1>6, DisturbedOwesNothing DEF IInv

LEMMA RestartKeeps == ASSUME IInv, NEW fresh \in BOOLEAN, Restart(fresh) PROVE IInv'
<1>1. /\ once' = "fresh" /\ updateErr' = FALSE /\ parsed' = FALSE
      /\ stage' = [x \in Requesters |-> "idle"]
      /\ gone' = {} /\ closing' = "open"
      /\ queue' = <<>> /\ pc' = "idle" /\ job' = "none"
      /\ tool' = Absent /\ found' = 0 /\ tries' = 0 /\ good' = TRUE /\ wanted' = FALSE
      /\ dirty' = TRUE /\ unseen' = TRUE /\ seen' = NotLoaded
      /\ UNCHANGED <<row, st, cand>>
      /\ Event("restart")
    BY DEF Restart
<1>2. lists' \in BOOLEAN
    BY Zenon DEF Restart
<1>3. dpkg' \in [ver : 0 .. Newest, held : BOOLEAN] /\ dpkg'.ver \in {0, dpkg.ver}
    <2>1. CASE fresh
        <3>1. dpkg' = [ver |-> 0, held |-> FALSE]
            BY <2>1 DEF Restart
        <3> QED
            BY <3>1, EntryAssumption
    <2>2. CASE ~fresh
        BY <2>2 DEF Restart, IInv, TypeOK, EntryTypeOK
    <2> QED
        BY <2>1, <2>2
<1>4. IndexTypeOK'
    <2>1. stage' \in [Requesters -> Stages]
        BY <1>1 DEF Stages
    <2> QED
        BY <1>1, <1>2, <2>1, EventType DEF IInv, TypeOK, IndexTypeOK
<1>5. EntryTypeOK'
    <2>1. tool' \in Row /\ row' \in Row /\ st' \in [ver : 0 .. Newest, failed : BOOLEAN] /\ cand' \in Versions
        BY <1>1 DEF IInv, TypeOK, EntryTypeOK, Row
    <2>2. /\ good' \in BOOLEAN /\ wanted' \in BOOLEAN /\ dirty' \in BOOLEAN /\ unseen' \in BOOLEAN
        BY <1>1
    <2>3. found' \in 0 .. Newest /\ tries' \in 0 .. LockTries /\ seen' \in 0 .. NotLoaded
        BY <1>1, EntryAssumption DEF NotLoaded
    <2>4. queue' \in Seq(Kinds) /\ pc' \in Pcs /\ job' \in Kinds \cup {"none"}
        BY <1>1 DEF Pcs
    <2> QED
        BY <1>3, <2>1, <2>2, <2>3, <2>4 DEF EntryTypeOK
<1>6. Fresh' /\ Listed' /\ Closed'
    BY <1>1 DEF Fresh, Listed, Closed, Requesters
<1>7. Upward'
    <2>1. dpkg.ver <= cand /\ cand \in Nat
        BY EntryAssumption DEF IInv, TypeOK, EntryTypeOK, Upward, Versions
    <2> QED
        BY <1>1, <1>3, <2>1 DEF Upward
<1> QED
    BY <1>1, <1>4, <1>5, <1>6, <1>7, DisturbedOwesNothing DEF IInv, TypeOK

LEMMA OutsideKeeps == ASSUME IInv, Outside PROVE IInv'
<1>1. /\ cand \in Versions /\ events \in 0 .. MaxEvents /\ seen \in 0 .. NotLoaded
      /\ dpkg \in [ver : 0 .. Newest, held : BOOLEAN]
    BY DEF IInv, TypeOK, EntryTypeOK, IndexTypeOK
<1>2. CASE NewCandidate
    <2>1. /\ cand' = cand + 1 /\ cand < Newest /\ events' \in 0 .. MaxEvents
          /\ UNCHANGED <<indexVars, row, st, dpkg, seen, queue, jobVars, dirty, unseen>>
        BY <1>1, <1>2, EventType DEF NewCandidate
    <2>2. TypeOK'
        BY <2>1, <1>1, EntryAssumption
        DEF IInv, TypeOK, EntryTypeOK, IndexTypeOK, indexVars, jobVars, Versions
    <2>3. Upward'
        BY <2>1, <1>1, EntryAssumption DEF IInv, TypeOK, EntryTypeOK, Upward, Versions, jobVars
    <2> QED
        BY <2>1, <2>2, <2>3
        DEF IInv, jobVars, indexVars, Follows, Undisturbed, Placed, Healed, Told, Settled,
                                Covered, Queued, Replaced, Fresh, Listed, Closed
<1>3. CASE ShellMarks
    <2>1. [dpkg EXCEPT !.held = ~@] \in [ver : 0 .. Newest, held : BOOLEAN]
        BY <1>1
    <2>2. [dpkg EXCEPT !.held = ~@].ver = dpkg.ver
        BY <1>1
    <2> QED
        BY <1>1, <1>3, <2>1, <2>2, DisturbedKeeps, EventType DEF ShellMarks
<1>4. CASE List
    <2>1. /\ seen' = dpkg.ver /\ events' \in 0 .. MaxEvents
          /\ UNCHANGED <<indexVars, row, st, dpkg, cand, queue, jobVars, dirty, unseen>>
        BY <1>1, <1>4, EventType DEF List, Listing
    <2>2. TypeOK'
        BY <2>1, <1>1, EntryAssumption
        DEF IInv, TypeOK, EntryTypeOK, IndexTypeOK, indexVars, jobVars, NotLoaded
    <2> QED
        BY <2>1, <2>2
        DEF IInv, jobVars, indexVars, Follows, Undisturbed, Placed, Healed, Told, Settled,
                          Covered, Queued, Replaced, Fresh, Listed, Closed, Upward
<1>5. ASSUME NEW v \in 0 .. Newest, ShellMoves(v) PROVE IInv'
    <2>1. /\ [dpkg EXCEPT !.ver = v] \in [ver : 0 .. Newest, held : BOOLEAN]
          /\ [dpkg EXCEPT !.ver = v].ver = v
        BY <1>1
    <2> QED
        BY <1>1, <1>5, <2>1, DisturbedKeeps, EventType DEF ShellMoves
<1> QED
    BY <1>2, <1>3, <1>4, <1>5, RestartKeeps DEF Outside

-----------------------------------------------------------------------------
(* The index.                                                              *)

\* A consultation ends or goes on; no step of it begins one.
LEMMA IndexStepKeeps ==
    ASSUME IndexTypeOK, NEW x \in Requesters, IndexStep(x)
    PROVE  /\ IndexTypeOK' /\ UNCHANGED <<gone, closing>>
           /\ stage[x] # "idle"
           /\ \A y \in Requesters \ {x} : stage'[y] = stage[y]
<1>1. /\ stage[x] \in {"lists", "updating", "parsing"}
      /\ \E s \in Stages : stage' = [stage EXCEPT ![x] = s]
      /\ once' \in {"fresh", "running", "done"}
      /\ UNCHANGED <<gone, closing>>
    BY DEF IndexStep, LookAtLists, UpdateSucceeds, UpdateFails, ParseSucceeds, ParseFails, At,
       Stages,
           Beyond, Parsed, IndexTypeOK
<1>2. lists' \in BOOLEAN /\ updateErr' \in BOOLEAN /\ parsed' \in BOOLEAN
    BY DEF IndexStep, LookAtLists, UpdateSucceeds, UpdateFails, ParseSucceeds, ParseFails,
       IndexTypeOK
<1>3. events' \in 0 .. MaxEvents
    BY EventType
    DEF IndexStep, LookAtLists, UpdateSucceeds, UpdateFails, ParseSucceeds, ParseFails, IndexTypeOK
<1> QED
    BY <1>1, <1>2, <1>3 DEF IndexTypeOK

LEMMA IndexKeeps == ASSUME IInv, Index, UNCHANGED entryVars PROVE IInv'
<1>1. IndexTypeOK /\ events \in 0 .. MaxEvents /\ stage \in [Requesters -> Stages]
    BY DEF IInv, TypeOK, IndexTypeOK
<1>2. IndexTypeOK' /\ Closed'
    <2>1. ASSUME NEW x \in Requesters, IndexStep(x) PROVE IndexTypeOK' /\ Closed'
        <3>1. x = "refresh" => closing \notin {"queue", "closed"}
            BY <1>1, <2>1, IndexStepKeeps DEF IInv, Closed
        <3>2. stage'["refresh"] = stage["refresh"] \/ x = "refresh"
            BY <1>1, <2>1, IndexStepKeeps DEF Requesters
        <3> QED
            BY <1>1, <2>1, <3>1, <3>2, IndexStepKeeps DEF IInv, Closed, entryVars
    <2>2. CASE Ask
        <3>1. /\ stage' = [stage EXCEPT !["request"] = "lists"]
              /\ UNCHANGED <<lists, once, updateErr, parsed, gone, closing>>
              /\ events' \in 0 .. MaxEvents
            BY <1>1, <2>2, EventType DEF Ask, At
        <3>2. stage' \in [Requesters -> Stages] /\ stage'["refresh"] = stage["refresh"]
            BY <1>1, <3>1 DEF Requesters, Stages
        <3>3. IndexTypeOK'
            BY <1>1, <3>1, <3>2 DEF IndexTypeOK
        <3> QED BY <3>1, <3>2, <3>3 DEF IInv, Closed, entryVars
    <2>6. CASE Answer
        BY <1>1, <2>6, EventType
        DEF Answer, At, IInv, IndexTypeOK, Closed, entryVars, Requesters, Stages
    <2>7. CASE HangUp
        BY <1>1, <2>7, EventType DEF HangUp, At, IInv, IndexTypeOK, Closed, entryVars, Requesters
    <2>3. CASE Search
        BY <1>1, <2>3, EventType
        DEF Search, At, IInv, IndexTypeOK, Closed, entryVars, Requesters, Stages
    <2>4. CASE CloseIndex \/ ShellUpdate
        BY <1>1, <2>4, EventType
        DEF CloseIndex, ShellUpdate, IInv, IndexTypeOK, Closed, entryVars, Requesters
    <2>5. CASE IndexClosed
        BY <1>1, <2>5 DEF IndexClosed, IInv, IndexTypeOK, Closed, entryVars, Requesters
    <2> QED
        BY <2>1, <2>2, <2>3, <2>4, <2>5, <2>6, <2>7 DEF Index, Requests
<1> QED
    BY <1>2
    DEF IInv, TypeOK, EntryTypeOK, entryVars, Follows, Undisturbed, Placed, Healed, Told, Settled,
                Covered, Queued, Replaced, Fresh, Upward, Listed

-----------------------------------------------------------------------------
(* The worker: a job begins and ends.                                      *)

\* Converged is Settled, the stale record apart.
LEMMA ConvergedIsSettled == Converged => Settled
    BY DEF Converged, Probed, Settled

LEMMA TakeKeeps == ASSUME IInv, Take PROVE IInv'
<1> DEFINE k        == Head(queue)
           drops    == k = "uninstall" \/ (k = "reconcile" /\ row = Absent /\ st.ver # 0)
           installs == row # Absent /\ (k = "install" \/ (k = "reconcile" /\ ~Converged))
           looks    == row # Absent /\ k = "update" /\ ~row.pin
<1>1. /\ pc = "idle" /\ queue # <<>> /\ closing \in {"open", "index"} /\ queue' = Tail(queue)
      /\ UNCHANGED <<lists, once, updateErr, parsed, gone, closing,
                     row, dpkg, cand, seen, found, tries, good, wanted, unseen>>
    BY DEF Take
<1>2. \/ st' = (IF drops THEN [ver |-> 0, failed |-> FALSE] ELSE st) /\ UNCHANGED <<dirty, events>>
      \/ drops /\ Event("store") /\ dirty' = TRUE /\ UNCHANGED st
    BY DEF Take
<1>3. IF installs \/ looks
      THEN /\ pc' = (IF installs THEN "deciding" ELSE "looking")
           /\ job' = k
           /\ tool' = row
           /\ stage' = IF looks THEN [stage EXCEPT !["worker"] = "lists"] ELSE stage
      ELSE UNCHANGED <<pc, job, tool, stage>>
    BY DEF Take
<1>4. /\ queue \in Seq(Kinds) /\ row \in Row /\ stage \in [Requesters -> Stages]
      /\ st \in [ver : 0 .. Newest, failed : BOOLEAN] /\ events \in 0 .. MaxEvents
      /\ dirty \in BOOLEAN
    BY DEF IInv, TypeOK, EntryTypeOK, IndexTypeOK
<1>5. /\ queue' \in Seq(Kinds) /\ k \in Kinds
      /\ Covered => Covered' \/ k \in {"install", "reconcile"}
      /\ Covered' => Covered
    BY <1>1, <1>4, TakeQueues DEF Covered
<1>6. Replaced' /\ (row # Absent /\ ~unseen /\ k = "uninstall" => Covered')
    <2>1. CASE row # Absent /\ ~unseen
        BY <1>1, <1>4, <2>1, TakeQueues DEF IInv, Replaced, Covered
    <2>2. CASE ~(row # Absent /\ ~unseen)
        BY <1>1, <2>2 DEF Replaced
    <2> QED
        BY <2>1, <2>2
<1>7. drops \/ st' = st
    BY <1>2
<1>8. st' \in [ver : 0 .. Newest, failed : BOOLEAN] /\ (st'.ver = 0 \/ st' = st)
    <2>1. CASE st' = [ver |-> 0, failed |-> FALSE]
        BY <2>1, EntryAssumption
    <2> QED
        BY <1>2, <1>4, <2>1
<1>9. /\ pc' \in {"idle", "deciding", "looking"}
      /\ pc' # "deciding" => ~installs
      /\ stage' \in [Requesters -> Stages] /\ stage'["refresh"] = stage["refresh"]
      /\ pc' = "idle" <=> job' = "none"
      /\ job' \in Kinds \cup {"none"} /\ tool' \in Row
    BY <1>1, <1>3, <1>4, <1>5 DEF IInv, TypeOK, EntryTypeOK, Fresh, Requesters, Stages, Kinds
<1>10. events' \in 0 .. MaxEvents /\ dirty' \in BOOLEAN
    BY <1>2, <1>4, EventType
<1> HIDE DEF k, drops, installs, looks
<1>11. TypeOK'
    BY <1>1, <1>5, <1>8, <1>9, <1>10 DEF IInv, TypeOK, EntryTypeOK, IndexTypeOK, Pcs
<1>12. row # Absent /\ Covered /\ ~Covered' /\ pc' # "deciding" => Settled /\ st' = st
    BY <1>5, <1>7, <1>9, ConvergedIsSettled DEF installs, drops, k
<1>13. ~dirty' => ~dirty
    BY <1>2, <1>4
<1>14. Healed'
    BY <1>1, <1>8, <1>9, <1>12, <1>13 DEF IInv, Healed, Settled
<1>15. Told'
    BY <1>1, <1>6, <1>7, <1>9, <1>12 DEF IInv, Told, Settled, drops, k
<1>16. Follows' /\ Fresh' /\ Upward' /\ Listed' /\ Closed'
    BY <1>1, <1>9 DEF IInv, Follows, Working, Fresh, Upward, Listed, Closed
<1> QED
    BY <1>6, <1>11, <1>14, <1>15, <1>16 DEF IInv

\* A job that ends leaves the entry settled unless another is queued, and the
\* record or a history says of one that failed.
LEMMA EndKeeps ==
    ASSUME IInv, NEW ok \in BOOLEAN, Finish(ok),
           UNCHANGED <<lists, once, updateErr, parsed, closing, row, cand, seen, queue>>,
           stage' \in [Requesters -> Stages], stage'["refresh"] = stage["refresh"],
           events' \in 0 .. MaxEvents,
           st' \in [ver : 0 .. Newest, failed : BOOLEAN],
           dpkg' \in [ver : 0 .. Newest, held : BOOLEAN], dpkg'.ver = dpkg.ver,
           unseen' \in {unseen, TRUE},
           row # Absent /\ ~Covered /\ ~dirty /\ ok => Settled',
           row # Absent /\ ~Covered /\ ~unseen' => Settled' \/ st'.failed
    PROVE  IInv'
<1>1. /\ pc' = "idle" /\ job' = "none"
      /\ tool' = Absent /\ found' = 0 /\ tries' = 0 /\ good' = TRUE /\ wanted' = FALSE
      /\ gone' \subseteq gone
    BY DEF Finish
<1>2. dirty' \in BOOLEAN /\ (~dirty' => ~dirty /\ ok)
    BY Zenon DEF Finish
<1>3. /\ unseen' \in BOOLEAN
      /\ ~unseen' => ~unseen
    BY DEF IInv, TypeOK, EntryTypeOK
<1>4. Covered' <=> Covered
    BY DEF Covered, Queued
<1>5. EntryTypeOK'
    <2>1. tool' \in Row /\ good' \in BOOLEAN /\ wanted' \in BOOLEAN /\ pc' \in Pcs /\ job' \in Kinds \cup {"none"}
        BY <1>1 DEF Row, Pcs
    <2>2. found' \in 0 .. Newest /\ tries' \in 0 .. LockTries
        BY <1>1, EntryAssumption
    <2> QED
        BY <1>2, <1>3, <2>1, <2>2 DEF IInv, TypeOK, EntryTypeOK
<1>6. IndexTypeOK'
    BY <1>1 DEF IInv, TypeOK, IndexTypeOK
<1>7. Follows' /\ Fresh' /\ Listed' /\ Closed'
    BY <1>1 DEF IInv, Follows, Working, Fresh, Listed, Closed
<1>8. Upward'
    BY <1>1, EntryAssumption DEF IInv, TypeOK, EntryTypeOK, Upward, Versions
<1>9. Healed' /\ Told'
    BY <1>1, <1>2, <1>4 DEF Healed, Told
<1>10. Replaced'
    BY <1>3 DEF IInv, Replaced
<1> QED
    BY <1>5, <1>6, <1>7, <1>8, <1>9, <1>10 DEF IInv, TypeOK

LEMMA BumpSkipsKeeps == ASSUME IInv, BumpSkips PROVE IInv'
<1>1. /\ pc = "looking" /\ At("worker", "idle") /\ Finish(TRUE)
      /\ UNCHANGED <<lists, once, updateErr, parsed, closing, events, row, st, dpkg, cand, seen,
                     queue, unseen>>
    BY DEF BumpSkips
<1>2. /\ stage' \in [Requesters -> Stages] /\ stage'["refresh"] = stage["refresh"]
      /\ st \in [ver : 0 .. Newest, failed : BOOLEAN] /\ dpkg \in [ver : 0 .. Newest, held : BOOLEAN]
      /\ events \in 0 .. MaxEvents
    BY <1>1 DEF IInv, TypeOK, IndexTypeOK, EntryTypeOK, At, Requesters, Stages
<1>3. /\ row # Absent /\ ~Covered /\ ~dirty => Settled'
      /\ row # Absent /\ ~Covered /\ ~unseen' => Settled' \/ st'.failed
    BY <1>1 DEF IInv, Healed, Told, Settled
<1> QED
    BY <1>1, <1>2, <1>3, EndKeeps

LEMMA DecideNotKeeps == ASSUME IInv, DecideNot PROVE IInv'
<1>1. /\ unseen' = TRUE /\ Finish(FALSE)
      /\ UNCHANGED <<lists, once, updateErr, parsed, stage, closing, events, row, st, dpkg, cand, seen,
                     queue>>
    BY DEF DecideNot
<1>2. /\ stage \in [Requesters -> Stages] /\ events \in 0 .. MaxEvents
      /\ st \in [ver : 0 .. Newest, failed : BOOLEAN] /\ dpkg \in [ver : 0 .. Newest, held : BOOLEAN]
    BY DEF IInv, TypeOK, IndexTypeOK, EntryTypeOK
<1> QED
    BY <1>1, <1>2, EndKeeps

LEMMA SettleNotKeeps == ASSUME IInv, SettleNot PROVE IInv'
<1>1. /\ row = Absent /\ Finish(good)
      /\ st' = (IF good THEN [st EXCEPT !.failed = FALSE] ELSE st)
      /\ UNCHANGED <<lists, once, updateErr, parsed, stage, closing, events, row, cand, seen, queue,
                     unseen, dpkg>>
    BY DEF SettleNot, Ended
<1>2. /\ stage \in [Requesters -> Stages] /\ events \in 0 .. MaxEvents /\ good \in BOOLEAN
      /\ st \in [ver : 0 .. Newest, failed : BOOLEAN] /\ dpkg \in [ver : 0 .. Newest, held : BOOLEAN]
    BY DEF IInv, TypeOK, IndexTypeOK, EntryTypeOK
<1>3. st' \in [ver : 0 .. Newest, failed : BOOLEAN]
    BY <1>1, <1>2
<1> QED
    BY <1>1, <1>2, <1>3, EndKeeps

\* syncAptHold completes what the install, or Decide, left in place.
LEMMA MarkKeeps == ASSUME IInv, Mark PROVE IInv'
<1>1. /\ pc = "marking" /\ Finish(good)
      /\ dpkg' = (IF wanted /\ dpkg.ver = 0 THEN dpkg ELSE [dpkg EXCEPT !.held = wanted])
      /\ st' = (IF good THEN [st EXCEPT !.failed = FALSE] ELSE st)
      /\ UNCHANGED <<lists, once, updateErr, parsed, stage, closing, events, row, cand, seen, queue,
                     unseen>>
    BY DEF Mark, Ended
<1>2. /\ stage \in [Requesters -> Stages] /\ events \in 0 .. MaxEvents
      /\ good \in BOOLEAN /\ wanted \in BOOLEAN
      /\ st \in [ver : 0 .. Newest, failed : BOOLEAN] /\ dpkg \in [ver : 0 .. Newest, held : BOOLEAN]
    BY DEF IInv, TypeOK, IndexTypeOK, EntryTypeOK
<1>3. st' \in [ver : 0 .. Newest, failed : BOOLEAN] /\ st'.ver = st.ver /\ (~good => st' = st)
    BY <1>1, <1>2
<1>4. /\ dpkg' \in [ver : 0 .. Newest, held : BOOLEAN] /\ dpkg'.ver = dpkg.ver
      /\ dpkg.ver # 0 => dpkg'.held = wanted
    BY <1>1, <1>2
<1>5. Undisturbed /\ good => Settled'
    <2>1. ASSUME Undisturbed, good PROVE Placed /\ wanted = row.pin
        BY <1>1, <2>1 DEF IInv, Follows
    <2> QED
        BY <1>1, <1>3, <1>4, <2>1 DEF Placed, Settled
<1>6. /\ row # Absent /\ ~Covered /\ ~dirty /\ good => Settled'
      /\ row # Absent /\ ~Covered /\ ~unseen' => Settled' \/ st'.failed
    BY <1>1, <1>3, <1>5 DEF IInv, Told, Undisturbed
<1> QED
    BY <1>1, <1>2, <1>3, <1>4, <1>6, EndKeeps

LEMMA MarkFailsKeeps == ASSUME IInv, MarkFails PROVE IInv'
<1>1. /\ Event("fail") /\ Finish(FALSE)
      /\ \/ st' = [st EXCEPT !.failed = TRUE] /\ UNCHANGED unseen
         \/ unseen' = TRUE /\ UNCHANGED st
      /\ UNCHANGED <<lists, once, updateErr, parsed, stage, closing, row, dpkg, cand, seen, queue>>
    BY DEF MarkFails
<1>2. /\ stage \in [Requesters -> Stages] /\ events' \in 0 .. MaxEvents
      /\ st \in [ver : 0 .. Newest, failed : BOOLEAN] /\ dpkg \in [ver : 0 .. Newest, held : BOOLEAN]
    BY <1>1, EventType DEF IInv, TypeOK, IndexTypeOK, EntryTypeOK
<1>3. st' \in [ver : 0 .. Newest, failed : BOOLEAN] /\ (~unseen' => st'.failed)
    BY <1>1, <1>2
<1>4. unseen' \in {unseen, TRUE}
    BY <1>1
<1> QED
    BY <1>1, <1>2, <1>3, <1>4, EndKeeps

-----------------------------------------------------------------------------
(* The worker: the install.                                                *)

LEMMA StepTypes ==
    ASSUME TypeOK, NEW p \in Pcs, To(p),
           stage' \in [Requesters -> Stages], events' \in 0 .. MaxEvents,
           seen' \in 0 .. NotLoaded, row' \in Row,
           st' \in [ver : 0 .. Newest, failed : BOOLEAN],
           dpkg' \in [ver : 0 .. Newest, held : BOOLEAN],
           found' \in 0 .. Newest, tries' \in 0 .. LockTries,
           good' \in BOOLEAN, unseen' \in BOOLEAN
    PROVE  TypeOK'
    BY DEF TypeOK, IndexTypeOK, EntryTypeOK, To

\* What a step of the install leaves of the queue.
LEMMA StepCovers ==
    ASSUME NEW p, To(p), row' = row, ~unseen' => ~unseen
    PROVE  /\ pc' = p /\ UNCHANGED <<lists, once, updateErr, parsed, gone, closing, cand, queue, job, tool,
                                      wanted, dirty>>
           /\ Covered' <=> Covered
           /\ Undisturbed' => Undisturbed
           /\ Replaced => Replaced'
    BY DEF To, Covered, Queued, Undisturbed, Replaced

\* A step that fails: the package may have moved, to no more than the candidate.
LEMMA FailingKeeps ==
    ASSUME IInv, pc \notin {"idle", "settling", "marking"}, To("failing"),
           stage' \in [Requesters -> Stages], stage'["refresh"] = stage["refresh"],
           events' \in 0 .. MaxEvents,
           dpkg' \in [ver : 0 .. Newest, held : BOOLEAN], dpkg'.ver <= cand,
           UNCHANGED <<seen, row, st, found, tries, good, unseen>>
    PROVE  IInv'
<1>1. TypeOK'
    BY StepTypes DEF IInv, TypeOK, EntryTypeOK, Pcs
<1>2. /\ pc' = "failing" /\ UNCHANGED <<closing, cand, job>>
      /\ Replaced'
    BY StepCovers DEF IInv
<1> QED
    BY <1>1, <1>2 DEF IInv, Follows, Working, Healed, Told, Fresh, Upward, Listed, Closed

LEMMA BumpKeeps == ASSUME IInv, Bump PROVE IInv'
<1>1. /\ pc = "looking" /\ pc' = "deciding" /\ At("worker", "idle")
      /\ row' = (IF row = Absent THEN row ELSE [row EXCEPT !.ver = cand])
      /\ UNCHANGED <<lists, once, updateErr, parsed, gone, closing, events, st, dpkg, cand, seen,
                     queue, job, tool, found, tries, good, wanted, dirty, unseen>>
    BY DEF Bump
<1>2. /\ stage' \in [Requesters -> Stages] /\ stage'["refresh"] = stage["refresh"]
    BY <1>1 DEF IInv, TypeOK, IndexTypeOK, At, Requesters, Stages
<1>3. row' \in Row /\ (row' = Absent <=> row = Absent)
    <2>1. row \in Row /\ cand \in Versions /\ cand # 0
        BY EntryAssumption DEF IInv, TypeOK, EntryTypeOK, Versions
    <2>2. CASE row = Absent
        BY <1>1, <2>1, <2>2
    <2>3. CASE row # Absent
        <3>1. row \in [pin : BOOLEAN, ver : Versions] /\ row' = [row EXCEPT !.ver = cand]
            BY <1>1, <2>1, <2>3 DEF Row
        <3>2. row' \in [pin : BOOLEAN, ver : Versions] /\ row'.ver = cand
            BY <2>1, <3>1
        <3> QED
            BY <2>1, <2>3, <3>2 DEF Row, Absent
    <2> QED
        BY <2>2, <2>3
<1>4. TypeOK'
    BY <1>1, <1>2, <1>3 DEF IInv, TypeOK, IndexTypeOK, EntryTypeOK, Pcs
<1> QED
    BY <1>1, <1>2, <1>3, <1>4
       DEF IInv, Follows, Working, Healed, Told, Replaced, Fresh, Upward, Listed, Closed

LEMMA DecideKeeps == ASSUME IInv, Decide PROVE IInv'
<1>1. /\ pc = "deciding" /\ row # Absent /\ tool' = row
      /\ UNCHANGED <<lists, once, updateErr, parsed, gone, closing, events, row, st, dpkg, cand, seen,
                     queue, job, found, tries, good, wanted, dirty, unseen>>
    BY DEF Decide
<1>2. \/ pc' = "settling" /\ UNCHANGED stage /\ st.ver = row.ver /\ Probed(row)
      \/ pc' = "asking" /\ At("worker", "lists")
    BY DEF Decide
<1>3. /\ stage' \in [Requesters -> Stages] /\ stage'["refresh"] = stage["refresh"]
    BY <1>2 DEF IInv, TypeOK, IndexTypeOK, At, Requesters, Stages
<1>4. TypeOK'
    BY <1>1, <1>2, <1>3 DEF IInv, TypeOK, IndexTypeOK, EntryTypeOK, Pcs
<1>5. good /\ tries = 0
    BY <1>1 DEF IInv, Fresh
<1>6. Follows'
    BY <1>1, <1>2 DEF Follows, Working, Placed, Probed
<1> QED
    BY <1>1, <1>2, <1>3, <1>4, <1>5, <1>6
    DEF IInv, Healed, Told, Replaced, Fresh, Upward, Listed, Closed

LEMMA AskedKeeps == ASSUME IInv, Asked PROVE IInv'
<1>1. /\ pc = "asking" /\ At("worker", "idle")
      /\ To("lifting") \/ To("failing")
      /\ UNCHANGED <<events, seen, row, st, dpkg, found, tries, good, unseen>>
    BY DEF Asked
<1>2. /\ stage' \in [Requesters -> Stages] /\ stage'["refresh"] = stage["refresh"]
    BY <1>1 DEF IInv, TypeOK, IndexTypeOK, At, Requesters, Stages
<1>3. CASE To("failing")
    BY <1>1, <1>2, <1>3, FailingKeeps DEF IInv, TypeOK, IndexTypeOK, EntryTypeOK, Upward
<1>4. CASE To("lifting")
    <2>1. TypeOK'
        BY <1>1, <1>2, <1>4, StepTypes DEF IInv, TypeOK, IndexTypeOK, EntryTypeOK, Pcs
    <2>2. /\ pc' = "lifting" /\ UNCHANGED <<closing, cand, job, tool>>
          /\ Replaced' /\ (Undisturbed' => Undisturbed)
        BY <1>1, <1>4, StepCovers DEF IInv
    <2> QED
        BY <1>1, <1>2, <2>1, <2>2
        DEF IInv, Follows, Working, Healed, Told, Fresh, Upward, Listed, Closed
<1> QED
    BY <1>1, <1>3, <1>4

LEMMA LiftKeeps == ASSUME IInv, Lift PROVE IInv'
<1>1. /\ pc = "lifting" /\ found' = dpkg.ver /\ dpkg' = [dpkg EXCEPT !.held = FALSE] /\ tries' = 1
      /\ To("installing")
      /\ UNCHANGED <<stage, events, seen, row, st, good, unseen>>
    BY DEF Lift
<1>2. dpkg' \in [ver : 0 .. Newest, held : BOOLEAN] /\ dpkg'.ver = dpkg.ver /\ found' \in 0 .. Newest
    BY <1>1 DEF IInv, TypeOK, EntryTypeOK
<1>3. TypeOK'
    BY <1>1, <1>2, EntryAssumption, StepTypes DEF IInv, TypeOK, IndexTypeOK, EntryTypeOK, Pcs
<1>4. /\ pc' = "installing" /\ UNCHANGED <<closing, cand, job, tool>>
      /\ Replaced' /\ (Undisturbed' => Undisturbed)
    BY <1>1, StepCovers DEF IInv
<1> QED
    BY <1>1, <1>2, <1>3, <1>4
    DEF IInv, Follows, Working, Healed, Told, Fresh, Upward, Listed, Closed

\* What apt-get aims at is a version, and no more than the candidate if it can.
LEMMA AimType ==
    ASSUME IInv, AptCan
    PROVE  Aim \in 0 .. Newest /\ Aim <= cand
<1>1. cand \in 1 .. Newest /\ dpkg.ver \in 0 .. Newest /\ dpkg.ver <= cand /\ tool \in Row
    BY DEF IInv, TypeOK, EntryTypeOK, Upward, Versions
<1>2. tool.ver \in 0 .. Newest
    BY <1>1, EntryAssumption DEF Row, Absent, Versions
<1>3. Aim \in {tool.ver, dpkg.ver, cand}
    BY DEF Aim
<1> QED
    BY <1>1, <1>2, <1>3, EntryAssumption DEF AptCan

LEMMA AptGetSucceedsKeeps == ASSUME IInv, AptGetSucceeds PROVE IInv'
<1>1. /\ pc = "installing" /\ dpkg' = [dpkg EXCEPT !.ver = Aim] /\ AptCan
      /\ To("reading")
      /\ UNCHANGED <<stage, events, seen, row, st, found, tries, good, unseen>>
    BY DEF AptGetSucceeds
<1>2. dpkg' \in [ver : 0 .. Newest, held : BOOLEAN] /\ dpkg'.ver <= cand
    BY <1>1, AimType DEF IInv, TypeOK, EntryTypeOK
<1>3. TypeOK'
    BY <1>1, <1>2, StepTypes DEF IInv, TypeOK, IndexTypeOK, EntryTypeOK, Pcs
<1>4. /\ pc' = "reading" /\ UNCHANGED <<closing, cand, job, tool>>
      /\ Replaced' /\ (Undisturbed' => Undisturbed)
    BY <1>1, StepCovers DEF IInv
<1> QED
    BY <1>1, <1>2, <1>3, <1>4
    DEF IInv, Follows, Working, Healed, Told, Fresh, Upward, Listed, Closed

LEMMA AptGetFailsKeeps == ASSUME IInv, AptGetFails PROVE IInv'
<1>1. /\ pc = "installing" /\ To("failing")
      /\ UNCHANGED <<stage, seen, row, st, found, tries, good, unseen>>
      /\ \/ UNCHANGED <<events, dpkg>>
         \/ AptCan /\ Fails /\ \E v \in {dpkg.ver, Aim, 0} : dpkg' = [dpkg EXCEPT !.ver = v]
    BY DEF AptGetFails
<1>2. /\ dpkg.ver \in 0 .. Newest /\ dpkg.ver <= cand /\ cand \in 1 .. Newest
      /\ dpkg \in [ver : 0 .. Newest, held : BOOLEAN] /\ stage \in [Requesters -> Stages]
      /\ events \in 0 .. MaxEvents
    BY DEF IInv, TypeOK, IndexTypeOK, EntryTypeOK, Upward, Versions
<1>3. /\ dpkg' \in [ver : 0 .. Newest, held : BOOLEAN] /\ dpkg'.ver <= cand
      /\ events' \in 0 .. MaxEvents
    <2>1. CASE UNCHANGED <<events, dpkg>>
        BY <1>2, <2>1
    <2>2. CASE AptCan /\ Fails /\ \E v \in {dpkg.ver, Aim, 0} : dpkg' = [dpkg EXCEPT !.ver = v]
        <3>1. PICK v \in {dpkg.ver, Aim, 0} : dpkg' = [dpkg EXCEPT !.ver = v]
            BY <2>2
        <3>2. v \in 0 .. Newest /\ v <= cand
            BY <1>2, <2>2, <3>1, AimType, EntryAssumption
        <3> QED
            BY <1>2, <2>2, <3>1, <3>2, EventType DEF Fails
    <2> QED
        BY <1>1, <2>1, <2>2
<1> QED
    BY <1>1, <1>2, <1>3, FailingKeeps

LEMMA LockBusyKeeps == ASSUME IInv, LockBusy PROVE IInv'
<1>1. /\ pc = "installing" /\ Event("lock")
      /\ UNCHANGED <<stage, seen, row, st, dpkg, found, good, unseen>>
      /\ \/ tries < LockTries /\ tries' = tries + 1 /\ To("installing")
         \/ UNCHANGED tries /\ To("failing")
    BY DEF LockBusy
<1>2. /\ events' \in 0 .. MaxEvents /\ tries \in 0 .. LockTries /\ stage \in [Requesters -> Stages]
      /\ dpkg \in [ver : 0 .. Newest, held : BOOLEAN] /\ dpkg.ver <= cand
    BY <1>1, EventType DEF IInv, TypeOK, IndexTypeOK, EntryTypeOK, Upward
<1>3. CASE To("failing") /\ UNCHANGED tries
    BY <1>1, <1>2, <1>3, FailingKeeps
<1>4. CASE tries < LockTries /\ tries' = tries + 1 /\ To("installing")
    <2>1. TypeOK'
        <3>1. tries' \in 0 .. LockTries
            BY <1>2, <1>4, EntryAssumption
        <3> QED
            BY <1>1, <1>2, <1>4, <3>1, StepTypes DEF IInv, TypeOK, IndexTypeOK, EntryTypeOK, Pcs
    <2>2. /\ pc' = "installing" /\ UNCHANGED <<closing, cand, job, tool>>
          /\ Replaced' /\ (Undisturbed' => Undisturbed)
        BY <1>1, <1>4, StepCovers DEF IInv
    <2> QED
        BY <1>1, <1>2, <1>4, <2>1, <2>2
        DEF IInv, Follows, Working, Healed, Told, Fresh, Upward, Listed, Closed
<1> QED
    BY <1>1, <1>3, <1>4

LEMMA ReadKeeps == ASSUME IInv, Read PROVE IInv'
<1>1. /\ pc = "reading" /\ dpkg.ver # 0 /\ found' = dpkg.ver
      /\ To("committing")
      /\ UNCHANGED <<stage, events, seen, row, st, dpkg, tries, good, unseen>>
    BY DEF Read
<1>2. found' \in 0 .. Newest
    BY <1>1 DEF IInv, TypeOK, EntryTypeOK
<1>3. TypeOK'
    BY <1>1, <1>2, StepTypes DEF IInv, TypeOK, IndexTypeOK, EntryTypeOK, Pcs
<1>4. /\ pc' = "committing" /\ UNCHANGED <<closing, cand, job, tool>>
      /\ Replaced' /\ (Undisturbed' => Undisturbed)
    BY <1>1, StepCovers DEF IInv
<1> QED
    BY <1>1, <1>2, <1>3, <1>4
    DEF IInv, Follows, Working, Healed, Told, Fresh, Upward, Listed, Closed

LEMMA CommitKeeps == ASSUME IInv, Commit PROVE IInv'
<1>1. /\ pc = "committing" /\ st' = [ver |-> found, failed |-> FALSE] /\ seen' = NotLoaded
      /\ To("verifying")
      /\ UNCHANGED <<stage, events, row, dpkg, found, tries, good, unseen>>
    BY DEF Commit, Recorded
<1>2. st' \in [ver : 0 .. Newest, failed : BOOLEAN] /\ st'.ver = found /\ seen' \in 0 .. NotLoaded
    BY <1>1, EntryAssumption DEF IInv, TypeOK, EntryTypeOK, NotLoaded
<1>3. TypeOK'
    BY <1>1, <1>2, StepTypes DEF IInv, TypeOK, IndexTypeOK, EntryTypeOK, Pcs
<1>4. /\ pc' = "verifying" /\ UNCHANGED <<closing, cand, job, tool>>
      /\ Replaced' /\ (Undisturbed' => Undisturbed)
    BY <1>1, StepCovers DEF IInv
<1> QED
    BY <1>1, <1>2, <1>3, <1>4
    DEF IInv, Follows, Working, Healed, Told, Fresh, Upward, Listed, Closed

\* An install that failed goes on to the hold, and the record or unseen says so.
LEMMA FailedKeeps ==
    ASSUME IInv, pc \in {"committing", "failing"}, To("settling"), good' = FALSE,
           events' \in 0 .. MaxEvents, st' \in [ver : 0 .. Newest, failed : BOOLEAN],
           UNCHANGED <<stage, seen, row, dpkg, found, tries>>,
           unseen' \in {unseen, TRUE}, unseen' = TRUE \/ st'.failed
    PROVE  IInv'
<1>1. unseen' \in BOOLEAN /\ (~unseen' => ~unseen /\ st'.failed)
    BY DEF IInv, TypeOK, EntryTypeOK
<1>2. TypeOK'
    BY <1>1, StepTypes DEF IInv, TypeOK, IndexTypeOK, EntryTypeOK, Pcs
<1>3. /\ pc' = "settling" /\ UNCHANGED <<closing, cand, job, tool>>
      /\ Replaced' /\ (Undisturbed' => Undisturbed)
    BY <1>1, StepCovers DEF IInv
<1> QED
    BY <1>1, <1>2, <1>3 DEF IInv, Follows, Working, Healed, Told, Fresh, Upward, Listed, Closed

LEMMA CommitFailsKeeps == ASSUME IInv, CommitFails PROVE IInv'
<1>1. /\ pc = "committing" /\ Event("store") /\ good' = FALSE /\ unseen' = TRUE /\ To("settling")
      /\ UNCHANGED <<stage, row, st, dpkg, seen, found, tries>>
    BY DEF CommitFails
<1>2. events' \in 0 .. MaxEvents /\ st \in [ver : 0 .. Newest, failed : BOOLEAN]
    BY <1>1, EventType DEF IInv, TypeOK, IndexTypeOK, EntryTypeOK
<1> QED
    BY <1>1, <1>2, FailedKeeps

LEMMA FailKeeps == ASSUME IInv, Fail PROVE IInv'
<1>1. /\ pc = "failing" /\ good' = FALSE /\ To("settling")
      /\ UNCHANGED <<stage, seen, row, dpkg, found, tries>>
      /\ \/ st' = [st EXCEPT !.failed = TRUE] /\ UNCHANGED <<events, unseen>>
         \/ Event("store") /\ unseen' = TRUE /\ UNCHANGED st
    BY DEF Fail
<1>2. st \in [ver : 0 .. Newest, failed : BOOLEAN] /\ events \in 0 .. MaxEvents
    BY DEF IInv, TypeOK, IndexTypeOK, EntryTypeOK
<1>3. /\ events' \in 0 .. MaxEvents /\ st' \in [ver : 0 .. Newest, failed : BOOLEAN]
      /\ unseen' = TRUE \/ st'.failed
    BY <1>1, <1>2, EventType
<1>4. unseen' \in {unseen, TRUE}
    BY <1>1
<1> QED
    BY <1>1, <1>3, <1>4, FailedKeeps

LEMMA VerifyKeeps == ASSUME IInv, Verify PROVE IInv'
<1>1. /\ pc = "verifying"
      /\ UNCHANGED <<stage, events, seen, row, st, dpkg, found, tries, good, unseen>>
      /\ \/ To("failing")
         \/ Probed(tool) /\ found # tool.ver /\ To("following")
         \/ Probed(tool) /\ found = tool.ver /\ To("settling")
    BY DEF Verify
<1>2. CASE To("failing")
    BY <1>1, <1>2, FailingKeeps DEF IInv, TypeOK, IndexTypeOK, EntryTypeOK, Upward
<1>3. ASSUME NEW p \in {"following", "settling"}, To(p) PROVE TypeOK'
    BY <1>1, <1>3, StepTypes DEF IInv, TypeOK, IndexTypeOK, EntryTypeOK, Pcs
<1>4. ASSUME NEW p \in {"following", "settling"}, To(p)
      PROVE  /\ pc' = p /\ UNCHANGED <<closing, cand, job, tool>>
             /\ Replaced' /\ (Undisturbed' => Undisturbed)
    BY <1>1, <1>4, StepCovers DEF IInv
<1>5. Undisturbed => tool = row /\ found = dpkg.ver /\ found # 0 /\ st.ver = found
    BY <1>1 DEF IInv, Follows, Working
<1>6. CASE Probed(tool) /\ found # tool.ver /\ To("following")
    <2>1. Follows'
        BY <1>1, <1>4, <1>5, <1>6 DEF Follows, Working, Probed
    <2> QED
        BY <1>1, <1>3, <1>4, <1>6, <2>1 DEF IInv, Healed, Told, Fresh, Upward, Listed, Closed
<1>7. CASE Probed(tool) /\ found = tool.ver /\ To("settling")
    <2>1. good
        BY <1>1 DEF IInv, Fresh
    <2>2. Follows'
        BY <1>1, <1>4, <1>5, <1>7 DEF Follows, Working, Probed, Placed
    <2> QED
        BY <1>1, <1>3, <1>4, <1>7, <2>1, <2>2 DEF IInv, Healed, Told, Fresh, Upward, Listed, Closed
<1> QED
    BY <1>1, <1>2, <1>6, <1>7

LEMMA FollowKeeps == ASSUME IInv, Follow PROVE IInv'
<1>1. /\ pc = "following" /\ To("settling")
      /\ row' = (IF row = Absent \/ row.pin \/ row.ver # tool.ver THEN row ELSE [row EXCEPT !.ver = found])
      /\ UNCHANGED <<stage, events, seen, st, dpkg, found, tries, good, unseen>>
    BY DEF Follow
<1>2. /\ pc' = "settling" /\ UNCHANGED <<closing, cand, queue, job, tool, dirty>>
      /\ (Covered' <=> Covered)
    BY <1>1 DEF To, Covered, Queued
<1>3. row \in Row /\ found \in 0 .. Newest /\ good
    BY <1>1 DEF IInv, TypeOK, EntryTypeOK, Fresh
<1>4. row' \in Row /\ (row' = Absent <=> row = Absent)
    <2>1. found # 0
        BY <1>1, <1>3 DEF IInv, Upward, Fresh
    <2>2. found \in Versions \/ found = 0
        BY <1>3 DEF Versions
    <2> QED
        BY <1>1, <1>3, <2>1, <2>2, EntryAssumption DEF Row, Absent, Versions
<1>5. TypeOK'
    BY <1>1, <1>4, StepTypes DEF IInv, TypeOK, IndexTypeOK, EntryTypeOK, Pcs
<1>6. Follows'
    <2>1. ASSUME Undisturbed' PROVE Placed'
        <3>1. Undisturbed
            BY <1>1, <1>2, <1>4, <2>1 DEF Undisturbed
        <3>2. tool = row /\ found = dpkg.ver /\ found # 0 /\ st.ver = found /\ ~row.pin
            BY <1>1, <3>1 DEF IInv, Follows, Working
        <3>3. row'.ver = found /\ ~row'.pin
            BY <1>1, <1>3, <3>1, <3>2 DEF Undisturbed, Row, Absent
        <3> QED
            BY <1>1, <3>2, <3>3 DEF Placed
    <2> QED
        BY <1>2, <2>1 DEF Follows, Working
<1> QED
    BY <1>1, <1>2, <1>3, <1>4, <1>5, <1>6
    DEF IInv, Healed, Told, Replaced, Fresh, Upward, Listed, Closed

LEMMA StepFailsKeeps == ASSUME IInv, StepFails PROVE IInv'
<1>1. /\ pc \in {"lifting", "reading", "verifying", "following"} /\ To("failing")
      /\ \/ Fails \/ UNCHANGED events \/ Event("fail") \/ Event("store")
      /\ UNCHANGED <<stage, seen, row, st, dpkg, found, tries, good, unseen>>
    BY DEF StepFails
<1>2. events' \in 0 .. MaxEvents
    BY <1>1, EventType DEF Fails, IInv, TypeOK, IndexTypeOK
<1> QED
    BY <1>1, <1>2, FailingKeeps DEF IInv, TypeOK, IndexTypeOK, EntryTypeOK, Upward

LEMMA SettleKeeps == ASSUME IInv, Settle PROVE IInv'
<1>1. /\ pc = "settling" /\ row # Absent /\ wanted' = row.pin /\ pc' = "marking"
      /\ UNCHANGED <<lists, once, updateErr, parsed, stage, gone, closing, events, row, st, dpkg, cand,
                     seen, queue, job, tool, found, tries, good, dirty, unseen>>
    BY DEF Settle, indexVars
<1>2. row.pin \in BOOLEAN
    BY <1>1 DEF IInv, TypeOK, EntryTypeOK, Row
<1>3. TypeOK'
    BY <1>1, <1>2 DEF IInv, TypeOK, IndexTypeOK, EntryTypeOK, Pcs
<1>4. Covered' <=> Covered
    BY <1>1 DEF Covered, Queued
<1> QED
    BY <1>1, <1>3, <1>4
    DEF IInv, Follows, Undisturbed, Placed, Working, Healed, Told, Replaced, Fresh,
                            Upward, Listed, Closed

LEMMA CloseEndsKeeps == ASSUME IInv, CloseEnds PROVE IInv'
<1>1. /\ closing = "queue" /\ pc = "idle" /\ closing' = "closed"
      /\ UNCHANGED <<lists, once, updateErr, parsed, stage, gone, events, entryVars>>
    BY DEF CloseEnds
<1> QED
    BY <1>1
    DEF IInv, TypeOK, IndexTypeOK, EntryTypeOK, entryVars, Follows, Undisturbed, Placed, Healed,
                Told, Settled, Covered, Queued, Replaced, Fresh, Upward, Listed, Closed

-----------------------------------------------------------------------------
(* What follows.                                                           *)

LEMMA NextKeeps == ASSUME IInv, [Next]_vars PROVE IInv'
<1>1. CASE UNCHANGED vars
    BY <1>1
    DEF vars, indexVars, entryVars, IInv, TypeOK, IndexTypeOK, EntryTypeOK, Follows, Undisturbed,
                Placed, Healed, Told, Settled, Covered, Queued, Replaced, Fresh, Upward, Listed, Closed
<1>2. CASE Callers
    BY <1>2, CallersKeep, ReconcileKeeps, CancelKeeps DEF Callers
<1>3. CASE Worker
    BY <1>3, TakeKeeps, BumpKeeps, BumpSkipsKeeps, DecideKeeps, DecideNotKeeps, AskedKeeps,
       LiftKeeps,
       AptGetSucceedsKeeps, AptGetFailsKeeps, LockBusyKeeps, ReadKeeps, CommitKeeps, CommitFailsKeeps,
       VerifyKeeps, FollowKeeps, StepFailsKeeps, FailKeeps, SettleKeeps, SettleNotKeeps, MarkKeeps,
       MarkFailsKeeps
       DEF Worker
<1> QED
    BY <1>1, <1>2, <1>3, CancelQueuedKeeps, OutsideKeeps, CloseEndsKeeps, IndexKeeps DEF Next

\* The strengthened invariant, from the files and the database a process finds
\* (New, runOne, installApt, settleAptHold).
THEOREM Inductive == Safe => []IInv
<1> QED
    BY InitInv, NextKeeps, PTL DEF Safe

\* Every variable keeps its type: the versions, holds and records those of the
\* package, the queue one of jobs.
THEOREM TypeCorrect == Safe => []TypeOK
<1>1. IInv => TypeOK
    BY DEF IInv
<1> QED
    BY <1>1, Inductive, PTL

\* A Reconcile whose jobs all succeed leaves every entry settled, and so do the
\* edits after it (runReconcile, converged).
THEOREM ReconcileAlwaysHeals == Safe => []ReconcileHeals
<1>1. IInv => ReconcileHeals
    BY DEF IInv, Healed, ReconcileHeals, Quiet, Covered, Queued
<1> QED
    BY <1>1, Inductive, PTL

\* An entry is settled, or its record says that its last job failed, or a history
\* tells why not (recordFailure, settleAptHold).
THEOREM AlwaysAccountedFor == Safe => []AccountedFor
<1>1. IInv => AccountedFor
    BY DEF IInv, Told, AccountedFor, Quiet, Covered, Queued
<1> QED
    BY <1>1, Inductive, PTL

\* The discovered list never shows, after an install, what was there before it
\* (commitInstall's Invalidate).
THEOREM ListAlwaysFollows == Safe => ListFollowsInstall
<1>1. ASSUME IInv, [Next]_vars, job # "none", job' = "none", tries > 0, good, dpkg.ver = found
      PROVE  seen' \in {NotLoaded, found}
    <2>1. pc \in {"idle", "looking", "deciding", "asking", "lifting"} => tries = 0
        BY <1>1 DEF IInv, Fresh
    <2>2. tries \in 0 .. LockTries /\ pc # "looking" /\ pc # "deciding"
        BY <1>1, <2>1 DEF IInv, TypeOK, EntryTypeOK
    <2>3. CASE \E fresh \in BOOLEAN : Restart(fresh)
        BY <2>3 DEF Restart
    <2>4. CASE SettleNot \/ Mark \/ MarkFails
        BY <1>1, <2>4 DEF SettleNot, Mark, MarkFails, Ended, IInv, Listed
    <2>5. CASE UNCHANGED job
        BY <1>1, <2>5
    <2>6. CASE Take
        BY <1>1, <2>6 DEF Take, IInv, Fresh
    <2> QED
        <3>1. Callers \/ CancelQueued => UNCHANGED job
            BY DEF Callers, CancelQueued, Add, Remove, PatchPin, PatchVersion, Install, Update,
               Reconcile,
                   Cancel, Edited, jobVars, entryVars
        <3>2. Outside => UNCHANGED job \/ \E fresh \in BOOLEAN : Restart(fresh)
            BY DEF Outside, NewCandidate, ShellMarks, List, ShellMoves, Disturbed, jobVars
        <3>3. Bump \/ Decide \/ Asked \/ Lift \/ AptGetSucceeds \/ AptGetFails \/ LockBusy \/ Read \/ Commit
              \/ CommitFails \/ Verify \/ Follow \/ StepFails \/ Fail \/ Settle => UNCHANGED job
            BY DEF Bump, Decide, Asked, Lift, AptGetSucceeds, AptGetFails, LockBusy, Read, Commit,
               Recorded,
                   CommitFails, Verify, Follow, StepFails, Fail, Settle, To
        <3>4. ~BumpSkips /\ ~DecideNot
            BY <2>2 DEF BumpSkips, DecideNot
        <3>5. CloseEnds \/ (Index /\ UNCHANGED entryVars) \/ UNCHANGED vars => UNCHANGED job
            BY DEF CloseEnds, vars, entryVars
        <3>6. CASE Worker
            BY <2>4, <2>5, <2>6, <3>3, <3>4, <3>6 DEF Worker
        <3> QED
            BY <1>1, <2>3, <2>5, <3>1, <3>2, <3>5, <3>6 DEF Next
<1> QED
    BY <1>1, Inductive, PTL DEF Safe, ListFollowsInstall

\* Once Close has returned, neither the refresh nor the worker runs
\* (Engine.Close, aptIndex.Close, jobQueue.Close).
THEOREM ClosedIsStill == Safe => [](closing = "closed" => stage["refresh"] = "idle" /\ pc = "idle")
<1>1. IInv => (closing = "closed" => stage["refresh"] = "idle" /\ pc = "idle")
    BY DEF IInv, Closed
<1> QED
    BY <1>1, Inductive, PTL
=============================================================================
