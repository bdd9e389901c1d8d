---------------------------- MODULE Engine_proofs ----------------------------
(***************************************************************************)
(* Proofs about Engine, for every set of tools and every requirement       *)
(* relation, cyclic ones included.                                         *)
(***************************************************************************)
EXTENDS Engine, SequenceTheorems, TLAPS

\* The closure of a name holds the name and is closed under Requires.
LEMMA ClosureClosed ==
    ASSUME NEW n \in Names
    PROVE  /\ Closure(n) \subseteq Names
           /\ n \in Closure(n)
           /\ \A x \in Closure(n) : Requires[x] \subseteq Closure(n)
<1>1. Closure(n) \subseteq Names /\ n \in Closure(n)
    BY DEF Closure
<1>2. ASSUME NEW x \in Closure(n), NEW y \in Requires[x]
      PROVE  y \in Closure(n)
    <2>1. x \in Names /\ y \in Names
        BY <1>1, <1>2, EngineAssumption
    <2>2. SUFFICES ASSUME NEW S \in SUBSET Names, n \in S,
                          \A z \in S : Requires[z] \subseteq S
                   PROVE  y \in S
        BY <2>1 DEF Closure
    <2>3. x \in S
        BY <1>2, <2>2 DEF Closure
    <2> QED
        BY <1>2, <2>2, <2>3
<1> QED
    BY <1>1, <1>2

\* What a member of a closure reaches, the closure reaches.
LEMMA ClosureTransitive ==
    ASSUME NEW n \in Names, NEW m \in Closure(n), NEW x \in Closure(m)
    PROVE  x \in Closure(n)
<1>1. /\ Closure(n) \in SUBSET Names
      /\ \A z \in Closure(n) : Requires[z] \subseteq Closure(n)
    BY ClosureClosed
<1> QED
    BY <1>1 DEF Closure

\* The cascade of a name holds the name and is closed under "requires it".
LEMMA CascadeClosed ==
    ASSUME NEW n \in Names
    PROVE  /\ Cascade(n) \subseteq Names
           /\ n \in Cascade(n)
           /\ \A x \in Cascade(n), d \in Names : x \in Requires[d] => d \in Cascade(n)
<1>1. Cascade(n) \subseteq Names /\ n \in Cascade(n)
    BY DEF Cascade
<1>2. ASSUME NEW x \in Cascade(n), NEW d \in Names, x \in Requires[d]
      PROVE  d \in Cascade(n)
    <2>1. SUFFICES ASSUME NEW S \in SUBSET Names, n \in S,
                          \A z \in S : {e \in Names : z \in Requires[e]} \subseteq S
                   PROVE  d \in S
        BY DEF Cascade
    <2>2. x \in S
        BY <1>2, <2>1 DEF Cascade
    <2> QED
        BY <1>2, <2>1, <2>2
<1> QED
    BY <1>1, <1>2

\* The walk over the reverse edges and the walk over the forward edges agree:
\* cascadeOf takes a name exactly when installClosure of that name reaches back
\* (engine.go: enabledDependents "the set a forced disable or remove takes").
THEOREM CascadeIsWhatReaches ==
    ASSUME NEW n \in Names, NEW d \in Names
    PROVE  d \in Cascade(n) <=> n \in Closure(d)
<1>1. ASSUME d \in Cascade(n) PROVE n \in Closure(d)
    <2> DEFINE S == {m \in Names : n \in Closure(m)}
    <2>1. n \in S
        BY ClosureClosed
    <2>2. ASSUME NEW x \in S, NEW e \in Names, x \in Requires[e]
          PROVE  e \in S
        <3>1. x \in Closure(e)
            BY <2>2, ClosureClosed
        <3>2. n \in Closure(e)
            BY <2>2, <3>1, ClosureTransitive
        <3> QED
            BY <3>2
    <2>3. \A x \in S : {e \in Names : x \in Requires[e]} \subseteq S
        BY <2>2
    <2>4. d \in S
        <3> HIDE DEF S
        <3>1. S \in SUBSET Names
            BY DEF S
        <3> QED
            BY <1>1, <2>1, <2>3, <3>1 DEF Cascade
    <2> QED
        BY <2>4
<1>2. ASSUME n \in Closure(d) PROVE d \in Cascade(n)
    <2> DEFINE S == {m \in Names : d \in Cascade(m)}
    <2>1. d \in S
        BY CascadeClosed
    <2>2. ASSUME NEW x \in S, NEW y \in Requires[x]
          PROVE  y \in S
        <3>1. x \in Names /\ y \in Names
            BY EngineAssumption
        <3>2. x \in Cascade(y)
            BY <2>2, <3>1, CascadeClosed
        <3>3. SUFFICES ASSUME NEW T \in SUBSET Names, y \in T,
                              \A z \in T : {e \in Names : z \in Requires[e]} \subseteq T
                       PROVE  d \in T
            BY <3>1 DEF Cascade
        <3>4. x \in T
            BY <3>2, <3>3 DEF Cascade
        <3>5. d \in Cascade(x)
            OBVIOUS
        <3> QED
            BY <3>3, <3>4, <3>5 DEF Cascade
    <2>3. \A x \in S : Requires[x] \subseteq S
        BY <2>2
    <2>4. n \in S
        <3> HIDE DEF S
        <3>1. S \in SUBSET Names
            BY DEF S
        <3> QED
            BY <1>2, <2>1, <2>3, <3>1 DEF Closure
    <2> QED
        BY <2>4
<1> QED
    BY <1>1, <1>2

-----------------------------------------------------------------------------

\* A disable or a remove leaves no enabled row whose closure holds the tool.
THEOREM ForceTakesEveryDependent == Safe => TakesEveryDependent
<1>1. ASSUME NEW n \in Names, Disable(n) \/ RemoveTool(n), row'[n] # row[n],
             NEW m \in Names, row'[m] = "enabled"
      PROVE  n \notin Closure(m)
    <2>1. m \in {n} \cup EnabledDependents(n) => row'[m] # "enabled"
        BY <1>1 DEF Disable, RemoveTool, Transaction, manifest
    <2>2. row'[m] = "enabled" => row[m] = "enabled"
        BY <1>1 DEF Disable, RemoveTool, Transaction, manifest
    <2>3. m # n /\ m \notin Cascade(n)
        BY <1>1, <2>1, <2>2 DEF EnabledDependents
    <2> QED
        BY <2>3, CascadeIsWhatReaches
<1>2. [Next]_vars =>
        [\A n \in Names : (Disable(n) \/ RemoveTool(n)) /\ row'[n] # row[n] =>
            \A m \in Names : row'[m] = "enabled" => n \notin Closure(m)]_vars
    BY <1>1
<1> QED
    BY <1>2, PTL DEF Safe, TakesEveryDependent

-----------------------------------------------------------------------------
(* Types.                                                                  *)

LEMMA CascadeType ==
    ASSUME NEW n \in Names
    PROVE  EnabledDependents(n) \subseteq Names
BY DEF EnabledDependents, Cascade

\* A queue grows by one job and loses one.
LEMMA QueueType ==
    ASSUME queue \in Seq(JobSet)
    PROVE  /\ \A j \in JobSet : Append(queue, j) \in Seq(JobSet)
           /\ \A i \in DOMAIN queue : RemoveAt(queue, i) \in Seq(JobSet)
           /\ \A i \in DOMAIN queue : [queue EXCEPT ![i].st = "queued"] \in Seq(JobSet)
           /\ queue # <<>> => Head(queue) \in JobSet /\ Tail(queue) \in Seq(JobSet)
<1>1. \A j \in JobSet : Append(queue, j) \in Seq(JobSet)
    OBVIOUS
<1>2. ASSUME NEW i \in DOMAIN queue
      PROVE  RemoveAt(queue, i) \in Seq(JobSet)
    <2>1. i \in 1 .. Len(queue)
        OBVIOUS
    <2>2. SubSeq(queue, 1, i - 1) \in Seq(JobSet)
        <3>1. \A k \in 1 .. (i - 1) : queue[k] \in JobSet
            BY <2>1
        <3> QED
            BY <2>1, <3>1
    <2>3. SubSeq(queue, i + 1, Len(queue)) \in Seq(JobSet)
        <3>1. \A k \in (i + 1) .. Len(queue) : queue[k] \in JobSet
            BY <2>1
        <3> QED
            BY <2>1, <3>1
    <2> QED
        BY <2>2, <2>3 DEF RemoveAt
<1>3. ASSUME NEW i \in DOMAIN queue
      PROVE  [queue EXCEPT ![i].st = "queued"] \in Seq(JobSet)
    <2>1. queue[i] \in JobSet
        OBVIOUS
    <2>2. [queue[i] EXCEPT !.st = "queued"] \in JobSet
        BY <2>1 DEF JobSet
    <2> QED
        BY <2>2
<1>4. queue # <<>> => Head(queue) \in JobSet /\ Tail(queue) \in Seq(JobSet)
    OBVIOUS
<1> QED
    BY <1>1, <1>2, <1>3, <1>4

LEMMA CallType ==
    ASSUME TypeOK, NEW c, Call(c)
    PROVE  calls' \in 0 .. MaxCalls
BY EngineAssumption DEF TypeOK, Call

\* A job added by a caller is a job.
LEMMA ReservedType ==
    ASSUME TypeOK, NEW k \in Kinds, NEW ns \in SUBSET Names,
           NEW st \in {"reserved", "refused", "queued"}, Reserved(k, ns, st)
    PROVE  queue' \in Seq(JobSet)
<1>1. [kind |-> k, names |-> ns, st |-> st] \in JobSet
    BY DEF JobSet
<1> QED
    BY <1>1, QueueType DEF TypeOK, Reserved

LEMMA TransactionType ==
    ASSUME TypeOK, NEW k \in Kinds, NEW ns \in SUBSET Names,
           NEW rows \in [Names -> {"absent", "disabled", "enabled"}],
           NEW vers \in [Names -> Versions], NEW pins \in [Names -> BOOLEAN],
           Transaction(k, ns, rows, vers, pins), calls' \in 0 .. MaxCalls
    PROVE  TypeOK'
<1>1. queue' \in Seq(JobSet)
    BY ReservedType DEF Transaction
<1>2. /\ row' \in [Names -> {"absent", "disabled", "enabled"}]
      /\ ver' \in [Names -> Versions]
      /\ pin' \in [Names -> BOOLEAN]
    BY DEF Transaction, manifest, TypeOK
<1> QED
    BY <1>1, <1>2 DEF Transaction, progress, TypeOK

LEMMA EditType ==
    ASSUME TypeOK,
           NEW rows \in [Names -> {"absent", "disabled", "enabled"}],
           NEW vers \in [Names -> Versions], NEW pins \in [Names -> BOOLEAN],
           Edit(rows, vers, pins), calls' \in 0 .. MaxCalls
    PROVE  TypeOK'
BY DEF Edit, progress, TypeOK

\* The end of a job resets what it kept.
LEMMA FinishType ==
    ASSUME TypeOK, NEW good \in BOOLEAN, Finish(good),
           queue' \in Seq(JobSet), asked' \subseteq Names, calls' \in 0 .. MaxCalls,
           UNCHANGED <<manifest, inst, disk, misplanned>>
    PROVE  TypeOK'
<1>1. Nothing \in Manifest /\ 0 \in Versions
    BY EngineAssumption DEF Nothing, Manifest, Versions
<1> QED
    BY <1>1 DEF Finish, manifest, TypeOK, Pcs

\* A call keeps the types.
LEMMA CallersType ==
    ASSUME TypeOK, Callers
    PROVE  TypeOK'
<1> USE DEF Kinds
<1>1. \A v \in 1 .. Latest : v \in Versions
    BY EngineAssumption DEF Versions
<1>2. 0 \in Versions
    BY EngineAssumption DEF Versions
<1>3. ASSUME NEW n \in Names, NEW v \in 1 .. Latest, Add(n, v)
      PROVE  TypeOK'
    <2>1. /\ [row EXCEPT ![n] = "enabled"] \in [Names -> {"absent", "disabled", "enabled"}]
          /\ [ver EXCEPT ![n] = v] \in [Names -> Versions]
          /\ [pin EXCEPT ![n] = FALSE] \in [Names -> BOOLEAN]
        BY <1>1 DEF TypeOK
    <2> QED
        BY <1>3, <2>1, CallType, TransactionType DEF Add
<1>4. ASSUME NEW n \in Names, NEW v \in 1 .. Latest, PatchVersion(n, v)
      PROVE  TypeOK'
    <2>1. /\ row \in [Names -> {"absent", "disabled", "enabled"}]
          /\ [ver EXCEPT ![n] = v] \in [Names -> Versions]
          /\ pin \in [Names -> BOOLEAN]
        BY <1>1 DEF TypeOK
    <2>2. calls' \in 0 .. MaxCalls
        BY <1>4, CallType DEF PatchVersion
    <2>3. CASE row[n] = "enabled"
        BY <1>4, <2>1, <2>2, <2>3, TransactionType DEF PatchVersion
    <2>4. CASE row[n] # "enabled"
        BY <1>4, <2>1, <2>2, <2>4, EditType DEF PatchVersion
    <2> QED
        BY <2>3, <2>4
<1>5. ASSUME NEW n \in Names, AddTemplate(n)
      PROVE  TypeOK'
    <2>1. /\ [row EXCEPT ![n] = "disabled"] \in [Names -> {"absent", "disabled", "enabled"}]
          /\ [ver EXCEPT ![n] = 0] \in [Names -> Versions]
          /\ [pin EXCEPT ![n] = FALSE] \in [Names -> BOOLEAN]
        BY <1>2 DEF TypeOK
    <2> QED
        BY <1>5, <2>1, CallType, EditType DEF AddTemplate
<1>6. ASSUME NEW n \in Names, Enable(n)
      PROVE  TypeOK'
    <2>1. /\ [row EXCEPT ![n] = "enabled"] \in [Names -> {"absent", "disabled", "enabled"}]
          /\ ver \in [Names -> Versions] /\ pin \in [Names -> BOOLEAN]
        BY DEF TypeOK
    <2> QED
        BY <1>6, <2>1, CallType, TransactionType DEF Enable
<1>7. ASSUME NEW n \in Names, Disable(n)
      PROVE  TypeOK'
    <2> DEFINE taken == {n} \cup EnabledDependents(n)
    <2>1. /\ [m \in Names |-> IF m \in taken THEN "disabled" ELSE row[m]]
                \in [Names -> {"absent", "disabled", "enabled"}]
          /\ ver \in [Names -> Versions] /\ pin \in [Names -> BOOLEAN]
        BY DEF TypeOK
    <2>2. taken \in SUBSET Names
        BY CascadeType
    <2>3. Transaction("disable", taken,
              [m \in Names |-> IF m \in taken THEN "disabled" ELSE row[m]], ver, pin)
        BY <1>7 DEF Disable
    <2>4. calls' \in 0 .. MaxCalls
        BY <1>7, CallType DEF Disable
    <2> HIDE DEF taken
    <2> QED
        BY <2>1, <2>2, <2>3, <2>4, TransactionType
<1>8. ASSUME NEW n \in Names, PatchPin(n)
      PROVE  TypeOK'
    <2>1. /\ row \in [Names -> {"absent", "disabled", "enabled"}]
          /\ ver \in [Names -> Versions]
          /\ [pin EXCEPT ![n] = ~@] \in [Names -> BOOLEAN]
        BY DEF TypeOK
    <2> QED
        BY <1>8, <2>1, CallType, EditType DEF PatchPin
<1>9. ASSUME NEW n \in Names, RemoveTool(n)
      PROVE  TypeOK'
    <2> DEFINE taken == {n} \cup EnabledDependents(n)
               rows  == [m \in Names |-> IF m \in taken THEN "absent" ELSE row[m]]
               vers  == [m \in Names |-> IF m \in taken THEN 0 ELSE ver[m]]
               pins  == [m \in Names |-> IF m \in taken THEN FALSE ELSE pin[m]]
    <2>1. rows \in [Names -> {"absent", "disabled", "enabled"}]
        BY DEF TypeOK
    <2>2. vers \in [Names -> Versions]
        BY <1>2 DEF TypeOK
    <2>3. pins \in [Names -> BOOLEAN]
        BY DEF TypeOK
    <2>4. taken \in SUBSET Names
        BY CascadeType
    <2>5. Transaction("uninstall", taken, rows, vers, pins)
        BY <1>9 DEF RemoveTool
    <2>6. calls' \in 0 .. MaxCalls
        BY <1>9, CallType DEF RemoveTool
    <2> HIDE DEF taken, rows, vers, pins
    <2> QED
        BY <2>1, <2>2, <2>3, <2>4, <2>5, <2>6, TransactionType
<1>10. ASSUME NEW n \in Names, InstallAsk(n)
       PROVE  TypeOK'
    <2>1. calls' \in 0 .. MaxCalls
        BY <1>10, CallType DEF InstallAsk
    <2> QED
        BY <1>10, <2>1 DEF InstallAsk, manifest, progress, TypeOK
<1>11. ASSUME NEW ns \in SUBSET Names, Update(ns)
       PROVE  TypeOK'
    <2>1. calls' \in 0 .. MaxCalls /\ queue' \in Seq(JobSet)
        BY <1>11, CallType, ReservedType DEF Update
    <2> QED
        BY <1>11, <2>1 DEF Update, manifest, progress, TypeOK
<1>12. ASSUME Reconcile
       PROVE  TypeOK'
    <2>1. [kind |-> "reconcile", names |-> {}, st |-> "queued"] \in JobSet
        BY DEF JobSet
    <2>2. calls' \in 0 .. MaxCalls /\ queue' \in Seq(JobSet)
        BY <1>12, <2>1, CallType, QueueType DEF Reconcile, TypeOK
    <2> QED
        BY <1>12, <2>2 DEF Reconcile, manifest, progress, TypeOK
<1>13. ASSUME NEW i \in DOMAIN queue, CancelQueued(i)
       PROVE  TypeOK'
    <2>1. calls' \in 0 .. MaxCalls /\ queue' \in Seq(JobSet)
        BY <1>13, CallType, QueueType DEF CancelQueued, TypeOK
    <2> QED
        BY <1>13, <2>1 DEF CancelQueued, manifest, progress, TypeOK
<1>14. ASSUME NEW n \in Names, EnsureInstalled(n)
       PROVE  TypeOK'
    <2>1. Latest \in 1 .. Latest
        BY EngineAssumption
    <2> QED
        BY <1>3, <1>6, <1>10, <1>14, <2>1 DEF EnsureInstalled
<1> QED
    BY <1>3, <1>4, <1>5, <1>6, <1>7, <1>8, <1>9, <1>10, <1>11, <1>12, <1>13, <1>14 DEF Callers

\* The return of a call keeps the types.
LEMMA ReturnsType ==
    ASSUME TypeOK, Returns
    PROVE  TypeOK'
<1>1. ASSUME NEW i \in DOMAIN queue, CommitJob(i)
      PROVE  TypeOK'
    <2>1. queue' \in Seq(JobSet)
        BY <1>1, QueueType DEF CommitJob, TypeOK
    <2> QED
        BY <1>1, <2>1 DEF CommitJob, manifest, progress, TypeOK
<1>2. ASSUME NEW n \in Names, InstallEnqueue(n)
      PROVE  TypeOK'
    <2>1. queue' \in Seq(JobSet)
        BY <1>2, ReservedType DEF InstallEnqueue, TypeOK, Kinds
    <2> QED
        BY <1>2, <2>1 DEF InstallEnqueue, manifest, progress, TypeOK
<1> QED
    BY <1>1, <1>2 DEF Returns

\* The steps that start a job and load its manifest keep the types.
LEMMA LoadType ==
    ASSUME TypeOK, Take \/ LoadInstall \/ LoadUpdate \/ LoadReconcile
    PROVE  TypeOK'
<1> USE DEF manifest, callerVars, Pcs
<1>1. [row |-> row, ver |-> ver, pin |-> pin] \in Manifest
    BY DEF TypeOK, Manifest
<1>2. CASE Take
    <2>1. Head(queue) \in JobSet /\ queue' \in Seq(JobSet)
        BY <1>2, QueueType DEF Take, TypeOK
    <2>2. Head(queue).names \subseteq Names
        BY <2>1 DEF JobSet
    <2>3. todo' \subseteq Names /\ roots' \subseteq Names
        BY <1>2, <2>2 DEF Take
    <2> QED
        BY <1>2, <2>1, <2>3 DEF Take, TypeOK
<1>3. CASE LoadInstall
    BY <1>1, <1>3 DEF LoadInstall, TypeOK
<1>4. CASE LoadUpdate
    <2>1. job.names \subseteq Names
        BY DEF TypeOK, JobSet, Idle
    <2>2. todo' \subseteq Names
        BY <1>4, <2>1 DEF LoadUpdate
    <2> QED
        BY <1>1, <1>4, <2>2 DEF LoadUpdate, TypeOK
<1>5. CASE LoadReconcile
    <2>1. todo' \subseteq Names /\ roots' \subseteq Names
        BY <1>5 DEF LoadReconcile, Unwanted, Missing
    <2> QED
        BY <1>5, <2>1 DEF LoadReconcile, TypeOK
<1> QED
    BY <1>2, <1>3, <1>4, <1>5

\* Planning keeps the types.
LEMMA PlanType ==
    ASSUME TypeOK, PlanEnds \/ \E n \in Names : PlanRoot(n) \/ PlanFails(n)
    PROVE  TypeOK'
<1> USE DEF callerVars
<1>1. ASSUME NEW r \in Names, PlanRoot(r)
      PROVE  TypeOK'
    <2>1. Latest \in Versions
        BY EngineAssumption DEF Versions
    <2>2. /\ Walk(r) \subseteq Names
          /\ Written(r) \subseteq Names
        BY ClosureClosed DEF Walk, Written, Adopted, Enabled
    <2>3. row' \in [Names -> {"absent", "disabled", "enabled"}]
        BY <1>1 DEF PlanRoot, TypeOK
    <2>4. ver' \in [Names -> Versions]
        BY <1>1, <2>1 DEF PlanRoot, TypeOK
    <2>5. snap' \in Manifest
        BY <1>1, <2>3, <2>4 DEF PlanRoot, TypeOK, Manifest
    <2>6. /\ seen' \subseteq Names /\ ordered' \subseteq Names /\ roots' \subseteq Names
          /\ misplanned' \subseteq Names
        BY <1>1, <2>2 DEF PlanRoot, TypeOK
    <2> QED
        BY <1>1, <2>3, <2>4, <2>5, <2>6 DEF PlanRoot, TypeOK
<1>2. ASSUME NEW r \in Names, PlanFails(r)
      PROVE  TypeOK'
    BY <1>2 DEF PlanFails, manifest, TypeOK
<1>3. CASE PlanEnds
    BY <1>3 DEF PlanEnds, manifest, progress, TypeOK, Pcs
<1> QED
    BY <1>1, <1>2, <1>3

\* The end of a job, whoever ends it, keeps the types.
LEMMA EndType ==
    ASSUME TypeOK, NEW good \in BOOLEAN, Finish(good),
           UNCHANGED <<manifest, inst, disk, queue, asked, calls, misplanned>>
    PROVE  TypeOK'
<1>1. queue' \in Seq(JobSet) /\ asked' \subseteq Names /\ calls' \in 0 .. MaxCalls
    BY DEF TypeOK
<1> QED
    BY <1>1, FinishType

\* Installing the planned tools keeps the types.
LEMMA InstallType ==
    ASSUME TypeOK,
           \/ \E n \in Names : SkipBlocked(n) \/ SkipDone(n) \/ Resolve(n)
           \/ PersistVersion \/ PublishTool \/ InstallFails \/ RecordTool \/ InstallEnds
    PROVE  TypeOK'
<1> USE DEF callerVars, Pcs
<1>1. ASSUME NEW n \in Names, SkipBlocked(n)
      PROVE  TypeOK'
    BY <1>1 DEF SkipBlocked, NextTool, manifest, TypeOK
<1>2. ASSUME NEW n \in Names, SkipDone(n)
      PROVE  TypeOK'
    BY <1>2 DEF SkipDone, NextTool, manifest, TypeOK
<1>3. ASSUME NEW n \in Names, Resolve(n)
      PROVE  TypeOK'
    <2>1. target' \in Versions /\ target' # 0
        BY <1>3, EngineAssumption DEF Resolve, TypeOK, Versions
    <2>2. cur' \in Names /\ cur' \in ordered'
        BY <1>3 DEF Resolve, NextTool
    <2>3. pc' \in {"resolving", "publishing"}
        BY <1>3 DEF Resolve
    <2> QED
        BY <1>3, <2>1, <2>2, <2>3 DEF Resolve, manifest, TypeOK
<1>4. CASE PersistVersion
    <2>1. ver' \in [Names -> Versions]
        BY <1>4 DEF PersistVersion, TypeOK
    <2>2. target # 0 /\ cur \in ordered
        BY <1>4 DEF PersistVersion, TypeOK
    <2> QED
        BY <1>4, <2>1, <2>2 DEF PersistVersion, progress, TypeOK
<1>5. CASE PublishTool
    BY <1>5 DEF PublishTool, manifest, progress, TypeOK
<1>6. CASE InstallFails
    <2>1. cur \in Names
        BY <1>6 DEF InstallFails, TypeOK
    <2>2. 0 \in Versions
        BY EngineAssumption DEF Versions
    <2> QED
        BY <1>6, <2>1, <2>2 DEF InstallFails, manifest, TypeOK
<1>7. CASE RecordTool
    <2>1. cur \in Names
        BY <1>7 DEF RecordTool, TypeOK
    <2>2. 0 \in Versions
        BY EngineAssumption DEF Versions
    <2>3. inst' \in [Names -> Versions] /\ failed' \subseteq Names
        BY <1>7, <2>1 DEF RecordTool, TypeOK
    <2> QED
        BY <1>7, <2>1, <2>2, <2>3 DEF RecordTool, manifest, TypeOK
<1>8. CASE InstallEnds
    <2>1. (ok /\ failed = {}) \in BOOLEAN
        BY DEF TypeOK
    <2> QED
        BY <1>8, <2>1, EndType DEF InstallEnds
<1> QED
    BY <1>1, <1>2, <1>3, <1>4, <1>5, <1>6, <1>7, <1>8

\* Removing tools keeps the types.
LEMMA RemoveType ==
    ASSUME TypeOK,
           \/ \E n \in Names : RemoveFiles(n)
           \/ DropStatus \/ RemovalFails \/ RemovalEnds
    PROVE  TypeOK'
<1> USE DEF callerVars, Pcs
<1>1. 0 \in Versions
    BY EngineAssumption DEF Versions
<1>2. ASSUME NEW n \in Names, RemoveFiles(n)
      PROVE  TypeOK'
    BY <1>1, <1>2 DEF RemoveFiles, manifest, TypeOK
<1>3. CASE DropStatus
    BY <1>1, <1>3 DEF DropStatus, manifest, TypeOK
<1>4. CASE RemovalFails
    BY <1>4, EndType DEF RemovalFails
<1>5. CASE RemovalEnds
    <2>1. CASE roots # {}
        BY <1>5, <2>1 DEF RemovalEnds, progress, manifest, TypeOK
    <2>2. CASE roots = {}
        BY <1>5, <2>2, EndType DEF RemovalEnds
    <2> QED
        BY <2>1, <2>2
<1> QED
    BY <1>2, <1>3, <1>4, <1>5

\* Checking for updates keeps the types.
LEMMA CheckType ==
    ASSUME TypeOK,
           \/ \E n \in Names : CheckSkips(n) \/ CheckLimited(n) \/ CheckFinds(n)
           \/ Bump \/ BumpFails \/ CheckEnds
    PROVE  TypeOK'
<1> USE DEF callerVars, Pcs
<1>1. ASSUME NEW n \in Names, CheckSkips(n) \/ CheckLimited(n)
      PROVE  TypeOK'
    BY <1>1 DEF CheckSkips, CheckLimited, manifest, TypeOK
<1>2. ASSUME NEW n \in Names, CheckFinds(n)
      PROVE  TypeOK'
    BY <1>2 DEF CheckFinds, manifest, TypeOK
<1>3. CASE Bump
    <2>1. cur \in Names
        BY <1>3 DEF Bump, TypeOK
    <2>2. Latest \in Versions
        BY EngineAssumption DEF Versions
    <2>3. ver' \in [Names -> Versions] /\ bumped' \subseteq Names
        BY <1>3, <2>1, <2>2 DEF Bump, TypeOK
    <2> QED
        BY <1>3, <2>3 DEF Bump, manifest, TypeOK
<1>4. CASE BumpFails
    BY <1>4, EndType DEF BumpFails
<1>5. CASE CheckEnds
    <2>1. CASE bumped # {}
        BY <1>5, <2>1 DEF CheckEnds, manifest, TypeOK
    <2>2. CASE bumped = {}
        <3>1. ok \in BOOLEAN
            BY DEF TypeOK
        <3> QED BY <1>5, <2>2, <3>1, EndType DEF CheckEnds
    <2> QED
        BY <2>1, <2>2
<1> QED
    BY <1>1, <1>2, <1>3, <1>4, <1>5

\* A cancelled job and a crash keep the types.
LEMMA InterruptType ==
    ASSUME TypeOK, Cancelled \/ Crash
    PROVE  TypeOK'
<1>1. <<>> \in Seq(JobSet)
    OBVIOUS
<1>2. CASE Cancelled
    <2>1. calls' \in 0 .. MaxCalls
        BY <1>2, CallType DEF Cancelled
    <2>2. queue' \in Seq(JobSet) /\ asked' \subseteq Names
        BY <1>2 DEF Cancelled, TypeOK
    <2> QED
        BY <1>2, <2>1, <2>2, FinishType DEF Cancelled
<1>3. CASE Crash
    <2>1. calls' \in 0 .. MaxCalls
        BY <1>3, CallType DEF Crash
    <2>2. queue' \in Seq(JobSet) /\ asked' \subseteq Names
        BY <1>1, <1>3 DEF Crash
    <2> QED
        BY <1>3, <2>1, <2>2, FinishType DEF Crash
<1> QED
    BY <1>2, <1>3

LEMMA InitType == Init => TypeOK
<1> SUFFICES ASSUME Init PROVE TypeOK
    OBVIOUS
<1>1. ver \in [Names -> Versions]
    BY EngineAssumption DEF Init, Versions
<1>2. 0 \in Versions /\ calls \in 0 .. MaxCalls
    BY EngineAssumption DEF Init, Versions
<1>3. Nothing \in Manifest
    BY <1>2 DEF Nothing, Manifest
<1>4. queue \in Seq(JobSet)
    BY DEF Init
<1> QED
    BY <1>1, <1>2, <1>3, <1>4 DEF Init, TypeOK, Nothing, Pcs

LEMMA StepType ==
    ASSUME TypeOK, [Next]_vars
    PROVE  TypeOK'
<1>1. CASE Callers
    BY <1>1, CallersType
<1>2. CASE Returns
    BY <1>2, ReturnsType
<1>3. CASE Worker
    BY <1>3, LoadType, PlanType, InstallType, RemoveType, CheckType DEF Worker
<1>4. CASE Cancelled \/ Crash
    BY <1>4, InterruptType
<1>5. CASE UNCHANGED vars
    BY <1>5 DEF vars, manifest, progress, TypeOK
<1> QED
    BY <1>1, <1>2, <1>3, <1>4, <1>5 DEF Next

\* Every variable keeps its type, whatever the callers, the worker and the
\* crashes interleave: a tool is published only at a resolved version and only
\* while its plan still lists it.
THEOREM TypeCorrect == Safe => []TypeOK
<1> QED
    BY InitType, StepType, PTL DEF Safe
-----------------------------------------------------------------------------
(* What is left once every job has run.  The invariant says of each name   *)
(* that is not yet as the manifest wants it which job, waiting or running, *)
(* will see to it; it fails of a name only once a job was cancelled, failed*)
(* or lost.                                                                *)

\* What a job of the queue will do: take a name's files, plan what needs a name
\* that is not a root of its own, or install a name.
Live(j)        == j.st # "refused"
Removes(j, n)  == Live(j) /\ j.kind \in {"uninstall", "disable"} /\ n \in j.names
Installs(j, n) ==
    Live(j) /\ \/ j.kind = "reconcile"
               \/ j.kind = "install" /\ \E r \in j.names : n \in Closure(r)
Restores(j, n) == Installs(j, n) /\ n \notin j.names

RemovalQueued(n) == \E i \in DOMAIN queue : Removes(queue[i], n)
InstallQueued(n) == \E i \in DOMAIN queue : Installs(queue[i], n)
RestoreQueued(n) == \E i \in DOMAIN queue : Restores(queue[i], n)

\* The running reconcile has yet to read the manifest.
Reconciling == pc = "loading" /\ job.kind = "reconcile" /\ roots = {}

\* The running job's plan will reach the name, from another root, and enable it.
WillEnable(n) ==
    /\ pc \in {"removing", "dropping", "loading", "planning"}
    /\ n \notin roots
    /\ \E r \in roots : n \in Closure(r)
    /\ pc = "planning" => snap.row[n] # "enabled" /\ n \notin seen

\* A name that is not enabled and that an enabled one needs will be.
Restored(n) == dirty \/ ~ok \/ RestoreQueued(n) \/ Reconciling \/ WillEnable(n)

\* What is owned, or about to be, of a name that is not enabled will go.
Owned(n) == inst[n] # 0 \/ (pc \in {"resolving", "publishing", "recording"} /\ cur = n)
BeingRemoved(n) == pc \in {"removing", "dropping"} /\ n \in todo
Cleaned(n) == Restored(n) \/ RemovalQueued(n) \/ BeingRemoved(n)

\* An enabled tool is as its row says, or a job will make it so.
Good(n) == disk[n] # 0 /\ (inst[n] # 0 => disk[n] = inst[n] /\ ver[n] \in {0, inst[n]})
Brought(n) ==
    \/ dirty \/ ~ok \/ failed # {} \/ InstallQueued(n) \/ Reconciling
    \/ n \in ordered
    \/ n \in bumped /\ pc \in {"checking", "bumping"}
    \/ /\ pc \in {"removing", "dropping", "loading", "planning"}
       /\ \E r \in roots : n \in Closure(r)

\* What each position of the worker says of its progress.
Phases ==
    /\ pc \in {"idle", "loading", "removing", "dropping", "checking", "bumping"} =>
          seen = {} /\ ordered = {} /\ failed = {}
    /\ pc \in {"idle", "removing", "dropping"} \/ (pc = "loading" /\ roots = {}) => ok
    /\ pc = "planning" => seen = ordered /\ failed = {}
    /\ pc \in {"idle", "installing", "resolving", "publishing", "recording", "checking",
               "bumping"} => roots = {}
    /\ pc = "dropping" => cur \in todo
    /\ pc = "recording" => disk[cur] = target

\* Behind every waiting removal of d waits an install of n.
Followed(n, d) ==
    \A j \in DOMAIN queue : Removes(queue[j], d) =>
        \E i \in DOMAIN queue : i > j /\ Installs(queue[i], n)

\* A removal that waits or runs takes nothing an enabled tool needs, unless an
\* install of that tool waits behind it.
RemovalsFollowed ==
    \A n \in Names \ misplanned : row[n] = "enabled" => \A d \in Closure(n) :
        \/ dirty
        \/ Followed(n, d) /\ (BeingRemoved(d) => InstallQueued(n))

\* What is owned of a name that is not enabled will go.
OwnedCleaned ==
    \A n \in Names \ misplanned : row[n] # "enabled" /\ Owned(n) => Cleaned(n)

\* What an enabled tool needs and is not enabled will be.
NeededRestored ==
    \A n \in Names \ misplanned : row[n] = "enabled" =>
        \A d \in Closure(n) : row[d] # "enabled" => Restored(d)

\* Every enabled tool is installed or will be.
EnabledBrought ==
    \A n \in Names \ misplanned : row[n] = "enabled" => Good(n) \/ Brought(n)

\* The version being installed is the row's, or another install waits.
CurrentTarget ==
    pc \in {"resolving", "publishing", "recording"} /\ row[cur] = "enabled"
        /\ cur \notin misplanned =>
            ver[cur] \in {0, target} \/ dirty \/ InstallQueued(cur)

IInv ==
    /\ TypeOK
    /\ Phases
    /\ RemovalsFollowed
    /\ OwnedCleaned
    /\ NeededRestored
    /\ EnabledBrought
    /\ CurrentTarget

-----------------------------------------------------------------------------
(* The queue.                                                              *)

\* The queue of the next state promises whatever this one's promises.
Promises ==
    \A n \in Names :
        /\ RemovalQueued(n) => RemovalQueued(n)'
        /\ InstallQueued(n) => InstallQueued(n)'
        /\ RestoreQueued(n) => RestoreQueued(n)'

LEMMA SameQueue ==
    ASSUME UNCHANGED queue
    PROVE  /\ Promises
           /\ \A n, d \in Names : Followed(n, d) => Followed(n, d)'
BY DEF Promises, RemovalQueued, InstallQueued, RestoreQueued, Followed

LEMMA AppendQueue ==
    ASSUME queue \in Seq(JobSet), NEW j \in JobSet, queue' = Append(queue, j)
    PROVE  /\ Promises
           /\ \A n \in Names :
                 /\ Removes(j, n) => RemovalQueued(n)'
                 /\ Installs(j, n) => InstallQueued(n)'
                 /\ Restores(j, n) => RestoreQueued(n)'
           /\ \A n, d \in Names :
                 ~Removes(j, d) /\ (Followed(n, d) \/ Installs(j, n)) => Followed(n, d)'
<1>1. /\ \A i \in DOMAIN queue : i \in DOMAIN queue' /\ queue'[i] = queue[i]
      /\ Len(queue) + 1 \in DOMAIN queue' /\ queue'[Len(queue) + 1] = j
      /\ \A i \in DOMAIN queue' : i \in DOMAIN queue \/ i = Len(queue) + 1
      /\ \A i \in DOMAIN queue : i \in Nat /\ i < Len(queue) + 1
    OBVIOUS
<1>2. Promises
    BY <1>1 DEF Promises, RemovalQueued, InstallQueued, RestoreQueued
<1>3. \A n \in Names :
          /\ Removes(j, n) => RemovalQueued(n)'
          /\ Installs(j, n) => InstallQueued(n)'
          /\ Restores(j, n) => RestoreQueued(n)'
    BY <1>1 DEF RemovalQueued, InstallQueued, RestoreQueued
<1>4. ASSUME NEW n \in Names, NEW d \in Names, ~Removes(j, d),
             Followed(n, d) \/ Installs(j, n)
      PROVE  Followed(n, d)'
    <2> SUFFICES ASSUME NEW k \in DOMAIN queue', Removes(queue'[k], d)
                 PROVE  \E i \in DOMAIN queue' : i > k /\ Installs(queue'[i], n)
        BY DEF Followed
    <2>1. k \in DOMAIN queue /\ queue'[k] = queue[k]
        BY <1>1, <1>4
    <2>2. CASE Installs(j, n)
        BY <1>1, <2>1, <2>2
    <2>3. CASE Followed(n, d)
        BY <1>1, <2>1, <2>3 DEF Followed
    <2> QED BY <1>4, <2>2, <2>3
<1> QED BY <1>2, <1>3, <1>4

\* The return of a call changes nothing the queue promises.
LEMMA CommitQueue ==
    ASSUME queue \in Seq(JobSet), NEW c \in DOMAIN queue, CommitJob(c)
    PROVE  /\ Promises
           /\ \A n, d \in Names : Followed(n, d) => Followed(n, d)'
<1>1. CASE queue' = [queue EXCEPT ![c].st = "queued"] /\ queue[c].st = "reserved"
    <2>1. DOMAIN queue' = DOMAIN queue
        BY <1>1
    <2>2. ASSUME NEW i \in DOMAIN queue
          PROVE  /\ queue'[i].kind = queue[i].kind
                 /\ queue'[i].names = queue[i].names
                 /\ Live(queue'[i]) <=> Live(queue[i])
        <3>1. queue[i] \in JobSet
            OBVIOUS
        <3>2. CASE i = c
            <4>1. queue'[i] = [queue[i] EXCEPT !.st = "queued"]
                BY <1>1, <3>2
            <4> QED BY <1>1, <3>1, <3>2, <4>1 DEF JobSet, Live
        <3>3. CASE i # c
            BY <1>1, <3>3
        <3> QED BY <3>2, <3>3
    <2>3. \A i \in DOMAIN queue, n \in Names :
              /\ Removes(queue'[i], n) <=> Removes(queue[i], n)
              /\ Installs(queue'[i], n) <=> Installs(queue[i], n)
              /\ Restores(queue'[i], n) <=> Restores(queue[i], n)
        BY <2>2 DEF Removes, Installs, Restores
    <2> QED
        BY <2>1, <2>3 DEF Promises, RemovalQueued, InstallQueued, RestoreQueued, Followed
<1>2. CASE queue' = RemoveAt(queue, c) /\ queue[c].st = "refused"
    <2> DEFINE To(i) == IF i < c THEN i ELSE i - 1
               From(i) == IF i < c THEN i ELSE i + 1
    <2>1. c \in 1 .. Len(queue) /\ Len(queue) \in Nat
        OBVIOUS
    <2>2. /\ Len(queue') = Len(queue) - 1
          /\ \A k \in 1 .. Len(queue') : queue'[k] = queue[From(k)]
        <3> DEFINE before == SubSeq(queue, 1, c - 1)
                   behind == SubSeq(queue, c + 1, Len(queue))
        <3>1. /\ before \in Seq(JobSet) /\ Len(before) = c - 1
              /\ \A k \in 1 .. c - 1 : before[k] = queue[k]
            <4>1. \A k \in 1 .. c - 1 : queue[k] \in JobSet
                BY <2>1
            <4> QED BY <2>1, <4>1, SubSeqProperties
        <3>2. /\ behind \in Seq(JobSet) /\ Len(behind) = Len(queue) - c
              /\ \A k \in 1 .. Len(queue) - c : behind[k] = queue[c + k]
            <4>1. \A k \in c + 1 .. Len(queue) : queue[k] \in JobSet
                BY <2>1
            <4> QED BY <2>1, <4>1, SubSeqProperties
        <3>3. queue' = before \o behind
            BY <1>2 DEF RemoveAt
        <3> HIDE DEF before, behind
        <3>4. /\ Len(queue') = Len(queue) - 1
              /\ \A i \in 1 .. Len(queue') :
                    queue'[i] = IF i <= c - 1 THEN before[i] ELSE behind[i - (c - 1)]
            <4>1. /\ Len(queue') = Len(before) + Len(behind)
                  /\ \A i \in 1 .. Len(before) + Len(behind) :
                        queue'[i] = IF i <= Len(before) THEN before[i]
                                    ELSE behind[i - Len(before)]
                BY <3>1, <3>2, <3>3, ConcatProperties
            <4> QED BY <2>1, <3>1, <3>2, <4>1
        <3>5. ASSUME NEW k \in 1 .. Len(queue')
              PROVE  queue'[k] = queue[From(k)]
            <4>1. CASE k < c
                BY <2>1, <3>1, <3>2, <3>3, <3>4, <4>1
            <4>2. CASE ~(k < c)
                <5>0. ~(k <= c - 1)
                    BY <2>1, <3>4, <4>2
                <5>1. queue'[k] = behind[k - (c - 1)]
                    BY <3>4, <5>0
                <5>2. k - (c - 1) \in 1 .. Len(queue) - c /\ c + (k - (c - 1)) = k + 1
                    BY <2>1, <3>4, <4>2
                <5> QED BY <3>2, <4>2, <5>1, <5>2
            <4> QED BY <4>1, <4>2
        <3> QED BY <3>4, <3>5
    <2>3. queue' \in Seq(JobSet)
        BY <1>2, QueueType
    <2>4. ASSUME NEW i \in DOMAIN queue, i # c
          PROVE  To(i) \in DOMAIN queue' /\ queue'[To(i)] = queue[i]
        <3>1. To(i) \in 1 .. Len(queue') /\ From(To(i)) = i
            BY <2>1, <2>2, <2>4
        <3> HIDE DEF To, From
        <3> QED BY <2>2, <2>3, <3>1
    <2>5. ASSUME NEW k \in DOMAIN queue'
          PROVE  From(k) \in DOMAIN queue /\ From(k) # c /\ queue'[k] = queue[From(k)]
        BY <2>1, <2>2, <2>3
    <2>6. \A n \in Names :
              ~Removes(queue[c], n) /\ ~Installs(queue[c], n) /\ ~Restores(queue[c], n)
        BY <1>2 DEF Removes, Installs, Restores, Live
    <2>7. Promises
        <3> HIDE DEF To
        <3> QED
            BY <2>4, <2>6 DEF Promises, RemovalQueued, InstallQueued, RestoreQueued
    <2>8. ASSUME NEW n \in Names, NEW d \in Names, Followed(n, d)
          PROVE  Followed(n, d)'
        <3> SUFFICES ASSUME NEW k \in DOMAIN queue', Removes(queue'[k], d)
                     PROVE  \E i \in DOMAIN queue' : i > k /\ Installs(queue'[i], n)
            BY DEF Followed
        <3>1. Removes(queue[From(k)], d) /\ From(k) \in DOMAIN queue
            BY <2>5
        <3>2. PICK i \in DOMAIN queue : i > From(k) /\ Installs(queue[i], n)
            BY <2>8, <3>1 DEF Followed
        <3>3. i # c
            BY <2>6, <3>2
        <3>4. To(i) > k
            BY <2>1, <2>2, <2>3, <3>2, <3>3
        <3> QED BY <2>4, <3>2, <3>3, <3>4
    <2> QED BY <2>7, <2>8
<1> QED BY <1>1, <1>2 DEF CommitJob

\* The worker takes the head, and what waited behind it still waits.
LEMMA TakeQueue ==
    ASSUME queue \in Seq(JobSet), queue # <<>>, queue' = Tail(queue)
    PROVE  /\ \A n \in Names :
                 /\ RemovalQueued(n) => RemovalQueued(n)' \/ Removes(Head(queue), n)
                 /\ InstallQueued(n) => InstallQueued(n)' \/ Installs(Head(queue), n)
                 /\ RestoreQueued(n) => RestoreQueued(n)' \/ Restores(Head(queue), n)
           /\ \A n, d \in Names :
                 Followed(n, d) => /\ Followed(n, d)'
                                   /\ Removes(Head(queue), d) => InstallQueued(n)'
<1>1. Len(queue) \in Nat \ {0} /\ Head(queue) = queue[1] /\ DOMAIN queue = 1 .. Len(queue)
    OBVIOUS
<1>2. /\ queue' \in Seq(JobSet) /\ Len(queue') = Len(queue) - 1
      /\ \A k \in DOMAIN queue' : queue'[k] = queue[k + 1]
    OBVIOUS
<1>3. ASSUME NEW i \in DOMAIN queue, i # 1
      PROVE  i - 1 \in DOMAIN queue' /\ queue'[i - 1] = queue[i]
    BY <1>1, <1>2, <1>3
<1>4. \A n \in Names :
          /\ RemovalQueued(n) => RemovalQueued(n)' \/ Removes(Head(queue), n)
          /\ InstallQueued(n) => InstallQueued(n)' \/ Installs(Head(queue), n)
          /\ RestoreQueued(n) => RestoreQueued(n)' \/ Restores(Head(queue), n)
    BY <1>1, <1>3 DEF RemovalQueued, InstallQueued, RestoreQueued
<1>5. ASSUME NEW n \in Names, NEW d \in Names, Followed(n, d)
      PROVE  /\ Followed(n, d)'
             /\ Removes(Head(queue), d) => InstallQueued(n)'
    <2>1. ASSUME NEW k \in DOMAIN queue', Removes(queue'[k], d)
          PROVE  \E i \in DOMAIN queue' : i > k /\ Installs(queue'[i], n)
        <3>1. k + 1 \in DOMAIN queue /\ Removes(queue[k + 1], d)
            BY <1>1, <1>2, <2>1
        <3>2. PICK i \in DOMAIN queue : i > k + 1 /\ Installs(queue[i], n)
            BY <1>5, <3>1 DEF Followed
        <3>3. i - 1 > k /\ i # 1
            BY <1>1, <1>2, <3>2
        <3> QED BY <1>3, <3>2, <3>3
    <2>2. ASSUME Removes(Head(queue), d) PROVE InstallQueued(n)'
        <3>1. PICK i \in DOMAIN queue : i > 1 /\ Installs(queue[i], n)
            BY <1>1, <1>5, <2>2 DEF Followed
        <3>2. i # 1
            BY <1>1, <3>1
        <3>3. i - 1 \in DOMAIN queue' /\ Installs(queue'[i - 1], n)
            BY <1>3, <3>1, <3>2
        <3> QED BY <3>3 DEF InstallQueued
    <2> QED BY <2>1, <2>2 DEF Followed
<1> QED BY <1>4, <1>5

-----------------------------------------------------------------------------
(* Kinds of steps.                                                         *)

\* Once something was cancelled, failed or lost, only the worker's own
\* bookkeeping is promised.
LEMMA DirtyStep ==
    ASSUME TypeOK', Phases', dirty'
    PROVE  IInv'
BY DEF IInv, RemovalsFollowed, OwnedCleaned, Cleaned, NeededRestored, Restored,
   EnabledBrought, Brought, CurrentTarget

\* The end of a failed job, and a crash.
LEMMA FailedEnd ==
    ASSUME TypeOK', Finish(FALSE)
    PROVE  IInv'
<1>1. Phases'
    BY DEF Finish, Phases
<1> QED BY <1>1, DirtyStep DEF Finish

\* A call: a name stops being enabled only with a removal queued behind it, and
\* one that becomes enabled, or changes its version, has an install behind it.
LEMMA CallerStep ==
    ASSUME IInv, TypeOK', UNCHANGED <<inst, disk, job, pc, progress, misplanned>>,
           dirty => dirty', Promises,
           \A n \in Names : row'[n] # "enabled" => row[n] # "enabled" \/ RemovalQueued(n)',
           \A n \in Names : row'[n] = "enabled" =>
               \/ /\ row[n] = "enabled" /\ ver'[n] = ver[n]
                  /\ \A d \in Closure(n) :
                        /\ Followed(n, d) => Followed(n, d)'
                        /\ row'[d] # "enabled" => row[d] # "enabled"
               \/ /\ InstallQueued(n)'
                  /\ \A d \in Closure(n) :
                        /\ Followed(n, d)'
                        /\ row'[d] # "enabled" => RestoreQueued(d)'
    PROVE  IInv'
<1> USE DEF IInv, progress
<1>1. ASSUME NEW n \in Names, Restored(n) PROVE Restored(n)'
    BY <1>1 DEF Restored, Promises, Reconciling, WillEnable
<1>2. ASSUME NEW n \in Names, BeingRemoved(n)' PROVE BeingRemoved(n)
    BY <1>2 DEF BeingRemoved
<1>3. ASSUME NEW n \in Names, Cleaned(n) PROVE Cleaned(n)'
    BY <1>1, <1>3 DEF Cleaned, Promises, BeingRemoved
<1>4. ASSUME NEW n \in Names, Brought(n) PROVE Brought(n)'
    BY <1>4 DEF Brought, Promises, Reconciling
<1>5. Phases'
    BY DEF Phases
<1>6. RemovalsFollowed'
    <2> SUFFICES ASSUME NEW n \in Names \ misplanned', row'[n] = "enabled",
                        NEW d \in Closure(n), ~dirty'
                 PROVE  Followed(n, d)' /\ (BeingRemoved(d)' => InstallQueued(n)')
        BY DEF RemovalsFollowed
    <2>1. d \in Names /\ n \in Names
        BY ClosureClosed
    <2>2. CASE /\ row[n] = "enabled"
               /\ Followed(n, d) => Followed(n, d)'
        BY <1>2, <2>1, <2>2 DEF RemovalsFollowed, Promises
    <2> QED BY <2>1, <2>2
<1>7. OwnedCleaned'
    <2> SUFFICES ASSUME NEW n \in Names \ misplanned', row'[n] # "enabled", Owned(n)'
                 PROVE  Cleaned(n)'
        BY DEF OwnedCleaned
    <2>1. Owned(n)
        BY DEF Owned
    <2>2. CASE row[n] # "enabled"
        BY <1>3, <2>1, <2>2 DEF OwnedCleaned
    <2>3. CASE RemovalQueued(n)'
        BY <2>3 DEF Cleaned
    <2> QED BY <2>2, <2>3
<1>8. NeededRestored'
    <2> SUFFICES ASSUME NEW n \in Names \ misplanned', row'[n] = "enabled",
                        NEW d \in Closure(n), row'[d] # "enabled"
                 PROVE  Restored(d)'
        BY DEF NeededRestored
    <2>1. d \in Names /\ n \in Names
        BY ClosureClosed
    <2>2. CASE row[n] = "enabled" /\ row[d] # "enabled"
        BY <1>1, <2>1, <2>2 DEF NeededRestored
    <2>3. CASE RestoreQueued(d)'
        BY <2>3 DEF Restored
    <2> QED BY <2>1, <2>2, <2>3
<1>9. EnabledBrought'
    <2> SUFFICES ASSUME NEW n \in Names \ misplanned', row'[n] = "enabled"
                 PROVE  Good(n)' \/ Brought(n)'
        BY DEF EnabledBrought
    <2>1. CASE row[n] = "enabled" /\ ver'[n] = ver[n]
        BY <1>4, <2>1 DEF EnabledBrought, Good
    <2>2. CASE InstallQueued(n)'
        BY <2>2 DEF Brought
    <2> QED BY <2>1, <2>2
<1>10. CurrentTarget'
    <2> SUFFICES ASSUME pc' \in {"resolving", "publishing", "recording"},
                        row'[cur'] = "enabled", cur' \notin misplanned'
                 PROVE  ver'[cur'] \in {0, target'} \/ dirty' \/ InstallQueued(cur)'
        BY DEF CurrentTarget
    <2>1. cur \in Names /\ cur' = cur /\ target' = target
        BY DEF TypeOK
    <2>2. CASE row[cur] = "enabled" /\ ver'[cur] = ver[cur]
        BY <2>1, <2>2 DEF CurrentTarget, Promises
    <2>3. CASE InstallQueued(cur)'
        BY <2>3
    <2> QED BY <2>1, <2>2, <2>3
<1> QED BY <1>5, <1>6, <1>7, <1>8, <1>9, <1>10

\* A step of a job that changes no row and no removal's course.
LEMMA WorkerStep ==
    ASSUME IInv, TypeOK', Phases', CurrentTarget',
           UNCHANGED <<row, queue, dirty, misplanned>>,
           \A n \in Names : BeingRemoved(n)' => BeingRemoved(n),
           \A n \in Names : row[n] # "enabled" /\ Owned(n)' =>
               Owned(n) /\ (BeingRemoved(n) => BeingRemoved(n)'),
           \A n \in Names \ misplanned : row[n] = "enabled" =>
               (Good(n) \/ Brought(n) => Good(n)' \/ Brought(n)'),
           \A n \in Names : row[n] # "enabled" /\ Restored(n) => Restored(n)'
    PROVE  IInv'
<1> USE DEF IInv
<1>1. Promises /\ \A n, d \in Names : Followed(n, d) => Followed(n, d)'
    BY SameQueue
<1>2. RemovalsFollowed'
    <2> SUFFICES ASSUME NEW n \in Names \ misplanned, row[n] = "enabled",
                        NEW d \in Closure(n), ~dirty
                 PROVE  Followed(n, d)' /\ (BeingRemoved(d)' => InstallQueued(n)')
        BY DEF RemovalsFollowed
    <2>1. d \in Names /\ n \in Names
        BY ClosureClosed
    <2> QED BY <1>1, <2>1 DEF RemovalsFollowed, Promises
<1>3. OwnedCleaned'
    BY <1>1 DEF OwnedCleaned, Cleaned, Promises
<1>4. NeededRestored'
    <2> SUFFICES ASSUME NEW n \in Names \ misplanned, row[n] = "enabled",
                        NEW d \in Closure(n), row[d] # "enabled"
                 PROVE  Restored(d)'
        BY DEF NeededRestored
    <2>1. d \in Names
        BY ClosureClosed
    <2> QED BY <2>1 DEF NeededRestored
<1>5. EnabledBrought'
    BY DEF EnabledBrought
<1> QED BY <1>2, <1>3, <1>4, <1>5

-----------------------------------------------------------------------------
(* Calls.                                                                  *)

\* A call that only queues.
LEMMA QueueStep ==
    ASSUME IInv, TypeOK',
           UNCHANGED <<manifest, inst, disk, job, pc, progress, misplanned>>,
           dirty => dirty', Promises,
           \A n, d \in Names : Followed(n, d) => Followed(n, d)'
    PROVE  IInv'
<1>1. \A n \in Names : row'[n] # "enabled" => row[n] # "enabled" \/ RemovalQueued(n)'
    BY DEF manifest
<1>2. ASSUME NEW n \in Names, row'[n] = "enabled"
      PROVE  /\ row[n] = "enabled" /\ ver'[n] = ver[n]
             /\ \A d \in Closure(n) : /\ Followed(n, d) => Followed(n, d)'
                                      /\ row'[d] # "enabled" => row[d] # "enabled"
    BY <1>2, ClosureClosed DEF manifest
<1> QED BY <1>1, <1>2, CallerStep

\* A call that only writes the manifest.
LEMMA EditStep ==
    ASSUME IInv, TypeOK', NEW rows, NEW vers, NEW pins, Edit(rows, vers, pins),
           \A n \in Names : rows[n] = "enabled" <=> row[n] = "enabled",
           \A n \in Names : row[n] = "enabled" => vers[n] = ver[n]
    PROVE  IInv'
<1>1. Promises /\ \A n, d \in Names : Followed(n, d) => Followed(n, d)'
    BY SameQueue DEF Edit
<1>2. row' = rows /\ ver' = vers
    BY DEF Edit
<1>3. ASSUME NEW n \in Names, row'[n] = "enabled"
      PROVE  /\ row[n] = "enabled" /\ ver'[n] = ver[n]
             /\ \A d \in Closure(n) : /\ Followed(n, d) => Followed(n, d)'
                                      /\ row'[d] # "enabled" => row[d] # "enabled"
    BY <1>1, <1>2, <1>3, ClosureClosed
<1>4. UNCHANGED <<inst, disk, job, pc, progress, misplanned>> /\ (dirty => dirty')
    BY DEF Edit
<1> QED BY <1>1, <1>2, <1>3, <1>4, CallerStep

\* A call that writes the manifest and queues a job for what it wrote.
LEMMA TransactionStep ==
    ASSUME IInv, TypeOK', NEW k \in Kinds, NEW ns \in SUBSET Names,
           NEW rows, NEW vers, NEW pins, Transaction(k, ns, rows, vers, pins),
           \A n \in Names : rows[n] # "enabled" =>
               row[n] # "enabled" \/ (k \in {"uninstall", "disable"} /\ n \in ns),
           \A n \in Names : rows[n] = "enabled" =>
               \/ /\ row[n] = "enabled" /\ vers[n] = ver[n]
                  /\ \A d \in Closure(n) :
                        /\ k \in {"uninstall", "disable"} => d \notin ns
                        /\ rows[d] # "enabled" => row[d] # "enabled"
               \/ k = "install" /\ n \in ns /\ \A d \in ns : rows[d] = "enabled"
    PROVE  IInv'
<1>1. UNCHANGED <<inst, disk, job, pc, progress, misplanned>> /\ (dirty => dirty')
    BY DEF Transaction
<1>2. queue \in Seq(JobSet)
    BY DEF IInv, TypeOK
<1>3. ASSUME Reserved(k, ns, "refused"), UNCHANGED manifest PROVE IInv'
    <2> DEFINE j == [kind |-> k, names |-> ns, st |-> "refused"]
    <2>1. j \in JobSet /\ queue' = Append(queue, j)
        BY <1>3 DEF Reserved, JobSet
    <2>2. \A n \in Names : ~Removes(j, n)
        BY DEF Removes, Live
    <2> HIDE DEF j
    <2> QED BY <1>1, <1>2, <1>3, <2>1, <2>2, AppendQueue, QueueStep
<1>4. ASSUME Reserved(k, ns, "reserved"), row' = rows, ver' = vers PROVE IInv'
    <2> DEFINE j == [kind |-> k, names |-> ns, st |-> "reserved"]
    <2>1. j \in JobSet /\ queue' = Append(queue, j)
        BY <1>4 DEF Reserved, JobSet
    <2>2. \A n \in Names : Removes(j, n) <=> k \in {"uninstall", "disable"} /\ n \in ns
        BY DEF Removes, Live
    <2>3. ASSUME NEW n \in Names, k = "install", n \in ns, NEW d \in Closure(n)
          PROVE  Installs(j, d) /\ (d \notin ns => Restores(j, d))
        BY <2>3 DEF Installs, Restores, Live
    <2> HIDE DEF j
    <2>4. \A n \in Names : row'[n] # "enabled" => row[n] # "enabled" \/ RemovalQueued(n)'
        BY <1>2, <1>4, <2>1, <2>2, AppendQueue
    <2>5. Promises
        BY <1>2, <2>1, AppendQueue
    <2>6. ASSUME NEW n \in Names, row'[n] = "enabled"
          PROVE  \/ /\ row[n] = "enabled" /\ ver'[n] = ver[n]
                    /\ \A d \in Closure(n) :
                          /\ Followed(n, d) => Followed(n, d)'
                          /\ row'[d] # "enabled" => row[d] # "enabled"
                 \/ /\ InstallQueued(n)'
                    /\ \A d \in Closure(n) :
                          /\ Followed(n, d)'
                          /\ row'[d] # "enabled" => RestoreQueued(d)'
        <3>1. \A d \in Closure(n) : d \in Names
            BY ClosureClosed
        <3>2. CASE /\ row[n] = "enabled" /\ vers[n] = ver[n]
                   /\ \A d \in Closure(n) :
                         /\ k \in {"uninstall", "disable"} => d \notin ns
                         /\ rows[d] # "enabled" => row[d] # "enabled"
            BY <1>2, <1>4, <2>1, <2>2, <3>1, <3>2, AppendQueue
        <3>3. CASE k = "install" /\ n \in ns /\ \A d \in ns : rows[d] = "enabled"
            <4>1. Installs(j, n) /\ n \in Closure(n)
                BY <2>3, <3>3, ClosureClosed
            <4>2. \A d \in Names : ~Removes(j, d)
                BY <2>2, <3>3
            <4>3. InstallQueued(n)' /\ \A d \in Closure(n) : Followed(n, d)'
                BY <1>2, <2>1, <3>1, <4>1, <4>2, AppendQueue
            <4>4. \A d \in Closure(n) : row'[d] # "enabled" => RestoreQueued(d)'
                BY <1>2, <1>4, <2>1, <2>3, <3>1, <3>3, AppendQueue
            <4> QED BY <4>3, <4>4
        <3> QED BY <1>4, <2>6, <3>2, <3>3
    <2> QED BY <1>1, <2>4, <2>5, <2>6, CallerStep
<1> QED BY <1>3, <1>4 DEF Transaction

\* What a forced disable or remove leaves enabled needs nothing it takes.
LEMMA LeftNeedsNothingTaken ==
    ASSUME NEW n \in Names, NEW m \in Names \ ({n} \cup EnabledDependents(n)),
           row[m] = "enabled", NEW d \in Closure(m)
    PROVE  d \notin {n} \cup EnabledDependents(n)
<1> SUFFICES ASSUME d \in {n} \cup EnabledDependents(n) PROVE FALSE
    OBVIOUS
<1>1. d \in Names /\ d \in Cascade(n)
    BY ClosureClosed, CascadeClosed DEF EnabledDependents
<1>2. n \in Closure(d)
    BY <1>1, CascadeIsWhatReaches
<1>3. n \in Closure(m)
    BY <1>2, ClosureTransitive
<1>4. m \in Cascade(n) \ {n}
    BY <1>3, CascadeIsWhatReaches
<1> QED BY <1>4 DEF EnabledDependents

\* A Reconcile that queues a job of its own: it sees to everything.
LEMMA ReconcileStep == ASSUME IInv, TypeOK', Reconcile PROVE IInv'
<1>1. UNCHANGED <<manifest, inst, disk, job, pc, progress, misplanned>>
    BY DEF Reconcile
<1>2. CASE ReconcileQueued
    <2>1. UNCHANGED queue /\ (dirty => dirty')
        BY <1>2 DEF Reconcile
    <2> QED BY <1>1, <2>1, SameQueue, QueueStep
<1>3. CASE ~ReconcileQueued
    <2> DEFINE j == [kind |-> "reconcile", names |-> {}, st |-> "queued"]
    <2>1. j \in JobSet /\ queue' = Append(queue, j)
        BY <1>3 DEF Reconcile, JobSet, Kinds
    <2>2. \A n \in Names : Installs(j, n) /\ Restores(j, n) /\ ~Removes(j, n)
        BY DEF Installs, Restores, Removes, Live
    <2> HIDE DEF j
    <2>3. queue \in Seq(JobSet)
        BY DEF IInv, TypeOK
    <2>4. /\ \A n \in Names : InstallQueued(n)' /\ RestoreQueued(n)'
          /\ \A n, d \in Names : Followed(n, d)'
        BY <2>1, <2>2, <2>3, AppendQueue
    <2>5. Phases'
        BY <1>1 DEF IInv, Phases, progress
    <2>6. RemovalsFollowed'
        BY <2>4, ClosureClosed DEF RemovalsFollowed
    <2>7. NeededRestored'
        BY <2>4, ClosureClosed DEF NeededRestored, Restored
    <2>8. CurrentTarget'
        <3>1. pc' \in {"resolving", "publishing", "recording"} => cur' \in Names
            BY DEF TypeOK
        <3> QED BY <2>4, <3>1 DEF CurrentTarget
    <2> QED
        BY <2>4, <2>5, <2>6, <2>7, <2>8
        DEF IInv, OwnedCleaned, Cleaned, Restored, EnabledBrought, Brought
<1> QED BY <1>2, <1>3

LEMMA CallersStep == ASSUME IInv, Callers PROVE IInv'
<1>1. TypeOK'
    BY CallersType DEF IInv
<1> USE DEF IInv
<1>2. ASSUME NEW n \in Names, NEW v \in 1 .. Latest, Add(n, v) PROVE IInv'
    <2> DEFINE rows == [row EXCEPT ![n] = "enabled"]
               vers == [ver EXCEPT ![n] = v]
               pins == [pin EXCEPT ![n] = FALSE]
    <2>1. Transaction("install", {n}, rows, vers, pins) /\ row[n] # "enabled"
        BY <1>2 DEF Add
    <2>2. \A m \in Names : /\ rows[m] = IF m = n THEN "enabled" ELSE row[m]
                           /\ m # n => vers[m] = ver[m]
        BY DEF TypeOK
    <2> HIDE DEF rows, vers, pins
    <2> QED BY <1>1, <2>1, <2>2, ClosureClosed, TransactionStep DEF Kinds
<1>3. ASSUME NEW n \in Names, NEW v \in 1 .. Latest, PatchVersion(n, v) PROVE IInv'
    <2> DEFINE vers == [ver EXCEPT ![n] = v]
    <2>1. \A m \in Names \ {n} : vers[m] = ver[m]
        BY DEF TypeOK
    <2>2. CASE row[n] = "enabled"
        <3>1. Transaction("install", {n}, row, vers, pin)
            BY <1>3, <2>2 DEF PatchVersion
        <3> HIDE DEF vers
        <3> QED BY <1>1, <2>1, <2>2, <3>1, ClosureClosed, TransactionStep DEF Kinds
    <2>3. CASE row[n] # "enabled"
        <3>1. Edit(row, vers, pin)
            BY <1>3, <2>3 DEF PatchVersion
        <3> HIDE DEF vers
        <3> QED BY <1>1, <2>1, <2>3, <3>1, EditStep
    <2> QED BY <2>2, <2>3
<1>4. ASSUME NEW n \in Names, AddTemplate(n) PROVE IInv'
    <2> DEFINE rows == [row EXCEPT ![n] = "disabled"]
               vers == [ver EXCEPT ![n] = 0]
               pins == [pin EXCEPT ![n] = FALSE]
    <2>1. Edit(rows, vers, pins) /\ row[n] # "enabled"
        BY <1>4 DEF AddTemplate
    <2>2. \A m \in Names : /\ rows[m] = IF m = n THEN "disabled" ELSE row[m]
                           /\ m # n => vers[m] = ver[m]
        BY DEF TypeOK
    <2> HIDE DEF rows, vers, pins
    <2> QED BY <1>1, <2>1, <2>2, EditStep
<1>5. ASSUME NEW n \in Names, Enable(n) PROVE IInv'
    <2> DEFINE rows == [row EXCEPT ![n] = "enabled"]
    <2>1. Transaction("install", {n}, rows, ver, pin) /\ row[n] # "enabled"
        BY <1>5 DEF Enable
    <2>2. \A m \in Names : rows[m] = IF m = n THEN "enabled" ELSE row[m]
        BY DEF TypeOK
    <2> HIDE DEF rows
    <2> QED BY <1>1, <2>1, <2>2, ClosureClosed, TransactionStep DEF Kinds
<1>6. ASSUME NEW n \in Names, Disable(n) PROVE IInv'
    <2> DEFINE taken == {n} \cup EnabledDependents(n)
               rows  == [m \in Names |-> IF m \in taken THEN "disabled" ELSE row[m]]
    <2>1. Transaction("disable", taken, rows, ver, pin)
        BY <1>6 DEF Disable
    <2>2. taken \in SUBSET Names
        BY CascadeType
    <2>3. \A m \in Names \ taken : row[m] = "enabled" =>
              \A d \in Closure(m) : d \notin taken /\ d \in Names
        BY LeftNeedsNothingTaken, ClosureClosed
    <2>4. \A m \in Names : rows[m] = IF m \in taken THEN "disabled" ELSE row[m]
        OBVIOUS
    <2> HIDE DEF taken, rows
    <2> QED BY <1>1, <2>1, <2>2, <2>3, <2>4, TransactionStep DEF Kinds
<1>7. ASSUME NEW n \in Names, PatchPin(n) PROVE IInv'
    <2>1. Edit(row, ver, [pin EXCEPT ![n] = ~@])
        BY <1>7 DEF PatchPin
    <2> QED BY <1>1, <2>1, EditStep
<1>8. ASSUME NEW n \in Names, RemoveTool(n) PROVE IInv'
    <2> DEFINE taken == {n} \cup EnabledDependents(n)
               rows  == [m \in Names |-> IF m \in taken THEN "absent" ELSE row[m]]
               vers  == [m \in Names |-> IF m \in taken THEN 0 ELSE ver[m]]
               pins  == [m \in Names |-> IF m \in taken THEN FALSE ELSE pin[m]]
    <2>1. Transaction("uninstall", taken, rows, vers, pins)
        BY <1>8 DEF RemoveTool
    <2>2. taken \in SUBSET Names
        BY CascadeType
    <2>3. \A m \in Names \ taken : row[m] = "enabled" =>
              \A d \in Closure(m) : d \notin taken /\ d \in Names
        BY LeftNeedsNothingTaken, ClosureClosed
    <2>4. \A m \in Names : /\ rows[m] = IF m \in taken THEN "absent" ELSE row[m]
                           /\ m \notin taken => vers[m] = ver[m]
        OBVIOUS
    <2> HIDE DEF taken, rows, vers, pins
    <2> QED BY <1>1, <2>1, <2>2, <2>3, <2>4, TransactionStep DEF Kinds
<1>9. ASSUME NEW n \in Names, InstallAsk(n) PROVE IInv'
    <2>1. /\ UNCHANGED <<manifest, inst, disk, queue, job, pc, progress, misplanned>>
          /\ dirty => dirty'
        BY <1>9 DEF InstallAsk
    <2> QED BY <1>1, <2>1, SameQueue, QueueStep
<1>10. ASSUME NEW ns \in SUBSET Names, Update(ns) PROVE IInv'
    <2> DEFINE j == [kind |-> "update", names |-> ns, st |-> "queued"]
    <2>1. j \in JobSet /\ queue' = Append(queue, j)
        BY <1>10 DEF Update, Reserved, JobSet, Kinds
    <2>2. \A n \in Names : ~Removes(j, n)
        BY DEF Removes
    <2> HIDE DEF j
    <2>3. /\ UNCHANGED <<manifest, inst, disk, job, pc, progress, misplanned>>
          /\ dirty => dirty'
        BY <1>10 DEF Update
    <2>4. queue \in Seq(JobSet)
        BY DEF TypeOK
    <2> QED BY <1>1, <2>1, <2>2, <2>3, <2>4, AppendQueue, QueueStep
<1>11. ASSUME Reconcile PROVE IInv'
    BY <1>1, <1>11, ReconcileStep
<1>12. ASSUME NEW i \in DOMAIN queue, CancelQueued(i) PROVE IInv'
    <2>1. Phases' /\ dirty'
        BY <1>12 DEF CancelQueued, Phases, progress
    <2> QED BY <1>1, <2>1, DirtyStep
<1>13. ASSUME NEW n \in Names, EnsureInstalled(n) PROVE IInv'
    <2>1. Latest \in 1 .. Latest
        BY EngineAssumption
    <2> QED BY <1>2, <1>5, <1>9, <1>13, <2>1 DEF EnsureInstalled
<1> QED
    BY <1>2, <1>3, <1>4, <1>5, <1>6, <1>7, <1>8, <1>9, <1>10, <1>11, <1>12, <1>13 DEF Callers

LEMMA ReturnsStep == ASSUME IInv, Returns PROVE IInv'
<1>1. TypeOK'
    BY ReturnsType DEF IInv
<1>2. queue \in Seq(JobSet)
    BY DEF IInv, TypeOK
<1>3. ASSUME NEW i \in DOMAIN queue, CommitJob(i) PROVE IInv'
    <2>1. /\ UNCHANGED <<manifest, inst, disk, job, pc, progress, misplanned>>
          /\ dirty => dirty'
        BY <1>3 DEF CommitJob
    <2> QED BY <1>1, <1>2, <1>3, <2>1, CommitQueue, QueueStep
<1>4. ASSUME NEW n \in Names, InstallEnqueue(n) PROVE IInv'
    <2> DEFINE j == [kind |-> "install", names |-> {n}, st |-> "queued"]
    <2>1. /\ UNCHANGED <<manifest, inst, disk, job, pc, progress, misplanned>>
          /\ dirty => dirty'
        BY <1>4 DEF InstallEnqueue
    <2>2. \A m \in Names : ~Removes(j, m)
        BY DEF Removes
    <2>3. j \in JobSet
        BY DEF JobSet, Kinds
    <2>4. queue' = Append(queue, j) \/ UNCHANGED queue
        BY <1>4 DEF InstallEnqueue, Reserved
    <2> HIDE DEF j
    <2>5. CASE queue' = Append(queue, j)
        BY <1>1, <1>2, <2>1, <2>2, <2>3, <2>5, AppendQueue, QueueStep
    <2>6. CASE UNCHANGED queue
        BY <1>1, <2>1, <2>6, SameQueue, QueueStep
    <2> QED BY <2>4, <2>5, <2>6
<1> QED BY <1>3, <1>4 DEF Returns

-----------------------------------------------------------------------------
(* The worker.                                                             *)

LEMMA TakeStep == ASSUME IInv, Take PROVE IInv'
<1> USE DEF IInv
<1>1. TypeOK'
    BY LoadType
<1>2. queue \in Seq(JobSet) /\ queue # <<>> /\ queue' = Tail(queue)
    BY DEF Take, TypeOK
<1> DEFINE j == Head(queue)
<1>3. /\ pc = "idle" /\ ok /\ roots = {} /\ seen = {} /\ ordered = {} /\ failed = {}
      /\ UNCHANGED <<row, ver, inst, disk, dirty, misplanned, ok, seen, ordered, failed>>
      /\ job' = j
      /\ j.kind \in {"uninstall", "disable"} =>
            pc' = "removing" /\ todo' = {n \in j.names : j.kind = "disable" => inst[n] # 0}
      /\ j.kind \notin {"uninstall", "disable"} => pc' = "loading" /\ todo' = {}
      /\ roots' = IF j.kind = "install" THEN j.names ELSE {}
    BY DEF Take, Phases, manifest
<1>4. /\ \A n \in Names :
            /\ RemovalQueued(n) => RemovalQueued(n)' \/ Removes(j, n)
            /\ InstallQueued(n) => InstallQueued(n)' \/ Installs(j, n)
            /\ RestoreQueued(n) => RestoreQueued(n)' \/ Restores(j, n)
      /\ \A n, d \in Names :
            Followed(n, d) => /\ Followed(n, d)'
                              /\ Removes(j, d) => InstallQueued(n)'
    BY <1>2, TakeQueue
<1>5. j \in JobSet /\ Live(j)
    BY <1>2, QueueType DEF Take, Live
<1> HIDE DEF j
<1>6. Phases'
    BY <1>3 DEF Phases
<1>7. ASSUME NEW n \in Names, Restored(n) PROVE Restored(n)'
    <2>1. RestoreQueued(n) \/ dirty
        BY <1>3, <1>7 DEF Restored, Reconciling, WillEnable
    <2>2. CASE Restores(j, n)
        <3>1. CASE j.kind = "reconcile"
            BY <1>3, <3>1 DEF Restored, Reconciling
        <3>2. CASE j.kind = "install"
            BY <1>3, <2>2, <3>2 DEF Restores, Installs, Restored, WillEnable
        <3> QED BY <2>2, <3>1, <3>2 DEF Restores, Installs
    <2> QED BY <1>3, <1>4, <2>1, <2>2 DEF Restored
<1>8. \A n \in Names : BeingRemoved(n)' => Removes(j, n)
    BY <1>3, <1>5 DEF BeingRemoved, Removes
<1>9. RemovalsFollowed'
    <2> SUFFICES ASSUME NEW n \in Names \ misplanned, row[n] = "enabled",
                        NEW d \in Closure(n), ~dirty
                 PROVE  Followed(n, d)' /\ (BeingRemoved(d)' => InstallQueued(n)')
        BY <1>3 DEF RemovalsFollowed
    <2>1. d \in Names
        BY ClosureClosed
    <2> QED BY <1>4, <1>8, <2>1 DEF RemovalsFollowed
<1>10. OwnedCleaned'
    <2> SUFFICES ASSUME NEW n \in Names \ misplanned, row[n] # "enabled", Owned(n)'
                 PROVE  Cleaned(n)'
        BY <1>3 DEF OwnedCleaned
    <2>1. inst[n] # 0
        BY <1>3 DEF Owned
    <2>2. Cleaned(n)
        BY <2>1 DEF OwnedCleaned, Owned
    <2>3. CASE RemovalQueued(n)
        <3>1. CASE Removes(j, n)
            <4>1. BeingRemoved(n)'
                BY <1>3, <2>1, <3>1 DEF Removes, BeingRemoved
            <4> QED BY <4>1 DEF Cleaned
        <3> QED BY <1>4, <2>3, <3>1 DEF Cleaned
    <2>4. CASE BeingRemoved(n)
        BY <1>3, <2>4 DEF BeingRemoved
    <2> QED BY <1>7, <2>2, <2>3, <2>4 DEF Cleaned
<1>11. NeededRestored'
    <2> SUFFICES ASSUME NEW n \in Names \ misplanned, row[n] = "enabled",
                        NEW d \in Closure(n), row[d] # "enabled"
                 PROVE  Restored(d)'
        BY <1>3 DEF NeededRestored
    <2> QED BY <1>7, ClosureClosed DEF NeededRestored
<1>12. EnabledBrought'
    <2> SUFFICES ASSUME NEW n \in Names \ misplanned, row[n] = "enabled", ~Good(n), ~dirty
                 PROVE  Brought(n)'
        BY <1>3 DEF EnabledBrought, Good, Brought
    <2>1. InstallQueued(n)
        BY <1>3 DEF EnabledBrought, Brought, Reconciling
    <2>2. CASE Installs(j, n)
        <3>1. CASE j.kind = "reconcile"
            BY <1>3, <3>1 DEF Brought, Reconciling
        <3>2. CASE j.kind = "install"
            BY <1>3, <2>2, <3>2 DEF Installs, Brought
        <3> QED BY <2>2, <3>1, <3>2 DEF Installs
    <2> QED BY <1>4, <2>1, <2>2 DEF Brought
<1>13. CurrentTarget'
    BY <1>3 DEF CurrentTarget
<1> QED BY <1>1, <1>6, <1>9, <1>10, <1>11, <1>12, <1>13

LEMMA LoadStep == ASSUME IInv, LoadInstall \/ LoadUpdate PROVE IInv'
<1> USE DEF IInv
<1>1. TypeOK'
    BY LoadType
<1>2. /\ pc = "loading" /\ pc' \in {"planning", "checking"}
      /\ UNCHANGED <<row, ver, inst, disk, queue, dirty, misplanned, ok, seen, ordered,
                     failed, roots, cur, target, bumped>>
      /\ pc' = "planning" => snap'.row = row /\ roots # {}
      /\ pc' = "checking" => roots = {} /\ job.kind = "update"
    BY DEF LoadInstall, LoadUpdate, manifest
<1>3. seen = {} /\ ordered = {} /\ failed = {}
    BY <1>2 DEF Phases
<1>4. Phases' /\ CurrentTarget'
    BY <1>2, <1>3 DEF Phases, CurrentTarget
<1>5. Promises
    BY <1>2, SameQueue
<1>6. ASSUME NEW n \in Names, row[n] # "enabled", Restored(n) PROVE Restored(n)'
    BY <1>2, <1>3, <1>5, <1>6 DEF Restored, Promises, Reconciling, WillEnable
<1>7. ASSUME NEW n \in Names, Good(n) \/ Brought(n) PROVE Good(n)' \/ Brought(n)'
    BY <1>2, <1>3, <1>5, <1>7 DEF Good, Brought, Promises, Reconciling
<1>8. \A n \in Names : ~BeingRemoved(n) /\ ~BeingRemoved(n)' /\ (Owned(n)' => Owned(n))
    BY <1>2 DEF BeingRemoved, Owned
<1> QED BY <1>1, <1>2, <1>4, <1>6, <1>7, <1>8, WorkerStep

\* An enabled row whose requirements are not all enabled has one below it that is
\* missing, and so will reach them.
LEMMA MissingReaches ==
    ASSUME NEW n \in Names, row[n] = "enabled", NEW d \in Closure(n), row[d] # "enabled"
    PROVE  \E m \in Missing : d \in Closure(m)
<1> SUFFICES ASSUME \A m \in Missing : d \notin Closure(m) PROVE FALSE
    OBVIOUS
<1> DEFINE S == {x \in Names : x # d /\ (d \in Closure(x) => row[x] = "enabled")}
<1>1. ASSUME NEW x \in S, NEW y \in Requires[x] PROVE y \in S
    <2>1. x \in Names /\ y \in Names /\ y \in Closure(x)
        BY ClosureClosed, EngineAssumption
    <2>2. CASE d \notin Closure(x)
        BY <2>1, <2>2, ClosureClosed, ClosureTransitive
    <2>3. CASE d \in Closure(x)
        <3>1. row[y] = "enabled"
            BY <2>1, <2>3 DEF Missing, Converged
        <3> QED BY <2>1, <3>1
    <2> QED BY <2>2, <2>3
<1>2. n \in S
    OBVIOUS
<1>3. d \in S
    <2>1. S \in SUBSET Names /\ \A x \in S : Requires[x] \subseteq S
        BY <1>1
    <2> HIDE DEF S
    <2> QED BY <1>2, <2>1 DEF Closure
<1> QED BY <1>3

LEMMA LoadReconcileStep == ASSUME IInv, LoadReconcile PROVE IInv'
<1> USE DEF IInv
<1>1. TypeOK'
    BY LoadType
<1>2. /\ pc = "loading" /\ pc' = "removing" /\ todo' = Unwanted /\ roots' = Missing
      /\ roots = {}
      /\ UNCHANGED <<row, ver, inst, disk, queue, dirty, misplanned, ok, seen, ordered,
                     failed, cur, target>>
    BY DEF LoadReconcile, manifest
<1>3. Phases' /\ CurrentTarget'
    BY <1>2 DEF Phases, CurrentTarget
<1>4. Promises /\ \A n, d \in Names : Followed(n, d) => Followed(n, d)'
    BY <1>2, SameQueue
<1>5. ASSUME NEW n \in Names, row[n] = "enabled", NEW d \in Closure(n), row[d] # "enabled"
      PROVE  d \in Needed /\ WillEnable(d)'
    <2>1. PICK m \in Missing : d \in Closure(m)
        BY <1>5, MissingReaches
    <2>2. d \notin Missing
        BY <1>5 DEF Missing
    <2> QED BY <1>2, <2>1, <2>2 DEF Needed, WillEnable
<1>6. RemovalsFollowed'
    <2> SUFFICES ASSUME NEW n \in Names \ misplanned, row[n] = "enabled",
                        NEW d \in Closure(n), ~dirty
                 PROVE  Followed(n, d)' /\ (BeingRemoved(d)' => InstallQueued(n)')
        BY <1>2 DEF RemovalsFollowed
    <2>1. d \in Names
        BY ClosureClosed
    <2>2. ~BeingRemoved(d)'
        BY <1>2, <1>5 DEF BeingRemoved, Unwanted
    <2> QED BY <1>4, <2>1, <2>2 DEF RemovalsFollowed
<1>7. OwnedCleaned'
    <2> SUFFICES ASSUME NEW n \in Names \ misplanned, row[n] # "enabled", Owned(n)'
                 PROVE  Cleaned(n)'
        BY <1>2 DEF OwnedCleaned
    <2>1. inst[n] # 0
        BY <1>2 DEF Owned
    <2>2. CASE n \in Needed
        <3>1. PICK m \in Missing : n \in Closure(m)
            BY <2>2 DEF Needed
        <3>2. n \notin Missing
            BY DEF Missing
        <3> QED BY <1>2, <3>1, <3>2 DEF Cleaned, Restored, WillEnable
    <2>3. CASE n \notin Needed
        BY <1>2, <2>1, <2>3 DEF Unwanted, Cleaned, BeingRemoved
    <2> QED BY <2>2, <2>3
<1>8. NeededRestored'
    BY <1>2, <1>5 DEF NeededRestored, Restored
<1>9. EnabledBrought'
    <2> SUFFICES ASSUME NEW n \in Names \ misplanned, row[n] = "enabled"
                 PROVE  Good(n)' \/ Brought(n)'
        BY <1>2 DEF EnabledBrought
    <2>1. CASE n \in Missing
        BY <1>2, <2>1, ClosureClosed DEF Brought
    <2>2. CASE n \notin Missing
        <3>1. Good(n)
            BY <2>2 DEF Missing, Converged, Probed, Good
        <3> QED BY <1>2, <3>1 DEF Good
    <2> QED BY <2>1, <2>2
<1> QED BY <1>1, <1>3, <1>6, <1>7, <1>8, <1>9

LEMMA PlanFailsStep == ASSUME IInv, NEW r \in Names, PlanFails(r) PROVE IInv'
<1> USE DEF IInv
<1>1. TypeOK'
    BY PlanType
<1>2. /\ pc = "planning" /\ pc' = "planning" /\ ~ok'
      /\ UNCHANGED <<row, queue, dirty, misplanned, seen, ordered, failed, todo, inst, cur>>
    BY DEF PlanFails, manifest
<1>3. Phases' /\ CurrentTarget'
    BY <1>2 DEF Phases, CurrentTarget
<1>4. \A n \in Names : Restored(n)' /\ Brought(n)'
    BY <1>2 DEF Restored, Brought
<1>5. \A n \in Names : ~BeingRemoved(n) /\ ~BeingRemoved(n)' /\ (Owned(n)' => Owned(n))
    BY <1>2 DEF BeingRemoved, Owned
<1> QED BY <1>1, <1>2, <1>3, <1>4, <1>5, WorkerStep

LEMMA PlanRootStep == ASSUME IInv, NEW r \in Names, PlanRoot(r) PROVE IInv'
<1> USE DEF IInv
<1>1. TypeOK'
    BY PlanType
<1>2. /\ pc = "planning" /\ pc' = "planning" /\ r \in roots
      /\ seen' = seen \cup Walk(r) /\ ordered' = ordered \cup Walk(r) /\ roots' = roots \ {r}
      /\ UNCHANGED <<inst, disk, queue, job, todo, failed, cur, target, ok, dirty>>
      /\ misplanned \subseteq misplanned'
      /\ \A n \in Names : Closure(n) \cap Yielded(r) # {} => n \in misplanned'
      /\ \A n \in Written(r) \ misplanned' : row[r] = "enabled" /\ r \notin misplanned
    BY DEF PlanRoot
<1>3. \A n \in Names : row'[n] = IF n \in Written(r) THEN "enabled" ELSE row[n]
    BY DEF PlanRoot
<1>4. \A n \in Names : row[n] = "enabled" => ver'[n] = ver[n]
    BY DEF PlanRoot, TypeOK
<1>5. \A n \in Names \ Walk(r) : snap'.row[n] = snap.row[n]
    BY <1>1 DEF PlanRoot, TypeOK, Manifest, Adopted, Enabled
<1>6. Walk(r) = Closure(r) \ seen /\ Written(r) \subseteq Walk(r)
    BY DEF Walk, Written, Adopted, Enabled
<1>7. Promises /\ \A n, d \in Names : Followed(n, d) => Followed(n, d)'
    BY <1>2, SameQueue
<1>8. Phases' /\ CurrentTarget'
    BY <1>2 DEF Phases, CurrentTarget
\* A name the plan walks and does not enable was enabled when it was read, or
\* is its root, or yielded.
<1>9. ASSUME NEW n \in Walk(r), n \notin Written(r), row[n] # "enabled", n # r,
             snap.row[n] # "enabled"
      PROVE  n \in Yielded(r)
    <2>1. n \in Names /\ row[n] \in {"absent", "disabled"}
        BY <1>6, <1>9, ClosureClosed DEF TypeOK
    <2>2. snap.row[n] \in {"absent", "disabled"}
        BY <1>9, <2>1 DEF TypeOK, Manifest
    <2> QED BY <1>9, <2>1, <2>2 DEF Written, Yielded, Adopted, Enabled
<1>10. ASSUME NEW n \in Names, Restored(n), row'[n] # "enabled"
       PROVE  Restored(n)' \/ n \in Yielded(r)
    <2>1. CASE WillEnable(n)
        <3>1. PICK q \in roots : n \in Closure(q)
            BY <2>1 DEF WillEnable
        <3>2. n \notin roots /\ n # r /\ snap.row[n] # "enabled" /\ n \notin seen
            BY <1>2, <2>1 DEF WillEnable
        <3>3. CASE n \in Walk(r)
            BY <1>3, <1>9, <1>10, <3>2, <3>3
        <3>4. CASE n \notin Walk(r)
            <4>1. q # r
                BY <1>6, <3>1, <3>2, <3>4
            <4> QED BY <1>2, <1>5, <3>1, <3>2, <3>4, <4>1 DEF WillEnable, Restored
        <3> QED BY <3>3, <3>4
    <2>2. CASE ~WillEnable(n)
        BY <1>2, <1>7, <1>10, <2>2 DEF Restored, Promises, Reconciling
    <2> QED BY <2>1, <2>2
<1>11. \A n \in Names : ~BeingRemoved(n) /\ ~BeingRemoved(n)' /\ (Owned(n)' => Owned(n))
    BY <1>2 DEF BeingRemoved, Owned
<1>12. RemovalsFollowed'
    <2> SUFFICES ASSUME NEW n \in Names \ misplanned', row'[n] = "enabled",
                        NEW d \in Closure(n), ~dirty
                 PROVE  Followed(n, d)'
        BY <1>2, <1>11, ClosureClosed DEF RemovalsFollowed
    <2>1. d \in Names
        BY ClosureClosed
    <2>2. CASE row[n] = "enabled"
        BY <1>2, <1>7, <2>1, <2>2 DEF RemovalsFollowed
    <2>3. CASE n \in Written(r)
        <3>1. row[r] = "enabled" /\ r \notin misplanned /\ n \in Closure(r) /\ d \in Closure(r)
            BY <1>2, <1>6, <2>3, ClosureTransitive
        <3>2. Followed(r, d)
            BY <3>1 DEF RemovalsFollowed
        <3>3. ASSUME NEW k \in DOMAIN queue, Removes(queue[k], d)
              PROVE  \E i \in DOMAIN queue : i > k /\ Installs(queue[i], n)
            <4>1. PICK i \in DOMAIN queue : i > k /\ Installs(queue[i], r)
                BY <3>2, <3>3 DEF Followed
            <4>2. queue[i].names \subseteq Names
                <5>1. queue[i] \in JobSet
                    BY DEF TypeOK
                <5> QED BY <5>1 DEF JobSet
            <4>3. Installs(queue[i], n)
                BY <3>1, <4>1, <4>2, ClosureTransitive DEF Installs
            <4> QED BY <4>1, <4>3
        <3> QED BY <1>2, <3>3 DEF Followed
    <2> QED BY <1>3, <2>2, <2>3
<1>13. OwnedCleaned'
    <2> SUFFICES ASSUME NEW n \in Names \ misplanned', row'[n] # "enabled", Owned(n)'
                 PROVE  Cleaned(n)'
        BY DEF OwnedCleaned
    <2>1. row[n] # "enabled" /\ Owned(n) /\ n \notin misplanned
        BY <1>2, <1>3, <1>11
    <2>2. Cleaned(n)
        BY <2>1 DEF OwnedCleaned
    <2>3. n \notin Yielded(r)
        BY <1>2, ClosureClosed
    <2> QED BY <1>7, <1>10, <1>11, <2>2, <2>3 DEF Cleaned, Promises
<1>14. NeededRestored'
    <2> SUFFICES ASSUME NEW n \in Names \ misplanned', row'[n] = "enabled",
                        NEW d \in Closure(n), row'[d] # "enabled"
                 PROVE  Restored(d)'
        BY DEF NeededRestored
    <2>1. d \in Names /\ d \notin Yielded(r) /\ row[d] # "enabled"
        BY <1>2, <1>3, ClosureClosed
    <2>2. CASE row[n] = "enabled"
        BY <1>2, <1>10, <2>1, <2>2 DEF NeededRestored
    <2>3. CASE n \in Written(r)
        <3>1. row[r] = "enabled" /\ r \notin misplanned /\ d \in Closure(r)
            BY <1>2, <1>6, <2>3, ClosureTransitive
        <3> QED BY <1>10, <2>1, <3>1 DEF NeededRestored
    <2> QED BY <1>3, <2>2, <2>3
<1>15. EnabledBrought'
    <2> SUFFICES ASSUME NEW n \in Names \ misplanned', row'[n] = "enabled"
                 PROVE  Good(n)' \/ Brought(n)'
        BY DEF EnabledBrought
    <2>1. CASE n \in Walk(r) \/ n \in ordered
        BY <1>2, <2>1 DEF Brought
    <2>2. CASE n \notin Walk(r) /\ n \notin ordered
        <3>1. row[n] = "enabled" /\ ver'[n] = ver[n] /\ n \notin misplanned
            BY <1>2, <1>3, <1>4, <1>6, <2>2
        <3>2. n \notin Closure(r)
            BY <1>2, <1>6, <2>2 DEF Phases
        <3>3. CASE Good(n)
            BY <1>2, <3>1, <3>3 DEF Good
        <3>4. CASE Brought(n)
            <4> QED BY <1>2, <1>7, <2>2, <3>2, <3>4 DEF Brought, Promises, Reconciling
        <3> QED BY <3>1, <3>3, <3>4 DEF EnabledBrought
    <2> QED BY <2>1, <2>2
<1> QED BY <1>1, <1>8, <1>12, <1>13, <1>14, <1>15

LEMMA PlanEndsStep == ASSUME IInv, PlanEnds PROVE IInv'
<1> USE DEF IInv
<1>1. TypeOK'
    BY PlanType
<1>2. /\ pc = "planning" /\ pc' = "installing" /\ roots = {}
      /\ UNCHANGED <<row, ver, inst, disk, queue, dirty, misplanned, progress, job>>
    BY DEF PlanEnds, manifest
<1>3. Phases' /\ CurrentTarget'
    BY <1>2 DEF Phases, CurrentTarget, progress
<1>4. Promises
    BY <1>2, SameQueue
<1>5. \A n \in Names : Restored(n) => Restored(n)'
    BY <1>2, <1>4 DEF Restored, Promises, Reconciling, WillEnable, progress
<1>6. \A n \in Names : Good(n) \/ Brought(n) => Good(n)' \/ Brought(n)'
    BY <1>2, <1>4 DEF Good, Brought, Promises, Reconciling, progress
<1>7. \A n \in Names : ~BeingRemoved(n) /\ ~BeingRemoved(n)' /\ (Owned(n)' => Owned(n))
    BY <1>2 DEF BeingRemoved, Owned
<1> QED BY <1>1, <1>2, <1>3, <1>5, <1>6, <1>7, WorkerStep

\* While tools are installed no plan is left to restore anything.
LEMMA RestoredKept ==
    ASSUME pc \in {"installing", "resolving", "publishing", "recording", "checking",
                   "bumping"},
           UNCHANGED <<queue, dirty, ok>>, NEW n \in Names, Restored(n)
    PROVE  Restored(n)'
<1>1. Promises
    BY SameQueue
<1> QED BY <1>1 DEF Restored, Promises, Reconciling, WillEnable

LEMMA SkipStep ==
    ASSUME IInv, NEW m \in Names, SkipBlocked(m) \/ SkipDone(m)
    PROVE  IInv'
<1> USE DEF IInv
<1>1. TypeOK'
    BY InstallType
<1>2. /\ pc = "installing" /\ pc' = "installing" /\ ordered' = ordered \ {m}
      /\ failed' = failed \/ failed' # {}
      /\ UNCHANGED <<row, ver, inst, disk, queue, dirty, misplanned, ok, roots, bumped, job>>
    BY DEF SkipBlocked, SkipDone, NextTool, manifest
<1>3. Phases' /\ CurrentTarget'
    BY <1>2 DEF Phases, CurrentTarget
<1>4. Promises
    BY <1>2, SameQueue
<1>5. \A n \in Names : Restored(n) => Restored(n)'
    BY <1>2, RestoredKept
<1>6. ASSUME NEW n \in Names, row[n] = "enabled", Good(n) \/ Brought(n)
      PROVE  Good(n)' \/ Brought(n)'
    <2>1. CASE failed' # {}
        BY <2>1 DEF Brought
    <2>2. CASE failed' = {} /\ n = m
        <3>1. ver[m] # 0 /\ inst[m] = ver[m] /\ Probed(m)
            BY <1>6, <2>2 DEF SkipDone, SkipBlocked
        <3>2. inst[m] = ver[m] /\ disk[m] = inst[m] /\ disk[m] # 0
            BY <3>1 DEF Probed
        <3> QED BY <1>2, <2>2, <3>2 DEF Good
    <2>3. CASE failed' = {} /\ n # m
        BY <1>2, <1>4, <1>6, <2>3 DEF Good, Brought, Promises, Reconciling
    <2> QED BY <2>1, <2>2, <2>3
<1>7. \A n \in Names : ~BeingRemoved(n) /\ ~BeingRemoved(n)' /\ (Owned(n)' => Owned(n))
    BY <1>2 DEF BeingRemoved, Owned
<1> QED BY <1>1, <1>2, <1>3, <1>5, <1>6, <1>7, WorkerStep

LEMMA ResolveStep == ASSUME IInv, NEW m \in Names, Resolve(m) PROVE IInv'
<1> USE DEF IInv
<1>1. TypeOK'
    BY InstallType
<1>2. /\ pc = "installing" /\ pc' \in {"resolving", "publishing"}
      /\ cur' = m /\ row[m] = "enabled"
      /\ ver[m] = 0 \/ target' = ver[m]
      /\ UNCHANGED <<row, ver, inst, disk, queue, dirty, misplanned, ok, roots, bumped, job,
                     ordered, failed>>
    BY DEF Resolve, NextTool, manifest
<1>3. Phases' /\ CurrentTarget'
    BY <1>2 DEF Phases, CurrentTarget
<1>4. Promises
    BY <1>2, SameQueue
<1>5. \A n \in Names : Restored(n) => Restored(n)'
    BY <1>2, RestoredKept
<1>6. \A n \in Names : Good(n) \/ Brought(n) => Good(n)' \/ Brought(n)'
    BY <1>2, <1>4 DEF Good, Brought, Promises, Reconciling
<1>7. \A n \in Names : /\ ~BeingRemoved(n) /\ ~BeingRemoved(n)'
                       /\ row[n] # "enabled" /\ Owned(n)' => Owned(n)
    BY <1>2 DEF BeingRemoved, Owned
<1> QED BY <1>1, <1>2, <1>3, <1>5, <1>6, <1>7, WorkerStep

LEMMA PublishStep ==
    ASSUME IInv, PersistVersion \/ PublishTool
    PROVE  IInv'
<1> USE DEF IInv
<1>1. TypeOK'
    BY InstallType
<1>2. /\ pc \in {"resolving", "publishing"} /\ pc' \in {"publishing", "recording"}
      /\ cur \in ordered /\ cur \in Names
      /\ UNCHANGED <<row, inst, queue, dirty, misplanned, progress, job>>
      /\ ver' = ver \/ (ver[cur] = 0 /\ ver' = [ver EXCEPT ![cur] = target])
      /\ \/ disk' = disk /\ pc' = "publishing"
         \/ disk' = [disk EXCEPT ![cur] = target] /\ pc' = "recording"
    BY DEF PersistVersion, PublishTool, manifest, TypeOK
<1>3. /\ \A n \in Names \ {cur} : ver'[n] = ver[n] /\ disk'[n] = disk[n]
      /\ ver'[cur] \in {ver[cur], target}
      /\ pc' = "recording" => disk'[cur] = target
    BY <1>2 DEF TypeOK
<1>4. Phases'
    BY <1>2, <1>3 DEF Phases, progress
<1>5. Promises
    BY <1>2, SameQueue
<1>6. CurrentTarget'
    BY <1>2, <1>3, <1>5 DEF CurrentTarget, Promises, progress
<1>7. \A n \in Names : Restored(n) => Restored(n)'
    BY <1>2, RestoredKept DEF progress
<1>8. ASSUME NEW n \in Names, Good(n) \/ Brought(n)
      PROVE  Good(n)' \/ Brought(n)'
    <2>1. CASE n = cur
        BY <1>2, <2>1 DEF Brought, progress
    <2>2. CASE n # cur
        BY <1>2, <1>3, <1>5, <1>8, <2>2 DEF Good, Brought, Promises, Reconciling, progress
    <2> QED BY <2>1, <2>2
<1>9. \A n \in Names : ~BeingRemoved(n) /\ ~BeingRemoved(n)' /\ (Owned(n)' => Owned(n))
    BY <1>2 DEF BeingRemoved, Owned, progress
<1> QED BY <1>1, <1>2, <1>4, <1>6, <1>7, <1>8, <1>9, WorkerStep

LEMMA InstallFailsStep == ASSUME IInv, InstallFails PROVE IInv'
<1> USE DEF IInv
<1>1. TypeOK'
    BY InstallType
<1>2. /\ pc \in {"resolving", "publishing", "recording"} /\ pc' = "installing"
      /\ failed' # {}
      /\ UNCHANGED <<row, inst, queue, dirty, misplanned, ok, roots>>
    BY DEF InstallFails, manifest
<1>3. Phases' /\ CurrentTarget'
    BY <1>2 DEF Phases, CurrentTarget
<1>4. \A n \in Names : Restored(n) => Restored(n)'
    BY <1>2, RestoredKept
<1>5. \A n \in Names : Brought(n)'
    BY <1>2 DEF Brought
<1>6. \A n \in Names : ~BeingRemoved(n) /\ ~BeingRemoved(n)' /\ (Owned(n)' => Owned(n))
    BY <1>2 DEF BeingRemoved, Owned
<1> QED BY <1>1, <1>2, <1>3, <1>4, <1>5, <1>6, WorkerStep

LEMMA RecordStep == ASSUME IInv, RecordTool PROVE IInv'
<1> USE DEF IInv
<1>1. TypeOK'
    BY InstallType
<1>2. /\ pc = "recording" /\ pc' = "installing"
      /\ ordered' = ordered \ {cur} /\ failed \subseteq failed'
      /\ cur \in Names /\ target # 0 /\ disk[cur] = target
      /\ UNCHANGED <<row, ver, disk, queue, dirty, misplanned, ok, roots, bumped, job>>
    BY DEF RecordTool, manifest, TypeOK, Phases
<1>3. \A n \in Names : inst'[n] = IF n = cur THEN target ELSE inst[n]
    BY DEF RecordTool, TypeOK
<1>4. Phases' /\ CurrentTarget'
    BY <1>2 DEF Phases, CurrentTarget
<1>5. Promises
    BY <1>2, SameQueue
<1>6. \A n \in Names : Restored(n) => Restored(n)'
    BY <1>2, RestoredKept
<1>7. ASSUME NEW n \in Names \ misplanned, row[n] = "enabled", Good(n) \/ Brought(n)
      PROVE  Good(n)' \/ Brought(n)'
    <2>1. CASE n = cur
        <3>1. ver[n] \in {0, target} \/ dirty \/ InstallQueued(n)
            BY <1>2, <1>7, <2>1 DEF CurrentTarget
        <3>2. CASE ver[n] \in {0, target}
            BY <1>2, <1>3, <2>1, <3>2 DEF Good
        <3> QED BY <1>2, <1>5, <3>1, <3>2 DEF Brought, Promises
    <2>2. CASE n # cur
        BY <1>2, <1>3, <1>5, <1>7, <2>2 DEF Good, Brought, Promises, Reconciling
    <2> QED BY <2>1, <2>2
<1>8. \A n \in Names : ~BeingRemoved(n) /\ ~BeingRemoved(n)' /\ (Owned(n)' => Owned(n))
    BY <1>2, <1>3 DEF BeingRemoved, Owned
<1> QED BY <1>1, <1>2, <1>4, <1>6, <1>7, <1>8, WorkerStep

\* The end of a job that did all it had to.
LEMMA DoneEnd ==
    ASSUME IInv, TypeOK', Finish(TRUE), ok, failed = {}, ordered = {}, roots = {},
           pc \in {"installing", "removing", "checking"},
           \A n \in Names : ~BeingRemoved(n), bumped = {} \/ pc # "checking",
           UNCHANGED <<manifest, inst, disk, queue, misplanned>>
    PROVE  IInv'
<1> USE DEF IInv
<1>1. /\ pc' = "idle" /\ ok' /\ roots' = {} /\ seen' = {} /\ ordered' = {} /\ failed' = {}
      /\ UNCHANGED <<row, ver, inst, disk, queue, dirty, misplanned>>
    BY DEF Finish, TypeOK, manifest
<1>2. Phases' /\ CurrentTarget'
    BY <1>1 DEF Phases, CurrentTarget
<1>3. Promises
    BY <1>1, SameQueue
<1>4. \A n \in Names : Restored(n) => Restored(n)'
    BY <1>1, <1>3 DEF Restored, Promises, Reconciling, WillEnable
<1>5. \A n \in Names : Good(n) \/ Brought(n) => Good(n)' \/ Brought(n)'
    BY <1>1, <1>3 DEF Good, Brought, Promises, Reconciling
<1>6. \A n \in Names : ~BeingRemoved(n)' /\ (Owned(n)' => Owned(n))
    BY <1>1 DEF BeingRemoved, Owned
<1> QED BY <1>1, <1>2, <1>4, <1>5, <1>6, WorkerStep

LEMMA InstallEndsStep == ASSUME IInv, InstallEnds PROVE IInv'
<1> USE DEF IInv
<1>1. TypeOK'
    BY InstallType
<1>2. CASE ok /\ failed = {}
    <2>1. Finish(TRUE)
        BY <1>2 DEF InstallEnds
    <2>2. pc = "installing" /\ ordered = {} /\ roots = {}
        BY DEF InstallEnds, Phases
    <2>3. \A n \in Names : ~BeingRemoved(n)
        BY <2>2 DEF BeingRemoved
    <2>4. UNCHANGED <<manifest, inst, disk, queue, misplanned>>
        BY DEF InstallEnds
    <2> QED BY <1>1, <1>2, <2>1, <2>2, <2>3, <2>4, DoneEnd
<1>3. CASE ~(ok /\ failed = {})
    <2>1. Finish(FALSE)
        BY <1>3 DEF InstallEnds
    <2> QED BY <1>1, <2>1, FailedEnd
<1> QED BY <1>2, <1>3

LEMMA RemovalStep ==
    ASSUME IInv, (\E n \in Names : RemoveFiles(n)) \/ DropStatus
    PROVE  IInv'
<1> USE DEF IInv
<1>1. TypeOK'
    BY RemoveType
<1>2. /\ pc \in {"removing", "dropping"} /\ pc' \in {"removing", "dropping"}
      /\ UNCHANGED <<row, ver, queue, dirty, misplanned, ok, roots, bumped, job, ordered,
                     failed, seen>>
      /\ pc' = "dropping" => cur' \in todo'
    BY DEF RemoveFiles, DropStatus, manifest
<1>3. PICK m \in Names :
          /\ m \in todo
          /\ \A n \in Names \ {m} : disk'[n] = disk[n] /\ inst'[n] = inst[n]
          /\ \/ todo' = todo /\ inst' = inst
             \/ todo' = todo \ {m} /\ inst'[m] = 0
    <2>1. ASSUME NEW m \in Names, RemoveFiles(m)
          PROVE  /\ m \in todo /\ todo' = todo /\ inst' = inst
                 /\ \A n \in Names \ {m} : disk'[n] = disk[n]
        BY <2>1 DEF RemoveFiles, TypeOK
    <2>2. CASE DropStatus
        <3>1. /\ cur \in Names /\ cur \in todo /\ todo' = todo \ {cur} /\ disk' = disk
              /\ inst' = [inst EXCEPT ![cur] = 0]
            BY <2>2 DEF DropStatus, TypeOK, Phases
        <3> QED BY <3>1 DEF TypeOK
    <2> QED BY <2>1, <2>2
<1>4. Phases' /\ CurrentTarget'
    BY <1>2 DEF Phases, CurrentTarget
<1>5. Promises
    BY <1>2, SameQueue
<1>6. \A n \in Names : Restored(n) => Restored(n)'
    BY <1>2, <1>5 DEF Restored, Promises, Reconciling, WillEnable
<1>7. ASSUME NEW n \in Names \ misplanned, row[n] = "enabled", Good(n) \/ Brought(n)
      PROVE  Good(n)' \/ Brought(n)'
    <2>1. CASE n = m
        <3>1. BeingRemoved(n) /\ n \in Closure(n)
            BY <1>2, <1>3, <2>1, ClosureClosed DEF BeingRemoved
        <3>2. dirty \/ InstallQueued(n)
            BY <1>7, <3>1 DEF RemovalsFollowed
        <3> QED BY <1>2, <1>5, <3>2 DEF Brought, Promises
    <2>2. CASE n # m
        BY <1>2, <1>3, <1>5, <1>7, <2>2 DEF Good, Brought, Promises, Reconciling
    <2> QED BY <2>1, <2>2
<1>8. \A n \in Names : BeingRemoved(n)' => BeingRemoved(n)
    BY <1>2, <1>3 DEF BeingRemoved
<1>9. \A n \in Names : Owned(n)' => Owned(n) /\ (BeingRemoved(n) => BeingRemoved(n)')
    BY <1>2, <1>3 DEF BeingRemoved, Owned
<1> QED BY <1>1, <1>2, <1>4, <1>6, <1>7, <1>8, <1>9, WorkerStep

LEMMA RemovalEndsStep == ASSUME IInv, RemovalEnds PROVE IInv'
<1> USE DEF IInv
<1>1. TypeOK'
    BY RemoveType
<1>2. pc = "removing" /\ todo = {} /\ UNCHANGED <<manifest, inst, disk, queue, misplanned>>
    BY DEF RemovalEnds
<1>3. \A n \in Names : ~BeingRemoved(n)
    BY <1>2 DEF BeingRemoved
<1>4. CASE roots # {}
    <2>1. pc' = "loading" /\ UNCHANGED <<row, ver, job, progress, dirty>>
        BY <1>2, <1>4 DEF RemovalEnds, manifest
    <2>2. Phases' /\ CurrentTarget'
        BY <1>2, <2>1 DEF Phases, CurrentTarget, progress
    <2>3. Promises
        BY <1>2, SameQueue
    <2>4. \A n \in Names : Restored(n) => Restored(n)'
        BY <1>2, <2>1, <2>3 DEF Restored, Promises, Reconciling, WillEnable, progress
    <2>5. \A n \in Names : Good(n) \/ Brought(n) => Good(n)' \/ Brought(n)'
        BY <1>2, <2>1, <2>3 DEF Good, Brought, Promises, Reconciling, progress
    <2>6. \A n \in Names : ~BeingRemoved(n)' /\ (Owned(n)' => Owned(n))
        BY <1>2, <2>1 DEF BeingRemoved, Owned
    <2> QED BY <1>1, <1>2, <1>3, <2>1, <2>2, <2>4, <2>5, <2>6, WorkerStep
<1>5. CASE roots = {}
    <2>1. Finish(TRUE)
        BY <1>5 DEF RemovalEnds
    <2>2. ok /\ failed = {} /\ ordered = {}
        BY <1>2 DEF Phases
    <2> QED BY <1>1, <1>2, <1>3, <1>5, <2>1, <2>2, DoneEnd
<1> QED BY <1>4, <1>5

LEMMA CheckStep ==
    ASSUME IInv, (\E n \in Names : CheckSkips(n) \/ CheckFinds(n)) \/ Bump
    PROVE  IInv'
<1> USE DEF IInv
<1>1. TypeOK'
    BY CheckType
<1>2. /\ pc \in {"checking", "bumping"} /\ pc' \in {"checking", "bumping"}
      /\ bumped \subseteq bumped'
      /\ UNCHANGED <<row, inst, disk, queue, dirty, misplanned, ok, roots, job, ordered,
                     failed, seen>>
    BY DEF CheckSkips, CheckFinds, Bump, manifest
<1>3. \A n \in Names : ver'[n] = ver[n] \/ n \in bumped'
    BY DEF CheckSkips, CheckFinds, Bump, manifest, TypeOK
<1>4. Phases' /\ CurrentTarget'
    BY <1>2 DEF Phases, CurrentTarget
<1>5. Promises
    BY <1>2, SameQueue
<1>6. \A n \in Names : Restored(n) => Restored(n)'
    BY <1>2, RestoredKept
<1>7. ASSUME NEW n \in Names, Good(n) \/ Brought(n)
      PROVE  Good(n)' \/ Brought(n)'
    <2>1. CASE n \in bumped'
        BY <1>2, <2>1 DEF Brought
    <2>2. CASE n \notin bumped'
        BY <1>2, <1>3, <1>5, <1>7, <2>2 DEF Good, Brought, Promises, Reconciling
    <2> QED BY <2>1, <2>2
<1>8. \A n \in Names : ~BeingRemoved(n) /\ ~BeingRemoved(n)' /\ (Owned(n)' => Owned(n))
    BY <1>2 DEF BeingRemoved, Owned
<1> QED BY <1>1, <1>2, <1>4, <1>6, <1>7, <1>8, WorkerStep

\* A rate limit fails the job, which promises nothing more.
LEMMA CheckLimitedStep == ASSUME IInv, NEW m \in Names, CheckLimited(m) PROVE IInv'
<1> USE DEF IInv
<1>1. TypeOK'
    BY CheckType
<1>2. /\ pc = "checking" /\ pc' = "checking" /\ ~ok'
      /\ UNCHANGED <<row, queue, dirty, misplanned, seen, ordered, failed, roots, inst, cur>>
    BY DEF CheckLimited, manifest
<1>3. Phases' /\ CurrentTarget'
    BY <1>2 DEF Phases, CurrentTarget
<1>4. \A n \in Names : Restored(n)' /\ Brought(n)'
    BY <1>2 DEF Restored, Brought
<1>5. \A n \in Names : ~BeingRemoved(n) /\ ~BeingRemoved(n)' /\ (Owned(n)' => Owned(n))
    BY <1>2 DEF BeingRemoved, Owned
<1> QED BY <1>1, <1>2, <1>3, <1>4, <1>5, WorkerStep

LEMMA CheckEndsStep == ASSUME IInv, CheckEnds PROVE IInv'
<1> USE DEF IInv
<1>1. TypeOK'
    BY CheckType
<1>2. pc = "checking" /\ todo = {} /\ UNCHANGED <<manifest, inst, disk, queue, misplanned>>
    BY DEF CheckEnds
<1>3. /\ failed = {} /\ ordered = {} /\ roots = {} /\ seen = {}
      /\ \A n \in Names : ~BeingRemoved(n)
    BY <1>2 DEF Phases, BeingRemoved
<1>4. CASE bumped # {}
    <2>1. /\ pc' = "loading" /\ roots' = bumped
          /\ UNCHANGED <<row, ver, job, ordered, seen, failed, ok, dirty>>
        BY <1>4, <1>2 DEF CheckEnds, manifest
    <2>2. Phases' /\ CurrentTarget'
        BY <1>3, <1>4, <2>1 DEF Phases, CurrentTarget
    <2>3. Promises
        BY <1>2, SameQueue
    <2>4. \A n \in Names : Restored(n) => Restored(n)'
        BY <1>2, <2>1, RestoredKept
    <2>5. \A n \in Names : n \in Closure(n)
        BY ClosureClosed
    <2>6. \A n \in Names : Good(n) \/ Brought(n) => Good(n)' \/ Brought(n)'
        BY <1>2, <1>3, <2>1, <2>3, <2>5 DEF Good, Brought, Promises, Reconciling
    <2>7. \A n \in Names : ~BeingRemoved(n)' /\ (Owned(n)' => Owned(n))
        BY <1>2, <2>1 DEF BeingRemoved, Owned
    <2> QED BY <1>1, <1>2, <1>3, <2>1, <2>2, <2>4, <2>6, <2>7, WorkerStep
<1>5. CASE bumped = {} /\ ok
    <2>1. Finish(TRUE)
        BY <1>5 DEF CheckEnds
    <2> QED BY <1>1, <1>2, <1>3, <1>5, <2>1, DoneEnd
<1>6. CASE bumped = {} /\ ~ok
    <2>1. Finish(FALSE)
        <3>1. Finish(ok) /\ ok = FALSE
            BY <1>6 DEF CheckEnds, TypeOK
        <3> QED BY <3>1
    <2> QED BY <1>1, <2>1, FailedEnd
<1> QED BY <1>4, <1>5, <1>6

\* A failed removal or version write, a cancelled job, a crash.
LEMMA FailureStep ==
    ASSUME IInv, RemovalFails \/ BumpFails \/ Cancelled \/ Crash
    PROVE  IInv'
<1>1. TypeOK'
    BY RemoveType, CheckType, InterruptType DEF IInv
<1>2. Finish(FALSE)
    BY DEF RemovalFails, BumpFails, Cancelled, Crash
<1> QED BY <1>1, <1>2, FailedEnd

-----------------------------------------------------------------------------

LEMMA InitInv == Init => IInv
<1> SUFFICES ASSUME Init PROVE IInv
    OBVIOUS
<1>1. TypeOK
    BY InitType
<1>2. /\ pc = "idle" /\ ok /\ roots = {} /\ seen = {} /\ ordered = {} /\ failed = {}
      /\ queue = <<>> /\ inst = ver /\ disk = ver
    BY DEF Init
<1>3. \A n \in Names : ver[n] = IF row[n] = "enabled" THEN 1 ELSE 0
    BY DEF Init
<1>4. ASSUME NEW n \in Names, row[n] = "enabled", NEW d \in Closure(n)
      PROVE  row[d] = "enabled"
    <2> DEFINE S == {m \in Names : row[m] = "enabled"}
    <2>1. S \in SUBSET Names /\ n \in S /\ \A x \in S : Requires[x] \subseteq S
        BY <1>4, EngineAssumption DEF Init
    <2>2. d \in S
        <3> HIDE DEF S
        <3> QED BY <2>1 DEF Closure
    <2> QED BY <2>2
<1>5. \A n, d \in Names : Followed(n, d) /\ ~BeingRemoved(d)
    BY <1>2 DEF Followed, BeingRemoved
<1>6. Phases /\ CurrentTarget
    BY <1>2 DEF Phases, CurrentTarget
<1>7. RemovalsFollowed
    BY <1>5, ClosureClosed DEF RemovalsFollowed
<1>8. OwnedCleaned
    BY <1>2, <1>3 DEF OwnedCleaned, Owned
<1>9. NeededRestored
    BY <1>4 DEF NeededRestored
<1>10. EnabledBrought
    BY <1>2, <1>3 DEF EnabledBrought, Good
<1> QED BY <1>1, <1>6, <1>7, <1>8, <1>9, <1>10 DEF IInv

LEMMA StepInv == ASSUME IInv, [Next]_vars PROVE IInv'
<1>1. CASE Callers
    BY <1>1, CallersStep
<1>2. CASE Returns
    BY <1>2, ReturnsStep
<1>3. CASE Worker
    BY <1>3, TakeStep, LoadStep, LoadReconcileStep, PlanRootStep, PlanFailsStep,
       PlanEndsStep, SkipStep, ResolveStep, PublishStep, InstallFailsStep, RecordStep,
       InstallEndsStep, RemovalStep, RemovalEndsStep, CheckStep, CheckLimitedStep,
       CheckEndsStep, FailureStep DEF Worker
<1>4. CASE Cancelled \/ Crash
    BY <1>4, FailureStep
<1>5. CASE UNCHANGED vars
    <2>1. TypeOK'
        BY <1>5, StepType DEF IInv
    <2>2. /\ UNCHANGED <<manifest, inst, disk, job, pc, progress, misplanned, queue>>
          /\ dirty => dirty'
        BY <1>5 DEF vars
    <2> QED BY <2>1, <2>2, SameQueue, QueueStep
<1> QED BY <1>1, <1>2, <1>3, <1>4, <1>5 DEF Next

\* Of every name that is not as the manifest wants it, some job that waits or
\* runs will see to it, until a job is cancelled, fails or is lost.
THEOREM Inductive == Safe => []IInv
<1> QED BY InitInv, StepInv, PTL DEF Safe

LEMMA SettledMeans ==
    ASSUME IInv, Settled, NEW n \in Names
    PROVE  ~Restored(n) /\ ~Cleaned(n) /\ ~Brought(n)
<1>1. /\ queue = <<>> /\ pc = "idle" /\ ~dirty
      /\ ok /\ roots = {} /\ ordered = {} /\ failed = {}
    BY DEF Settled, Drained, IInv, Phases
<1>2. ~RestoreQueued(n) /\ ~InstallQueued(n) /\ ~RemovalQueued(n)
    BY <1>1 DEF RestoreQueued, InstallQueued, RemovalQueued
<1>3. ~Restored(n)
    BY <1>1, <1>2 DEF Restored, Reconciling, WillEnable
<1> QED BY <1>1, <1>2, <1>3 DEF Cleaned, BeingRemoved, Brought, Reconciling

\* Once every job has run, the engine owns nothing of a name whose row is
\* disabled or gone (runDisable, runUninstall, the orphans and extras of
\* reconcilePlan), for every requirement relation and every number of calls.
THEOREM AlwaysOwnedIntended == Safe => []NothingOwnedUnintended
<1>1. IInv => NothingOwnedUnintended
    <2> SUFFICES ASSUME IInv, Settled, NEW n \in Names \ misplanned,
                        row[n] # "enabled", inst[n] # 0
                 PROVE  FALSE
        BY DEF NothingOwnedUnintended
    <2> QED BY SettledMeans DEF IInv, OwnedCleaned, Owned
<1> QED BY <1>1, Inductive, PTL

\* Once every job has run, an enabled tool is on disk at the version the manifest
\* named when its install was recorded (installTool, commitInstall).
THEOREM AlwaysInstalled == Safe => []EnabledIsInstalled
<1>1. IInv => EnabledIsInstalled
    <2> SUFFICES ASSUME IInv, Settled, NEW n \in Names \ misplanned, row[n] = "enabled"
                 PROVE  Good(n)
        BY DEF EnabledIsInstalled, Good
    <2> QED BY SettledMeans DEF IInv, EnabledBrought
<1> QED BY <1>1, Inductive, PTL

\* Once every job has run, whatever an enabled tool needs, through any chain or
\* cycle of requirements, has an enabled row (cascadeOf, installClosure,
\* reconcilePlan).
THEOREM AlwaysWithDependencies == Safe => []DependenciesEnabled
<1>1. IInv => DependenciesEnabled
    <2> SUFFICES ASSUME IInv, Settled, NEW n \in Names \ misplanned, row[n] = "enabled",
                        NEW d \in Closure(n), row[d] # "enabled"
                 PROVE  FALSE
        BY DEF DependenciesEnabled
    <2>1. d \in Names
        BY ClosureClosed
    <2> QED BY <2>1, SettledMeans DEF IInv, NeededRestored
<1> QED BY <1>1, Inductive, PTL
=============================================================================
