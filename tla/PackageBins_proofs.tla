------------------------- MODULE PackageBins_proofs -------------------------
(***************************************************************************)
(* What holds of a tool's executables for every package, source, number of *)
(* jobs, failures and crashes.  Neither property is inductive: the first   *)
(* needs where each name on PATH is accounted for while an install or an   *)
(* uninstall is under way, the second which of the package's names the     *)
(* install has found and linked so far.                                    *)
(***************************************************************************)
EXTENDS PackageBins, TLAPS

\* A name on PATH is recorded, lost, or owned by the install in progress; and the
\* uninstall in progress has it before it.
Accounted ==
    /\ OnPath \subseteq rec.bins \cup lost \cup (IF pc \in {"linking", "committing"} THEN owned ELSE {})
    /\ pc \in {"purging", "removing"} => OnPath \subseteq todo \cup lost

\* The snapshot is the directory's, and the version is one.
Running ==
    pc = "running" => want \in Versions /\ before = dir /\ stale = dir \ rec.bins

\* The names found are there, with every one of the package's and of the record's
\* that is; those not linked are still to be.
Found ==
    pc \in {"linking", "committing"} =>
        /\ want \in Versions
        /\ owned \subseteq dir
        /\ rec.bins \cap dir \subseteq owned
        /\ Ships[want] \subseteq owned \cup stale
        /\ pc = "linking" => todo \subseteq owned /\ owned \subseteq links \cup todo
        /\ pc = "committing" /\ src \in Linked => owned \subseteq links

\* What was committed is on PATH.
Whole == pc = "verifying" => Ships[rec.ver] \subseteq OnPath \cup stale

IInv == TypeOK /\ Accounted /\ Running /\ Found /\ Whole

-----------------------------------------------------------------------------
(* Ownership.                                                              *)

LEMMA LandedType == ASSUME TypeOK, want \in Versions PROVE Landed \subseteq Names /\ Ships[want] \subseteq Landed
    BY BinsAssumption DEF Landed, TypeOK

LEMMA AddedType == ASSUME TypeOK, want \in Versions PROVE Added \subseteq Names
    BY LandedType, BinsAssumption DEF Added, TypeOK

\* ownedBins keeps the recorded names that are there and what appeared.
LEMMA OwnedBinsKeeps ==
    ASSUME NEW d, NEW added
    PROVE  /\ rec.bins \cap d \subseteq OwnedBins(d, added)
           /\ added \subseteq OwnedBins(d, added)
           /\ OwnedBins(d, added) \subseteq d \cup added
<1>1. CASE (rec.bins \cap d) \cup added = {}
    BY <1>1 DEF OwnedBins
<1>2. CASE (rec.bins \cap d) \cup added # {}
    BY <1>2 DEF OwnedBins
<1> QED
    BY <1>1, <1>2

LEMMA CutShortType ==
    ASSUME TypeOK, want \in Versions, NEW d \in CutShort PROVE d \subseteq Names
    BY LandedType, BinsAssumption DEF CutShort, TypeOK

\* A directory's new content is what the diff sees or was there before.
LEMMA LosesAccounts ==
    ASSUME Accounted, Running, Found, NEW d, Loses(d), UNCHANGED <<src, rec>>,
           pc \in {"running", "linking", "committing"}, dir' = d,
           pc \in {"linking", "committing"} => dir' = dir,
           links' \subseteq links, pc' = "idle"
    PROVE  Accounted'
<1> USE DEF Accounted, Loses, OnPath
<1>1. CASE pc = "running"
    BY <1>1 DEF Running
<1>2. CASE pc \in {"linking", "committing"}
    BY <1>2
<1> QED
    BY <1>1, <1>2

-----------------------------------------------------------------------------
(* Type correctness.                                                       *)

LEMMA EventType ==
    ASSUME events \in 0 .. MaxEvents, NEW e, Event(e) PROVE events' \in 0 .. MaxEvents
    BY BinsAssumption DEF Event

LEMMA InitInv == Init => IInv
<1> SUFFICES ASSUME Init PROVE IInv
    OBVIOUS
<1>1. TypeOK
    BY BinsAssumption DEF Init, TypeOK, NoRecord, Jobs, Pcs
<1> QED
    BY <1>1 DEF Init, IInv, Accounted, Running, Found, Whole, OnPath

\* Callers touch the row and the queue only.
LEMMA CallersKeep ==
    ASSUME IInv, (\E v \in Versions : Add(v) \/ Update(v)) \/ Remove \/ Reconcile
    PROVE  IInv'
<1>1. /\ row' \in Versions \cup {0} /\ queue' \in Seq(Jobs) /\ events' \in 0 .. MaxEvents
      /\ UNCHANGED <<src, rec, dir, pack, links, pc, want, before, owned, todo, stale, lost>>
    <2>1. row \in Versions \cup {0} /\ queue \in Seq(Jobs) /\ events \in 0 .. MaxEvents
        BY DEF IInv, TypeOK
    <2>2. PICK r \in Versions \cup {0}, k \in Jobs : Enqueue(r, k)
        BY <2>1 DEF Add, Update, Remove, Reconcile, Jobs
    <2>3. events' \in 0 .. MaxEvents
        BY <2>1, EventType DEF Add, Update, Remove, Reconcile
    <2>4. queue' \in Seq(Jobs)
        BY <2>1, <2>2 DEF Enqueue
    <2> QED
        BY <2>2, <2>3, <2>4 DEF Enqueue, jobVars, history
<1>2. TypeOK'
    BY <1>1 DEF IInv, TypeOK
<1> QED
    BY <1>1, <1>2 DEF IInv, Accounted, Running, Found, Whole, OnPath

LEMMA QueueTail == ASSUME TypeOK, queue # <<>> PROVE Tail(queue) \in Seq(Jobs)
    BY DEF TypeOK

LEMMA TakeKeeps == ASSUME IInv, Take PROVE IInv'
<1> USE DEF IInv
<1>1. /\ pc = "idle" /\ queue' \in Seq(Jobs)
      /\ UNCHANGED <<src, row, rec, dir, pack, links, events>>
    BY QueueTail DEF Take
<1>2. \/ Uninstall("purging") \/ Uninstall("removing")
      \/ UNCHANGED <<pc, jobVars, history>> \/ Install
    BY DEF Take
<1>3. CASE Uninstall("purging") \/ Uninstall("removing")
    <2>1. /\ pc' \in {"purging", "removing"} /\ todo' = rec.bins
          /\ UNCHANGED <<want, before, owned, stale, lost>>
        BY <1>3 DEF Uninstall, history
    <2>2. TypeOK'
        BY <1>1, <2>1 DEF TypeOK, Pcs
    <2> QED
        BY <1>1, <2>1, <2>2 DEF Accounted, Running, Found, Whole, OnPath
<1>4. CASE UNCHANGED <<pc, jobVars, history>>
    <2>1. TypeOK'
        BY <1>1, <1>4 DEF TypeOK, jobVars, history
    <2> QED
        BY <1>1, <1>4, <2>1 DEF Accounted, Running, Found, Whole, OnPath, jobVars, history
<1>5. CASE Install /\ row # 0 /\ ~Installed
    <2>1. /\ pc' = "running" /\ want' = row /\ before' = dir /\ stale' = dir \ rec.bins
          /\ UNCHANGED <<owned, todo, lost>>
        BY <1>5 DEF Install
    <2>2. TypeOK'
        BY <1>1, <2>1 DEF TypeOK, Pcs
    <2> QED
        BY <1>1, <1>5, <2>1, <2>2 DEF Accounted, Running, Found, Whole, OnPath, TypeOK
<1> QED
    BY <1>2, <1>3, <1>4, <1>5 DEF Install

\* The command ends well: what it left is found.
LEMMA RunKeeps == ASSUME IInv, Run PROVE IInv'
<1> USE DEF IInv
<1>1. /\ pc = "running" /\ want \in Versions /\ before = dir /\ stale = dir \ rec.bins
      /\ dir' = Landed /\ owned' = OwnedBins(Landed, Added)
      /\ pack' \in {pack, want}
      /\ UNCHANGED <<src, row, rec, links, queue, want, before, events, stale, lost>>
    BY DEF Run, Running, Packed, history
<1>2. /\ Landed \subseteq Names /\ Ships[want] \subseteq Landed /\ Added \subseteq Names
      /\ Landed \ before \subseteq Added
    BY <1>1, LandedType, AddedType DEF Added
<1>3. /\ rec.bins \cap Landed \subseteq owned'
      /\ Added \subseteq owned' /\ owned' \subseteq Landed \cup Added
    BY <1>1, OwnedBinsKeeps
<1>4. Added \subseteq Landed
    BY DEF Run, Added
<1>5. /\ pc' \in {"linking", "committing"}
      /\ pc' = "linking" => todo' = owned'
      /\ pc' = "committing" => src \notin Linked /\ todo' = todo
    BY DEF Run
<1>6. TypeOK'
    BY <1>1, <1>2, <1>3, <1>5 DEF TypeOK, Pcs
<1>7. Accounted'
    BY <1>1, <1>2, <1>3, <1>5 DEF Accounted, OnPath
<1>8. Found'
    BY <1>1, <1>2, <1>3, <1>4, <1>5 DEF Found
<1> QED
    BY <1>5, <1>6, <1>7, <1>8 DEF Running, Whole

\* It fails, is killed, or dies with the process.
LEMMA CutShortKeeps ==
    ASSUME IInv, Rest, UNCHANGED <<src, row, rec, stale>>, links' \subseteq links,
           queue' \in Seq(Jobs), events' \in 0 .. MaxEvents,
           dir' \subseteq Names, pack' \in Versions \cup {0}, lost' \subseteq Names,
           Accounted'
    PROVE  IInv'
<1>1. TypeOK'
    BY BinsAssumption DEF IInv, TypeOK, Rest, Pcs
<1> QED
    BY <1>1 DEF IInv, Rest, Running, Found, Whole

LEMMA PackedType ==
    ASSUME TypeOK, want \in Versions, NEW done \in BOOLEAN, Packed(done)
    PROVE  pack' \in Versions \cup {0}
    BY DEF Packed, TypeOK

LEMMA LosesType ==
    ASSUME TypeOK, NEW d \in SUBSET Names, Loses(d) PROVE lost' \subseteq Names
    BY DEF Loses, TypeOK

LEMMA RunFailsKeeps == ASSUME IInv, RunFails PROVE IInv'
<1>1. /\ pc = "running" /\ want \in Versions
      /\ Loses(dir') /\ Rest /\ UNCHANGED <<src, row, rec, links, queue, stale>>
    BY DEF RunFails, IInv, Running
<1>2. /\ dir' \subseteq Names /\ events' \in 0 .. MaxEvents
      /\ pack' \in Versions \cup {0}
    BY <1>1, CutShortType, LandedType, EventType, PackedType DEF RunFails, IInv, TypeOK
<1>3. Accounted'
    BY <1>1, LosesAccounts DEF IInv, Rest
<1> QED
    BY <1>1, <1>2, <1>3, CutShortKeeps, LosesType DEF IInv, TypeOK

LEMMA StepFailsKeeps == ASSUME IInv, StepFails PROVE IInv'
<1>1. /\ pc \in {"linking", "committing"} /\ links' \subseteq links
      /\ Loses(dir) /\ Rest /\ UNCHANGED <<src, row, rec, dir, pack, queue, stale>>
      /\ events' \in 0 .. MaxEvents
    BY EventType DEF StepFails, IInv, TypeOK
<1>2. Accounted'
    BY <1>1, LosesAccounts DEF IInv, Rest
<1> QED
    BY <1>1, <1>2, CutShortKeeps, LosesType DEF IInv, TypeOK

LEMMA CrashKeeps == ASSUME IInv, Crash PROVE IInv'
<1>1. /\ Rest /\ queue' = <<>> /\ UNCHANGED <<src, row, rec, links, stale>>
      /\ events' \in 0 .. MaxEvents
      /\ pc # "running" => dir' = dir /\ pack' = pack
    BY EventType DEF Crash, IInv, TypeOK
<1>2. dir' \subseteq Names /\ pack' \in Versions \cup {0}
    <2>1. CASE pc = "running"
        <3>1. PICK d \in CutShort : dir' = d
            BY <2>1 DEF Crash
        <3>2. Packed(FALSE)
            BY <2>1 DEF Crash
        <3> QED
            BY <2>1, <3>1, <3>2, CutShortType, PackedType DEF IInv, Running
    <2> QED
        BY <1>1, <2>1 DEF IInv, TypeOK
<1>3. CASE pc \in {"running", "linking", "committing"}
    <2>1. Loses(dir')
        BY <1>3 DEF Crash
    <2>2. Accounted'
        BY <1>1, <1>3, <2>1, LosesAccounts DEF IInv, Rest
    <2>3. lost' \subseteq Names
        BY <1>2, <2>1, LosesType DEF IInv
    <2> QED
        BY <1>1, <1>2, <2>2, <2>3, CutShortKeeps
<1>4. CASE pc \notin {"running", "linking", "committing"}
    <2>1. lost' = lost /\ dir' = dir
        BY <1>1, <1>4 DEF Crash
    <2>2. Accounted'
        BY <1>1, <1>4, <2>1 DEF IInv, Accounted, OnPath, Rest
    <2> QED
        BY <1>1, <1>2, <2>1, <2>2, CutShortKeeps DEF IInv, TypeOK
<1> QED
    BY <1>3, <1>4

LEMMA LinksKeep == ASSUME IInv, (\E b \in Names : Link(b)) \/ LinksDone PROVE IInv'
<1> USE DEF IInv
<1>1. ASSUME NEW b \in Names, Link(b) PROVE IInv'
    <2>1. /\ pc = "linking" /\ b \in todo
          /\ links' = links \cup {b} /\ todo' = todo \ {b}
          /\ UNCHANGED <<src, row, rec, dir, pack, queue, pc, want, before, owned, events, stale, lost>>
        BY <1>1 DEF Link, history
    <2>2. TypeOK'
        BY <2>1 DEF TypeOK
    <2> QED
        BY <2>1, <2>2 DEF Accounted, Running, Found, Whole, OnPath
<1>2. ASSUME LinksDone PROVE IInv'
    <2>1. /\ pc = "linking" /\ todo = {} /\ pc' = "committing"
          /\ UNCHANGED <<src, row, rec, dir, pack, links, queue, want, before, owned, todo, events,
                         stale, lost>>
        BY <1>2 DEF LinksDone, jobVars, history
    <2>2. TypeOK'
        BY <2>1 DEF TypeOK, Pcs
    <2> QED
        BY <2>1, <2>2 DEF Accounted, Running, Found, Whole, OnPath
<1> QED
    BY <1>1, <1>2

LEMMA CommitKeeps == ASSUME IInv, Commit \/ Verify PROVE IInv'
<1> USE DEF IInv
<1>1. ASSUME Commit PROVE IInv'
    <2>1. /\ pc = "committing" /\ pc' = "verifying"
          /\ rec' = [ver |-> want, bins |-> owned] /\ lost' = lost \ owned
          /\ UNCHANGED <<src, row, dir, pack, links, queue, want, before, owned, todo, events, stale>>
        BY <1>1 DEF Commit, jobVars
    <2>2. TypeOK'
        BY <2>1 DEF TypeOK, Pcs, Found
    <2>3. Accounted'
        BY <2>1 DEF Accounted, Found, OnPath
    <2>4. Whole'
        BY <2>1 DEF Whole, Found, OnPath
    <2> QED
        BY <2>1, <2>2, <2>3, <2>4 DEF Running, Found
<1>2. ASSUME Verify PROVE IInv'
    <2>1. /\ pc = "verifying" /\ Rest /\ UNCHANGED <<src, row, rec, dir, pack, links, queue, events,
                                                     stale, lost>>
        BY <1>2 DEF Verify, history
    <2>2. Accounted'
        BY <2>1 DEF Accounted, OnPath, Rest
    <2> QED
        BY <2>1, <2>2, CutShortKeeps DEF TypeOK
<1> QED
    BY <1>1, <1>2

LEMMA UninstallKeeps ==
    ASSUME IInv, Purge \/ (\E b \in Names : RemoveBin(b)) \/ Drop PROVE IInv'
<1> USE DEF IInv
<1>1. ASSUME Purge PROVE IInv'
    <2>1. /\ pc = "purging" /\ pc' = "removing" /\ dir' \subseteq dir /\ pack' \in {pack, 0} /\ events' \in 0 .. MaxEvents
          /\ UNCHANGED <<src, row, rec, links, queue, want, before, owned, todo, stale, lost>>
        BY <1>1, EventType DEF Purge, jobVars, history, TypeOK
    <2>2. TypeOK'
        BY <2>1 DEF TypeOK, Pcs
    <2> QED
        BY <2>1, <2>2 DEF Accounted, Running, Found, Whole, OnPath
<1>2. ASSUME NEW b \in Names, RemoveBin(b) PROVE IInv'
    <2>1. /\ pc = "removing" /\ todo' = todo \ {b}
          /\ links' = links \ {b} /\ dir' \in {dir, dir \ {b}}
          /\ src \notin Linked => dir' = dir \ {b}
          /\ UNCHANGED <<src, row, rec, pack, queue, pc, want, before, owned, events, stale, lost>>
        BY <1>2 DEF RemoveBin, history
    <2>2. TypeOK'
        BY <2>1 DEF TypeOK
    <2> QED
        BY <2>1, <2>2 DEF Accounted, Running, Found, Whole, OnPath
<1>3. ASSUME Drop PROVE IInv'
    <2>1. /\ pc = "removing" /\ todo = {} /\ Rest /\ rec' \in {rec, NoRecord}
          /\ events' \in 0 .. MaxEvents
          /\ UNCHANGED <<src, row, dir, pack, links, queue, stale, lost>>
        BY <1>3, EventType DEF Drop, history, TypeOK
    <2>2. TypeOK'
        BY <2>1 DEF TypeOK, Rest, Pcs, NoRecord
    <2> QED
        BY <2>1, <2>2 DEF Accounted, Running, Found, Whole, OnPath, Rest
<1> QED
    BY <1>1, <1>2, <1>3

LEMMA Inductive == IInv /\ [Next]_vars => IInv'
<1> SUFFICES ASSUME IInv, [Next]_vars PROVE IInv'
    OBVIOUS
<1>1. ASSUME UNCHANGED vars PROVE IInv'
    <2>1. TypeOK'
        BY <1>1 DEF IInv, TypeOK, vars, jobVars, history
    <2> QED
        BY <1>1, <2>1 DEF IInv, Accounted, Running, Found, Whole, OnPath, vars, jobVars, history
<1> QED
    BY <1>1, CallersKeep, TakeKeeps, RunKeeps, RunFailsKeeps, StepFailsKeeps, CrashKeeps,
       LinksKeep, CommitKeeps, UninstallKeeps DEF Next

-----------------------------------------------------------------------------

\* Every variable keeps its type.
THEOREM TypeCorrect == Safe => []TypeOK
<1>1. IInv => TypeOK
    BY DEF IInv
<1> QED
    BY <1>1, InitInv, Inductive, PTL DEF Safe

\* Nothing of a tool without row and record runs from bin/ but what an install
\* lost (uninstall, ownedBins).
THEOREM NothingEverOutlives == Safe => []NothingOutlives
<1>1. IInv => NothingOutlives
    BY DEF IInv, Accounted, NothingOutlives, NoRecord
<1> QED
    BY <1>1, InitInv, Inductive, PTL DEF Safe

\* An install that ends well has the whole package on PATH (binDiff, ownedBins,
\* linkPMBins).
THEOREM DoneAlwaysWhole == Safe => DoneIsWhole
<1>1. IInv /\ [Next]_vars => [Verify /\ Present => Ships[rec.ver] \subseteq OnPath \cup stale]_vars
    BY DEF IInv, Whole, Verify
<1> QED
    BY <1>1, InitInv, Inductive, PTL DEF Safe, DoneIsWhole
=============================================================================
