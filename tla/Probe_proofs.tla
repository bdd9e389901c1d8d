----------------------------- MODULE Probe_proofs -----------------------------
(***************************************************************************)
(* What holds of cached verdicts for any number of concurrent readers,     *)
(* versions and files, and any length of history.  The cached verdict is   *)
(* right because every verdict on its way into the cache is right about    *)
(* the file that was run, and because no two files the engine still speaks *)
(* of share an identity; the job's own probe is right because, until       *)
(* something disturbs it, what it is about to run is what the link names.  *)
(***************************************************************************)
EXTENDS Probe, TLAPS

Steps ==
    [pc : {"idle", "look"}, want : Wants]
    \cup [pc : {"ask", "run"}, want : Wants, print : Prints]
    \cup [pc : {"store"}, want : Wants, print : Prints, ok : BOOLEAN, ran : Files, on : Nat,
          late : BOOLEAN]
    \cup [pc : {"told"}, want : {None}, ok : BOOLEAN]

\* The types, with the probes' records whole.
Typed == TypeOK /\ probe \in [Probers -> Steps]

\* The files something in the engine's memory speaks of.
Seen ==
    {NoFile, link, before}
    \cup (IF cache.kept THEN {cache.ran} ELSE {})
    \cup {probe[p].ran : p \in {q \in Probers : probe[q].pc = "store"}}

\* Two of them with one identity are one.
Agree == \A f \in Seen : f.id <= fresh /\ \A g \in Seen : f.id = g.id => f = g

\* What a verdict says of the file that was run.
Verdict(v) == v.late \/ (v.ok <=> v.ran.id # 0 /\ Grade(v.ran, v.on, v.print.want))

Verdicts ==
    /\ cache.kept => Verdict(cache)
    /\ \A p \in Probers :
          /\ probe[p].pc \in {"ask", "run"} => probe[p].print.want = probe[p].want
          /\ probe[p].pc = "store" => Verdict(probe[p])

\* The tool is installed, and the next probe says so.
Stands ==
    /\ Present /\ Grade(link, backend, record)
    /\ Hit(Fingerprint(link, record, backend)) => cache.ok

\* The job's probe, undisturbed.
JobProbe ==
    ~disturbed =>
        /\ stage = "done" => Stands
        /\ stage \in {"check", "verify"} =>
              /\ probe[Job].pc \in {"look", "ask", "run", "store"} => probe[Job].want = record
              /\ probe[Job].pc \in {"ask", "run", "store"} =>
                    Present /\ probe[Job].print = Fingerprint(link, record, backend)
              /\ probe[Job].pc = "store" => probe[Job].ran = link /\ probe[Job].on = backend
              /\ probe[Job].pc = "told" /\ probe[Job].ok => Stands

IInv == Typed /\ Agree /\ Verdicts /\ JobProbe

-----------------------------------------------------------------------------
(* Identities and verdicts.                                                *)

LEMMA FileType ==
    ASSUME NEW f \in Files PROVE f = [id |-> f.id, runs |-> f.runs] /\ f.id \in Nat
    BY DEF Files

\* An untainted verdict found under the current fingerprint is about the file
\* the link names.
LEMMA UntaintedIsTrue ==
    ASSUME NEW v, Verdict(v), ~Tainted(v), Present,
           v.print = Fingerprint(link, record, backend), v.ok \in BOOLEAN,
           v.ran.id = link.id => v.ran = link
    PROVE  v.ok <=> Grade(link, backend, record)
<1>1. v.print.id = link.id /\ v.print.want = record
    BY DEF Fingerprint
<1>2. ~v.late /\ v.ran = link
    BY <1>1 DEF Tainted
<1>3. kind = "pip" => v.on = backend
    BY DEF Fingerprint, Tainted
<1>4. kind = "npm" => v.on = backend
    BY DEF Tainted
<1>5. Grade(link, v.on, record) <=> Grade(link, backend, record)
    BY <1>3, <1>4 DEF Grade, NeedsBackend
<1>6. v.ok <=> link.id # 0 /\ Grade(link, v.on, record)
    BY <1>1, <1>2 DEF Verdict
<1> QED
    BY <1>5, <1>6 DEF Present

LEMMA CacheType ==
    ASSUME cache \in Kept \cup {Empty}
    PROVE  cache.kept \in BOOLEAN /\ (cache.kept => cache \in Kept)
<1>1. CASE cache \in Kept
    BY <1>1 DEF Kept
<1>2. CASE cache = Empty
    BY <1>2 DEF Empty
<1> QED
    BY <1>1, <1>2

LEMMA CacheIsTrue == ASSUME Typed, Agree, Verdicts PROVE CachedIsTrue
<1> SUFFICES ASSUME cache.kept, Present, cache.print = Fingerprint(link, record, backend),
                    ~Tainted(cache)
             PROVE  cache.ok = Grade(link, backend, record)
    BY DEF CachedIsTrue
<1>1. cache.ok \in BOOLEAN
    <2>1. cache \in Kept
        BY CacheType DEF Typed, TypeOK
    <2> QED
        BY <2>1 DEF Kept
<1>2. cache.ran.id = link.id => cache.ran = link
    BY DEF Agree, Seen
<1>3. cache.ok <=> Grade(link, backend, record)
    BY <1>1, <1>2, UntaintedIsTrue DEF Verdicts
<1>4. Grade(link, backend, record) \in BOOLEAN
    BY DEF Grade
<1> QED
    BY <1>1, <1>3, <1>4

\* No new file.
LEMMA AgreeKept ==
    ASSUME Agree, Seen' \subseteq Seen, fresh' \in Nat, fresh \in Nat, fresh' >= fresh,
           \A f \in Seen : f.id \in Nat
    PROVE  Agree'
    BY DEF Agree

LEMMA SeenType == ASSUME Typed PROVE Seen \subseteq Files
<1>1. NoFile \in Files
    BY DEF NoFile, Files
<1>2. cache.kept => cache.ran \in Files
    <2>1. cache \in Kept => cache.ran \in Files
        BY DEF Kept
    <2> QED
        BY <2>1, CacheType DEF Typed, TypeOK
<1>3. ASSUME NEW p \in Probers, probe[p].pc = "store" PROVE probe[p].ran \in Files
    BY <1>3 DEF Typed, Steps
<1> QED
    BY <1>1, <1>2, <1>3 DEF Seen, Typed, TypeOK

\* A file of a new identity.
LEMMA AgreeNew ==
    ASSUME Typed, Agree, fresh' = fresh + 1, link'.id = fresh + 1,
           Seen' \subseteq Seen \cup {link'}
    PROVE  Agree'
<1>1. \A f \in Seen : f.id \in Nat
    BY SeenType, FileType
<1>2. fresh \in Nat
    BY DEF Typed, TypeOK
<1> QED
    BY <1>1, <1>2 DEF Agree

LEMMA EventType ==
    ASSUME events \in 0 .. MaxEvents, NEW e, Event(e) PROVE events' \in 0 .. MaxEvents
    BY ProbeAssumption DEF Event

LEMMA ToType ==
    ASSUME Typed, NEW p \in Probers, NEW s \in Steps, To(p, s)
    PROVE  /\ probe' \in [Probers -> Steps]
           /\ probe'[p] = s
           /\ \A q \in Probers \ {p} : probe'[q] = probe[q]
    BY DEF Typed, To

LEMMA StepParts ==
    ASSUME NEW s \in Steps
    PROVE  s.pc \in {"idle", "look", "ask", "run", "store", "told"} /\ s.want \in Wants
<1>1. None \in Wants
    BY DEF Wants
<1> QED
    BY <1>1 DEF Steps

\* From the whole records to TypeOK's reading of them.
LEMMA TypedFrom ==
    ASSUME probe' \in [Probers -> Steps],
           (kind \in Kinds /\ declared \in BOOLEAN /\ link \in Files /\ before \in Files
            /\ fresh \in Nat /\ backend \in Nat /\ record \in Wants /\ target \in Wants)',
           stage' \in {"idle", "check", "publish", "commit", "forget", "verify", "done",
                       "failed", "drop"},
           cache' \in Kept \cup {Empty}, disturbed' \in BOOLEAN, events' \in 0 .. MaxEvents
    PROVE  Typed'
    BY StepParts DEF Typed, TypeOK

-----------------------------------------------------------------------------
(* A probe's steps.                                                        *)

LEMMA PrintType ==
    ASSUME NEW f \in Files, NEW w \in Wants, NEW on \in Nat
    PROVE  Fingerprint(f, w, on) \in Prints
    BY DEF Fingerprint, Prints, Files

LEMMA TellsType ==
    ASSUME NEW p, NEW ok \in BOOLEAN
    PROVE  Tells(p, ok) \in Steps /\ Tells(p, ok).pc \in {"idle", "told"}
<1>1. None \in Wants
    BY DEF Wants
<1> QED
    BY <1>1 DEF Tells, Idle, Steps

\* A step of a probe that stores nothing and tells a job nothing new keeps
\* everything that is not the job's.
LEMMA ProbeStepKeeps ==
    ASSUME IInv, NEW p \in Probers, NEW s \in Steps, To(p, s),
           UNCHANGED <<world, work, cache>>, events' \in 0 .. MaxEvents,
           disturbed' \in BOOLEAN,
           s.pc = "store" => Verdict(s) /\ s.ran = link,
           s.pc \in {"ask", "run"} => s.print.want = s.want
    PROVE  Typed' /\ Agree' /\ Verdicts'
<1>1. /\ probe' \in [Probers -> Steps] /\ probe'[p] = s
      /\ \A q \in Probers \ {p} : probe'[q] = probe[q]
    BY ToType DEF IInv
<1>2. Typed'
    BY <1>1, TypedFrom DEF IInv, Typed, TypeOK, world, tool, work
<1>3. Seen' \subseteq Seen /\ fresh' = fresh
    BY <1>1 DEF Seen, world, work, NoFile
<1>4. Agree'
    BY <1>3, AgreeKept, SeenType, FileType DEF IInv, Typed, TypeOK
<1> QED
    BY <1>1, <1>2, <1>4 DEF IInv, Verdicts, Verdict, Grade, NeedsBackend, world, tool

LEMMA StandsKept ==
    ASSUME UNCHANGED <<world, record, cache>> PROVE Stands' <=> Stands
    BY DEF Stands, Present, Hit, Fingerprint, Grade, NeedsBackend, world, tool

\* What another probe does in memory of its own is nothing to the job's.
LEMMA ReaderKeepsJob ==
    ASSUME JobProbe, NEW p \in Probers \ {Job}, NEW s \in Steps, To(p, s), Typed,
           UNCHANGED <<world, work, cache>>, disturbed => disturbed'
    PROVE  JobProbe'
<1>1. probe'[Job] = probe[Job]
    BY ToType DEF Probers
<1>2. Stands' <=> Stands
    BY StandsKept DEF work
<1> QED
    BY <1>1, <1>2 DEF JobProbe, Present, Fingerprint, world, tool, work

LEMMA ProbeParts ==
    ASSUME Typed, NEW p \in Probers
    PROVE  /\ probe[p].pc = "look" => probe[p].want \in Wants
           /\ probe[p].pc \in {"ask", "run", "store"} => probe[p].want \in Wants /\ probe[p].print \in Prints
           /\ probe[p].pc = "store" =>
                /\ probe[p].ok \in BOOLEAN /\ probe[p].ran \in Files
                /\ probe[p].on \in Nat /\ probe[p].late \in BOOLEAN
<1>1. probe[p] \in Steps
    BY DEF Typed
<1> QED
    BY <1>1 DEF Steps

LEMMA InventoryKeeps == ASSUME IInv, NEW p \in Probers, Inventory(p) PROVE IInv'
<1> DEFINE s == [pc |-> "look", want |-> record]
<1>1. s \in Steps /\ p # Job
    BY ProbeAssumption DEF Steps, IInv, Typed, TypeOK, Inventory
<1>2. To(p, s) /\ UNCHANGED <<world, work, cache, disturbed, events>>
    BY DEF Inventory, Begins
<1>3. events' \in 0 .. MaxEvents /\ disturbed' \in BOOLEAN
    BY <1>2 DEF IInv, Typed, TypeOK
<1>4. Typed' /\ Agree' /\ Verdicts'
    BY <1>1, <1>2, <1>3, ProbeStepKeeps
<1>5. JobProbe'
    BY <1>1, <1>2, ReaderKeepsJob DEF IInv
<1> QED
    BY <1>4, <1>5 DEF IInv

LEMMA LookAtKeeps == ASSUME IInv, NEW p \in Probers, LookAt(p) PROVE IInv'
<1> DEFINE s == IF Present
                THEN [pc |-> "ask", want |-> probe[p].want,
                      print |-> Fingerprint(link, probe[p].want, backend)]
                ELSE Tells(p, FALSE)
<1>1. probe[p].pc = "look" /\ To(p, s) /\ UNCHANGED <<world, work, cache, disturbed, events>>
    BY DEF LookAt
<1>2. probe[p].want \in Wants
    BY <1>1, ProbeParts DEF IInv
<1>3. Fingerprint(link, probe[p].want, backend) \in Prints
    BY <1>2, PrintType DEF IInv, Typed, TypeOK
<1>4. s \in Steps /\ s.pc \in {"ask", "idle", "told"}
    <2>1. CASE Present
        BY <1>2, <1>3, <2>1 DEF Steps
    <2>2. CASE ~Present
        BY <2>2, TellsType
    <2> QED
        BY <2>1, <2>2
<1>5. s.pc = "ask" => Present /\ s.want = probe[p].want
                      /\ s.print = Fingerprint(link, probe[p].want, backend)
    BY TellsType
<1>6. s.pc = "told" => ~s.ok
    BY DEF Tells, Idle
<1>7. s.print.want = s.want \/ s.pc # "ask"
    BY <1>5 DEF Fingerprint
<1>8. events' \in 0 .. MaxEvents /\ disturbed' \in BOOLEAN
    BY <1>1 DEF IInv, Typed, TypeOK
<1> HIDE DEF s
<1>9. Typed' /\ Agree' /\ Verdicts'
    BY <1>1, <1>4, <1>7, <1>8, ProbeStepKeeps
<1>10. JobProbe'
    <2>1. CASE p = Job
        <3>1. probe'[Job] = s
            BY <1>1, <1>4, <2>1, ToType DEF IInv
        <3>2. Stands' <=> Stands
            BY <1>1, StandsKept DEF work
        <3> QED
            BY <1>1, <1>4, <1>5, <1>6, <2>1, <3>1, <3>2
            DEF IInv, JobProbe, Present, Fingerprint, world, tool, work
    <2>2. CASE p # Job
        BY <1>1, <1>4, <2>2, ReaderKeepsJob DEF IInv
    <2> QED
        BY <2>1, <2>2
<1> QED
    BY <1>9, <1>10 DEF IInv

LEMMA AskKeeps == ASSUME IInv, NEW p \in Probers, Ask(p) PROVE IInv'
<1>1. /\ probe[p].pc = "ask" /\ UNCHANGED <<world, work, cache, events>>
      /\ disturbed' = (disturbed \/ (p = Job /\ Hit(probe[p].print) /\ Tainted(cache)))
    BY DEF Ask
<1>2. probe[p].want \in Wants /\ probe[p].print \in Prints
    BY <1>1, ProbeParts DEF IInv
<1>3. events' \in 0 .. MaxEvents /\ disturbed' \in BOOLEAN
    BY <1>1 DEF IInv, Typed, TypeOK
<1>4. CASE Hit(probe[p].print)
    <2> DEFINE s == Tells(p, cache.ok)
    <2>1. cache \in Kept /\ cache.print = probe[p].print
        BY <1>4, CacheType DEF Hit, IInv, Typed, TypeOK
    <2>2. s \in Steps /\ s.pc \in {"idle", "told"} /\ To(p, s)
        BY <1>4, <2>1, TellsType DEF Kept, Ask
    <2>3. s.pc = "told" => s.ok = cache.ok
        BY DEF Tells, Idle
    <2> HIDE DEF s
    <2>4. Typed' /\ Agree' /\ Verdicts'
        BY <1>1, <1>3, <2>2, ProbeStepKeeps
    <2>5. ASSUME p = Job PROVE JobProbe'
        <3>1. probe'[Job] = s
            BY <2>2, <2>5, ToType DEF IInv
        <3>2. Stands' <=> Stands
            BY <1>1, StandsKept DEF work
        <3>3. ASSUME ~disturbed', stage \in {"check", "verify"}, s.ok, s.pc = "told" PROVE Stands
            <4>1. ~disturbed /\ ~Tainted(cache)
                BY <1>1, <1>4, <2>5, <3>3
            <4>2. Present /\ probe[Job].print = Fingerprint(link, record, backend)
                BY <1>1, <2>5, <3>3, <4>1 DEF IInv, JobProbe
            <4>3. cache.ok = Grade(link, backend, record)
                BY <1>4, <2>1, <2>5, <4>1, <4>2, CacheIsTrue DEF IInv, CachedIsTrue, Hit
            <4>4. cache.ok
                BY <2>3, <3>3
            <4> QED
                BY <4>2, <4>3, <4>4 DEF Stands
        <3> QED
            BY <1>1, <2>2, <3>1, <3>2, <3>3 DEF IInv, JobProbe, work
    <2>6. ASSUME p # Job PROVE JobProbe'
        BY <1>1, <2>2, <2>6, ReaderKeepsJob DEF IInv
    <2> QED
        BY <2>4, <2>5, <2>6 DEF IInv
<1>5. CASE ~Hit(probe[p].print)
    <2> DEFINE s == [probe[p] EXCEPT !.pc = "run"]
    <2>1. /\ s \in Steps /\ s.pc = "run" /\ s.want = probe[p].want /\ s.print = probe[p].print
          /\ To(p, s)
        <3>1. probe[p] \in [pc : {"ask", "run"}, want : Wants, print : Prints]
            BY <1>1 DEF IInv, Typed, Steps
        <3>2. To(p, s)
            BY <1>5 DEF Ask
        <3> QED
            BY <3>1, <3>2 DEF Steps
    <2>2. disturbed' = disturbed
        BY <1>1, <1>5 DEF IInv, Typed, TypeOK
    <2> HIDE DEF s
    <2>3. Typed' /\ Agree' /\ Verdicts'
        BY <1>1, <1>3, <2>1, ProbeStepKeeps DEF IInv, Verdicts
    <2>4. ASSUME p = Job PROVE JobProbe'
        <3>1. probe'[Job] = s
            BY <2>1, <2>4, ToType DEF IInv
        <3>2. Stands' <=> Stands
            BY <1>1, StandsKept DEF work
        <3> QED
            BY <1>1, <2>1, <2>2, <2>4, <3>1, <3>2
            DEF IInv, JobProbe, Present, Fingerprint, world, tool, work
    <2>5. ASSUME p # Job PROVE JobProbe'
        BY <1>1, <2>1, <2>2, <2>5, ReaderKeepsJob DEF IInv
    <2> QED
        BY <2>3, <2>4, <2>5 DEF IInv
<1> QED
    BY <1>4, <1>5

\* The run, timed out or not.
LEMMA RanKeeps ==
    ASSUME IInv, NEW p \in Probers, NEW ok \in BOOLEAN, NEW late \in BOOLEAN,
           probe[p].pc = "run", Ran(p, ok, late), UNCHANGED <<world, work, cache, disturbed>>,
           events' \in 0 .. MaxEvents,
           late \/ (ok <=> link.id # 0 /\ Grade(link, backend, probe[p].want))
    PROVE  IInv'
<1> DEFINE s == [pc |-> "store", want |-> probe[p].want, print |-> probe[p].print, ok |-> ok,
                 ran |-> link, on |-> backend, late |-> late]
<1>1. probe[p].want \in Wants /\ probe[p].print \in Prints
    BY ProbeParts DEF IInv
<1>2. s \in Steps /\ s.pc = "store" /\ s.ran = link /\ s.on = backend
      /\ s.print = probe[p].print /\ s.want = probe[p].want
    BY <1>1 DEF Steps, IInv, Typed, TypeOK
<1>3. To(p, s)
    BY DEF Ran
<1>4. probe[p].print.want = probe[p].want
    BY DEF IInv, Verdicts
<1>5. Verdict(s)
    BY <1>4 DEF Verdict
<1>6. disturbed' \in BOOLEAN
    BY DEF IInv, Typed, TypeOK
<1> HIDE DEF s
<1>7. Typed' /\ Agree' /\ Verdicts'
    BY <1>2, <1>3, <1>5, <1>6, ProbeStepKeeps
<1>8. CASE p = Job
    <2>1. probe'[Job] = s
        BY <1>2, <1>3, <1>8, ToType DEF IInv
    <2>2. Stands' <=> Stands
        BY StandsKept DEF work
    <2> QED
        BY <1>2, <1>7, <1>8, <2>1, <2>2 DEF IInv, JobProbe, Present, Fingerprint, world, tool, work
<1>9. CASE p # Job
    BY <1>2, <1>3, <1>7, <1>9, ReaderKeepsJob DEF IInv
<1> QED
    BY <1>7, <1>8, <1>9 DEF IInv

LEMMA RunKeeps == ASSUME IInv, NEW p \in Probers, Run(p) \/ TimesOut(p) PROVE IInv'
<1>1. ASSUME Run(p) PROVE IInv'
    <2>1. (link.id # 0 /\ Grade(link, backend, probe[p].want)) \in BOOLEAN
        BY DEF Grade
    <2>2. events' \in 0 .. MaxEvents
        BY <1>1 DEF Run, IInv, Typed, TypeOK
    <2> QED
        BY <1>1, <2>1, <2>2, RanKeeps DEF Run
<1>2. ASSUME TimesOut(p) PROVE IInv'
    <2>1. events' \in 0 .. MaxEvents
        BY <1>2, EventType DEF TimesOut, IInv, Typed, TypeOK
    <2> QED
        BY <1>2, <2>1, RanKeeps DEF TimesOut
<1> QED
    BY <1>1, <1>2

\* A verdict stored by any probe.
LEMMA StoreKeeps == ASSUME IInv, NEW p \in Probers, Store(p) PROVE IInv'
<1> DEFINE v == probe[p]
           s == Tells(p, v.ok)
           c == [kept |-> TRUE, print |-> v.print, ok |-> v.ok, ran |-> v.ran, on |-> v.on,
                 late |-> v.late]
<1>1. /\ v.pc = "store" /\ cache' = c /\ To(p, s)
      /\ disturbed' = (disturbed \/ Tainted(v))
      /\ UNCHANGED <<world, work, events>>
    BY DEF Store
<1>2. /\ v.want \in Wants /\ v.print \in Prints /\ v.ok \in BOOLEAN /\ v.ran \in Files
      /\ v.on \in Nat /\ v.late \in BOOLEAN
    BY <1>1, ProbeParts DEF IInv
<1>3. c \in Kept /\ c.kept /\ c.print = v.print /\ c.ok = v.ok /\ c.ran = v.ran
      /\ c.on = v.on /\ c.late = v.late
    BY <1>2 DEF Kept
<1>4. s \in Steps /\ s.pc \in {"idle", "told"}
    BY <1>2, TellsType
<1>5. s.pc = "told" => s.ok = v.ok
    BY DEF Tells, Idle
<1>6. Verdict(v) /\ v.ran \in Seen
    BY <1>1 DEF IInv, Verdicts, Seen
<1> HIDE DEF c, s
<1>7. /\ probe' \in [Probers -> Steps] /\ probe'[p] = s
      /\ \A q \in Probers \ {p} : probe'[q] = probe[q]
    BY <1>1, <1>4, ToType DEF IInv
<1>8. disturbed' \in BOOLEAN
    BY <1>1, <1>2 DEF IInv, Typed, TypeOK, Tainted
<1>9. Typed'
    BY <1>1, <1>3, <1>7, <1>8, TypedFrom DEF IInv, Typed, TypeOK, world, tool, work
<1>10. Agree'
    <2>1. Seen' \subseteq Seen /\ fresh' = fresh
        BY <1>1, <1>3, <1>4, <1>6, <1>7 DEF Seen, world, work, NoFile
    <2> QED
        BY <2>1, AgreeKept, SeenType, FileType DEF IInv, Typed, TypeOK
<1>11. Verdicts'
    BY <1>1, <1>3, <1>4, <1>6, <1>7 DEF IInv, Verdicts, Verdict, Grade, NeedsBackend, world, tool
<1>12. ASSUME ~Tainted(v), Present, v.print = Fingerprint(link, record, backend)
       PROVE  v.ok <=> Grade(link, backend, record)
    <2>1. v.ran.id = link.id => v.ran = link
        BY <1>6 DEF IInv, Agree, Seen
    <2> QED
        BY <1>2, <1>6, <1>12, <2>1, UntaintedIsTrue
<1>13. ASSUME ~Tainted(v), Present, Grade(link, backend, record) PROVE Stands'
    BY <1>1, <1>3, <1>12, <1>13
    DEF Stands, Present, Hit, Fingerprint, Grade, NeedsBackend, world, tool, work
<1>14. JobProbe'
    <2>1. ASSUME ~disturbed', stage = "done" PROVE Stands'
        BY <1>1, <1>13, <2>1 DEF IInv, JobProbe, Stands
    <2>2. ASSUME ~disturbed', stage \in {"check", "verify"}, probe'[Job].pc = "told", probe'[Job].ok
          PROVE  Stands'
        <3>1. ASSUME p # Job PROVE Stands'
            BY <1>1, <1>7, <1>13, <2>2, <3>1 DEF IInv, JobProbe, Stands, Probers
        <3>2. ASSUME p = Job PROVE Stands'
            <4>1. ~disturbed /\ ~Tainted(v)
                BY <1>1, <2>2
            <4>2. Present /\ v.print = Fingerprint(link, record, backend)
                BY <1>1, <2>2, <3>2, <4>1 DEF IInv, JobProbe
            <4>3. v.ok
                BY <1>5, <1>7, <2>2, <3>2
            <4> QED
                BY <1>12, <1>13, <4>1, <4>2, <4>3
        <3> QED
            BY <3>1, <3>2
    <2>3. ASSUME ~disturbed', stage \in {"check", "verify"}
          PROVE  /\ probe'[Job].pc \in {"look", "ask", "run", "store"} => probe'[Job].want = record
                 /\ probe'[Job].pc \in {"ask", "run", "store"} =>
                       Present /\ probe'[Job].print = Fingerprint(link, record, backend)
                 /\ probe'[Job].pc = "store" => probe'[Job].ran = link /\ probe'[Job].on = backend
        <3>1. probe'[Job] = probe[Job] \/ probe'[Job].pc \in {"idle", "told"}
            BY <1>4, <1>7 DEF Probers
        <3> QED
            BY <1>1, <2>3, <3>1 DEF IInv, JobProbe
    <2> QED
        BY <1>1, <2>1, <2>2, <2>3 DEF JobProbe, Present, Fingerprint, world, tool, work
<1> QED
    BY <1>9, <1>10, <1>11, <1>14 DEF IInv

-----------------------------------------------------------------------------
(* The job, and what happens to the tool meanwhile.                        *)

\* A step of the job that begins no probe.
LEMMA QuietStep ==
    ASSUME IInv, UNCHANGED <<tool, backend, probe>>,
           cache' \in {cache, Empty}, fresh' \in Nat, fresh' >= fresh,
           link' \in {link, before, NoFile}, before' \in {link, before, NoFile},
           record' \in Wants, target' \in Wants,
           stage' \in {"publish", "commit", "forget", "failed", "drop", "idle"},
           disturbed' \in BOOLEAN, events' \in 0 .. MaxEvents
    PROVE  IInv'
<1>1. Empty \in Kept \cup {Empty} /\ NoFile \in Files
    BY DEF NoFile, Files
<1>2. probe' \in [Probers -> Steps]
    BY DEF IInv, Typed
<1>3. /\ (kind \in Kinds /\ declared \in BOOLEAN /\ link \in Files /\ before \in Files
          /\ fresh \in Nat /\ backend \in Nat /\ record \in Wants /\ target \in Wants)'
      /\ cache' \in Kept \cup {Empty}
    BY <1>1 DEF IInv, Typed, TypeOK, tool
<1>4. Typed'
    BY <1>2, <1>3, TypedFrom
<1>5. Agree'
    <2>1. ~Empty.kept
        BY DEF Empty
    <2>2. Seen' \subseteq Seen
        BY <2>1 DEF Seen, NoFile
    <2> QED
        BY <2>2, AgreeKept, SeenType, FileType DEF IInv, Typed, TypeOK
<1>6. Verdicts'
    <2>1. ~Empty.kept
        BY DEF Empty
    <2> QED
        BY <2>1 DEF IInv, Verdicts, Verdict, Grade, NeedsBackend, tool
<1>7. JobProbe'
    BY DEF JobProbe
<1> QED
    BY <1>4, <1>5, <1>6, <1>7 DEF IInv

LEMMA QuietWork ==
    ASSUME IInv, Undone \/ InstallFails \/ Commit \/ Uninstall \/ Drop \/ DropVerdict
    PROVE  IInv'
<1>1. /\ None \in Wants /\ record \in Wants /\ target \in Wants
      /\ fresh \in Nat /\ disturbed \in BOOLEAN /\ events \in 0 .. MaxEvents
    BY DEF IInv, Typed, TypeOK, Wants
<1>2. events' \in 0 .. MaxEvents
    BY <1>1, EventType DEF Undone, InstallFails, Commit, Uninstall, Drop, DropVerdict
<1>3. UNCHANGED <<tool, backend, probe, fresh, disturbed>>
    BY DEF Undone, InstallFails, Commit, Uninstall, Drop, DropVerdict, world
<1>4. /\ cache' \in {cache, Empty}
      /\ link' \in {link, before, NoFile} /\ before' \in {link, before, NoFile}
      /\ record' \in {record, target, None} /\ target' \in {target, None}
      /\ stage' \in {"failed", "forget", "drop", "idle"}
    BY DEF Undone, InstallFails, Commit, Uninstall, Drop, DropVerdict, world
<1> QED
    BY <1>1, <1>2, <1>3, <1>4, QuietStep

\* The job asks for a probe.
LEMMA JobBegins ==
    ASSUME IInv, Begins(Job), UNCHANGED <<world, record, before>>, target' \in Wants,
           cache' \in {cache, Empty}, stage' \in {"check", "verify"}, disturbed' \in BOOLEAN,
           events' \in 0 .. MaxEvents
    PROVE  IInv'
<1> DEFINE s == [pc |-> "look", want |-> record]
<1>1. s \in Steps /\ Job \in Probers /\ To(Job, s)
    BY DEF Steps, IInv, Typed, TypeOK, Probers, Begins
<1>2. /\ probe' \in [Probers -> Steps] /\ probe'[Job] = s
      /\ \A q \in Probers \ {Job} : probe'[q] = probe[q]
    BY <1>1, ToType DEF IInv
<1>3. ~Empty.kept /\ Empty \in Kept \cup {Empty}
    BY DEF Empty
<1>4. Typed'
    BY <1>2, <1>3, TypedFrom DEF IInv, Typed, TypeOK, world, tool
<1>5. Seen' \subseteq Seen /\ fresh' = fresh
    BY <1>2, <1>3 DEF Seen, world, NoFile
<1>6. Agree'
    BY <1>5, AgreeKept, SeenType, FileType DEF IInv, Typed, TypeOK
<1>7. Verdicts'
    BY <1>2, <1>3 DEF IInv, Verdicts, Verdict, Grade, NeedsBackend, world, tool
<1>8. JobProbe'
    BY <1>2 DEF JobProbe
<1> QED
    BY <1>4, <1>6, <1>7, <1>8 DEF IInv

LEMMA InstallKeeps == ASSUME IInv, NEW v \in Versions, Install(v) PROVE IInv'
<1>1. v \in Wants /\ FALSE \in BOOLEAN
    BY DEF Wants
<1>2. events' \in 0 .. MaxEvents
    BY EventType DEF Install, IInv, Typed, TypeOK
<1>3. CASE record = v
    BY <1>1, <1>2, <1>3, JobBegins DEF Install
<1>4. CASE record # v
    <2>1. record \in Wants /\ fresh \in Nat
        BY DEF IInv, Typed, TypeOK
    <2>2. /\ UNCHANGED <<tool, backend, probe, cache, fresh, link, before, record>>
          /\ target' = v /\ stage' = "publish" /\ disturbed' = FALSE
        BY <1>4 DEF Install, world
    <2>3. fresh' \in Nat /\ fresh' >= fresh
        BY <2>1, <2>2
    <2>4. /\ cache' \in {cache, Empty} /\ link' \in {link, before, NoFile}
          /\ before' \in {link, before, NoFile} /\ record' \in Wants /\ target' \in Wants
          /\ disturbed' \in BOOLEAN
        BY <1>1, <2>1, <2>2
    <2>5. stage' \in {"publish", "commit", "forget", "failed", "drop", "idle"}
        BY <2>2
    <2>6. UNCHANGED <<tool, backend, probe>>
        BY <2>2
    <2> QED
        BY <1>2, <2>3, <2>4, <2>5, <2>6, QuietStep
<1> QED
    BY <1>3, <1>4

LEMMA ForgetKeeps == ASSUME IInv, Forget PROVE IInv'
    BY JobBegins DEF Forget, IInv, Typed, TypeOK

\* The job has its answer.
LEMMA ToldKeeps == ASSUME IInv, Checked \/ Verified PROVE IInv'
<1>1. /\ stage \in {"check", "verify"} /\ probe[Job].pc = "told"
      /\ stage' \in {"done", "publish", "failed"} /\ (stage' = "done" => probe[Job].ok)
      /\ To(Job, Idle)
      /\ UNCHANGED <<world, record, target, before, cache, disturbed, events>>
    BY DEF Checked, Verified
<1>2. Idle \in Steps /\ Idle.pc = "idle" /\ Job \in Probers
    BY DEF Idle, Steps, Wants, Probers
<1>3. /\ probe' \in [Probers -> Steps] /\ probe'[Job] = Idle
      /\ \A q \in Probers \ {Job} : probe'[q] = probe[q]
    BY <1>1, <1>2, ToType DEF IInv
<1>4. Typed'
    BY <1>1, <1>3, TypedFrom DEF IInv, Typed, TypeOK, world, tool
<1>5. Seen' \subseteq Seen /\ fresh' = fresh
    BY <1>1, <1>2, <1>3 DEF Seen, world, NoFile
<1>6. Agree'
    BY <1>5, AgreeKept, SeenType, FileType DEF IInv, Typed, TypeOK
<1>7. Verdicts'
    BY <1>1, <1>2, <1>3 DEF IInv, Verdicts, Verdict, Grade, NeedsBackend, world, tool
<1>8. Stands' <=> Stands
    BY <1>1, StandsKept
<1>9. JobProbe'
    BY <1>1, <1>8 DEF IInv, JobProbe
<1> QED
    BY <1>4, <1>6, <1>7, <1>9 DEF IInv

\* A file of a new identity, published or written over the old one.
LEMMA NewFileKeeps ==
    ASSUME IInv, NEW a \in Answers, fresh' = fresh + 1, link' = [id |-> fresh + 1, runs |-> a],
           before' \in {link, before}, UNCHANGED <<tool, backend, record, target, cache, probe>>,
           stage' = "commit" \/ disturbed', disturbed' \in BOOLEAN, events' \in 0 .. MaxEvents,
           stage' \in {"commit", stage}
    PROVE  IInv'
<1>1. link' \in Files /\ fresh' \in Nat /\ link'.id = fresh + 1
    BY ProbeAssumption DEF Files, IInv, Typed, TypeOK
<1>2. /\ probe' \in [Probers -> Steps]
      /\ (kind \in Kinds /\ declared \in BOOLEAN /\ link \in Files /\ before \in Files
          /\ fresh \in Nat /\ backend \in Nat /\ record \in Wants /\ target \in Wants)'
      /\ cache' \in Kept \cup {Empty}
    BY <1>1 DEF IInv, Typed, TypeOK, tool
<1>3. stage' \in {"idle", "check", "publish", "commit", "forget", "verify", "done", "failed", "drop"}
    BY DEF IInv, Typed, TypeOK
<1>4. Typed'
    BY <1>2, <1>3, TypedFrom
<1>5. Seen' \subseteq Seen \cup {link'}
    BY DEF Seen, NoFile
<1>6. Agree'
    BY <1>1, <1>5, AgreeNew DEF IInv
<1>7. Verdicts'
    BY DEF IInv, Verdicts, Verdict, Grade, NeedsBackend, tool
<1>8. JobProbe'
    BY DEF JobProbe
<1> QED
    BY <1>4, <1>6, <1>7, <1>8 DEF IInv

LEMMA PublishKeeps == ASSUME IInv, NEW a \in Answers, Publish(a) \/ Rewritten(a) PROVE IInv'
<1>1. events' \in 0 .. MaxEvents /\ disturbed' \in BOOLEAN
    BY EventType DEF Publish, Rewritten, IInv, Typed, TypeOK
<1> QED
    BY <1>1, NewFileKeeps DEF Publish, Rewritten, work

LEMMA BackendMovesKeeps == ASSUME IInv, BackendMoves PROVE IInv'
<1>1. /\ backend' \in Nat /\ fresh' \in Nat /\ fresh' >= fresh
      /\ disturbed' = TRUE /\ UNCHANGED <<tool, link, work, cache, probe>>
    BY DEF BackendMoves, IInv, Typed, TypeOK
<1>2. events' \in 0 .. MaxEvents
    BY EventType DEF BackendMoves, IInv, Typed, TypeOK
<1>3. Typed'
    BY <1>1, <1>2, TypedFrom DEF IInv, Typed, TypeOK, tool, work
<1>4. Agree'
    <2>1. Seen' \subseteq Seen
        BY <1>1 DEF Seen, NoFile, work
    <2> QED
        BY <1>1, <2>1, AgreeKept, SeenType, FileType DEF IInv, Typed, TypeOK
<1>5. Verdicts'
    BY <1>1 DEF IInv, Verdicts, Verdict, Grade, NeedsBackend, tool
<1> QED
    BY <1>1, <1>3, <1>4, <1>5 DEF IInv, JobProbe

-----------------------------------------------------------------------------

LEMMA InitInv == Init => IInv
<1> SUFFICES ASSUME Init PROVE IInv
    OBVIOUS
<1>1. Idle \in Steps /\ Idle.pc = "idle" /\ None \in Wants
    BY DEF Idle, Steps, Wants
<1>2. NoFile \in Files /\ NoFile.id = 0 /\ ~Empty.kept
    BY DEF NoFile, Files, Empty
<1>3. link \in Files /\ (link = NoFile \/ link.id = 1)
    BY <1>2, ProbeAssumption DEF Init, Files
<1>4. Typed
    <2>1. backend \in Nat /\ fresh \in Nat /\ events \in 0 .. MaxEvents
        BY ProbeAssumption DEF Init
    <2>2. /\ probe \in [Probers -> Steps] /\ DOMAIN probe = Probers
          /\ \A p \in Probers : probe[p] \in Steps
        BY <1>1 DEF Init
    <2> QED
        BY <1>1, <1>2, <1>3, <2>1, <2>2, StepParts DEF Init, Typed, TypeOK
<1>5. Seen \subseteq {NoFile, link}
    BY <1>1, <1>2 DEF Init, Seen
<1>6. Agree
    BY <1>2, <1>3, <1>5 DEF Init, Agree
<1> QED
    BY <1>1, <1>2, <1>4, <1>6 DEF Init, IInv, Verdicts, JobProbe

LEMMA Inductive == IInv /\ [Next]_vars => IInv'
<1> SUFFICES ASSUME IInv, [Next]_vars PROVE IInv'
    OBVIOUS
<1>1. ASSUME UNCHANGED vars PROVE IInv'
    <2>1. UNCHANGED <<world, work, cache, probe, disturbed, events>>
        BY <1>1 DEF vars
    <2>2. Typed'
        BY <2>1 DEF IInv, Typed, TypeOK, world, tool, work
    <2>3. Agree'
        BY <2>1 DEF IInv, Agree, Seen, NoFile, world, work
    <2>4. Verdicts'
        BY <2>1 DEF IInv, Verdicts, Verdict, Grade, NeedsBackend, world, tool
    <2>5. JobProbe'
        BY <2>1, StandsKept DEF IInv, JobProbe, Present, Fingerprint, world, tool, work
    <2> QED
        BY <2>2, <2>3, <2>4, <2>5 DEF IInv
<1> QED
    BY <1>1, InventoryKeeps, LookAtKeeps, AskKeeps, RunKeeps, StoreKeeps, QuietWork, InstallKeeps,
       ForgetKeeps, ToldKeeps, PublishKeeps, BackendMovesKeeps DEF Next, Work

\* Every variable keeps its type.
THEOREM TypeCorrect == Safe => []TypeOK
<1>1. IInv => TypeOK
    BY DEF IInv, Typed
<1> QED
    BY <1>1, InitInv, Inductive, PTL DEF Safe

\* The verdict a probe would find cached is the one running the tool would give
\* (probeFingerprint, lookup, store).
THEOREM CachedAlwaysTrue == Safe => []CachedIsTrue
<1>1. IInv => CachedIsTrue
    BY CacheIsTrue DEF IInv
<1> QED
    BY <1>1, InitInv, Inductive, PTL DEF Safe

\* A done install reads as installed, whichever probe stored last (commitInstall,
\* verifyInstalled).
THEOREM DoneAlwaysStands == Safe => []DoneStands
<1>1. IInv => DoneStands
    BY DEF IInv, JobProbe, Stands, DoneStands
<1> QED
    BY <1>1, InitInv, Inductive, PTL DEF Safe
=============================================================================
