------------------------------- MODULE Probe -------------------------------
(***************************************************************************)
(* Whether one tool is installed (probe.go): presence and a pip: venv's    *)
(* interpreter are looked at on every probe, and the answer the executable *)
(* gives is cached under the identity of the file, the recorded version    *)
(* and the interpreter.  Inventory reads and the worker's jobs probe at the*)
(* same time, with no lock across a probe: the identity is taken, the cache*)
(* is asked, the tool is run and the verdict stored in four steps, and the *)
(* install job moves the link, records the version and forgets the verdict *)
(* in steps of its own between them (engine.go, install.go).               *)
(*                                                                         *)
(* A file is its identity and what it answers when run.  An install that   *)
(* replaces the files in place is one that publishes a file of a new       *)
(* identity; publication itself is Publish's, apt and npm packages without *)
(* a bin, which are never cached, are AptEntry's and left out.             *)
(***************************************************************************)
EXTENDS Integers

CONSTANTS
    Readers,
    Versions,
    Answers,    \* what a published file can be: a version it reports, Plain or Broken
    Kinds,      \* "pip", "npm" or another source kind
    Events,
    MaxEvents

Job    == "job"
None   == "none"
Broken == "broken"           \* does not start, or exits 127
Plain  == "plain"            \* not an executable file
NoFile == [id |-> 0, runs |-> Broken]

ASSUME ProbeAssumption ==
    /\ Versions \cap {None, Broken, Plain} = {}
    /\ Answers \subseteq Versions \cup {Broken, Plain}
    /\ Job \notin Readers
    /\ MaxEvents \in Nat

VARIABLES
    kind,      \* of the tool's source: what its launcher needs besides its file
    declared,  \* the definition declares VersionArgs
    link,      \* the file the tool's name in the bin directory resolves to
    fresh,     \* the last identity given to a file
    backend,   \* identity of the interpreter (pip) or node (npm); 0 for none there
    record,    \* ToolStatus.InstalledVersion
    target,    \* the version the job installs
    stage,     \* where the install job is
    before,    \* the file a failed publication puts back, NoFile when there is none
    cache,     \* the cached verdict, with what it was obtained from (history)
    probe,     \* the probes in progress
    disturbed, \* history: since the job began, something else changed the answer, or a
               \* tainted verdict was stored or used
    events

tool == <<kind, declared>>
world == <<tool, link, fresh, backend>>
work == <<record, target, stage, before>>
vars == <<world, work, cache, probe, disturbed, events>>

Event(e) == e \in Events /\ events < MaxEvents /\ events' = events + 1

Probers == Readers \cup {Job}
Files   == [id : Nat, runs : Versions \cup {Broken, Plain}]
Wants   == Versions \cup {None}
Prints  == [id : Nat, want : Wants, interpreter : Nat]
Empty   == [kept |-> FALSE]
Kept    ==
    [kept : {TRUE}, print : Prints, ok : BOOLEAN, ran : Files, on : Nat, late : BOOLEAN]

TypeOK ==
    /\ kind \in Kinds /\ declared \in BOOLEAN
    /\ link \in Files /\ before \in Files
    /\ fresh \in Nat /\ backend \in Nat
    /\ record \in Wants /\ target \in Wants
    /\ stage \in {"idle", "check", "publish", "commit", "forget", "verify", "done", "failed",
                  "drop"}
    /\ cache \in Kept \cup {Empty}
    /\ DOMAIN probe = Probers
    /\ \A p \in Probers :
          /\ probe[p].pc \in {"idle", "look", "ask", "run", "store", "told"}
          /\ probe[p].want \in Wants
    /\ disturbed \in BOOLEAN
    /\ events \in 0 .. MaxEvents

-----------------------------------------------------------------------------
(* A probe.                                                                *)

NeedsBackend == kind \in {"pip", "npm"}

\* Mutant: the recorded version is not part of it.
FingerprintOfFile(f, want, on) ==
    [id |-> f.id, want |-> None, interpreter |-> IF kind = "pip" THEN on ELSE 0]

\* probeFingerprint, with pipInterpreter's identity for a venv: node is not part
\* of it, nor is anything else the launcher finds on its PATH.
Fingerprint(f, want, on) ==
    [id |-> f.id, want |-> want, interpreter |-> IF kind = "pip" THEN on ELSE 0]

\* probeBins and probePipInterpreter: what is looked at before the cache.
Present == link.id # 0 /\ (kind = "pip" => backend # 0)

\* runProbe, versionAnswered: what the answer of the file is worth.
Grade(f, on, want) ==
    \/ f.runs = Plain
    \/ /\ f.runs # Broken
       /\ NeedsBackend => on # 0
       /\ declared /\ want # None => f.runs = want

Idle == [pc |-> "idle", want |-> None]

To(p, s) == probe' = [probe EXCEPT ![p] = s]

\* What asked has its answer; the job acts on it.
Tells(p, ok) ==
    IF p = Job THEN [pc |-> "told", want |-> None, ok |-> ok] ELSE Idle

\* The recorded version is read before the probe begins.
Begins(p) == To(p, [pc |-> "look", want |-> record])

Inventory(p) ==
    /\ p \in Readers
    /\ probe[p].pc = "idle"
    /\ Begins(p)
    /\ UNCHANGED <<world, work, cache, disturbed, events>>

\* probeBins, down to the fingerprint.
LookAt(p) ==
    /\ probe[p].pc = "look"
    /\ To(p, IF Present
             THEN [pc |-> "ask", want |-> probe[p].want,
                   print |-> Fingerprint(link, probe[p].want, backend)]
             ELSE Tells(p, FALSE))
    /\ UNCHANGED <<world, work, cache, disturbed, events>>

\* Mutant: a cached verdict is the tool's, whatever it was recorded against.
HitByName(print) == cache.kept

\* lookup.
Hit(print) == cache.kept /\ cache.print = print

\* A verdict that is not what the file of this fingerprint answers: out of time,
\* with another node, or, its link or interpreter having moved in between,
\* another's.
Tainted(v) ==
    \/ v.late
    \/ kind = "npm" /\ v.on # backend
    \/ kind = "pip" /\ v.on # v.print.interpreter /\ v.print.interpreter = backend
    \/ v.ran.id # v.print.id /\ v.print.id = link.id

Ask(p) ==
    /\ probe[p].pc = "ask"
    /\ To(p, IF Hit(probe[p].print) THEN Tells(p, cache.ok)
             ELSE [probe[p] EXCEPT !.pc = "run"])
    /\ disturbed' = (disturbed \/ (p = Job /\ Hit(probe[p].print) /\ Tainted(cache)))
    /\ UNCHANGED <<world, work, cache, events>>

Ran(p, ok, late) ==
    To(p, [pc |-> "store", want |-> probe[p].want, print |-> probe[p].print, ok |-> ok,
           ran |-> link, on |-> backend, late |-> late])

\* runProbe resolves the link again, and runs what it finds.
Run(p) ==
    /\ probe[p].pc = "run"
    /\ Ran(p, link.id # 0 /\ Grade(link, backend, probe[p].want), FALSE)
    /\ UNCHANGED <<world, work, cache, disturbed, events>>

\* The tool does not answer within probeTimeout.
TimesOut(p) ==
    /\ Event("timeout")
    /\ probe[p].pc = "run"
    /\ Ran(p, FALSE, TRUE)
    /\ UNCHANGED <<world, work, cache, disturbed>>

\* store keeps the verdict, of a timeout too.
Store(p) ==
    /\ probe[p].pc = "store"
    /\ cache' = [kept |-> TRUE, print |-> probe[p].print, ok |-> probe[p].ok,
                 ran |-> probe[p].ran, on |-> probe[p].on, late |-> probe[p].late]
    /\ To(p, Tells(p, probe[p].ok))
    /\ disturbed' = (disturbed \/ Tainted(probe[p]))
    /\ UNCHANGED <<world, work, events>>

-----------------------------------------------------------------------------
(* The worker's jobs on the tool.                                          *)

Quiet == stage \in {"idle", "done", "failed"}

\* installTool probes a tool recorded at the version already.
Install(v) ==
    /\ Event("install")
    /\ Quiet
    /\ target' = v
    /\ IF record = v THEN stage' = "check" /\ Begins(Job)
                     ELSE stage' = "publish" /\ UNCHANGED probe
    /\ disturbed' = FALSE
    /\ UNCHANGED <<world, record, before, cache>>

Checked ==
    /\ stage = "check" /\ probe[Job].pc = "told"
    /\ stage' = IF probe[Job].ok THEN "done" ELSE "publish"
    /\ To(Job, Idle)
    /\ UNCHANGED <<world, record, target, before, cache, disturbed, events>>

\* linkBin, over what was there.
Publish(runs) ==
    /\ stage = "publish"
    /\ fresh' = fresh + 1
    /\ link' = [id |-> fresh + 1, runs |-> runs]
    /\ before' = link
    /\ stage' = "commit"
    /\ UNCHANGED <<tool, backend, record, target, cache, probe, disturbed, events>>

\* The durability barrier fails, and what was on PATH is put back.
Undone ==
    /\ Event("barrier")
    /\ stage = "commit"
    /\ link' = before /\ before' = NoFile
    /\ stage' = "failed"
    /\ UNCHANGED <<tool, fresh, backend, record, target, cache, probe, disturbed>>

\* Nothing is published, or the state cannot be written.
InstallFails ==
    /\ Event("fail")
    /\ stage \in {"publish", "commit"}
    /\ stage' = "failed" /\ before' = NoFile
    /\ UNCHANGED <<world, record, target, cache, probe, disturbed>>

\* commitInstall records, then forgets.
Commit ==
    /\ stage = "commit"
    /\ record' = target
    /\ stage' = "forget" /\ before' = NoFile
    /\ UNCHANGED <<world, target, cache, probe, disturbed, events>>

\* And verifyInstalled probes what was published.
Forget ==
    /\ stage = "forget"
    /\ cache' = Empty
    /\ stage' = "verify" /\ Begins(Job)
    /\ UNCHANGED <<world, record, target, before, disturbed, events>>

Verified ==
    /\ stage = "verify" /\ probe[Job].pc = "told"
    /\ stage' = IF probe[Job].ok THEN "done" ELSE "failed"
    /\ To(Job, Idle)
    /\ UNCHANGED <<world, record, target, before, cache, disturbed, events>>

\* runUninstall, runDisable and sweepOrphans: the files, the record, the verdict.
Uninstall ==
    /\ Event("uninstall")
    /\ Quiet
    /\ link' = NoFile /\ target' = None
    /\ stage' = "drop"
    /\ UNCHANGED <<tool, fresh, backend, record, before, cache, probe, disturbed>>

Drop ==
    /\ stage = "drop" /\ record # None
    /\ record' = None
    /\ UNCHANGED <<world, target, stage, before, cache, probe, disturbed, events>>

DropVerdict ==
    /\ stage = "drop" /\ record = None
    /\ cache' = Empty
    /\ stage' = "idle"
    /\ UNCHANGED <<world, record, target, before, probe, disturbed, events>>

Work ==
    \/ Checked \/ (\E a \in Answers : Publish(a)) \/ Commit \/ Forget \/ Verified
    \/ Drop \/ DropVerdict

-----------------------------------------------------------------------------
(* What happens to the tool meanwhile.                                     *)

\* The file is rewritten: its identity changes with its ctime.
Rewritten(runs) ==
    /\ Event("rewrite")
    /\ link.id # 0
    /\ fresh' = fresh + 1
    /\ link' = [id |-> fresh + 1, runs |-> runs]
    /\ disturbed' = TRUE
    /\ UNCHANGED <<tool, backend, work, cache, probe>>

\* The interpreter, or node, goes, is replaced, or is the first one again.
BackendMoves ==
    /\ Event("backend")
    /\ NeedsBackend
    /\ \/ backend' \in {0, 2} \ {backend} /\ fresh' = fresh
       \/ fresh' = fresh + 1 /\ backend' = fresh + 1
    /\ disturbed' = TRUE
    /\ UNCHANGED <<tool, link, work, cache, probe>>

Next ==
    \/ \E p \in Probers :
          Inventory(p) \/ LookAt(p) \/ Ask(p) \/ Run(p) \/ TimesOut(p) \/ Store(p)
    \/ Work
    \/ \E v \in Versions : Install(v)
    \/ Undone \/ InstallFails \/ Uninstall
    \/ \E a \in Answers : Rewritten(a)
    \/ BackendMoves

\* A volume on which the tool is there already, recorded or not, or not there.
Init ==
    /\ link \in {NoFile} \cup [id : {1}, runs : Answers]
    /\ fresh = 2
    /\ kind \in Kinds /\ declared \in BOOLEAN
    /\ backend = IF NeedsBackend THEN 2 ELSE 0
    /\ record \in Wants
    /\ target = None /\ stage = "idle" /\ before = NoFile
    /\ cache = Empty
    /\ probe = [p \in Probers |-> Idle]
    /\ disturbed = FALSE
    /\ events = 0

Safe == Init /\ [][Next]_vars

-----------------------------------------------------------------------------
(* Properties.                                                             *)

\* probe.go:112-118: presence is looked at again, and the cached verdict is keyed
\* so that "a reinstall, relink, version bump or interpreter change invalidates
\* it".  So a verdict a probe would find now is the one running the tool would
\* give.  Beside a timeout and the node package the key does not see, the one way
\* out is a probe whose link or interpreter moved between its fingerprint and its
\* run: its verdict is another file's, and stands once the link is moved back.
CachedIsTrue ==
    cache.kept /\ Present /\ cache.print = Fingerprint(link, record, backend) =>
        \/ Tainted(cache)
        \/ cache.ok = Grade(link, backend, record)

\* engine.go:1757-1758: "a done job never leaves a row Reconcile would install
\* again".  Whatever probes were in flight while the job moved the link and the
\* record, and whichever of them stores last: unless the tool was touched from
\* outside or such a tainted verdict came in, the probe after a done install reads
\* it as installed, and it is.
DoneStands ==
    stage = "done" /\ ~disturbed =>
        /\ Present
        /\ Hit(Fingerprint(link, record, backend)) => cache.ok
        /\ Grade(link, backend, record)
=============================================================================
