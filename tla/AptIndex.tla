------------------------------ MODULE AptIndex ------------------------------
(***************************************************************************)
(* The Debian package index of aptindex.go, which must know a package name *)
(* before anything asks apt about it: the lists on disk, the one apt-get   *)
(* update this process runs under updateOnce, the parsed names, the        *)
(* background refresh a search starts, and Engine.Close, which stops that  *)
(* refresh before it stops the job worker.                                 *)
(*                                                                         *)
(* Three requesters reach the index: the job worker, an API request, and   *)
(* the refresh goroutine.  A requester waits in updateOnce while another   *)
(* runs the update.  A parsed index may be older than its time to live     *)
(* whenever a search looks.  The package of the model is in the lists.     *)
(***************************************************************************)
EXTENDS Integers, Sequences

CONSTANTS
    Expands,    \* the name holds a character apt expands (aptExpansionChars)
    Events,     \* what may happen besides the engine's own steps
    MaxEvents   \* bound of the model: how much of it happens

ASSUME IndexAssumption ==
    /\ Expands \in BOOLEAN
    /\ MaxEvents \in Nat

VARIABLES
    lists,      \* an index is on disk
    once,       \* updateOnce: "fresh", "running", "done"
    updateErr,  \* aptIndex.updateErr is set
    parsed,     \* aptIndex.names is not empty
    stage,      \* where each requester is
    gone,       \* requesters whose context has ended
    closing,    \* Engine.Close: "open", "index", "queue", "closed"
    events      \* events so far

indexVars == <<lists, once, updateErr, parsed, stage, gone, closing>>

Requesters == {"worker", "request", "refresh"}
Stages     == {"idle", "lists", "updating", "parsing", "told"}

Event(e) == e \in Events /\ events < MaxEvents /\ events' = events + 1

IndexTypeOK ==
    /\ lists \in BOOLEAN /\ updateErr \in BOOLEAN /\ parsed \in BOOLEAN
    /\ once \in {"fresh", "running", "done"}
    /\ stage \in [Requesters -> Stages]
    /\ gone \subseteq Requesters
    /\ closing \in {"open", "index", "queue", "closed"}
    /\ events \in 0 .. MaxEvents

\* newAptIndex, in an image that may ship without lists.
IndexInit ==
    /\ lists \in BOOLEAN
    /\ once = "fresh" /\ updateErr = FALSE /\ parsed = FALSE
    /\ stage = [x \in Requesters |-> "idle"]
    /\ gone = {}
    /\ closing = "open"
    /\ events = 0

-----------------------------------------------------------------------------
(* One consultation: ensureLists, then the parse.                          *)

At(x, s) == stage' = [stage EXCEPT ![x] = s]

\* ready: names are loaded.
Ready == parsed

\* After ensureLists: ensure gives up on its error and needs no parse when
\* names are loaded; load, the refresh, goes on to parse whatever is there.
Beyond(x, failed) ==
    IF x # "refresh" /\ (failed \/ Ready) THEN "told" ELSE "parsing"

\* updateOnce.Do: the first one in runs the update unless lists are on disk,
\* a later one waits for it to end and shares its error.
LookAtLists(x) ==
    /\ stage[x] = "lists"
    /\ \/ once = "done" /\ At(x, Beyond(x, updateErr)) /\ UNCHANGED once
       \/ once = "fresh" /\ lists /\ At(x, Beyond(x, FALSE)) /\ once' = "done"
       \/ once = "fresh" /\ ~lists /\ At(x, "updating") /\ once' = "running"
    /\ UNCHANGED <<lists, updateErr, parsed, gone, closing, events>>

\* apt-get update succeeds, which an ended context prevents.
UpdateSucceeds(x) ==
    /\ stage[x] = "updating"
    /\ x \notin gone
    /\ lists' = TRUE
    /\ once' = "done"
    /\ At(x, Beyond(x, FALSE))
    /\ UNCHANGED <<updateErr, parsed, gone, closing, events>>

\* It fails, or its context ended; the error stays for the whole process.
UpdateFails(x) ==
    /\ stage[x] = "updating"
    /\ \/ x \in gone /\ UNCHANGED events
       \/ x \notin gone /\ Event("mirror")
    /\ updateErr' = TRUE
    /\ once' = "done"
    /\ At(x, Beyond(x, TRUE))
    /\ UNCHANGED <<lists, parsed, gone, closing>>

Parsed(x) == IF x = "refresh" THEN "idle" ELSE "told"

\* apt-cache dumpavail is parsed, by ensure or by the refresh.
ParseSucceeds(x) ==
    /\ stage[x] = "parsing"
    /\ lists /\ x \notin gone
    /\ parsed' = TRUE
    /\ At(x, Parsed(x))
    /\ UNCHANGED <<lists, once, updateErr, gone, closing, events>>

\* A failed parse keeps the names already loaded (finishRefresh).
ParseFails(x) ==
    /\ stage[x] = "parsing"
    /\ \/ (~lists \/ x \in gone) /\ UNCHANGED events
       \/ lists /\ x \notin gone /\ Event("parse")
    /\ At(x, Parsed(x))
    /\ UNCHANGED <<lists, once, updateErr, parsed, gone, closing>>

IndexStep(x) ==
    LookAtLists(x) \/ UpdateSucceeds(x) \/ UpdateFails(x) \/ ParseSucceeds(x) \/ ParseFails(x)

\* aptFallbackAllows: only a name apt would not expand.
FallbackAllows == ~Expands

\* knownName's verdict once ensure has returned.
Known == Ready \/ FallbackAllows

-----------------------------------------------------------------------------
(* Requests, searches and Close.                                           *)

\* An API request consults the index: an Add, or a search's candidates.
Ask ==
    /\ Event("ask")
    /\ stage["request"] = "idle"
    /\ At("request", "lists")
    /\ UNCHANGED <<lists, once, updateErr, parsed, gone, closing>>

\* It is answered.
Answer ==
    /\ stage["request"] = "told"
    /\ At("request", "idle")
    /\ gone' = gone \ {"request"}
    /\ UNCHANGED <<lists, once, updateErr, parsed, closing, events>>

\* Its client goes away.
HangUp ==
    /\ Event("ask")
    /\ stage["request"] # "idle" /\ "request" \notin gone
    /\ gone' = gone \cup {"request"}
    /\ UNCHANGED <<lists, once, updateErr, parsed, stage, closing>>

\* A search finds the index stale: one refresh at a time, none after Close.
Search ==
    /\ Event("search")
    /\ stage["refresh"] = "idle"
    /\ closing = "open"
    /\ At("refresh", "lists")
    /\ UNCHANGED <<lists, once, updateErr, parsed, gone, closing>>

\* Mutant: Close does not wait for the refresh it cancelled.
IndexClosedAtOnce ==
    /\ closing = "index"
    /\ closing' = "queue"
    /\ gone' = gone \cup {"worker"}
    /\ UNCHANGED <<lists, once, updateErr, parsed, stage, events>>

\* Engine.Close: the index first, cancelling a refresh in flight.
CloseIndex ==
    /\ Event("close")
    /\ closing = "open"
    /\ closing' = "index"
    /\ gone' = IF stage["refresh"] # "idle" THEN gone \cup {"refresh"} ELSE gone
    /\ UNCHANGED <<lists, once, updateErr, parsed, stage>>

\* refreshing.Wait returned, and the queue's Close ends the worker's context.
IndexClosed ==
    /\ closing = "index"
    /\ stage["refresh"] = "idle"
    /\ closing' = "queue"
    /\ gone' = (gone \ {"refresh"}) \cup {"worker"}
    /\ UNCHANGED <<lists, once, updateErr, parsed, stage, events>>

\* Somebody runs apt-get update in a shell.
ShellUpdate ==
    /\ Event("shell")
    /\ ~lists
    /\ lists' = TRUE
    /\ UNCHANGED <<once, updateErr, parsed, stage, gone, closing>>

Requests == Ask \/ Answer \/ HangUp \/ Search \/ CloseIndex \/ ShellUpdate

=============================================================================
