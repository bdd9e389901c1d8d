--------------------------- MODULE CatalogRefresh ---------------------------
(***************************************************************************)
(* The catalog an engine serves (catalogrefresh.go, catalog.go): the one   *)
(* in the image, the one a refresh fetches and keeps in a cache file, the  *)
(* consumer's overlays laid over either, and the acceptance a fetched or   *)
(* cached one must pass.  A refresh is a job of the engine's worker; the   *)
(* process may die between any two of its steps, and starts again in the   *)
(* same image or another.                                                  *)
(*                                                                         *)
(* A document is judged by what each tool's entry is in it: absent, listed *)
(* as unavailable, installable ("good"), or an entry verifyEntry refuses   *)
(* ("bad").  One overlay stands for the files applied in order.  Other     *)
(* jobs of the queue are JobQueue's and Engine's.                          *)
(***************************************************************************)
EXTENDS Integers

CONSTANTS
    Tools,
    Docs,        \* catalog documents, the images' and the publisher's
    Generated,   \* doc -> its generation stamp
    Entries,     \* doc -> tool -> what its entry is
    Plausible,   \* docs with at least minCatalogEntries entries
    Images,      \* documents images bake, or NoDoc
    Overlays,    \* overlay files: tool -> what the overlay does to it
    Require,     \* CatalogRefresh.Require
    QueueCap,    \* bound of the model: refreshes pending
    Events,
    MaxEvents

NoDoc   == "no catalog"
Damaged == "damaged"
EntryKinds == {"absent", "listed", "good", "bad"}
\* Nothing, display fields, a whole entry, one verifyEntry refuses, an aqua: source
\* without a definition, a file that cannot be read or decoded.
PatchKinds == {"none", "patch", "entry", "flawed", "bare", "unreadable"}

ASSUME CatalogAssumption ==
    /\ Docs \cap {NoDoc, Damaged} = {}
    /\ Generated \in [Docs -> Nat \ {0}]
    /\ Entries \in [Docs -> [Tools -> EntryKinds]]
    /\ Plausible \subseteq Docs
    /\ Images \subseteq Docs \cup {NoDoc}
    /\ Overlays \subseteq [Tools -> PatchKinds]
    /\ Require \subseteq Tools
    /\ QueueCap \in Nat \ {0} /\ MaxEvents \in Nat

VARIABLES
    image,      \* Config.CatalogPath
    overlay,    \* Config.CatalogOverlays, files read whenever they are applied
    published,  \* what CatalogRefresh.URL serves
    cache,      \* the cache file
    live,       \* Engine.catalog
    source,     \* catalogState.source
    lastError,  \* catalogState.lastError is set
    pending,    \* refresh jobs queued
    pc,         \* the refresh in progress
    body,       \* the document it fetched
    prepared,   \* and what prepareCatalog made of it
    closed,     \* Engine.Close: no schedule and no worker
    events,
    passed,     \* history: what the cache held when the process began, unless it
                \* was served
    unwritten   \* history: a cache write failed in this process

history == <<passed, unwritten>>
vars == <<image, overlay, published, cache, live, source, lastError, pending, pc, body,
          prepared, closed, events, history>>

Event(e) == e \in Events /\ events < MaxEvents /\ events' = events + 1

Catalogs == [doc : Docs \cup {NoDoc}, entries : [Tools -> EntryKinds]]

TypeOK ==
    /\ image \in Images /\ overlay \in Overlays /\ published \in Docs
    /\ cache \in Docs \cup {NoDoc, Damaged}
    /\ live \in Catalogs /\ prepared \in Catalogs
    /\ source \in {"none", "baked", "cached", "remote"}
    /\ lastError \in BOOLEAN /\ closed \in BOOLEAN /\ unwritten \in BOOLEAN
    /\ pending \in 0 .. QueueCap
    /\ pc \in {"idle", "fetching", "judging", "writing", "storing"}
    /\ body \in Docs \cup {NoDoc}
    /\ passed \in Docs \cup {NoDoc}
    /\ events \in 0 .. MaxEvents

-----------------------------------------------------------------------------
(* Catalogs, overlays and acceptance.                                      *)

\* parseCatalog: the catalog a document is; none reads as an empty one.
Parsed(d) ==
    [doc     |-> d,
     entries |-> IF d = NoDoc THEN [t \in Tools |-> "absent"] ELSE Entries[d]]

\* readOverlayDoc fails on a file it cannot read or decode.
Readable(patch) == patch # "unreadable"

\* overlayReplaceEntry refuses an aqua: entry without a definition.
Replaces(patch) == patch # "bare"

\* dropUnknownPatches: a display patch of a tool in neither map is dropped.
Kept(entry, patch) == IF patch = "patch" /\ entry = "absent" THEN "none" ELSE patch

\* applyOverlayDoc refuses one that is left.
Targets(entry, patch) == patch = "patch" => entry # "absent"

\* It lets an overlay's own entry replace what was there, in either map; a patch
\* keeps the entry's kind.
Patched(entry, patch) ==
    CASE patch = "entry"  -> "good"
      [] patch = "flawed" -> "bad"
      [] OTHER            -> entry

\* overlaidCopy fails when one of them does.
OverlayApplies(c) ==
    \A t \in Tools :
        /\ Readable(overlay[t]) /\ Replaces(overlay[t])
        /\ Targets(c.entries[t], Kept(c.entries[t], overlay[t]))

\* overlaidCopy.
Overlaid(c) ==
    [c EXCEPT !.entries = [t \in Tools |-> Patched(@[t], Kept(@[t], overlay[t]))]]

\* Mutant: VerifyCatalog is satisfied by a name the catalog lists.
Listed(c) == \A t \in Require : c.entries[t] # "absent"

\* VerifyCatalog: every required name resolves to an entry that installs.
Verified(c) == \A t \in Require : c.entries[t] = "good"

\* prepareCatalog: the floor on the raw document, then the overlays, then the
\* required names.
Accepted(d) ==
    d \in Plausible /\ OverlayApplies(Parsed(d)) /\ Verified(Overlaid(Parsed(d)))

Stamp(d) == IF d = NoDoc THEN 0 ELSE Generated[d]

\* Mutant: a cache of the image's own age gives way to it.
UsesNewerCache(img) == cache \in Docs /\ Stamp(cache) > Stamp(img) /\ Accepted(cache)

\* initCatalog prefers a readable, accepted cache that is not older than the
\* image's catalog.
UsesCache(img) == cache \in Docs /\ Stamp(cache) >= Stamp(img) /\ Accepted(cache)

\* Otherwise the image's, with the overlays or, when they do not apply, without.
Baked(img) ==
    IF OverlayApplies(Parsed(img)) THEN Overlaid(Parsed(img)) ELSE Parsed(img)

\* initCatalog of an engine with Config.Refresh.
Boot(img) ==
    /\ image' = img
    /\ live' = IF UsesCache(img) THEN Overlaid(Parsed(cache)) ELSE Baked(img)
    /\ source' = CASE UsesCache(img)                -> "cached"
                   [] ~UsesCache(img) /\ img = NoDoc -> "none"
                   [] OTHER                         -> "baked"
    /\ lastError' = FALSE
    /\ pending' = 0 /\ pc' = "idle" /\ body' = NoDoc /\ prepared' = Parsed(NoDoc)
    /\ closed' = FALSE
    /\ passed' = IF cache \in Docs /\ ~UsesCache(img) THEN cache ELSE NoDoc
    /\ unwritten' = FALSE

\* New over an empty ConfigDir.
Init ==
    /\ image \in Images
    /\ overlay \in Overlays
    /\ published \in Docs
    /\ cache = NoDoc
    /\ live = Baked(image)
    /\ source = IF image = NoDoc THEN "none" ELSE "baked"
    /\ lastError = FALSE
    /\ pending = 0 /\ pc = "idle" /\ body = NoDoc /\ prepared = Parsed(NoDoc)
    /\ closed = FALSE
    /\ events = 0
    /\ passed = NoDoc /\ unwritten = FALSE

-----------------------------------------------------------------------------
(* The refresh job.                                                        *)

jobVars == <<pc, body, prepared>>
settings == <<image, overlay, published>>

\* The schedule, or a caller, enqueues a refresh (RefreshCatalog).
Refresh ==
    /\ ~closed
    /\ pending < QueueCap
    /\ pending' = pending + 1
    /\ UNCHANGED <<settings, cache, live, source, lastError, jobVars, closed, events, history>>

\* The worker takes it.
Begin ==
    /\ ~closed
    /\ pc = "idle" /\ pending > 0
    /\ pending' = pending - 1
    /\ pc' = "fetching"
    /\ UNCHANGED <<settings, cache, live, source, lastError, body, prepared, closed, events,
                   history>>

\* The job ends, and its deferred write records how.
End(ok) ==
    /\ pc' = "idle" /\ body' = NoDoc /\ prepared' = Parsed(NoDoc)
    /\ lastError' = ~ok

Fetch ==
    /\ pc = "fetching"
    /\ ~closed
    /\ body' = published
    /\ pc' = "judging"
    /\ UNCHANGED <<settings, cache, live, source, lastError, pending, prepared, closed, events,
                   history>>

\* The fetch fails, runs out of time, is cancelled, or its answer does not
\* parse.
FetchFails ==
    /\ pc = "fetching"
    /\ \/ Event("fetch")
       \/ closed /\ UNCHANGED events
    /\ End(FALSE)
    /\ UNCHANGED <<settings, cache, live, source, pending, closed, history>>

\* Mutant: the document is current when its stamp is the one in use.
CurrentStamp ==
    /\ pc = "judging"
    /\ Stamp(live.doc) = Stamp(body)
    /\ End(TRUE)
    /\ UNCHANGED <<settings, cache, live, source, pending, closed, events, history>>

\* The cache file holds the same bytes: nothing is stored.
Current ==
    /\ pc = "judging"
    /\ cache = body
    /\ End(TRUE)
    /\ UNCHANGED <<settings, cache, live, source, pending, closed, events, history>>

Reject ==
    /\ pc = "judging"
    /\ cache # body /\ ~Accepted(body)
    /\ End(FALSE)
    /\ UNCHANGED <<settings, cache, live, source, pending, closed, events, history>>

Accept ==
    /\ pc = "judging"
    /\ cache # body /\ Accepted(body)
    /\ prepared' = Overlaid(Parsed(body))
    /\ pc' = "writing"
    /\ UNCHANGED <<settings, cache, live, source, lastError, pending, body, closed, events,
                   history>>

\* The cache file is replaced by rename.
Write ==
    /\ pc = "writing"
    /\ cache' = body
    /\ pc' = "storing"
    /\ UNCHANGED <<settings, live, source, lastError, pending, body, prepared, closed, events,
                   history>>

\* A write that fails, by itself or for a cancelled job, only costs the next
\* start the document.
WriteFails ==
    /\ pc = "writing"
    /\ \/ Event("write")
       \/ closed /\ UNCHANGED events
    /\ unwritten' = TRUE
    /\ pc' = "storing"
    /\ UNCHANGED <<settings, cache, live, source, lastError, pending, body, prepared, closed,
                   passed>>

\* The prepared catalog replaces the one in use.
Store ==
    /\ pc = "storing"
    /\ live' = prepared
    /\ source' = "remote"
    /\ End(TRUE)
    /\ UNCHANGED <<settings, cache, pending, closed, events, history>>

Job == Begin \/ Fetch \/ FetchFails \/ Current \/ Reject \/ Accept \/ Write \/ WriteFails \/ Store

-----------------------------------------------------------------------------
(* The publisher, the consumer, the disk and the process.                  *)

Publish(d) ==
    /\ Event("publish")
    /\ published' = d /\ d # published
    /\ UNCHANGED <<image, overlay, cache, live, source, lastError, pending, jobVars, closed,
                   history>>

EditOverlay(o) ==
    /\ Event("overlay")
    /\ overlay' = o /\ o # overlay
    /\ UNCHANGED <<image, published, cache, live, source, lastError, pending, jobVars, closed,
                   history>>

\* The cache file is damaged.
Damage ==
    /\ Event("damage")
    /\ cache' = Damaged
    /\ UNCHANGED <<settings, live, source, lastError, pending, jobVars, closed, history>>

\* The process dies or is restarted, in this image or another.
Restart(img) ==
    /\ Event("restart")
    /\ Boot(img)
    /\ UNCHANGED <<overlay, published, cache>>

\* Close stops the schedule, cancels the running job and drops the queued ones.
Close ==
    /\ Event("close")
    /\ ~closed
    /\ closed' = TRUE
    /\ pending' = 0
    /\ UNCHANGED <<settings, cache, live, source, lastError, jobVars, history>>

Outside ==
    \/ \E d \in Docs : Publish(d)
    \/ \E o \in Overlays : EditOverlay(o)
    \/ \E img \in Images : Restart(img)
    \/ Damage \/ Close

Next == Refresh \/ Job \/ Outside

Safe == Init /\ [][Next]_vars

\* The schedule fires, and the worker goes on.
Spec == Safe /\ WF_vars(Refresh) /\ WF_vars(Job)

-----------------------------------------------------------------------------
(* Properties.                                                             *)

\* The document in use is the image's, or one that passed the whole of the
\* acceptance under the overlay then in force: after any refresh, restart into
\* another image, edited overlay or damaged cache, no tool the consumer
\* requires is missing from a fetched or cached catalog (prepareCatalog,
\* initCatalog), and a catalog taken from the cache is not older than the
\* image's.
ServesGood ==
    /\ source \in {"none", "baked"} => live.doc = image
    /\ source \in {"cached", "remote"} =>
          live.doc \in Plausible /\ \A t \in Require : live.entries[t] = "good"
    /\ source = "cached" => Stamp(live.doc) >= Stamp(image)

\* The last good document: the one in use, or the one about to be.
LastGood == IF pc = "storing" THEN body ELSE live.doc

\* docs/catalog.md:22: "On any failure the last good catalog stays, so a bad
\* fetch changes nothing."  A refresh that ends in an error leaves the catalog and
\* its cache as they were (runCatalogRefresh).  And the last good document is the
\* one a restart serves, in an image no newer than it, unless its cache could not
\* be written or was damaged, or the overlays changed under it (initCatalog).
LastGoodStands ==
    [][/\ pc # "idle" /\ pc' = "idle" /\ lastError' => UNCHANGED <<live, cache, source>>
       /\ \/ source # "remote" \/ source' = "remote"
          \/ unwritten \/ cache = Damaged \/ ~Accepted(LastGood)
          \/ Stamp(LastGood) < Stamp(image')
          \/ live'.doc = LastGood]_vars

\* Once publisher, consumer and disk are left alone, the schedule brings the
\* published document into use, unless it is refused; or unless the cache
\* already held it, which the currency check takes for "in use", because boot
\* passed it over or because a later document could not be written over it.
CatchesUp ==
    <>[](\/ live.doc = published
         \/ closed
         \/ ~Accepted(published)
         \/ cache = published /\ (passed = published \/ unwritten))
=============================================================================
