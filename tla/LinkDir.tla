------------------------------- MODULE LinkDir -------------------------------
(***************************************************************************)
(* What pin.Manager does beside its version directories (pin/purge.go): the*)
(* one-shot sweep of a previous installer's layout, recorded by a marker so*)
(* that it runs once per volume, and the convenience links, in a directory *)
(* other owners write to as well.  Every step looks at an entry and then   *)
(* acts on its name, so an owner may come in between; the process may die, *)
(* or the power fail, between any two of them.                             *)
(*                                                                         *)
(* Which version an operation selects, and that a link's target outlives   *)
(* it, is Pin's.  Purge.Marker is set.                                     *)
(***************************************************************************)
EXTENDS Integers

CONSTANTS
    Targets,    \* versions an operation may select
    Sweeps,     \* Purge.Names
    Chances,    \* what may happen besides the manager's own steps
    MaxChances  \* bound of the model: how much of it happens

\* Entries of LinkDir: the primary's name, the name its link is staged under,
\* and a name a release's sidecar had; under Root, a name with StagePrefix.
LinkSlots == {"primary", "staged", "sidecar"}
Stage     == "stage"
Slots     == LinkSlots \cup {Stage}

\* An entry: the previous installer's, a regular file of another owner, anything
\* else of another owner's, or a link of the manager's into a version.
Foreign   == {"file", "other"}
Entries   == {"none", "legacy"} \cup Foreign \cup Targets
NoSlot    == "no slot"
NoVersion == "no version"

ASSUME LinkDirAssumption ==
    /\ Targets \cap ({"none", "legacy", NoVersion} \cup Foreign) = {}
    /\ Sweeps \subseteq LinkSlots \ {"staged"}
    /\ MaxChances \in Nat

VARIABLES
    ent,         \* what is at each name
    ents,        \* what a power loss may leave there
    marker,      \* Purge.Marker: "none", "written", "durable"
    purged,      \* Manager.purged
    at,          \* where the operation is
    target,      \* the version it selected
    todo,        \* names the sweep, or the retraction, has yet to look at
    cur,         \* the name it looked at and is about to remove
    sweepFailed, \* the sweep failed to remove something
    changed,     \* the operation changed LinkDir
    chances,
    found,       \* history: the entries when the operation began
    swept,       \* history: names it swept
    touched,     \* history: names other owners have written since
    clean,       \* history: none of its link steps failed
    missed       \* history: names a sweep could not read, or a power loss brought back

disk == <<ent, ents, marker>>
linkOp == <<at, target, todo, cur, sweepFailed, changed>>
linkHistory == <<found, swept, touched, clean, missed>>
linkVars == <<disk, purged, linkOp, chances, linkHistory>>

Chance(e) == e \in Chances /\ chances < MaxChances /\ chances' = chances + 1

LinkTypeOK ==
    /\ ent \in [Slots -> Entries] /\ found \in [Slots -> Entries]
    /\ ents \in [Slots -> SUBSET Entries]
    /\ marker \in {"none", "written", "durable"}
    /\ purged \in BOOLEAN /\ sweepFailed \in BOOLEAN /\ changed \in BOOLEAN /\ clean \in BOOLEAN
    /\ at \in {"idle", "custody", "sweeping", "recording", "flushing marker", "linking",
               "staging", "renaming", "listing", "retracting", "flushing links"}
    /\ target \in Targets \cup {NoVersion}
    /\ todo \subseteq Slots /\ cur \in Slots \cup {NoSlot}
    /\ swept \subseteq Slots /\ touched \subseteq Slots /\ missed \subseteq Slots
    /\ chances \in 0 .. MaxChances

\* A volume as a previous installer, other owners and an earlier release leave it.
LinkInit ==
    /\ ent \in [Slots -> Entries]
    /\ ent["staged"] \in {"none"} \cup Targets
    /\ ent[Stage] \in {"none", "legacy"}
    /\ \A s \in LinkSlots \ Sweeps : ent[s] # "legacy"
    /\ ents = [s \in Slots |-> {ent[s]}]
    /\ marker = "none" /\ purged = FALSE
    /\ at = "idle" /\ target = NoVersion /\ todo = {} /\ cur = NoSlot
    /\ sweepFailed = FALSE /\ changed = FALSE
    /\ chances = 0
    /\ found = [s \in Slots |-> "none"] /\ swept = {} /\ touched = {} /\ clean = TRUE /\ missed = {}

-----------------------------------------------------------------------------
(* Entries.                                                                *)

\* linkSlot, ownsLink: the shape of a link is the record of its owner.
Own(s)  == ent[s] \in Targets
Free(s) == ent[s] = "none"

\* purgeShapeMatches: a regular file at a swept name, a directory at a staging one.
ShapeMatches(s) == ent[s] = "legacy" \/ (s \in Sweeps /\ ent[s] = "file")

\* purgeRecorded: the marker is there, flushed or not.
Recorded == marker # "none"

\* An entry changes; the change is flushed later.
Puts(s, v) ==
    /\ ent' = [ent EXCEPT ![s] = v]
    /\ ents' = [ents EXCEPT ![s] = @ \cup {v}]

At(p) == at' = p

\* The operation is over, and what it saw with it.
Forgets ==
    /\ sweepFailed' = FALSE /\ changed' = FALSE
    /\ found' = [s \in Slots |-> "none"] /\ swept' = {} /\ touched' = {} /\ clean' = TRUE
Over == At("idle") /\ target' = NoVersion /\ todo' = {} /\ cur' = NoSlot /\ Forgets

Looking == cur = NoSlot
Dropped(s) == todo' = todo \ {s} /\ cur' = NoSlot

-----------------------------------------------------------------------------
(* The operation, up to its links.                                         *)

\* Ensure and Rescan, one at a time.
Begins(p) ==
    /\ at = "idle"
    /\ At(p)
    /\ found' = ent
    /\ UNCHANGED <<disk, purged, target, todo, cur, sweepFailed, changed, chances, swept, touched,
                   clean, missed>>

Ensure == Begins("custody")
Rescan == Begins("linking")

\* Without custody nothing is swept; with it, once per process and, by the
\* marker, once per volume (mayMutateTree, purgeOnce, purgeRecorded).
PurgeSkips ==
    /\ at = "custody"
    /\ \/ UNCHANGED purged
       \/ (purged \/ Recorded) /\ purged' = TRUE
    /\ At("linking")
    /\ UNCHANGED <<disk, target, todo, cur, sweepFailed, changed, chances, linkHistory>>

\* purge, purgeTargets: the declared names and, of those with the prefix, what is
\* listed; an unreadable Root lists none, and one that does not open ends the sweep.
PurgeBegins ==
    /\ at = "custody"
    /\ ~purged /\ ~Recorded
    /\ purged' = TRUE
    /\ \/ /\ todo' = Sweeps \cup (IF Free(Stage) THEN {} ELSE {Stage})
          /\ At("sweeping") /\ UNCHANGED <<chances, missed>>
       \/ /\ Chance("unread")
          /\ todo' = Sweeps /\ missed' = missed \cup {Stage}
          /\ At("sweeping")
       \/ Chance("fail") /\ At("linking") /\ UNCHANGED <<todo, missed>>
    /\ UNCHANGED <<disk, target, cur, sweepFailed, changed, found, swept, touched, clean>>

\* Lstat: what is absent, or another's by its shape, stays; so does, silently, what
\* cannot be read.
SweepLooks(s) ==
    /\ at = "sweeping" /\ Looking
    /\ s \in todo
    /\ \/ ShapeMatches(s) /\ cur' = s /\ UNCHANGED <<todo, chances, missed>>
       \/ ~ShapeMatches(s) /\ Dropped(s) /\ UNCHANGED <<chances, missed>>
       \/ Chance("unread") /\ Dropped(s) /\ missed' = missed \cup {s}
    /\ UNCHANGED <<disk, purged, at, target, sweepFailed, changed, found, swept, touched, clean>>

\* RemoveAll of whatever is there by now.
SweepRemoves ==
    /\ at = "sweeping" /\ ~Looking
    /\ Puts(cur, "none")
    /\ swept' = swept \cup {cur}
    /\ Dropped(cur)
    /\ UNCHANGED <<marker, purged, at, target, sweepFailed, changed, chances, found, touched, clean,
                   missed>>

SweepFails ==
    /\ at = "sweeping" /\ ~Looking
    /\ Chance("fail")
    /\ sweepFailed' = TRUE
    /\ Dropped(cur)
    /\ UNCHANGED <<disk, purged, at, target, changed, linkHistory>>

\* Mutant: a sweep that failed in part is recorded.
SweepEndsAnyhow ==
    /\ at = "sweeping" /\ todo = {}
    /\ At("recording")
    /\ UNCHANGED <<disk, purged, target, todo, cur, sweepFailed, changed, chances, linkHistory>>

\* A failed removal withholds the marker, so the next start sweeps again.
SweepEnds ==
    /\ at = "sweeping" /\ todo = {}
    /\ At(IF sweepFailed THEN "linking" ELSE "recording")
    /\ UNCHANGED <<disk, purged, target, todo, cur, sweepFailed, changed, chances, linkHistory>>

\* recordPurge, writeFileDurably: the marker is renamed into Root, then Root is
\* flushed, and the removal of a staging tree with it.
Record ==
    /\ at = "recording"
    /\ \/ marker' = "written" /\ At("flushing marker") /\ UNCHANGED chances
       \/ Chance("fail") /\ At("linking") /\ UNCHANGED marker
    /\ UNCHANGED <<ent, ents, purged, target, todo, cur, sweepFailed, changed, linkHistory>>

RecordFlushes ==
    /\ at = "flushing marker"
    /\ \/ /\ marker' = "durable" /\ ents' = [ents EXCEPT ![Stage] = {ent[Stage]}]
          /\ UNCHANGED chances
       \/ Chance("fail") /\ UNCHANGED <<marker, ents>>
    /\ At("linking")
    /\ UNCHANGED <<ent, purged, target, todo, cur, sweepFailed, changed, linkHistory>>

-----------------------------------------------------------------------------
(* The links.                                                              *)

\* It selected no version, lost custody, or could not open LinkDir.
LinksSkipped ==
    /\ at = "linking"
    /\ Over
    /\ UNCHANGED <<disk, purged, chances, missed>>

\* publishConvenienceLinks, publishLink: another owner's entry stays.
LinksBegin(v) ==
    /\ at = "linking"
    /\ target' = v
    /\ \/ At(IF Free("primary") \/ Own("primary") THEN "staging" ELSE "listing")
          /\ UNCHANGED <<chances, clean>>
       \/ Chance("unread") /\ At("listing") /\ clean' = FALSE
    /\ UNCHANGED <<disk, purged, todo, cur, sweepFailed, changed, found, swept, touched, missed>>

\* What is at the staged name is removed, if that works.
Unstages == Puts("staged", "none") \/ UNCHANGED <<ent, ents>>

\* What is under the staged name goes, whosever it is, and the link is made there.
StageLink ==
    /\ at = "staging"
    /\ \/ Puts("staged", target) /\ At("renaming") /\ UNCHANGED <<chances, clean>>
       \/ /\ Chance("fail") /\ Unstages
          /\ At("listing") /\ clean' = FALSE
    /\ UNCHANGED <<marker, purged, target, todo, cur, sweepFailed, changed, found, swept, touched,
                   missed>>

\* The rename puts what is staged at the primary's name.
PublishLink ==
    /\ at = "renaming"
    /\ ent' = [ent EXCEPT !["primary"] = ent["staged"], !["staged"] = "none"]
    /\ ents' = [ents EXCEPT !["primary"] = @ \cup {ent["staged"]}, !["staged"] = @ \cup {"none"}]
    /\ changed' = TRUE
    /\ At("listing")
    /\ UNCHANGED <<marker, purged, target, todo, cur, sweepFailed, chances, linkHistory>>

PublishFails ==
    /\ at = "renaming"
    /\ Chance("fail")
    /\ Unstages
    /\ clean' = FALSE
    /\ At("listing")
    /\ UNCHANGED <<marker, purged, target, todo, cur, sweepFailed, changed, found, swept, touched,
                   missed>>

\* retractStrayLinks lists LinkDir's links, but the primary's.
ListLinks ==
    /\ at = "listing"
    /\ \/ /\ todo' = {s \in LinkSlots \ {"primary"} : Own(s) \/ ent[s] = "other"}
          /\ At("retracting") /\ UNCHANGED <<chances, clean>>
       \/ Chance("fail") /\ At("flushing links") /\ clean' = FALSE /\ UNCHANGED todo
    /\ UNCHANGED <<disk, purged, target, cur, sweepFailed, changed, found, swept, touched, missed>>

\* Mutant: every link listed is retracted.
RetractLooksAtNone(s) ==
    /\ at = "retracting" /\ Looking
    /\ s \in todo
    /\ cur' = s
    /\ UNCHANGED <<disk, purged, at, target, todo, sweepFailed, changed, chances, linkHistory>>

\* retractLink: only a link of the manager's, and not one it cannot read.
RetractLooks(s) ==
    /\ at = "retracting" /\ Looking
    /\ s \in todo
    /\ \/ Own(s) /\ cur' = s /\ UNCHANGED <<todo, chances, clean>>
       \/ ~Own(s) /\ Dropped(s) /\ UNCHANGED <<chances, clean>>
       \/ Own(s) /\ Chance("unread") /\ Dropped(s) /\ clean' = FALSE
    /\ UNCHANGED <<disk, purged, at, target, sweepFailed, changed, found, swept, touched, missed>>

Retract ==
    /\ at = "retracting" /\ ~Looking
    /\ \/ Puts(cur, "none") /\ changed' = TRUE /\ UNCHANGED <<chances, clean>>
       \/ Chance("fail") /\ clean' = FALSE /\ UNCHANGED <<ent, ents, changed>>
    /\ Dropped(cur)
    /\ UNCHANGED <<marker, purged, at, target, sweepFailed, found, swept, touched, missed>>

RetractEnds ==
    /\ at = "retracting" /\ todo = {}
    /\ At("flushing links")
    /\ UNCHANGED <<disk, purged, target, todo, cur, sweepFailed, changed, chances, linkHistory>>

\* LinkDir is flushed when the operation changed it.
LinksFlush ==
    /\ at = "flushing links"
    /\ \/ /\ ents' = IF changed THEN [s \in Slots |-> IF s = Stage THEN ents[s] ELSE {ent[s]}]
                     ELSE ents
          /\ UNCHANGED chances
       \/ changed /\ Chance("fail") /\ UNCHANGED ents
    /\ Over
    /\ UNCHANGED <<ent, marker, purged, missed>>

-----------------------------------------------------------------------------
(* Others, and the process.                                                *)

\* Another owner of LinkDir writes, and flushes, an entry of its own; the staged
\* name is no one's but the manager's.
Other(s, v) ==
    /\ Chance("other")
    /\ s \in LinkSlots \ {"staged"} /\ v \in {"none"} \cup Foreign /\ v # ent[s]
    /\ ent' = [ent EXCEPT ![s] = v] /\ ents' = [ents EXCEPT ![s] = {v}]
    /\ touched' = IF at = "idle" THEN touched ELSE touched \cup {s}
    /\ UNCHANGED <<marker, purged, linkOp, found, swept, clean, missed>>

\* The process dies; the next one has swept nothing yet.
Dies ==
    /\ Over
    /\ purged' = FALSE

Crash == Chance("crash") /\ Dies /\ UNCHANGED <<disk, missed>>

\* With the power, each name keeps one of its contents; Root loses changes in
\* their order, so the marker is not kept without what came before it.
PowerFails ==
    /\ Chance("power")
    /\ ent' \in {e \in [Slots -> Entries] : \A s \in Slots : e[s] \in ents[s]}
    /\ ents' = [s \in Slots |-> {ent'[s]}]
    /\ \/ marker # "none" /\ marker' = "durable" /\ ent'[Stage] = ent[Stage]
       \/ marker # "durable" /\ marker' = "none"
    /\ missed' = missed \cup {s \in LinkSlots : ent'[s] = "legacy" /\ ent[s] # "legacy"}
    /\ Dies

Manager ==
    \/ PurgeSkips \/ PurgeBegins \/ SweepRemoves \/ SweepFails \/ SweepEnds
    \/ Record \/ RecordFlushes
    \/ LinksSkipped \/ StageLink \/ PublishLink \/ PublishFails \/ ListLinks \/ Retract
    \/ RetractEnds \/ LinksFlush
    \/ \E s \in Slots : SweepLooks(s) \/ RetractLooks(s)
    \/ \E v \in Targets : LinksBegin(v)

LinkNext ==
    \/ Ensure \/ Rescan \/ Manager \/ Crash \/ PowerFails
    \/ \E s \in LinkSlots, v \in {"none"} \cup Foreign : Other(s, v)

LinkSafe == LinkInit /\ [][LinkNext]_linkVars

-----------------------------------------------------------------------------
(* Properties.                                                             *)

\* What a name held when the operation came to its links, if nobody else wrote it.
Then(s) == IF s \in swept THEN "none" ELSE found[s]

\* Whether the primary's name was free, or held a link of the manager's.
Published == Then("primary") \in {"none"} \cup Targets

\* "No link dangles once the old version is pruned", and "only an empty slot or
\* this manager's own link is replaced or removed" (purge.go:222-229).  From
\* beginning to end of an operation whose link steps succeed, whatever crashes,
\* failures and power losses left before it: LinkDir has the primary's link, to
\* the version selected, unless another owner holds the name; no other link of the
\* manager's; and every other owner's entry as it was, but for those they wrote
\* meanwhile.
LinksFollow ==
    [][at = "flushing links" /\ clean =>
        \A s \in LinkSlots \ touched :
            \/ "primary" \in touched /\ s = "staged"
            \/ ent[s] = CASE s = "primary" /\ Published -> target
                          [] s = "staged" /\ Published  -> "none"
                          [] s # "primary" /\ Then(s) \in Targets -> "none"
                          [] OTHER -> Then(s)]_linkVars

\* Purge is "the one-shot sweep": the marker says that it completed, and no later
\* start looks again.  So while the marker is there nothing of the previous
\* installer is left, over removals that failed, crashes and power losses between
\* the sweep's steps, but for two cases the code leaves: an entry the sweep could
\* not read, which does not withhold the marker, and a removal under LinkDir, which
\* is not flushed before the marker is.
RecordedIsSwept ==
    Recorded => \A s \in Sweeps \cup {Stage} : ent[s] = "legacy" => s \in missed
=============================================================================
