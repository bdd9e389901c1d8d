--------------------------- MODULE VersionLookup ---------------------------
(***************************************************************************)
(* Resolving a tool's latest version (versions.go): which list a source is *)
(* resolved from, the walk over its pages, the pick among what they held,  *)
(* and the cache the inventory offers updates from.  Lookups of the worker *)
(* and of callers (Add, EnsureInstalled) overlap, upstream publishes and   *)
(* withdraws between their requests, and the row and the catalog's         *)
(* definition of the tool change under them; GitHub's requests pass        *)
(* GitHubGate.                                                             *)
(*                                                                         *)
(* One tool stands for all, which share only the gate.  A tag is what the  *)
(* pick reads of it: its rank, whether it parses as a version and as a     *)
(* prerelease; a definition is its kind of list, and the tags that its     *)
(* filter and its prefix pass.                                             *)
(***************************************************************************)
EXTENDS GitHubGate, SequencesExt

CONSTANTS
    Requesters,
    Tags,
    Rows,          \* bound of the model: the versions the row is recorded at
    Rank,          \* by version, or for unparsable tags by name
    Pre,           \* prereleases
    Text,          \* tags that parse as no version
    Legal,         \* validVersion for the source
    Incompatible,  \* Go: v2+ tags outside module mode
    Legacy,        \* Go: versions whose go.mod the proxy synthesizes
    Retracts,      \* Go: version -> those its go.mod retracts
    Pseudo,        \* Go: @latest of a module without tags
    Defs,          \* what the tool's source and the catalog's definition can be
    Kind,          \* def -> the list it is resolved from
    Filtered,      \* def -> the tags its version_filter passes
    Prefixed,      \* def -> the tags with its version_prefix
    Lists,         \* upstream lists to begin with
    PageSize,
    PageCap

None == "no version"
Kinds == {"release", "tags", "feed", "gitlab", "go", "registry"}
\* The kinds of an aqua source, which a catalog refresh may move between.
AquaKinds == {"release", "tags", "feed"}
\* Those that name one version, which the engine takes.
SingleKinds == {"release", "registry"}

ASSUME LookupAssumption ==
    /\ Rank \in [Tags -> Nat] /\ None \notin Tags /\ Rows \subseteq Tags
    /\ Pre \subseteq Tags /\ Text \subseteq Tags \ Pre /\ Legal \subseteq Tags
    /\ Incompatible \subseteq Tags /\ Legacy \subseteq Tags
    /\ Retracts \in [Tags -> SUBSET Tags] /\ Pseudo \in Pre
    /\ Kind \in [Defs -> Kinds]
    /\ Filtered \in [Defs -> SUBSET Tags] /\ Prefixed \in [Defs -> SUBSET Tags]
    /\ Lists \subseteq Seq(Tags)
    /\ PageSize \in Nat \ {0} /\ PageCap \in Nat \ {0}

VARIABLES
    upstream,  \* the list upstream would serve, newest published anywhere in it
    row,       \* Tool.Version
    def,       \* the row's source, and the live catalog's definition of it
    resolved,  \* versionResolver.cache: key -> version
    look       \* the lookups in progress

lookupVars == <<upstream, row, def, resolved, look>>
resolverVars == <<gate, happened, lookupVars>>

Keys == [def : Defs, pre : BOOLEAN]

\* Mutant: whether the row admits prereleases is not part of the key.
KeyOfSource == [def |-> def, pre |-> FALSE]

\* toolLatestKey.
KeyOf == [def |-> def, pre |-> row \in Pre]

Idle == [pc |-> "idle"]

\* Page 0 is a forge's or a registry's one answer; "there" and "lost" are history: the tags
\* listed all along, and whether one was withdrawn meanwhile.
Lookups ==
    [pc : {"next", "asked", "sent", "picking"}, key : Keys, allowPre : BOOLEAN, page : 0 .. PageCap,
     cred : Credentials, got : Seq(Tags), there : SUBSET Tags, lost : BOOLEAN]

LookupTypeOK ==
    /\ GateTypeOK
    /\ upstream \in Seq(Tags) /\ row \in Rows /\ def \in Defs
    /\ resolved \in [Keys -> Tags \cup {None}]
    /\ look \in [Requesters -> Lookups \cup {Idle}]

LookupInit ==
    /\ GateInit
    /\ upstream \in Lists
    /\ row \in Rows
    /\ def \in Defs
    /\ resolved = [k \in Keys |-> None]
    /\ look = [r \in Requesters |-> Idle]
    /\ happened = 0

-----------------------------------------------------------------------------
(* The pick.                                                               *)

\* maxVersionTag's order: a version beats what parses as none.
Higher(t, best) ==
    \/ t \notin Text /\ best \in Text
    \/ (t \in Text <=> best \in Text) /\ Rank[t] > Rank[best]

\* maxVersionTag, of the positions I of a list: the first of the highest.
MaxVersionTag(s, I) ==
    s[CHOOSE i \in I : \A j \in I : ~Higher(s[j], s[i]) /\ (j < i => Higher(s[i], s[j]))]

\* latestTag: prereleases only when the row is at one; unparsable tags only when
\* nothing parses.
LatestTag(s, I, allowPre) ==
    LET parsed    == {i \in I : s[i] \notin Text}
        versioned == {i \in parsed : allowPre \/ s[i] \notin Pre}
    IN  CASE versioned # {} -> MaxVersionTag(s, versioned)
          [] versioned = {} /\ (parsed # {} \/ I = {}) -> None
          [] OTHER -> MaxVersionTag(s, I)

\* latestGitLabRelease: a list without versions keeps GitLab's newest.
LatestOnGitLab(s, allowPre) ==
    LET tags == {i \in DOMAIN s : s[i] \notin Text}
    IN  CASE tags # {}              -> LatestTag(s, tags, allowPre)
          [] tags = {} /\ s # <<>>  -> s[1]
          [] OTHER                  -> None

Top(S) == CHOOSE v \in S : \A u \in S : Rank[u] <= Rank[v]

\* highestModuleVersion.
HighestModuleVersion(S, allowPre) ==
    LET eligible == IF allowPre THEN S ELSE S \ Pre
    IN  IF eligible = {} THEN None ELSE Top(eligible)

\* withoutShadowedIncompatible: the highest compatible version has a go.mod of
\* its own.
WithoutShadowed(S) ==
    LET compatible == S \ Incompatible
    IN  IF compatible = {} \/ Top(compatible) \in Legacy THEN S ELSE compatible

\* retractionSource: the highest release, or else the highest prerelease.
RetractionSource(S) ==
    IF HighestModuleVersion(S, FALSE) # None THEN HighestModuleVersion(S, FALSE)
    ELSE HighestModuleVersion(S, TRUE)

\* retractions, of the version a lookup without them would name.
Retractions(S) == Retracts[RetractionSource(WithoutShadowed(S))]

\* unretracted.
Unretracted(S) == S \ Retractions(S)

\* moduleCandidates: the canonical versions of a list.
ModuleCandidates(s) == ToSet(s) \ Text

\* moduleLatestQuery: what @latest names counts as a prerelease.
LatestQuery(allowPre) == IF allowPre THEN Pseudo ELSE None

\* latestModuleVersion.
LatestModuleVersion(listed, allowPre) ==
    LET kept == Unretracted(listed)
    IN  CASE listed = {}              -> LatestQuery(allowPre)
          [] listed # {} /\ kept = {} -> None
          [] OTHER                    -> HighestModuleVersion(WithoutShadowed(kept), allowPre)

\* tagPasses.
Passes(d, t) == t \in Prefixed[d] \cap Filtered[d]

\* What a lookup that has read its list resolves to (resolve), a rejected version
\* included (Latest).
Choice(l) ==
    LET v == CASE l.page = 0                -> l.got[1]
               [] Kind[l.key.def] = "gitlab" -> LatestOnGitLab(l.got, l.allowPre)
               [] Kind[l.key.def] = "go"     ->
                     LatestModuleVersion(ModuleCandidates(l.got), l.allowPre)
               [] OTHER                      ->
                     LatestTag(l.got, {i \in DOMAIN l.got : Passes(l.key.def, l.got[i])},
                               l.allowPre)
    IN  IF v \in Legal THEN v ELSE None

-----------------------------------------------------------------------------
(* A lookup.                                                               *)

To(r, l) == look' = [look EXCEPT ![r] = l]
Ends(r)  == To(r, Idle)

\* The kinds that ask api.github.com.
Gated(d) == Kind[d] \in {"release", "tags"}

\* Latest.
Look(r) ==
    /\ look[r].pc = "idle"
    /\ To(r, [pc |-> "next", key |-> KeyOf, allowPre |-> row \in Pre,
              page |-> IF Kind[def] \in SingleKinds THEN 0 ELSE 1, cred |-> token,
              got |-> <<>>, there |-> ToSet(upstream), lost |-> FALSE])
    /\ UNCHANGED <<gate, happened, upstream, row, def, resolved>>

\* RoundTrip asks the consumer for the credential in force.
Ask(r) ==
    /\ look[r].pc = "next" /\ Gated(look[r].key.def)
    /\ To(r, [look[r] EXCEPT !.pc = "asked", !.cred = token])
    /\ UNCHANGED <<gate, happened, upstream, row, def, resolved>>

\* RoundTrip lets a request through; only GitHub's pass the gate.
Send(r) ==
    /\ \/ look[r].pc = "next" /\ ~Gated(look[r].key.def)
       \/ look[r].pc = "asked" /\ ~Held(look[r].cred)
    /\ To(r, [look[r] EXCEPT !.pc = "sent"])
    /\ UNCHANGED <<gate, happened, upstream, row, def, resolved>>

\* RoundTrip refuses it, with a copy of the refusal held.
Withheld(r) ==
    /\ look[r].pc = "asked" /\ Held(look[r].cred)
    /\ Ends(r)
    /\ UNCHANGED <<gate, happened, upstream, row, def, resolved>>

\* The page asked for, of the list as it is when the request is served.
Page(n) == SubSeq(upstream, (n - 1) * PageSize + 1, Min({n * PageSize, Len(upstream)}))

\* releases/latest names one release, whose tag may be any: GitHub's prerelease flag
\* is not the tag's.  One the filter refuses sends the lookup to the tag list; the
\* prefix is not asked about.
LatestRelease(r) ==
    /\ look[r].pc = "sent" /\ look[r].page = 0
    /\ Kind[look[r].key.def] = "release"
    /\ \E t \in ToSet(upstream) :
          To(r, IF t \in Filtered[look[r].key.def]
                THEN [look[r] EXCEPT !.pc = "picking", !.got = <<t>>]
                ELSE [look[r] EXCEPT !.pc = "next", !.page = 1])
    /\ UNCHANGED <<gate, happened, upstream, row, def, resolved>>

\* A registry names one version, of its own choosing: latestNpm, latestPyPI,
\* latestCrate.
RegistryAnswers(r) ==
    /\ look[r].pc = "sent"
    /\ Kind[look[r].key.def] = "registry"
    /\ \E t \in ToSet(upstream) : To(r, [look[r] EXCEPT !.pc = "picking", !.got = <<t>>])
    /\ UNCHANGED <<gate, happened, upstream, row, def, resolved>>

\* A feed and a Go module's list answer with the whole list at once.
WholeList(r) ==
    /\ look[r].pc = "sent"
    /\ Kind[look[r].key.def] \in {"feed", "go"}
    /\ To(r, [look[r] EXCEPT !.pc = "picking", !.got = upstream])
    /\ UNCHANGED <<gate, happened, upstream, row, def, resolved>>

\* The proxy has no module at this path, and the next shorter one is asked for.
NextPrefix(r) ==
    /\ look[r].pc = "sent"
    /\ Kind[look[r].key.def] = "go"
    /\ To(r, [look[r] EXCEPT !.pc = "next"])
    /\ UNCHANGED <<gate, happened, upstream, row, def, resolved>>

Walking(r) ==
    /\ look[r].pc = "sent" /\ look[r].page > 0
    /\ Kind[look[r].key.def] \notin {"feed", "go"}

\* walkPages: a short page ends the walk.
LastPage(r) ==
    /\ Walking(r)
    /\ Len(Page(look[r].page)) < PageSize
    /\ To(r, [look[r] EXCEPT !.pc = "picking", !.got = @ \o Page(look[r].page)])
    /\ UNCHANGED <<gate, happened, upstream, row, def, resolved>>

FullPage(r) ==
    /\ Walking(r)
    /\ Len(Page(look[r].page)) = PageSize /\ look[r].page < PageCap
    /\ To(r, [look[r] EXCEPT !.pc = "next", !.page = @ + 1, !.got = @ \o Page(look[r].page)])
    /\ UNCHANGED <<gate, happened, upstream, row, def, resolved>>

\* Mutant: a list that runs past the cap is answered from what was read.
Truncated(r) ==
    /\ Walking(r)
    /\ Len(Page(look[r].page)) = PageSize /\ look[r].page = PageCap
    /\ To(r, [look[r] EXCEPT !.pc = "picking", !.got = @ \o Page(look[r].page)])
    /\ UNCHANGED <<gate, happened, upstream, row, def, resolved>>

\* errIncompleteWalk: the cap page is full too.
RunsPastCap(r) ==
    /\ Walking(r)
    /\ Len(Page(look[r].page)) = PageSize /\ look[r].page = PageCap
    /\ Ends(r)
    /\ UNCHANGED <<gate, happened, upstream, row, def, resolved>>

\* GitHub answers a request with a refusal, recorded for the credential the
\* request carried.
Refused(r) ==
    /\ Happens("refuse")
    /\ look[r].pc = "sent" /\ Gated(look[r].key.def)
    /\ \E a \in Refusals : IsRefusal(a) /\ Record(look[r].cred, a)
    /\ Ends(r)
    /\ UNCHANGED <<upstream, row, def, resolved>>

\* The token, a request, a go.mod read or an answer fails, one budget runs out,
\* or a 403 is no rate limit.
Fails(r) ==
    /\ Happens("fail")
    /\ \/ look[r].pc \in {"next", "asked", "sent"}
       \/ look[r].pc = "picking" /\ Kind[look[r].key.def] = "go"
    /\ Ends(r)
    /\ UNCHANGED <<gate, upstream, row, def, resolved>>

\* An attempt fails and the client makes the next one, through RoundTrip again.
Retries(r) ==
    /\ Happens("fail")
    /\ look[r].pc = "sent"
    /\ To(r, [look[r] EXCEPT !.pc = "next"])
    /\ UNCHANGED <<gate, upstream, row, def, resolved>>

\* The version is cached under the key the lookup began with.
Answer(r) ==
    /\ look[r].pc = "picking"
    /\ Choice(look[r]) # None
    /\ resolved' = [resolved EXCEPT ![look[r].key] = Choice(look[r])]
    /\ Ends(r)
    /\ UNCHANGED <<gate, happened, upstream, row, def>>

\* Nothing passes, only prereleases are published, every version is retracted, or
\* the version is refused.
NoAnswer(r) ==
    /\ look[r].pc = "picking"
    /\ Choice(look[r]) = None
    /\ Ends(r)
    /\ UNCHANGED <<gate, happened, upstream, row, def, resolved>>

Step(r) ==
    \/ Ask(r) \/ Send(r) \/ Withheld(r) \/ LatestRelease(r) \/ RegistryAnswers(r)
    \/ WholeList(r) \/ NextPrefix(r) \/ LastPage(r) \/ FullPage(r) \/ RunsPastCap(r)
    \/ Answer(r) \/ NoAnswer(r)

-----------------------------------------------------------------------------
(* Upstream, the row and the catalog.                                      *)

PublishTag(t, i) ==
    /\ Happens("publish")
    /\ t \notin ToSet(upstream) \cup {Pseudo}
    /\ upstream' = InsertAt(upstream, i, t)
    /\ UNCHANGED <<gate, row, def, resolved, look>>

Withdraw(i) ==
    /\ Happens("withdraw")
    /\ upstream' = RemoveAt(upstream, i)
    /\ look' = [r \in Requesters |->
                   IF look[r].pc = "idle" THEN look[r]
                   ELSE [look[r] EXCEPT !.there = @ \ {upstream[i]}, !.lost = TRUE]]
    /\ UNCHANGED <<gate, row, def, resolved>>

\* The row is patched, updated or installed at a version.
Records(v) ==
    /\ Happens("row")
    /\ row' = v /\ v # row
    /\ UNCHANGED <<gate, upstream, def, resolved, look>>

\* A catalog refresh changes the definition of an aqua row.
Recompile(d) ==
    /\ Happens("catalog")
    /\ {Kind[d], Kind[def]} \subseteq AquaKinds
    /\ def' = d /\ d # def
    /\ UNCHANGED <<gate, upstream, row, resolved, look>>

LookupNext ==
    \/ \E r \in Requesters : Look(r) \/ Step(r) \/ Refused(r) \/ Fails(r) \/ Retries(r)
    \/ \E t \in Tags, i \in 1 .. Len(upstream) + 1 : PublishTag(t, i)
    \/ \E i \in 1 .. Len(upstream) : Withdraw(i)
    \/ \E v \in Rows : Records(v)
    \/ \E d \in Defs : Recompile(d)
    \/ (Tick \/ \E c \in Credentials : Rotate(c)) /\ UNCHANGED lookupVars

LookupSafe == LookupInit /\ [][LookupNext]_resolverVars

\* Cached: what the inventory shows as the latest version.
Offered == resolved[KeyOf]

-----------------------------------------------------------------------------
(* Properties.                                                             *)

\* githubapi.go:29-31: until a refusal lapses "the transport refuses locally
\* instead of sending what GitHub would refuse", and only for its credential.
\* With requests in flight and the token rotated under them: a request leaves
\* within a window GitHub named for its credential only when a later refusal of
\* that credential shortened it (record replaces the entry); and one is refused
\* locally only within such a window.
SentUnheld ==
    [][\A r \in Requesters :
          LET c == look[r].cred
          IN  look[r].pc = "asked" /\ look'[r] # look[r]
                 => IF look'[r].pc = "sent" THEN now >= longest[c] \/ c \in cut
                    ELSE now < longest[c] \/ happened' # happened]_resolverVars

\* What the row could be updated to among the tags listed all along.
Candidate(l, t) ==
    /\ t \notin Text
    /\ l.allowPre \/ t \notin Pre
    /\ CASE Kind[l.key.def] = "gitlab" -> TRUE
         [] Kind[l.key.def] = "go"     ->
               t \notin Incompatible /\ \A u \in ToSet(l.got) : t \notin Retracts[u]
         [] OTHER                      -> Passes(l.key.def, t)

\* versions.go:417-419 and 431-433: neither forge orders its lists by version, so
\* the walk reads them all or refuses.  Whatever upstream publishes between two
\* pages, a lookup that resolves from a list answers with a version no candidate
\* listed throughout is higher than, and finds one when there is one; only a
\* withdrawal under the walk, which moves a tag to a page already read, may hide
\* one, or a version the source's grammar refuses.
PickIsLatest ==
    \A r \in Requesters :
        LET l == look[r]
        IN  l.pc = "picking" /\ l.page > 0 /\ ~l.lost =>
                \/ ToSet(l.got) \ Legal # {}
                \/ \A t \in l.there :
                      Candidate(l, t) => Choice(l) # None /\ ~Higher(t, Choice(l))

\* The update the inventory offers (Cached) fits the row and the catalog as they
\* are now, whatever they were when it was resolved: no tag the filter of the
\* definition in use refuses, and where the engine picks from a list no tag without
\* its prefix and no prerelease for a row at a release (latestKey).  A registry and
\* "GitHub's latest release name one version, and the engine takes it"
\* (docs/how-it-works.md:45), its prefix unasked (versions.go:268).
OfferFits ==
    Offered # None =>
        /\ Kind[def] \in AquaKinds => Offered \in Filtered[def]
        /\ Kind[def] \in AquaKinds \ SingleKinds => Offered \in Prefixed[def]
        /\ Offered \in Pre /\ Kind[def] \notin SingleKinds => row \in Pre
=============================================================================
