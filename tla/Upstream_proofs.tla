--------------------------- MODULE Upstream_proofs ---------------------------
(***************************************************************************)
(* Proofs about what an engine takes from upstream.  About CatalogRefresh, *)
(* for every set of documents, images, overlays and required tools, any    *)
(* number of refreshes and any length of history.  About VersionLookup and *)
(* its gate, for any number of requesters and credentials, any refusals,   *)
(* definitions and tags, lists of any length and pages of any size.        *)
(***************************************************************************)
EXTENDS CatalogRefresh, VersionLookup, SequenceTheorems, WellFoundedInduction, TLAPS

(***************************************************************************)
(* CatalogRefresh: the catalog in use.  The invariant adds to the property *)
(* what a refresh has established before each of its steps, and what the   *)
(* cache file holds.                                                       *)
(***************************************************************************)

\* Between acceptance and the end of the job, the prepared catalog is the
\* fetched document's and complete.
PreparedGood ==
    pc \in {"writing", "storing"} =>
        /\ prepared.doc = body /\ body \in Plausible
        /\ \A t \in Require : prepared.entries[t] = "good"

\* Unless a write failed or the file was damaged, the cache holds the document
\* about to be stored, and afterwards the one in use.
CacheFollows ==
    ~unwritten /\ cache # Damaged =>
        /\ pc = "storing" => cache = body
        /\ pc # "storing" /\ source = "remote" => cache = live.doc

IInv == TypeOK /\ PreparedGood /\ CacheFollows /\ ServesGood

-----------------------------------------------------------------------------
(* Catalogs.                                                               *)

LEMMA StampNat == ASSUME NEW d \in Docs \cup {NoDoc} PROVE Stamp(d) \in Nat
    BY CatalogAssumption DEF Stamp

LEMMA ParsedType ==
    ASSUME NEW d \in Docs \cup {NoDoc}
    PROVE  Parsed(d) \in Catalogs /\ Parsed(d).doc = d
    BY CatalogAssumption DEF Parsed, Catalogs, EntryKinds

\* An overlay changes entries, never which document it is.
LEMMA OverlaidType ==
    ASSUME overlay \in Overlays, NEW c \in Catalogs
    PROVE  Overlaid(c) \in Catalogs /\ Overlaid(c).doc = c.doc
<1>1. ASSUME NEW t \in Tools PROVE Patched(c.entries[t], Kept(c.entries[t], overlay[t])) \in EntryKinds
    BY <1>1 DEF Patched, EntryKinds, Catalogs
<1> QED
    BY <1>1 DEF Overlaid, Catalogs

LEMMA BakedType ==
    ASSUME overlay \in Overlays, NEW img \in Images
    PROVE  Baked(img) \in Catalogs /\ Baked(img).doc = img
<1>1. img \in Docs \cup {NoDoc}
    BY CatalogAssumption
<1> QED
    BY <1>1, ParsedType, OverlaidType DEF Baked

\* What the acceptance says of the catalog that is then served.
LEMMA AcceptedServes ==
    ASSUME overlay \in Overlays, NEW d \in Docs, Accepted(d)
    PROVE  /\ d \in Plausible
           /\ Overlaid(Parsed(d)) \in Catalogs /\ Overlaid(Parsed(d)).doc = d
           /\ \A t \in Require : Overlaid(Parsed(d)).entries[t] = "good"
    BY ParsedType, OverlaidType DEF Accepted, Verified

\* What a process serves when it has just started.
LEMMA BootServes ==
    ASSUME overlay \in Overlays, cache \in Docs \cup {NoDoc, Damaged}, NEW img \in Images, Boot(img)
    PROVE  /\ live' \in Catalogs /\ source' \in {"none", "baked", "cached"}
           /\ ServesGood'
           /\ UsesCache(img) => live'.doc = cache
<1>1. CASE UsesCache(img)
    <2>1. cache \in Docs /\ Accepted(cache) /\ Stamp(cache) >= Stamp(img)
        BY <1>1 DEF UsesCache
    <2>2. live' = Overlaid(Parsed(cache)) /\ source' = "cached" /\ image' = img
        BY <1>1 DEF Boot
    <2>3. Stamp(live.doc)' = Stamp(live'.doc) /\ Stamp(image)' = Stamp(image')
        BY DEF Stamp
    <2> QED
        BY <2>1, <2>2, <2>3, AcceptedServes DEF ServesGood
<1>2. CASE ~UsesCache(img)
    <2>1. live' = Baked(img) /\ source' \in {"none", "baked"} /\ image' = img
        BY <1>2 DEF Boot
    <2> QED
        BY <1>2, <2>1, BakedType DEF ServesGood
<1> QED
    BY <1>1, <1>2

-----------------------------------------------------------------------------
(* Type correctness.                                                       *)

LEMMA EventType ==
    ASSUME events \in 0 .. MaxEvents, NEW e, Event(e)
    PROVE  events' \in 0 .. MaxEvents
    BY CatalogAssumption DEF Event

LEMMA InitType == Init => TypeOK
<1> SUFFICES ASSUME Init PROVE TypeOK
    OBVIOUS
<1>1. /\ live \in Catalogs
      /\ prepared \in Catalogs
    BY BakedType, ParsedType DEF Init
<1>2. events \in 0 .. MaxEvents /\ pending \in 0 .. QueueCap
    BY CatalogAssumption DEF Init
<1> QED
    BY <1>1, <1>2 DEF Init, TypeOK

\* What the job's steps write.
LEMMA JobType == ASSUME TypeOK, Job PROVE TypeOK'
<1> USE DEF TypeOK
<1>1. Parsed(NoDoc) \in Catalogs
    BY ParsedType
<1>2. ASSUME Begin PROVE TypeOK'
    BY <1>2, CatalogAssumption DEF Begin, settings, history
<1>3. ASSUME Fetch PROVE TypeOK'
    BY <1>3 DEF Fetch, settings, history
<1>4. ASSUME FetchFails PROVE TypeOK'
    <2>1. events' \in 0 .. MaxEvents
        BY <1>4, EventType DEF FetchFails
    <2> QED
        BY <1>1, <1>4, <2>1 DEF FetchFails, End, settings, history
<1>5. ASSUME Current \/ Reject PROVE TypeOK'
    BY <1>1, <1>5 DEF Current, Reject, End, settings, history
<1>6. ASSUME Accept PROVE TypeOK'
    <2>1. body \in Docs
        BY <1>6, CatalogAssumption DEF Accept, Accepted
    <2>2. prepared' \in Catalogs
        BY <1>6, <2>1, AcceptedServes DEF Accept
    <2> QED
        BY <1>6, <2>2 DEF Accept, settings, history
<1>7. ASSUME Write PROVE cache' \in Docs \cup {NoDoc, Damaged} /\ TypeOK'
    BY <1>7 DEF Write, settings, history
<1>8. ASSUME WriteFails PROVE TypeOK'
    <2>1. events' \in 0 .. MaxEvents
        BY <1>8, EventType DEF WriteFails
    <2> QED
        BY <1>8, <2>1 DEF WriteFails, settings
<1>9. ASSUME Store PROVE TypeOK'
    BY <1>1, <1>9 DEF Store, End, settings, history
<1> QED
    BY <1>2, <1>3, <1>4, <1>5, <1>6, <1>7, <1>8, <1>9 DEF Job

LEMMA OutsideType == ASSUME TypeOK, Refresh \/ Outside PROVE TypeOK'
<1> USE DEF TypeOK
<1>1. ASSUME Refresh PROVE TypeOK'
    BY <1>1, CatalogAssumption DEF Refresh, settings, jobVars, history
<1>2. ASSUME NEW d \in Docs, Publish(d) PROVE TypeOK'
    BY <1>2, EventType DEF Publish, jobVars, history
<1>3. ASSUME NEW o \in Overlays, EditOverlay(o) PROVE TypeOK'
    BY <1>3, EventType DEF EditOverlay, jobVars, history
<1>4. ASSUME NEW img \in Images, Restart(img) PROVE TypeOK'
    <2>1. events' \in 0 .. MaxEvents /\ Boot(img)
        BY <1>4, EventType DEF Restart
    <2>2. live' \in Catalogs /\ source' \in {"none", "baked", "cached"}
        BY <2>1, BootServes
    <2>3. prepared' \in Catalogs /\ passed' \in Docs \cup {NoDoc} /\ pending' \in 0 .. QueueCap
        BY <2>1, ParsedType, CatalogAssumption DEF Boot
    <2> QED
        BY <1>4, <2>1, <2>2, <2>3 DEF Restart, Boot
<1>5. ASSUME Damage PROVE TypeOK'
    BY <1>5, EventType DEF Damage, settings, jobVars, history
<1>6. ASSUME Close PROVE TypeOK'
    <2>1. pending' \in 0 .. QueueCap
        BY <1>6, CatalogAssumption DEF Close
    <2> QED
        BY <1>6, <2>1, EventType DEF Close, settings, jobVars, history
<1> QED
    BY <1>1, <1>2, <1>3, <1>4, <1>5, <1>6 DEF Outside

-----------------------------------------------------------------------------
(* The invariant.                                                          *)

LEMMA JobKeeps == ASSUME IInv, Job PROVE PreparedGood' /\ CacheFollows' /\ ServesGood'
<1> USE DEF IInv, PreparedGood, CacheFollows, ServesGood
<1>s. /\ Stamp(live.doc)' = Stamp(live'.doc)
      /\ Stamp(image)' = Stamp(image')
    BY DEF Stamp
<1>1. ASSUME Begin \/ Fetch \/ FetchFails \/ Current \/ Reject
      PROVE  PreparedGood' /\ CacheFollows' /\ ServesGood'
    BY <1>1, <1>s DEF Begin, Fetch, FetchFails, Current, Reject, End, settings, history
<1>2. ASSUME Accept PROVE PreparedGood' /\ CacheFollows' /\ ServesGood'
    <2>1. body \in Docs /\ Accepted(body) /\ prepared' = Overlaid(Parsed(body))
        BY <1>2, CatalogAssumption DEF Accept, Accepted
    <2>2. overlay \in Overlays
        BY DEF TypeOK
    <2>3. PreparedGood'
        BY <1>2, <2>1, <2>2, AcceptedServes DEF Accept
    <2> QED
        BY <1>2, <1>s, <2>3 DEF Accept, settings, history
<1>3. ASSUME Write \/ WriteFails PROVE PreparedGood' /\ CacheFollows' /\ ServesGood'
    BY <1>3, <1>s DEF Write, WriteFails, settings, history
<1>4. ASSUME Store PROVE PreparedGood' /\ CacheFollows' /\ ServesGood'
    BY <1>4, <1>s DEF Store, End, settings, history
<1> QED
    BY <1>1, <1>2, <1>3, <1>4 DEF Job

LEMMA OutsideKeeps ==
    ASSUME IInv, Refresh \/ Outside PROVE PreparedGood' /\ CacheFollows' /\ ServesGood'
<1> USE DEF IInv, PreparedGood, CacheFollows
<1>1. ASSUME NEW img \in Images, Restart(img) PROVE PreparedGood' /\ CacheFollows' /\ ServesGood'
    <2>1. Boot(img)
        BY <1>1 DEF Restart
    <2>2. ServesGood' /\ source' # "remote"
        BY <2>1, BootServes DEF TypeOK
    <2> QED
        BY <2>1, <2>2 DEF Boot
<1>2. ASSUME Refresh \/ Damage \/ Close
             \/ (\E d \in Docs : Publish(d)) \/ (\E o \in Overlays : EditOverlay(o))
      PROVE  PreparedGood' /\ CacheFollows' /\ ServesGood'
    <2>1. /\ UNCHANGED <<image, live, source, pc, body, prepared, unwritten>>
          /\ cache' \in {cache, Damaged}
        BY <1>2 DEF Refresh, Damage, Close, Publish, EditOverlay, settings, jobVars, history
    <2>2. ServesGood'
        BY <2>1 DEF ServesGood, Stamp
    <2> QED
        BY <2>1, <2>2
<1> QED
    BY <1>1, <1>2 DEF Outside

LEMMA Inductive == IInv /\ [Next]_vars => IInv'
<1> SUFFICES ASSUME IInv, [Next]_vars PROVE IInv'
    OBVIOUS
<1>1. ASSUME Job PROVE IInv'
    BY <1>1, JobType, JobKeeps DEF IInv
<1>2. ASSUME Refresh \/ Outside PROVE IInv'
    BY <1>2, OutsideType, OutsideKeeps DEF IInv
<1>3. ASSUME UNCHANGED vars PROVE IInv'
    <2>1. TypeOK'
        BY <1>3 DEF IInv, TypeOK, vars, history
    <2>2. ServesGood'
        BY <1>3 DEF IInv, ServesGood, Stamp, vars
    <2> QED
        BY <1>3, <2>1, <2>2 DEF IInv, PreparedGood, CacheFollows, vars, history
<1> QED
    BY <1>1, <1>2, <1>3 DEF Next

LEMMA InitInv == Init => IInv
<1> SUFFICES ASSUME Init PROVE IInv
    OBVIOUS
<1>1. Baked(image).doc = image
    BY BakedType DEF Init
<1> QED
    BY <1>1, InitType DEF Init, IInv, PreparedGood, CacheFollows, ServesGood

-----------------------------------------------------------------------------

\* Every variable of the catalog's state keeps its type.
THEOREM TypeCorrect == Safe => []TypeOK
<1>1. IInv => TypeOK
    BY DEF IInv
<1> QED
    BY <1>1, InitInv, Inductive, PTL DEF Safe

\* The document in use is the image's own or passed the whole of the acceptance
\* (prepareCatalog, initCatalog).
THEOREM ServesGoodAlways == Safe => []ServesGood
<1>1. IInv => ServesGood
    BY DEF IInv
<1> QED
    BY <1>1, InitInv, Inductive, PTL DEF Safe

LEMMA StepKeepsLastGood ==
    ASSUME IInv, Next
    PROVE  /\ pc # "idle" /\ pc' = "idle" /\ lastError' => UNCHANGED <<live, cache, source>>
           /\ \/ source # "remote" \/ source' = "remote"
              \/ unwritten \/ cache = Damaged \/ ~Accepted(LastGood)
              \/ Stamp(LastGood) < Stamp(image')
              \/ live'.doc = LastGood
<1>1. ASSUME NEW img \in Images, Restart(img), source = "remote", ~unwritten, cache # Damaged,
             Accepted(LastGood), ~(Stamp(LastGood) < Stamp(image'))
      PROVE  live'.doc = LastGood
    <2>1. Boot(img) /\ image' = img
        BY <1>1 DEF Restart, Boot
    <2>2. cache = LastGood
        BY <1>1 DEF IInv, CacheFollows, LastGood
    <2>3. cache \in Docs
        BY <1>1, <2>2, CatalogAssumption DEF Accepted
    <2>4. Stamp(cache) \in Nat /\ Stamp(img) \in Nat
        BY <2>3, StampNat, CatalogAssumption
    <2>5. UsesCache(img)
        BY <1>1, <2>1, <2>2, <2>3, <2>4 DEF UsesCache
    <2> QED
        BY <2>1, <2>2, <2>5, BootServes DEF IInv, TypeOK
<1>2. ASSUME NEW img \in Images, Restart(img) PROVE ~lastError'
    BY <1>2 DEF Restart, Boot
<1>3. ASSUME ~(\E img \in Images : Restart(img))
      PROVE  /\ source' = source \/ source' = "remote"
             /\ pc # "idle" /\ pc' = "idle" /\ lastError' => UNCHANGED <<live, cache, source>>
    BY <1>3 DEF Next, Job, Outside, Refresh, Begin, Fetch, FetchFails, Current, Reject, Accept,
        Write, WriteFails, Store, End, Publish, EditOverlay, Damage, Close, settings, jobVars
<1> QED
    BY <1>1, <1>2, <1>3

\* A failed refresh changes nothing, and a restart serves the last good document
\* (runCatalogRefresh, initCatalog).
THEOREM LastGoodAlwaysStands == Safe => LastGoodStands
<1>1. IInv /\ [Next]_vars =>
        [/\ pc # "idle" /\ pc' = "idle" /\ lastError' => UNCHANGED <<live, cache, source>>
         /\ \/ source # "remote" \/ source' = "remote"
            \/ unwritten \/ cache = Damaged \/ ~Accepted(LastGood)
            \/ Stamp(LastGood) < Stamp(image')
            \/ live'.doc = LastGood]_vars
    BY StepKeepsLastGood
<1> QED
    BY <1>1, InitInv, Inductive, PTL DEF Safe, LastGoodStands

(***************************************************************************)
(* VersionLookup.  What the gate holds of a credential is never longer     *)
(* than what GitHub named, and, until a later refusal shortened it, no     *)
(* shorter: the two facts that make both sides of SentUnheld.  They stand  *)
(* because a refusal is recorded for the credential its request carried,   *)
(* whatever is in force when it arrives.  What was listed all along is     *)
(* read or yet to be read: publishing moves a tag only towards the end, so *)
(* the walk cannot miss one (PickIsLatest).  A cached version fits its     *)
(* key, which is the row and the definition asked about (OfferFits).       *)
(***************************************************************************)

-----------------------------------------------------------------------------
(* Numbers and lists.                                                      *)

\* Every set of numbers that is not empty has a least one.
LEMMA Least ==
    ASSUME NEW S \in SUBSET Nat, S # {}
    PROVE  \E x \in S : \A y \in S : x <= y
<1>1. \E x \in S : \A y \in S : ~(<<y, x>> \in OpToRel(<, Nat))
    BY NatLessThanWellFounded, WFMin
<1>2. \A x \in S, y \in S : ~(<<y, x>> \in OpToRel(<, Nat)) => x <= y
    BY DEF OpToRel
<1> QED BY <1>1, <1>2

LEMMA AboveBoth == \A x, y \in Nat : \E c \in Nat : x <= c /\ y <= c
<1> SUFFICES ASSUME NEW x \in Nat, NEW y \in Nat PROVE \E c \in Nat : x <= c /\ y <= c
    OBVIOUS
<1>1. x <= x + y /\ y <= x + y /\ x + y \in Nat
    OBVIOUS
<1> QED BY <1>1

LEMMA LessOfTwo ==
    ASSUME NEW a \in Nat, NEW b \in Nat
    PROVE  /\ Min({a, b}) \in Nat /\ Min({a, b}) <= a /\ Min({a, b}) <= b
           /\ Min({a, b}) = a \/ Min({a, b}) = b
<1>1. \E x \in {a, b} : \A y \in {a, b} : x <= y
    OBVIOUS
<1> QED BY <1>1 DEF Min

\* What a list and another hold together.
LEMMA JoinedSet ==
    ASSUME NEW S, NEW s \in Seq(S), NEW u \in Seq(S)
    PROVE  ToSet(s \o u) = ToSet(s) \cup ToSet(u)
<1>1. s \o u \in Seq(S) /\ Len(s \o u) = Len(s) + Len(u)
    OBVIOUS
<1>2. \A i \in DOMAIN s : i \in DOMAIN (s \o u) /\ (s \o u)[i] = s[i]
    OBVIOUS
<1>3. \A i \in DOMAIN u : Len(s) + i \in DOMAIN (s \o u) /\ (s \o u)[Len(s) + i] = u[i]
    OBVIOUS
<1>4. \A i \in DOMAIN (s \o u) : i \in DOMAIN s \/ (i - Len(s) \in DOMAIN u /\ (s \o u)[i] = u[i - Len(s)])
    OBVIOUS
<1>5. ToSet(s \o u) \subseteq ToSet(s) \cup ToSet(u)
    BY <1>4 DEF ToSet
<1>6. ToSet(s) \subseteq ToSet(s \o u)
    BY <1>2 DEF ToSet
<1>7. ToSet(u) \subseteq ToSet(s \o u)
    BY <1>3 DEF ToSet
<1> QED BY <1>5, <1>6, <1>7

\* The part of a list that a page is: after some positions, as many as there are up to
\* a page's size.
LEMMA PartFacts ==
    ASSUME NEW S, NEW s \in Seq(S), NEW before \in Nat, NEW after \in Nat, NEW last \in Nat,
           last <= Len(s), last <= after, last = after \/ last = Len(s)
    PROVE  /\ \A i \in DOMAIN s :
                  i > before => s[i] \in ToSet(SubSeq(s, before + 1, last)) \/ i > after
           /\ Len(SubSeq(s, before + 1, last)) < after - before => \A i \in DOMAIN s : i <= after
<1>1. Len(s) \in Nat
    OBVIOUS
<1>d. \A i \in DOMAIN s : i \in Nat /\ i <= Len(s)
    OBVIOUS
<1>2. \A i \in before + 1 .. last : s[i] \in S
    <2> SUFFICES ASSUME NEW i \in before + 1 .. last PROVE s[i] \in S
        OBVIOUS
    <2>1. i \in 1 .. Len(s)
        BY <1>1
    <2> QED BY <2>1
<1> DEFINE part == SubSeq(s, before + 1, last)
<1>3. /\ part \in Seq(S)
      /\ Len(part) = IF before + 1 <= last THEN last - before ELSE 0
      /\ \A k \in 1 .. last - before : part[k] = s[before + k]
    <2>1. last - (before + 1) + 1 = last - before
        OBVIOUS
    <2>2. \A k \in 1 .. last - before : before + 1 + k - 1 = before + k
        OBVIOUS
    <2> QED BY <1>2, <2>1, <2>2, SubSeqProperties
<1> HIDE DEF part
<1>4. ASSUME NEW i \in DOMAIN s, i > before, ~(i > after) PROVE s[i] \in ToSet(part)
    <2>1. i \in Nat /\ i <= Len(s)
        BY <1>d
    <2>2. i <= last
        BY <1>1, <1>4, <2>1
    <2>3. i - before \in 1 .. last - before /\ before + (i - before) = i /\ before + 1 <= last
        BY <1>4, <2>1, <2>2
    <2>4. part[i - before] = s[i] /\ i - before \in DOMAIN part
        BY <1>3, <2>3
    <2> QED BY <2>4 DEF ToSet
<1>5. ASSUME Len(part) < after - before, NEW i \in DOMAIN s PROVE i <= after
    <2> SUFFICES ASSUME i > after PROVE FALSE
        BY <1>d
    <2>1. Len(s) > after
        BY <1>1, <1>d
    <2>2. last = after
        BY <1>1, <2>1
    <2>3. Len(part) = after - before \/ after <= before
        BY <1>3, <2>2
    <2>4. Len(part) \in Nat
        BY <1>3
    <2> QED BY <1>5, <2>3, <2>4
<1> QED BY <1>4, <1>5 DEF part

\* An element inserted moves the others towards the end, if at all.
LEMMA InsertMoves ==
    ASSUME NEW S, NEW s \in Seq(S), NEW e \in S, NEW p \in 1 .. Len(s) + 1, NEW i \in DOMAIN s
    PROVE  \E j \in DOMAIN InsertAt(s, p, e) : j >= i /\ InsertAt(s, p, e)[j] = s[i]
<1> DEFINE a == SubSeq(s, 1, p - 1)
           b == SubSeq(s, p, Len(s))
<1>1. /\ a \in Seq(S) /\ Len(a) = p - 1
      /\ \A k \in 1 .. p - 1 : a[k] = s[k]
    OBVIOUS
<1>2. /\ b \in Seq(S) /\ Len(b) = Len(s) - p + 1
      /\ \A k \in 1 .. Len(s) - p + 1 : b[k] = s[p + k - 1]
    OBVIOUS
<1>3. InsertAt(s, p, e) = (a \o <<e>>) \o b
    BY DEF InsertAt
<1> HIDE DEF a, b
<1>4. /\ a \o <<e>> \in Seq(S) /\ Len(a \o <<e>>) = p
      /\ \A k \in 1 .. p - 1 : (a \o <<e>>)[k] = a[k]
    BY <1>1
<1>5. i \in 1 .. Len(s)
    OBVIOUS
<1> DEFINE w == (a \o <<e>>) \o b
<1>6. \A k \in 1 .. p + Len(b) :
          k \in DOMAIN w /\ w[k] = IF k <= p THEN (a \o <<e>>)[k] ELSE b[k - p]
    <2>1. w \in Seq(S) /\ Len(w) = p + Len(b)
        BY <1>2, <1>4, ConcatProperties
    <2>2. \A k \in 1 .. p + Len(b) : w[k] = IF k <= p THEN (a \o <<e>>)[k] ELSE b[k - p]
        <3> DEFINE c == a \o <<e>>
        <3>1. c \in Seq(S) /\ Len(c) = p /\ b \in Seq(S) /\ w = c \o b
            BY <1>2, <1>4
        <3> HIDE DEF c, w
        <3>2. \A k \in 1 .. p + Len(b) : w[k] = IF k <= p THEN c[k] ELSE b[k - p]
            BY <3>1, ConcatProperties
        <3> QED BY <3>2 DEF c
    <2> HIDE DEF w
    <2>3. \A k \in 1 .. Len(w) : k \in DOMAIN w
        BY <2>1
    <2> QED BY <2>1, <2>2, <2>3
<1> HIDE DEF w
<1>7. CASE i < p
    <2>1. i \in DOMAIN w /\ w[i] = s[i]
        BY <1>1, <1>2, <1>4, <1>5, <1>6, <1>7
    <2> QED BY <1>3, <1>5, <2>1 DEF w
<1>8. CASE i >= p
    <2>0. i + 1 \in 1 .. p + Len(b) /\ ~(i + 1 <= p)
        BY <1>2, <1>5, <1>8
    <2>1. i + 1 \in DOMAIN w /\ w[i + 1] = b[i + 1 - p]
        BY <1>6, <2>0
    <2>2. b[i + 1 - p] = s[i]
        BY <1>2, <1>5, <1>8
    <2> QED BY <1>3, <1>5, <2>1, <2>2 DEF w
<1> QED BY <1>5, <1>7, <1>8

-----------------------------------------------------------------------------
USE GateAssumption, LookupAssumption

\* The gate's entry against the windows GitHub named.
Honest ==
    \A c \in Credentials :
        /\ held[c] <= longest[c]
        /\ now < longest[c] /\ c \notin cut => held[c] = longest[c]

LookupInv == LookupTypeOK /\ happened \in Nat /\ Honest

-----------------------------------------------------------------------------
(* Lists and pages.                                                        *)

\* Any part of a list, its bounds past its ends included where nothing is there,
\* is a list.
LEMMA PartIsList ==
    ASSUME NEW s \in Seq(Tags), NEW m \in Nat \ {0}, NEW n \in Int, n <= Len(s)
    PROVE  SubSeq(s, m, n) \in Seq(Tags)
<1>1. \A i \in m .. n : s[i] \in Tags
    <2>1. \A i \in m .. n : i \in 1 .. Len(s)
        OBVIOUS
    <2> QED BY <2>1
<1> QED BY <1>1, SubSeqProperties

\* A page of a list is a list.
LEMMA PageIsList ==
    ASSUME upstream \in Seq(Tags), NEW n \in Nat \ {0}
    PROVE  Page(n) \in Seq(Tags)
<1> DEFINE last == Min({n * PageSize, Len(upstream)})
<1>1. n * PageSize \in Nat /\ (n - 1) * PageSize \in Nat
    OBVIOUS
<1>2. last \in Int /\ last <= Len(upstream)
    <2>1. \E x \in {n * PageSize, Len(upstream)} :
              \A y \in {n * PageSize, Len(upstream)} : x <= y
        BY <1>1
    <2>2. /\ last \in {n * PageSize, Len(upstream)}
          /\ \A y \in {n * PageSize, Len(upstream)} : last <= y
        BY <2>1 DEF Min
    <2> QED BY <1>1, <2>2
<1> DEFINE before == (n - 1) * PageSize
<1>3. before \in Nat
    BY <1>1
<1> HIDE DEF before
<1>4. before + 1 \in Nat \ {0}
    BY <1>3
<1> QED BY <1>2, <1>4, PartIsList DEF Page, before

\* What a lookup resolves to is a version or none.
LEMMA ChoiceTyped ==
    ASSUME NEW l
    PROVE  Choice(l) \in Tags \cup {None}
BY DEF Choice

-----------------------------------------------------------------------------
(* The gate.                                                               *)

\* The instant until which a refusal holds.
LEMMA UntilIsTime ==
    ASSUME now \in Nat, NEW a \in Refusals
    PROVE  Until(a) \in Nat
<1>1. a \in [spent : BOOLEAN, reset : Nat, after : BOOLEAN, retry : Nat, phrase : BOOLEAN]
    OBVIOUS
<1>2. ResetOf(a) \in Nat
    BY <1>1 DEF ResetOf, RetryUntil, Later
<1> QED BY <1>2 DEF Until, Later

\* Recording a refusal keeps the gate honest, shortened windows apart.
LEMMA RecordKeeps ==
    ASSUME GateTypeOK, Honest, NEW c \in Credentials, NEW a \in Refusals, Record(c, a)
    PROVE  GateTypeOK' /\ Honest'
<1> DEFINE t == Until(a)
<1>1. t \in Nat
    BY UntilIsTime DEF GateTypeOK
<1> HIDE DEF t
<1>2. /\ held' = [d \in Credentials |-> IF d = c THEN t ELSE IF Held(d) THEN held[d] ELSE 0]
      /\ longest' = [longest EXCEPT ![c] = Later(@, t)]
      /\ cut' = IF t < longest[c] THEN cut \cup {c} ELSE cut
      /\ now' = now /\ token' = token
    BY DEF Record, t
<1>3. Later(longest[c], t) \in Nat
    BY <1>1 DEF Later, GateTypeOK
<1>4. GateTypeOK'
    BY <1>1, <1>2, <1>3 DEF GateTypeOK
<1>5. ASSUME NEW d \in Credentials
      PROVE  /\ held'[d] <= longest'[d]
             /\ now' < longest'[d] /\ d \notin cut' => held'[d] = longest'[d]
    <2>1. CASE d = c
        <3>1. held'[d] = t /\ longest'[d] = Later(longest[c], t)
            BY <1>2, <2>1 DEF GateTypeOK
        <3>2. d \notin cut' => ~(t < longest[c])
            BY <1>2, <2>1
        <3>3. longest[c] \in Nat
            BY DEF GateTypeOK
        <3> QED BY <1>1, <3>1, <3>2, <3>3 DEF Later
    <2>2. CASE d # c
        <3>1. /\ held'[d] = IF Held(d) THEN held[d] ELSE 0
              /\ longest'[d] = longest[d]
              /\ d \notin cut' => d \notin cut
            BY <1>2, <2>2 DEF GateTypeOK
        <3>2. held[d] \in Nat /\ longest[d] \in Nat /\ now \in Nat
            BY DEF GateTypeOK
        <3> QED BY <1>2, <3>1, <3>2 DEF Honest, Held
    <2> QED BY <2>1, <2>2
<1> QED BY <1>4, <1>5 DEF Honest
-----------------------------------------------------------------------------
(* The steps.                                                              *)

LEMMA InitTypes == LookupInit => LookupInv
<1> SUFFICES ASSUME LookupInit PROVE LookupInv
    OBVIOUS
<1>1. GateTypeOK /\ Honest /\ happened \in Nat
    BY DEF LookupInit, GateInit, GateTypeOK, Honest
<1>2. LookupTypeOK
    BY <1>1 DEF LookupInit, LookupTypeOK, Keys
<1> QED BY <1>1, <1>2 DEF LookupInv

\* A step that moves one lookup to a typed state and leaves the gate alone.
LEMMA MoveKeeps ==
    ASSUME LookupInv, NEW r \in Requesters, NEW l \in Lookups \cup {Idle}, To(r, l),
           UNCHANGED <<gate, upstream, row, def>>, happened' \in Nat,
           resolved' \in [Keys -> Tags \cup {None}]
    PROVE  LookupInv'
<1>1. look' \in [Requesters -> Lookups \cup {Idle}]
    BY DEF LookupInv, LookupTypeOK, To
<1>2. GateTypeOK' /\ Honest'
    BY DEF LookupInv, LookupTypeOK, GateTypeOK, Honest, gate
<1> QED BY <1>1, <1>2 DEF LookupInv, LookupTypeOK

LEMMA NextKeeps == ASSUME LookupInv, [LookupNext]_resolverVars PROVE LookupInv'
<1> USE DEF LookupInv
<1>1. ASSUME NEW r \in Requesters, Look(r) PROVE LookupInv'
    <2> DEFINE l == [pc |-> "next", key |-> KeyOf, allowPre |-> row \in Pre,
                     page |-> IF Kind[def] \in SingleKinds THEN 0 ELSE 1,
                     cred |-> token, got |-> <<>>, there |-> ToSet(upstream), lost |-> FALSE]
    <2>1. KeyOf \in Keys
        BY DEF KeyOf, Keys, LookupTypeOK
    <2>2. ToSet(upstream) \subseteq Tags
        BY DEF ToSet, LookupTypeOK
    <2>3. token \in Credentials
        BY DEF LookupTypeOK, GateTypeOK
    <2>4. <<>> \in Seq(Tags) /\ 0 \in 0 .. PageCap /\ 1 \in 0 .. PageCap
        OBVIOUS
    <2>5. l \in Lookups
        BY <2>1, <2>2, <2>3, <2>4 DEF Lookups
    <2> HIDE DEF l
    <2>6. To(r, l)
        BY <1>1 DEF Look, l
    <2> QED BY <1>1, <2>5, <2>6, MoveKeeps DEF Look, LookupTypeOK
<1>2. ASSUME NEW r \in Requesters, look[r].pc # "idle" PROVE look[r] \in Lookups
    BY <1>2 DEF LookupTypeOK, Idle
<1>3. ASSUME NEW r \in Requesters, Ask(r) \/ Send(r) \/ NextPrefix(r) \/ Retries(r)
      PROVE  LookupInv'
    <2>1. look[r] \in Lookups
        BY <1>2, <1>3 DEF Ask, Send, NextPrefix, Retries
    <2>2. [look[r] EXCEPT !.pc = "asked", !.cred = token] \in Lookups
        BY <2>1 DEF Lookups, LookupTypeOK, GateTypeOK
    <2>3. /\ [look[r] EXCEPT !.pc = "sent"] \in Lookups
          /\ [look[r] EXCEPT !.pc = "next"] \in Lookups
        BY <2>1 DEF Lookups
    <2>4. \E l \in Lookups : To(r, l)
        BY <1>3, <2>2, <2>3 DEF Ask, Send, NextPrefix, Retries
    <2>5. UNCHANGED <<gate, upstream, row, def, resolved>> /\ happened' \in Nat
        BY <1>3 DEF Ask, Send, NextPrefix, Retries, Happens
    <2> QED BY <2>4, <2>5, MoveKeeps DEF LookupTypeOK
<1>4. ASSUME NEW r \in Requesters, Withheld(r) \/ RunsPastCap(r) \/ NoAnswer(r) \/ Fails(r)
      PROVE  LookupInv'
    <2>1. To(r, Idle) /\ UNCHANGED <<gate, upstream, row, def, resolved>> /\ happened' \in Nat
        BY <1>4 DEF Withheld, RunsPastCap, NoAnswer, Fails, Ends, Happens
    <2> QED BY <2>1, MoveKeeps DEF LookupTypeOK
<1>5. ASSUME NEW r \in Requesters, LatestRelease(r) \/ RegistryAnswers(r) \/ WholeList(r)
      PROVE  LookupInv'
    <2>1. look[r] \in Lookups
        BY <1>2, <1>5 DEF LatestRelease, RegistryAnswers, WholeList
    <2>2. ASSUME NEW s \in Seq(Tags)
          PROVE  [look[r] EXCEPT !.pc = "picking", !.got = s] \in Lookups
        BY <2>1 DEF Lookups
    <2>3. [look[r] EXCEPT !.pc = "next", !.page = 1] \in Lookups
        <3>1. 1 \in 0 .. PageCap
            OBVIOUS
        <3> QED BY <2>1, <3>1 DEF Lookups
    <2>4. \A t \in ToSet(upstream) : <<t>> \in Seq(Tags)
        BY DEF ToSet, LookupTypeOK
    <2>5. \E l \in Lookups : To(r, l)
        BY <1>5, <2>2, <2>3, <2>4 DEF LatestRelease, RegistryAnswers, WholeList, LookupTypeOK
    <2>6. UNCHANGED <<gate, happened, upstream, row, def, resolved>>
        BY <1>5 DEF LatestRelease, RegistryAnswers, WholeList
    <2> QED BY <2>5, <2>6, MoveKeeps DEF LookupTypeOK
<1>6. ASSUME NEW r \in Requesters, LastPage(r) \/ FullPage(r) PROVE LookupInv'
    <2>1. look[r] \in Lookups /\ look[r].page > 0
        BY <1>2, <1>6 DEF LastPage, FullPage, Walking
    <2>2. look[r].page \in Nat \ {0} /\ look[r].got \in Seq(Tags)
        BY <2>1 DEF Lookups
    <2>3. Page(look[r].page) \in Seq(Tags)
        BY <2>2, PageIsList DEF LookupTypeOK
    <2>4. look[r].got \o Page(look[r].page) \in Seq(Tags)
        BY <2>2, <2>3
    <2>5. [look[r] EXCEPT !.pc = "picking", !.got = @ \o Page(look[r].page)] \in Lookups
        BY <2>1, <2>4 DEF Lookups
    <2>6. look[r].page < PageCap
              => [look[r] EXCEPT !.pc = "next", !.page = @ + 1,
                                 !.got = @ \o Page(look[r].page)] \in Lookups
        <3>1. look[r].page < PageCap => look[r].page + 1 \in 0 .. PageCap
            BY <2>2
        <3> QED BY <2>1, <2>4, <3>1 DEF Lookups
    <2>7. \E l \in Lookups : To(r, l)
        BY <1>6, <2>5, <2>6 DEF LastPage, FullPage
    <2> QED BY <1>6, <2>7, MoveKeeps DEF LastPage, FullPage, LookupTypeOK
<1>7. ASSUME NEW r \in Requesters, Refused(r) PROVE LookupInv'
    <2>1. PICK a \in Refusals : Record(look[r].cred, a)
        BY <1>7 DEF Refused
    <2>2. look[r].cred \in Credentials
        BY <1>2, <1>7 DEF Refused, Lookups
    <2>3. GateTypeOK' /\ Honest'
        BY <2>1, <2>2, RecordKeeps DEF LookupTypeOK
    <2>4. look' \in [Requesters -> Lookups \cup {Idle}]
        BY <1>7 DEF Refused, Ends, To, LookupTypeOK
    <2> QED BY <1>7, <2>3, <2>4 DEF Refused, Happens, LookupTypeOK
<1>8. ASSUME NEW r \in Requesters, Answer(r) PROVE LookupInv'
    <2>1. resolved' \in [Keys -> Tags \cup {None}]
        BY <1>8, ChoiceTyped DEF Answer, LookupTypeOK
    <2> QED BY <1>8, <2>1, MoveKeeps DEF Answer, Ends
<1>9. ASSUME UNCHANGED <<gate, row, def, resolved, look>>, happened' \in Nat,
             upstream' \in Seq(Tags)
      PROVE  LookupInv'
    BY <1>9 DEF LookupTypeOK, GateTypeOK, Honest, gate
<1>10. ASSUME NEW t \in Tags, NEW i \in 1 .. Len(upstream) + 1, PublishTag(t, i) PROVE LookupInv'
    <2>1. SubSeq(upstream, 1, i - 1) \in Seq(Tags)
        BY PartIsList DEF LookupTypeOK
    <2>2. SubSeq(upstream, i, Len(upstream)) \in Seq(Tags)
        BY PartIsList DEF LookupTypeOK
    <2>3. InsertAt(upstream, i, t) \in Seq(Tags)
        BY <2>1, <2>2 DEF InsertAt
    <2> QED BY <1>9, <1>10, <2>3 DEF PublishTag, Happens
<1>11. ASSUME NEW i \in 1 .. Len(upstream), Withdraw(i) PROVE LookupInv'
    <2>1. SubSeq(upstream, 1, i - 1) \in Seq(Tags)
        BY PartIsList DEF LookupTypeOK
    <2>2. SubSeq(upstream, i + 1, Len(upstream)) \in Seq(Tags)
        BY PartIsList DEF LookupTypeOK
    <2>3. upstream' \in Seq(Tags)
        <3>1. RemoveAt(upstream, i) \in Seq(Tags)
            BY <2>1, <2>2 DEF RemoveAt
        <3> QED BY <1>11, <3>1 DEF Withdraw
    <2>4. ASSUME NEW r \in Requesters, look[r].pc # "idle"
          PROVE  [look[r] EXCEPT !.there = @ \ {upstream[i]}, !.lost = TRUE] \in Lookups
        BY <1>2, <2>4 DEF Lookups
    <2>5. \A r \in Requesters : look[r] \in Lookups \cup {Idle}
        BY DEF LookupTypeOK
    <2>6. look' \in [Requesters -> Lookups \cup {Idle}]
        BY <1>11, <2>4, <2>5 DEF Withdraw
    <2>7. UNCHANGED <<now, token, held, longest, cut, row, def, resolved>> /\ happened' \in Nat
        <3>1. Happens("withdraw") /\ UNCHANGED <<gate, row, def, resolved>>
            BY <1>11, Zenon DEF Withdraw
        <3> QED BY <3>1 DEF Happens, gate
    <2>8. GateTypeOK' /\ Honest'
        BY <2>7 DEF LookupTypeOK, GateTypeOK, Honest
    <2> QED BY <2>3, <2>6, <2>7, <2>8 DEF LookupTypeOK
<1>12. ASSUME NEW v \in Rows, Records(v) PROVE LookupInv'
    BY <1>12 DEF Records, Happens, LookupTypeOK, GateTypeOK, Honest, gate
<1>13. ASSUME NEW d \in Defs, Recompile(d) PROVE LookupInv'
    BY <1>13 DEF Recompile, Happens, LookupTypeOK, GateTypeOK, Honest, gate
<1>14. ASSUME Tick, UNCHANGED lookupVars PROVE LookupInv'
    BY <1>14 DEF Tick, lookupVars, LookupTypeOK, GateTypeOK, Honest
<1>15. ASSUME NEW c \in Credentials, Rotate(c), UNCHANGED lookupVars PROVE LookupInv'
    BY <1>15 DEF Rotate, Happens, lookupVars, LookupTypeOK, GateTypeOK, Honest
<1>16. CASE UNCHANGED resolverVars
    BY <1>16, <1>9 DEF resolverVars, lookupVars, LookupTypeOK
<1> QED
    BY <1>1, <1>3, <1>4, <1>5, <1>6, <1>7, <1>8, <1>10, <1>11, <1>12, <1>13, <1>14, <1>15, <1>16
    DEF LookupNext, Step

-----------------------------------------------------------------------------
(* The types and the gate: the theorems.                                   *)

\* The gate, the lookups, their lists and the cache keep their types, and the
\* gate holds what GitHub named.
THEOREM LookupInductive == LookupSafe => []LookupInv
<1>1. LookupInit => LookupInv
    BY InitTypes
<1>2. LookupInv /\ [LookupNext]_resolverVars => LookupInv'
    BY NextKeeps
<1> QED BY <1>1, <1>2, PTL DEF LookupSafe

\* Every variable keeps its type.
THEOREM LookupTypeCorrect == LookupSafe => []LookupTypeOK
<1>1. LookupInv => LookupTypeOK
    BY DEF LookupInv
<1> QED BY <1>1, LookupInductive, PTL

\* A request leaves only outside its credential's windows, unless a later refusal
\* shortened one, and is refused locally only within one.
THEOREM AlwaysSentUnheld == LookupSafe => SentUnheld
<1> DEFINE Unheld ==
        \A r \in Requesters :
            LET c == look[r].cred
            IN  look[r].pc = "asked" /\ look'[r] # look[r]
                   => IF look'[r].pc = "sent" THEN now >= longest[c] \/ c \in cut
                      ELSE now < longest[c] \/ happened' # happened
<1>1. ASSUME LookupInv, [LookupNext]_resolverVars PROVE [Unheld]_resolverVars
    <2> SUFFICES ASSUME NEW r \in Requesters, look[r].pc = "asked", look'[r] # look[r]
                 PROVE  LET c == look[r].cred
                        IN  IF look'[r].pc = "sent" THEN now >= longest[c] \/ c \in cut
                            ELSE now < longest[c] \/ happened' # happened
        OBVIOUS
    <2> USE <1>1 DEF LookupInv
    <2> DEFINE c == look[r].cred
    <2>0. look[r] \in Lookups
        BY DEF LookupTypeOK, Idle
    <2>1. c \in Credentials /\ now \in Nat /\ held[c] \in Nat /\ longest[c] \in Nat
        BY <2>0 DEF LookupTypeOK, GateTypeOK, Lookups
    <2>2. ASSUME NEW q \in Requesters, NEW l, To(q, l), q # r PROVE FALSE
        BY <2>2 DEF To, LookupTypeOK
    <2>3. ASSUME NEW q \in Requesters, NEW l, To(q, l) PROVE q = r /\ look'[r] = l
        BY <2>2, <2>3 DEF To, LookupTypeOK
    <2>4. CASE Send(r)
        <3>1. ~(now < held[c])
            BY <2>4 DEF Send, Held
        <3>2. look'[r].pc = "sent"
            <4>1. look'[r] = [look[r] EXCEPT !.pc = "sent"]
                BY <2>3, <2>4 DEF Send
            <4> QED BY <2>0, <4>1 DEF Lookups
        <3> QED BY <2>1, <3>1, <3>2 DEF Honest
    <2>5. CASE Withheld(r)
        <3>1. look'[r].pc # "sent"
            BY <2>3, <2>5 DEF Withheld, Ends, Idle
        <3>2. now < held[c]
            BY <2>5 DEF Withheld, Held
        <3> QED BY <2>1, <3>1, <3>2 DEF Honest
    <2>6. ASSUME happened' = happened + 1, look'[r].pc # "sent"
          PROVE  IF look'[r].pc = "sent" THEN now >= longest[c] \/ c \in cut
                 ELSE now < longest[c] \/ happened' # happened
        BY <2>6
    <2>7. CASE Fails(r)
        BY <2>3, <2>6, <2>7 DEF Fails, Ends, Happens, Idle
    <2>8. ASSUME NEW i \in 1 .. Len(upstream), Withdraw(i)
          PROVE  IF look'[r].pc = "sent" THEN now >= longest[c] \/ c \in cut
                 ELSE now < longest[c] \/ happened' # happened
        <3>1. look'[r].pc = "asked"
            <4>1. look'[r] = [look[r] EXCEPT !.there = @ \ {upstream[i]}, !.lost = TRUE]
                BY <2>8 DEF Withdraw
            <4> QED BY <2>0, <4>1 DEF Lookups
        <3> QED BY <2>6, <2>8, <3>1 DEF Withdraw, Happens
    <2>9. ASSUME NEW q \in Requesters,
                 Look(q) \/ Step(q) \/ Refused(q) \/ Fails(q) \/ Retries(q)
          PROVE  Send(r) \/ Withheld(r) \/ Fails(r)
        <3>1. \E l : To(q, l)
            BY <2>9 DEF Look, Step, Refused, Fails, Retries, Ask, Send, Withheld, LatestRelease,
               RegistryAnswers, WholeList, NextPrefix, LastPage, FullPage, RunsPastCap, Answer,
               NoAnswer, Ends
        <3>2. q = r
            BY <2>3, <3>1
        <3> QED
            BY <2>9, <3>2 DEF Look, Step, Refused, Retries, Ask, LatestRelease, RegistryAnswers,
               WholeList, NextPrefix, LastPage, FullPage, Walking, RunsPastCap, Answer, NoAnswer
    <2>10. ~UNCHANGED look
        OBVIOUS
    <2>11. \/ \E q \in Requesters :
                 Look(q) \/ Step(q) \/ Refused(q) \/ Fails(q) \/ Retries(q)
           \/ \E i \in 1 .. Len(upstream) : Withdraw(i)
        BY <1>1, <2>10 DEF LookupNext, PublishTag, Records, Recompile, lookupVars, resolverVars
    <2> QED BY <2>4, <2>5, <2>7, <2>8, <2>9, <2>11
<1>2. LookupInv /\ [LookupNext]_resolverVars => [Unheld]_resolverVars
    BY <1>1
<1> QED BY <1>2, LookupInductive, PTL DEF LookupSafe, SentUnheld

-----------------------------------------------------------------------------
(* The highest of a list.                                                  *)

\* The ranks in a list are bounded: otherwise take the shortest part of it where they
\* are not, and the rank it ends with.
LEMMA RanksBounded ==
    ASSUME NEW s \in Seq(Tags)
    PROVE  \E b \in Nat : \A i \in DOMAIN s : Rank[s[i]] <= b
<1> DEFINE Upto(n) == \E b \in Nat : \A i \in 1 .. n : Rank[s[i]] <= b
           Fail == {n \in 0 .. Len(s) : ~Upto(n)}
<1>0. Len(s) \in Nat /\ DOMAIN s = 1 .. Len(s) /\ \A i \in 1 .. Len(s) : Rank[s[i]] \in Nat
    OBVIOUS
<1>1. Fail = {}
    <2> SUFFICES ASSUME Fail # {} PROVE FALSE
        OBVIOUS
    <2>1. Fail \in SUBSET Nat
        BY <1>0
    <2> HIDE DEF Fail
    <2>2. PICK n \in Fail : \A y \in Fail : n <= y
        BY <2>1, Least
    <2> USE DEF Fail
    <2>3. Upto(0)
        <3>1. \A i \in 1 .. 0 : Rank[s[i]] <= 0
            OBVIOUS
        <3> QED BY <3>1
    <2> HIDE DEF Upto
    <2>4. n \in 1 .. Len(s)
        BY <1>0, <2>2, <2>3
    <2>5. n - 1 \in 0 .. Len(s) /\ n - 1 \notin Fail
        BY <1>0, <2>1, <2>2, <2>4
    <2>6. Upto(n - 1)
        BY <2>5
    <2>7. Rank[s[n]] \in Nat /\ n \in Nat
        BY <1>0, <2>4
    <2>8. \A b \in Nat : \E c \in Nat : Rank[s[n]] <= c /\ b <= c
        BY <2>7, AboveBoth
    <2>9. Upto(n)
        <3>1. PICK b \in Nat : \A i \in 1 .. n - 1 : Rank[s[i]] <= b
            BY <2>6 DEF Upto
        <3>2. PICK c \in Nat : Rank[s[n]] <= c /\ b <= c
            BY <2>8
        <3>3. ASSUME NEW i \in 1 .. n PROVE Rank[s[i]] <= c
            <4>1. i \in 1 .. Len(s) /\ (i = n \/ i \in 1 .. n - 1)
                BY <1>0, <2>4
            <4>2. Rank[s[i]] \in Nat
                BY <1>0, <4>1
            <4>3. CASE i = n
                BY <3>2, <4>3
            <4>4. CASE i \in 1 .. n - 1
                <5>1. Rank[s[i]] <= b
                    BY <3>1, <4>4
                <5> QED BY <3>2, <4>2, <5>1
            <4> QED BY <4>1, <4>3, <4>4
        <3> QED BY <3>3 DEF Upto
    <2> QED BY <2>2, <2>9
<1>2. Upto(Len(s))
    <2> HIDE DEF Upto
    <2> QED BY <1>0, <1>1
<1> QED BY <1>0, <1>2

\* One of the positions J of a list has the highest rank.
LEMMA TopPosition ==
    ASSUME NEW s \in Seq(Tags), NEW J \in SUBSET DOMAIN s, J # {}
    PROVE  \E m \in J : \A j \in J : Rank[s[j]] <= Rank[s[m]]
<1> DEFINE Above == {n \in Nat : \A j \in J : Rank[s[j]] <= n}
<1>1. \A j \in J : Rank[s[j]] \in Nat
    OBVIOUS
<1>2. Above # {}
    BY RanksBounded
<1>3. PICK n \in Above : \A y \in Above : n <= y
    <2> HIDE DEF Above
    <2>1. Above \in SUBSET Nat
        BY DEF Above
    <2> QED BY <1>2, <2>1, Least
<1>4. \E m \in J : Rank[s[m]] = n
    <2> SUFFICES ASSUME \A m \in J : Rank[s[m]] # n PROVE FALSE
        OBVIOUS
    <2>1. \A m \in J : Rank[s[m]] <= n - 1
        BY <1>1, <1>3
    <2>2. PICK m \in J : TRUE
        OBVIOUS
    <2>3. n - 1 \in Nat
        BY <1>1, <1>3, <2>1, <2>2
    <2>4. n - 1 \in Above
        BY <2>1, <2>3
    <2> QED BY <1>3, <2>4
<1> QED BY <1>3, <1>4

\* maxVersionTag: the tag it names is one of those asked about, and none is higher.
LEMMA HighestTag ==
    ASSUME NEW s \in Seq(Tags), NEW I \in SUBSET DOMAIN s, I # {}
    PROVE  \E i \in I : MaxVersionTag(s, I) = s[i] /\ \A j \in I : ~Higher(s[j], s[i])
<1> DEFINE P(i) == \A j \in I : ~Higher(s[j], s[i]) /\ (j < i => Higher(s[i], s[j]))
<1>1. \E i \in I : P(i)
    <2> DEFINE V == {i \in I : s[i] \notin Text}
               J == IF V # {} THEN V ELSE I
    <2>1. J \in SUBSET DOMAIN s /\ J # {} /\ J \subseteq I
        OBVIOUS
    <2>2. /\ \A j \in J, k \in J : s[j] \in Text <=> s[k] \in Text
          /\ \A j \in I \ J, k \in J : s[j] \in Text /\ s[k] \notin Text
        OBVIOUS
    <2> HIDE DEF J
    <2>3. PICK m \in J : \A j \in J : Rank[s[j]] <= Rank[s[m]]
        BY <2>1, TopPosition
    <2> DEFINE K == {j \in J : Rank[s[j]] = Rank[s[m]]}
    <2>4. K \in SUBSET Nat /\ K # {}
        BY <2>1
    <2> HIDE DEF K
    <2>5. PICK x \in K : \A y \in K : x <= y
        BY <2>4, Least
    <2> USE DEF K
    <2>6. x \in J /\ Rank[s[x]] = Rank[s[m]]
        BY <2>5
    <2>7. \A j \in I : Rank[s[j]] \in Nat /\ j \in Nat
        OBVIOUS
    <2>8. ASSUME NEW j \in I PROVE ~Higher(s[j], s[x]) /\ (j < x => Higher(s[x], s[j]))
        <3>1. CASE j \in J
            <4>1. Rank[s[j]] <= Rank[s[x]] /\ (s[j] \in Text <=> s[x] \in Text)
                BY <2>2, <2>3, <2>6, <3>1
            <4>2. j < x => Rank[s[j]] # Rank[s[x]]
                BY <2>1, <2>4, <2>5, <2>6, <2>7, <3>1
            <4> QED BY <2>1, <2>6, <2>7, <4>1, <4>2 DEF Higher
        <3>2. CASE j \notin J
            BY <2>2, <2>6, <3>2 DEF Higher
        <3> QED BY <3>1, <3>2
    <2> QED BY <2>1, <2>6, <2>8
<1> DEFINE c == CHOOSE i \in I : P(i)
<1>2. c \in I /\ P(c)
    BY <1>1
<1>3. MaxVersionTag(s, I) = s[c]
    BY DEF MaxVersionTag
<1> QED BY <1>2, <1>3

\* Of some of a list's versions, Top names one, and none has a higher rank.
LEMMA TopOfSome ==
    ASSUME NEW s \in Seq(Tags), NEW S \in SUBSET ToSet(s), S # {}
    PROVE  Top(S) \in S /\ \A u \in S : Rank[u] <= Rank[Top(S)]
<1> DEFINE J == {i \in DOMAIN s : s[i] \in S}
<1>1. \A u \in S : \E i \in J : s[i] = u
    BY DEF ToSet
<1>2. J # {} /\ J \in SUBSET DOMAIN s
    BY <1>1
<1>3. PICK m \in J : \A j \in J : Rank[s[j]] <= Rank[s[m]]
    <2> HIDE DEF J
    <2> QED BY <1>2, TopPosition
<1>4. \E v \in S : \A u \in S : Rank[u] <= Rank[v]
    BY <1>1, <1>3
<1> QED BY <1>4 DEF Top

-----------------------------------------------------------------------------
(* The walk.                                                               *)

\* The number of positions a lookup is past.
Read(l) == IF l.page = 0 THEN 0 ELSE (l.page - 1) * PageSize

\* What was listed all along was read, or is yet to be: publishing moves a tag only
\* towards the pages not yet read.
Walked(l) ==
    ~l.lost =>
        IF l.pc = "picking" THEN l.page > 0 => l.there \subseteq ToSet(l.got)
        ELSE \A t \in l.there :
                 t \in ToSet(l.got) \/ \E i \in DOMAIN upstream : i > Read(l) /\ upstream[i] = t

\* A lookup goes by the prerelease policy of its key; a registry's answer, and a
\* release's first, are one version, which for a release the filter passes; a whole list
\* is read at once.
Meant(l) ==
    /\ l.allowPre <=> l.key.pre
    /\ Kind[l.key.def] = "registry" => l.page = 0
    /\ l.page = 0 => Kind[l.key.def] \in SingleKinds
    /\ l.page = 0 /\ l.pc = "picking" /\ Kind[l.key.def] = "release" =>
           l.got[1] \in Filtered[l.key.def]
    /\ Kind[l.key.def] \in {"feed", "go"} /\ l.pc # "picking" => l.got = <<>>

LooksAfter == \A r \in Requesters : look[r].pc # "idle" => Walked(look[r]) /\ Meant(look[r])

\* A version fits a key: the filter of its definition passes it, and one picked from a
\* list has its prefix and is no prerelease for a row at a release.
Fits(k, v) ==
    /\ Kind[k.def] \in AquaKinds => v \in Filtered[k.def]
    /\ Kind[k.def] \in AquaKinds \ SingleKinds => v \in Prefixed[k.def]
    /\ v \in Pre /\ Kind[k.def] \notin SingleKinds => k.pre

\* What is cached fits the key it is cached under.
CacheFits == \A k \in Keys : resolved[k] # None => Fits(k, resolved[k])

\* A page holds its positions of the list, and a short one is the last.
LEMMA PageFacts ==
    ASSUME upstream \in Seq(Tags), NEW n \in Nat \ {0}
    PROVE  /\ \A i \in DOMAIN upstream :
                  i > (n - 1) * PageSize => upstream[i] \in ToSet(Page(n)) \/ i > n * PageSize
           /\ Len(Page(n)) < PageSize => \A i \in DOMAIN upstream : i <= n * PageSize
<1> DEFINE before == (n - 1) * PageSize
           after == n * PageSize
           last == Min({after, Len(upstream)})
<1>1. before \in Nat /\ after \in Nat /\ after - before = PageSize
    OBVIOUS
<1>2. Len(upstream) \in Nat
    OBVIOUS
<1> HIDE DEF before, after
<1>3. /\ last \in Nat /\ last <= after /\ last <= Len(upstream)
      /\ last = after \/ last = Len(upstream)
    BY <1>1, <1>2, LessOfTwo
<1>4. Page(n) = SubSeq(upstream, before + 1, last)
    BY DEF Page, before, after
<1> HIDE DEF last
<1>5. /\ \A i \in DOMAIN upstream : i > before => upstream[i] \in ToSet(Page(n)) \/ i > after
      /\ Len(Page(n)) < after - before => \A i \in DOMAIN upstream : i <= after
    BY <1>1, <1>3, <1>4, PartFacts
<1> QED BY <1>1, <1>5 DEF before, after

\* What a lookup in progress is.
LEMMA InProgress ==
    ASSUME LookupInv, NEW r \in Requesters, look[r].pc # "idle"
    PROVE  /\ look[r] \in Lookups
           /\ look[r].got \in Seq(Tags) /\ look[r].page \in Nat
           /\ Read(look[r]) \in Nat
           /\ look[r].key \in Keys
<1>1. look[r] \in Lookups
    BY DEF LookupInv, LookupTypeOK, Idle
<1>2. look[r].got \in Seq(Tags) /\ look[r].page \in Nat /\ look[r].key \in Keys
    BY <1>1 DEF Lookups
<1>3. PageSize \in Nat
    OBVIOUS
<1>4. Read(look[r]) \in Nat
    <2> DEFINE n == look[r].page - 1
    <2>1. CASE look[r].page = 0
        BY <2>1 DEF Read
    <2>2. CASE look[r].page # 0
        <3>1. n \in Nat
            BY <1>2, <2>2
        <3> HIDE DEF n
        <3>2. n * PageSize \in Nat
            BY <1>3, <3>1
        <3> QED BY <2>2, <3>2 DEF Read, n
    <2> QED BY <2>1, <2>2
<1> QED BY <1>1, <1>2, <1>4

\* Past a page, its positions are read.
LEMMA PastPage ==
    ASSUME NEW l, NEW n \in Nat \ {0}, l.page = n + 1
    PROVE  Read(l) = n * PageSize
<1>1. n + 1 # 0 /\ n + 1 - 1 = n
    OBVIOUS
<1>2. Read(l) = (n + 1 - 1) * PageSize
    BY <1>1 DEF Read
<1> QED BY <1>1, <1>2

\* A step that moves one lookup, to where it has read what it passed.
LEMMA OneMoves ==
    ASSUME LookupInv, LooksAfter, NEW r \in Requesters, NEW l, To(r, l), UNCHANGED upstream,
           l.pc # "idle" => Walked(l) /\ Meant(l)
    PROVE  LooksAfter'
<1>1. \A q \in Requesters : look'[q] = IF q = r THEN l ELSE look[q]
    BY DEF To, LookupInv, LookupTypeOK
<1>2. \A q \in Requesters : look'[q].pc # "idle" => Walked(look'[q]) /\ Meant(look'[q])
    BY <1>1 DEF LooksAfter
<1>3. ASSUME NEW q \in Requesters, Walked(look'[q]) PROVE Walked(look[q])'
    BY <1>3 DEF Walked, Read
<1>4. ASSUME NEW q \in Requesters, Meant(look'[q]) PROVE Meant(look[q])'
    BY <1>4 DEF Meant
<1> QED BY <1>2, <1>3, <1>4 DEF LooksAfter

LEMMA LookReads ==
    ASSUME LookupInv, LooksAfter, NEW r \in Requesters, Look(r)
    PROVE  LooksAfter'
<1> DEFINE l == [pc |-> "next", key |-> KeyOf, allowPre |-> row \in Pre,
                 page |-> IF Kind[def] \in SingleKinds THEN 0 ELSE 1,
                 cred |-> token, got |-> <<>>, there |-> ToSet(upstream), lost |-> FALSE]
<1>1. Read(l) = 0
    BY DEF Read
<1>2. \A t \in ToSet(upstream) : \E i \in DOMAIN upstream : i > 0 /\ upstream[i] = t
    <2>1. \A i \in DOMAIN upstream : i > 0
        BY DEF LookupInv, LookupTypeOK
    <2> QED BY <2>1 DEF ToSet
<1>3. Walked(l)
    BY <1>1, <1>2 DEF Walked
<1>4. Meant(l)
    BY DEF Meant, KeyOf, SingleKinds
<1>5. To(r, l) /\ UNCHANGED upstream
    BY DEF Look
<1> HIDE DEF l
<1> QED BY <1>3, <1>4, <1>5, OneMoves

\* Asking for the credential, sending, and going back to ask again read nothing.
LEMMA RequestReads ==
    ASSUME LookupInv, LooksAfter, NEW r \in Requesters,
           Ask(r) \/ Send(r) \/ NextPrefix(r) \/ Retries(r)
    PROVE  LooksAfter'
<1>0. /\ look[r].pc \in {"next", "asked", "sent"} /\ look[r] \in Lookups
      /\ Walked(look[r]) /\ Meant(look[r]) /\ UNCHANGED upstream
    BY InProgress DEF Ask, Send, NextPrefix, Retries, LooksAfter
<1>1. \E p \in {"next", "sent"} :
          \/ To(r, [look[r] EXCEPT !.pc = p])
          \/ To(r, [look[r] EXCEPT !.pc = "asked", !.cred = token])
    BY DEF Ask, Send, NextPrefix, Retries
<1>2. ASSUME NEW l, To(r, l), l.pc \in {"next", "asked", "sent"},
             l.key = look[r].key, l.allowPre = look[r].allowPre, l.page = look[r].page,
             l.got = look[r].got, l.there = look[r].there, l.lost = look[r].lost
      PROVE  LooksAfter'
    <2>1. Read(l) = Read(look[r])
        BY <1>2 DEF Read
    <2>2. Walked(l)
        BY <1>0, <1>2, <2>1 DEF Walked
    <2>3. Meant(l)
        BY <1>0, <1>2 DEF Meant
    <2> QED BY <1>0, <1>2, <2>2, <2>3, OneMoves
<1>3. ASSUME NEW p \in {"next", "sent"}, To(r, [look[r] EXCEPT !.pc = p]) PROVE LooksAfter'
    <2> DEFINE l == [look[r] EXCEPT !.pc = p]
    <2>1. /\ l.pc = p /\ l.key = look[r].key /\ l.allowPre = look[r].allowPre
          /\ l.page = look[r].page /\ l.got = look[r].got /\ l.there = look[r].there
          /\ l.lost = look[r].lost
        BY <1>0 DEF Lookups
    <2>2. To(r, l)
        BY <1>3
    <2> HIDE DEF l
    <2> QED BY <1>2, <2>1, <2>2
<1>4. CASE To(r, [look[r] EXCEPT !.pc = "asked", !.cred = token])
    <2> DEFINE l == [look[r] EXCEPT !.pc = "asked", !.cred = token]
    <2>1. /\ l.pc = "asked" /\ l.key = look[r].key /\ l.allowPre = look[r].allowPre
          /\ l.page = look[r].page /\ l.got = look[r].got /\ l.there = look[r].there
          /\ l.lost = look[r].lost
        BY <1>0 DEF Lookups
    <2>2. To(r, l)
        BY <1>4
    <2> HIDE DEF l
    <2> QED BY <1>2, <2>1, <2>2
<1> QED BY <1>1, <1>3, <1>4

LEMMA EndReads ==
    ASSUME LookupInv, LooksAfter, NEW r \in Requesters, Ends(r), UNCHANGED upstream
    PROVE  LooksAfter'
<1>1. Idle.pc = "idle"
    BY DEF Idle
<1> QED BY <1>1, OneMoves DEF Ends

\* The releases/latest answer is the release's own, and what the filter refuses sends
\* the lookup to the list, from its start.
LEMMA ReleaseReads ==
    ASSUME LookupInv, LooksAfter, NEW r \in Requesters, LatestRelease(r)
    PROVE  LooksAfter'
<1>0. /\ look[r].pc = "sent" /\ look[r].page = 0 /\ Kind[look[r].key.def] = "release"
      /\ look[r] \in Lookups /\ Walked(look[r]) /\ Meant(look[r]) /\ UNCHANGED upstream
    BY InProgress DEF LatestRelease, LooksAfter
<1>1. PICK t \in ToSet(upstream) :
          To(r, IF t \in Filtered[look[r].key.def]
                THEN [look[r] EXCEPT !.pc = "picking", !.got = <<t>>]
                ELSE [look[r] EXCEPT !.pc = "next", !.page = 1])
    BY DEF LatestRelease
<1>2. CASE t \in Filtered[look[r].key.def]
    <2> DEFINE l == [look[r] EXCEPT !.pc = "picking", !.got = <<t>>]
    <2>1. /\ l.pc = "picking" /\ l.key = look[r].key /\ l.allowPre = look[r].allowPre
          /\ l.page = 0 /\ l.got = <<t>>
        BY <1>0 DEF Lookups
    <2>2. To(r, l)
        BY <1>1, <1>2
    <2> HIDE DEF l
    <2>3. Walked(l)
        BY <2>1 DEF Walked
    <2>4. l.got[1] = t
        BY <2>1
    <2>5. Meant(l)
        BY <1>0, <1>2, <2>1, <2>4 DEF Meant
    <2> QED BY <1>0, <2>2, <2>3, <2>5, OneMoves
<1>3. CASE t \notin Filtered[look[r].key.def]
    <2> DEFINE l == [look[r] EXCEPT !.pc = "next", !.page = 1]
    <2>1. /\ l.pc = "next" /\ l.key = look[r].key /\ l.allowPre = look[r].allowPre
          /\ l.page = 1 /\ l.got = look[r].got /\ l.there = look[r].there
          /\ l.lost = look[r].lost
        BY <1>0 DEF Lookups
    <2>2. To(r, l)
        BY <1>1, <1>3
    <2> HIDE DEF l
    <2>3. Read(l) = 0 /\ Read(look[r]) = 0
        BY <1>0, <2>1 DEF Read
    <2>4. Walked(l)
        BY <1>0, <2>1, <2>3 DEF Walked
    <2>5. Meant(l)
        BY <1>0, <2>1 DEF Meant
    <2> QED BY <1>0, <2>2, <2>4, <2>5, OneMoves
<1> QED BY <1>2, <1>3

LEMMA RegistryReads ==
    ASSUME LookupInv, LooksAfter, NEW r \in Requesters, RegistryAnswers(r)
    PROVE  LooksAfter'
<1>0. /\ look[r].pc = "sent" /\ Kind[look[r].key.def] = "registry"
      /\ look[r] \in Lookups /\ Meant(look[r]) /\ UNCHANGED upstream
    BY InProgress DEF RegistryAnswers, LooksAfter
<1>1. PICK t \in ToSet(upstream) : To(r, [look[r] EXCEPT !.pc = "picking", !.got = <<t>>])
    BY DEF RegistryAnswers
<1> DEFINE l == [look[r] EXCEPT !.pc = "picking", !.got = <<t>>]
<1>2. /\ l.pc = "picking" /\ l.key = look[r].key /\ l.allowPre = look[r].allowPre
      /\ l.page = look[r].page
    BY <1>0 DEF Lookups
<1>3. To(r, l)
    BY <1>1
<1> HIDE DEF l
<1>4. l.page = 0
    BY <1>0, <1>2 DEF Meant
<1>5. Walked(l)
    BY <1>2, <1>4 DEF Walked
<1>6. Meant(l)
    BY <1>0, <1>2, <1>4 DEF Meant
<1> QED BY <1>0, <1>3, <1>5, <1>6, OneMoves

LEMMA WholeReads ==
    ASSUME LookupInv, LooksAfter, NEW r \in Requesters, WholeList(r)
    PROVE  LooksAfter'
<1>0. /\ look[r].pc = "sent" /\ Kind[look[r].key.def] \in {"feed", "go"}
      /\ look[r] \in Lookups /\ Walked(look[r]) /\ Meant(look[r]) /\ UNCHANGED upstream
    BY InProgress DEF WholeList, LooksAfter
<1> DEFINE l == [look[r] EXCEPT !.pc = "picking", !.got = upstream]
<1>1. /\ l.pc = "picking" /\ l.key = look[r].key /\ l.allowPre = look[r].allowPre
      /\ l.page = look[r].page /\ l.got = upstream /\ l.there = look[r].there
      /\ l.lost = look[r].lost
    BY <1>0 DEF Lookups
<1>2. To(r, l)
    BY DEF WholeList
<1> HIDE DEF l
<1>3. ToSet(look[r].got) = {}
    <2>1. look[r].got = <<>>
        BY <1>0 DEF Meant
    <2> QED BY <2>1 DEF ToSet
<1>4. Walked(l)
    <2>1. ~look[r].lost => look[r].there \subseteq ToSet(upstream)
        BY <1>0, <1>3 DEF Walked, ToSet
    <2> QED BY <1>1, <2>1 DEF Walked
<1>5. Meant(l)
    BY <1>0, <1>1 DEF Meant
<1> QED BY <1>0, <1>2, <1>4, <1>5, OneMoves

\* A page of the walk: what was ahead of it is on it, or further on.
LEMMA PageReads ==
    ASSUME LookupInv, LooksAfter, NEW r \in Requesters, LastPage(r) \/ FullPage(r)
    PROVE  LooksAfter'
<1> DEFINE p == look[r]
           n == p.page
           g == p.got \o Page(n)
<1>0. /\ p.pc = "sent" /\ n > 0 /\ Kind[p.key.def] \notin {"feed", "go"}
      /\ p \in Lookups /\ p.got \in Seq(Tags) /\ n \in Nat /\ Walked(p) /\ Meant(p)
      /\ UNCHANGED upstream
    BY InProgress DEF LastPage, FullPage, Walking, LooksAfter
<1>1. n \in Nat \ {0} /\ upstream \in Seq(Tags)
    BY <1>0 DEF LookupInv, LookupTypeOK
<1>2. Page(n) \in Seq(Tags)
    BY <1>1, PageIsList
<1>3. ToSet(g) = ToSet(p.got) \cup ToSet(Page(n))
    BY <1>0, <1>2, JoinedSet
<1>4. Read(p) = (n - 1) * PageSize
    BY <1>0 DEF Read
<1>5. ASSUME ~p.lost, NEW t \in p.there
      PROVE  t \in ToSet(g) \/ \E i \in DOMAIN upstream : i > n * PageSize /\ upstream[i] = t
    <2>1. t \in ToSet(p.got) \/ \E i \in DOMAIN upstream : i > Read(p) /\ upstream[i] = t
        BY <1>0, <1>5 DEF Walked
    <2> QED BY <1>1, <1>3, <1>4, <2>1, PageFacts
<1>6. CASE LastPage(r)
    <2> DEFINE l == [look[r] EXCEPT !.pc = "picking", !.got = @ \o Page(look[r].page)]
    <2>1. /\ l.pc = "picking" /\ l.key = p.key /\ l.allowPre = p.allowPre
          /\ l.page = n /\ l.got = g /\ l.there = p.there /\ l.lost = p.lost
        BY <1>0 DEF Lookups
    <2>2. To(r, l) /\ Len(Page(n)) < PageSize
        BY <1>6 DEF LastPage
    <2> HIDE DEF l
    <2>3. \A i \in DOMAIN upstream : i <= n * PageSize
        BY <1>1, <2>2, PageFacts
    <2>4. n * PageSize \in Nat /\ \A i \in DOMAIN upstream : i \in Nat
        BY <1>1
    <2>5. ~p.lost => p.there \subseteq ToSet(g)
        <3> HIDE DEF p, n, g
        <3> QED BY <1>5, <2>3, <2>4
    <2>6. Walked(l)
        BY <2>1, <2>5 DEF Walked
    <2>7. Meant(l)
        <3>1. l.page # 0 /\ p.page # 0
            BY <1>0, <2>1
        <3> HIDE DEF p, n, g
        <3> QED BY <1>0, <2>1, <3>1 DEF Meant
    <2> QED BY <1>0, <2>2, <2>6, <2>7, OneMoves
<1>7. CASE FullPage(r)
    <2> DEFINE l == [look[r] EXCEPT !.pc = "next", !.page = @ + 1,
                                    !.got = @ \o Page(look[r].page)]
    <2>1. /\ l.pc = "next" /\ l.key = p.key /\ l.allowPre = p.allowPre
          /\ l.page = n + 1 /\ l.got = g /\ l.there = p.there /\ l.lost = p.lost
        BY <1>0 DEF Lookups
    <2>2. To(r, l)
        BY <1>7 DEF FullPage
    <2> HIDE DEF l
    <2>3. n + 1 # 0 /\ n + 1 - 1 = n
        BY <1>1
    <2>4. Read(l) = n * PageSize
        BY <1>1, <2>1, PastPage
    <2>5. Walked(l)
        BY <1>5, <2>1, <2>4 DEF Walked
    <2>6. Meant(l)
        BY <1>0, <2>1, <2>3 DEF Meant
    <2> QED BY <1>0, <2>2, <2>5, <2>6, OneMoves
<1> QED BY <1>6, <1>7

\* Publishing moves what is ahead of a lookup no nearer.
LEMMA PublishReads ==
    ASSUME LookupInv, LooksAfter, NEW t \in Tags, NEW i \in 1 .. Len(upstream) + 1,
           PublishTag(t, i)
    PROVE  LooksAfter'
<1>1. upstream \in Seq(Tags) /\ upstream' = InsertAt(upstream, i, t) /\ UNCHANGED look
    BY DEF PublishTag, LookupInv, LookupTypeOK
<1>2. \A j \in DOMAIN upstream : \E k \in DOMAIN upstream' : k >= j /\ upstream'[k] = upstream[j]
    BY <1>1, InsertMoves
<1>3. upstream' \in Seq(Tags)
    BY NextKeeps DEF LookupInv, LookupTypeOK, LookupNext
<1>4. ASSUME NEW q \in Requesters, look[q].pc # "idle" PROVE Walked(look[q])' /\ Meant(look[q])'
    <2>1. Walked(look[q]) /\ Meant(look[q]) /\ Read(look[q]) \in Nat
        BY <1>4, InProgress DEF LooksAfter
    <2>2. Meant(look[q])'
        BY <1>1, <2>1 DEF Meant
    <2>3. ASSUME NEW j \in DOMAIN upstream, j > Read(look[q])
          PROVE  \E k \in DOMAIN upstream' : k > Read(look[q]) /\ upstream'[k] = upstream[j]
        <3>1. PICK k \in DOMAIN upstream' : k >= j /\ upstream'[k] = upstream[j]
            BY <1>2
        <3>2. j \in Nat /\ k \in Nat
            BY <1>1, <1>3
        <3>3. k > Read(look[q])
            BY <2>1, <2>3, <3>1, <3>2
        <3> QED BY <3>1, <3>3
    <2>4. Read(look[q])' = Read(look[q])
        BY <1>1 DEF Read
    <2>5. Walked(look[q])'
        BY <1>1, <2>1, <2>3, <2>4 DEF Walked
    <2> QED BY <2>2, <2>5
<1> QED BY <1>1, <1>4 DEF LooksAfter

LEMMA WithdrawReads ==
    ASSUME LookupInv, LooksAfter, NEW i \in 1 .. Len(upstream), Withdraw(i)
    PROVE  LooksAfter'
<1>1. ASSUME NEW q \in Requesters, look'[q].pc # "idle"
      PROVE  Walked(look[q])' /\ Meant(look[q])'
    <2>1. look'[q] = IF look[q].pc = "idle" THEN look[q]
                     ELSE [look[q] EXCEPT !.there = @ \ {upstream[i]}, !.lost = TRUE]
        BY DEF Withdraw
    <2>2. look[q].pc # "idle"
        BY <1>1, <2>1
    <2>3. look[q] \in Lookups /\ Meant(look[q])
        BY <2>2, InProgress DEF LooksAfter
    <2>4. /\ look'[q].lost = TRUE /\ look'[q].key = look[q].key /\ look'[q].pc = look[q].pc
          /\ look'[q].page = look[q].page /\ look'[q].allowPre = look[q].allowPre
          /\ look'[q].got = look[q].got
        BY <2>1, <2>2, <2>3 DEF Lookups
    <2>5. Walked(look[q])'
        BY <2>4 DEF Walked
    <2>6. Meant(look[q])'
        BY <2>3, <2>4 DEF Meant
    <2> QED BY <2>5, <2>6
<1> QED BY <1>1 DEF LooksAfter

\* Every step leaves the lookups having read what they passed.
LEMMA NextReads ==
    ASSUME LookupInv, LooksAfter, [LookupNext]_resolverVars PROVE LooksAfter'
<1>1. ASSUME NEW r \in Requesters,
             Withheld(r) \/ RunsPastCap(r) \/ NoAnswer(r) \/ Fails(r) \/ Answer(r) \/ Refused(r)
      PROVE  LooksAfter'
    <2>1. Ends(r) /\ UNCHANGED upstream
        BY <1>1 DEF Withheld, RunsPastCap, NoAnswer, Fails, Answer, Refused
    <2> QED BY <2>1, EndReads
<1>2. ASSUME UNCHANGED <<look, upstream>> PROVE LooksAfter'
    BY <1>2 DEF LooksAfter, Walked, Meant, Read
<1>3. ASSUME NEW v \in Rows, Records(v) PROVE LooksAfter'
    BY <1>2, <1>3 DEF Records
<1>4. ASSUME NEW d \in Defs, Recompile(d) PROVE LooksAfter'
    BY <1>2, <1>4 DEF Recompile
<1>5. CASE UNCHANGED lookupVars
    BY <1>2, <1>5 DEF lookupVars
<1>6. CASE UNCHANGED resolverVars
    BY <1>5, <1>6 DEF resolverVars
<1> QED
    BY <1>1, <1>3, <1>4, <1>5, <1>6, LookReads, RequestReads, ReleaseReads, RegistryReads,
       WholeReads, PageReads, PublishReads, WithdrawReads
    DEF LookupNext, Step

-----------------------------------------------------------------------------
(* The pick.                                                               *)

\* latestTag, of a list's positions where a version is that the row may be at: one
\* that the row may be at, and none is higher.
LEMMA LatestTagIsHighest ==
    ASSUME NEW s \in Seq(Tags), NEW I \in SUBSET DOMAIN s, NEW allowPre \in BOOLEAN,
           NEW j \in I, s[j] \notin Text, allowPre \/ s[j] \notin Pre
    PROVE  /\ \E i \in I : LatestTag(s, I, allowPre) = s[i]
           /\ ~Higher(s[j], LatestTag(s, I, allowPre))
<1> DEFINE parsed == {i \in I : s[i] \notin Text}
           versioned == {i \in parsed : allowPre \/ s[i] \notin Pre}
<1>1. j \in versioned /\ versioned \in SUBSET DOMAIN s /\ versioned \subseteq I
    OBVIOUS
<1>2. LatestTag(s, I, allowPre) = MaxVersionTag(s, versioned)
    BY <1>1 DEF LatestTag
<1> HIDE DEF versioned
<1>3. \E i \in versioned :
          /\ MaxVersionTag(s, versioned) = s[i]
          /\ \A k \in versioned : ~Higher(s[k], s[i])
    BY <1>1, HighestTag
<1> QED BY <1>1, <1>2, <1>3

\* latestTag names a tag of those asked about, a prerelease only to a row at one.
LEMMA LatestTagFits ==
    ASSUME NEW s \in Seq(Tags), NEW I \in SUBSET DOMAIN s, NEW allowPre \in BOOLEAN,
           LatestTag(s, I, allowPre) # None
    PROVE  /\ \E i \in I : LatestTag(s, I, allowPre) = s[i]
           /\ LatestTag(s, I, allowPre) \in Pre => allowPre
<1> DEFINE v == LatestTag(s, I, allowPre)
           parsed == {i \in I : s[i] \notin Text}
           versioned == {i \in parsed : allowPre \/ s[i] \notin Pre}
<1>1. CASE versioned # {}
    <2>1. v = MaxVersionTag(s, versioned) /\ versioned \in SUBSET DOMAIN s
        BY <1>1 DEF LatestTag
    <2>2. \E i \in versioned : MaxVersionTag(s, versioned) = s[i]
        <3> HIDE DEF versioned
        <3> QED BY <1>1, <2>1, HighestTag
    <2> QED BY <2>1, <2>2
<1>2. CASE versioned = {}
    <2>1. ~(parsed # {} \/ I = {})
        BY <1>2 DEF LatestTag
    <2>2. v = MaxVersionTag(s, I)
        BY <1>2, <2>1 DEF LatestTag
    <2>3. \E i \in I : MaxVersionTag(s, I) = s[i]
        BY <2>1, HighestTag
    <2>4. \A i \in I : s[i] \in Text /\ s[i] \notin Pre
        BY <2>1
    <2> QED BY <2>2, <2>3, <2>4
<1> QED BY <1>1, <1>2

\* highestModuleVersion, of some of a list's versions.
LEMMA HighestModule ==
    ASSUME NEW s \in Seq(Tags), NEW S \in SUBSET ToSet(s), NEW allowPre \in BOOLEAN,
           NEW t \in S, allowPre \/ t \notin Pre
    PROVE  /\ HighestModuleVersion(S, allowPre) \in S
           /\ Rank[t] <= Rank[HighestModuleVersion(S, allowPre)]
<1> DEFINE eligible == IF allowPre THEN S ELSE S \ Pre
<1>1. t \in eligible /\ eligible \in SUBSET ToSet(s) /\ eligible \subseteq S
    OBVIOUS
<1>2. HighestModuleVersion(S, allowPre) = Top(eligible)
    BY <1>1 DEF HighestModuleVersion
<1> HIDE DEF eligible
<1>3. Top(eligible) \in eligible /\ \A u \in eligible : Rank[u] <= Rank[Top(eligible)]
    BY <1>1, TopOfSome
<1> QED BY <1>1, <1>2, <1>3

\* highestModuleVersion names no prerelease to a row at a release.
LEMMA HighestModuleFits ==
    ASSUME NEW s \in Seq(Tags), NEW S \in SUBSET ToSet(s), NEW allowPre \in BOOLEAN,
           HighestModuleVersion(S, allowPre) # None,
           HighestModuleVersion(S, allowPre) \in Pre
    PROVE  allowPre
<1> SUFFICES ASSUME ~allowPre PROVE FALSE
    OBVIOUS
<1>1. S \ Pre # {} /\ HighestModuleVersion(S, allowPre) = Top(S \ Pre)
    BY DEF HighestModuleVersion
<1>2. Top(S \ Pre) \in S \ Pre
    BY <1>1, TopOfSome
<1> QED BY <1>1, <1>2

\* A Go module's lookup: of versions a list holds, one no lower than any that module
\* mode takes and no listed version retracts.
LEMMA LatestModuleIsHighest ==
    ASSUME NEW s \in Seq(Tags), NEW allowPre \in BOOLEAN, NEW t \in ModuleCandidates(s),
           allowPre \/ t \notin Pre, t \notin Incompatible,
           \A u \in ToSet(s) : t \notin Retracts[u]
    PROVE  /\ LatestModuleVersion(ModuleCandidates(s), allowPre) \in ModuleCandidates(s)
           /\ Rank[t] <= Rank[LatestModuleVersion(ModuleCandidates(s), allowPre)]
<1> DEFINE listed == ModuleCandidates(s)
           kept == Unretracted(listed)
<1>0. listed \in SUBSET ToSet(s) /\ t \in listed /\ ToSet(s) \subseteq Tags
    BY DEF ModuleCandidates, ToSet
<1>1. \A S \in SUBSET ToSet(s) :
          /\ WithoutShadowed(S) \subseteq S
          /\ t \in S => t \in WithoutShadowed(S)
    BY DEF WithoutShadowed
<1>2. RetractionSource(WithoutShadowed(listed)) \in ToSet(s)
    <2> DEFINE S == WithoutShadowed(listed)
    <2>1. S \in SUBSET ToSet(s) /\ t \in S
        BY <1>0, <1>1
    <2> HIDE DEF S
    <2>2. HighestModuleVersion(S, TRUE) \in S
        BY <2>1, HighestModule
    <2>3. HighestModuleVersion(S, FALSE) # None => HighestModuleVersion(S, FALSE) \in S
        <3>1. HighestModuleVersion(S, FALSE) # None => \E u \in S : u \notin Pre
            BY DEF HighestModuleVersion
        <3> QED BY <2>1, <3>1, HighestModule
    <2> QED BY <2>1, <2>2, <2>3 DEF RetractionSource, S
<1>3. t \in kept /\ kept \in SUBSET ToSet(s) /\ kept \subseteq listed
    BY <1>0, <1>2 DEF Unretracted, Retractions
<1>4. LatestModuleVersion(listed, allowPre)
          = HighestModuleVersion(WithoutShadowed(kept), allowPre)
    BY <1>0, <1>3 DEF LatestModuleVersion
<1> HIDE DEF listed, kept
<1>5. /\ WithoutShadowed(kept) \in SUBSET ToSet(s) /\ WithoutShadowed(kept) \subseteq listed
      /\ t \in WithoutShadowed(kept)
    BY <1>1, <1>3
<1>6. /\ HighestModuleVersion(WithoutShadowed(kept), allowPre) \in WithoutShadowed(kept)
      /\ Rank[t] <= Rank[HighestModuleVersion(WithoutShadowed(kept), allowPre)]
    BY <1>5, HighestModule
<1>7. /\ LatestModuleVersion(listed, allowPre) \in listed
      /\ Rank[t] <= Rank[LatestModuleVersion(listed, allowPre)]
    BY <1>4, <1>5, <1>6
<1> QED BY <1>7 DEF listed

\* A Go module's lookup names no prerelease to a row at a release.
LEMMA LatestModuleFits ==
    ASSUME NEW s \in Seq(Tags), NEW allowPre \in BOOLEAN,
           LatestModuleVersion(ModuleCandidates(s), allowPre) # None,
           LatestModuleVersion(ModuleCandidates(s), allowPre) \in Pre
    PROVE  allowPre
<1> DEFINE listed == ModuleCandidates(s)
           kept == Unretracted(listed)
<1>1. CASE listed = {}
    BY <1>1 DEF LatestModuleVersion, LatestQuery
<1>2. CASE listed # {}
    <2>1. LatestModuleVersion(listed, allowPre)
              = HighestModuleVersion(WithoutShadowed(kept), allowPre)
        BY <1>2 DEF LatestModuleVersion
    <2>2. WithoutShadowed(kept) \in SUBSET ToSet(s)
        BY DEF WithoutShadowed, Unretracted, ModuleCandidates
    <2> HIDE DEF kept
    <2> QED BY <2>1, <2>2, HighestModuleFits
<1> QED BY <1>1, <1>2

\* What a lookup that has read its list resolves to, when it is no list's: the kinds apart.
LEMMA ChoiceOf ==
    ASSUME NEW l \in Lookups, l.page > 0
    PROVE  LET v == Choice(l)
               g == l.got
               I == {i \in DOMAIN g : Passes(l.key.def, g[i])}
               Is(w) == v = IF w \in Legal THEN w ELSE None
           IN  /\ Kind[l.key.def] = "gitlab" => Is(LatestOnGitLab(g, l.allowPre))
               /\ Kind[l.key.def] = "go"
                      => Is(LatestModuleVersion(ModuleCandidates(g), l.allowPre))
               /\ Kind[l.key.def] \notin {"gitlab", "go"} => Is(LatestTag(g, I, l.allowPre))
<1>1. l.page # 0
    BY DEF Lookups
<1> QED BY <1>1 DEF Choice

\* What a lookup resolves to fits its key.
LEMMA ChoiceFits ==
    ASSUME NEW l \in Lookups, Meant(l), l.pc = "picking", Choice(l) # None
    PROVE  Fits(l.key, Choice(l))
<1> USE DEF Fits, SingleKinds
<1> DEFINE g == l.got
           I == {i \in DOMAIN g : Passes(l.key.def, g[i])}
<1>0. /\ g \in Seq(Tags) /\ l.allowPre \in BOOLEAN /\ I \in SUBSET DOMAIN g
      /\ (l.allowPre => l.key.pre)
    BY DEF Lookups, Meant
<1>1. CASE l.page = 0
    <2>1. Kind[l.key.def] \in {"registry", "release"}
        BY <1>1 DEF Meant
    <2>2. Choice(l) = g[1]
        BY <1>1, <2>1 DEF Choice
    <2>3. Kind[l.key.def] = "release" => g[1] \in Filtered[l.key.def]
        BY <1>1 DEF Meant
    <2> QED BY <2>1, <2>2, <2>3 DEF AquaKinds
<1>2. CASE l.page > 0
    <2> DEFINE Is(w) == Choice(l) = IF w \in Legal THEN w ELSE None
    <2>1. CASE Kind[l.key.def] = "gitlab"
        <3> DEFINE tags == {i \in DOMAIN g : g[i] \notin Text}
        <3>1. Choice(l) = LatestOnGitLab(g, l.allowPre)
            BY <1>2, <2>1, ChoiceOf
        <3>2. CASE tags # {}
            <4>1. Choice(l) = LatestTag(g, tags, l.allowPre) /\ tags \in SUBSET DOMAIN g
                BY <3>1, <3>2 DEF LatestOnGitLab
            <4> HIDE DEF tags, g
            <4>2. Choice(l) \in Pre => l.allowPre
                BY <1>0, <4>1, LatestTagFits
            <4> QED BY <1>0, <2>1, <4>2 DEF AquaKinds
        <3>3. CASE tags = {}
            <4>1. g # <<>> /\ Choice(l) = g[1]
                BY <3>1, <3>3 DEF LatestOnGitLab
            <4>2. 1 \in DOMAIN g
                BY <1>0, <4>1
            <4>3. g[1] \in Text
                BY <3>3, <4>2
            <4> QED BY <2>1, <4>1, <4>3 DEF AquaKinds
        <3> QED BY <3>2, <3>3
    <2>2. CASE Kind[l.key.def] = "go"
        <3>1. Choice(l) = LatestModuleVersion(ModuleCandidates(g), l.allowPre)
            BY <1>2, <2>2, ChoiceOf
        <3> HIDE DEF g
        <3>2. Choice(l) \in Pre => l.allowPre
            BY <1>0, <3>1, LatestModuleFits
        <3> QED BY <1>0, <2>2, <3>2 DEF AquaKinds
    <2>3. CASE Kind[l.key.def] \notin {"gitlab", "go"}
        <3>1. Choice(l) = LatestTag(g, I, l.allowPre)
            BY <1>2, <2>3, ChoiceOf
        <3>2. \A i \in I : g[i] \in Prefixed[l.key.def] /\ g[i] \in Filtered[l.key.def]
            BY DEF Passes
        <3> HIDE DEF g, I
        <3>3. /\ Choice(l) \in Pre => l.allowPre
              /\ \E i \in I : Choice(l) = g[i]
            BY <1>0, <3>1, LatestTagFits
        <3> QED BY <1>0, <3>2, <3>3
    <2> QED BY <2>1, <2>2, <2>3
<1>3. l.page = 0 \/ l.page > 0
    BY DEF Lookups
<1> QED BY <1>1, <1>2, <1>3

\* Every step leaves the cache fitting its keys.
LEMMA NextFits ==
    ASSUME LookupInv, LooksAfter, CacheFits, [LookupNext]_resolverVars PROVE CacheFits'
<1>1. ASSUME NEW r \in Requesters, Answer(r) PROVE CacheFits'
    <2> DEFINE l == look[r]
    <2>1. l.pc = "picking" /\ l \in Lookups /\ Meant(l) /\ l.key \in Keys
        BY <1>1, InProgress DEF Answer, LooksAfter
    <2>2. \A k \in Keys : resolved'[k] = IF k = l.key THEN Choice(l) ELSE resolved[k]
        BY <1>1 DEF Answer, LookupInv, LookupTypeOK
    <2>3. Fits(l.key, Choice(l))
        BY <1>1, <2>1, ChoiceFits DEF Answer
    <2> HIDE DEF l
    <2>4. \A k \in Keys : resolved'[k] # None => Fits(k, resolved'[k])
        BY <2>2, <2>3 DEF CacheFits
    <2> QED BY <2>4 DEF CacheFits, Fits
<1>2. ASSUME UNCHANGED resolved PROVE CacheFits'
    BY <1>2 DEF CacheFits, Fits
<1>3. (\E r \in Requesters : Answer(r)) \/ UNCHANGED resolved
    BY DEF LookupNext, Step, Look, Ask, Send, Withheld, LatestRelease, RegistryAnswers,
       WholeList, NextPrefix, LastPage, FullPage, RunsPastCap, NoAnswer, Refused, Fails,
       Retries, PublishTag, Withdraw, Records, Recompile, lookupVars, resolverVars
<1> QED BY <1>1, <1>2, <1>3

LEMMA InitReads == LookupInit => LooksAfter /\ CacheFits
BY DEF LookupInit, LooksAfter, CacheFits, Idle

\* A lookup that has read its list answers with a version no candidate listed
\* throughout is higher than.
LEMMA PicksHighest ==
    ASSUME NEW l \in Lookups, Walked(l), l.pc = "picking", l.page > 0, ~l.lost,
           ToSet(l.got) \ Legal = {}, NEW t \in l.there, Candidate(l, t)
    PROVE  Choice(l) # None /\ ~Higher(t, Choice(l))
<1> DEFINE g == l.got
           I == {i \in DOMAIN g : Passes(l.key.def, g[i])}
<1>0. /\ g \in Seq(Tags) /\ l.allowPre \in BOOLEAN /\ I \in SUBSET DOMAIN g
      /\ t \in ToSet(g) /\ t \notin Text /\ (l.allowPre \/ t \notin Pre)
    BY DEF Lookups, Walked, Candidate
<1>1. PICK j \in DOMAIN g : g[j] = t
    BY <1>0 DEF ToSet
<1>2. \A i \in DOMAIN g : g[i] \in Legal /\ g[i] # None
    <2>1. \A i \in DOMAIN g : g[i] \in ToSet(g)
        BY DEF ToSet
    <2>2. None \notin Legal
        OBVIOUS
    <2> QED BY <2>1, <2>2
<1>3. CASE Kind[l.key.def] = "gitlab"
    <2> DEFINE tags == {i \in DOMAIN g : g[i] \notin Text}
    <2>1. j \in tags /\ tags \in SUBSET DOMAIN g
        BY <1>0, <1>1
    <2>2. LatestOnGitLab(g, l.allowPre) = LatestTag(g, tags, l.allowPre)
        BY <2>1 DEF LatestOnGitLab
    <2> HIDE DEF tags
    <2>3. /\ \E i \in tags : LatestTag(g, tags, l.allowPre) = g[i]
          /\ ~Higher(t, LatestTag(g, tags, l.allowPre))
        <3> HIDE DEF g
        <3> QED BY <1>0, <1>1, <2>1, LatestTagIsHighest
    <2>4. Choice(l) = LatestTag(g, tags, l.allowPre)
        BY <1>2, <1>3, <2>1, <2>2, <2>3, ChoiceOf
    <2> QED BY <1>2, <2>1, <2>3, <2>4
<1>4. CASE Kind[l.key.def] = "go"
    <2> DEFINE m == ModuleCandidates(g)
               v == LatestModuleVersion(m, l.allowPre)
    <2>1. t \in m /\ m \subseteq ToSet(g) /\ m \cap Text = {}
        BY <1>0 DEF ModuleCandidates
    <2>2. t \notin Incompatible /\ \A u \in ToSet(g) : t \notin Retracts[u]
        BY <1>4 DEF Candidate
    <2>3. v \in m /\ Rank[t] <= Rank[v]
        <3> HIDE DEF g
        <3> QED BY <1>0, <2>1, <2>2, LatestModuleIsHighest
    <2> HIDE DEF m
    <2>4. v \in Legal /\ v \notin Text /\ v \in Tags
        BY <2>1, <2>3
    <2>5. Choice(l) = v
        BY <1>4, <2>4, ChoiceOf DEF m
    <2>6. t \in Tags
        BY DEF Lookups
    <2>7. Rank[t] \in Nat /\ Rank[v] \in Nat
        BY <2>4, <2>6
    <2>8. ~(Rank[t] > Rank[v])
        BY <2>3, <2>7
    <2> HIDE DEF v
    <2> QED BY <2>4, <2>5, <2>8 DEF Higher
<1>5. CASE Kind[l.key.def] \notin {"gitlab", "go"}
    <2>1. j \in I
        BY <1>1, <1>5 DEF Candidate
    <2>2. /\ \E i \in I : LatestTag(g, I, l.allowPre) = g[i]
          /\ ~Higher(t, LatestTag(g, I, l.allowPre))
        <3> HIDE DEF g, I
        <3> QED BY <1>0, <1>1, <2>1, LatestTagIsHighest
    <2>3. Choice(l) = LatestTag(g, I, l.allowPre)
        BY <1>2, <1>5, <2>2, ChoiceOf
    <2> QED BY <1>2, <2>2, <2>3
<1> QED BY <1>3, <1>4, <1>5

-----------------------------------------------------------------------------
(* The pick and the offer: the theorems.                                   *)

\* The invariants of the walk and of the cache.
LEMMA AlwaysRead == LookupSafe => [](LookupInv /\ LooksAfter /\ CacheFits)
<1>1. LookupInit => LookupInv /\ LooksAfter /\ CacheFits
    BY InitTypes, InitReads
<1>2. /\ LookupInv /\ LooksAfter /\ CacheFits /\ [LookupNext]_resolverVars
      => (LookupInv /\ LooksAfter /\ CacheFits)'
    BY NextKeeps, NextReads, NextFits
<1> QED BY <1>1, <1>2, PTL DEF LookupSafe

\* Whatever is published between a walk's pages, a lookup answers with a version none
\* it could answer with and that was listed throughout is higher than; for lists of
\* any length, and pages of any size.
THEOREM AlwaysPicksLatest == LookupSafe => []PickIsLatest
<1>1. LookupInv /\ LooksAfter => PickIsLatest
    <2> SUFFICES ASSUME LookupInv, LooksAfter, NEW r \in Requesters, look[r].pc = "picking",
                        look[r].page > 0, ~look[r].lost, ToSet(look[r].got) \ Legal = {},
                        NEW t \in look[r].there, Candidate(look[r], t)
                 PROVE  Choice(look[r]) # None /\ ~Higher(t, Choice(look[r]))
        BY DEF PickIsLatest
    <2>1. look[r] \in Lookups /\ Walked(look[r])
        BY InProgress DEF LooksAfter
    <2> QED BY <2>1, PicksHighest
<1> QED BY <1>1, AlwaysRead, PTL

\* The update the inventory offers fits the row and the definition as they are now: their
\* filter, and where the engine picks it from a list their prefix and their prerelease
\* policy.
THEOREM OfferAlwaysFits == LookupSafe => []OfferFits
<1>1. LookupInv /\ CacheFits => OfferFits
    <2> SUFFICES ASSUME LookupInv, CacheFits PROVE OfferFits
        OBVIOUS
    <2>1. KeyOf \in Keys
        BY DEF LookupInv, LookupTypeOK, KeyOf, Keys
    <2>2. KeyOf.def = def /\ (KeyOf.pre <=> row \in Pre)
        BY DEF KeyOf
    <2>3. Offered # None => Fits(KeyOf, Offered)
        BY <2>1 DEF CacheFits, Offered
    <2> QED BY <2>2, <2>3 DEF OfferFits, Fits
<1> QED BY <1>1, AlwaysRead, PTL
=============================================================================
