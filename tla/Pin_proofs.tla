----------------------------- MODULE Pin_proofs -----------------------------
(***************************************************************************)
(* Proofs about pin.Manager.  About LinkDir, for every set of versions and *)
(* swept names, any number of operations, failures, writes of other owners,*)
(* crashes and power losses.  About Pin, for any number of versions, any   *)
(* pin, any number of attempts and any number of calls, failures and       *)
(* outside changes.                                                        *)
(***************************************************************************)
EXTENDS Pin, LinkDir, TLAPS

(***************************************************************************)
(* LinkDir: the sweep and the convenience links.                           *)
(***************************************************************************)

\* Between two operations nothing is remembered of the last one.
Resting == at = "idle" => swept = {}

\* The name looked at is one the sweep or the retraction has before it, and the
\* retraction has no business with the primary's or with a swept root.
Looks ==
    /\ cur # NoSlot => at \in {"sweeping", "retracting"} /\ cur \in todo
    /\ at = "retracting" => todo \subseteq LinkSlots \ {"primary"}

\* Nobody but the manager writes the staged name, not even the installer before.
StagedOurs ==
    /\ ent["staged"] \in {"none"} \cup Targets
    /\ ents["staged"] \subseteq {"none"} \cup Targets
    /\ "staged" \notin touched

\* What is left of the previous installer is yet to be looked at, was missed, or
\* withholds the marker; once the sweep is done, it was missed.
Leftovers ==
    \A s \in Sweeps \cup {Stage} : ent[s] = "legacy" =>
        /\ at = "sweeping" => s \in todo \/ s \in missed \/ sweepFailed
        /\ at \in {"recording", "flushing marker"} => s \in missed

\* Names nobody else wrote, up to the links.
Entered ==
    at \in {"custody", "sweeping", "recording", "flushing marker", "linking", "staging"} =>
        \A s \in LinkSlots \ touched : ent[s] = Then(s)

\* Publishing was decided on what the primary's name held.
Staging ==
    at \in {"staging", "renaming"} => target \in Targets /\ ("primary" \in touched \/ Published)

Renaming ==
    at = "renaming" =>
        /\ ent["staged"] = target
        /\ \A s \in LinkSlots \ ({"staged"} \cup touched) : ent[s] = Then(s)

\* The primary's link is published, and nothing is staged, or neither was to be.
Linked ==
    at \in {"listing", "retracting", "flushing links"} /\ clean /\ "primary" \notin touched =>
        /\ ent["primary"] = IF Published THEN target ELSE Then("primary")
        /\ Published => ent["staged"] = "none"

\* A name yet to be looked at holds what it held; of the others, those that held a
\* link are empty.
Retracting ==
    clean =>
        \A s \in LinkSlots \ ({"primary"} \cup touched) :
            (s = "staged" => "primary" \notin touched /\ ~Published)
            =>  /\ at = "listing" => ent[s] = Then(s)
                /\ at = "retracting" /\ s \in todo => ent[s] = Then(s)
                /\ \/ at = "retracting" /\ s \notin todo
                   \/ at = "flushing links"
                   => ent[s] = IF Then(s) \in Targets THEN "none" ELSE Then(s)

\* The link looked at is the manager's, unless another owner took the name since.
Looked == at = "retracting" /\ cur # NoSlot /\ cur \notin touched => Own(cur)

LinkInv ==
    LinkTypeOK /\ Resting /\ Looks /\ StagedOurs /\ Leftovers /\ RecordedIsSwept /\ Entered
    /\ Staging /\ Renaming /\ Linked /\ Retracting /\ Looked

LEMMA ChanceStarts == LinkInit => chances \in 0 .. MaxChances
<1>1. MaxChances \in Nat
    BY LinkDirAssumption DEF LinkDirAssumption
<1> QED
    BY <1>1 DEF LinkInit

\* What happens by chance is counted.
LEMMA ChanceFacts ==
    ASSUME LinkTypeOK, NEW e, Chance(e)
    PROVE  chances' \in 0 .. MaxChances
<1>1. MaxChances \in Nat
    BY LinkDirAssumption DEF LinkDirAssumption
<1>2. chances \in 0 .. MaxChances
    BY DEF LinkTypeOK
<1>3. chances' = chances + 1 /\ chances < MaxChances
    BY DEF Chance
<1> QED
    BY <1>1, <1>2, <1>3

USE LinkDirAssumption DEF LinkDirAssumption, disk, linkOp, linkHistory, Slots, LinkSlots, Stage,
                          Foreign, Entries, NoSlot, NoVersion

\* What a change of an entry leaves.
LEMMA PutsFacts ==
    ASSUME LinkTypeOK, NEW s \in Slots, NEW v \in Entries, Puts(s, v)
    PROVE  /\ ent' \in [Slots -> Entries] /\ ents' \in [Slots -> SUBSET Entries]
           /\ ent'[s] = v /\ ents'[s] = ents[s] \cup {v}
           /\ \A t \in Slots : t # s => ent'[t] = ent[t] /\ ents'[t] = ents[t]
BY DEF LinkTypeOK, Puts

LEMMA UnstagesFacts ==
    ASSUME LinkTypeOK, Unstages
    PROVE  /\ ent' \in [Slots -> Entries] /\ ents' \in [Slots -> SUBSET Entries]
           /\ \A t \in Slots \ {"staged"} : ent'[t] = ent[t] /\ ents'[t] = ents[t]
           /\ \/ ent'["staged"] = "none" /\ ents'["staged"] = ents["staged"] \cup {"none"}
              \/ ent'["staged"] = ent["staged"] /\ ents'["staged"] = ents["staged"]
<1>1. CASE Puts("staged", "none")
    BY <1>1, PutsFacts
<1>2. CASE UNCHANGED <<ent, ents>>
    BY <1>2 DEF LinkTypeOK
<1> QED BY <1>1, <1>2 DEF Unstages

LEMMA BeginsKeeps ==
    ASSUME LinkInv, NEW p \in {"custody", "linking"}, Begins(p)
    PROVE  LinkInv'
<1> USE DEF Begins, At
<1>0. LinkTypeOK /\ Resting /\ Looks /\ StagedOurs /\ Leftovers /\ RecordedIsSwept /\ Entered
      /\ Staging /\ Renaming /\ Linked /\ Retracting /\ Looked
    BY DEF LinkInv
<1>1. LinkTypeOK'
    BY <1>0 DEF LinkTypeOK
<1>2. Resting' /\ Looks' /\ StagedOurs'
    BY <1>0 DEF LinkTypeOK, Resting, Looks, StagedOurs
<1>3. Leftovers' /\ RecordedIsSwept'
    BY <1>0 DEF LinkTypeOK, Looks, Leftovers, RecordedIsSwept, Recorded
<1>4. Entered' /\ Staging'
  <2>1. swept = {} /\ touched' = touched /\ ent' = ent /\ found' = ent /\ swept' = swept
    BY <1>0 DEF Resting
  <2> QED
    BY <1>0, <2>1 DEF LinkTypeOK, Entered, Staging, Then
<1>5. Renaming' /\ Linked'
    BY <1>0 DEF LinkTypeOK, Looks, StagedOurs, Entered, Staging, Renaming, Linked, Then,
                Published, Own
<1>6. Retracting' /\ Looked'
    BY <1>0 DEF LinkTypeOK, Looks, StagedOurs, Entered, Staging, Renaming, Linked, Retracting,
                Looked, Then, Published, Own
<1> QED
    BY <1>1, <1>2, <1>3, <1>4, <1>5, <1>6 DEF LinkInv

LEMMA PurgeSkipsKeeps ==
    ASSUME LinkInv, PurgeSkips
    PROVE  LinkInv'
<1> USE DEF PurgeSkips, At
<1>0. LinkTypeOK /\ Resting /\ Looks /\ StagedOurs /\ Leftovers /\ RecordedIsSwept /\ Entered
      /\ Staging /\ Renaming /\ Linked /\ Retracting /\ Looked
    BY DEF LinkInv
<1>1. LinkTypeOK'
    BY <1>0 DEF LinkTypeOK
<1>2. Resting' /\ Looks' /\ StagedOurs'
    BY <1>0 DEF LinkTypeOK, Resting, Looks, StagedOurs
<1>3. Leftovers' /\ RecordedIsSwept'
    BY <1>0 DEF LinkTypeOK, Looks, Leftovers, RecordedIsSwept, Recorded
<1>4. Entered' /\ Staging'
    BY <1>0 DEF LinkTypeOK, Looks, StagedOurs, Entered, Staging, Then, Published, Own
<1>5. Renaming' /\ Linked'
    BY <1>0 DEF LinkTypeOK, Looks, StagedOurs, Entered, Staging, Renaming, Linked, Then,
                Published, Own
<1>6. Retracting' /\ Looked'
    BY <1>0 DEF LinkTypeOK, Looks, StagedOurs, Entered, Staging, Renaming, Linked, Retracting,
                Looked, Then, Published, Own
<1> QED
    BY <1>1, <1>2, <1>3, <1>4, <1>5, <1>6 DEF LinkInv

LEMMA PurgeBeginsKeeps ==
    ASSUME LinkInv, PurgeBegins
    PROVE  LinkInv'
<1> USE DEF PurgeBegins, At, Free, Recorded
<1>0. LinkTypeOK /\ Resting /\ Looks /\ StagedOurs /\ Leftovers /\ RecordedIsSwept /\ Entered
      /\ Staging /\ Renaming /\ Linked /\ Retracting /\ Looked
    BY DEF LinkInv
<1>1. LinkTypeOK'
  <2>1. chances' \in 0 .. MaxChances
    BY <1>0, ChanceFacts DEF LinkTypeOK
  <2>2. ent' \in [Slots -> Entries] /\ ents' \in [Slots -> SUBSET Entries]
    BY <1>0, ChanceFacts DEF LinkTypeOK
  <2>3. at' \in {"idle", "custody", "sweeping", "recording", "flushing marker", "linking",
               "staging", "renaming", "listing", "retracting", "flushing links"}
        /\ marker' \in {"none", "written", "durable"}
        /\ target' \in Targets \cup {NoVersion}
    BY <1>0 DEF LinkTypeOK
  <2>4. purged' \in BOOLEAN /\ sweepFailed' \in BOOLEAN /\ changed' \in BOOLEAN
        /\ clean' \in BOOLEAN
    BY <1>0 DEF LinkTypeOK
  <2>5. todo' \subseteq Slots /\ cur' \in Slots \cup {NoSlot}
    BY <1>0 DEF LinkTypeOK
  <2>6. found' \in [Slots -> Entries] /\ swept' \subseteq Slots /\ touched' \subseteq Slots
        /\ missed' \subseteq Slots
    BY <1>0 DEF LinkTypeOK
  <2> QED
    BY <2>1, <2>2, <2>3, <2>4, <2>5, <2>6 DEF LinkTypeOK
<1>2. Resting' /\ Looks' /\ StagedOurs'
    BY <1>0, ChanceFacts DEF LinkTypeOK, Resting, Looks, StagedOurs
<1>3. Leftovers' /\ RecordedIsSwept'
    BY <1>0, ChanceFacts DEF LinkTypeOK, Looks, Leftovers, RecordedIsSwept, Recorded
<1>4. Entered' /\ Staging'
    BY <1>0, ChanceFacts DEF LinkTypeOK, Looks, StagedOurs, Entered, Staging, Then, Published, Own
<1>5. Renaming' /\ Linked'
    BY <1>0, ChanceFacts DEF LinkTypeOK, Looks, StagedOurs, Entered, Staging, Renaming, Linked,
                             Then, Published, Own
<1>6. Retracting' /\ Looked'
    BY <1>0, ChanceFacts DEF LinkTypeOK, Looks, StagedOurs, Entered, Staging, Renaming, Linked,
                             Retracting, Looked, Then, Published, Own
<1> QED
    BY <1>1, <1>2, <1>3, <1>4, <1>5, <1>6 DEF LinkInv

LEMMA SweepLooksKeeps ==
    ASSUME LinkInv, NEW s \in Slots, SweepLooks(s)
    PROVE  LinkInv'
<1> USE DEF SweepLooks, Looking, Dropped, ShapeMatches
<1>0. LinkTypeOK /\ Resting /\ Looks /\ StagedOurs /\ Leftovers /\ RecordedIsSwept /\ Entered
      /\ Staging /\ Renaming /\ Linked /\ Retracting /\ Looked
    BY DEF LinkInv
<1>1. LinkTypeOK'
  <2>1. chances' \in 0 .. MaxChances
    BY <1>0, ChanceFacts DEF LinkTypeOK
  <2>2. ent' \in [Slots -> Entries] /\ ents' \in [Slots -> SUBSET Entries]
    BY <1>0, ChanceFacts DEF LinkTypeOK
  <2>3. at' \in {"idle", "custody", "sweeping", "recording", "flushing marker", "linking",
               "staging", "renaming", "listing", "retracting", "flushing links"}
        /\ marker' \in {"none", "written", "durable"}
        /\ target' \in Targets \cup {NoVersion}
    BY <1>0 DEF LinkTypeOK
  <2>4. purged' \in BOOLEAN /\ sweepFailed' \in BOOLEAN /\ changed' \in BOOLEAN
        /\ clean' \in BOOLEAN
    BY <1>0 DEF LinkTypeOK
  <2>5. todo' \subseteq Slots /\ cur' \in Slots \cup {NoSlot}
    BY <1>0 DEF LinkTypeOK
  <2>6. found' \in [Slots -> Entries] /\ swept' \subseteq Slots /\ touched' \subseteq Slots
        /\ missed' \subseteq Slots
    BY <1>0 DEF LinkTypeOK
  <2> QED
    BY <2>1, <2>2, <2>3, <2>4, <2>5, <2>6 DEF LinkTypeOK
<1>2. Resting' /\ Looks' /\ StagedOurs'
    BY <1>0, ChanceFacts DEF LinkTypeOK, Resting, Looks, StagedOurs
<1>3. Leftovers' /\ RecordedIsSwept'
    BY <1>0, ChanceFacts DEF LinkTypeOK, Looks, Leftovers, RecordedIsSwept, Recorded
<1>4. Entered' /\ Staging'
    BY <1>0, ChanceFacts DEF LinkTypeOK, Looks, StagedOurs, Entered, Staging, Then, Published, Own
<1>5. Renaming' /\ Linked'
    BY <1>0, ChanceFacts DEF LinkTypeOK, Looks, StagedOurs, Entered, Staging, Renaming, Linked,
                             Then, Published, Own
<1>6. Retracting' /\ Looked'
    BY <1>0, ChanceFacts DEF LinkTypeOK, Looks, StagedOurs, Entered, Staging, Renaming, Linked,
                             Retracting, Looked, Then, Published, Own
<1> QED
    BY <1>1, <1>2, <1>3, <1>4, <1>5, <1>6 DEF LinkInv

LEMMA SweepRemovesKeeps ==
    ASSUME LinkInv, SweepRemoves
    PROVE  LinkInv'
<1> USE DEF SweepRemoves, Looking, Dropped
<1>0. LinkTypeOK /\ Resting /\ Looks /\ StagedOurs /\ Leftovers /\ RecordedIsSwept /\ Entered
      /\ Staging /\ Renaming /\ Linked /\ Retracting /\ Looked
    BY DEF LinkInv
<1>p. /\ cur \in Slots /\ ent'[cur] = "none"
      /\ \A s \in Slots \ {cur} : ent'[s] = ent[s] /\ ents'[s] = ents[s]
      /\ ents'[cur] = ents[cur] \cup {"none"}
      /\ ent' \in [Slots -> Entries] /\ ents' \in [Slots -> SUBSET Entries]
    BY <1>0, PutsFacts DEF LinkTypeOK
<1>1. LinkTypeOK'
  <2>1. chances' \in 0 .. MaxChances
    BY <1>0, PutsFacts DEF LinkTypeOK
  <2>2. ent' \in [Slots -> Entries] /\ ents' \in [Slots -> SUBSET Entries]
    BY <1>p
  <2>3. at' \in {"idle", "custody", "sweeping", "recording", "flushing marker", "linking",
               "staging", "renaming", "listing", "retracting", "flushing links"}
        /\ marker' \in {"none", "written", "durable"}
        /\ target' \in Targets \cup {NoVersion}
    BY <1>0 DEF LinkTypeOK
  <2>4. purged' \in BOOLEAN /\ sweepFailed' \in BOOLEAN /\ changed' \in BOOLEAN
        /\ clean' \in BOOLEAN
    BY <1>0 DEF LinkTypeOK
  <2>5. todo' \subseteq Slots /\ cur' \in Slots \cup {NoSlot}
    BY <1>0 DEF LinkTypeOK
  <2>6. found' \in [Slots -> Entries] /\ swept' \subseteq Slots /\ touched' \subseteq Slots
        /\ missed' \subseteq Slots
    BY <1>0 DEF LinkTypeOK
  <2> QED
    BY <2>1, <2>2, <2>3, <2>4, <2>5, <2>6 DEF LinkTypeOK
<1>2. Resting' /\ Looks' /\ StagedOurs'
    BY <1>0, <1>p DEF LinkTypeOK, Resting, Looks, StagedOurs
<1>3. Leftovers' /\ RecordedIsSwept'
    BY <1>0, <1>p DEF LinkTypeOK, Looks, Leftovers, RecordedIsSwept, Recorded
<1>4. Entered' /\ Staging'
    BY <1>0, <1>p DEF LinkTypeOK, Looks, StagedOurs, Entered, Staging, Then, Published, Own
<1>5. Renaming' /\ Linked'
    BY <1>0, <1>p DEF LinkTypeOK, Looks, StagedOurs, Entered, Staging, Renaming, Linked, Then,
                      Published, Own
<1>6. Retracting' /\ Looked'
    BY <1>0, <1>p DEF LinkTypeOK, Looks, StagedOurs, Entered, Staging, Renaming, Linked,
                      Retracting, Looked, Then, Published, Own
<1> QED
    BY <1>1, <1>2, <1>3, <1>4, <1>5, <1>6 DEF LinkInv

LEMMA SweepFailsKeeps ==
    ASSUME LinkInv, SweepFails
    PROVE  LinkInv'
<1> USE DEF SweepFails, Looking, Dropped
<1>0. LinkTypeOK /\ Resting /\ Looks /\ StagedOurs /\ Leftovers /\ RecordedIsSwept /\ Entered
      /\ Staging /\ Renaming /\ Linked /\ Retracting /\ Looked
    BY DEF LinkInv
<1>1. LinkTypeOK'
  <2>1. chances' \in 0 .. MaxChances
    BY <1>0, ChanceFacts DEF LinkTypeOK
  <2>2. ent' \in [Slots -> Entries] /\ ents' \in [Slots -> SUBSET Entries]
    BY <1>0, ChanceFacts DEF LinkTypeOK
  <2>3. at' \in {"idle", "custody", "sweeping", "recording", "flushing marker", "linking",
               "staging", "renaming", "listing", "retracting", "flushing links"}
        /\ marker' \in {"none", "written", "durable"}
        /\ target' \in Targets \cup {NoVersion}
    BY <1>0 DEF LinkTypeOK
  <2>4. purged' \in BOOLEAN /\ sweepFailed' \in BOOLEAN /\ changed' \in BOOLEAN
        /\ clean' \in BOOLEAN
    BY <1>0 DEF LinkTypeOK
  <2>5. todo' \subseteq Slots /\ cur' \in Slots \cup {NoSlot}
    BY <1>0 DEF LinkTypeOK
  <2>6. found' \in [Slots -> Entries] /\ swept' \subseteq Slots /\ touched' \subseteq Slots
        /\ missed' \subseteq Slots
    BY <1>0 DEF LinkTypeOK
  <2> QED
    BY <2>1, <2>2, <2>3, <2>4, <2>5, <2>6 DEF LinkTypeOK
<1>2. Resting' /\ Looks' /\ StagedOurs'
    BY <1>0, ChanceFacts DEF LinkTypeOK, Resting, Looks, StagedOurs
<1>3. Leftovers' /\ RecordedIsSwept'
    BY <1>0, ChanceFacts DEF LinkTypeOK, Looks, Leftovers, RecordedIsSwept, Recorded
<1>4. Entered' /\ Staging'
    BY <1>0, ChanceFacts DEF LinkTypeOK, Looks, StagedOurs, Entered, Staging, Then, Published, Own
<1>5. Renaming' /\ Linked'
    BY <1>0, ChanceFacts DEF LinkTypeOK, Looks, StagedOurs, Entered, Staging, Renaming, Linked,
                             Then, Published, Own
<1>6. Retracting' /\ Looked'
    BY <1>0, ChanceFacts DEF LinkTypeOK, Looks, StagedOurs, Entered, Staging, Renaming, Linked,
                             Retracting, Looked, Then, Published, Own
<1> QED
    BY <1>1, <1>2, <1>3, <1>4, <1>5, <1>6 DEF LinkInv

LEMMA SweepEndsKeeps ==
    ASSUME LinkInv, SweepEnds
    PROVE  LinkInv'
<1> USE DEF SweepEnds, At
<1>0. LinkTypeOK /\ Resting /\ Looks /\ StagedOurs /\ Leftovers /\ RecordedIsSwept /\ Entered
      /\ Staging /\ Renaming /\ Linked /\ Retracting /\ Looked
    BY DEF LinkInv
<1>1. LinkTypeOK'
    BY <1>0 DEF LinkTypeOK
<1>2. Resting' /\ Looks' /\ StagedOurs'
    BY <1>0 DEF LinkTypeOK, Resting, Looks, StagedOurs
<1>3. Leftovers' /\ RecordedIsSwept'
    BY <1>0 DEF LinkTypeOK, Looks, Leftovers, RecordedIsSwept, Recorded
<1>4. Entered' /\ Staging'
    BY <1>0 DEF LinkTypeOK, Looks, StagedOurs, Entered, Staging, Then, Published, Own
<1>5. Renaming' /\ Linked'
    BY <1>0 DEF LinkTypeOK, Looks, StagedOurs, Entered, Staging, Renaming, Linked, Then,
                Published, Own
<1>6. Retracting' /\ Looked'
    BY <1>0 DEF LinkTypeOK, Looks, StagedOurs, Entered, Staging, Renaming, Linked, Retracting,
                Looked, Then, Published, Own
<1> QED
    BY <1>1, <1>2, <1>3, <1>4, <1>5, <1>6 DEF LinkInv

LEMMA RecordKeeps ==
    ASSUME LinkInv, Record
    PROVE  LinkInv'
<1> USE DEF Record, At
<1>0. LinkTypeOK /\ Resting /\ Looks /\ StagedOurs /\ Leftovers /\ RecordedIsSwept /\ Entered
      /\ Staging /\ Renaming /\ Linked /\ Retracting /\ Looked
    BY DEF LinkInv
<1>1. LinkTypeOK'
  <2>1. chances' \in 0 .. MaxChances
    BY <1>0, ChanceFacts DEF LinkTypeOK
  <2>2. ent' \in [Slots -> Entries] /\ ents' \in [Slots -> SUBSET Entries]
    BY <1>0, ChanceFacts DEF LinkTypeOK
  <2>3. at' \in {"idle", "custody", "sweeping", "recording", "flushing marker", "linking",
               "staging", "renaming", "listing", "retracting", "flushing links"}
        /\ marker' \in {"none", "written", "durable"}
        /\ target' \in Targets \cup {NoVersion}
    BY <1>0 DEF LinkTypeOK
  <2>4. purged' \in BOOLEAN /\ sweepFailed' \in BOOLEAN /\ changed' \in BOOLEAN
        /\ clean' \in BOOLEAN
    BY <1>0 DEF LinkTypeOK
  <2>5. todo' \subseteq Slots /\ cur' \in Slots \cup {NoSlot}
    BY <1>0 DEF LinkTypeOK
  <2>6. found' \in [Slots -> Entries] /\ swept' \subseteq Slots /\ touched' \subseteq Slots
        /\ missed' \subseteq Slots
    BY <1>0 DEF LinkTypeOK
  <2> QED
    BY <2>1, <2>2, <2>3, <2>4, <2>5, <2>6 DEF LinkTypeOK
<1>2. Resting' /\ Looks' /\ StagedOurs'
    BY <1>0, ChanceFacts DEF LinkTypeOK, Resting, Looks, StagedOurs
<1>3. Leftovers' /\ RecordedIsSwept'
    BY <1>0, ChanceFacts DEF LinkTypeOK, Looks, Leftovers, RecordedIsSwept, Recorded
<1>4. Entered' /\ Staging'
    BY <1>0, ChanceFacts DEF LinkTypeOK, Looks, StagedOurs, Entered, Staging, Then, Published, Own
<1>5. Renaming' /\ Linked'
    BY <1>0, ChanceFacts DEF LinkTypeOK, Looks, StagedOurs, Entered, Staging, Renaming, Linked,
                             Then, Published, Own
<1>6. Retracting' /\ Looked'
    BY <1>0, ChanceFacts DEF LinkTypeOK, Looks, StagedOurs, Entered, Staging, Renaming, Linked,
                             Retracting, Looked, Then, Published, Own
<1> QED
    BY <1>1, <1>2, <1>3, <1>4, <1>5, <1>6 DEF LinkInv

LEMMA RecordFlushesKeeps ==
    ASSUME LinkInv, RecordFlushes
    PROVE  LinkInv'
<1> USE DEF RecordFlushes, At
<1>0. LinkTypeOK /\ Resting /\ Looks /\ StagedOurs /\ Leftovers /\ RecordedIsSwept /\ Entered
      /\ Staging /\ Renaming /\ Linked /\ Retracting /\ Looked
    BY DEF LinkInv
<1>p. /\ ent' \in [Slots -> Entries] /\ ents' \in [Slots -> SUBSET Entries]
      /\ ents'[Stage] \in {ents[Stage], {ent[Stage]}}
      /\ \A s \in LinkSlots : ents'[s] = ents[s]
      /\ marker' \in {"durable", marker}
  <2>1. CASE ents' = [ents EXCEPT ![Stage] = {ent[Stage]}] /\ marker' = "durable"
    <3>1. ent[Stage] \in Entries /\ ents \in [Slots -> SUBSET Entries] /\ ent \in [Slots -> Entries]
        BY <1>0 DEF LinkTypeOK
    <3>2. ents' \in [Slots -> SUBSET Entries] /\ ents'[Stage] = {ent[Stage]}
        BY <2>1, <3>1
    <3>3. \A s \in LinkSlots : ents'[s] = ents[s]
        BY <2>1, <3>1
    <3> QED
        BY <2>1, <3>1, <3>2, <3>3
  <2>2. CASE ents' = ents /\ marker' = marker
    BY <1>0, <2>2 DEF LinkTypeOK
  <2> QED
    BY <2>1, <2>2
<1>1. LinkTypeOK'
  <2>1. chances' \in 0 .. MaxChances
    BY <1>0, ChanceFacts DEF LinkTypeOK
  <2>2. ent' \in [Slots -> Entries] /\ ents' \in [Slots -> SUBSET Entries]
    BY <1>p
  <2>3. at' \in {"idle", "custody", "sweeping", "recording", "flushing marker", "linking",
               "staging", "renaming", "listing", "retracting", "flushing links"}
        /\ marker' \in {"none", "written", "durable"}
        /\ target' \in Targets \cup {NoVersion}
    BY <1>0 DEF LinkTypeOK
  <2>4. purged' \in BOOLEAN /\ sweepFailed' \in BOOLEAN /\ changed' \in BOOLEAN
        /\ clean' \in BOOLEAN
    BY <1>0 DEF LinkTypeOK
  <2>5. todo' \subseteq Slots /\ cur' \in Slots \cup {NoSlot}
    BY <1>0 DEF LinkTypeOK
  <2>6. found' \in [Slots -> Entries] /\ swept' \subseteq Slots /\ touched' \subseteq Slots
        /\ missed' \subseteq Slots
    BY <1>0 DEF LinkTypeOK
  <2> QED
    BY <2>1, <2>2, <2>3, <2>4, <2>5, <2>6 DEF LinkTypeOK
<1>2. Resting' /\ Looks' /\ StagedOurs'
    BY <1>0, <1>p DEF LinkTypeOK, Resting, Looks, StagedOurs
<1>3. Leftovers' /\ RecordedIsSwept'
    BY <1>0, <1>p DEF LinkTypeOK, Looks, Leftovers, RecordedIsSwept, Recorded
<1>4. Entered' /\ Staging'
    BY <1>0, <1>p DEF LinkTypeOK, Looks, StagedOurs, Entered, Staging, Then, Published, Own
<1>5. Renaming' /\ Linked'
    BY <1>0, <1>p DEF LinkTypeOK, Looks, StagedOurs, Entered, Staging, Renaming, Linked, Then,
                      Published, Own
<1>6. Retracting' /\ Looked'
    BY <1>0, <1>p DEF LinkTypeOK, Looks, StagedOurs, Entered, Staging, Renaming, Linked,
                      Retracting, Looked, Then, Published, Own
<1> QED
    BY <1>1, <1>2, <1>3, <1>4, <1>5, <1>6 DEF LinkInv

LEMMA LinksSkippedKeeps ==
    ASSUME LinkInv, LinksSkipped
    PROVE  LinkInv'
<1> USE DEF LinksSkipped, At, Over, Forgets
<1>0. LinkTypeOK /\ Resting /\ Looks /\ StagedOurs /\ Leftovers /\ RecordedIsSwept /\ Entered
      /\ Staging /\ Renaming /\ Linked /\ Retracting /\ Looked
    BY DEF LinkInv
<1>1. LinkTypeOK'
    BY <1>0 DEF LinkTypeOK
<1>2. Resting' /\ Looks' /\ StagedOurs'
    BY <1>0 DEF LinkTypeOK, Resting, Looks, StagedOurs
<1>3. Leftovers' /\ RecordedIsSwept'
    BY <1>0 DEF LinkTypeOK, Looks, Leftovers, RecordedIsSwept, Recorded
<1>4. Entered' /\ Staging'
    BY <1>0 DEF LinkTypeOK, Looks, StagedOurs, Entered, Staging, Then, Published, Own
<1>5. Renaming' /\ Linked'
    BY <1>0 DEF LinkTypeOK, Looks, StagedOurs, Entered, Staging, Renaming, Linked, Then,
                Published, Own
<1>6. Retracting' /\ Looked'
    BY <1>0 DEF LinkTypeOK, Looks, StagedOurs, Entered, Staging, Renaming, Linked, Retracting,
                Looked, Then, Published, Own
<1> QED
    BY <1>1, <1>2, <1>3, <1>4, <1>5, <1>6 DEF LinkInv

LEMMA LinksBeginKeeps ==
    ASSUME LinkInv, NEW v \in Targets, LinksBegin(v)
    PROVE  LinkInv'
<1> USE DEF LinksBegin, At, Free, Own
<1>0. LinkTypeOK /\ Resting /\ Looks /\ StagedOurs /\ Leftovers /\ RecordedIsSwept /\ Entered
      /\ Staging /\ Renaming /\ Linked /\ Retracting /\ Looked
    BY DEF LinkInv
<1>1. LinkTypeOK'
  <2>1. chances' \in 0 .. MaxChances
    BY <1>0, ChanceFacts DEF LinkTypeOK
  <2>2. ent' \in [Slots -> Entries] /\ ents' \in [Slots -> SUBSET Entries]
    BY <1>0, ChanceFacts DEF LinkTypeOK
  <2>3. at' \in {"idle", "custody", "sweeping", "recording", "flushing marker", "linking",
               "staging", "renaming", "listing", "retracting", "flushing links"}
        /\ marker' \in {"none", "written", "durable"}
        /\ target' \in Targets \cup {NoVersion}
    BY <1>0 DEF LinkTypeOK
  <2>4. purged' \in BOOLEAN /\ sweepFailed' \in BOOLEAN /\ changed' \in BOOLEAN
        /\ clean' \in BOOLEAN
    BY <1>0 DEF LinkTypeOK
  <2>5. todo' \subseteq Slots /\ cur' \in Slots \cup {NoSlot}
    BY <1>0 DEF LinkTypeOK
  <2>6. found' \in [Slots -> Entries] /\ swept' \subseteq Slots /\ touched' \subseteq Slots
        /\ missed' \subseteq Slots
    BY <1>0 DEF LinkTypeOK
  <2> QED
    BY <2>1, <2>2, <2>3, <2>4, <2>5, <2>6 DEF LinkTypeOK
<1>2. Resting' /\ Looks' /\ StagedOurs'
    BY <1>0, ChanceFacts DEF LinkTypeOK, Resting, Looks, StagedOurs
<1>3. Leftovers' /\ RecordedIsSwept'
    BY <1>0, ChanceFacts DEF LinkTypeOK, Looks, Leftovers, RecordedIsSwept, Recorded
<1>4. Entered' /\ Staging'
    BY <1>0, ChanceFacts DEF LinkTypeOK, Looks, StagedOurs, Entered, Staging, Then, Published, Own
<1>5. Renaming' /\ Linked'
    BY <1>0, ChanceFacts DEF LinkTypeOK, Looks, StagedOurs, Entered, Staging, Renaming, Linked,
                             Then, Published, Own
<1>6. Retracting' /\ Looked'
    BY <1>0, ChanceFacts DEF LinkTypeOK, Looks, StagedOurs, Entered, Staging, Renaming, Linked,
                             Retracting, Looked, Then, Published, Own
<1> QED
    BY <1>1, <1>2, <1>3, <1>4, <1>5, <1>6 DEF LinkInv

LEMMA StageLinkKeeps ==
    ASSUME LinkInv, StageLink
    PROVE  LinkInv'
<1> USE DEF StageLink, At, Unstages
<1>0. LinkTypeOK /\ Resting /\ Looks /\ StagedOurs /\ Leftovers /\ RecordedIsSwept /\ Entered
      /\ Staging /\ Renaming /\ Linked /\ Retracting /\ Looked
    BY DEF LinkInv
<1>p. /\ ent' \in [Slots -> Entries] /\ ents' \in [Slots -> SUBSET Entries]
      /\ \A s \in Slots \ {"staged"} : ent'[s] = ent[s] /\ ents'[s] = ents[s]
      /\ ents'["staged"] = ents["staged"] \cup {ent'["staged"]} \/ ents'["staged"] = ents["staged"]
      /\ \/ at' = "renaming" /\ ent'["staged"] = target
         \/ at' = "listing" /\ ~clean' /\ ent'["staged"] \in {"none", ent["staged"]}
    <2>1. CASE Puts("staged", target) /\ at' = "renaming"
        <3>1. target \in Entries
            BY <1>0 DEF LinkTypeOK, Staging
        <3> QED BY <1>0, <2>1, <3>1, PutsFacts
    <2>2. CASE Unstages /\ at' = "listing" /\ ~clean'
        <3> HIDE DEF Unstages
        <3> QED BY <1>0, <2>2, UnstagesFacts
    <2> QED BY <2>1, <2>2
<1>1. LinkTypeOK'
  <2>1. chances' \in 0 .. MaxChances
    BY <1>0, ChanceFacts, PutsFacts DEF LinkTypeOK
  <2>2. ent' \in [Slots -> Entries] /\ ents' \in [Slots -> SUBSET Entries]
    BY <1>p
  <2>3. at' \in {"idle", "custody", "sweeping", "recording", "flushing marker", "linking",
               "staging", "renaming", "listing", "retracting", "flushing links"}
        /\ marker' \in {"none", "written", "durable"}
        /\ target' \in Targets \cup {NoVersion}
    BY <1>0 DEF LinkTypeOK
  <2>4. purged' \in BOOLEAN /\ sweepFailed' \in BOOLEAN /\ changed' \in BOOLEAN
        /\ clean' \in BOOLEAN
    BY <1>0 DEF LinkTypeOK
  <2>5. todo' \subseteq Slots /\ cur' \in Slots \cup {NoSlot}
    BY <1>0 DEF LinkTypeOK
  <2>6. found' \in [Slots -> Entries] /\ swept' \subseteq Slots /\ touched' \subseteq Slots
        /\ missed' \subseteq Slots
    BY <1>0 DEF LinkTypeOK
  <2> QED
    BY <2>1, <2>2, <2>3, <2>4, <2>5, <2>6 DEF LinkTypeOK
<1>2. Resting' /\ Looks' /\ StagedOurs'
    BY <1>0, <1>p DEF LinkTypeOK, Resting, Looks, StagedOurs
<1>3. Leftovers' /\ RecordedIsSwept'
    BY <1>0, <1>p DEF LinkTypeOK, Looks, Leftovers, RecordedIsSwept, Recorded
<1>4. Entered' /\ Staging'
    BY <1>0, <1>p DEF LinkTypeOK, Looks, StagedOurs, Entered, Staging, Then, Published, Own
<1>5. Renaming' /\ Linked'
    BY <1>0, <1>p DEF LinkTypeOK, Looks, StagedOurs, Entered, Staging, Renaming, Linked, Then,
                      Published, Own
<1>6. Retracting' /\ Looked'
    BY <1>0, <1>p DEF LinkTypeOK, Looks, StagedOurs, Entered, Staging, Renaming, Linked,
                      Retracting, Looked, Then, Published, Own
<1> QED
    BY <1>1, <1>2, <1>3, <1>4, <1>5, <1>6 DEF LinkInv

LEMMA PublishLinkKeeps ==
    ASSUME LinkInv, PublishLink
    PROVE  LinkInv'
<1> USE DEF PublishLink, At
<1>0. LinkTypeOK /\ Resting /\ Looks /\ StagedOurs /\ Leftovers /\ RecordedIsSwept /\ Entered
      /\ Staging /\ Renaming /\ Linked /\ Retracting /\ Looked
    BY DEF LinkInv
<1>p. /\ ent'["primary"] = ent["staged"] /\ ent'["staged"] = "none"
      /\ ents'["primary"] = ents["primary"] \cup {ent["staged"]}
      /\ ents'["staged"] = ents["staged"] \cup {"none"}
      /\ \A s \in Slots \ {"primary", "staged"} : ent'[s] = ent[s] /\ ents'[s] = ents[s]
      /\ ent' \in [Slots -> Entries] /\ ents' \in [Slots -> SUBSET Entries]
  <2>1. ent \in [Slots -> Entries] /\ ents \in [Slots -> SUBSET Entries]
    BY <1>0 DEF LinkTypeOK
  <2>2. /\ ent'["primary"] = ent["staged"] /\ ent'["staged"] = "none"
        /\ \A s \in Slots \ {"primary", "staged"} : ent'[s] = ent[s]
        /\ ent' \in [Slots -> Entries]
    BY <2>1
  <2>3. /\ ents'["primary"] = ents["primary"] \cup {ent["staged"]}
        /\ ents'["staged"] = ents["staged"] \cup {"none"}
        /\ \A s \in Slots \ {"primary", "staged"} : ents'[s] = ents[s]
    BY <2>1
  <2>4. /\ ents["primary"] \cup {ent["staged"]} \in SUBSET Entries
        /\ ents["staged"] \cup {"none"} \in SUBSET Entries
    BY <2>1
  <2>5. ents' \in [Slots -> SUBSET Entries]
    BY <2>1, <2>4
  <2> QED
    BY <2>2, <2>3, <2>5
<1>1. LinkTypeOK'
    BY <1>0, <1>p DEF LinkTypeOK
<1>2. Resting' /\ Looks' /\ StagedOurs'
    BY <1>0, <1>p DEF LinkTypeOK, Resting, Looks, StagedOurs
<1>3. Leftovers' /\ RecordedIsSwept'
  <2>1. Leftovers'
    BY DEF Leftovers
  <2>2. ent["staged"] # "legacy" /\ "none" # "legacy"
    BY <1>0 DEF StagedOurs
  <2>3. \A s \in Slots : ent'[s] = "legacy" => ent[s] = "legacy"
    BY <1>p, <2>2
  <2> QED
    BY <1>0, <2>1, <2>3 DEF RecordedIsSwept, Recorded
<1>4. Entered' /\ Staging'
    BY <1>0, <1>p DEF LinkTypeOK, Looks, StagedOurs, Entered, Staging, Then, Published, Own
<1>5. Renaming' /\ Linked'
    BY <1>0, <1>p DEF LinkTypeOK, Looks, StagedOurs, Entered, Staging, Renaming, Linked, Then,
                      Published, Own
<1>6. Retracting' /\ Looked'
    <2>1. Retracting'
        <3>1. /\ at' = "listing"
              /\ \A s \in LinkSlots : Then(s)' = Then(s)
              /\ Published' = Published /\ touched' = touched /\ clean' = clean
            BY <1>0 DEF Then, Published, LinkTypeOK
        <3>2. ASSUME NEW s \in LinkSlots \ ({"primary", "staged"} \cup touched)
              PROVE  ent'[s] = Then(s)
            BY <1>0, <1>p DEF Renaming
        <3>3. "primary" \notin touched => Published
            BY <1>0 DEF LinkTypeOK, Looks, StagedOurs, Entered, Staging, Renaming, Then, Published,
                        Own
        <3> QED BY <3>1, <3>2, <3>3 DEF Retracting
    <2>2. Looked'
        BY <1>0, <1>p DEF LinkTypeOK, Looks, StagedOurs, Entered, Staging, Renaming, Linked,
                          Retracting, Looked, Then, Published, Own
    <2> QED BY <2>1, <2>2
<1> QED
    BY <1>1, <1>2, <1>3, <1>4, <1>5, <1>6 DEF LinkInv

LEMMA PublishFailsKeeps ==
    ASSUME LinkInv, PublishFails
    PROVE  LinkInv'
<1> USE DEF PublishFails, At, Unstages
<1>0. LinkTypeOK /\ Resting /\ Looks /\ StagedOurs /\ Leftovers /\ RecordedIsSwept /\ Entered
      /\ Staging /\ Renaming /\ Linked /\ Retracting /\ Looked
    BY DEF LinkInv
<1>p. /\ ent' \in [Slots -> Entries] /\ ents' \in [Slots -> SUBSET Entries]
      /\ \A s \in Slots \ {"staged"} : ent'[s] = ent[s] /\ ents'[s] = ents[s]
      /\ ents'["staged"] \subseteq ents["staged"] \cup {"none"}
      /\ ent'["staged"] \in {"none", ent["staged"]}
    <2>1. Unstages
        OBVIOUS
    <2> HIDE DEF Unstages, PublishFails
    <2> QED BY <1>0, <2>1, UnstagesFacts
<1>1. LinkTypeOK'
  <2>1. chances' \in 0 .. MaxChances
    BY <1>0, ChanceFacts, PutsFacts DEF LinkTypeOK
  <2>2. ent' \in [Slots -> Entries] /\ ents' \in [Slots -> SUBSET Entries]
    BY <1>p
  <2>3. at' \in {"idle", "custody", "sweeping", "recording", "flushing marker", "linking",
               "staging", "renaming", "listing", "retracting", "flushing links"}
        /\ marker' \in {"none", "written", "durable"}
        /\ target' \in Targets \cup {NoVersion}
    BY <1>0 DEF LinkTypeOK
  <2>4. purged' \in BOOLEAN /\ sweepFailed' \in BOOLEAN /\ changed' \in BOOLEAN
        /\ clean' \in BOOLEAN
    BY <1>0 DEF LinkTypeOK
  <2>5. todo' \subseteq Slots /\ cur' \in Slots \cup {NoSlot}
    BY <1>0 DEF LinkTypeOK
  <2>6. found' \in [Slots -> Entries] /\ swept' \subseteq Slots /\ touched' \subseteq Slots
        /\ missed' \subseteq Slots
    BY <1>0 DEF LinkTypeOK
  <2> QED
    BY <2>1, <2>2, <2>3, <2>4, <2>5, <2>6 DEF LinkTypeOK
<1>2. Resting' /\ Looks' /\ StagedOurs'
    BY <1>0, <1>p DEF LinkTypeOK, Resting, Looks, StagedOurs
<1>3. Leftovers' /\ RecordedIsSwept'
    BY <1>0, <1>p DEF LinkTypeOK, Looks, Leftovers, RecordedIsSwept, Recorded
<1>4. Entered' /\ Staging'
    BY <1>0, <1>p DEF LinkTypeOK, Looks, StagedOurs, Entered, Staging, Then, Published, Own
<1>5. Renaming' /\ Linked'
    BY <1>0, <1>p DEF LinkTypeOK, Looks, StagedOurs, Entered, Staging, Renaming, Linked, Then,
                      Published, Own
<1>6. Retracting' /\ Looked'
    BY <1>0, <1>p DEF LinkTypeOK, Looks, StagedOurs, Entered, Staging, Renaming, Linked,
                      Retracting, Looked, Then, Published, Own
<1> QED
    BY <1>1, <1>2, <1>3, <1>4, <1>5, <1>6 DEF LinkInv

LEMMA ListLinksKeeps ==
    ASSUME LinkInv, ListLinks
    PROVE  LinkInv'
<1> USE DEF ListLinks, At, Own
<1>0. LinkTypeOK /\ Resting /\ Looks /\ StagedOurs /\ Leftovers /\ RecordedIsSwept /\ Entered
      /\ Staging /\ Renaming /\ Linked /\ Retracting /\ Looked
    BY DEF LinkInv
<1>p. /\ clean' => clean
      /\ \/ /\ at' = "retracting"
            /\ todo' \subseteq LinkSlots \ {"primary"}
            /\ \A s \in LinkSlots \ {"primary"} : ent[s] \in Targets => s \in todo'
         \/ at' = "flushing links" /\ ~clean'
  <2>1. CASE /\ todo' = {s \in LinkSlots \ {"primary"} : Own(s) \/ ent[s] = "other"}
             /\ at' = "retracting" /\ clean' = clean
    <3>1. \A s \in LinkSlots \ {"primary"} : ent[s] \in Targets => s \in todo'
        BY <2>1
    <3>2. todo' \subseteq LinkSlots \ {"primary"}
        BY <2>1
    <3> QED
        BY <2>1, <3>1, <3>2
  <2>2. CASE at' = "flushing links" /\ ~clean'
    BY <2>2
  <2> QED
    BY <2>1, <2>2
<1>1. LinkTypeOK'
  <2>1. chances' \in 0 .. MaxChances
    BY <1>0, ChanceFacts DEF LinkTypeOK
  <2>2. ent' \in [Slots -> Entries] /\ ents' \in [Slots -> SUBSET Entries]
    BY <1>0 DEF LinkTypeOK
  <2>3. at' \in {"idle", "custody", "sweeping", "recording", "flushing marker", "linking",
               "staging", "renaming", "listing", "retracting", "flushing links"}
        /\ marker' \in {"none", "written", "durable"}
        /\ target' \in Targets \cup {NoVersion}
    BY <1>0 DEF LinkTypeOK
  <2>4. purged' \in BOOLEAN /\ sweepFailed' \in BOOLEAN /\ changed' \in BOOLEAN
        /\ clean' \in BOOLEAN
    BY <1>0 DEF LinkTypeOK
  <2>5. todo' \subseteq Slots /\ cur' \in Slots \cup {NoSlot}
    BY <1>0 DEF LinkTypeOK
  <2>6. found' \in [Slots -> Entries] /\ swept' \subseteq Slots /\ touched' \subseteq Slots
        /\ missed' \subseteq Slots
    BY <1>0 DEF LinkTypeOK
  <2> QED
    BY <2>1, <2>2, <2>3, <2>4, <2>5, <2>6 DEF LinkTypeOK
<1>2. Resting' /\ Looks' /\ StagedOurs'
    BY <1>0, <1>p DEF LinkTypeOK, Resting, Looks, StagedOurs
<1>3. Leftovers' /\ RecordedIsSwept'
    BY <1>0, <1>p DEF LinkTypeOK, Looks, Leftovers, RecordedIsSwept, Recorded
<1>4. Entered' /\ Staging'
    BY <1>0, <1>p DEF LinkTypeOK, Looks, StagedOurs, Entered, Staging, Then, Published, Own
<1>5. Renaming' /\ Linked'
    BY <1>0, <1>p DEF LinkTypeOK, Looks, StagedOurs, Entered, Staging, Renaming, Linked, Then,
                      Published, Own
<1>6. Retracting' /\ Looked'
    BY <1>0, <1>p DEF LinkTypeOK, Looks, StagedOurs, Entered, Staging, Renaming, Linked,
                      Retracting, Looked, Then, Published, Own
<1> QED
    BY <1>1, <1>2, <1>3, <1>4, <1>5, <1>6 DEF LinkInv

LEMMA RetractLooksKeeps ==
    ASSUME LinkInv, NEW s \in Slots, RetractLooks(s)
    PROVE  LinkInv'
<1> USE DEF RetractLooks, Looking, Own, Dropped
<1>0. LinkTypeOK /\ Resting /\ Looks /\ StagedOurs /\ Leftovers /\ RecordedIsSwept /\ Entered
      /\ Staging /\ Renaming /\ Linked /\ Retracting /\ Looked
    BY DEF LinkInv
<1>p. /\ s \in todo /\ (clean' => clean)
      /\ \/ cur' = s /\ todo' = todo /\ ent[s] \in Targets
         \/ cur' = NoSlot /\ todo' = todo \ {s} /\ ent[s] \notin Targets
         \/ cur' = NoSlot /\ todo' = todo \ {s} /\ ~clean'
  <2>1. CASE Own(s) /\ cur' = s /\ UNCHANGED <<todo, chances, clean>>
    BY <2>1
  <2>2. CASE ~Own(s) /\ Dropped(s) /\ UNCHANGED <<chances, clean>>
    BY <2>2
  <2>3. CASE Own(s) /\ Chance("unread") /\ Dropped(s) /\ clean' = FALSE
    BY <2>3
  <2> QED
    BY <2>1, <2>2, <2>3
<1>1. LinkTypeOK'
  <2>1. chances' \in 0 .. MaxChances
    BY <1>0, ChanceFacts DEF LinkTypeOK
  <2>2. ent' \in [Slots -> Entries] /\ ents' \in [Slots -> SUBSET Entries]
    BY <1>0 DEF LinkTypeOK
  <2>3. at' \in {"idle", "custody", "sweeping", "recording", "flushing marker", "linking",
               "staging", "renaming", "listing", "retracting", "flushing links"}
        /\ marker' \in {"none", "written", "durable"}
        /\ target' \in Targets \cup {NoVersion}
    BY <1>0 DEF LinkTypeOK
  <2>4. purged' \in BOOLEAN /\ sweepFailed' \in BOOLEAN /\ changed' \in BOOLEAN
        /\ clean' \in BOOLEAN
    BY <1>0 DEF LinkTypeOK
  <2>5. todo' \subseteq Slots /\ cur' \in Slots \cup {NoSlot}
    BY <1>0 DEF LinkTypeOK
  <2>6. found' \in [Slots -> Entries] /\ swept' \subseteq Slots /\ touched' \subseteq Slots
        /\ missed' \subseteq Slots
    BY <1>0 DEF LinkTypeOK
  <2> QED
    BY <2>1, <2>2, <2>3, <2>4, <2>5, <2>6 DEF LinkTypeOK
<1>2. Resting' /\ Looks' /\ StagedOurs'
    BY <1>0, <1>p DEF LinkTypeOK, Resting, Looks, StagedOurs
<1>3. Leftovers' /\ RecordedIsSwept'
    BY <1>0, <1>p DEF LinkTypeOK, Looks, Leftovers, RecordedIsSwept, Recorded
<1>4. Entered' /\ Staging'
    BY <1>0, <1>p DEF LinkTypeOK, Looks, StagedOurs, Entered, Staging, Then, Published, Own
<1>5. Renaming' /\ Linked'
    BY <1>0, <1>p DEF LinkTypeOK, Looks, StagedOurs, Entered, Staging, Renaming, Linked, Then,
                      Published, Own
<1>6. Retracting' /\ Looked'
    <2>1. Retracting'
        BY <1>0, <1>p DEF LinkTypeOK, Looks, StagedOurs, Entered, Staging, Renaming, Linked,
                          Retracting, Looked, Then, Published, Own
    <2>2. Looked'
        BY <1>0, <1>p DEF LinkTypeOK, Looks, StagedOurs, Entered, Staging, Renaming, Linked,
                          Retracting, Looked, Then, Published, Own
    <2> QED BY <2>1, <2>2
<1> QED
    BY <1>1, <1>2, <1>3, <1>4, <1>5, <1>6 DEF LinkInv

LEMMA RetractKeeps ==
    ASSUME LinkInv, Retract
    PROVE  LinkInv'
<1> USE DEF Retract, Looking, Dropped
<1>0. LinkTypeOK /\ Resting /\ Looks /\ StagedOurs /\ Leftovers /\ RecordedIsSwept /\ Entered
      /\ Staging /\ Renaming /\ Linked /\ Retracting /\ Looked
    BY DEF LinkInv
<1>p. /\ ent' \in [Slots -> Entries] /\ ents' \in [Slots -> SUBSET Entries]
      /\ cur \in Slots /\ cur \in todo /\ (clean' => clean)
      /\ \A s \in Slots \ {cur} : ent'[s] = ent[s] /\ ents'[s] = ents[s]
      /\ ents'[cur] \subseteq ents[cur] \cup {"none"}
      /\ ent'[cur] = "none" \/ (ent'[cur] = ent[cur] /\ ~clean')
  <2>1. cur \in Slots /\ cur \in todo
    BY <1>0 DEF LinkTypeOK, Looks
  <2>2. CASE Puts(cur, "none") /\ clean' = clean
    BY <1>0, <2>1, <2>2, PutsFacts
  <2>3. CASE clean' = FALSE /\ UNCHANGED <<ent, ents>>
    BY <1>0, <2>1, <2>3 DEF LinkTypeOK
  <2> QED
    BY <2>2, <2>3
<1>1. LinkTypeOK'
  <2>1. chances' \in 0 .. MaxChances
    BY <1>0, ChanceFacts, PutsFacts DEF LinkTypeOK
  <2>2. ent' \in [Slots -> Entries] /\ ents' \in [Slots -> SUBSET Entries]
    BY <1>p
  <2>3. at' \in {"idle", "custody", "sweeping", "recording", "flushing marker", "linking",
               "staging", "renaming", "listing", "retracting", "flushing links"}
        /\ marker' \in {"none", "written", "durable"}
        /\ target' \in Targets \cup {NoVersion}
    BY <1>0 DEF LinkTypeOK
  <2>4. purged' \in BOOLEAN /\ sweepFailed' \in BOOLEAN /\ changed' \in BOOLEAN
        /\ clean' \in BOOLEAN
    BY <1>0 DEF LinkTypeOK
  <2>5. todo' \subseteq Slots /\ cur' \in Slots \cup {NoSlot}
    BY <1>0 DEF LinkTypeOK
  <2>6. found' \in [Slots -> Entries] /\ swept' \subseteq Slots /\ touched' \subseteq Slots
        /\ missed' \subseteq Slots
    BY <1>0 DEF LinkTypeOK
  <2> QED
    BY <2>1, <2>2, <2>3, <2>4, <2>5, <2>6 DEF LinkTypeOK
<1>2. Resting' /\ Looks' /\ StagedOurs'
    BY <1>0, <1>p DEF LinkTypeOK, Resting, Looks, StagedOurs
<1>3. Leftovers' /\ RecordedIsSwept'
    BY <1>0, <1>p DEF LinkTypeOK, Looks, Leftovers, RecordedIsSwept, Recorded
<1>4. Entered' /\ Staging'
    BY <1>0, <1>p DEF LinkTypeOK, Looks, StagedOurs, Entered, Staging, Then, Published, Own
<1>5. Renaming' /\ Linked'
    BY <1>0, <1>p DEF LinkTypeOK, Looks, StagedOurs, Entered, Staging, Renaming, Linked, Then,
                      Published, Own
<1>6. Looked'
    BY DEF Looked
<1>7. Retracting'
  <2>1. /\ at = "retracting" /\ at' = at /\ todo' = todo \ {cur}
        /\ touched' = touched /\ found' = found /\ swept' = swept
        /\ cur # NoSlot
    OBVIOUS
  <2> SUFFICES ASSUME clean', NEW s \in LinkSlots \ ({"primary"} \cup touched),
                      s = "staged" => "primary" \notin touched /\ ~Published
               PROVE  /\ s \in todo' => ent'[s] = Then(s)
                      /\ s \notin todo' => ent'[s] = IF Then(s) \in Targets THEN "none" ELSE Then(s)
    BY <2>1 DEF Retracting, Then, Published
  <2>2. /\ s \in todo => ent[s] = Then(s)
        /\ s \notin todo => ent[s] = IF Then(s) \in Targets THEN "none" ELSE Then(s)
    BY <1>0, <1>p, <2>1 DEF Retracting
  <2>3. CASE s = cur
    BY <1>0, <1>p, <2>1, <2>2, <2>3 DEF Looked, Own
  <2>4. CASE s # cur
    BY <1>p, <2>1, <2>2, <2>4
  <2> QED
    BY <2>3, <2>4
<1> QED
    BY <1>1, <1>2, <1>3, <1>4, <1>5, <1>6, <1>7 DEF LinkInv

LEMMA RetractEndsKeeps ==
    ASSUME LinkInv, RetractEnds
    PROVE  LinkInv'
<1> USE DEF RetractEnds, At
<1>0. LinkTypeOK /\ Resting /\ Looks /\ StagedOurs /\ Leftovers /\ RecordedIsSwept /\ Entered
      /\ Staging /\ Renaming /\ Linked /\ Retracting /\ Looked
    BY DEF LinkInv
<1>1. LinkTypeOK'
    BY <1>0 DEF LinkTypeOK
<1>2. Resting' /\ Looks' /\ StagedOurs'
    BY <1>0 DEF LinkTypeOK, Resting, Looks, StagedOurs
<1>3. Leftovers' /\ RecordedIsSwept'
    BY <1>0 DEF LinkTypeOK, Looks, Leftovers, RecordedIsSwept, Recorded
<1>4. Entered' /\ Staging'
    BY <1>0 DEF LinkTypeOK, Looks, StagedOurs, Entered, Staging, Then, Published, Own
<1>5. Renaming' /\ Linked'
    BY <1>0 DEF LinkTypeOK, Looks, StagedOurs, Entered, Staging, Renaming, Linked, Then,
                Published, Own
<1>6. Retracting' /\ Looked'
    BY <1>0 DEF LinkTypeOK, Looks, StagedOurs, Entered, Staging, Renaming, Linked, Retracting,
                Looked, Then, Published, Own
<1> QED
    BY <1>1, <1>2, <1>3, <1>4, <1>5, <1>6 DEF LinkInv

LEMMA LinksFlushKeeps ==
    ASSUME LinkInv, LinksFlush
    PROVE  LinkInv'
<1> USE DEF LinksFlush, At, Over, Forgets
<1>0. LinkTypeOK /\ Resting /\ Looks /\ StagedOurs /\ Leftovers /\ RecordedIsSwept /\ Entered
      /\ Staging /\ Renaming /\ Linked /\ Retracting /\ Looked
    BY DEF LinkInv
<1>p. /\ ent' \in [Slots -> Entries] /\ ents' \in [Slots -> SUBSET Entries]
      /\ \A s \in Slots : ents'[s] \in {ents[s], {ent[s]}}
  <2>1. ent \in [Slots -> Entries] /\ ents \in [Slots -> SUBSET Entries]
    BY <1>0 DEF LinkTypeOK
  <2>2. CASE ents' = [s \in Slots |-> IF s = Stage THEN ents[s] ELSE {ent[s]}]
    <3>1. \A s \in Slots : ents'[s] \in {ents[s], {ent[s]}}
        BY <2>2
    <3>2. \A s \in Slots : {ent[s]} \in SUBSET Entries /\ ents[s] \in SUBSET Entries
        BY <2>1
    <3>3. ents' \in [Slots -> SUBSET Entries]
        BY <2>2, <3>2
    <3> QED
        BY <2>1, <3>1, <3>3
  <2>3. CASE ents' = ents
    BY <2>1, <2>3
  <2> QED
    BY <2>2, <2>3
<1>1. LinkTypeOK'
  <2>1. chances' \in 0 .. MaxChances
    BY <1>0, ChanceFacts DEF LinkTypeOK
  <2>2. ent' \in [Slots -> Entries] /\ ents' \in [Slots -> SUBSET Entries]
    BY <1>p
  <2>3. at' \in {"idle", "custody", "sweeping", "recording", "flushing marker", "linking",
               "staging", "renaming", "listing", "retracting", "flushing links"}
        /\ marker' \in {"none", "written", "durable"}
        /\ target' \in Targets \cup {NoVersion}
    BY <1>0 DEF LinkTypeOK
  <2>4. purged' \in BOOLEAN /\ sweepFailed' \in BOOLEAN /\ changed' \in BOOLEAN
        /\ clean' \in BOOLEAN
    BY <1>0 DEF LinkTypeOK
  <2>5. todo' \subseteq Slots /\ cur' \in Slots \cup {NoSlot}
    BY <1>0 DEF LinkTypeOK
  <2>6. found' \in [Slots -> Entries] /\ swept' \subseteq Slots /\ touched' \subseteq Slots
        /\ missed' \subseteq Slots
    BY <1>0 DEF LinkTypeOK
  <2> QED
    BY <2>1, <2>2, <2>3, <2>4, <2>5, <2>6 DEF LinkTypeOK
<1>2. Resting' /\ Looks' /\ StagedOurs'
  <2>1. Resting' /\ Looks'
    BY DEF Resting, Looks
  <2>2. ents'["staged"] \subseteq {"none"} \cup Targets
    <3>1. ents["staged"] \subseteq {"none"} \cup Targets
          /\ {ent["staged"]} \subseteq {"none"} \cup Targets
        BY <1>0 DEF StagedOurs
    <3>2. ents'["staged"] = ents["staged"] \/ ents'["staged"] = {ent["staged"]}
        BY <1>p
    <3>3. CASE ents'["staged"] = ents["staged"]
        BY <3>1, <3>3
    <3>4. CASE ents'["staged"] = {ent["staged"]}
        BY <3>1, <3>4
    <3> QED
        BY <3>2, <3>3, <3>4
  <2> QED
    BY <1>0, <2>1, <2>2 DEF StagedOurs
<1>3. Leftovers' /\ RecordedIsSwept'
    BY <1>0, <1>p DEF LinkTypeOK, Looks, Leftovers, RecordedIsSwept, Recorded
<1>4. Entered' /\ Staging'
    BY <1>0, <1>p DEF LinkTypeOK, Looks, StagedOurs, Entered, Staging, Then, Published, Own
<1>5. Renaming' /\ Linked'
    BY <1>0, <1>p DEF LinkTypeOK, Looks, StagedOurs, Entered, Staging, Renaming, Linked, Then,
                      Published, Own
<1>6. Retracting' /\ Looked'
    BY <1>0, <1>p DEF LinkTypeOK, Looks, StagedOurs, Entered, Staging, Renaming, Linked,
                      Retracting, Looked, Then, Published, Own
<1> QED
    BY <1>1, <1>2, <1>3, <1>4, <1>5, <1>6 DEF LinkInv

LEMMA OtherKeeps ==
    ASSUME LinkInv, NEW s \in LinkSlots, NEW v \in {"none"} \cup Foreign, Other(s, v)
    PROVE  LinkInv'
<1> USE DEF Other
<1>0. LinkTypeOK /\ Resting /\ Looks /\ StagedOurs /\ Leftovers /\ RecordedIsSwept /\ Entered
      /\ Staging /\ Renaming /\ Linked /\ Retracting /\ Looked
    BY DEF LinkInv
<1>1. LinkTypeOK'
  <2>1. chances' \in 0 .. MaxChances
    BY <1>0, ChanceFacts DEF LinkTypeOK
  <2>2. ent' \in [Slots -> Entries] /\ ents' \in [Slots -> SUBSET Entries]
    BY <1>0, ChanceFacts DEF LinkTypeOK
  <2>3. at' \in {"idle", "custody", "sweeping", "recording", "flushing marker", "linking",
               "staging", "renaming", "listing", "retracting", "flushing links"}
        /\ marker' \in {"none", "written", "durable"}
        /\ target' \in Targets \cup {NoVersion}
    BY <1>0 DEF LinkTypeOK
  <2>4. purged' \in BOOLEAN /\ sweepFailed' \in BOOLEAN /\ changed' \in BOOLEAN
        /\ clean' \in BOOLEAN
    BY <1>0 DEF LinkTypeOK
  <2>5. todo' \subseteq Slots /\ cur' \in Slots \cup {NoSlot}
    BY <1>0 DEF LinkTypeOK
  <2>6. found' \in [Slots -> Entries] /\ swept' \subseteq Slots /\ touched' \subseteq Slots
        /\ missed' \subseteq Slots
    BY <1>0 DEF LinkTypeOK
  <2> QED
    BY <2>1, <2>2, <2>3, <2>4, <2>5, <2>6 DEF LinkTypeOK
<1>2. Resting' /\ Looks' /\ StagedOurs'
    BY <1>0, ChanceFacts DEF LinkTypeOK, Resting, Looks, StagedOurs
<1>3. Leftovers' /\ RecordedIsSwept'
    BY <1>0, ChanceFacts DEF LinkTypeOK, Looks, Leftovers, RecordedIsSwept, Recorded
<1>4. Entered' /\ Staging'
    BY <1>0, ChanceFacts DEF LinkTypeOK, Looks, StagedOurs, Entered, Staging, Then, Published, Own
<1>5. Renaming' /\ Linked'
    BY <1>0, ChanceFacts DEF LinkTypeOK, Looks, StagedOurs, Entered, Staging, Renaming, Linked,
                             Then, Published, Own
<1>6. Retracting' /\ Looked'
    <2>1. Retracting'
        BY <1>0, ChanceFacts DEF LinkTypeOK, Looks, StagedOurs, Entered, Staging, Renaming, Linked,
                                 Retracting, Looked, Then, Published, Own
    <2>2. Looked'
        BY <1>0, ChanceFacts DEF LinkTypeOK, Looks, StagedOurs, Entered, Staging, Renaming, Linked,
                                 Retracting, Looked, Then, Published, Own
    <2> QED BY <2>1, <2>2
<1> QED
    BY <1>1, <1>2, <1>3, <1>4, <1>5, <1>6 DEF LinkInv

LEMMA CrashKeeps ==
    ASSUME LinkInv, Crash
    PROVE  LinkInv'
<1> USE DEF Crash, Dies, Over, At, Forgets
<1>0. LinkTypeOK /\ Resting /\ Looks /\ StagedOurs /\ Leftovers /\ RecordedIsSwept /\ Entered
      /\ Staging /\ Renaming /\ Linked /\ Retracting /\ Looked
    BY DEF LinkInv
<1>1. LinkTypeOK'
  <2>1. chances' \in 0 .. MaxChances
    BY <1>0, ChanceFacts DEF LinkTypeOK
  <2>2. ent' \in [Slots -> Entries] /\ ents' \in [Slots -> SUBSET Entries]
    BY <1>0, ChanceFacts DEF LinkTypeOK
  <2>3. at' \in {"idle", "custody", "sweeping", "recording", "flushing marker", "linking",
               "staging", "renaming", "listing", "retracting", "flushing links"}
        /\ marker' \in {"none", "written", "durable"}
        /\ target' \in Targets \cup {NoVersion}
    BY <1>0 DEF LinkTypeOK
  <2>4. purged' \in BOOLEAN /\ sweepFailed' \in BOOLEAN /\ changed' \in BOOLEAN
        /\ clean' \in BOOLEAN
    BY <1>0 DEF LinkTypeOK
  <2>5. todo' \subseteq Slots /\ cur' \in Slots \cup {NoSlot}
    BY <1>0 DEF LinkTypeOK
  <2>6. found' \in [Slots -> Entries] /\ swept' \subseteq Slots /\ touched' \subseteq Slots
        /\ missed' \subseteq Slots
    BY <1>0 DEF LinkTypeOK
  <2> QED
    BY <2>1, <2>2, <2>3, <2>4, <2>5, <2>6 DEF LinkTypeOK
<1>2. Resting' /\ Looks' /\ StagedOurs'
    BY <1>0, ChanceFacts DEF LinkTypeOK, Resting, Looks, StagedOurs
<1>3. Leftovers' /\ RecordedIsSwept'
    BY <1>0, ChanceFacts DEF LinkTypeOK, Looks, Leftovers, RecordedIsSwept, Recorded
<1>4. Entered' /\ Staging'
    BY <1>0, ChanceFacts DEF LinkTypeOK, Looks, StagedOurs, Entered, Staging, Then, Published, Own
<1>5. Renaming' /\ Linked'
    BY <1>0, ChanceFacts DEF LinkTypeOK, Looks, StagedOurs, Entered, Staging, Renaming, Linked,
                             Then, Published, Own
<1>6. Retracting' /\ Looked'
    BY <1>0, ChanceFacts DEF LinkTypeOK, Looks, StagedOurs, Entered, Staging, Renaming, Linked,
                             Retracting, Looked, Then, Published, Own
<1> QED
    BY <1>1, <1>2, <1>3, <1>4, <1>5, <1>6 DEF LinkInv

LEMMA PowerFailsKeeps ==
    ASSUME LinkInv, PowerFails
    PROVE  LinkInv'
<1> USE DEF PowerFails, Dies, Over, At, Forgets
<1>0. LinkTypeOK /\ Resting /\ Looks /\ StagedOurs /\ Leftovers /\ RecordedIsSwept /\ Entered
      /\ Staging /\ Renaming /\ Linked /\ Retracting /\ Looked
    BY DEF LinkInv
<1>p. /\ ent' \in [Slots -> Entries] /\ ents' \in [Slots -> SUBSET Entries]
      /\ \A s \in Slots : ent'[s] \in ents[s] /\ ents'[s] = {ent'[s]}
  <2>1. ent' \in [Slots -> Entries] /\ \A s \in Slots : ent'[s] \in ents[s]
    OBVIOUS
  <2>2. ents' = [s \in Slots |-> {ent'[s]}]
    OBVIOUS
  <2>3. \A s \in Slots : {ent'[s]} \in SUBSET Entries
    <3> TAKE s \in Slots
    <3>1. ent'[s] \in Entries
        BY <2>1
    <3> QED
        BY <3>1
  <2>4. ents' \in [Slots -> SUBSET Entries]
    <3> DEFINE Left(s) == {ent'[s]}
    <3>1. ents' = [s \in Slots |-> Left(s)]
        BY <2>2
    <3>2. \A s \in Slots : Left(s) \in SUBSET Entries
        BY <2>3
    <3> HIDE DEF Left, Entries, Slots
    <3>3. [s \in Slots |-> Left(s)] \in [Slots -> SUBSET Entries]
        BY <3>2
    <3> QED
        BY <3>1, <3>3, Zenon
  <2> QED
    BY <2>1, <2>2, <2>4
<1>1. LinkTypeOK'
  <2>1. chances' \in 0 .. MaxChances
    BY <1>0, ChanceFacts DEF LinkTypeOK
  <2>2. ent' \in [Slots -> Entries] /\ ents' \in [Slots -> SUBSET Entries]
    BY <1>p
  <2>3. at' \in {"idle", "custody", "sweeping", "recording", "flushing marker", "linking",
               "staging", "renaming", "listing", "retracting", "flushing links"}
        /\ marker' \in {"none", "written", "durable"}
        /\ target' \in Targets \cup {NoVersion}
    BY <1>0 DEF LinkTypeOK
  <2>4. purged' \in BOOLEAN /\ sweepFailed' \in BOOLEAN /\ changed' \in BOOLEAN
        /\ clean' \in BOOLEAN
    BY <1>0 DEF LinkTypeOK
  <2>5. todo' \subseteq Slots /\ cur' \in Slots \cup {NoSlot}
    BY <1>0 DEF LinkTypeOK
  <2>6. found' \in [Slots -> Entries] /\ swept' \subseteq Slots /\ touched' \subseteq Slots
        /\ missed' \subseteq Slots
    BY <1>0 DEF LinkTypeOK
  <2> QED
    BY <2>1, <2>2, <2>3, <2>4, <2>5, <2>6 DEF LinkTypeOK
<1>2. Resting' /\ Looks' /\ StagedOurs'
  <2>1. Resting' /\ Looks'
    BY DEF Resting, Looks
  <2>2. ent'["staged"] \in {"none"} \cup Targets /\ ents'["staged"] = {ent'["staged"]}
    BY <1>0, <1>p DEF StagedOurs
  <2> QED
    BY <2>1, <2>2 DEF StagedOurs
<1>3. Leftovers' /\ RecordedIsSwept'
    BY <1>0, <1>p DEF LinkTypeOK, Looks, Leftovers, RecordedIsSwept, Recorded
<1>4. Entered' /\ Staging'
    BY <1>0, <1>p DEF LinkTypeOK, Looks, StagedOurs, Entered, Staging, Then, Published, Own
<1>5. Renaming' /\ Linked'
    BY <1>0, <1>p DEF LinkTypeOK, Looks, StagedOurs, Entered, Staging, Renaming, Linked, Then,
                      Published, Own
<1>6. Retracting' /\ Looked'
    BY <1>0, <1>p DEF LinkTypeOK, Looks, StagedOurs, Entered, Staging, Renaming, Linked,
                      Retracting, Looked, Then, Published, Own
<1> QED
    BY <1>1, <1>2, <1>3, <1>4, <1>5, <1>6 DEF LinkInv


LEMMA LinkInitInv == LinkInit => LinkInv
<1> SUFFICES ASSUME LinkInit PROVE LinkInv
    OBVIOUS
<1>1. ent \in [Slots -> Entries] /\ ents = [s \in Slots |-> {ent[s]}]
    BY DEF LinkInit
<1>2. ents \in [Slots -> SUBSET Entries] /\ ents["staged"] = {ent["staged"]}
  <2> DEFINE Left(s) == {ent[s]}
  <2>1. ents = [s \in Slots |-> Left(s)]
    BY <1>1
  <2>2. \A s \in Slots : Left(s) \in SUBSET Entries
    <3> TAKE s \in Slots
    <3>1. ent[s] \in Entries
        BY <1>1
    <3> QED
        BY <3>1
  <2>3. ents["staged"] = {ent["staged"]}
    BY <1>1
  <2> HIDE DEF Left, Entries, Slots
  <2>4. [s \in Slots |-> Left(s)] \in [Slots -> SUBSET Entries]
    BY <2>2
  <2> QED
    BY <2>1, <2>3, <2>4, Zenon
<1>3. found \in [Slots -> Entries]
    BY DEF LinkInit
<1>4. LinkTypeOK
  <2>1. chances \in 0 .. MaxChances
    BY ChanceStarts
  <2> QED
    BY <1>1, <1>2, <1>3, <2>1 DEF LinkInit, LinkTypeOK
<1>5. Resting /\ Looks /\ StagedOurs /\ Leftovers /\ RecordedIsSwept /\ Entered /\ Staging
    BY <1>1, <1>2 DEF LinkInit, Resting, Looks, StagedOurs, Leftovers, RecordedIsSwept, Recorded,
                      Entered, Staging
<1>6. Renaming /\ Linked /\ Retracting /\ Looked
    BY DEF LinkInit, Renaming, Linked, Retracting, Looked
<1> QED
    BY <1>4, <1>5, <1>6 DEF LinkInv

\* A step that changes nothing keeps the invariant.
LEMMA LinkStutterKeeps ==
    ASSUME LinkInv, UNCHANGED linkVars
    PROVE  LinkInv'
<1> USE DEF LinkInv, linkVars
<1>1. LinkTypeOK'
  <2>1. chances' \in 0 .. MaxChances /\ ents' \in [Slots -> SUBSET Entries]
    BY DEF LinkTypeOK
  <2>2. /\ purged' \in BOOLEAN /\ sweepFailed' \in BOOLEAN
        /\ changed' \in BOOLEAN /\ clean' \in BOOLEAN
    BY DEF LinkTypeOK
  <2> QED
    BY <2>1, <2>2 DEF LinkTypeOK
<1>2. Resting' /\ Looks' /\ StagedOurs' /\ Leftovers' /\ RecordedIsSwept'
    BY DEF Resting, Looks, StagedOurs, Leftovers, RecordedIsSwept, Recorded
<1>3. Entered' /\ Staging' /\ Renaming'
    BY DEF Entered, Staging, Renaming, Then, Published
<1>4. Linked'
    BY DEF Linked, Then, Published
<1>5. Retracting' /\ Looked'
    BY DEF Retracting, Looked, Then, Published, Own
<1> QED
    BY <1>1, <1>2, <1>3, <1>4, <1>5

LEMMA LinkNextKeeps ==
    ASSUME LinkInv, [LinkNext]_linkVars
    PROVE  LinkInv'
<1>1. CASE Ensure \/ Rescan
    BY <1>1, BeginsKeeps DEF Ensure, Rescan
<1>2. CASE PurgeSkips \/ PurgeBegins \/ SweepRemoves \/ SweepFails \/ SweepEnds \/ Record \/ RecordFlushes
    BY <1>2, PurgeSkipsKeeps, PurgeBeginsKeeps, SweepRemovesKeeps, SweepFailsKeeps, SweepEndsKeeps,
       RecordKeeps, RecordFlushesKeeps
<1>3. CASE LinksSkipped \/ StageLink \/ PublishLink \/ PublishFails \/ ListLinks \/ Retract
           \/ RetractEnds \/ LinksFlush
    BY <1>3, LinksSkippedKeeps, StageLinkKeeps, PublishLinkKeeps, PublishFailsKeeps, ListLinksKeeps,
       RetractKeeps, RetractEndsKeeps, LinksFlushKeeps
<1>4. CASE \E s \in Slots : SweepLooks(s) \/ RetractLooks(s)
  <2> PICK s \in Slots : SweepLooks(s) \/ RetractLooks(s)
    BY <1>4
  <2> QED
    BY SweepLooksKeeps, RetractLooksKeeps
<1>5. CASE \E v \in Targets : LinksBegin(v)
    BY <1>5, LinksBeginKeeps
<1>6. CASE \E s \in LinkSlots, v \in {"none"} \cup Foreign : Other(s, v)
  <2> PICK s \in LinkSlots, v \in {"none"} \cup Foreign : Other(s, v)
    BY <1>6
  <2> HIDE DEF LinkSlots, Foreign
  <2> QED
    BY OtherKeeps
<1>7. CASE Crash \/ PowerFails
    BY <1>7, CrashKeeps, PowerFailsKeeps
<1>8. CASE UNCHANGED linkVars
    BY <1>8, LinkStutterKeeps
<1> QED
    BY <1>1, <1>2, <1>3, <1>4, <1>5, <1>6, <1>7, <1>8 DEF LinkNext, Manager

\* The volume's entries, the sweep's and the links' positions, and what each operation
\* has yet to look at, are what purge.go leaves, whoever writes meanwhile.
THEOREM LinksInductive == LinkSafe => []LinkInv
BY LinkInitInv, LinkNextKeeps, PTL DEF LinkSafe

\* The types of the sweep's and the links' state (purge.go).
THEOREM LinksTypeCorrect == LinkSafe => []LinkTypeOK
<1>1. LinkInv => LinkTypeOK
    BY DEF LinkInv
<1> QED
    BY <1>1, LinksInductive, PTL

\* recordPurge: a recorded sweep left nothing of the previous installer, but for what
\* it could not read and what a power loss brought back to LinkDir, for any declared
\* names and any crashes, failures and power losses.
THEOREM RecordedAlwaysSwept == LinkSafe => []RecordedIsSwept
<1>1. LinkInv => RecordedIsSwept
    BY DEF LinkInv
<1> QED
    BY <1>1, LinksInductive, PTL

\* publishConvenienceLinks: what an operation whose link steps all succeeded leaves in
\* LinkDir, whatever came before it and whoever wrote beside it.
THEOREM LinksAlwaysFollow == LinkSafe => LinksFollow
<1>1. ASSUME LinkInv, at = "flushing links", clean, NEW s \in LinkSlots \ touched
      PROVE  \/ "primary" \in touched /\ s = "staged"
             \/ ent[s] = CASE s = "primary" /\ Published -> target
                           [] s = "staged" /\ Published  -> "none"
                           [] s # "primary" /\ Then(s) \in Targets -> "none"
                           [] OTHER -> Then(s)
  <2>1. Linked /\ Retracting
    BY <1>1 DEF LinkInv
  <2>2. CASE s = "primary" /\ Published
    BY <1>1, <2>1, <2>2 DEF Linked
  <2>3. CASE s = "primary" /\ ~Published
    BY <1>1, <2>1, <2>3 DEF Linked
  <2>4. CASE s # "primary" /\ "primary" \in touched /\ s = "staged"
    BY <2>4
  <2>5. CASE s = "staged" /\ "primary" \notin touched /\ Published
    <3>1. ent[s] = "none"
        BY <1>1, <2>1, <2>5 DEF Linked
    <3> QED
        BY <2>5, <3>1
  <2>6. CASE s # "primary" /\ (s = "staged" => "primary" \notin touched /\ ~Published)
    <3>1. ent[s] = IF Then(s) \in Targets THEN "none" ELSE Then(s)
        BY <1>1, <2>1, <2>6 DEF Retracting
    <3>2. ~(s = "primary" /\ Published) /\ ~(s = "staged" /\ Published)
        BY <2>6
    <3> QED
        BY <2>6, <3>1, <3>2
  <2> QED
    BY <2>2, <2>3, <2>4, <2>5, <2>6
<1>2. LinkInv /\ [LinkNext]_linkVars =>
        [at = "flushing links" /\ clean =>
            \A s \in LinkSlots \ touched :
                \/ "primary" \in touched /\ s = "staged"
                \/ ent[s] = CASE s = "primary" /\ Published -> target
                              [] s = "staged" /\ Published  -> "none"
                              [] s # "primary" /\ Then(s) \in Targets -> "none"
                              [] OTHER -> Then(s)]_linkVars
    BY <1>1
<1> QED
    BY <1>2, LinksInductive, PTL DEF LinkSafe, LinksFollow

HIDE LinkDirAssumption DEF LinkDirAssumption, disk, linkOp, linkHistory, Slots, LinkSlots, Stage,
                           Foreign, Entries, NoSlot, NoVersion

(***************************************************************************)
(* Pin: the installation, its operations and its volume.                   *)
(***************************************************************************)

USE PinAssumption DEF PinAssumption, volume, memory, holder, retry, history

\* The pin is a version, and 0 is none.
LEMMA VersionFacts == Pin \in Versions /\ Pin # 0 /\ 0 \notin Versions
/\ Versions \subseteq 0 .. NumVersions
BY DEF Versions

\* What Put and Touched return.
LEMMA WriteFacts ==
    ASSUME TypeOK, NEW v \in Versions
    PROVE  /\ \A c \in Contents : Put(v, c) \in [Versions -> Contents] /\ Put(v, c)[v] = c
           /\ \A c \in Contents, u \in Versions : u # v => Put(v, c)[u] = tree[u]
           /\ Touched(v) \in [Versions -> Int]
BY DEF TypeOK, VolumeType, Put, Touched

\* The selection is a version from the assertions on, and so is what a prune
\* is deleting.
LEMMA PlaceFacts ==
    ASSUME TypeOK
    PROVE  /\ pc \in {"asserting", "marking", "listing", "pruning", "deleting"} => sel \in Versions
           /\ pc = "deleting" => victim \in Versions
BY DEF TypeOK, PlaceType, Versions

LEMMA InitInv == Init => IInv
<1> SUFFICES ASSUME Init PROVE IInv
    OBVIOUS
<1>1. VolumeType
    BY DEF Init, VolumeType, Versions
<1>2. FlagType
    BY DEF Init, FlagType
<1>3. PlaceType
    BY DEF Init, PlaceType
<1>4. TypeOK
    BY <1>1, <1>2, <1>3 DEF TypeOK
<1>5. CustodyOK /\ RetryOK /\ PhaseOK /\ SelectionOK /\ OnlyOwnInstalls
    BY DEF Init, CustodyOK, RetryOK, PhaseOK, SelectionOK, OnlyOwnInstalls, InstallPcs
<1>6. VolumeOK
    BY DEF Init, VolumeOK, InstallPcs, Versions
<1> QED
    BY <1>4, <1>5, <1>6 DEF IInv


\* The volume keeps its type.
LEMMA StepVolumeType ==
    ASSUME IInv, [Next]_vars
    PROVE  VolumeType'
<1> USE VersionFacts, WriteFacts DEF Goto, Event, Tree, Contents
<1>0. TypeOK
    BY DEF IInv
<1>1. CASE \E c \in Callers : Acquire(c)
    BY <1>0, <1>1 DEF TypeOK, VolumeType, Acquire
<1>2. CASE CheckCustody
    BY <1>0, <1>2 DEF TypeOK, VolumeType, CheckCustody
<1>3. CASE Sweep
    BY <1>0, <1>3 DEF TypeOK, VolumeType, Sweep
<1>4. CASE Select
    BY <1>0, <1>4 DEF TypeOK, VolumeType, Select, Unanswered, Selected, ProbesOut
<1>5. CASE Require
    BY <1>0, <1>5 DEF TypeOK, VolumeType, Require, InstallFailed
<1>6. CASE Obtain
    BY <1>0, <1>6 DEF TypeOK, VolumeType, Obtain, Works
<1>7. CASE ObtainFails
    BY <1>0, <1>7 DEF TypeOK, VolumeType, ObtainFails, Fails, InstallFailed
<1>8. CASE ClearBegins
    BY <1>0, <1>8 DEF TypeOK, VolumeType, ClearBegins
<1>9. CASE Clear
    BY <1>0, <1>9 DEF TypeOK, VolumeType, Clear
<1>10. CASE ClearFails
    BY <1>0, <1>10 DEF TypeOK, VolumeType, ClearFails, InstallFailed
<1>11. CASE Rename
    BY <1>0, <1>11 DEF TypeOK, VolumeType, Rename
<1>12. CASE RenameFails
    BY <1>0, <1>12 DEF TypeOK, VolumeType, RenameFails, InstallFailed
<1>13. CASE Sync
    BY <1>0, <1>13 DEF TypeOK, VolumeType, Sync, Flushed
<1>14. CASE SyncFails
    BY <1>0, <1>14 DEF TypeOK, VolumeType, SyncFails, InstallFailed
<1>15. CASE Commit
    BY <1>0, <1>15 DEF TypeOK, VolumeType, Commit, Works, Fails
<1>16. CASE Mark
  <2>1. Touched(sel) \in [Versions -> Int]
    BY <1>0, <1>16, PlaceFacts DEF Mark
  <2> QED
    BY <1>0, <1>16, <2>1 DEF TypeOK, VolumeType, Mark
<1>17. CASE List
    BY <1>0, <1>17 DEF TypeOK, VolumeType, List, Unanswered, Kept, Victims, Predecessors,
                       ProbesOut, Closing
<1>18. CASE \E v \in Versions : PruneBegins(v)
    BY <1>0, <1>18 DEF TypeOK, VolumeType, PlaceType, PruneBegins
<1>19. CASE Prune
  <2>1. Put(victim, "none") \in [Versions -> Contents]
    BY <1>0, <1>19, PlaceFacts DEF Prune
  <2> QED
    BY <1>0, <1>19, <2>1 DEF TypeOK, VolumeType, Prune
<1>20. CASE PruneEnds
    BY <1>0, <1>20 DEF TypeOK, VolumeType, PruneEnds, Closing
<1>21. CASE Unavailable
    BY <1>0, <1>21 DEF TypeOK, VolumeType, Unavailable, Closing
<1>22. CASE Settle
    BY <1>0, <1>22 DEF TypeOK, VolumeType, Settle, SettledPhase
<1>23. CASE Return
    BY <1>0, <1>23 DEF TypeOK, VolumeType, Return, EnsureErr, Released
<1>24. CASE AttemptBegins
    BY <1>0, <1>24 DEF TypeOK, VolumeType, AttemptBegins
<1>25. CASE AttemptEnds
    BY <1>0, <1>25 DEF TypeOK, VolumeType, AttemptEnds, TriesAgain
<1>26. CASE WakesUp
    BY <1>0, <1>26 DEF TypeOK, VolumeType, WakesUp
<1>27. CASE RetrySettles
    BY <1>0, <1>27 DEF TypeOK, VolumeType, RetrySettles, SettledPhase
<1>28. CASE RetryBegins
    BY <1>0, <1>28 DEF TypeOK, VolumeType, RetryBegins
<1>29. CASE Cancel
    BY <1>0, <1>29 DEF TypeOK, VolumeType, Cancel
<1>30. CASE \E c \in Callers : Call(c)
    BY <1>0, <1>30 DEF TypeOK, VolumeType, Call
<1>31. CASE \E c \in Callers : GiveUp(c)
    BY <1>0, <1>31 DEF TypeOK, VolumeType, GiveUp
<1>32. CASE \E v \in Versions, c \in Contents : Outside(v, c)
    BY <1>0, <1>32 DEF TypeOK, VolumeType, Outside
<1>33. CASE ControlChanges
    BY <1>0, <1>33 DEF TypeOK, VolumeType, ControlChanges
<1>34. CASE Restart
    BY <1>0, <1>34 DEF TypeOK, VolumeType, Restart, Fresh
<1>35. CASE PowerLoss
    BY <1>0, <1>35 DEF TypeOK, VolumeType, PowerLoss, Fresh
<1>36. CASE RequireFails
    BY <1>0, <1>36 DEF TypeOK, VolumeType, RequireFails, InstallFailed
<1>37. CASE UNCHANGED vars
    BY <1>0, <1>37 DEF TypeOK, VolumeType, vars
<1> QED
    BY <1>1, <1>2, <1>3, <1>4, <1>5, <1>6, <1>7, <1>8, <1>9, <1>10, <1>11, <1>12, <1>13, <1>14,
       <1>15, <1>16, <1>17, <1>18, <1>19, <1>20, <1>21, <1>22, <1>23, <1>24, <1>25, <1>26, <1>27,
       <1>28, <1>29, <1>30, <1>31, <1>32, <1>33, <1>34, <1>35, <1>36, <1>37 DEF Next, Operation,
       Retry

\* The positions keep theirs.
LEMMA StepPlaceType ==
    ASSUME IInv, [Next]_vars
    PROVE  PlaceType'
<1> USE VersionFacts DEF Goto, Event, IInv, RetryOK
<1>0. TypeOK
    BY DEF IInv
<1>1. CASE \E c \in Callers : Acquire(c)
    BY <1>0, <1>1 DEF TypeOK, PlaceType, OpPcs, Callers, Acquire
<1>2. CASE CheckCustody
    BY <1>0, <1>2 DEF TypeOK, PlaceType, OpPcs, Callers, CheckCustody
<1>3. CASE Sweep
    BY <1>0, <1>3 DEF TypeOK, PlaceType, OpPcs, Callers, Sweep
<1>4. CASE Select
    BY <1>0, <1>4 DEF TypeOK, PlaceType, OpPcs, Callers, Select, Unanswered, Selected, ProbesOut
<1>5. CASE Require
    BY <1>0, <1>5 DEF TypeOK, PlaceType, OpPcs, Callers, Require, InstallFailed
<1>6. CASE Obtain
    BY <1>0, <1>6 DEF TypeOK, PlaceType, OpPcs, Callers, Obtain, Works
<1>7. CASE ObtainFails
    BY <1>0, <1>7 DEF TypeOK, PlaceType, OpPcs, Callers, ObtainFails, Fails, InstallFailed
<1>8. CASE ClearBegins
    BY <1>0, <1>8 DEF TypeOK, PlaceType, OpPcs, Callers, ClearBegins
<1>9. CASE Clear
    BY <1>0, <1>9 DEF TypeOK, PlaceType, OpPcs, Callers, Clear
<1>10. CASE ClearFails
    BY <1>0, <1>10 DEF TypeOK, PlaceType, OpPcs, Callers, ClearFails, InstallFailed
<1>11. CASE Rename
    BY <1>0, <1>11 DEF TypeOK, PlaceType, OpPcs, Callers, Rename
<1>12. CASE RenameFails
    BY <1>0, <1>12 DEF TypeOK, PlaceType, OpPcs, Callers, RenameFails, InstallFailed
<1>13. CASE Sync
    BY <1>0, <1>13 DEF TypeOK, PlaceType, OpPcs, Callers, Sync, Flushed
<1>14. CASE SyncFails
    BY <1>0, <1>14 DEF TypeOK, PlaceType, OpPcs, Callers, SyncFails, InstallFailed
<1>15. CASE Commit
    BY <1>0, <1>15 DEF TypeOK, PlaceType, OpPcs, Callers, Commit, Works, Fails
<1>16. CASE Mark
    BY <1>0, <1>16 DEF TypeOK, PlaceType, OpPcs, Callers, Mark, MayMutateTree, Closing
<1>17. CASE List
    BY <1>0, <1>17 DEF TypeOK, PlaceType, OpPcs, Callers, List, Unanswered, Kept, Victims,
                       Predecessors, ProbesOut, Closing
<1>18. CASE \E v \in Versions : PruneBegins(v)
    BY <1>0, <1>18 DEF TypeOK, PlaceType, OpPcs, Callers, PruneBegins
<1>19. CASE Prune
    BY <1>0, <1>19 DEF TypeOK, PlaceType, OpPcs, Callers, Prune
<1>20. CASE PruneEnds
    BY <1>0, <1>20 DEF TypeOK, PlaceType, OpPcs, Callers, PruneEnds, Closing
<1>21. CASE Unavailable
    BY <1>0, <1>21 DEF TypeOK, PlaceType, OpPcs, Callers, Unavailable, Closing
<1>22. CASE Settle
    BY <1>0, <1>22 DEF TypeOK, PlaceType, OpPcs, Callers, Settle, SettledPhase
<1>23. CASE Return
    BY <1>0, <1>23 DEF TypeOK, PlaceType, OpPcs, Callers, Return, EnsureErr, Released
<1>24. CASE AttemptBegins
    BY <1>0, <1>24 DEF TypeOK, PlaceType, OpPcs, Callers, AttemptBegins
<1>25. CASE AttemptEnds
    BY <1>0, <1>25 DEF TypeOK, PlaceType, OpPcs, Callers, AttemptEnds, TriesAgain
<1>26. CASE WakesUp
    BY <1>0, <1>26 DEF TypeOK, PlaceType, OpPcs, Callers, WakesUp
<1>27. CASE RetrySettles
    BY <1>0, <1>27 DEF TypeOK, PlaceType, OpPcs, Callers, RetrySettles, SettledPhase
<1>28. CASE RetryBegins
    BY <1>0, <1>28 DEF TypeOK, PlaceType, OpPcs, Callers, RetryBegins
<1>29. CASE Cancel
    BY <1>0, <1>29 DEF TypeOK, PlaceType, OpPcs, Callers, Cancel
<1>30. CASE \E c \in Callers : Call(c)
    BY <1>0, <1>30 DEF TypeOK, PlaceType, OpPcs, Callers, Call
<1>31. CASE \E c \in Callers : GiveUp(c)
    BY <1>0, <1>31 DEF TypeOK, PlaceType, OpPcs, Callers, GiveUp
<1>32. CASE \E v \in Versions, c \in Contents : Outside(v, c)
    BY <1>0, <1>32 DEF TypeOK, PlaceType, OpPcs, Callers, Outside
<1>33. CASE ControlChanges
    BY <1>0, <1>33 DEF TypeOK, PlaceType, OpPcs, Callers, ControlChanges
<1>34. CASE Restart
    BY <1>0, <1>34 DEF TypeOK, PlaceType, OpPcs, Callers, Restart, Fresh
<1>35. CASE PowerLoss
    BY <1>0, <1>35 DEF TypeOK, PlaceType, OpPcs, Callers, PowerLoss, Fresh
<1>36. CASE RequireFails
    BY <1>0, <1>36 DEF TypeOK, PlaceType, OpPcs, Callers, RequireFails, InstallFailed
<1>37. CASE UNCHANGED vars
    BY <1>0, <1>37 DEF TypeOK, PlaceType, OpPcs, Callers, vars
<1> QED
    BY <1>1, <1>2, <1>3, <1>4, <1>5, <1>6, <1>7, <1>8, <1>9, <1>10, <1>11, <1>12, <1>13, <1>14,
       <1>15, <1>16, <1>17, <1>18, <1>19, <1>20, <1>21, <1>22, <1>23, <1>24, <1>25, <1>26, <1>27,
       <1>28, <1>29, <1>30, <1>31, <1>32, <1>33, <1>34, <1>35, <1>36, <1>37 DEF Next, Operation,
       Retry

\* The flags keep theirs.
LEMMA StepFlagType ==
    ASSUME IInv, [Next]_vars
    PROVE  FlagType'
<1> USE DEF Goto, Event
<1>0. TypeOK
    BY DEF IInv
<1>1. CASE
        \/ RequireFails
        \/ Obtain
        \/ ObtainFails
        \/ Clear
        \/ ClearFails
        \/ RenameFails
        \/ SyncFails
    BY <1>0, <1>1 DEF TypeOK, FlagType, RequireFails, InstallFailed, Obtain, Works, ObtainFails,
       Fails, Clear, ClearFails, RenameFails, SyncFails
<1>2. CASE
        \/ Mark
        \/ List
        \/ \E v \in Versions : PruneBegins(v)
        \/ Prune
        \/ PruneEnds
        \/ Settle
    BY <1>0, <1>2 DEF TypeOK, FlagType, Mark, MayMutateTree, Closing, List, Unanswered, Kept,
       Victims, Predecessors, ProbesOut, PruneBegins, Prune, PruneEnds, Settle, SettledPhase
<1>3. CASE
        \/ AttemptBegins
        \/ AttemptEnds
        \/ WakesUp
        \/ RetryBegins
        \/ \E c \in Callers : Call(c)
    BY <1>0, <1>3 DEF TypeOK, FlagType, AttemptBegins, AttemptEnds, TriesAgain, WakesUp,
       RetryBegins, Call
<1>4. CASE \E c \in Callers : Acquire(c)
    BY <1>0, <1>4 DEF TypeOK, FlagType, Acquire
<1>5. CASE CheckCustody
    BY <1>0, <1>5 DEF TypeOK, FlagType, CheckCustody
<1>6. CASE Sweep
    BY <1>0, <1>6 DEF TypeOK, FlagType, Sweep
<1>7. CASE Select
    BY <1>0, <1>7 DEF TypeOK, FlagType, Select, Unanswered, Selected, ProbesOut
<1>8. CASE Require
    BY <1>0, <1>8 DEF TypeOK, FlagType, Require, InstallFailed
<1>9. CASE ClearBegins
    BY <1>0, <1>9 DEF TypeOK, FlagType, ClearBegins
<1>10. CASE Rename
    BY <1>0, <1>10 DEF TypeOK, FlagType, Rename
<1>11. CASE Sync
    BY <1>0, <1>11 DEF TypeOK, FlagType, Sync, Flushed
<1>12. CASE Commit
    BY <1>0, <1>12 DEF TypeOK, FlagType, Commit, Works, Fails
<1>13. CASE Unavailable
    BY <1>0, <1>13 DEF TypeOK, FlagType, Unavailable, Closing
<1>14. CASE Return
    BY <1>0, <1>14 DEF TypeOK, FlagType, Return, EnsureErr, Released
<1>15. CASE RetrySettles
    BY <1>0, <1>15 DEF TypeOK, FlagType, RetrySettles, SettledPhase
<1>16. CASE Cancel
    BY <1>0, <1>16 DEF TypeOK, FlagType, Cancel
<1>17. CASE \E c \in Callers : GiveUp(c)
    BY <1>0, <1>17 DEF TypeOK, FlagType, GiveUp
<1>18. CASE \E v \in Versions, c \in Contents : Outside(v, c)
    BY <1>0, <1>18 DEF TypeOK, FlagType, Outside
<1>19. CASE ControlChanges
    BY <1>0, <1>19 DEF TypeOK, FlagType, ControlChanges
<1>20. CASE Restart
    BY <1>0, <1>20 DEF TypeOK, FlagType, Restart, Fresh
<1>21. CASE PowerLoss
    BY <1>0, <1>21 DEF TypeOK, FlagType, PowerLoss, Fresh
<1>22. CASE UNCHANGED vars
    BY <1>0, <1>22 DEF TypeOK, FlagType, vars
<1> QED
    BY <1>1, <1>2, <1>3, <1>4, <1>5, <1>6, <1>7, <1>8, <1>9, <1>10, <1>11, <1>12, <1>13, <1>14,
       <1>15, <1>16, <1>17, <1>18, <1>19, <1>20, <1>21, <1>22 DEF Next, Operation, Retry

\* A tree is written under a clean verdict.
LEMMA StepCustody ==
    ASSUME IInv, [Next]_vars
    PROVE  CustodyOK'
<1> USE DEF Goto, Event, IInv, CustodyOK, InstallPcs
<1>0. TypeOK
    BY DEF IInv
<1>1. CASE
        \/ AttemptBegins
        \/ AttemptEnds
        \/ WakesUp
        \/ RetrySettles
        \/ RetryBegins
        \/ Cancel
        \/ \E c \in Callers : Call(c)
        \/ \E c \in Callers : GiveUp(c)
        \/ \E v \in Versions, c \in Contents : Outside(v, c)
        \/ ControlChanges
    BY <1>0, <1>1 DEF TypeOK, PlaceType, OpPcs, AttemptBegins, AttemptEnds, TriesAgain, WakesUp,
       RetrySettles, SettledPhase, RetryBegins, Cancel, Call, GiveUp, Outside, ControlChanges
<1>2. CASE
        \/ Restart
        \/ PowerLoss
    BY <1>0, <1>2 DEF TypeOK, PlaceType, OpPcs, Restart, Fresh, PowerLoss
<1>3. CASE
        \/ RequireFails
        \/ ObtainFails
        \/ ClearFails
        \/ RenameFails
        \/ SyncFails
    BY <1>0, <1>3 DEF TypeOK, PlaceType, OpPcs, RequireFails, InstallFailed, ObtainFails, Fails,
       ClearFails, RenameFails, SyncFails
<1>4. CASE
        \/ Obtain
        \/ ClearBegins
        \/ Clear
        \/ Rename
        \/ Sync
    BY <1>0, <1>4 DEF TypeOK, PlaceType, OpPcs, Obtain, Works, ClearBegins, Clear, Rename, Sync,
       Flushed
<1>5. CASE
        \/ \E c \in Callers : Acquire(c)
        \/ CheckCustody
        \/ Sweep
    BY <1>0, <1>5 DEF TypeOK, PlaceType, OpPcs, Acquire, CheckCustody, Sweep
<1>6. CASE
        \/ \E v \in Versions : PruneBegins(v)
        \/ Prune
        \/ PruneEnds
        \/ List
    BY <1>0, <1>6 DEF TypeOK, PlaceType, OpPcs, PruneBegins, Prune, PruneEnds, Closing, List,
       Unanswered, Kept, Victims, Predecessors, ProbesOut
<1>7. CASE Select
  <2>1. sel' # 0 => verdict
    BY <1>0, <1>7 DEF Select, Selected, Activatable, Trusted
  <2> QED
    BY <1>0, <1>7, <2>1 DEF TypeOK, PlaceType, Select
<1>8. CASE Require
    BY <1>0, <1>8 DEF TypeOK, PlaceType, OpPcs, Require, InstallFailed
<1>9. CASE Commit
    BY <1>0, <1>9 DEF TypeOK, PlaceType, OpPcs, Commit, Works, Fails
<1>10. CASE Mark
    BY <1>0, <1>10 DEF TypeOK, PlaceType, OpPcs, Mark, MayMutateTree, Closing
<1>11. CASE Unavailable
    BY <1>0, <1>11 DEF TypeOK, PlaceType, OpPcs, Unavailable, Closing
<1>12. CASE Settle
    BY <1>0, <1>12 DEF TypeOK, PlaceType, OpPcs, Settle, SettledPhase
<1>13. CASE Return
    BY <1>0, <1>13 DEF TypeOK, PlaceType, OpPcs, Return, EnsureErr, Released
<1>14. CASE UNCHANGED vars
    BY <1>0, <1>14 DEF TypeOK, PlaceType, OpPcs, vars
<1> QED
    BY <1>1, <1>2, <1>3, <1>4, <1>5, <1>6, <1>7, <1>8, <1>9, <1>10, <1>11, <1>12, <1>13,
       <1>14 DEF Next, Operation, Retry

\* The retry loop and its operation stay in step.
LEMMA StepRetry ==
    ASSUME IInv, [Next]_vars
    PROVE  RetryOK'
<1> USE DEF Goto, Event, IInv, RetryOK
<1>0. TypeOK
    BY DEF IInv
<1>1. CASE
        \/ CheckCustody
        \/ Sweep
        \/ Select
        \/ Require
        \/ RequireFails
        \/ Obtain
        \/ ObtainFails
        \/ ClearBegins
        \/ Clear
        \/ ClearFails
        \/ Rename
        \/ RenameFails
        \/ Sync
        \/ SyncFails
        \/ Commit
        \/ Mark
        \/ List
        \/ \E v \in Versions : PruneBegins(v)
        \/ Prune
        \/ PruneEnds
        \/ Unavailable
        \/ Settle
    BY <1>0, <1>1 DEF TypeOK, PlaceType, Callers, CheckCustody, Sweep, Select, Unanswered,
       Selected, ProbesOut, Require, InstallFailed, RequireFails, Obtain, Works, ObtainFails,
       Fails, ClearBegins, Clear, ClearFails, Rename, RenameFails, Sync, Flushed, SyncFails,
       Commit, Mark, MayMutateTree, Closing, List, Kept, Victims, Predecessors, PruneBegins,
       Prune, PruneEnds, Unavailable, Settle, SettledPhase
<1>2. CASE
        \/ AttemptBegins
        \/ AttemptEnds
        \/ WakesUp
        \/ RetrySettles
    BY <1>0, <1>2 DEF TypeOK, PlaceType, Callers, AttemptBegins, AttemptEnds, TriesAgain,
       WakesUp, RetrySettles, SettledPhase
<1>3. CASE
        \/ RetryBegins
        \/ Cancel
    BY <1>0, <1>3 DEF TypeOK, PlaceType, Callers, RetryBegins, Cancel
<1>4. CASE
        \/ \E v \in Versions, c \in Contents : Outside(v, c)
        \/ ControlChanges
    BY <1>0, <1>4 DEF TypeOK, PlaceType, Callers, Outside, ControlChanges
<1>5. CASE
        \/ Restart
        \/ PowerLoss
    BY <1>0, <1>5 DEF TypeOK, PlaceType, Callers, Restart, Fresh, PowerLoss
<1>6. CASE \E c \in Callers : Acquire(c)
    BY <1>0, <1>6 DEF TypeOK, PlaceType, Callers, Acquire
<1>7. CASE Return
    BY <1>0, <1>7 DEF TypeOK, PlaceType, Callers, Return, EnsureErr, Released
<1>8. CASE \E c \in Callers : Call(c)
    BY <1>0, <1>8 DEF TypeOK, PlaceType, Callers, Call
<1>9. CASE \E c \in Callers : GiveUp(c)
    BY <1>0, <1>9 DEF TypeOK, PlaceType, Callers, GiveUp
<1>10. CASE UNCHANGED vars
    BY <1>0, <1>10 DEF TypeOK, PlaceType, Callers, vars
<1> QED
    BY <1>1, <1>2, <1>3, <1>4, <1>5, <1>6, <1>7, <1>8, <1>9, <1>10 DEF Next, Operation, Retry

\* What is asserted is active, and a retry's own is ready.
LEMMA StepPhase ==
    ASSUME IInv, [Next]_vars
    PROVE  PhaseOK'
<1> USE DEF Goto, Event, IInv, RetryOK, PhaseOK, Ready
<1>0. TypeOK
    BY DEF IInv
<1>1. CASE
        \/ \E c \in Callers : Acquire(c)
        \/ CheckCustody
        \/ Sweep
        \/ Select
        \/ Require
        \/ RequireFails
        \/ Obtain
        \/ ObtainFails
        \/ ClearBegins
        \/ Clear
        \/ ClearFails
        \/ Rename
        \/ RenameFails
        \/ Sync
        \/ SyncFails
    BY <1>0, <1>1 DEF TypeOK, PlaceType, Acquire, CheckCustody, Sweep, Select, Unanswered,
       Selected, ProbesOut, Require, InstallFailed, RequireFails, Obtain, Works, ObtainFails,
       Fails, ClearBegins, Clear, ClearFails, Rename, RenameFails, Sync, Flushed, SyncFails
<1>2. CASE
        \/ Mark
        \/ List
        \/ \E v \in Versions : PruneBegins(v)
        \/ Prune
        \/ PruneEnds
    BY <1>0, <1>2 DEF TypeOK, PlaceType, Mark, MayMutateTree, Closing, List, Unanswered, Kept,
       Victims, Predecessors, ProbesOut, PruneBegins, Prune, PruneEnds
<1>3. CASE
        \/ Unavailable
        \/ Settle
        \/ Return
    BY <1>0, <1>3 DEF TypeOK, PlaceType, Unavailable, Closing, Settle, SettledPhase, Return,
       EnsureErr, Released
<1>4. CASE
        \/ AttemptBegins
        \/ AttemptEnds
        \/ WakesUp
        \/ RetrySettles
    BY <1>0, <1>4 DEF TypeOK, PlaceType, AttemptBegins, AttemptEnds, TriesAgain, WakesUp,
       RetrySettles, SettledPhase
<1>5. CASE
        \/ RetryBegins
        \/ Cancel
        \/ \E c \in Callers : Call(c)
        \/ \E c \in Callers : GiveUp(c)
        \/ \E v \in Versions, c \in Contents : Outside(v, c)
        \/ ControlChanges
    BY <1>0, <1>5 DEF TypeOK, PlaceType, RetryBegins, Cancel, Call, GiveUp, Outside,
       ControlChanges
<1>6. CASE
        \/ Restart
        \/ PowerLoss
    BY <1>0, <1>6 DEF TypeOK, PlaceType, Restart, Fresh, PowerLoss
<1>7. CASE Commit
    BY <1>0, <1>7 DEF TypeOK, PlaceType, Commit, Works, Fails
<1>8. CASE UNCHANGED vars
    BY <1>0, <1>8 DEF TypeOK, PlaceType, vars
<1> QED
    BY <1>1, <1>2, <1>3, <1>4, <1>5, <1>6, <1>7, <1>8 DEF Next, Operation, Retry

\* Only own installs are selected and active on an untrusted volume.
LEMMA StepSelection ==
    ASSUME IInv, [Next]_vars
    PROVE  SelectionOK' /\ OnlyOwnInstalls'
<1> USE DEF Goto, Event, IInv, SelectionOK, OnlyOwnInstalls
<1>0. TypeOK
    BY DEF IInv
<1>1. CASE
        \/ AttemptBegins
        \/ AttemptEnds
        \/ WakesUp
        \/ RetrySettles
        \/ RetryBegins
        \/ Cancel
        \/ \E c \in Callers : Call(c)
        \/ \E c \in Callers : GiveUp(c)
        \/ \E v \in Versions, c \in Contents : Outside(v, c)
        \/ ControlChanges
    BY <1>0, <1>1 DEF TypeOK, PlaceType, AttemptBegins, AttemptEnds, TriesAgain, WakesUp,
       RetrySettles, SettledPhase, RetryBegins, Cancel, Call, GiveUp, Outside, ControlChanges
<1>2. CASE
        \/ Restart
        \/ PowerLoss
    BY <1>0, <1>2 DEF TypeOK, PlaceType, Restart, Fresh, PowerLoss
<1>3. CASE
        \/ \E c \in Callers : Acquire(c)
        \/ CheckCustody
        \/ Sweep
    BY <1>0, <1>3 DEF TypeOK, PlaceType, Acquire, CheckCustody, Sweep
<1>4. CASE
        \/ RequireFails
        \/ ObtainFails
        \/ ClearFails
        \/ RenameFails
        \/ SyncFails
    BY <1>0, <1>4 DEF TypeOK, PlaceType, RequireFails, InstallFailed, ObtainFails, Fails,
       ClearFails, RenameFails, SyncFails
<1>5. CASE
        \/ Obtain
        \/ ClearBegins
        \/ Clear
        \/ Rename
        \/ Sync
    BY <1>0, <1>5 DEF TypeOK, PlaceType, Obtain, Works, ClearBegins, Clear, Rename, Sync,
       Flushed
<1>6. CASE
        \/ Mark
        \/ \E v \in Versions : PruneBegins(v)
        \/ Prune
        \/ PruneEnds
        \/ List
    BY <1>0, <1>6 DEF TypeOK, PlaceType, Mark, MayMutateTree, Closing, PruneBegins, Prune,
       PruneEnds, List, Unanswered, Kept, Victims, Predecessors, ProbesOut
<1>7. CASE Select
  <2>1. untrusted /\ sel' # 0 => sel' \in installed
    BY <1>0, <1>7 DEF Select, Selected, Activatable, Trusted
  <2> QED
    BY <1>0, <1>7, <2>1 DEF Select
<1>8. CASE Require
    BY <1>0, <1>8 DEF TypeOK, PlaceType, Require, InstallFailed
<1>9. CASE Commit
    BY <1>0, <1>9 DEF TypeOK, PlaceType, Commit, Works, Fails
<1>10. CASE Unavailable
    BY <1>0, <1>10 DEF TypeOK, PlaceType, Unavailable, Closing
<1>11. CASE Settle
    BY <1>0, <1>11 DEF TypeOK, PlaceType, Settle, SettledPhase
<1>12. CASE Return
    BY <1>0, <1>12 DEF TypeOK, PlaceType, Return, EnsureErr, Released
<1>13. CASE UNCHANGED vars
    BY <1>0, <1>13 DEF TypeOK, PlaceType, vars
<1> QED
    BY <1>1, <1>2, <1>3, <1>4, <1>5, <1>6, <1>7, <1>8, <1>9, <1>10, <1>11, <1>12, <1>13 DEF Next,
       Operation, Retry

\* A write that makes no version good out of none leaves the contents a power
\* loss may leave as they were, or with one more that starts.
LEMMA Written ==
    ASSUME TypeOK, ~unsynced /\ Starts(tree) => \A t \in trees : Starts(t),
           trees' \subseteq trees \cup {tree'}, Starts(tree') => Starts(tree), unsynced' = unsynced
    PROVE  ~unsynced' /\ Starts(tree') => \A t \in trees' : Starts(t)
OBVIOUS

\* A write to v that does not make it good.
LEMMA Spoilt ==
    ASSUME TypeOK, NEW v \in Versions, NEW c \in Contents, c # "good", tree' = Put(v, c)
    PROVE  /\ Starts(tree') => Starts(tree)
           /\ \A u \in Versions : u # v /\ tree[u] = "good" => tree'[u] = "good" /\ Starts(tree')
           /\ tree[v] # "good" /\ Starts(tree) => Starts(tree')
BY WriteFacts DEF TypeOK, VolumeType, Put, Starts

\* What may start survives.
LEMMA StepVolume ==
    ASSUME IInv, [Next]_vars
    PROVE  VolumeOK'
<1> USE DEF Goto, Event, Tree, IInv, VolumeOK, InstallPcs
<1>0. TypeOK
    BY DEF IInv
<1>1. CASE
        \/ AttemptBegins
        \/ AttemptEnds
        \/ WakesUp
        \/ RetrySettles
        \/ RetryBegins
        \/ Cancel
        \/ \E c \in Callers : Call(c)
        \/ \E c \in Callers : GiveUp(c)
        \/ ControlChanges
    BY <1>0, <1>1 DEF TypeOK, PlaceType, AttemptBegins, AttemptEnds, TriesAgain, WakesUp,
       RetrySettles, SettledPhase, RetryBegins, Cancel, Call, GiveUp, ControlChanges
<1>2. CASE
        \/ \E c \in Callers : Acquire(c)
        \/ CheckCustody
    BY <1>0, <1>2 DEF TypeOK, PlaceType, Acquire, CheckCustody
<1>3. CASE
        \/ Require
        \/ RequireFails
        \/ Obtain
        \/ ObtainFails
        \/ ClearFails
        \/ RenameFails
        \/ SyncFails
    BY <1>0, <1>3 DEF TypeOK, PlaceType, Require, InstallFailed, RequireFails, Obtain, Works,
       ObtainFails, Fails, ClearFails, RenameFails, SyncFails
<1>4. CASE
        \/ Mark
        \/ Unavailable
        \/ Settle
        \/ Return
    BY <1>0, <1>4 DEF TypeOK, PlaceType, Mark, MayMutateTree, Closing, Unavailable, Settle,
       SettledPhase, Return, EnsureErr, Released
<1>5. CASE Sweep
  <2>1. \A v \in Versions : tree'[v] = "good" <=> tree[v] = "good"
    BY <1>0, <1>5 DEF TypeOK, VolumeType, Sweep
  <2>2. Starts(tree') <=> Starts(tree)
    BY <2>1 DEF Starts
  <2>3. ~unsynced' /\ Starts(tree') => \A t \in trees' : Starts(t)
    BY <1>0, <1>5, <2>2, Written DEF Sweep
  <2> QED
    BY <1>0, <1>5, <2>1, <2>2, <2>3 DEF TypeOK, PlaceType, Versions, Sweep
<1>6. CASE Select
  <2>1. sel' = 0 \/ (sel' \in Versions /\ tree[sel'] = "good")
    BY <1>0, <1>6 DEF Select, Selected, Activatable
  <2> QED
    BY <1>0, <1>6, <2>1, VersionFacts DEF TypeOK, PlaceType, Select
<1>7. CASE ClearBegins
  <2>1. /\ Starts(tree') => Starts(tree)
        /\ \A u \in Versions : u # Pin /\ tree[u] = "good" => tree'[u] = "good" /\ Starts(tree')
        /\ tree'[Pin] # "good"
    BY <1>0, <1>7, Spoilt, VersionFacts, WriteFacts DEF ClearBegins, Contents
  <2>2. ~unsynced' /\ Starts(tree') => \A t \in trees' : Starts(t)
    BY <1>0, <1>7, <2>1, Written DEF ClearBegins
  <2>3. sel' = sel /\ sel # Pin /\ (sel # 0 => sel \in Versions)
    BY <1>0, <1>7 DEF TypeOK, PlaceType, Versions, ClearBegins
  <2>4. served' => served /\ Starts(tree')
    BY <1>7 DEF ClearBegins
  <2> QED
    BY <1>0, <1>7, <2>1, <2>2, <2>3, <2>4 DEF ClearBegins
<1>8. CASE Clear
  <2>1. /\ Starts(tree') => Starts(tree)
        /\ \A u \in Versions : u # Pin /\ tree[u] = "good" => tree'[u] = "good"
        /\ tree[Pin] # "good" /\ Starts(tree) => Starts(tree')
    BY <1>0, <1>8, Spoilt, VersionFacts DEF Clear, Contents
  <2>2. ~unsynced' /\ Starts(tree') => \A t \in trees' : Starts(t)
    BY <1>0, <1>8, <2>1, Written DEF Clear
  <2> QED
    BY <1>0, <1>8, <2>1, <2>2 DEF TypeOK, PlaceType, Versions, Clear
<1>9. CASE Rename
  <2>1. /\ tree'[Pin] = "good"
        /\ \A u \in Versions : u # Pin => tree'[u] = tree[u]
    BY <1>0, <1>9, WriteFacts, VersionFacts DEF Rename, Contents
  <2>2. Starts(tree')
    BY <2>1, VersionFacts DEF Starts
  <2> QED
    BY <1>0, <1>9, <2>1, <2>2 DEF TypeOK, PlaceType, Versions, Rename
<1>10. CASE Sync
    BY <1>0, <1>10 DEF TypeOK, PlaceType, Sync, Flushed
<1>11. CASE Commit
  <2>1. tree[sel] = "good" => Starts(tree)
    BY <1>0, <1>11, PlaceFacts DEF Commit, Starts
  <2> QED
    BY <1>0, <1>11, <2>1 DEF TypeOK, PlaceType, Commit
<1>12. CASE List
    BY <1>0, <1>12 DEF TypeOK, PlaceType, List, Unanswered, Kept, Victims, Predecessors,
       ProbesOut, Closing
<1>13. CASE \E v \in Versions : PruneBegins(v)
  <2> SUFFICES ASSUME NEW v \in Versions, PruneBegins(v) PROVE VolumeOK'
    BY <1>13
  <2>1. sel \in Versions /\ v # sel /\ (served => tree[sel] = "good")
    BY <1>0, PlaceFacts, VersionFacts DEF PruneBegins
  <2>2. tree' = tree \/ tree' = Put(v, "partial")
    BY DEF PruneBegins
  <2>3. /\ Starts(tree') => Starts(tree)
        /\ served => tree'[sel] = "good" /\ Starts(tree')
    BY <1>0, <2>1, <2>2, Spoilt DEF Contents
  <2>4. ~unsynced' /\ Starts(tree') => \A t \in trees' : Starts(t)
    BY <1>0, <2>3, Written DEF PruneBegins
  <2> QED
    BY <1>0, <2>1, <2>3, <2>4 DEF PruneBegins
<1>14. CASE Prune
  <2>1. /\ sel \in Versions /\ victim \in Versions /\ victim # sel
        /\ served => tree[sel] = "good"
    BY <1>0, <1>14, PlaceFacts, VersionFacts DEF Prune
  <2>2. tree' = tree \/ tree' = Put(victim, "none")
    BY <1>14 DEF Prune
  <2>3. /\ Starts(tree') => Starts(tree)
        /\ served => tree'[sel] = "good" /\ Starts(tree')
    BY <1>0, <2>1, <2>2, Spoilt DEF Contents
  <2>4. ~unsynced' /\ Starts(tree') => \A t \in trees' : Starts(t)
    BY <1>0, <1>14, <2>3, Written DEF Prune
  <2> QED
    BY <1>0, <1>14, <2>1, <2>3, <2>4 DEF Prune
<1>15. CASE PruneEnds
    BY <1>0, <1>15 DEF TypeOK, PlaceType, PruneEnds, Closing
<1>16. CASE \E v \in Versions, c \in Contents : Outside(v, c)
    BY <1>0, <1>16 DEF TypeOK, PlaceType, Outside
<1>17. CASE Restart
    BY <1>0, <1>17 DEF TypeOK, PlaceType, Restart, Fresh
<1>18. CASE PowerLoss
    BY <1>0, <1>18 DEF TypeOK, PlaceType, PowerLoss, Fresh
<1>19. CASE UNCHANGED vars
    BY <1>0, <1>19 DEF TypeOK, PlaceType, vars
<1> QED
    BY <1>1, <1>2, <1>3, <1>4, <1>5, <1>6, <1>7, <1>8, <1>9, <1>10, <1>11, <1>12, <1>13, <1>14,
       <1>15, <1>16, <1>17, <1>18, <1>19 DEF Next, Operation, Retry

LEMMA StepInv == IInv /\ [Next]_vars => IInv'
BY StepVolumeType, StepPlaceType, StepFlagType, StepCustody, StepRetry, StepPhase, StepSelection,
   StepVolume
   DEF IInv, TypeOK

\* The invariant is inductive.
THEOREM Inductive == Safe => []IInv
<1>1. IInv /\ [Next]_vars => IInv'
    BY StepInv
<1> QED
    BY InitInv, <1>1, PTL DEF Safe

\* Every variable of the manager keeps its type.
THEOREM TypeCorrect == Spec => []TypeOK
<1>1. IInv => TypeOK
    BY DEF IInv
<1> QED
    BY Inductive, <1>1, PTL DEF Spec

\* Whatever a power loss leaves, once a version served there is one that starts.
THEOREM AlwaysRecoverable == Spec => []Recoverable
<1>1. IInv => Recoverable
    BY DEF IInv, TypeOK, VolumeType, VolumeOK, Recoverable
<1> QED
    BY Inductive, <1>1, PTL DEF Spec

\* On an untrusted volume what is active was published by this process.
THEOREM OwnInstallsOnly == Spec => []OnlyOwnInstalls
<1>1. IInv => OnlyOwnInstalls
    BY DEF IInv
<1> QED
    BY Inductive, <1>1, PTL DEF Spec

\* No operation touches the volume after its last look at the custody refused.
THEOREM HandsOffAlways == Spec => HandsOff
<1>1. IInv /\ [Next]_vars => [Operation /\ <<tree, age>>' # <<tree, age>> => verdict]_vars
  <2> SUFFICES ASSUME IInv, Operation, <<tree, age>>' # <<tree, age>> PROVE verdict
    OBVIOUS
  <2>1. Sweep \/ ClearBegins \/ Clear \/ Rename \/ Mark \/ (\E v \in Versions : PruneBegins(v)) \/ Prune
    BY DEF Operation, Acquire, CheckCustody, Select, Require, RequireFails, Obtain, ObtainFails,
           ClearFails,
       RenameFails, Sync, SyncFails, Commit, List, PruneEnds, Unavailable, Settle, Return
  <2> QED
    BY <2>1 DEF IInv, CustodyOK, InstallPcs, Sweep, ClearBegins, Clear, Rename, Mark, MayMutateTree,
       PruneBegins, Prune
<1> QED
    BY Inductive, <1>1, PTL DEF Spec, Safe, HandsOff

\* A prune keeps a version that could be activated whenever it takes one.
THEOREM FallbackAlwaysKept == Spec => FallbackKept
<1>1. IInv /\ [Next]_vars => [List => \A v \in victims' : Activatable(v, {}) =>
          \E u \in Versions \ (victims' \cup {sel}) : Activatable(u, {})]_vars
  <2> SUFFICES ASSUME IInv, List, NEW v \in victims', Activatable(v, {})
               PROVE  \E u \in Versions \ (victims' \cup {sel}) : Activatable(u, {})
    OBVIOUS
  <2>1. PICK F \in ProbesOut, f \in 0 .. NumVersions : Kept(f, F) /\ victims' = Victims(f, F)
    BY DEF List
  <2>2. Role(v, F) # "prunable"
    BY DEF Role, Activatable
  <2>3. f # 0
    BY <2>1, <2>2 DEF Victims
  <2>4. f \in Predecessors /\ Role(f, F) = "fallback"
    BY <2>1, <2>3 DEF Kept
  <2>5. Activatable(f, {})
    BY <2>4 DEF Role, Activatable
  <2>6. f \notin victims'
    BY <2>1, <2>4 DEF Victims, IInv, TypeOK, VolumeType, Predecessors
  <2> QED
    BY <2>4, <2>5, <2>6 DEF Predecessors
<1> QED
    BY Inductive, <1>1, PTL DEF Spec, Safe, FallbackKept

\* A retry whose attempt ends well leaves the manager ready.
THEOREM GoodEndsReadyAlways == Spec => GoodEndsReady
<1>1. IInv /\ [Next]_vars => [Return /\ op = "retry" /\ ~failed' => Ready /\ phase = "ready"
      /\ verdict]_vars
    BY DEF IInv, CustodyOK, PhaseOK, Return, EnsureErr, Ready
<1> QED
    BY Inductive, <1>1, PTL DEF Spec, Safe, GoodEndsReady
=============================================================================
