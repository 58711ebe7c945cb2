------------------------- MODULE HousingUnitsProofs -------------------------
(***************************************************************************)
(* Theorems about HousingMatcher and HousingUnits: what photographs may do *)
(* to a verdict, for every listing, revision and reading; and what becomes *)
(* of an offer between its messages and its verdict, for any units, any    *)
(* photographs, any extractions and any bounds.                            *)
(***************************************************************************)
EXTENDS HousingUnits, FiniteSetTheorems, TLAPS

-----------------------------------------------------------------------------
(***************************************************************************)
(* Verdicts and photographs.                                               *)
(***************************************************************************)

\* The fields a merge may touch.
LEMMA MergedFields ==
    ASSUME NEW f \in Facts, NEW r \in Readings
    PROVE  /\ Merged(f, r) \in Facts
           /\ Merged(f, r).offer = f.offer
           /\ Merged(f, r).bedrooms = f.bedrooms /\ Merged(f, r).price = f.price
           /\ \/ /\ Merged(f, r).bathrooms = f.bathrooms
                 /\ Merged(f, r).bathroomsSource = f.bathroomsSource
              \/ /\ f.bathrooms = Unstated \/ Merged(f, r).bathrooms > f.bathrooms
                 /\ Merged(f, r).bathroomsSource = "vision"
           /\ \/ Merged(f, r).type = f.type /\ Merged(f, r).typeSource = f.typeSource
              \/ Merged(f, r).type = "house" /\ Merged(f, r).typeSource = "vision"
                 /\ f.typeSource # "text"
<1>1. CASE r.status # "usable"
    BY <1>1 DEF Merged
<1>2. CASE r.status = "usable"
    <2> DEFINE baths == IF CountsBetter(f, r) THEN r.bathrooms ELSE f.bathrooms
               bathsSource == IF CountsBetter(f, r) THEN "vision" ELSE f.bathroomsSource
               type == IF ShowsHouse(f, r) THEN "house" ELSE f.type
               typeSource == IF ShowsHouse(f, r) THEN "vision" ELSE f.typeSource
               terrace == f.terrace \/ r.terrace
    <2>1. Merged(f, r) = [f EXCEPT !.bathrooms = baths, !.bathroomsSource = bathsSource,
                                   !.type = type, !.typeSource = typeSource, !.terrace = terrace]
        BY <1>2 DEF Merged
    <2>2. /\ baths \in Counts /\ bathsSource \in Sources
          /\ type \in PropertyTypes \cup {"unstated"} /\ typeSource \in Sources
        BY DEF Facts, Readings, Sources, PropertyTypes
    <2>3. terrace \in BOOLEAN
        OBVIOUS
    <2>4. \/ baths = f.bathrooms /\ bathsSource = f.bathroomsSource
          \/ (f.bathrooms = Unstated \/ baths > f.bathrooms) /\ bathsSource = "vision"
        BY DEF CountsBetter
    <2>5. \/ type = f.type /\ typeSource = f.typeSource
          \/ type = "house" /\ typeSource = "vision" /\ f.typeSource # "text"
        BY DEF ShowsHouse
    <2> HIDE DEF baths, bathsSource, type, typeSource, terrace
    <2>6. Merged(f, r) \in Facts
        BY <2>1, <2>2, <2>3 DEF Facts
    <2>7. /\ Merged(f, r).offer = f.offer /\ Merged(f, r).bedrooms = f.bedrooms /\ Merged(f, r).price = f.price
          /\ Merged(f, r).bathrooms = baths /\ Merged(f, r).bathroomsSource = bathsSource
          /\ Merged(f, r).type = type /\ Merged(f, r).typeSource = typeSource
        BY <2>1 DEF Facts
    <2>8. QED
        BY <2>4, <2>5, <2>6, <2>7
<1>3. QED
    BY <1>1, <1>2

\* A criterion that is refuted after the photographs was refuted by the text.
LEMMA PhotographRefutesNothing ==
    ASSUME NEW f \in Facts, NEW q \in Definitions, NEW r \in Readings, NEW c \in Criteria,
           Violates(Merged(f, r), q, c)
    PROVE  Violates(f, q, c)
<1> DEFINE m == Merged(f, r)
<1>1. CASE c = "bedrooms" \/ c = "rent"
    BY <1>1, MergedFields DEF Violates
<1>2. CASE c = "bathrooms"
    BY <1>2, MergedFields DEF Violates
<1>3. CASE c = "type"
    BY <1>3, MergedFields DEF Violates
<1>4. QED
    BY <1>1, <1>2, <1>3 DEF Criteria

\* VisionReading.merged_into and match_requirements: photographs never turn a
\* listing the text admits into a rejection; a partial view is no evidence that
\* something is missing.
THEOREM PhotographNeverRejects ==
    ASSUME NEW f \in Facts, NEW q \in Definitions, NEW r \in Readings,
           Judge(Merged(f, r), q) = "hard_miss"
    PROVE  Judge(f, q) = "hard_miss"
<1>1. PICK c \in Criteria : Asked(q, c) /\ Violates(Merged(f, r), q, c)
    BY DEF Judge
<1>2. Violates(f, q, c)
    BY <1>1, PhotographRefutesNothing
<1>3. QED
    BY <1>1, <1>2 DEF Judge

\* What a text states is never replaced by what a photograph shows.
THEOREM TextIsKept ==
    ASSUME NEW f \in Facts, NEW r \in Readings
    PROVE  /\ f.bathroomsSource = "text" => Merged(f, r).bathrooms = f.bathrooms
           /\ f.typeSource = "text" => Merged(f, r).type = f.type
<1>1. CASE r.status # "usable"
    BY <1>1 DEF Merged
<1>2. CASE r.status = "usable"
    BY <1>2 DEF Merged, CountsBetter, ShowsHouse, Facts
<1>3. QED
    BY <1>1, <1>2

\* A confirmed listing stays confirmed through its photographs, if its type came
\* from its text or is the one a photograph can show.
THEOREM PhotographKeepsConfirmed ==
    ASSUME NEW f \in Facts, NEW q \in Definitions, NEW r \in Readings,
           f.typeSource = "text" \/ f.type \in {"house", "unstated"},
           Judge(f, q) = "confirmed"
    PROVE  Judge(Merged(f, r), q) = "confirmed"
<1> DEFINE m == Merged(f, r)
<1>1. \A c \in Criteria : Asked(q, c) => Satisfies(f, q, c)
    BY DEF Judge
<1>2. ASSUME NEW c \in Criteria, Asked(q, c)
      PROVE  Satisfies(m, q, c)
    <2>1. Satisfies(f, q, c) /\ ~Violates(f, q, c)
        BY <1>1, <1>2 DEF Satisfies
    <2>2. ~Violates(m, q, c)
        BY <2>1, PhotographRefutesNothing
    <2>3. CASE c = "bedrooms" \/ c = "rent"
        BY <2>1, <2>2, <2>3, MergedFields DEF Satisfies
    <2>4. CASE c = "bathrooms"
        <3>1. f.bathrooms # Unstated /\ f.bathrooms >= q.bathrooms /\ f.bathrooms \in Nat
            BY <2>1, <2>4 DEF Satisfies, Facts, Counts
        <3>2. m.bathrooms \in Counts /\ q.bathrooms \in Counts
            BY MergedFields DEF Facts, Definitions
        <3>3. m.bathrooms = f.bathrooms \/ m.bathrooms > f.bathrooms
            BY <3>1, MergedFields
        <3>4. QED
            BY <2>2, <2>4, <3>1, <3>2, <3>3 DEF Satisfies, Counts, Unstated
    <2>5. CASE c = "type"
        <3>1. f.type = q.type
            BY <2>1, <2>5 DEF Satisfies
        <3>2. f.type # "unstated"
            BY <1>2, <2>5, <3>1 DEF Asked
        <3>3. m.type = f.type
            BY <3>2, MergedFields
        <3>4. QED
            BY <2>2, <2>5, <3>1, <3>3 DEF Satisfies
    <2>6. QED
        BY <2>3, <2>4, <2>5 DEF Criteria
<1>3. ~\E c \in Criteria : Asked(q, c) /\ Violates(m, q, c)
    BY <1>2 DEF Satisfies
<1>4. QED
    BY <1>2, <1>3 DEF Judge

-----------------------------------------------------------------------------
(***************************************************************************)
(* The inductive invariant of HousingUnits.                                *)
(***************************************************************************)

\* The worker is at a unit of its batch, or at one of its sweep.
AtUnit == {"extracting", "extracted", "matching", "judging", "photographs", "finishing"}
Extracted == AtUnit \ {"extracting"}
Sweeping == {"sweeping", "weighing"}
\* The worker works under the revision it has read.
UnderRevision == {"judging", "photographs", "finishing", "listing", "sweeping", "weighing"}

WorkerRecords ==
    [pc : AtUnit \cup Sweeping \cup {"idle", "next", "rematching", "listing"},
     batch : SUBSET Units, claimed : [Units -> [text : BOOLEAN, photo : BOOLEAN]],
     at : Units \cup {NoUnit}, row : Facts \cup {NoFacts},
     revision : 0..MaxRevisions, generation : 0..MaxRevisions, todo : SUBSET Units,
     found : [Units -> Verdicts \cup {"none"}], upgraded : SUBSET Units]

VisionRecords ==
    [pc : {"idle", "next", "previous", "reading", "matching", "judging", "finalizing", "failing"},
     todo : SUBSET Units, at : Units \cup {NoUnit}, row : Facts \cup {NoFacts},
     previous : Verdicts \cup {"none"}, final : {"done", "error"}, revision : 0..MaxRevisions]

Types ==
    /\ UnitsTypeOK
    /\ worker \in WorkerRecords
    /\ vision \in VisionRecords
    /\ listed \in SUBSET Units
    /\ judgedOn \in [Units -> SUBSET Facts]

\* A unit is swept as soon as it leaves assembly, and only then.
Fresh(u) == unit[u].state \in {"absent", "assembling"}
SweptOnceClaimed == \A u \in Units : Fresh(u) <=> unit[u].sweeps = 0

\* What the worker is at.
WorkerIsAtWork ==
    /\ worker.pc \in AtUnit => worker.at \in worker.batch
    /\ worker.pc = "weighing" => worker.at \in worker.todo
    /\ worker.pc \notin AtUnit \cup Sweeping => worker.at = NoUnit
    /\ worker.pc \notin AtUnit \cup {"next"} => worker.batch = {}
    /\ worker.pc \notin Sweeping =>
        worker.found = [u \in Units |-> "none"] /\ worker.upgraded = {} /\ worker.todo = {}
    /\ \A u \in worker.batch : ~Fresh(u) /\ unit[u].state # "done"
    /\ \A u \in worker.todo : facts[u] # NoFacts
    /\ worker.pc \in Extracted \cup {"weighing"} => worker.row # NoFacts
    /\ worker.pc \in Extracted \ {"extracted"} => worker.row.offer = "yes"

\* Only the reader of photographs writes behind the worker's back, and only once
\* they are on disk.
RowIsStored ==
    worker.pc \in Extracted \cup {"weighing"} /\ media[worker.at].status # "downloaded" =>
        facts[worker.at] = worker.row

\* An offer has a text, and whoever claimed it knows.
OfferHasText ==
    \A u \in Units :
        /\ worker.claimed[u].text => unit[u].text
        /\ media[u].status # "downloaded" /\ facts[u].offer = "yes" =>
            unit[u].text /\ (u \in worker.batch => worker.claimed[u].text)

\* Every save takes a revision and a generation; what was judged or told was so
\* under a revision that exists, and what the worker does is under the last one
\* or will be done again.
RevisionsInOrder ==
    /\ req.generation = req.revision /\ req.rematched <= req.generation
    /\ \A r \in digests : r <= req.revision
    /\ \A u \in Units, r \in Revisions : match[u][r] # "none" => r <= req.revision
    /\ worker.pc = "rematching" => worker.generation <= req.generation
    /\ worker.pc \in UnderRevision =>
        /\ worker.revision \in 1..req.revision
        /\ \A r \in digests : r <= worker.revision
    /\ worker.pc \in {"judging", "photographs", "finishing"} =>
        worker.revision = req.revision \/ Pending
    /\ worker.pc \in {"listing", "sweeping", "weighing"} => worker.generation <= worker.revision
    /\ vision.pc = "judging" => vision.revision \in 1..req.revision

\* Photographs are asked for an offer the owner was told of.
PhotographsAreOfTold ==
    \A u \in Units : media[u].status # "absent" =>
        /\ Told(u) /\ facts[u] # NoFacts /\ req.revision # 0 /\ ~Fresh(u)
        /\ unit[u].sweeps = 1 =>
            /\ facts[u].offer = "yes"
            /\ u \in worker.batch => worker.at = u /\ worker.pc = "finishing"

VisionIsAtWork ==
    /\ \A u \in vision.todo : media[u].status = "downloaded"
    /\ vision.pc \notin {"idle", "next"} =>
        /\ vision.at \in vision.todo
        /\ vision.row # NoFacts
        /\ unit[vision.at].sweeps = 1 => vision.row.offer = "yes"
    /\ vision.pc = "finalizing" => Content(vision.row) \in judgedOn[vision.at]

\* The latest verdict of a unit is a rejection.
NoneAfter(u, r) == \A s \in Revisions : match[u][s] # "none" => s <= r
Rejected(u) == \E r \in Revisions : match[u][r] = "hard_miss" /\ NoneAfter(u, r)

\* Nothing is left to tell: a digest that was queued lists the unit, or the
\* revision of the digest rejects it.
NothingToTell(u) ==
    \/ Told(u)
    \/ facts[u].offer # "yes"
    \/ /\ Rejected(u)
       /\ \A r \in digests : NoneAfter(u, r) => Judge(facts[u], req.saved[r]) = "hard_miss"

DoneIsTold ==
    /\ \A u \in Units : unit[u].state = "done" => NothingToTell(u)
    /\ worker.pc = "photographs" => Told(worker.at)
    /\ worker.pc = "finishing" => NothingToTell(worker.at)

\* For an offer nobody was told of, the worker alone judges.
WorkerJudges ==
    worker.pc \in UnderRevision =>
        \A u \in Units : Told(u) \/ NoneAfter(u, worker.revision)

Archived(u) ==
    /\ unit[u].state = "done"
    /\ facts[u].offer = "yes"
    /\ media[u].status = "downloaded" => unit[u].sweeps = 1

\* A sweep misses no archived offer, and lists what it upgrades.
SweepIsWhole ==
    worker.pc \in Sweeping =>
        \A u \in Units : Archived(u) =>
            /\ u \in worker.todo \/ worker.found[u] # "none"
            /\ worker.found[u] # "none" /\ ~Told(u) =>
                /\ worker.found[u] = Judge(facts[u], req.saved[worker.revision])
                /\ Admits(worker.found[u]) => u \in worker.upgraded

FinishedIsJudged ==
    worker.pc \in {"photographs", "finishing"} => match[worker.at][worker.revision] # "none"

UnitsInv ==
    /\ Types /\ SweptOnceClaimed /\ WorkerIsAtWork /\ RowIsStored /\ OfferHasText
    /\ RevisionsInOrder /\ PhotographsAreOfTold /\ VisionIsAtWork /\ DoneIsTold /\ WorkerJudges
    /\ SweepIsWhole /\ FinishedIsJudged /\ ArchiveIsRejudged /\ VisionDoneIsJudged

-----------------------------------------------------------------------------
(***************************************************************************)
(* Facts, verdicts and what was told.                                      *)
(***************************************************************************)

LEMMA FactsRecorded ==
    ASSUME NEW f \in Facts, NEW s \in VisionStates
    PROVE  /\ [f EXCEPT !.vision = s] \in Facts
           /\ [f EXCEPT !.vision = s].offer = f.offer
           /\ [f EXCEPT !.vision = s].vision = s
           /\ Content([f EXCEPT !.vision = s]) = Content(f)
           /\ Content(f) \in Facts
<1>1. "not_attempted" \in VisionStates
    BY DEF VisionStates
<1>2. QED
    BY <1>1 DEF Facts, Content

LEMMA UnreadIsNotAbsent ==
    /\ Unread \in Facts /\ Unread.offer = "unread" /\ Unread.vision = "not_attempted"
    /\ NoFacts \notin Facts /\ NoFacts.offer = "unread" /\ NoFacts.vision = "absent"
BY DEF Unread, NoFacts, Facts, Unstated, Counts, PropertyTypes, Sources, VisionStates

LEMMA JudgeTyped ==
    ASSUME NEW f, NEW q
    PROVE  Judge(f, q) \in Verdicts
BY DEF Judge, Verdicts

\* What was told stays told.
LEMMA ToldKept ==
    ASSUME NEW u, Told(u), alerts \subseteq alerts', listed \subseteq listed'
    PROVE  Told(u)'
BY DEF Told

LEMMA NothingToTellKept ==
    ASSUME NEW u, NothingToTell(u), Told(u) \/ (facts'[u] = facts[u] /\ match'[u] = match[u]),
           digests' = digests, \A r \in digests : req'.saved[r] = req.saved[r],
           alerts \subseteq alerts', listed \subseteq listed'
    PROVE  NothingToTell(u)'
<1>1. CASE Told(u)
    BY <1>1, ToldKept DEF NothingToTell
<1>2. CASE ~Told(u)
    <2>1. facts'[u] = facts[u] /\ match'[u] = match[u]
        BY <1>2
    <2>2. Rejected(u) <=> Rejected(u)'
        BY <2>1 DEF Rejected, NoneAfter
    <2>3. \A r : NoneAfter(u, r) <=> NoneAfter(u, r)'
        BY <2>1 DEF NoneAfter
    <2>4. QED
        BY <1>2, <2>1, <2>2, <2>3 DEF NothingToTell
<1>3. QED
    BY <1>1, <1>2

\* A unit that was judged was judged at a highest revision.
LEMMA LatestExists ==
    ASSUME NEW S \in SUBSET Revisions, S # {}
    PROVE  \E r \in S : \A s \in S : s <= r
<1> DEFINE R == StrictSubsetOrdering(Revisions)
           T == {r..MaxRevisions : r \in S}
<1>1. IsFiniteSet(Revisions)
    BY UnitConstants, FS_Interval DEF Revisions
<1>2. FiniteSubsetsOf(Revisions) = SUBSET Revisions
    BY <1>1, FS_FiniteSubsetsOfFinite
<1>3. IsWellFoundedOn(R, SUBSET Revisions)
    BY <1>2, FS_StrictSubsetOrderingWellFounded
<1>4. ASSUME NEW r \in S
      PROVE  r..MaxRevisions \in SUBSET Revisions
    <2>1. r \in 1..MaxRevisions
        BY DEF Revisions
    <2>2. \A n \in r..MaxRevisions : n \in 1..MaxRevisions
        BY <2>1, UnitConstants
    <2>3. QED
        BY <2>2 DEF Revisions
<1>5. T \subseteq SUBSET Revisions /\ T # {}
    BY <1>4
<1>6. \E x \in T : \A y \in T : ~(<<y, x>> \in R)
    <2> HIDE DEF R, T
    <2>1. QED
        BY <1>3, <1>5, WFMin
<1>7. PICK r \in S : \A s \in S : ~(<<s..MaxRevisions, r..MaxRevisions>> \in R)
    BY <1>6
<1>8. ASSUME NEW s \in S, ~(s <= r)
      PROVE  FALSE
    <2>1. r \in 1..MaxRevisions /\ s \in 1..MaxRevisions /\ r < s
        BY <1>8, UnitConstants DEF Revisions
    <2>2. s..MaxRevisions \subseteq r..MaxRevisions /\ r \in r..MaxRevisions /\ r \notin s..MaxRevisions
        BY <2>1, UnitConstants
    <2>3. s..MaxRevisions \in SUBSET Revisions /\ r..MaxRevisions \in SUBSET Revisions
        BY <1>4
    <2>4. s..MaxRevisions # r..MaxRevisions
        BY <2>2
    <2>5. PICK a, b : a = s..MaxRevisions /\ b = r..MaxRevisions
        OBVIOUS
    <2>6. <<a, b>> \in R
        BY <2>2, <2>3, <2>4, <2>5 DEF StrictSubsetOrdering
    <2>7. QED
        BY <1>7, <2>5, <2>6
<1>9. QED
    BY <1>8

LEMMA LatestTyped ==
    ASSUME Types, NEW u \in Units
    PROVE  LatestMatch(u) \in Verdicts \cup {"none"}
<1> DEFINE judged == {r \in Revisions : match[u][r] # "none"}
<1>1. CASE judged = {}
    BY <1>1 DEF LatestMatch
<1>2. CASE judged # {}
    <2>1. \E r \in judged : \A s \in judged : s <= r
        BY <1>2, LatestExists
    <2>2. (CHOOSE r \in judged : \A s \in judged : s <= r) \in Revisions
        BY <2>1
    <2>3. PICK r \in Revisions : r = CHOOSE x \in judged : \A s \in judged : s <= x
        BY <2>2
    <2>4. LatestMatch(u) = match[u][r]
        BY <1>2, <2>3 DEF LatestMatch
    <2>5. match[u] \in [Revisions -> Verdicts \cup {"none"}]
        BY DEF Types, UnitsTypeOK
    <2>6. QED
        BY <2>4, <2>5
<1>3. QED
    BY <1>1, <1>2

\* The verdict of the highest revision, where there is one.
LEMMA RejectedIsLatest ==
    ASSUME Types, NEW u \in Units, Rejected(u)
    PROVE  LatestMatch(u) = "hard_miss"
<1> DEFINE judged == {r \in Revisions : match[u][r] # "none"}
<1>1. PICK r \in Revisions : match[u][r] = "hard_miss" /\ NoneAfter(u, r)
    BY DEF Rejected
<1>2. r \in judged /\ \A s \in judged : s <= r
    BY <1>1 DEF NoneAfter
<1>3. \A s \in judged : (\A t \in judged : t <= s) => s = r
    BY <1>1, <1>2 DEF Revisions
<1>4. (CHOOSE s \in judged : \A t \in judged : t <= s) = r
    BY <1>2, <1>3
<1>5. judged # {}
    BY <1>2
<1>6. QED
    BY <1>1, <1>4, <1>5 DEF LatestMatch

-----------------------------------------------------------------------------
(***************************************************************************)
(* Members, edits and downloads.                                           *)
(***************************************************************************)

LEMMA SettleMediaKeeps ==
    ASSUME UnitsInv, NEW u \in Units, NEW outcome \in Outcomes, SettleMedia(u, outcome)
    PROVE  UnitsInv'
<1> USE DEF UnitsInv
<1>1. /\ media[u].status = "pending"
      /\ UNCHANGED <<unit, facts, match, alerts, digests, req, worker, vision, history, troubles>>
    BY DEF SettleMedia
<1>2. PICK s \in {"pending", "downloaded", "failed", "failed_gone"}, n \in 0..MaxAttempts :
        media' = [media EXCEPT ![u] = [status |-> s, attempts |-> n]]
    <2>1. media[u].attempts \in 0..MaxAttempts
        BY DEF Types, UnitsTypeOK
    <2>2. Counted(media[u].attempts) \in 0..MaxAttempts
        BY <2>1, UnitConstants DEF Counted
    <2>3. AfterFailure(media[u].attempts) \in {"pending", "failed"}
        BY DEF AfterFailure
    <2>4. (CASE outcome = "refused" -> "pending"
             [] outcome = "failed" -> AfterFailure(media[u].attempts)
             [] outcome = "gone" -> "failed_gone"
             [] outcome = "oversized" -> "failed"
             [] outcome = "saved" -> "downloaded") \in {"pending", "downloaded", "failed", "failed_gone"}
        BY <2>3 DEF Outcomes
    <2>5. QED
        BY <2>2, <2>4 DEF SettleMedia
<1>3. /\ media' \in [Units -> [status : {"absent", "pending", "downloaded", "failed", "failed_gone"},
                              attempts : 0..MaxAttempts]]
      /\ \A v \in Units : (media[v].status = "absent" <=> media'[v].status = "absent")
                          /\ (media[v].status = "downloaded" => media'[v].status = "downloaded")
    BY <1>1, <1>2 DEF Types, UnitsTypeOK
<1>4. Types'
    BY <1>1, <1>3 DEF Types, UnitsTypeOK, history
<1>5. SweptOnceClaimed' /\ WorkerIsAtWork' /\ RevisionsInOrder' /\ FinishedIsJudged'
    BY <1>1 DEF SweptOnceClaimed, Fresh, WorkerIsAtWork, RevisionsInOrder, Pending, FinishedIsJudged
<1>6. RowIsStored'
    <2>1. worker.pc \in Extracted \cup {"weighing"} => worker.at \in Units
        BY DEF WorkerIsAtWork, Types, WorkerRecords, Extracted, AtUnit
    <2>2. QED
        BY <1>1, <1>3, <2>1 DEF RowIsStored
<1>7. OfferHasText'
    BY <1>1, <1>3 DEF OfferHasText
<1>8. \A v : Told(v) <=> Told(v)'
    BY <1>1 DEF Told, history
<1>9. PhotographsAreOfTold'
    BY <1>1, <1>3, <1>8 DEF PhotographsAreOfTold, Fresh
<1>10. VisionIsAtWork'
    <2>1. vision.todo \in SUBSET Units
        BY DEF Types, VisionRecords
    <2>2. QED
        BY <1>1, <1>3, <2>1 DEF VisionIsAtWork, history
<1>11. DoneIsTold' /\ WorkerJudges'
    BY <1>1, <1>8 DEF DoneIsTold, NothingToTell, Rejected, NoneAfter, WorkerJudges
<1>12. \A v \in Units : Archived(v)' => Archived(v)
    BY <1>1, <1>3 DEF Archived
<1>13. SweepIsWhole'
    BY <1>1, <1>8, <1>12 DEF SweepIsWhole
<1>14. ArchiveIsRejudged'
    BY <1>1, <1>3 DEF ArchiveIsRejudged, Pending
<1>15. VisionDoneIsJudged'
    BY <1>1 DEF VisionDoneIsJudged, history
<1>16. QED
    BY <1>4, <1>5, <1>6, <1>7, <1>9, <1>10, <1>11, <1>13, <1>14, <1>15

LEMMA RecordMessageKeeps ==
    ASSUME UnitsInv, NEW u \in Units, NEW member \in Members, RecordMessage(u, member)
    PROVE  UnitsInv'
<1> USE DEF UnitsInv
<1>1. UNCHANGED <<facts, match, alerts, digests, media, req, worker, vision, history, troubles>>
    BY DEF RecordMessage
<1>2. PICK s \in UnitStates, t \in BOOLEAN, p \in BOOLEAN :
        /\ unit' = [unit EXCEPT ![u].state = s, ![u].text = t, ![u].photo = p]
        /\ s = IF unit[u].state = "absent" THEN "assembling" ELSE unit[u].state
        /\ unit[u].text => t
    <2>1. unit[u].state \in UnitStates /\ unit[u].text \in BOOLEAN /\ unit[u].photo \in BOOLEAN
        BY DEF Types, UnitsTypeOK
    <2>2. (IF unit[u].state = "absent" THEN "assembling" ELSE unit[u].state) \in UnitStates
        BY <2>1 DEF UnitStates
    <2>3. PICK s \in UnitStates :
            s = IF unit[u].state = "absent" THEN "assembling" ELSE unit[u].state
        BY <2>2
    <2>4. PICK t \in BOOLEAN : t <=> (unit[u].text \/ member = "caption")
        BY Zenon
    <2>5. PICK p \in BOOLEAN : p <=> (unit[u].photo \/ member = "photo")
        BY Zenon
    <2>6. t = (unit[u].text \/ member = "caption") /\ p = (unit[u].photo \/ member = "photo")
        BY <2>4, <2>5, Zenon
    <2>7. unit' = [unit EXCEPT ![u].state = s, ![u].text = t, ![u].photo = p]
        BY <2>3, <2>6 DEF RecordMessage
    <2>8. QED
        BY <2>3, <2>4, <2>7
<1>3. /\ unit' \in [Units -> [state : UnitStates, text : BOOLEAN, photo : BOOLEAN,
                             sweeps : 0..MaxSweeps]]
      /\ \A v \in Units :
            /\ unit'[v].sweeps = unit[v].sweeps
            /\ unit[v].text => unit'[v].text
            /\ Fresh(v) <=> Fresh(v)'
            /\ unit'[v].state = "done" <=> unit[v].state = "done"
    <2>1. /\ unit \in [Units -> [state : UnitStates, text : BOOLEAN, photo : BOOLEAN,
                                sweeps : 0..MaxSweeps]]
          /\ unit[u] \in [state : UnitStates, text : BOOLEAN, photo : BOOLEAN,
                          sweeps : 0..MaxSweeps]
        BY DEF Types, UnitsTypeOK
    <2>3. unit' \in [Units -> [state : UnitStates, text : BOOLEAN, photo : BOOLEAN,
                              sweeps : 0..MaxSweeps]]
        BY <1>2, <2>1
    <2>4. /\ unit'[u].sweeps = unit[u].sweeps /\ unit'[u].text = t /\ unit'[u].state = s
          /\ \A v \in Units \ {u} : unit'[v] = unit[v]
        BY <1>2, <2>1
    <2>5. Fresh(u) <=> Fresh(u)'
        BY <1>2, <2>4 DEF Fresh
    <2>6. \A v \in Units \ {u} : Fresh(v) <=> Fresh(v)'
        BY <2>4 DEF Fresh
    <2>7. unit'[u].state = "done" <=> unit[u].state = "done"
        BY <1>2, <2>4
    <2>8. unit[u].text => unit'[u].text
        BY <1>2, <2>4, Zenon
    <2>9. QED
        BY <2>3, <2>4, <2>5, <2>6, <2>7, <2>8
<1>4. Types'
    BY <1>1, <1>3 DEF Types, UnitsTypeOK, history
<1>5. SweptOnceClaimed'
    BY <1>1, <1>3 DEF SweptOnceClaimed
<1>6. WorkerIsAtWork'
    <2>1. worker.batch \in SUBSET Units
        BY DEF Types, WorkerRecords
    <2>2. QED
        BY <1>1, <1>3, <2>1 DEF WorkerIsAtWork
<1>7. RowIsStored' /\ RevisionsInOrder' /\ FinishedIsJudged'
    BY <1>1 DEF RowIsStored, RevisionsInOrder, Pending, FinishedIsJudged
<1>8. OfferHasText'
    BY <1>1, <1>3 DEF OfferHasText
<1>9. \A v : Told(v) <=> Told(v)'
    BY <1>1 DEF Told, history
<1>10. PhotographsAreOfTold'
    BY <1>1, <1>3, <1>9 DEF PhotographsAreOfTold
<1>11. VisionIsAtWork'
    <2>1. vision.todo \in SUBSET Units
        BY DEF Types, VisionRecords
    <2>2. QED
        BY <1>1, <1>3, <2>1 DEF VisionIsAtWork, history
<1>12. DoneIsTold' /\ WorkerJudges'
    BY <1>1, <1>3, <1>9 DEF DoneIsTold, NothingToTell, Rejected, NoneAfter, WorkerJudges
<1>13. \A v \in Units : Archived(v)' => Archived(v)
    BY <1>1, <1>3 DEF Archived
<1>14. SweepIsWhole'
    BY <1>1, <1>9, <1>13 DEF SweepIsWhole
<1>15. ArchiveIsRejudged'
    BY <1>1, <1>3 DEF ArchiveIsRejudged, Pending
<1>16. VisionDoneIsJudged'
    BY <1>1 DEF VisionDoneIsJudged, history
<1>17. QED
    BY <1>4, <1>5, <1>6, <1>7, <1>8, <1>10, <1>11, <1>12, <1>14, <1>15, <1>16

\* A save leaves what it follows alone, and makes the archive wait for a sweep.
LEMMA SavedKeeps ==
    ASSUME UnitsInv, NEW d \in Definitions, req.revision < MaxRevisions
    PROVE  /\ Saved(d) \in [revision : 0..MaxRevisions, generation : 0..MaxRevisions,
                            rematched : 0..MaxRevisions, saved : [Revisions -> Definitions]]
           /\ Saved(d).revision = req.revision + 1 /\ Saved(d).generation = req.generation + 1
           /\ Saved(d).rematched = req.rematched
           /\ \A r \in 1..req.revision : Saved(d).saved[r] = req.saved[r]
<1>1. /\ req.revision \in 0..MaxRevisions /\ req.generation = req.revision
      /\ req.rematched \in 0..MaxRevisions /\ req.saved \in [Revisions -> Definitions]
    BY DEF UnitsInv, Types, UnitsTypeOK, RevisionsInOrder
<1>2. PICK n \in 0..MaxRevisions : n = req.revision + 1
    BY <1>1, UnitConstants
<1>3. PICK s \in [Revisions -> Definitions] : s = [req.saved EXCEPT ![req.revision + 1] = d]
    BY <1>1
<1>4. Saved(d) = [revision |-> n, generation |-> n, rematched |-> req.rematched, saved |-> s]
    BY <1>1, <1>2, <1>3 DEF Saved
<1>5. \A r \in 1..req.revision : s[r] = req.saved[r]
    BY <1>1, <1>3, UnitConstants DEF Revisions
<1>6. QED
    BY <1>1, <1>2, <1>4, <1>5

\* The revisions in force before a save are those after it.
LEMMA RequirementsKeep ==
    ASSUME UnitsInv, NEW d \in Definitions, req.revision < MaxRevisions, req' = Saved(d),
           UNCHANGED <<unit, facts, match, alerts, digests, media, vision, history>>
    PROVE  /\ req' \in [revision : 0..MaxRevisions, generation : 0..MaxRevisions,
                        rematched : 0..MaxRevisions, saved : [Revisions -> Definitions]]
           /\ req'.generation = req'.revision /\ req'.rematched # req'.generation
           /\ req'.revision = req.revision + 1 /\ req'.rematched <= req'.generation
           /\ \A r \in 1..req.revision : req'.saved[r] = req.saved[r]
           /\ \A u \in Units : NothingToTell(u) => NothingToTell(u)'
           /\ \A u : Told(u) <=> Told(u)'
<1> USE DEF UnitsInv
<1>1. /\ req' \in [revision : 0..MaxRevisions, generation : 0..MaxRevisions,
                   rematched : 0..MaxRevisions, saved : [Revisions -> Definitions]]
      /\ req'.revision = req.revision + 1 /\ req'.generation = req.generation + 1
      /\ req'.rematched = req.rematched
      /\ \A r \in 1..req.revision : req'.saved[r] = req.saved[r]
    BY SavedKeeps
<1>2. /\ req.generation = req.revision /\ req.rematched <= req.generation
      /\ req.revision \in Nat /\ req.rematched \in Nat
    BY DEF RevisionsInOrder, Types, UnitsTypeOK
<1>3. \A r \in digests : r \in 1..req.revision
    BY <1>2 DEF RevisionsInOrder, Types, UnitsTypeOK, Revisions
<1>4. \A u \in Units : NothingToTell(u) => NothingToTell(u)'
    BY <1>1, <1>3, NothingToTellKept DEF history
<1>5. \A u : Told(u) <=> Told(u)'
    BY DEF Told, history
<1>6. QED
    BY <1>1, <1>2, <1>4, <1>5

LEMMA EditRequirementsKeeps ==
    ASSUME UnitsInv, NEW d \in Edits, NEW expected \in 0..MaxRevisions,
           EditRequirements(d, expected)
    PROVE  UnitsInv'
<1> USE DEF UnitsInv
<1>1. /\ req.revision < MaxRevisions /\ req' = Saved(d) /\ d \in Definitions
      /\ UNCHANGED <<unit, facts, match, alerts, digests, media, worker, vision, history, troubles>>
    BY UnitConstants DEF EditRequirements
<1>2. /\ req' \in [revision : 0..MaxRevisions, generation : 0..MaxRevisions,
                   rematched : 0..MaxRevisions, saved : [Revisions -> Definitions]]
      /\ req'.generation = req'.revision /\ req'.rematched # req'.generation
      /\ req'.revision = req.revision + 1 /\ req'.rematched <= req'.generation
      /\ \A r \in 1..req.revision : req'.saved[r] = req.saved[r]
      /\ \A u \in Units : NothingToTell(u) => NothingToTell(u)'
      /\ \A u : Told(u) <=> Told(u)'
    BY <1>1, RequirementsKeep
<1>3. req.revision \in Nat /\ req.generation = req.revision /\ worker.at \in Units \cup {NoUnit}
      /\ worker.revision \in Nat /\ worker.generation \in Nat /\ vision.revision \in Nat
    BY DEF Types, UnitsTypeOK, RevisionsInOrder, WorkerRecords, VisionRecords
<1>4. Types'
    BY <1>1, <1>2 DEF Types, UnitsTypeOK, history
<1>5. SweptOnceClaimed' /\ WorkerIsAtWork' /\ RowIsStored' /\ OfferHasText' /\ FinishedIsJudged'
    BY <1>1 DEF SweptOnceClaimed, Fresh, WorkerIsAtWork, RowIsStored, OfferHasText, FinishedIsJudged
<1>6. RevisionsInOrder'
    <2>1. \A r \in digests : r <= req'.revision
        BY <1>2, <1>3 DEF RevisionsInOrder, Types, UnitsTypeOK, Revisions
    <2>2. \A u \in Units, r \in Revisions : match[u][r] # "none" => r <= req'.revision
        BY <1>2, <1>3 DEF RevisionsInOrder, Revisions
    <2>3. worker.pc = "rematching" => worker.generation <= req'.generation
        BY <1>2, <1>3 DEF RevisionsInOrder
    <2>4. worker.pc \in UnderRevision => worker.revision \in 1..req'.revision
        BY <1>2, <1>3 DEF RevisionsInOrder
    <2>5. vision.pc = "judging" => vision.revision \in 1..req'.revision
        BY <1>2, <1>3 DEF RevisionsInOrder
    <2>6. QED
        BY <1>1, <1>2, <2>1, <2>2, <2>3, <2>4, <2>5 DEF RevisionsInOrder, Pending
<1>7. PhotographsAreOfTold' /\ VisionIsAtWork' /\ VisionDoneIsJudged'
    BY <1>1, <1>2, <1>3 DEF PhotographsAreOfTold, Fresh, VisionIsAtWork, VisionDoneIsJudged, history
<1>8. DoneIsTold'
    <2>1. worker.pc = "finishing" => worker.at \in Units
        BY DEF WorkerIsAtWork, Types, WorkerRecords, AtUnit
    <2>2. QED
        BY <1>1, <1>2, <2>1 DEF DoneIsTold
<1>9. WorkerJudges'
    BY <1>1, <1>2 DEF WorkerJudges, NoneAfter
<1>10. SweepIsWhole'
    <2>1. worker.pc \in Sweeping => req'.saved[worker.revision] = req.saved[worker.revision]
        BY <1>2 DEF RevisionsInOrder, Sweeping, UnderRevision
    <2>2. QED
        BY <1>1, <1>2, <2>1 DEF SweepIsWhole, Archived
<1>11. ArchiveIsRejudged'
    BY <1>2 DEF ArchiveIsRejudged, Pending
<1>12. QED
    BY <1>4, <1>5, <1>6, <1>7, <1>8, <1>9, <1>10, <1>11

-----------------------------------------------------------------------------
(***************************************************************************)
(* The reader of photographs.                                              *)
(***************************************************************************)

\* A step of the reader's own memory.
LEMMA VisionMemoryKeeps ==
    ASSUME UnitsInv, vision' \in VisionRecords, VisionIsAtWork',
           vision'.pc = "judging" => vision'.revision \in 1..req.revision,
           UNCHANGED <<tables, worker, history>>
    PROVE  UnitsInv'
<1> USE DEF UnitsInv
<1>1. Types'
    BY DEF Types, UnitsTypeOK, history, tables
<1>2. SweptOnceClaimed' /\ WorkerIsAtWork' /\ RowIsStored' /\ OfferHasText' /\ FinishedIsJudged'
    BY DEF SweptOnceClaimed, Fresh, WorkerIsAtWork, RowIsStored, OfferHasText, FinishedIsJudged,
        tables
<1>3. RevisionsInOrder'
    BY DEF RevisionsInOrder, Pending, tables
<1>4. PhotographsAreOfTold' /\ VisionDoneIsJudged'
    BY DEF PhotographsAreOfTold, Fresh, Told, VisionDoneIsJudged, history, tables
<1>5. DoneIsTold' /\ WorkerJudges'
    BY DEF DoneIsTold, NothingToTell, Told, Rejected, NoneAfter, WorkerJudges, history, tables
<1>6. SweepIsWhole' /\ ArchiveIsRejudged'
    BY DEF SweepIsWhole, Archived, Told, ArchiveIsRejudged, Pending, history, tables
<1>7. QED
    BY <1>1, <1>2, <1>3, <1>4, <1>5, <1>6

\* What the reader writes to the facts is of a told unit, and stays an offer.
LEMMA VisionWritesKeep ==
    ASSUME UnitsInv, vision' \in VisionRecords, VisionIsAtWork', vision'.pc # "judging",
           NEW u \in Units, media[u].status = "downloaded",
           NEW f \in Facts, facts' = [facts EXCEPT ![u] = f],
           unit[u].sweeps = 1 => f.offer = "yes",
           f.vision = "done" => Content(f) \in judgedOn[u],
           UNCHANGED <<unit, match, alerts, digests, media, req, worker, history>>
    PROVE  UnitsInv'
<1> USE DEF UnitsInv
<1>1. Told(u) /\ media[u].status # "absent" /\ facts[u] # NoFacts /\ f # NoFacts
    BY UnreadIsNotAbsent DEF PhotographsAreOfTold
<1>2. /\ facts' \in [Units -> Facts \cup {NoFacts}] /\ facts'[u] = f
      /\ \A v \in Units \ {u} : facts'[v] = facts[v]
    BY DEF Types, UnitsTypeOK
<1>3. Types'
    BY <1>2 DEF Types, UnitsTypeOK, history
<1>4. SweptOnceClaimed' /\ FinishedIsJudged'
    BY DEF SweptOnceClaimed, Fresh, FinishedIsJudged
<1>5. WorkerIsAtWork'
    <2>1. worker.todo \in SUBSET Units
        BY DEF Types, WorkerRecords
    <2>2. \A v \in worker.todo : facts'[v] # NoFacts
        BY <1>1, <1>2, <2>1 DEF WorkerIsAtWork
    <2>3. QED
        BY <2>2 DEF WorkerIsAtWork, Fresh
<1>6. RowIsStored'
    <2>1. worker.pc \in Extracted \cup {"weighing"} => worker.at \in Units
        BY DEF WorkerIsAtWork, Types, WorkerRecords, Extracted, AtUnit
    <2>2. QED
        BY <1>2, <2>1 DEF RowIsStored
<1>7. OfferHasText'
    BY <1>2 DEF OfferHasText
<1>8. RevisionsInOrder'
    BY DEF RevisionsInOrder, Pending
<1>9. \A v : Told(v) <=> Told(v)'
    BY DEF Told, history
<1>10. PhotographsAreOfTold'
    BY <1>1, <1>2, <1>9 DEF PhotographsAreOfTold, Fresh
<1>11. \A v \in Units : NothingToTell(v) => NothingToTell(v)'
    BY <1>1, <1>2, NothingToTellKept DEF history
<1>12. DoneIsTold'
    <2>1. worker.pc = "finishing" => worker.at \in Units
        BY DEF WorkerIsAtWork, Types, WorkerRecords, AtUnit
    <2>2. QED
        BY <1>9, <1>11, <2>1 DEF DoneIsTold
<1>13. WorkerJudges'
    BY <1>9 DEF WorkerJudges, NoneAfter
<1>14. \A v \in Units : Archived(v)' => Archived(v)
    BY <1>1, <1>2 DEF Archived, PhotographsAreOfTold
<1>15. SweepIsWhole'
    BY <1>1, <1>2, <1>9, <1>14 DEF SweepIsWhole
<1>16. ArchiveIsRejudged'
    BY <1>14 DEF ArchiveIsRejudged, Archived, Pending
<1>17. VisionDoneIsJudged'
    BY <1>2 DEF VisionDoneIsJudged, history
<1>18. QED
    BY <1>3, <1>4, <1>5, <1>6, <1>7, <1>8, <1>10, <1>12, <1>13, <1>15, <1>16, <1>17

LEMMA VisionReadsKeep ==
    ASSUME UnitsInv,
           AwaitVision \/ (\E u \in Units : ReadFacts(u)) \/ ReadPrevious \/ ReadActive \/ VisionFails
    PROVE  UnitsInv'
<1> USE DEF UnitsInv
<1>1. UNCHANGED <<tables, worker, history>>
    BY DEF AwaitVision, ReadFacts, ReadPrevious, ReadActive, VisionFails
<1>2. /\ vision \in VisionRecords /\ facts \in [Units -> Facts \cup {NoFacts}]
      /\ req.revision \in 0..MaxRevisions
    BY DEF Types, UnitsTypeOK
<1>3. CASE AwaitVision
    <2>1. PICK ready \in SUBSET Units : ready = {u \in Units : Awaiting(u)}
        OBVIOUS
    <2>2. vision.pc = "idle" /\ vision' = [vision EXCEPT !.pc = "next", !.todo = ready]
        BY <1>3, <2>1 DEF AwaitVision
    <2>3. vision' \in VisionRecords /\ vision'.pc = "next" /\ vision'.todo = ready
        BY <1>2, <2>2 DEF VisionRecords
    <2>4. \A u \in ready : media[u].status = "downloaded"
        BY <2>1 DEF Awaiting
    <2>5. VisionIsAtWork'
        BY <1>1, <2>3, <2>4 DEF VisionIsAtWork, tables
    <2>6. QED
        BY <1>1, <2>3, <2>5, VisionMemoryKeeps
<1>4. ASSUME NEW u \in Units, ReadFacts(u)
      PROVE  UnitsInv'
    <2>1. /\ vision.pc = "next" /\ u \in vision.todo
          /\ vision' = [vision EXCEPT !.pc = "previous", !.at = u, !.row = facts[u]]
        BY <1>4 DEF ReadFacts
    <2>2. facts[u] \in Facts \cup {NoFacts}
        BY <1>2
    <2>3. /\ vision' \in VisionRecords /\ vision'.pc = "previous" /\ vision'.todo = vision.todo
          /\ vision'.at = u /\ vision'.row = facts[u]
        BY <1>2, <2>1, <2>2 DEF VisionRecords
    <2>4. media[u].status = "downloaded"
        BY <2>1 DEF VisionIsAtWork
    <2>5. facts[u] # NoFacts /\ (unit[u].sweeps = 1 => facts[u].offer = "yes")
        BY <2>4 DEF PhotographsAreOfTold
    <2>6. VisionIsAtWork'
        BY <1>1, <2>1, <2>3, <2>5 DEF VisionIsAtWork, tables
    <2>7. QED
        BY <1>1, <2>3, <2>6, VisionMemoryKeeps
<1>5. CASE ReadPrevious
    <2>1. /\ vision.pc = "previous"
          /\ vision' = [vision EXCEPT !.pc = "reading", !.previous = LatestMatch(vision.at)]
        BY <1>5 DEF ReadPrevious
    <2>2. vision.at \in Units
        BY <1>2, <2>1 DEF VisionIsAtWork, VisionRecords
    <2>3. PICK m \in Verdicts \cup {"none"} : m = LatestMatch(vision.at)
        BY <2>2, LatestTyped
    <2>4. vision' = [vision EXCEPT !.pc = "reading", !.previous = m]
        BY <2>1, <2>3
    <2>5. /\ vision' \in VisionRecords /\ vision'.pc = "reading" /\ vision'.todo = vision.todo
          /\ vision'.at = vision.at /\ vision'.row = vision.row
        BY <1>2, <2>4 DEF VisionRecords
    <2>6. VisionIsAtWork'
        BY <1>1, <2>1, <2>5 DEF VisionIsAtWork, tables
    <2>7. QED
        BY <1>1, <2>5, <2>6, VisionMemoryKeeps
<1>6. CASE ReadActive
    <2>1. vision.pc = "matching"
          /\ vision' = [vision EXCEPT !.pc = "judging", !.revision = req.revision]
        BY <1>6 DEF ReadActive
    <2>2. /\ vision' \in VisionRecords /\ vision'.pc = "judging" /\ vision'.todo = vision.todo
          /\ vision'.at = vision.at /\ vision'.row = vision.row /\ vision'.revision = req.revision
        BY <1>2, <2>1 DEF VisionRecords
    <2>3. VisionIsAtWork'
        BY <1>1, <2>1, <2>2 DEF VisionIsAtWork, tables
    <2>4. vision.at \in Units /\ media[vision.at].status # "absent"
        BY <1>2, <2>1 DEF VisionIsAtWork, VisionRecords
    <2>5. req.revision \in 1..req.revision
        BY <1>2, <2>4 DEF PhotographsAreOfTold
    <2>6. QED
        BY <1>1, <2>2, <2>3, <2>5, VisionMemoryKeeps
<1>7. CASE VisionFails
    <2>1. /\ vision.pc \notin {"idle", "next"}
          /\ vision' = [vision EXCEPT !.pc = "failing", !.row = facts[vision.at]]
        BY <1>7 DEF VisionFails
    <2>2. PICK u \in Units : u = vision.at /\ u \in vision.todo
        BY <1>2, <2>1 DEF VisionIsAtWork, VisionRecords
    <2>3. facts[u] \in Facts \cup {NoFacts}
        BY <1>2
    <2>4. /\ vision' \in VisionRecords /\ vision'.pc = "failing" /\ vision'.todo = vision.todo
          /\ vision'.at = u /\ vision'.row = facts[u]
        BY <1>2, <2>1, <2>2, <2>3 DEF VisionRecords
    <2>5. facts[u] # NoFacts /\ (unit[u].sweeps = 1 => facts[u].offer = "yes")
        BY <2>2 DEF PhotographsAreOfTold, VisionIsAtWork
    <2>6. VisionIsAtWork'
        BY <1>1, <2>2, <2>4, <2>5 DEF VisionIsAtWork, tables
    <2>7. QED
        BY <1>1, <2>4, <2>6, VisionMemoryKeeps
<1>8. QED
    BY <1>3, <1>4, <1>5, <1>6, <1>7

LEMMA NextReadingDone ==
    ASSUME Types, NEW u \in Units, NextReading(u)
    PROVE  /\ vision' \in VisionRecords /\ vision'.pc \in {"idle", "next"}
           /\ vision'.todo \subseteq vision.todo
<1>1. PICK p \in {"idle", "next"} : p = IF vision.todo = {u} THEN "idle" ELSE "next"
    OBVIOUS
<1>2. PICK rest \in SUBSET Units : rest = vision.todo \ {u}
    BY DEF Types, VisionRecords
<1>3. vision' = [Blind EXCEPT !.pc = p, !.todo = rest]
    BY <1>1, <1>2 DEF NextReading
<1>4. Blind \in VisionRecords
    BY UnitConstants DEF Blind, VisionRecords
<1>5. vision' \in VisionRecords /\ vision'.pc = p /\ vision'.todo = rest
    BY <1>3, <1>4 DEF VisionRecords
<1>6. QED
    BY <1>1, <1>2, <1>5

LEMMA VisionStoresKeep ==
    ASSUME UnitsInv,
           (\E seen \in SeenBy : ReadPhotographs(seen)) \/ FinalizeReading \/ RecordVisionError
    PROVE  UnitsInv'
<1> USE DEF UnitsInv
<1>1. vision \in VisionRecords /\ vision.pc \notin {"idle", "next"}
    BY DEF ReadPhotographs, FinalizeReading, RecordVisionError, Types
<1>2. PICK u \in Units : u = vision.at /\ u \in vision.todo
    BY <1>1 DEF VisionIsAtWork, VisionRecords
<1>3. PICK row \in Facts : row = vision.row
    BY <1>1 DEF VisionIsAtWork, VisionRecords
<1>4. media[u].status = "downloaded" /\ (unit[u].sweeps = 1 => row.offer = "yes")
    BY <1>1, <1>2, <1>3 DEF VisionIsAtWork
<1>5. UNCHANGED <<unit, match, alerts, digests, media, req, worker, history>>
    BY DEF ReadPhotographs, FinalizeReading, RecordVisionError
<1>6. {"pending", "done", "error"} \subseteq VisionStates
    BY DEF VisionStates
<1>7. ASSUME NEW seen \in SeenBy, ReadPhotographs(seen)
      PROVE  UnitsInv'
    <2>1. Parsed(seen) \in Readings
        <3>1. seen \in Readings
            BY UnitConstants
        <3>2. QED
            BY <3>1 DEF Parsed, Readings
    <2>2. PICK merged \in Facts : merged = Merged(row, Parsed(seen)) /\ merged.offer = row.offer
        BY <2>1, MergedFields
    <2>3. PICK f \in Facts : /\ f = [merged EXCEPT !.vision = "pending"]
                             /\ f.offer = merged.offer /\ f.vision = "pending"
        BY <1>6, <2>2, FactsRecorded
    <2>4. facts' = [facts EXCEPT ![u] = f]
        BY <1>2, <1>3, <1>7, <2>2, <2>3 DEF ReadPhotographs, StatusWhileJudging
    <2>5. PICK s \in {"done", "error"} : s = FinalStatus(seen)
        BY DEF FinalStatus
    <2>6. vision' = [vision EXCEPT !.pc = "matching", !.row = merged, !.final = s]
        BY <1>2, <1>3, <1>7, <2>2, <2>5 DEF ReadPhotographs
    <2>7. /\ vision' \in VisionRecords /\ vision'.pc = "matching" /\ vision'.todo = vision.todo
          /\ vision'.at = u /\ vision'.row = merged
        BY <1>1, <1>2, <2>6 DEF VisionRecords
    <2>8. VisionIsAtWork'
        BY <1>2, <1>4, <1>5, <2>2, <2>7, UnreadIsNotAbsent DEF VisionIsAtWork
    <2>9. QED
        BY <1>4, <1>5, <2>2, <2>3, <2>4, <2>7, <2>8, VisionWritesKeep
<1>8. CASE FinalizeReading
    <2>1. /\ vision.pc = "finalizing" /\ NextReading(u)
          /\ facts' = [facts EXCEPT ![u] = [row EXCEPT !.vision = vision.final]]
        BY <1>2, <1>3, <1>8 DEF FinalizeReading
    <2>2. PICK s \in {"done", "error"} : s = vision.final
        BY <1>1 DEF VisionRecords
    <2>3. PICK f \in Facts : /\ f = [row EXCEPT !.vision = s] /\ f.offer = row.offer
                             /\ Content(f) = Content(row)
        BY <1>6, <2>2, FactsRecorded
    <2>4. Content(f) \in judgedOn[u]
        BY <1>2, <1>3, <2>1, <2>3 DEF VisionIsAtWork
    <2>5. /\ vision' \in VisionRecords /\ vision'.pc \in {"idle", "next"}
          /\ vision'.todo \subseteq vision.todo
        BY <2>1, NextReadingDone
    <2>6. VisionIsAtWork'
        BY <1>5, <2>5 DEF VisionIsAtWork
    <2>7. facts' = [facts EXCEPT ![u] = f]
        BY <2>1, <2>2, <2>3
    <2>8. QED
        BY <1>4, <1>5, <2>3, <2>4, <2>5, <2>6, <2>7, VisionWritesKeep
<1>9. CASE RecordVisionError
    <2>1. NextReading(u) /\ facts' = [facts EXCEPT ![u] = [row EXCEPT !.vision = "error"]]
        BY <1>2, <1>3, <1>9 DEF RecordVisionError
    <2>2. PICK f \in Facts : /\ f = [row EXCEPT !.vision = "error"]
                             /\ f.offer = row.offer /\ f.vision = "error"
        BY <1>6, FactsRecorded
    <2>3. /\ vision' \in VisionRecords /\ vision'.pc \in {"idle", "next"}
          /\ vision'.todo \subseteq vision.todo
        BY <2>1, NextReadingDone
    <2>4. VisionIsAtWork'
        BY <1>5, <2>3 DEF VisionIsAtWork
    <2>5. facts' = [facts EXCEPT ![u] = f]
        BY <2>1, <2>2
    <2>6. QED
        BY <1>4, <1>5, <2>2, <2>3, <2>4, <2>5, VisionWritesKeep
<1>10. QED
    BY <1>7, <1>8, <1>9

\* A verdict is recorded for the revision, whatever becomes of the others.
LEMMA Noted ==
    ASSUME Types, NEW u \in Units, NEW f \in Facts, Note(u, f)
    PROVE  /\ judgedOn' \in [Units -> SUBSET Facts] /\ Content(f) \in judgedOn'[u]
           /\ \A v \in Units : judgedOn[v] \subseteq judgedOn'[v]
<1>1. "not_attempted" \in VisionStates /\ Content(f) \in Facts
    BY FactsRecorded DEF VisionStates
<1>2. PICK c \in Facts : c = Content(f)
    BY <1>1
<1>3. judgedOn \in [Units -> SUBSET Facts]
    BY DEF Types
<1>4. judgedOn' = [judgedOn EXCEPT ![u] = judgedOn[u] \cup {c}]
    BY <1>2 DEF Note
<1>5. QED
    BY <1>2, <1>3, <1>4

LEMMA MatchRecorded ==
    ASSUME Types, NEW u \in Units, NEW r \in Revisions, NEW verdict \in Verdicts,
           NEW alert \in SUBSET (Units \X {"possible", "confirmed"} \X {"live", "update"}),
           RecordMatchWithAlert(u, r, verdict, alert)
    PROVE  /\ match' \in [Units -> [Revisions -> Verdicts \cup {"none"}]]
           /\ alerts' \subseteq Units \X {"possible", "confirmed"} \X {"live", "update"}
           /\ alerts \subseteq alerts' /\ alert \subseteq alerts'
           /\ match'[u][r] = verdict
           /\ \A s \in Revisions \ {r} : match'[u][s] = match[u][s]
           /\ \A v \in Units \ {u} : match'[v] = match[v]
BY DEF Types, UnitsTypeOK, RecordMatchWithAlert

LEMMA JudgeReadingKeeps ==
    ASSUME UnitsInv, JudgeReading
    PROVE  UnitsInv'
<1> USE DEF UnitsInv
<1>1. /\ vision \in VisionRecords /\ vision.pc = "judging"
      /\ vision' = [vision EXCEPT !.pc = "finalizing"]
      /\ UNCHANGED <<unit, facts, digests, media, req, worker, listed, troubles>>
    BY DEF JudgeReading, Types
<1>2. PICK u \in Units : u = vision.at /\ u \in vision.todo
    BY <1>1 DEF VisionIsAtWork, VisionRecords
<1>3. PICK row \in Facts : row = vision.row
    BY <1>1 DEF VisionIsAtWork, VisionRecords
<1>4. PICK r \in Revisions : r = vision.revision /\ r <= req.revision
    <2>1. vision.revision \in 1..req.revision /\ req.revision \in 0..MaxRevisions
        BY <1>1 DEF RevisionsInOrder, Types, UnitsTypeOK
    <2>2. QED
        BY <2>1, UnitConstants DEF Revisions
<1>5. PICK verdict \in Verdicts : verdict = Judge(row, req.saved[r])
    BY JudgeTyped
<1>6. UpdateAlert(u, verdict) \in SUBSET (Units \X {"possible", "confirmed"} \X {"live", "update"})
    BY DEF UpdateAlert, Admits, Verdicts
<1>7. RecordMatchWithAlert(u, r, verdict, UpdateAlert(u, verdict)) /\ Note(u, row)
    BY <1>2, <1>3, <1>4, <1>5 DEF JudgeReading
<1>8. /\ match' \in [Units -> [Revisions -> Verdicts \cup {"none"}]]
      /\ alerts' \subseteq Units \X {"possible", "confirmed"} \X {"live", "update"}
      /\ alerts \subseteq alerts' /\ match'[u][r] = verdict
      /\ \A s \in Revisions \ {r} : match'[u][s] = match[u][s]
      /\ \A v \in Units \ {u} : match'[v] = match[v]
    BY <1>6, <1>7, MatchRecorded
<1>9. /\ judgedOn' \in [Units -> SUBSET Facts] /\ Content(row) \in judgedOn'[u]
      /\ \A v \in Units : judgedOn[v] \subseteq judgedOn'[v]
    BY <1>7, Noted
<1>10. /\ vision' \in VisionRecords /\ vision'.pc = "finalizing" /\ vision'.todo = vision.todo
       /\ vision'.at = u /\ vision'.row = row
    BY <1>1, <1>2, <1>3 DEF VisionRecords
<1>11. \A v : Told(v) => Told(v)'
    BY <1>1, <1>8, ToldKept
<1>12. Told(u)
    BY <1>2 DEF VisionIsAtWork, PhotographsAreOfTold
<1>13. \A v \in Units, s \in Revisions : match[v][s] # "none" => match'[v][s] # "none"
    BY <1>5, <1>8 DEF Verdicts
<1>14. Types'
    BY <1>1, <1>8, <1>9, <1>10 DEF Types, UnitsTypeOK
<1>15. SweptOnceClaimed' /\ WorkerIsAtWork' /\ RowIsStored' /\ OfferHasText'
    BY <1>1 DEF SweptOnceClaimed, Fresh, WorkerIsAtWork, RowIsStored, OfferHasText
<1>16. RevisionsInOrder'
    <2>1. \A v \in Units, s \in Revisions : match'[v][s] # "none" => s <= req.revision
        BY <1>4, <1>8 DEF RevisionsInOrder
    <2>2. QED
        BY <1>1, <1>10, <2>1 DEF RevisionsInOrder, Pending
<1>17. PhotographsAreOfTold'
    BY <1>1, <1>11 DEF PhotographsAreOfTold, Fresh
<1>18. VisionIsAtWork'
    BY <1>1, <1>2, <1>3, <1>9, <1>10 DEF VisionIsAtWork
<1>19. \A v \in Units : NothingToTell(v) => NothingToTell(v)'
    <2>1. ASSUME NEW v \in Units, ~Told(v)
          PROVE  facts'[v] = facts[v] /\ match'[v] = match[v]
        <3>1. v # u
            BY <1>12, <2>1
        <3>2. QED
            BY <1>1, <1>8, <3>1
    <2>2. digests' = digests /\ (\A s \in digests : req'.saved[s] = req.saved[s])
          /\ alerts \subseteq alerts' /\ listed \subseteq listed'
        BY <1>1, <1>8
    <2>3. ASSUME NEW v \in Units, NothingToTell(v)
          PROVE  NothingToTell(v)'
        <3>1. Told(v) \/ (facts'[v] = facts[v] /\ match'[v] = match[v])
            BY <2>1
        <3>2. QED
            BY <2>2, <2>3, <3>1, NothingToTellKept
    <2>4. QED
        BY <2>3
<1>20. DoneIsTold'
    <2>1. worker.pc = "finishing" => worker.at \in Units
        BY DEF WorkerIsAtWork, Types, WorkerRecords, AtUnit
    <2>2. QED
        BY <1>1, <1>11, <1>19, <2>1 DEF DoneIsTold
<1>21. WorkerJudges'
    BY <1>1, <1>8, <1>11, <1>12 DEF WorkerJudges, NoneAfter
<1>22. SweepIsWhole'
    BY <1>1, <1>11 DEF SweepIsWhole, Archived
<1>23. FinishedIsJudged'
    <2>1. worker.pc \in {"photographs", "finishing"} =>
            worker.at \in Units /\ worker.revision \in Revisions
        BY DEF WorkerIsAtWork, RevisionsInOrder, Types, UnitsTypeOK, WorkerRecords, AtUnit,
            UnderRevision, Revisions
    <2>2. QED
        BY <1>1, <1>13, <2>1 DEF FinishedIsJudged
<1>24. ArchiveIsRejudged'
    <2>1. req.revision > 0 => req.revision \in Revisions
        BY DEF Types, UnitsTypeOK, Revisions
    <2>2. QED
        BY <1>1, <1>13, <2>1 DEF ArchiveIsRejudged, Pending
<1>25. VisionDoneIsJudged'
    BY <1>1, <1>9 DEF VisionDoneIsJudged
<1>26. QED
    BY <1>14, <1>15, <1>16, <1>17, <1>18, <1>20, <1>21, <1>22, <1>23, <1>24, <1>25

-----------------------------------------------------------------------------
(***************************************************************************)
(* The worker takes units, gives them up, and falls asleep.                *)
(***************************************************************************)

LEMMA AtWork ==
    ASSUME UnitsInv, worker.pc \in AtUnit
    PROVE  /\ worker.at \in Units /\ worker.at \in worker.batch
           /\ ~Fresh(worker.at) /\ unit[worker.at].state # "done"
BY DEF UnitsInv, WorkerIsAtWork, Types, WorkerRecords

\* A state past assembly.
LEMMA StateMoves ==
    ASSUME UnitsInv, NEW u \in Units, ~Fresh(u),
           NEW s \in UnitStates \ {"absent", "assembling"}, SetState(u, s)
    PROVE  /\ unit' \in [Units -> [state : UnitStates, text : BOOLEAN, photo : BOOLEAN,
                                   sweeps : 0..MaxSweeps]]
           /\ unit'[u].state = s /\ \A v \in Units \ {u} : unit'[v] = unit[v]
           /\ \A v \in Units : /\ unit'[v].sweeps = unit[v].sweeps
                               /\ unit'[v].text = unit[v].text
                               /\ Fresh(v)' <=> Fresh(v)
<1>1. unit \in [Units -> [state : UnitStates, text : BOOLEAN, photo : BOOLEAN, sweeps : 0..MaxSweeps]]
    BY DEF UnitsInv, Types, UnitsTypeOK
<1>2. unit' = [unit EXCEPT ![u].state = s]
    BY DEF SetState
<1>3. /\ unit' \in [Units -> [state : UnitStates, text : BOOLEAN, photo : BOOLEAN,
                              sweeps : 0..MaxSweeps]]
      /\ unit'[u].state = s /\ unit'[u].sweeps = unit[u].sweeps /\ unit'[u].text = unit[u].text
      /\ \A v \in Units \ {u} : unit'[v] = unit[v]
    BY <1>1, <1>2
<1>4. ASSUME NEW v \in Units
      PROVE  Fresh(v)' <=> Fresh(v)
    BY <1>3 DEF Fresh
<1>5. QED
    BY <1>3, <1>4

LEMMA LeavesUnit ==
    ASSUME UnitsInv, worker.pc \in AtUnit \cup {"next"}, NEW u \in worker.batch,
           worker.pc \in AtUnit => worker.at = u,
           NEW s \in {"done", "error"}, SetState(u, s), NextOfBatch(u),
           s = "done" => NothingToTell(u),
           s = "done" /\ req.revision > 0 /\ ~Pending /\ facts[u].offer = "yes"
             /\ (media[u].status = "downloaded" => unit[u].sweeps = 1) =>
             match[u][req.revision] # "none",
           UNCHANGED <<facts, match, alerts, digests, media, req, vision, history>>
    PROVE  UnitsInv'
<1> USE DEF UnitsInv
<1>1. worker \in WorkerRecords /\ u \in Units /\ ~Fresh(u)
    BY DEF Types, WorkerRecords, WorkerIsAtWork
<1>2. PICK cs \in [Units -> [text : BOOLEAN, photo : BOOLEAN]] :
        /\ cs = [worker.claimed EXCEPT ![u] = NoSnapshot]
        /\ ~cs[u].text /\ \A v \in Units \ {u} : cs[v] = worker.claimed[v]
    <2>1. NoSnapshot \in [text : BOOLEAN, photo : BOOLEAN] /\ ~NoSnapshot.text
        BY DEF NoSnapshot
    <2>2. worker.claimed \in [Units -> [text : BOOLEAN, photo : BOOLEAN]]
        BY <1>1 DEF WorkerRecords
    <2>3. PICK n \in [text : BOOLEAN, photo : BOOLEAN] : n = NoSnapshot /\ ~n.text
        BY <2>1
    <2>4. [worker.claimed EXCEPT ![u] = n] \in [Units -> [text : BOOLEAN, photo : BOOLEAN]]
        BY <2>2
    <2>5. [worker.claimed EXCEPT ![u] = n][u] = n
        BY <1>1, <2>2
    <2>6. \A v \in Units \ {u} : [worker.claimed EXCEPT ![u] = n][v] = worker.claimed[v]
        BY <2>2
    <2>7. QED
        BY <2>3, <2>4, <2>5, <2>6
<1>3. PICK rest \in SUBSET Units : rest = worker.batch \ {u}
    BY <1>1 DEF WorkerRecords
<1>4. worker' = [worker EXCEPT !.pc = "next", !.batch = rest, !.at = NoUnit, !.claimed = cs,
                               !.row = NoFacts, !.revision = 0]
    BY <1>1, <1>2, <1>3 DEF NextOfBatch, WorkerRecords
<1>5. /\ worker' \in WorkerRecords
      /\ worker'.pc = "next" /\ worker'.batch = rest /\ worker'.at = NoUnit /\ worker'.claimed = cs
      /\ worker'.todo = worker.todo /\ worker'.found = worker.found
      /\ worker'.upgraded = worker.upgraded
    <2>1. 0 \in 0..MaxRevisions /\ NoFacts \in Facts \cup {NoFacts}
        BY UnitConstants
    <2>2. worker' \in WorkerRecords
        BY <1>1, <1>4, <2>1 DEF WorkerRecords
    <2>3. QED
        BY <1>1, <1>4, <2>2 DEF WorkerRecords
<1>6. /\ unit' \in [Units -> [state : UnitStates, text : BOOLEAN, photo : BOOLEAN,
                              sweeps : 0..MaxSweeps]]
      /\ unit'[u].state = s /\ \A v \in Units \ {u} : unit'[v] = unit[v]
      /\ \A v \in Units : /\ unit'[v].sweeps = unit[v].sweeps
                          /\ unit'[v].text = unit[v].text
                          /\ Fresh(v)' <=> Fresh(v)
    <2>1. s \in UnitStates \ {"absent", "assembling"}
        BY DEF UnitStates
    <2>2. QED
        BY <1>1, <2>1, StateMoves
<1>7. "next" \notin AtUnit \cup Sweeping \cup UnderRevision \cup Extracted
    BY DEF AtUnit, Sweeping, UnderRevision, Extracted
<1>8. Types'
    BY <1>5, <1>6 DEF Types, UnitsTypeOK, history
<1>9. SweptOnceClaimed'
    BY <1>6 DEF SweptOnceClaimed
<1>10. WorkerIsAtWork'
    <2>1. worker.pc \notin Sweeping
        BY DEF AtUnit, Sweeping
    <2>2. \A v \in rest : v \in worker.batch /\ v \in Units \ {u}
        BY <1>3
    <2>3. \A v \in rest : ~Fresh(v)' /\ unit'[v].state # "done"
        BY <1>6, <2>2 DEF WorkerIsAtWork
    <2>4. QED
        BY <1>5, <1>7, <2>1, <2>3 DEF WorkerIsAtWork
<1>11. RowIsStored'
    BY <1>5, <1>7 DEF RowIsStored
<1>12. OfferHasText'
    <2>1. ASSUME NEW v \in Units \ {u}
          PROVE  /\ cs[v].text => unit'[v].text
                 /\ media[v].status # "downloaded" /\ facts[v].offer = "yes" =>
                        unit'[v].text /\ (v \in rest => cs[v].text)
        BY <1>2, <1>3, <1>6, <2>1 DEF OfferHasText
    <2>2. u \notin rest
        BY <1>3
    <2>3. media[u].status # "downloaded" /\ facts[u].offer = "yes" => unit'[u].text
        BY <1>1, <1>6 DEF OfferHasText
    <2>4. QED
        BY <1>2, <1>5, <2>1, <2>2, <2>3 DEF OfferHasText
<1>13. RevisionsInOrder'
    BY <1>5, <1>7 DEF RevisionsInOrder, Pending
<1>14. \A v : Told(v)' <=> Told(v)
    BY DEF Told, history
<1>15. PhotographsAreOfTold'
    <2>1. ASSUME NEW v \in rest, media[v].status # "absent", unit[v].sweeps = 1
          PROVE  FALSE
        <3>1. worker.at = v /\ worker.pc = "finishing" /\ v # u
            BY <1>3, <2>1 DEF PhotographsAreOfTold
        <3>2. QED
            BY <3>1, <1>7
    <2>2. QED
        BY <1>5, <1>6, <1>14, <2>1 DEF PhotographsAreOfTold
<1>16. VisionIsAtWork'
    <2>1. vision.todo \in SUBSET Units
        BY DEF Types, VisionRecords
    <2>2. QED
        BY <1>6, <2>1 DEF VisionIsAtWork, history
<1>17. DoneIsTold'
    <2>1. \A v : NothingToTell(v)' <=> NothingToTell(v)
        BY <1>14 DEF NothingToTell, Rejected, NoneAfter
    <2>2. \A v \in Units : unit'[v].state = "done" => NothingToTell(v)
        BY <1>6 DEF DoneIsTold
    <2>3. QED
        BY <1>5, <2>1, <2>2 DEF DoneIsTold
<1>18. WorkerJudges' /\ SweepIsWhole' /\ FinishedIsJudged'
    BY <1>5, <1>7 DEF WorkerJudges, SweepIsWhole, FinishedIsJudged
<1>19. ArchiveIsRejudged'
    <2>1. ASSUME req.revision > 0, ~Pending, NEW v \in Units, unit'[v].state = "done",
                 facts[v].offer = "yes", media[v].status = "downloaded" => unit[v].sweeps = 1
          PROVE  match[v][req.revision] # "none"
        <3>1. CASE v = u
            BY <1>6, <2>1, <3>1
        <3>2. CASE v # u
            BY <1>6, <2>1, <3>2 DEF ArchiveIsRejudged
        <3>3. QED
            BY <3>1, <3>2
    <2>2. QED
        BY <1>6, <2>1 DEF ArchiveIsRejudged, Pending
<1>20. VisionDoneIsJudged'
    BY DEF VisionDoneIsJudged, history
<1>21. QED
    BY <1>8, <1>9, <1>10, <1>11, <1>12, <1>13, <1>15, <1>16, <1>17, <1>18, <1>19, <1>20

\* The worker's memory is empty, the tables are as they were.
LEMMA FallsAsleep ==
    ASSUME UnitsInv, worker' = Asleep, vision' = vision \/ vision' = Blind,
           UNCHANGED <<tables, history>>
    PROVE  UnitsInv'
<1> USE DEF UnitsInv
<1>1. Asleep \in WorkerRecords /\ Blind \in VisionRecords
    BY UnitConstants DEF Asleep, WorkerRecords, Blind, VisionRecords, NoSnapshot
<1>2. /\ worker'.pc = "idle" /\ worker'.batch = {} /\ worker'.at = NoUnit /\ worker'.todo = {}
      /\ worker'.upgraded = {} /\ worker'.found = [u \in Units |-> "none"]
      /\ \A u \in Units : ~worker'.claimed[u].text
    BY DEF Asleep, NoSnapshot
<1>3. "idle" \notin AtUnit \cup Sweeping \cup UnderRevision \cup Extracted
    BY DEF AtUnit, Sweeping, UnderRevision, Extracted
<1>4. Types'
    BY <1>1 DEF Types, UnitsTypeOK, history, tables
<1>5. SweptOnceClaimed' /\ WorkerIsAtWork' /\ RowIsStored' /\ OfferHasText'
    BY <1>2, <1>3 DEF SweptOnceClaimed, Fresh, WorkerIsAtWork, RowIsStored, OfferHasText, tables
<1>6. vision'.pc = "judging" => vision' = vision
    BY DEF Blind
<1>7. RevisionsInOrder'
    BY <1>2, <1>3, <1>6 DEF RevisionsInOrder, Pending, tables
<1>8. \A v : Told(v)' <=> Told(v)
    BY DEF Told, history, tables
<1>9. PhotographsAreOfTold'
    BY <1>2, <1>8 DEF PhotographsAreOfTold, Fresh, tables
<1>10. VisionIsAtWork'
    BY DEF VisionIsAtWork, Blind, history, tables
<1>11. DoneIsTold' /\ ArchiveIsRejudged' /\ VisionDoneIsJudged'
    BY <1>2, <1>8 DEF DoneIsTold, NothingToTell, Rejected, NoneAfter, ArchiveIsRejudged, Pending,
        VisionDoneIsJudged, history, tables
<1>12. WorkerJudges' /\ SweepIsWhole' /\ FinishedIsJudged'
    BY <1>2, <1>3 DEF WorkerJudges, SweepIsWhole, FinishedIsJudged
<1>13. QED
    BY <1>4, <1>5, <1>7, <1>9, <1>10, <1>11, <1>12

LEMMA AbandonKeeps ==
    ASSUME UnitsInv, CycleFails \/ Crash
    PROVE  UnitsInv'
<1>1. worker' = Asleep /\ (vision' = vision \/ vision' = Blind) /\ UNCHANGED <<tables, history>>
    BY DEF CycleFails, Crash
<1>2. QED
    BY <1>1, FallsAsleep

LEMMA ProcessFailsKeeps ==
    ASSUME UnitsInv, ProcessFails
    PROVE  UnitsInv'
<1>1. worker.pc \in AtUnit
    BY DEF ProcessFails, UnitsInv, WorkerIsAtWork, Sweeping, AtUnit
<1>2. PICK u \in worker.batch : u = worker.at
    BY <1>1, AtWork
<1>3. /\ SetState(u, "error") /\ NextOfBatch(u)
      /\ UNCHANGED <<facts, match, alerts, digests, media, req, vision, history>>
    BY <1>2 DEF ProcessFails
<1>4. QED
    BY <1>1, <1>2, <1>3, LeavesUnit

LEMMA FinishUnitKeeps ==
    ASSUME UnitsInv, FinishUnit
    PROVE  UnitsInv'
<1>1. worker.pc = "finishing" /\ worker.pc \in AtUnit
    BY DEF FinishUnit, AtUnit
<1>2. PICK u \in worker.batch : u = worker.at
    BY <1>1, AtWork
<1>3. /\ SetState(u, "done") /\ NextOfBatch(u)
      /\ UNCHANGED <<facts, match, alerts, digests, media, req, vision, history>>
    BY <1>2 DEF FinishUnit
<1>4. NothingToTell(u)
    BY <1>1, <1>2 DEF UnitsInv, DoneIsTold
<1>5. ~Pending => match[u][req.revision] # "none"
    BY <1>1, <1>2 DEF UnitsInv, FinishedIsJudged, RevisionsInOrder
<1>6. QED
    BY <1>1, <1>2, <1>3, <1>4, <1>5, LeavesUnit

\* Whoever is given up as no offer has photographs, or is none.
LEMMA PassedOver ==
    ASSUME UnitsInv, NEW u \in worker.batch, worker.pc # "finishing",
           facts[u].offer = "yes" => media[u].status = "downloaded"
    PROVE  /\ NothingToTell(u)
           /\ ~(facts[u].offer = "yes" /\ (media[u].status = "downloaded" => unit[u].sweeps = 1))
<1>1. u \in Units
    BY DEF UnitsInv, Types, WorkerRecords
<1>2. CASE facts[u].offer # "yes"
    BY <1>2 DEF NothingToTell
<1>3. CASE media[u].status = "downloaded"
    BY <1>1, <1>3 DEF UnitsInv, PhotographsAreOfTold, NothingToTell
<1>4. QED
    BY <1>2, <1>3

LEMMA ClaimKeeps ==
    ASSUME UnitsInv, NEW S \in SUBSET Units, ClaimSettledUnits(S)
    PROVE  UnitsInv'
<1> USE DEF UnitsInv
<1>1. /\ worker.pc = "idle" /\ worker \in WorkerRecords
      /\ UNCHANGED <<facts, match, alerts, digests, media, req, vision, history, troubles>>
      /\ unit \in [Units -> [state : UnitStates, text : BOOLEAN, photo : BOOLEAN,
                             sweeps : 0..MaxSweeps]]
    BY DEF ClaimSettledUnits, Types, UnitsTypeOK
<1>2. "idle" \notin AtUnit \cup Sweeping \cup UnderRevision \cup Extracted
      /\ "next" \notin AtUnit \cup Sweeping \cup UnderRevision \cup Extracted
    BY DEF AtUnit, Sweeping, UnderRevision, Extracted
<1>3. ASSUME NEW u \in S
      PROVE  /\ unit[u].sweeps + 1 \in 0..MaxSweeps /\ unit[u].state # "done"
             /\ unit[u].sweeps + 1 = 1 => Fresh(u)
    <2>1. Claimable(u) /\ unit[u].sweeps \in 0..MaxSweeps
        BY <1>1 DEF ClaimSettledUnits
    <2>2. CASE unit[u].state = "assembling"
        BY <2>1, <2>2, UnitConstants DEF SweptOnceClaimed, Fresh
    <2>3. CASE unit[u].state # "assembling"
        BY <2>1, <2>3, UnitConstants DEF SweptOnceClaimed, Claimable
    <2>4. QED
        BY <2>2, <2>3
<1>4. /\ unit' \in [Units -> [state : UnitStates, text : BOOLEAN, photo : BOOLEAN,
                              sweeps : 0..MaxSweeps]]
      /\ \A v \in Units : unit'[v].text = unit[v].text
      /\ \A v \in Units \ S : unit'[v] = unit[v]
      /\ \A v \in S : unit'[v].state = "ready" /\ unit'[v].sweeps = unit[v].sweeps + 1
    <2>1. unit' = [u \in Units |-> IF u \in S
                        THEN [unit[u] EXCEPT !.state = "ready", !.sweeps = unit[u].sweeps + 1]
                        ELSE unit[u]]
        BY DEF ClaimSettledUnits
    <2>2. ASSUME NEW u \in S
          PROVE  /\ unit'[u] \in [state : UnitStates, text : BOOLEAN, photo : BOOLEAN,
                                  sweeps : 0..MaxSweeps]
                 /\ unit'[u].state = "ready" /\ unit'[u].sweeps = unit[u].sweeps + 1
                 /\ unit'[u].text = unit[u].text
        <3>1. PICK n \in 0..MaxSweeps : n = unit[u].sweeps + 1
            BY <1>3
        <3>2. unit'[u] = [unit[u] EXCEPT !.state = "ready", !.sweeps = n]
            BY <2>1, <3>1
        <3>3. "ready" \in UnitStates
            BY DEF UnitStates
        <3>4. unit[u] \in [state : UnitStates, text : BOOLEAN, photo : BOOLEAN, sweeps : 0..MaxSweeps]
            BY <1>1
        <3>5. QED
            BY <3>1, <3>2, <3>3, <3>4
    <2>3. \A u \in Units \ S : unit'[u] = unit[u]
        BY <2>1
    <2>4. DOMAIN unit' = Units /\ unit' = [u \in Units |-> unit'[u]]
        BY <2>1
    <2>5. QED
        BY <1>1, <2>2, <2>3, <2>4
<1>5. PICK cs \in [Units -> [text : BOOLEAN, photo : BOOLEAN]] :
        /\ cs = [u \in Units |-> IF u \in S THEN [text |-> unit[u].text, photo |-> unit[u].photo]
                                 ELSE NoSnapshot]
        /\ \A v \in S : cs[v].text = unit[v].text
        /\ \A v \in Units \ S : ~cs[v].text
    <2>1. NoSnapshot \in [text : BOOLEAN, photo : BOOLEAN] /\ ~NoSnapshot.text
        BY DEF NoSnapshot
    <2>2. ASSUME NEW u \in Units
          PROVE  [text |-> unit[u].text, photo |-> unit[u].photo] \in [text : BOOLEAN, photo : BOOLEAN]
        BY <1>1
    <2>3. [u \in Units |-> IF u \in S THEN [text |-> unit[u].text, photo |-> unit[u].photo]
                           ELSE NoSnapshot] \in [Units -> [text : BOOLEAN, photo : BOOLEAN]]
        BY <2>1, <2>2
    <2>4. PICK cs \in [Units -> [text : BOOLEAN, photo : BOOLEAN]] :
            cs = [u \in Units |-> IF u \in S THEN [text |-> unit[u].text, photo |-> unit[u].photo]
                                 ELSE NoSnapshot]
        BY <2>3
    <2>5. ASSUME NEW v \in S
          PROVE  cs[v].text = unit[v].text
        <3>1. cs[v] = [text |-> unit[v].text, photo |-> unit[v].photo]
            BY <2>4
        <3>2. QED
            BY <3>1
    <2>6. \A v \in Units \ S : ~cs[v].text
        BY <2>1, <2>4
    <2>7. QED
        BY <2>4, <2>5, <2>6
<1>6. worker' = [worker EXCEPT !.pc = "next", !.batch = S, !.claimed = cs]
    BY <1>5 DEF ClaimSettledUnits
<1>7. /\ worker' \in WorkerRecords /\ worker'.pc = "next" /\ worker'.batch = S
      /\ worker'.claimed = cs /\ worker'.at = worker.at /\ worker'.todo = worker.todo
      /\ worker'.found = worker.found /\ worker'.upgraded = worker.upgraded
    BY <1>1, <1>6 DEF WorkerRecords
<1>8. \A v \in S : ~Fresh(v)' /\ unit'[v].state # "done"
    BY <1>4 DEF Fresh
<1>9. \A v \in Units \ S : Fresh(v)' <=> Fresh(v)
    BY <1>4 DEF Fresh
<1>10. Types'
    BY <1>1, <1>4, <1>7 DEF Types, UnitsTypeOK, history
<1>11. SweptOnceClaimed'
    <2>1. \A v \in S : unit[v].sweeps \in Nat
        BY <1>1
    <2>2. QED
        BY <1>4, <1>8, <1>9, <2>1 DEF SweptOnceClaimed
<1>12. WorkerIsAtWork'
    BY <1>1, <1>2, <1>7, <1>8 DEF WorkerIsAtWork
<1>13. RowIsStored' /\ WorkerJudges' /\ SweepIsWhole' /\ FinishedIsJudged'
    BY <1>2, <1>7 DEF RowIsStored, WorkerJudges, SweepIsWhole, FinishedIsJudged
<1>14. OfferHasText'
    BY <1>1, <1>4, <1>5, <1>7 DEF OfferHasText
<1>15. RevisionsInOrder'
    BY <1>1, <1>2, <1>7 DEF RevisionsInOrder, Pending
<1>16. \A v : Told(v)' <=> Told(v)
    BY <1>1 DEF Told, history
<1>17. \A v \in S : media[v].status # "absent" => unit'[v].sweeps # 1
    BY <1>3, <1>4 DEF PhotographsAreOfTold
<1>18. PhotographsAreOfTold'
    BY <1>1, <1>4, <1>7, <1>8, <1>9, <1>16, <1>17 DEF PhotographsAreOfTold
<1>19. VisionIsAtWork'
    <2>1. vision.todo \in SUBSET Units
        BY DEF Types, VisionRecords
    <2>2. vision.pc \notin {"idle", "next"} /\ unit'[vision.at].sweeps = 1 => vision.row.offer = "yes"
        <3>1. SUFFICES ASSUME vision.pc \notin {"idle", "next"}, unit'[vision.at].sweeps = 1
                       PROVE  unit[vision.at].sweeps = 1
            BY DEF VisionIsAtWork
        <3>2. vision.at \in Units /\ media[vision.at].status # "absent"
            BY <2>1, <3>1 DEF VisionIsAtWork
        <3>3. vision.at \notin S
            BY <1>17, <3>1, <3>2
        <3>4. QED
            BY <1>4, <3>1, <3>2, <3>3
    <2>3. QED
        BY <1>1, <2>2 DEF VisionIsAtWork, history
<1>20. \A v : NothingToTell(v)' <=> NothingToTell(v)
    BY <1>1, <1>16 DEF NothingToTell, Rejected, NoneAfter
<1>21. DoneIsTold'
    BY <1>4, <1>7, <1>8, <1>20 DEF DoneIsTold
<1>22. ArchiveIsRejudged'
    BY <1>1, <1>4, <1>8 DEF ArchiveIsRejudged, Pending
<1>23. VisionDoneIsJudged'
    BY <1>1 DEF VisionDoneIsJudged, history
<1>24. QED
    BY <1>10, <1>11, <1>12, <1>13, <1>14, <1>15, <1>18, <1>19, <1>21, <1>22, <1>23

-----------------------------------------------------------------------------
(***************************************************************************)
(* A unit goes through extraction and matching.                            *)
(***************************************************************************)

LEMMA GoesOn ==
    ASSUME UnitsInv, NEW u \in worker.batch, worker.pc \in {"next", "extracted"},
           worker.pc = "extracted" => worker.at = u,
           NEW p \in {"extracting", "matching"}, SetState(u, p),
           worker' = [worker EXCEPT !.pc = p, !.at = u],
           p = "matching" => worker.pc = "extracted" /\ worker.row.offer = "yes",
           UNCHANGED <<facts, match, alerts, digests, media, req, vision, history>>
    PROVE  UnitsInv'
<1> USE DEF UnitsInv
<1>1. worker \in WorkerRecords /\ u \in Units /\ ~Fresh(u)
    BY DEF Types, WorkerRecords, WorkerIsAtWork
<1>2. p \in AtUnit /\ p \notin Sweeping \cup UnderRevision \cup {"finishing", "photographs"}
      /\ (p \in Extracted => p = "matching") /\ "extracted" \in AtUnit /\ "extracted" \in Extracted
      /\ worker.pc \notin Sweeping
    BY DEF AtUnit, Sweeping, UnderRevision, Extracted
<1>3. /\ worker' \in WorkerRecords
      /\ worker'.pc = p /\ worker'.at = u /\ worker'.batch = worker.batch
      /\ worker'.claimed = worker.claimed /\ worker'.row = worker.row /\ worker'.todo = worker.todo
      /\ worker'.found = worker.found /\ worker'.upgraded = worker.upgraded
    BY <1>1, <1>2 DEF WorkerRecords
<1>4. /\ unit' \in [Units -> [state : UnitStates, text : BOOLEAN, photo : BOOLEAN,
                              sweeps : 0..MaxSweeps]]
      /\ unit'[u].state = p /\ \A v \in Units \ {u} : unit'[v] = unit[v]
      /\ \A v \in Units : /\ unit'[v].sweeps = unit[v].sweeps
                          /\ unit'[v].text = unit[v].text
                          /\ Fresh(v)' <=> Fresh(v)
    <2>1. p \in UnitStates \ {"absent", "assembling"}
        BY DEF UnitStates
    <2>2. QED
        BY <1>1, <2>1, StateMoves
<1>5. \A v \in Units : unit'[v].state = "done" => unit[v].state = "done" /\ v # u
    BY <1>4
<1>6. Types'
    BY <1>3, <1>4 DEF Types, UnitsTypeOK, history
<1>7. SweptOnceClaimed'
    BY <1>4 DEF SweptOnceClaimed
<1>8. WorkerIsAtWork'
    <2>1. \A v \in worker.batch : ~Fresh(v)' /\ unit'[v].state # "done"
        BY <1>1, <1>4, <1>5 DEF WorkerIsAtWork, WorkerRecords
    <2>2. p = "matching" => worker.row # NoFacts
        BY <1>2 DEF WorkerIsAtWork
    <2>3. QED
        BY <1>2, <1>3, <2>1, <2>2 DEF WorkerIsAtWork, Sweeping
<1>9. RowIsStored'
    BY <1>2, <1>3 DEF RowIsStored, Sweeping
<1>10. OfferHasText'
    BY <1>3, <1>4 DEF OfferHasText
<1>11. RevisionsInOrder'
    BY <1>2, <1>3 DEF RevisionsInOrder, Pending, UnderRevision
<1>12. \A v : Told(v)' <=> Told(v)
    BY DEF Told, history
<1>13. PhotographsAreOfTold'
    BY <1>3, <1>4, <1>12 DEF PhotographsAreOfTold
<1>14. VisionIsAtWork'
    <2>1. vision.todo \in SUBSET Units
        BY DEF Types, VisionRecords
    <2>2. QED
        BY <1>4, <2>1 DEF VisionIsAtWork, history
<1>15. \A v : NothingToTell(v)' <=> NothingToTell(v)
    BY <1>12 DEF NothingToTell, Rejected, NoneAfter
<1>16. DoneIsTold'
    BY <1>3, <1>5, <1>15 DEF DoneIsTold
<1>17. WorkerJudges' /\ SweepIsWhole' /\ FinishedIsJudged'
    BY <1>2, <1>3 DEF WorkerJudges, SweepIsWhole, FinishedIsJudged
<1>18. ArchiveIsRejudged'
    BY <1>4, <1>5 DEF ArchiveIsRejudged, Pending
<1>19. VisionDoneIsJudged'
    BY DEF VisionDoneIsJudged, history
<1>20. QED
    BY <1>6, <1>7, <1>8, <1>9, <1>10, <1>11, <1>13, <1>14, <1>16, <1>17, <1>18, <1>19

LEMMA BeginUnitKeeps ==
    ASSUME UnitsInv, NEW u \in Units, BeginUnit(u)
    PROVE  UnitsInv'
<1>1. /\ worker.pc = "next" /\ worker.pc \notin AtUnit /\ u \in worker.batch
      /\ UNCHANGED <<facts, match, alerts, digests, media, req, vision, history>>
    BY DEF BeginUnit, AtUnit
<1>2. CASE ~WorthReading(u)
    <2>1. SetState(u, "done") /\ NextOfBatch(u)
        BY <1>2 DEF BeginUnit
    <2>2. ~worker.claimed[u].text
        BY <1>2 DEF WorthReading
    <2>3. facts[u].offer = "yes" => media[u].status = "downloaded"
        BY <1>1, <2>2 DEF UnitsInv, OfferHasText
    <2>4. /\ NothingToTell(u)
          /\ ~(facts[u].offer = "yes" /\ (media[u].status = "downloaded" => unit[u].sweeps = 1))
        BY <1>1, <2>3, PassedOver
    <2>5. QED
        BY <1>1, <2>1, <2>4, LeavesUnit
<1>3. CASE WorthReading(u)
    BY <1>1, <1>3, GoesOn DEF BeginUnit
<1>4. QED
    BY <1>2, <1>3

LEMMA ScreenOfferKeeps ==
    ASSUME UnitsInv, ScreenOffer
    PROVE  UnitsInv'
<1>1. /\ worker.pc = "extracted" /\ worker.pc \in AtUnit /\ worker.pc \in Extracted
      /\ UNCHANGED <<facts, match, alerts, digests, media, req, vision, history>>
    BY DEF ScreenOffer, AtUnit, Extracted
<1>2. PICK u \in worker.batch : u = worker.at /\ u \in Units
    BY <1>1, AtWork
<1>3. CASE worker.row.offer # "yes"
    <2>1. SetState(u, "done") /\ NextOfBatch(u)
        BY <1>2, <1>3 DEF ScreenOffer
    <2>2. facts[u].offer = "yes" => media[u].status = "downloaded"
        BY <1>1, <1>2, <1>3 DEF UnitsInv, RowIsStored
    <2>3. /\ NothingToTell(u)
          /\ ~(facts[u].offer = "yes" /\ (media[u].status = "downloaded" => unit[u].sweeps = 1))
        BY <1>1, <2>2, PassedOver
    <2>4. QED
        BY <1>1, <1>2, <2>1, <2>3, LeavesUnit
<1>4. CASE worker.row.offer = "yes"
    <2>1. SetState(u, "matching") /\ worker' = [worker EXCEPT !.pc = "matching"]
        BY <1>2, <1>4 DEF ScreenOffer, Goto
    <2>2. worker' = [worker EXCEPT !.pc = "matching", !.at = u]
        BY <1>2, <2>1 DEF UnitsInv, Types, WorkerRecords
    <2>3. QED
        BY <1>1, <1>2, <1>4, <2>1, <2>2, GoesOn
<1>5. QED
    BY <1>3, <1>4

LEMMA ExtractFactsKeeps ==
    ASSUME UnitsInv, NEW row, ExtractFacts(row)
    PROVE  UnitsInv'
<1> USE DEF UnitsInv
<1>1. /\ worker.pc = "extracting" /\ worker.pc \in AtUnit /\ worker \in WorkerRecords
      /\ worker' = [worker EXCEPT !.pc = "extracted", !.row = row]
      /\ UNCHANGED <<unit, match, alerts, digests, media, req, vision, history, troubles>>
    BY DEF ExtractFacts, AtUnit, Types
<1>2. PICK u \in Units : u = worker.at /\ u \in worker.batch /\ ~Fresh(u) /\ unit[u].state # "done"
    BY <1>1, AtWork
<1>3. row \in Facts /\ row.vision = "not_attempted" /\ row # NoFacts
      /\ (row.offer = "yes" => worker.claimed[u].text)
    <2>1. CASE row = Unread
        BY <2>1, UnreadIsNotAbsent
    <2>2. CASE row # Unread
        <3>1. row \in Extractions[u] /\ worker.claimed[u].text
            BY <1>2, <2>2 DEF ExtractFacts
        <3>2. row \in Facts /\ row.vision = "not_attempted"
            BY <3>1, UnitConstants
        <3>3. QED
            BY <3>1, <3>2, UnreadIsNotAbsent
    <2>3. QED
        BY <2>1, <2>2
<1>4. /\ facts' \in [Units -> Facts \cup {NoFacts}] /\ facts'[u] = row
      /\ \A v \in Units \ {u} : facts'[v] = facts[v]
    BY <1>2, <1>3 DEF ExtractFacts, Types, UnitsTypeOK
<1>5. "extracted" \in AtUnit /\ "extracted" \in Extracted
      /\ "extracted" \notin Sweeping \cup UnderRevision \cup {"finishing", "photographs"}
      /\ "extracting" \notin Sweeping
    BY DEF AtUnit, Extracted, Sweeping, UnderRevision
<1>6. /\ worker' \in WorkerRecords
      /\ worker'.pc = "extracted" /\ worker'.at = u /\ worker'.batch = worker.batch
      /\ worker'.claimed = worker.claimed /\ worker'.row = row /\ worker'.todo = worker.todo
      /\ worker'.found = worker.found /\ worker'.upgraded = worker.upgraded
    BY <1>1, <1>2, <1>3, <1>5 DEF WorkerRecords
<1>7. Types'
    BY <1>1, <1>4, <1>6 DEF Types, UnitsTypeOK, history
<1>8. SweptOnceClaimed'
    BY <1>1 DEF SweptOnceClaimed, Fresh
<1>9. WorkerIsAtWork'
    <2>1. worker.todo = {}
        BY <1>1, <1>5 DEF WorkerIsAtWork
    <2>2. QED
        BY <1>1, <1>2, <1>3, <1>5, <1>6, <2>1 DEF WorkerIsAtWork, Fresh
<1>10. RowIsStored'
    BY <1>4, <1>6 DEF RowIsStored
<1>11. OfferHasText'
    <2>1. row.offer = "yes" => unit[u].text /\ worker.claimed[u].text
        BY <1>3 DEF OfferHasText
    <2>2. QED
        BY <1>1, <1>4, <1>6, <2>1 DEF OfferHasText
<1>12. RevisionsInOrder'
    BY <1>1, <1>5, <1>6 DEF RevisionsInOrder, Pending
<1>13. \A v : Told(v)' <=> Told(v)
    BY <1>1 DEF Told, history
<1>14. PhotographsAreOfTold'
    <2>1. media[u].status # "absent" => unit[u].sweeps # 1
        BY <1>1, <1>2 DEF PhotographsAreOfTold
    <2>2. QED
        BY <1>1, <1>3, <1>4, <1>6, <1>13, <2>1 DEF PhotographsAreOfTold, Fresh
<1>15. VisionIsAtWork'
    BY <1>1 DEF VisionIsAtWork, history
<1>16. DoneIsTold'
    <2>1. ASSUME NEW v \in Units \ {u}, NothingToTell(v)
          PROVE  NothingToTell(v)'
        BY <1>1, <1>4, <2>1, NothingToTellKept DEF history
    <2>2. QED
        BY <1>1, <1>2, <1>6, <2>1 DEF DoneIsTold
<1>17. WorkerJudges' /\ SweepIsWhole' /\ FinishedIsJudged'
    BY <1>5, <1>6 DEF WorkerJudges, SweepIsWhole, FinishedIsJudged
<1>18. ArchiveIsRejudged'
    BY <1>1, <1>2, <1>4 DEF ArchiveIsRejudged, Pending
<1>19. VisionDoneIsJudged'
    BY <1>1, <1>3, <1>4 DEF VisionDoneIsJudged, history
<1>20. QED
    BY <1>7, <1>8, <1>9, <1>10, <1>11, <1>12, <1>14, <1>15, <1>16, <1>17, <1>18, <1>19

\* Whoever reads the active requirements finds or makes them.
LEMMA ActiveKeeps ==
    ASSUME UnitsInv, req' = ActiveRequirements,
           UNCHANGED <<unit, facts, match, alerts, digests, media, vision, history>>
    PROVE  /\ req' \in [revision : 0..MaxRevisions, generation : 0..MaxRevisions,
                        rematched : 0..MaxRevisions, saved : [Revisions -> Definitions]]
           /\ req'.generation = req'.revision /\ req'.rematched <= req'.generation
           /\ req'.revision \in 1..MaxRevisions /\ req.revision <= req'.revision
           /\ \A r \in 1..req.revision : req'.saved[r] = req.saved[r]
           /\ \A u \in Units : NothingToTell(u) => NothingToTell(u)'
           /\ \A u : Told(u) <=> Told(u)'
           /\ req' = req \/ Pending'
<1> USE DEF UnitsInv
<1>1. /\ req \in [revision : 0..MaxRevisions, generation : 0..MaxRevisions,
                  rematched : 0..MaxRevisions, saved : [Revisions -> Definitions]]
      /\ req.generation = req.revision /\ req.rematched <= req.generation
    BY DEF Types, UnitsTypeOK, RevisionsInOrder
<1>2. CASE req.revision = 0
    <2>1. /\ Default \in Definitions /\ req' = Saved(Default) /\ req.revision < MaxRevisions
        BY <1>2, UnitConstants DEF ActiveRequirements
    <2>2. /\ req' \in [revision : 0..MaxRevisions, generation : 0..MaxRevisions,
                       rematched : 0..MaxRevisions, saved : [Revisions -> Definitions]]
          /\ req'.generation = req'.revision /\ req'.rematched # req'.generation
          /\ req'.revision = req.revision + 1 /\ req'.rematched <= req'.generation
          /\ \A r \in 1..req.revision : req'.saved[r] = req.saved[r]
          /\ \A u \in Units : NothingToTell(u) => NothingToTell(u)'
          /\ \A u : Told(u) <=> Told(u)'
        BY <2>1, RequirementsKeep
    <2>3. req'.revision \in 1..MaxRevisions /\ req.revision <= req'.revision
        BY <1>2, <2>2, UnitConstants
    <2>4. QED
        BY <2>2, <2>3 DEF Pending
<1>3. CASE req.revision # 0
    <2>1. req' = req
        BY <1>3 DEF ActiveRequirements
    <2>2. req.revision \in 1..MaxRevisions /\ req.revision <= req.revision
        BY <1>1, <1>3, UnitConstants
    <2>3. \A u : Told(u) <=> Told(u)'
        BY DEF Told, history
    <2>4. \A u \in Units : NothingToTell(u) => NothingToTell(u)'
        BY <2>1, <2>3 DEF NothingToTell, Rejected, NoneAfter
    <2>5. QED
        BY <1>1, <2>1, <2>2, <2>3, <2>4
<1>4. QED
    BY <1>2, <1>3

\* The worker is under the revision that it has just read.
LEMMA ReadRevisionKeeps ==
    ASSUME UnitsInv, req' = ActiveRequirements,
           worker.pc = "matching" \/ worker.pc = "rematching",
           worker' = [worker EXCEPT !.pc = IF worker.pc = "matching" THEN "judging" ELSE "listing",
                                    !.revision = req'.revision],
           UNCHANGED <<unit, facts, match, alerts, digests, media, vision, history>>
    PROVE  UnitsInv'
<1> USE DEF UnitsInv
<1>1. /\ req' \in [revision : 0..MaxRevisions, generation : 0..MaxRevisions,
                   rematched : 0..MaxRevisions, saved : [Revisions -> Definitions]]
      /\ req'.generation = req'.revision /\ req'.rematched <= req'.generation
      /\ req'.revision \in 1..MaxRevisions /\ req.revision <= req'.revision
      /\ \A r \in 1..req.revision : req'.saved[r] = req.saved[r]
      /\ \A u \in Units : NothingToTell(u) => NothingToTell(u)'
      /\ \A u : Told(u) <=> Told(u)'
      /\ req' = req \/ Pending'
    BY ActiveKeeps
<1>2. PICK p \in {"judging", "listing"} :
        p = IF worker.pc = "matching" THEN "judging" ELSE "listing"
    OBVIOUS
<1>3. PICK n \in 0..MaxRevisions : n = req'.revision /\ n \in 1..MaxRevisions
    BY <1>1
<1>4. worker \in WorkerRecords /\ worker' = [worker EXCEPT !.pc = p, !.revision = n]
    BY <1>2, <1>3 DEF Types
<1>5. p \notin Sweeping \cup {"finishing", "photographs", "rematching", "next"} /\ p \in UnderRevision
      /\ (p \in AtUnit <=> worker.pc = "matching") /\ (p \in Extracted <=> worker.pc = "matching")
      /\ "matching" \in AtUnit /\ "matching" \in Extracted /\ "matching" \notin Sweeping
      /\ "rematching" \notin AtUnit \cup Sweeping
    BY <1>2 DEF AtUnit, Sweeping, UnderRevision, Extracted
<1>6. /\ worker' \in WorkerRecords /\ worker'.pc = p /\ worker'.revision = n
      /\ worker'.at = worker.at /\ worker'.batch = worker.batch /\ worker'.row = worker.row
      /\ worker'.claimed = worker.claimed /\ worker'.todo = worker.todo
      /\ worker'.found = worker.found /\ worker'.upgraded = worker.upgraded
      /\ worker'.generation = worker.generation
    BY <1>4, <1>5 DEF WorkerRecords
<1>7. Types'
    BY <1>1, <1>6 DEF Types, UnitsTypeOK, history
<1>8. SweptOnceClaimed'
    BY DEF SweptOnceClaimed, Fresh
<1>9. WorkerIsAtWork'
    <2>1. \A u \in worker.batch : ~Fresh(u)' /\ unit'[u].state # "done"
        BY DEF WorkerIsAtWork, Fresh
    <2>2. worker.pc \notin Sweeping /\ worker.todo = {}
        BY <1>5 DEF WorkerIsAtWork
    <2>3. QED
        BY <1>2, <1>5, <1>6, <2>1, <2>2 DEF WorkerIsAtWork, Sweeping
<1>10. RowIsStored'
    BY <1>5, <1>6 DEF RowIsStored, Sweeping
<1>11. OfferHasText'
    BY <1>6 DEF OfferHasText
<1>12. req.revision \in Nat /\ worker.generation \in Nat /\ vision.revision \in Nat
       /\ req.generation = req.revision /\ digests \subseteq 1..MaxRevisions
    BY DEF Types, UnitsTypeOK, WorkerRecords, VisionRecords, RevisionsInOrder, Revisions
<1>13. \A u \in Units, r \in Revisions : match[u][r] # "none" => r <= n
    BY <1>1, <1>3, <1>12 DEF RevisionsInOrder, Revisions
<1>14. RevisionsInOrder'
    <2>1. \A r \in digests : r <= n
        BY <1>1, <1>3, <1>12 DEF RevisionsInOrder
    <2>2. n \in 1..req'.revision
        BY <1>3
    <2>3. p = "listing" => worker.generation <= n
        BY <1>1, <1>2, <1>3, <1>12 DEF RevisionsInOrder
    <2>4. vision.pc = "judging" => vision.revision \in 1..req'.revision
        BY <1>1, <1>12 DEF RevisionsInOrder
    <2>5. QED
        BY <1>1, <1>3, <1>5, <1>6, <1>13, <2>1, <2>2, <2>3, <2>4 DEF RevisionsInOrder, Sweeping
<1>15. PhotographsAreOfTold'
    BY <1>1, <1>5, <1>6 DEF PhotographsAreOfTold, Fresh
<1>16. VisionIsAtWork' /\ VisionDoneIsJudged'
    BY DEF VisionIsAtWork, VisionDoneIsJudged, history
<1>17. DoneIsTold'
    BY <1>1, <1>5, <1>6 DEF DoneIsTold
<1>18. WorkerJudges'
    BY <1>6, <1>13 DEF WorkerJudges, NoneAfter
<1>19. SweepIsWhole' /\ FinishedIsJudged'
    BY <1>5, <1>6 DEF SweepIsWhole, FinishedIsJudged
<1>20. ArchiveIsRejudged'
    <2>1. CASE req' = req
        BY <2>1 DEF ArchiveIsRejudged, Pending
    <2>2. CASE Pending'
        BY <2>2 DEF ArchiveIsRejudged
    <2>3. QED
        BY <1>1, <2>1, <2>2
<1>21. QED
    BY <1>7, <1>8, <1>9, <1>10, <1>11, <1>14, <1>15, <1>16, <1>17, <1>18, <1>19, <1>20

LEMMA JudgeUnitKeeps ==
    ASSUME UnitsInv, JudgeUnit
    PROVE  UnitsInv'
<1> USE DEF UnitsInv
<1>1. /\ worker.pc = "judging" /\ worker.pc \in AtUnit /\ worker.pc \in Extracted
      /\ worker.pc \in UnderRevision /\ worker \in WorkerRecords
      /\ UNCHANGED <<unit, facts, digests, media, req, vision, listed, troubles>>
    BY DEF JudgeUnit, AtUnit, Extracted, UnderRevision, Types
<1>2. PICK u \in Units : u = worker.at /\ u \in worker.batch /\ ~Fresh(u) /\ unit[u].state # "done"
    BY <1>1, AtWork
<1>3. PICK row \in Facts : row = worker.row /\ row.offer = "yes"
    BY <1>1 DEF WorkerIsAtWork, WorkerRecords, Extracted
<1>4. PICK r \in Revisions : r = worker.revision /\ r <= req.revision
    <2>1. worker.revision \in 1..req.revision /\ req.revision \in 0..MaxRevisions
        BY <1>1 DEF RevisionsInOrder, Types, UnitsTypeOK
    <2>2. QED
        BY <2>1, UnitConstants DEF Revisions
<1>5. PICK verdict \in Verdicts : verdict = Judge(row, req.saved[r])
    BY JudgeTyped
<1>6. PICK alert \in SUBSET (Units \X {"possible", "confirmed"} \X {"live", "update"}) :
        alert = IF Admits(verdict) THEN {<<u, verdict, "live">>} ELSE {}
    <2>1. CASE Admits(verdict)
        <3>1. verdict \in {"possible", "confirmed"}
            BY <2>1 DEF Admits, Verdicts
        <3>2. {<<u, verdict, "live">>} \in SUBSET (Units \X {"possible", "confirmed"} \X {"live", "update"})
            BY <3>1
        <3>3. QED
            BY <2>1, <3>2
    <2>2. CASE ~Admits(verdict)
        BY <2>2
    <2>3. QED
        BY <2>1, <2>2
<1>7. RecordMatchWithAlert(u, r, verdict, alert) /\ Note(u, row)
    BY <1>2, <1>3, <1>4, <1>5, <1>6 DEF JudgeUnit
<1>8. /\ match' \in [Units -> [Revisions -> Verdicts \cup {"none"}]]
      /\ alerts' \subseteq Units \X {"possible", "confirmed"} \X {"live", "update"}
      /\ alerts \subseteq alerts' /\ alert \subseteq alerts' /\ match'[u][r] = verdict
      /\ \A s \in Revisions \ {r} : match'[u][s] = match[u][s]
      /\ \A v \in Units \ {u} : match'[v] = match[v]
    BY <1>7, MatchRecorded
<1>9. /\ judgedOn' \in [Units -> SUBSET Facts]
      /\ \A v \in Units : judgedOn[v] \subseteq judgedOn'[v]
    BY <1>7, Noted
<1>10. PICK p \in {"photographs", "finishing"} :
        p = (IF Admits(verdict) THEN "photographs" ELSE "finishing")
    OBVIOUS
<1>11. worker' = [worker EXCEPT !.pc = p]
    BY <1>2, <1>3, <1>4, <1>5, <1>10 DEF JudgeUnit, Goto
<1>12. p \in AtUnit /\ p \in Extracted /\ p \in UnderRevision /\ p \notin Sweeping
       /\ "judging" \notin Sweeping
    BY DEF AtUnit, Extracted, UnderRevision, Sweeping
<1>13. /\ worker' \in WorkerRecords /\ worker'.pc = p /\ worker'.revision = worker.revision
       /\ worker'.at = worker.at /\ worker'.batch = worker.batch /\ worker'.row = worker.row
       /\ worker'.claimed = worker.claimed /\ worker'.todo = worker.todo
       /\ worker'.found = worker.found /\ worker'.upgraded = worker.upgraded
    BY <1>1, <1>11, <1>12 DEF WorkerRecords
<1>14. \A v : Told(v) => Told(v)'
    BY <1>1, <1>8, ToldKept
<1>15. Admits(verdict) => Told(u)'
    <2>1. SUFFICES ASSUME Admits(verdict)
                   PROVE  Told(u)'
        OBVIOUS
    <2>2. <<u, verdict, "live">> \in alerts' /\ <<u, verdict, "live">>[1] = u
        BY <1>6, <1>8, <2>1
    <2>3. QED
        BY <2>2 DEF Told
<1>16. \A v \in Units, s \in Revisions : match[v][s] # "none" => match'[v][s] # "none"
    BY <1>5, <1>8 DEF Verdicts
<1>17. Types'
    BY <1>1, <1>8, <1>9, <1>13 DEF Types, UnitsTypeOK
<1>18. SweptOnceClaimed'
    BY <1>1 DEF SweptOnceClaimed, Fresh
<1>19. WorkerIsAtWork'
    <2>1. \A v \in worker.batch : ~Fresh(v)' /\ unit'[v].state # "done"
        BY <1>1 DEF WorkerIsAtWork, Fresh
    <2>2. QED
        BY <1>1, <1>2, <1>3, <1>12, <1>13, <2>1 DEF WorkerIsAtWork, Sweeping
<1>20. RowIsStored' /\ OfferHasText'
    BY <1>1, <1>13 DEF RowIsStored, OfferHasText
<1>21. RevisionsInOrder'
    <2>1. \A v \in Units, s \in Revisions : match'[v][s] # "none" => s <= req.revision
        BY <1>4, <1>8 DEF RevisionsInOrder
    <2>2. QED
        BY <1>1, <1>12, <1>13, <2>1 DEF RevisionsInOrder, Pending
<1>22. PhotographsAreOfTold'
    BY <1>1, <1>13, <1>14 DEF PhotographsAreOfTold, Fresh
<1>23. VisionIsAtWork' /\ VisionDoneIsJudged'
    <2>1. vision.todo \in SUBSET Units
        BY DEF Types, VisionRecords
    <2>2. QED
        BY <1>1, <1>9, <2>1 DEF VisionIsAtWork, VisionDoneIsJudged
<1>24. ASSUME NEW v \in Units \ {u}, NothingToTell(v)
       PROVE  NothingToTell(v)'
    BY <1>1, <1>8, <1>24, NothingToTellKept
<1>25. ~Admits(verdict) => NothingToTell(u)'
    <2>1. SUFFICES ASSUME ~Admits(verdict), ~Told(u)
                   PROVE  NothingToTell(u)'
        BY <1>14 DEF NothingToTell
    <2>2. verdict = "hard_miss" /\ media[u].status # "downloaded"
        BY <2>1 DEF Admits, PhotographsAreOfTold
    <2>3. facts[u] = row
        BY <1>1, <1>2, <1>3, <2>2 DEF RowIsStored
    <2>4. NoneAfter(u, r)'
        BY <1>1, <1>4, <1>8, <2>1 DEF WorkerJudges, NoneAfter, Revisions
    <2>5. Rejected(u)'
        BY <1>8, <2>2, <2>4 DEF Rejected
    <2>6. ASSUME NEW q \in digests, NoneAfter(u, q)'
          PROVE  q = r
        <3>1. q \in Revisions /\ q <= r
            BY <1>1, <1>4 DEF RevisionsInOrder, Types, UnitsTypeOK
        <3>2. r <= q
            BY <1>8, <2>2, <2>6 DEF NoneAfter
        <3>3. QED
            BY <3>1, <3>2 DEF Revisions
    <2>7. Judge(facts[u], req.saved[r]) = "hard_miss"
        BY <1>5, <2>2, <2>3
    <2>8. \A q \in digests : NoneAfter(u, q)' => Judge(facts[u], req.saved[q]) = "hard_miss"
        BY <2>6, <2>7
    <2>9. QED
        BY <1>1, <2>5, <2>8 DEF NothingToTell
<1>26. DoneIsTold'
    BY <1>1, <1>2, <1>10, <1>13, <1>15, <1>24, <1>25 DEF DoneIsTold
<1>27. WorkerJudges'
    <2>1. ASSUME NEW v \in Units, NoneAfter(v, r)
          PROVE  NoneAfter(v, r)'
        BY <1>8, <2>1 DEF NoneAfter, Revisions
    <2>2. QED
        BY <1>1, <1>4, <1>13, <1>14, <2>1 DEF WorkerJudges
<1>28. SweepIsWhole'
    BY <1>12, <1>13 DEF SweepIsWhole
<1>29. FinishedIsJudged'
    BY <1>2, <1>4, <1>5, <1>8, <1>13 DEF FinishedIsJudged, Verdicts
<1>30. ArchiveIsRejudged'
    <2>1. req.revision > 0 => req.revision \in Revisions
        BY DEF Types, UnitsTypeOK, Revisions
    <2>2. QED
        BY <1>1, <1>16, <2>1 DEF ArchiveIsRejudged, Pending
<1>31. QED
    BY <1>17, <1>18, <1>19, <1>20, <1>21, <1>22, <1>23, <1>26, <1>27, <1>28, <1>29, <1>30

LEMMA RequestKeeps ==
    ASSUME UnitsInv, RequestPhotographs
    PROVE  UnitsInv'
<1> USE DEF UnitsInv
<1>1. /\ worker.pc = "photographs" /\ worker.pc \in AtUnit /\ worker.pc \in Extracted
      /\ worker.pc \in UnderRevision /\ worker \in WorkerRecords
      /\ worker' = [worker EXCEPT !.pc = "finishing"]
      /\ UNCHANGED <<unit, facts, match, alerts, digests, req, vision, history, troubles>>
    BY DEF RequestPhotographs, AtUnit, Extracted, UnderRevision, Types, Goto
<1>2. PICK u \in Units : u = worker.at /\ u \in worker.batch /\ ~Fresh(u) /\ unit[u].state # "done"
    BY <1>1, AtWork
<1>3. "finishing" \in AtUnit /\ "finishing" \in Extracted /\ "finishing" \in UnderRevision
      /\ "finishing" \notin Sweeping /\ "photographs" \notin Sweeping
    BY DEF AtUnit, Extracted, UnderRevision, Sweeping
<1>4. /\ worker' \in WorkerRecords /\ worker'.pc = "finishing" /\ worker'.at = u
      /\ worker'.batch = worker.batch /\ worker'.row = worker.row
      /\ worker'.revision = worker.revision
      /\ worker'.claimed = worker.claimed /\ worker'.todo = worker.todo
      /\ worker'.found = worker.found /\ worker'.upgraded = worker.upgraded
    BY <1>1, <1>2, <1>3 DEF WorkerRecords
<1>5. /\ media' \in [Units -> [status : {"absent", "pending", "downloaded", "failed", "failed_gone"},
                               attempts : 0..MaxAttempts]]
      /\ \A v \in Units \ {u} : media'[v] = media[v]
      /\ media[u].status # "absent" => media'[u] = media[u]
    <2>1. media \in [Units -> [status : {"absent", "pending", "downloaded", "failed", "failed_gone"},
                               attempts : 0..MaxAttempts]]
        BY DEF Types, UnitsTypeOK
    <2>2. CASE media' = media
        BY <2>1, <2>2
    <2>3. CASE media' # media
        <3>1. PICK s \in {"downloaded", "pending"} :
                s = IF OnDisk(PhotoOf[u]) THEN "downloaded" ELSE "pending"
            OBVIOUS
        <3>2. media[u].status = "absent" /\ media' = [media EXCEPT ![u].status = s]
            BY <1>2, <2>3, <3>1 DEF RequestPhotographs
        <3>3. QED
            BY <2>1, <3>1, <3>2
    <2>4. QED
        BY <2>2, <2>3
<1>6. \A v \in Units : media[v].status = "downloaded" => media'[v].status = "downloaded"
    BY <1>5
<1>7. Told(u)
    BY <1>1, <1>2 DEF DoneIsTold
<1>8. Types'
    BY <1>1, <1>4, <1>5 DEF Types, UnitsTypeOK, history
<1>9. SweptOnceClaimed'
    BY <1>1 DEF SweptOnceClaimed, Fresh
<1>10. WorkerIsAtWork'
    <2>1. \A v \in worker.batch : ~Fresh(v)' /\ unit'[v].state # "done"
        BY <1>1 DEF WorkerIsAtWork, Fresh
    <2>2. worker.row # NoFacts /\ worker.row.offer = "yes"
        BY <1>1 DEF WorkerIsAtWork, Extracted
    <2>3. QED
        BY <1>1, <1>2, <1>3, <1>4, <2>1, <2>2 DEF WorkerIsAtWork
<1>11. RowIsStored'
    BY <1>1, <1>2, <1>4, <1>6 DEF RowIsStored
<1>12. OfferHasText'
    BY <1>1, <1>4, <1>6 DEF OfferHasText
<1>13. RevisionsInOrder' /\ FinishedIsJudged'
    BY <1>1, <1>2, <1>3, <1>4 DEF RevisionsInOrder, Pending, FinishedIsJudged
<1>14. \A v : Told(v)' <=> Told(v)
    BY <1>1 DEF Told, history
<1>15. PhotographsAreOfTold'
    <2>1. ASSUME NEW v \in Units, media'[v].status # "absent", media[v].status # "absent"
          PROVE  /\ Told(v) /\ facts[v] # NoFacts /\ req.revision # 0 /\ ~Fresh(v)
                 /\ unit[v].sweeps = 1 => facts[v].offer = "yes" /\ v \notin worker.batch
        BY <1>1, <2>1 DEF PhotographsAreOfTold
    <2>2. ASSUME media[u].status = "absent"
          PROVE  facts[u] # NoFacts /\ facts[u].offer = "yes" /\ req.revision # 0
        <3>1. facts[u] = worker.row /\ worker.row # NoFacts /\ worker.row.offer = "yes"
            BY <1>1, <1>2, <2>2 DEF RowIsStored, WorkerIsAtWork, Extracted
        <3>2. worker.revision \in 1..req.revision
            BY <1>1 DEF RevisionsInOrder
        <3>3. QED
            BY <3>1, <3>2
    <2>3. \A v \in Units : media'[v].status # "absent" /\ media[v].status = "absent" => v = u
        BY <1>5
    <2>4. QED
        BY <1>1, <1>2, <1>4, <1>7, <1>14, <2>1, <2>2, <2>3 DEF PhotographsAreOfTold, Fresh
<1>16. VisionIsAtWork' /\ VisionDoneIsJudged'
    <2>1. vision.todo \in SUBSET Units
        BY DEF Types, VisionRecords
    <2>2. QED
        BY <1>1, <1>6, <2>1 DEF VisionIsAtWork, VisionDoneIsJudged, history
<1>17. \A v : NothingToTell(v)' <=> NothingToTell(v)
    BY <1>1, <1>14 DEF NothingToTell, Rejected, NoneAfter
<1>18. DoneIsTold'
    <2>1. NothingToTell(u)
        BY <1>7 DEF NothingToTell
    <2>2. QED
        BY <1>1, <1>4, <1>17, <2>1 DEF DoneIsTold
<1>19. WorkerJudges' /\ SweepIsWhole'
    BY <1>1, <1>3, <1>4, <1>14 DEF WorkerJudges, NoneAfter, SweepIsWhole
<1>20. ArchiveIsRejudged'
    BY <1>1, <1>6 DEF ArchiveIsRejudged, Pending
<1>21. QED
    BY <1>8, <1>9, <1>10, <1>11, <1>12, <1>13, <1>15, <1>16, <1>18, <1>19, <1>20

LEMMA ReadRequirementsKeeps ==
    ASSUME UnitsInv, ReadRequirements \/ BeginSweep
    PROVE  UnitsInv'
<1>1. /\ req' = ActiveRequirements
      /\ worker.pc = "matching" \/ worker.pc = "rematching"
      /\ worker' = [worker EXCEPT !.pc = IF worker.pc = "matching" THEN "judging" ELSE "listing",
                                  !.revision = req'.revision]
      /\ UNCHANGED <<unit, facts, match, alerts, digests, media, vision, history>>
    BY DEF ReadRequirements, BeginSweep
<1>2. QED
    BY <1>1, ReadRevisionKeeps

-----------------------------------------------------------------------------
(***************************************************************************)
(* The sweep of the archive.                                               *)
(***************************************************************************)

\* A step of the worker's own memory, with no batch in hand.
LEMMA SweepMemoryKeeps ==
    ASSUME UnitsInv, worker' \in WorkerRecords, worker'.batch = {},
           worker'.claimed = worker.claimed \/ \A u \in Units : ~worker'.claimed[u].text,
           worker'.pc \in {"rematching", "sweeping", "weighing"},
           WorkerIsAtWork', RowIsStored', RevisionsInOrder', WorkerJudges', SweepIsWhole',
           judgedOn' \in [Units -> SUBSET Facts],
           \A u \in Units : judgedOn[u] \subseteq judgedOn'[u],
           UNCHANGED <<tables, vision, listed>>
    PROVE  UnitsInv'
<1> USE DEF UnitsInv
<1>1. Types'
    BY DEF Types, UnitsTypeOK, tables
<1>2. SweptOnceClaimed' /\ OfferHasText'
    BY DEF SweptOnceClaimed, Fresh, OfferHasText, tables
<1>3. \A v : Told(v)' <=> Told(v)
    BY DEF Told, tables
<1>4. PhotographsAreOfTold'
    BY <1>3 DEF PhotographsAreOfTold, Fresh, tables
<1>5. VisionIsAtWork' /\ VisionDoneIsJudged'
    <2>1. vision.todo \in SUBSET Units
        BY DEF Types, VisionRecords
    <2>2. QED
        BY <2>1 DEF VisionIsAtWork, VisionDoneIsJudged, tables
<1>6. DoneIsTold'
    BY <1>3 DEF DoneIsTold, NothingToTell, Rejected, NoneAfter, tables
<1>7. FinishedIsJudged' /\ ArchiveIsRejudged'
    BY DEF FinishedIsJudged, ArchiveIsRejudged, Pending, tables
<1>8. QED
    BY <1>1, <1>2, <1>4, <1>5, <1>6, <1>7

LEMMA CheckRematchKeeps ==
    ASSUME UnitsInv, CheckRematch
    PROVE  UnitsInv'
<1> USE DEF UnitsInv
<1>1. /\ worker \in WorkerRecords /\ worker.pc \in {"next", "idle"} /\ worker.batch = {}
      /\ worker.pc \notin AtUnit \cup Sweeping
      /\ UNCHANGED <<tables, vision, history, troubles>>
    BY DEF CheckRematch, WorkerIsAtWork, Types, AtUnit, Sweeping
<1>2. CASE ~Pending
    <2>1. worker' = Asleep
        BY <1>2 DEF CheckRematch
    <2>2. QED
        BY <1>1, <2>1, FallsAsleep
<1>3. CASE Pending
    <2>1. PICK g \in 0..MaxRevisions : g = req.generation
        BY DEF Types, UnitsTypeOK
    <2>2. worker' = [worker EXCEPT !.pc = "rematching", !.generation = g]
        BY <1>3, <2>1 DEF CheckRematch
    <2>3. /\ worker' \in WorkerRecords /\ worker'.pc = "rematching" /\ worker'.generation = g
          /\ worker'.at = worker.at /\ worker'.batch = {} /\ worker'.claimed = worker.claimed
          /\ worker'.todo = worker.todo /\ worker'.found = worker.found
          /\ worker'.upgraded = worker.upgraded
        BY <1>1, <2>2 DEF WorkerRecords
    <2>4. "rematching" \notin AtUnit \cup Sweeping \cup Extracted \cup UnderRevision \cup {"next"}
        BY DEF AtUnit, Sweeping, Extracted, UnderRevision
    <2>5. WorkerIsAtWork' /\ RowIsStored' /\ WorkerJudges' /\ SweepIsWhole'
        BY <1>1, <2>3, <2>4 DEF WorkerIsAtWork, RowIsStored, WorkerJudges, SweepIsWhole
    <2>6. RevisionsInOrder'
        BY <1>1, <2>1, <2>3, <2>4 DEF RevisionsInOrder, Pending, tables
    <2>7. QED
        BY <1>1, <2>3, <2>5, <2>6, SweepMemoryKeeps DEF Types, history
<1>4. QED
    BY <1>2, <1>3

LEMMA ListUnitsKeeps ==
    ASSUME UnitsInv, ListUnits
    PROVE  UnitsInv'
<1> USE DEF UnitsInv
<1>1. /\ worker \in WorkerRecords /\ worker.pc = "listing" /\ worker.pc \in UnderRevision
      /\ worker.pc \notin AtUnit \cup Sweeping \cup {"next"}
      /\ "sweeping" \notin AtUnit \cup {"next"} /\ "sweeping" \in Sweeping
      /\ "sweeping" \in UnderRevision /\ "sweeping" \notin Extracted \cup {"weighing"}
      /\ UNCHANGED <<tables, vision, history, troubles>>
    BY DEF ListUnits, Types, AtUnit, Sweeping, Extracted, UnderRevision
<1>2. PICK offers \in SUBSET Units : offers = UnitsForRematch
    BY DEF UnitsForRematch
<1>3. worker' = [worker EXCEPT !.pc = "sweeping", !.todo = offers]
    BY <1>2 DEF ListUnits
<1>4. /\ worker' \in WorkerRecords /\ worker'.pc = "sweeping" /\ worker'.todo = offers
      /\ worker'.at = worker.at /\ worker'.batch = worker.batch
      /\ worker'.claimed = worker.claimed /\ worker'.found = worker.found
      /\ worker'.upgraded = worker.upgraded /\ worker'.revision = worker.revision
      /\ worker'.generation = worker.generation
    BY <1>1, <1>3 DEF WorkerRecords, Sweeping
<1>5. /\ worker.at = NoUnit /\ worker.batch = {} /\ worker.upgraded = {}
      /\ worker.found = [u \in Units |-> "none"]
    BY <1>1 DEF WorkerIsAtWork
<1>6. \A u \in offers : facts[u] # NoFacts
    BY <1>2, UnreadIsNotAbsent DEF UnitsForRematch
<1>7. WorkerIsAtWork'
    BY <1>1, <1>4, <1>5, <1>6 DEF WorkerIsAtWork, tables
<1>8. RowIsStored'
    BY <1>1, <1>4 DEF RowIsStored
<1>9. RevisionsInOrder'
    BY <1>1, <1>4 DEF RevisionsInOrder, Pending, tables
<1>10. WorkerJudges'
    BY <1>1, <1>4 DEF WorkerJudges, NoneAfter, Told, history, tables
<1>11. SweepIsWhole'
    <2>1. ASSUME NEW u \in Units, Archived(u)'
          PROVE  u \in offers /\ worker.found[u] = "none"
        BY <1>1, <1>2, <1>5, <2>1 DEF Archived, UnitsForRematch, tables
    <2>2. QED
        BY <1>4, <2>1 DEF SweepIsWhole
<1>12. QED
    BY <1>1, <1>4, <1>5, <1>7, <1>8, <1>9, <1>10, <1>11, SweepMemoryKeeps DEF Types, history

LEMMA SweepFactsKeeps ==
    ASSUME UnitsInv, NEW u \in Units, SweepFacts(u)
    PROVE  UnitsInv'
<1> USE DEF UnitsInv
<1>1. /\ worker \in WorkerRecords /\ worker.pc = "sweeping" /\ worker.pc \in UnderRevision
      /\ u \in worker.todo /\ worker.pc \in Sweeping
      /\ worker.pc \notin AtUnit \cup {"next"}
      /\ "weighing" \notin AtUnit \cup {"next"} /\ "weighing" \in Sweeping
      /\ "weighing" \in UnderRevision /\ "weighing" \notin Extracted
      /\ UNCHANGED <<tables, vision, history, troubles>>
    BY DEF SweepFacts, Types, AtUnit, Sweeping, UnderRevision, Extracted
<1>2. PICK row \in Facts : row = facts[u] /\ row # NoFacts
    BY <1>1 DEF WorkerIsAtWork, Types, UnitsTypeOK
<1>3. worker' = [worker EXCEPT !.pc = "weighing", !.at = u, !.row = row]
    BY <1>2 DEF SweepFacts
<1>4. /\ worker' \in WorkerRecords /\ worker'.pc = "weighing" /\ worker'.todo = worker.todo
      /\ worker'.at = u /\ worker'.row = row /\ worker'.batch = worker.batch
      /\ worker'.claimed = worker.claimed /\ worker'.found = worker.found
      /\ worker'.upgraded = worker.upgraded /\ worker'.revision = worker.revision
      /\ worker'.generation = worker.generation
    BY <1>1, <1>3 DEF WorkerRecords
<1>5. worker.batch = {}
    BY <1>1 DEF WorkerIsAtWork
<1>6. WorkerIsAtWork'
    BY <1>1, <1>2, <1>4, <1>5 DEF WorkerIsAtWork, tables
<1>7. RowIsStored'
    BY <1>1, <1>2, <1>4 DEF RowIsStored, tables
<1>8. RevisionsInOrder'
    BY <1>1, <1>4 DEF RevisionsInOrder, Pending, tables
<1>9. WorkerJudges'
    BY <1>1, <1>4 DEF WorkerJudges, NoneAfter, Told, history, tables
<1>10. SweepIsWhole'
    BY <1>1, <1>4 DEF SweepIsWhole, Archived, Told, history, tables
<1>11. QED
    BY <1>1, <1>4, <1>5, <1>6, <1>7, <1>8, <1>9, <1>10, SweepMemoryKeeps DEF Types, history

\* What is upgraded was rejected, if the owner does not know it.
LEMMA SweepJudgeKeeps ==
    ASSUME UnitsInv, SweepJudge
    PROVE  UnitsInv'
<1> USE DEF UnitsInv
<1>1. /\ worker \in WorkerRecords /\ worker.pc = "weighing" /\ worker.pc \in UnderRevision
      /\ worker.pc \in Sweeping /\ worker.at \in worker.todo
      /\ worker.pc \notin AtUnit \cup {"next"}
      /\ "sweeping" \notin AtUnit \cup {"next"} /\ "sweeping" \in Sweeping
      /\ "sweeping" \in UnderRevision /\ "sweeping" \notin Extracted \cup {"weighing"}
      /\ UNCHANGED <<tables, vision, listed, troubles>>
    BY DEF SweepJudge, Types, WorkerIsAtWork, AtUnit, Sweeping, UnderRevision, Extracted
<1>2. PICK u \in Units : u = worker.at
    BY <1>1 DEF WorkerRecords
<1>3. PICK row \in Facts : row = worker.row
    BY <1>1 DEF WorkerIsAtWork, WorkerRecords
<1>4. PICK verdict \in Verdicts : verdict = Judge(row, req.saved[worker.revision])
    BY JudgeTyped
<1>5. PICK rest \in SUBSET Units : rest = worker.todo \ {u}
    BY <1>1 DEF WorkerRecords
<1>6. PICK found \in [Units -> Verdicts \cup {"none"}] :
        /\ found = [worker.found EXCEPT ![u] = verdict] /\ found[u] = verdict
        /\ \A v \in Units \ {u} : found[v] = worker.found[v]
    <2>1. worker.found \in [Units -> Verdicts \cup {"none"}]
        BY <1>1 DEF WorkerRecords
    <2>2. [worker.found EXCEPT ![u] = verdict] \in [Units -> Verdicts \cup {"none"}]
        BY <2>1
    <2>3. QED
        BY <2>1, <2>2
<1>7. PICK upgraded \in SUBSET Units :
        /\ upgraded = IF Admits(verdict) /\ LatestMatch(u) \in {"none", "hard_miss"}
                      THEN worker.upgraded \cup {u} ELSE worker.upgraded
    <2>1. worker.upgraded \in SUBSET Units /\ worker.upgraded \cup {u} \in SUBSET Units
        BY <1>1 DEF WorkerRecords
    <2>2. QED
        BY <2>1
<1>8. worker.upgraded \subseteq upgraded
      /\ (Admits(verdict) /\ LatestMatch(u) \in {"none", "hard_miss"} => u \in upgraded)
    BY <1>7
<1>9. worker' = [worker EXCEPT !.pc = "sweeping", !.todo = rest, !.at = NoUnit, !.row = NoFacts,
                               !.found = found, !.upgraded = upgraded]
    BY <1>2, <1>3, <1>4, <1>5, <1>6, <1>7 DEF SweepJudge
<1>10. /\ worker' \in WorkerRecords /\ worker'.pc = "sweeping" /\ worker'.todo = rest
       /\ worker'.at = NoUnit /\ worker'.batch = worker.batch
       /\ worker'.claimed = worker.claimed /\ worker'.found = found
       /\ worker'.upgraded = upgraded /\ worker'.revision = worker.revision
       /\ worker'.generation = worker.generation
    <2>1. worker' \in WorkerRecords
        BY <1>1, <1>9 DEF WorkerRecords
    <2>2. QED
        BY <1>1, <1>9, <2>1 DEF WorkerRecords
<1>11. worker.batch = {}
    BY <1>1 DEF WorkerIsAtWork
<1>12. judgedOn' \in [Units -> SUBSET Facts] /\ \A v \in Units : judgedOn[v] \subseteq judgedOn'[v]
    <2>1. Note(u, row)
        BY <1>2, <1>3 DEF SweepJudge
    <2>2. QED
        BY <2>1, Noted
<1>13. WorkerIsAtWork'
    <2>1. \A v \in rest : facts[v] # NoFacts
        BY <1>5 DEF WorkerIsAtWork
    <2>2. QED
        BY <1>1, <1>10, <1>11, <2>1 DEF WorkerIsAtWork, tables
<1>14. RowIsStored'
    BY <1>1, <1>10 DEF RowIsStored
<1>15. RevisionsInOrder'
    BY <1>1, <1>10 DEF RevisionsInOrder, Pending, tables
<1>16. \A v : Told(v)' <=> Told(v)
    BY <1>1 DEF Told, tables
<1>17. WorkerJudges'
    BY <1>1, <1>10, <1>16 DEF WorkerJudges, NoneAfter, tables
<1>18. SweepIsWhole'
    <2>1. \A v \in Units : Archived(v)' <=> Archived(v)
        BY <1>1 DEF Archived, tables
    <2>2. ASSUME NEW v \in Units \ {u}, Archived(v)
          PROVE  /\ v \in rest \/ found[v] # "none"
                 /\ found[v] # "none" /\ ~Told(v) =>
                    /\ found[v] = Judge(facts[v], req.saved[worker.revision])
                    /\ Admits(found[v]) => v \in upgraded
        BY <1>1, <1>5, <1>6, <1>8, <2>2 DEF SweepIsWhole
    <2>3. ASSUME Archived(u), ~Told(u)
          PROVE  /\ verdict = Judge(facts[u], req.saved[worker.revision])
                 /\ Admits(verdict) => u \in upgraded
        <3>1. media[u].status # "downloaded"
            BY <2>3 DEF PhotographsAreOfTold
        <3>2. facts[u] = row
            BY <1>1, <1>2, <1>3, <3>1 DEF RowIsStored
        <3>3. Rejected(u)
            BY <2>3 DEF Archived, DoneIsTold, NothingToTell
        <3>4. LatestMatch(u) = "hard_miss"
            BY <3>3, RejectedIsLatest
        <3>5. QED
            BY <1>4, <1>8, <3>2, <3>4
    <2>4. found[u] # "none"
        BY <1>6 DEF Verdicts
    <2>5. req' = req /\ facts' = facts
        BY <1>1 DEF tables
    <2>6. QED
        BY <1>6, <1>10, <1>16, <2>1, <2>2, <2>3, <2>4, <2>5 DEF SweepIsWhole
<1>19. QED
    BY <1>1, <1>10, <1>11, <1>12, <1>13, <1>14, <1>15, <1>17, <1>18, SweepMemoryKeeps

LEMMA RecordRematchKeeps ==
    ASSUME UnitsInv, RecordRematch
    PROVE  UnitsInv'
<1> USE DEF UnitsInv
<1>1. /\ worker \in WorkerRecords /\ worker.pc = "sweeping" /\ worker.pc \in Sweeping
      /\ worker.pc \in UnderRevision /\ worker.pc \notin AtUnit \cup {"next"} /\ worker.todo = {}
      /\ worker' = Asleep
      /\ UNCHANGED <<unit, facts, alerts, media, vision, judgedOn, troubles>>
    BY DEF RecordRematch, Types, Sweeping, UnderRevision, AtUnit
<1>2. /\ req \in [revision : 0..MaxRevisions, generation : 0..MaxRevisions,
                  rematched : 0..MaxRevisions, saved : [Revisions -> Definitions]]
      /\ req.generation = req.revision /\ digests \subseteq Revisions
    BY DEF Types, UnitsTypeOK, RevisionsInOrder
<1>3. PICK r \in Revisions : r = worker.revision /\ r <= req.revision
    <2>1. worker.revision \in 1..req.revision
        BY <1>1 DEF RevisionsInOrder
    <2>2. QED
        BY <1>2, <2>1, UnitConstants DEF Revisions
<1>4. PICK g \in 0..MaxRevisions : g = worker.generation /\ g <= r
    BY <1>1, <1>3 DEF RevisionsInOrder, WorkerRecords
<1>5. /\ req' \in [revision : 0..MaxRevisions, generation : 0..MaxRevisions,
                   rematched : 0..MaxRevisions, saved : [Revisions -> Definitions]]
      /\ req'.revision = req.revision /\ req'.generation = req.generation
      /\ req'.rematched = g /\ req'.saved = req.saved
    <2>1. req' = [req EXCEPT !.rematched = g]
        BY <1>4 DEF RecordRematch, RematchedTo
    <2>2. QED
        BY <1>2, <2>1
<1>6. PICK found \in [Units -> Verdicts \cup {"none"}] : found = worker.found
    BY <1>1 DEF WorkerRecords
<1>7. match' = [u \in Units |-> IF found[u] # "none" THEN [match[u] EXCEPT ![r] = found[u]]
                                ELSE match[u]]
    BY <1>3, <1>6 DEF RecordRematch
<1>8. /\ match' \in [Units -> [Revisions -> Verdicts \cup {"none"}]]
      /\ \A u \in Units : /\ found[u] # "none" => match'[u][r] = found[u]
                          /\ found[u] = "none" => match'[u] = match[u]
                          /\ \A s \in Revisions \ {r} : match'[u][s] = match[u][s]
    <2>1. match \in [Units -> [Revisions -> Verdicts \cup {"none"}]]
        BY DEF Types, UnitsTypeOK
    <2>2. QED
        BY <1>7, <2>1
<1>9. /\ worker.upgraded # {} /\ r \notin digests =>
            digests' = digests \cup {r} /\ listed' = listed \cup worker.upgraded
      /\ ~(worker.upgraded # {} /\ r \notin digests) => digests' = digests /\ listed' = listed
    BY <1>3 DEF RecordRematch
<1>10. /\ listed \subseteq listed' /\ listed' \in SUBSET Units
       /\ digests' \subseteq digests \cup {r}
    BY <1>1, <1>9 DEF Types, WorkerRecords
<1>11. \A v : Told(v) => Told(v)'
    BY <1>1, <1>10, ToldKept
<1>12. \A q \in digests' : q \in Revisions /\ q <= r /\ q <= req.revision
    BY <1>1, <1>2, <1>3, <1>10 DEF RevisionsInOrder, Revisions
<1>13. /\ Asleep \in WorkerRecords
       /\ worker'.pc = "idle" /\ worker'.batch = {} /\ worker'.at = NoUnit /\ worker'.todo = {}
       /\ worker'.upgraded = {} /\ worker'.found = [u \in Units |-> "none"]
       /\ \A u \in Units : ~worker'.claimed[u].text
    BY <1>1, UnitConstants DEF Asleep, WorkerRecords, NoSnapshot
<1>14. "idle" \notin AtUnit \cup Sweeping \cup UnderRevision \cup Extracted
    BY DEF AtUnit, Sweeping, UnderRevision, Extracted
<1>15. Types'
    BY <1>1, <1>5, <1>8, <1>10, <1>12, <1>13 DEF Types, UnitsTypeOK
<1>16. SweptOnceClaimed' /\ WorkerIsAtWork' /\ RowIsStored' /\ OfferHasText'
    BY <1>1, <1>13, <1>14 DEF SweptOnceClaimed, Fresh, WorkerIsAtWork, RowIsStored, OfferHasText
<1>17. RevisionsInOrder'
    <2>1. \A u \in Units, s \in Revisions : match'[u][s] # "none" => s <= req.revision
        BY <1>3, <1>8 DEF RevisionsInOrder
    <2>2. g <= req.generation
        BY <1>2, <1>3, <1>4, UnitConstants DEF Revisions
    <2>3. vision'.pc = "judging" => vision'.revision \in 1..req'.revision
        BY <1>1, <1>5 DEF RevisionsInOrder
    <2>4. QED
        BY <1>2, <1>5, <1>12, <1>13, <1>14, <2>1, <2>2, <2>3 DEF RevisionsInOrder
<1>18. PhotographsAreOfTold'
    BY <1>1, <1>5, <1>11, <1>13 DEF PhotographsAreOfTold, Fresh
<1>19. VisionIsAtWork' /\ VisionDoneIsJudged'
    BY <1>1 DEF VisionIsAtWork, VisionDoneIsJudged
<1>20. ASSUME NEW u \in Units, unit[u].state = "done"
       PROVE  NothingToTell(u)'
    <2>1. CASE Told(u) \/ facts[u].offer # "yes"
        BY <1>1, <1>11, <2>1 DEF NothingToTell
    <2>2. CASE ~Told(u) /\ facts[u].offer = "yes"
        <3>1. media[u].status = "absent" /\ Archived(u)
            BY <1>20, <2>2 DEF Archived, PhotographsAreOfTold
        <3>2. /\ found[u] # "none" /\ found[u] = Judge(facts[u], req.saved[r])
              /\ Admits(found[u]) => u \in worker.upgraded
            BY <1>1, <1>3, <1>6, <2>2, <3>1 DEF SweepIsWhole
        <3>3. NoneAfter(u, r)
            BY <1>1, <1>3, <2>2 DEF WorkerJudges
        <3>4. CASE Admits(found[u])
            <4>1. r \notin digests
                BY <1>20, <2>2, <3>2, <3>3, <3>4 DEF DoneIsTold, NothingToTell, Admits
            <4>2. u \in listed'
                BY <1>9, <3>2, <3>4, <4>1
            <4>3. QED
                BY <4>2 DEF NothingToTell, Told
        <3>5. CASE ~Admits(found[u])
            <4>1. found[u] = "hard_miss" /\ match'[u][r] = "hard_miss"
                BY <1>8, <3>2, <3>5 DEF Admits
            <4>2. NoneAfter(u, r)'
                BY <1>8, <3>3 DEF NoneAfter, Revisions
            <4>3. Rejected(u)'
                BY <4>1, <4>2 DEF Rejected
            <4>4. ASSUME NEW q \in digests', NoneAfter(u, q)'
                  PROVE  q = r
                <5>1. r <= q
                    BY <4>1, <4>4 DEF NoneAfter
                <5>2. QED
                    BY <1>12, <5>1 DEF Revisions
            <4>5. \A q \in digests' : NoneAfter(u, q)' => Judge(facts[u], req.saved[q]) = "hard_miss"
                BY <3>2, <4>1, <4>4
            <4>6. QED
                BY <1>1, <1>5, <4>3, <4>5 DEF NothingToTell
        <3>6. QED
            BY <3>4, <3>5
    <2>3. QED
        BY <2>1, <2>2
<1>21. DoneIsTold'
    BY <1>1, <1>13, <1>20 DEF DoneIsTold
<1>22. WorkerJudges' /\ SweepIsWhole' /\ FinishedIsJudged'
    BY <1>13, <1>14 DEF WorkerJudges, SweepIsWhole, FinishedIsJudged
<1>23. ArchiveIsRejudged'
    <2>1. SUFFICES ASSUME ~Pending', NEW u \in Units, Archived(u)
                   PROVE  match'[u][req.revision] # "none"
        BY <1>1, <1>5 DEF ArchiveIsRejudged, Archived
    <2>2. req.revision = r
        BY <1>2, <1>3, <1>4, <1>5, <2>1 DEF Pending, Revisions
    <2>3. found[u] # "none"
        BY <1>1, <1>6, <2>1 DEF SweepIsWhole
    <2>4. QED
        BY <1>8, <2>2, <2>3
<1>24. QED
    BY <1>15, <1>16, <1>17, <1>18, <1>19, <1>21, <1>22, <1>23

-----------------------------------------------------------------------------
(***************************************************************************)
(* The invariant, and what it shows.                                       *)
(***************************************************************************)

LEMMA UnitsStart == UnitsInit => UnitsInv
<1> SUFFICES ASSUME UnitsInit
             PROVE  UnitsInv
    OBVIOUS
<1> USE DEF UnitsInit
<1>1. Asleep \in WorkerRecords /\ Blind \in VisionRecords
    BY UnitConstants DEF Asleep, WorkerRecords, Blind, VisionRecords, NoSnapshot
<1>2. Types
    <2>1. 0 \in 0..MaxSweeps /\ 0 \in 0..MaxAttempts /\ 0 \in 0..MaxRevisions
        BY UnitConstants
    <2>2. Default \in Definitions /\ "absent" \in UnitStates
        BY UnitConstants DEF UnitStates
    <2>3. unit \in [Units -> [state : UnitStates, text : BOOLEAN, photo : BOOLEAN,
                              sweeps : 0..MaxSweeps]]
        BY <2>1, <2>2
    <2>4. req \in [revision : 0..MaxRevisions, generation : 0..MaxRevisions,
                   rematched : 0..MaxRevisions, saved : [Revisions -> Definitions]]
        BY <2>1, <2>2
    <2>5. QED
        BY <1>1, <2>1, <2>3, <2>4 DEF Types, UnitsTypeOK
<1>3. /\ worker.pc = "idle" /\ worker.batch = {} /\ worker.at = NoUnit /\ worker.todo = {}
      /\ worker.upgraded = {} /\ worker.found = [u \in Units |-> "none"]
      /\ \A u \in Units : ~worker.claimed[u].text
      /\ vision.pc = "idle" /\ vision.todo = {}
    BY DEF Asleep, Blind, NoSnapshot
<1>4. "idle" \notin AtUnit \cup Sweeping \cup UnderRevision \cup Extracted
    BY DEF AtUnit, Sweeping, UnderRevision, Extracted
<1>5. SweptOnceClaimed /\ WorkerIsAtWork /\ RowIsStored
    BY <1>3, <1>4 DEF SweptOnceClaimed, Fresh, WorkerIsAtWork, RowIsStored
<1>6. OfferHasText /\ VisionDoneIsJudged
    BY <1>3, UnreadIsNotAbsent DEF OfferHasText, VisionDoneIsJudged
<1>7. RevisionsInOrder /\ PhotographsAreOfTold /\ VisionIsAtWork
    BY <1>3, <1>4 DEF RevisionsInOrder, PhotographsAreOfTold, VisionIsAtWork
<1>8. DoneIsTold /\ WorkerJudges /\ SweepIsWhole /\ FinishedIsJudged /\ ArchiveIsRejudged
    BY <1>3, <1>4 DEF DoneIsTold, WorkerJudges, SweepIsWhole, FinishedIsJudged, ArchiveIsRejudged
<1>9. QED
    BY <1>2, <1>5, <1>6, <1>7, <1>8 DEF UnitsInv

LEMMA UnitsStep == UnitsInv /\ [UnitsNext]_unitVars => UnitsInv'
<1> SUFFICES ASSUME UnitsInv, [UnitsNext]_unitVars
             PROVE  UnitsInv'
    OBVIOUS
<1>1. CASE \E u \in Units, member \in Members : RecordMessage(u, member)
    BY <1>1, RecordMessageKeeps
<1>2. CASE \E d \in Edits, r \in 0..MaxRevisions : EditRequirements(d, r)
    BY <1>2, EditRequirementsKeeps
<1>3. CASE \E S \in SUBSET Units : ClaimSettledUnits(S)
    BY <1>3, ClaimKeeps
<1>4. CASE WorkerStep
    <2>1. CASE \E u \in Units : BeginUnit(u)
        BY <2>1, BeginUnitKeeps
    <2>2. CASE \E row \in UNION {Extractions[u] : u \in Units} \cup {Unread} : ExtractFacts(row)
        BY <2>2, ExtractFactsKeeps
    <2>3. CASE ScreenOffer
        BY <2>3, ScreenOfferKeeps
    <2>4. CASE ReadRequirements \/ BeginSweep
        BY <2>4, ReadRequirementsKeeps
    <2>5. CASE JudgeUnit
        BY <2>5, JudgeUnitKeeps
    <2>6. CASE RequestPhotographs
        BY <2>6, RequestKeeps
    <2>7. CASE FinishUnit
        BY <2>7, FinishUnitKeeps
    <2>8. CASE CheckRematch
        BY <2>8, CheckRematchKeeps
    <2>9. CASE ListUnits
        BY <2>9, ListUnitsKeeps
    <2>10. CASE \E u \in Units : SweepFacts(u)
        BY <2>10, SweepFactsKeeps
    <2>11. CASE SweepJudge
        BY <2>11, SweepJudgeKeeps
    <2>12. CASE RecordRematch
        BY <2>12, RecordRematchKeeps
    <2>13. QED
        BY <1>4, <2>1, <2>2, <2>3, <2>4, <2>5, <2>6, <2>7, <2>8, <2>9, <2>10, <2>11, <2>12
            DEF WorkerStep
<1>5. CASE ProcessFails
    BY <1>5, ProcessFailsKeeps
<1>6. CASE CycleFails \/ Crash
    BY <1>6, AbandonKeeps
<1>7. CASE \E u \in Units, outcome \in Outcomes : SettleMedia(u, outcome)
    BY <1>7, SettleMediaKeeps
<1>8. CASE VisionStep \/ VisionFails
    <2>1. CASE AwaitVision \/ (\E u \in Units : ReadFacts(u)) \/ ReadPrevious \/ ReadActive \/ VisionFails
        BY <2>1, VisionReadsKeep
    <2>2. CASE (\E seen \in SeenBy : ReadPhotographs(seen)) \/ FinalizeReading \/ RecordVisionError
        BY <2>2, VisionStoresKeep
    <2>3. CASE JudgeReading
        BY <2>3, JudgeReadingKeeps
    <2>4. QED
        BY <1>8, <2>1, <2>2, <2>3 DEF VisionStep
<1>9. CASE UNCHANGED unitVars
    <2>1. UNCHANGED <<unit, facts, match, alerts, digests, media, req, worker, vision, listed, judgedOn>>
        BY <1>9 DEF unitVars, tables, history
    <2>2. Types' /\ SweptOnceClaimed' /\ WorkerIsAtWork' /\ RowIsStored' /\ OfferHasText'
        BY <2>1 DEF UnitsInv, Types, UnitsTypeOK, SweptOnceClaimed, Fresh, WorkerIsAtWork,
            RowIsStored, OfferHasText
    <2>3. RevisionsInOrder' /\ PhotographsAreOfTold' /\ VisionIsAtWork'
        BY <2>1 DEF UnitsInv, RevisionsInOrder, Pending, PhotographsAreOfTold, Told, Fresh,
            VisionIsAtWork
    <2>4. DoneIsTold' /\ WorkerJudges' /\ SweepIsWhole'
        BY <2>1 DEF UnitsInv, DoneIsTold, NothingToTell, Told, Rejected, NoneAfter, WorkerJudges,
            SweepIsWhole, Archived
    <2>5. FinishedIsJudged' /\ ArchiveIsRejudged' /\ VisionDoneIsJudged'
        BY <2>1 DEF UnitsInv, FinishedIsJudged, ArchiveIsRejudged, Pending, VisionDoneIsJudged
    <2>6. QED
        BY <2>2, <2>3, <2>4, <2>5 DEF UnitsInv
<1>10. QED
    BY <1>1, <1>2, <1>3, <1>4, <1>5, <1>6, <1>7, <1>8, <1>9 DEF UnitsNext

LEMMA UnitsInvariant == UnitsSpec => []UnitsInv
<1>1. QED
    BY UnitsStart, UnitsStep, PTL DEF UnitsSpec

\* Every row of the housing tables stays in its domain.
THEOREM UnitsTypes == UnitsSpec => []UnitsTypeOK
<1>1. UnitsInv => UnitsTypeOK
    BY DEF UnitsInv, Types
<1>2. QED
    BY <1>1, UnitsInvariant, PTL

\* No edit made while units are judged or swept leaves an offer of the archive
\* behind: once it counts as re-judged, every one has a verdict under it
\* (_rematch_if_edited, record_rematch).
THEOREM ArchiveRejudged == UnitsSpec => []ArchiveIsRejudged
<1>1. UnitsInv => ArchiveIsRejudged
    BY DEF UnitsInv
<1>2. QED
    BY <1>1, UnitsInvariant, PTL

\* A finished offer whose latest verdict admits it was told to the owner,
\* whatever crashed, was retried or was dropped as a duplicate
\* (record_match_with_alert, record_rematch).
THEOREM OwnerIsTold == UnitsSpec => []AdmittedIsTold
<1>1. UnitsInv => AdmittedIsTold
    <2>1. SUFFICES ASSUME UnitsInv, NEW u \in Units, unit[u].state = "done",
                          facts[u].offer = "yes", ~Told(u)
                   PROVE  LatestMatch(u) \notin {"possible", "confirmed"}
        BY DEF AdmittedIsTold
    <2>2. Rejected(u)
        BY <2>1 DEF UnitsInv, DoneIsTold, NothingToTell
    <2>3. QED
        BY <2>1, <2>2, RejectedIsLatest DEF UnitsInv
<1>2. QED
    BY <1>1, UnitsInvariant, PTL

\* A reading of photographs is final only once a verdict was recorded from the
\* facts it left (HousingVisionWorker._read).
THEOREM ReadingsAreJudged == UnitsSpec => []VisionDoneIsJudged
<1>1. UnitsInv => VisionDoneIsJudged
    BY DEF UnitsInv
<1>2. QED
    BY <1>1, UnitsInvariant, PTL

=============================================================================
