---------------------------- MODULE HousingUnits ----------------------------
(***************************************************************************)
(* From messages to verdicts: the housing subsystem before delivery.       *)
(* Messages are attached to content units; HousingWorker sweeps settled    *)
(* units through extraction and matching and re-judges the archive after   *)
(* an edit of the requirements; MediaDownloadWorker fetches photographs;   *)
(* HousingVisionWorker reads them and judges again.  The four share the    *)
(* tables of storage/housing.py; a transaction is one step and every await *)
(* between two of them lets the others step.                               *)
(*                                                                         *)
(* Time is a choice: a quiet window, the age of a stale unit and the delay *)
(* of a download may pass at any moment.                                   *)
(***************************************************************************)
EXTENDS HousingMatcher, FiniteSets

CONSTANTS
    Units,          \* content units (unit_key)
    Boards,         \* units of dedicated rentals boards; others pass the gate
    Photos,         \* Telegram photo ids
    PhotoOf,        \* the photograph of a unit's album, or NoPhoto
    NoPhoto,
    NoUnit,
    Extractions,    \* Extractions[u]: facts the extractor may find in u's caption
    SeenBy,         \* readings the vision model may give
    Edits,          \* definitions the owner may save
    Default,        \* DEFAULT_REQUIREMENTS
    MaxSweeps,      \* MAX_SWEEP_ATTEMPTS
    MaxAttempts,    \* MAX_ATTEMPTS of a download
    MaxRevisions,   \* bound: revisions of the requirements
    MaxTroubles     \* bound: steps that raise and deaths of the daemon

ASSUME UnitConstants ==
    /\ Boards \subseteq Units
    /\ NoPhoto \notin Photos
    /\ NoUnit \notin Units
    /\ PhotoOf \in [Units -> Photos \cup {NoPhoto}]
    /\ Extractions \in
         [Units -> SUBSET {f \in Facts : f.vision = "not_attempted" /\ f.offer # "unread"}]
    /\ SeenBy \subseteq Readings
    /\ Default \in Definitions
    /\ Edits \subseteq Definitions
    /\ MaxSweeps \in Nat \ {0}
    /\ MaxAttempts \in Nat \ {0}
    /\ MaxRevisions \in Nat \ {0}
    /\ MaxTroubles \in Nat

VARIABLES
    unit,       \* housing_live_units: state, assembled text, members, attempts
    facts,      \* housing_live_facts, or NoFacts
    match,      \* match[u][r]: housing_matches, "none" where there is no row
    alerts,     \* housing_alerts as <<unit, verdict, kind>>, the unique key
    digests,    \* revisions with a rematch digest among the alerts
    media,      \* housing_media: the row of the unit's photograph
    req,        \* housing_requirements_active and the revisions
    worker,     \* HousingWorker: the batch, and the unit or sweep it is at
    vision,     \* HousingVisionWorker
    listed,     \* history: units a digest that was queued listed
    judgedOn,   \* history: judgedOn[u], facts a recorded verdict came from
    troubles

tables == <<unit, facts, match, alerts, digests, media, req>>
history == <<listed, judgedOn>>
unitVars == <<tables, worker, vision, history, troubles>>

Revisions == 1..MaxRevisions

Unread ==
    [offer |-> "unread", bedrooms |-> Unstated,
     bathrooms |-> Unstated, bathroomsSource |-> "unknown",
     type |-> "unstated", typeSource |-> "unknown",
     price |-> Unstated, terrace |-> FALSE, vision |-> "not_attempted"]
NoFacts == [Unread EXCEPT !.vision = "absent"]

NoSnapshot == [text |-> FALSE, photo |-> FALSE]

Asleep ==
    [pc |-> "idle", batch |-> {}, claimed |-> [u \in Units |-> NoSnapshot], at |-> NoUnit,
     row |-> NoFacts, revision |-> 0, generation |-> 0, todo |-> {},
     found |-> [u \in Units |-> "none"], upgraded |-> {}]

Blind ==
    [pc |-> "idle", todo |-> {}, at |-> NoUnit, row |-> NoFacts,
     previous |-> "none", final |-> "error", revision |-> 0]

UnitsInit ==
    /\ unit = [u \in Units |-> [state |-> "absent", text |-> FALSE, photo |-> FALSE,
                               sweeps |-> 0]]
    /\ facts = [u \in Units |-> NoFacts]
    /\ match = [u \in Units |-> [r \in Revisions |-> "none"]]
    /\ alerts = {}
    /\ digests = {}
    /\ media = [u \in Units |-> [status |-> "absent", attempts |-> 0]]
    /\ req = [revision |-> 0, generation |-> 0, rematched |-> 0,
              saved |-> [r \in Revisions |-> Default]]
    /\ worker = Asleep
    /\ vision = Blind
    /\ listed = {}
    /\ judgedOn = [u \in Units |-> {}]
    /\ troubles = 0

(***************************************************************************)
(* Storage.                                                                *)
(***************************************************************************)
SetState(u, s) == unit' = [unit EXCEPT ![u].state = s]

\* latest_match: the verdict of the highest revision the unit was judged at.
LatestMatch(u) ==
    LET judged == {r \in Revisions : match[u][r] # "none"}
    IN IF judged = {} THEN "none"
       ELSE match[u][CHOOSE r \in judged : \A s \in judged : s <= r]

Content(f) == [f EXCEPT !.vision = "not_attempted"]

Note(u, f) == judgedOn' = [judgedOn EXCEPT ![u] = @ \cup {Content(f)}]

\* Mutant: the verdict is committed and its alert left for later.
VerdictAlone(u, r, verdict, alert) ==
    /\ match' = [match EXCEPT ![u][r] = verdict]
    /\ UNCHANGED alerts

\* record_match_with_alert: the verdict and the alert it justifies, together;
\* ON CONFLICT(unit_key, verdict, kind) DO NOTHING.
RecordMatchWithAlert(u, r, verdict, alert) ==
    /\ match' = [match EXCEPT ![u][r] = verdict]
    /\ alerts' = alerts \cup alert

Awaiting(u) ==
    /\ facts[u].offer = "yes"
    /\ facts[u].vision \in {"not_attempted", "pending"}
    /\ \E r \in Revisions : match[u][r] \in {"possible", "confirmed"}
    /\ media[u].status = "downloaded"

(***************************************************************************)
(* record_message: a member joins its unit.  A later member never empties  *)
(* the text, and a late one does not reopen a unit already claimed.  Only  *)
(* a replay repeats a member, and it changes nothing.                      *)
(***************************************************************************)
RecordMessage(u, member) ==
    /\ member = "photo" => PhotoOf[u] # NoPhoto
    /\ unit' = [unit EXCEPT ![u].state = IF @ = "absent" THEN "assembling" ELSE @,
                            ![u].text = @ \/ member = "caption",
                            ![u].photo = @ \/ member = "photo"]
    /\ UNCHANGED <<facts, match, alerts, digests, media, req, worker, vision,
                   history, troubles>>

(***************************************************************************)
(* The requirements: save_requirements, from the bridge (an edit made from *)
(* another revision is refused, and changes nothing) or on first use.      *)
(***************************************************************************)
Saved(definition) ==
    [revision |-> req.revision + 1, generation |-> req.generation + 1,
     rematched |-> req.rematched,
     saved |-> [req.saved EXCEPT ![req.revision + 1] = definition]]

EditRequirements(definition, expected) ==
    /\ req.revision < MaxRevisions
    /\ expected = req.revision
    /\ req' = Saved(definition)
    /\ UNCHANGED <<unit, facts, match, alerts, digests, media, worker, vision,
                   history, troubles>>

\* _active_requirements: seeds the default criteria on first use.
ActiveRequirements == IF req.revision = 0 THEN Saved(Default) ELSE req

(***************************************************************************)
(* HousingWorker: claim_settled_units and _process.                        *)
(***************************************************************************)
\* Mutant: only units still assembling are ever claimed.
ClaimableFresh(u) == unit[u].state = "assembling"

Claimable(u) ==
    \/ unit[u].state = "assembling"
    \/ /\ unit[u].state \in {"ready", "extracting", "extracted", "matching", "error"}
       /\ unit[u].sweeps < MaxSweeps

ClaimSettledUnits(S) ==
    /\ worker.pc = "idle"
    /\ S # {}
    /\ \A u \in S : Claimable(u)
    /\ unit' = [u \in Units |->
                   IF u \in S
                   THEN [unit[u] EXCEPT !.state = "ready", !.sweeps = @ + 1]
                   ELSE unit[u]]
    /\ worker' = [worker EXCEPT
                     !.pc = "next",
                     !.batch = S,
                     !.claimed = [u \in Units |->
                                    IF u \in S
                                    THEN [text |-> unit[u].text, photo |-> unit[u].photo]
                                    ELSE NoSnapshot]]
    /\ UNCHANGED <<facts, match, alerts, digests, media, req, vision, history, troubles>>

\* The unit is done with, well or badly: the loop takes the next of its batch.
NextOfBatch(u) ==
    worker' = [worker EXCEPT !.pc = "next", !.batch = @ \ {u}, !.at = NoUnit,
                             !.claimed[u] = NoSnapshot, !.row = NoFacts, !.revision = 0]

Goto(pc) == worker' = [worker EXCEPT !.pc = pc]

WorthReading(u) == u \in Boards \/ worker.claimed[u].text

BeginUnit(u) ==
    /\ worker.pc = "next"
    /\ u \in worker.batch
    /\ \/ /\ ~WorthReading(u)
          /\ SetState(u, "done")
          /\ NextOfBatch(u)
       \/ /\ WorthReading(u)
          /\ SetState(u, "extracting")
          /\ worker' = [worker EXCEPT !.pc = "extracting", !.at = u]
    /\ UNCHANGED <<facts, match, alerts, digests, media, req, vision, history, troubles>>

\* The extractor answers, or fails to and leaves every field unknown; the row
\* replaces whatever was known, a reading of the photographs included.
ExtractFacts(row) ==
    LET u == worker.at IN
    /\ worker.pc = "extracting"
    /\ row \in {Unread} \cup (IF worker.claimed[u].text THEN Extractions[u] ELSE {})
    /\ facts' = [facts EXCEPT ![u] = row]
    /\ worker' = [worker EXCEPT !.pc = "extracted", !.row = row]
    /\ UNCHANGED <<unit, match, alerts, digests, media, req, vision, history, troubles>>

\* The unit is marked extracted, and right after done or matching.
ScreenOffer ==
    /\ worker.pc = "extracted"
    /\ \/ /\ worker.row.offer # "yes"
          /\ SetState(worker.at, "done")
          /\ NextOfBatch(worker.at)
       \/ /\ worker.row.offer = "yes"
          /\ SetState(worker.at, "matching")
          /\ Goto("matching")
    /\ UNCHANGED <<facts, match, alerts, digests, media, req, vision, history, troubles>>

ReadRequirements ==
    /\ worker.pc = "matching"
    /\ req' = ActiveRequirements
    /\ worker' = [worker EXCEPT !.pc = "judging", !.revision = req'.revision]
    /\ UNCHANGED <<unit, facts, match, alerts, digests, media, vision, history, troubles>>

JudgeUnit ==
    LET u == worker.at
        verdict == Judge(worker.row, req.saved[worker.revision])
    IN /\ worker.pc = "judging"
       /\ RecordMatchWithAlert(u, worker.revision, verdict,
                               IF Admits(verdict) THEN {<<u, verdict, "live">>} ELSE {})
       /\ Note(u, worker.row)
       /\ Goto(IF Admits(verdict) THEN "photographs" ELSE "finishing")
       /\ UNCHANGED <<unit, facts, digests, media, req, vision, listed, troubles>>

\* enqueue_media: a photograph already on disk under another unit is done.
OnDisk(photo) == \E v \in Units : PhotoOf[v] = photo /\ media[v].status = "downloaded"

RequestPhotographs ==
    LET u == worker.at IN
    /\ worker.pc = "photographs"
    /\ IF /\ Answerable(worker.row, req.saved[worker.revision])
          /\ worker.claimed[u].photo
          /\ media[u].status = "absent"
       THEN media' = [media EXCEPT ![u].status =
                        IF OnDisk(PhotoOf[u]) THEN "downloaded" ELSE "pending"]
       ELSE UNCHANGED media
    /\ Goto("finishing")
    /\ UNCHANGED <<unit, facts, match, alerts, digests, req, vision, history, troubles>>

FinishUnit ==
    /\ worker.pc = "finishing"
    /\ SetState(worker.at, "done")
    /\ NextOfBatch(worker.at)
    /\ UNCHANGED <<facts, match, alerts, digests, media, req, vision, history, troubles>>

\* A step raises: the unit is marked, the batch goes on.
ProcessFails ==
    /\ worker.at # NoUnit
    /\ worker.pc \notin {"sweeping", "weighing"}
    /\ troubles < MaxTroubles
    /\ troubles' = troubles + 1
    /\ SetState(worker.at, "error")
    /\ NextOfBatch(worker.at)
    /\ UNCHANGED <<facts, match, alerts, digests, media, req, vision, history>>

\* Marking it raises too, or the claim's reads do: the cycle is abandoned.
CycleFails ==
    /\ worker.pc # "idle"
    /\ troubles < MaxTroubles
    /\ troubles' = troubles + 1
    /\ worker' = Asleep
    /\ UNCHANGED <<tables, vision, history>>

(***************************************************************************)
(* _rematch_if_edited: after each batch, and on every idle cycle.          *)
(***************************************************************************)
Pending == req.generation # req.rematched

CheckRematch ==
    /\ \/ worker.pc = "next" /\ worker.batch = {}
       \/ worker.pc = "idle" /\ Pending
    /\ worker' = IF Pending
                 THEN [worker EXCEPT !.pc = "rematching", !.generation = req.generation]
                 ELSE Asleep
    /\ UNCHANGED <<tables, vision, history, troubles>>

\* An edit may come between the generation and the definition.
BeginSweep ==
    /\ worker.pc = "rematching"
    /\ req' = ActiveRequirements
    /\ worker' = [worker EXCEPT !.pc = "listing", !.revision = req'.revision]
    /\ UNCHANGED <<unit, facts, match, alerts, digests, media, vision, history, troubles>>

\* units_for_rematch: every offer, whatever its age.
UnitsForRematch == {u \in Units : facts[u].offer = "yes"}

ListUnits ==
    /\ worker.pc = "listing"
    /\ worker' = [worker EXCEPT !.pc = "sweeping", !.todo = UnitsForRematch]
    /\ UNCHANGED <<tables, vision, history, troubles>>

SweepFacts(u) ==
    /\ worker.pc = "sweeping"
    /\ u \in worker.todo
    /\ worker' = [worker EXCEPT !.pc = "weighing", !.at = u, !.row = facts[u]]
    /\ UNCHANGED <<tables, vision, history, troubles>>

SweepJudge ==
    LET u == worker.at
        verdict == Judge(worker.row, req.saved[worker.revision])
        rejected == LatestMatch(u) \in {"none", "hard_miss"}
    IN /\ worker.pc = "weighing"
       /\ worker' = [worker EXCEPT
                       !.pc = "sweeping", !.todo = @ \ {u}, !.at = NoUnit,
                       !.row = NoFacts, !.found[u] = verdict,
                       !.upgraded = IF Admits(verdict) /\ rejected THEN @ \cup {u} ELSE @]
       /\ Note(u, worker.row)
       /\ UNCHANGED <<tables, vision, listed, troubles>>

\* Mutant: the marker is the generation of now, not the one swept.
RematchedNow == req.generation

RematchedTo == worker.generation

\* record_rematch: verdicts, digest and marker land together; the digest's key
\* is the revision, and a second one is dropped.
RecordRematch ==
    /\ worker.pc = "sweeping"
    /\ worker.todo = {}
    /\ match' = [u \in Units |->
                   IF worker.found[u] # "none"
                   THEN [match[u] EXCEPT ![worker.revision] = worker.found[u]]
                   ELSE match[u]]
    /\ IF worker.upgraded # {} /\ worker.revision \notin digests
       THEN /\ digests' = digests \cup {worker.revision}
            /\ listed' = listed \cup worker.upgraded
       ELSE UNCHANGED <<digests, listed>>
    /\ req' = [req EXCEPT !.rematched = RematchedTo]
    /\ worker' = Asleep
    /\ UNCHANGED <<unit, facts, alerts, media, vision, judgedOn, troubles>>

(***************************************************************************)
(* MediaDownloadWorker.run_once, one photograph at a time.  A refusal of   *)
(* the governor keeps the row pending; settle_media counts it all the same *)
(* (attempts saturates at MaxAttempts).                                    *)
(***************************************************************************)

Counted(n) == IF n < MaxAttempts THEN n + 1 ELSE n

AfterFailure(attempts) == IF attempts + 1 >= MaxAttempts THEN "failed" ELSE "pending"

SettleMedia(u, outcome) ==
    /\ media[u].status = "pending"
    /\ media' = [media EXCEPT
                   ![u] = [status |-> CASE outcome = "refused" -> "pending"
                                        [] outcome = "failed" -> AfterFailure(@.attempts)
                                        [] outcome = "gone" -> "failed_gone"
                                        [] outcome = "oversized" -> "failed"
                                        [] outcome = "saved" -> "downloaded",
                           attempts |-> Counted(@.attempts)]]
    /\ UNCHANGED <<unit, facts, match, alerts, digests, req, worker, vision,
                   history, troubles>>

(***************************************************************************)
(* HousingVisionWorker.                                                    *)
(***************************************************************************)
AwaitVision ==
    /\ vision.pc = "idle"
    /\ \E u \in Units : Awaiting(u)
    /\ vision' = [vision EXCEPT !.pc = "next", !.todo = {u \in Units : Awaiting(u)}]
    /\ UNCHANGED <<tables, worker, history, troubles>>

NextReading(u) == vision' = [Blind EXCEPT !.pc = IF vision.todo = {u} THEN "idle" ELSE "next",
                                          !.todo = vision.todo \ {u}]

ReadFacts(u) ==
    /\ vision.pc = "next"
    /\ u \in vision.todo
    /\ vision' = [vision EXCEPT !.pc = "previous", !.at = u, !.row = facts[u]]
    /\ UNCHANGED <<tables, worker, history, troubles>>

ReadPrevious ==
    /\ vision.pc = "previous"
    /\ vision' = [vision EXCEPT !.pc = "reading", !.previous = LatestMatch(vision.at)]
    /\ UNCHANGED <<tables, worker, history, troubles>>

\* Mutant: the final status is committed before the verdict.
StatusAtOnce(r) == FinalStatus(r)

StatusWhileJudging(r) == "pending"

\* Minutes pass in the model; the merged row replaces the stored one.
ReadPhotographs(seen) ==
    LET u == vision.at
        merged == Merged(vision.row, Parsed(seen))
    IN /\ vision.pc = "reading"
       /\ facts' = [facts EXCEPT ![u] = [merged EXCEPT !.vision = StatusWhileJudging(seen)]]
       /\ vision' = [vision EXCEPT !.pc = "matching", !.row = merged,
                                   !.final = FinalStatus(seen)]
       /\ UNCHANGED <<unit, match, alerts, digests, media, req, worker, history, troubles>>

ReadActive ==
    /\ vision.pc = "matching"
    /\ vision' = [vision EXCEPT !.pc = "judging", !.revision = req.revision]
    /\ UNCHANGED <<tables, worker, history, troubles>>

\* An unchanged verdict tells nothing; a rejection is told as a possible.
UpdateAlert(u, verdict) ==
    IF verdict = vision.previous THEN {}
    ELSE {<<u, IF Admits(verdict) THEN verdict ELSE "possible", "update">>}

JudgeReading ==
    LET u == vision.at
        verdict == Judge(vision.row, req.saved[vision.revision])
    IN /\ vision.pc = "judging"
       /\ RecordMatchWithAlert(u, vision.revision, verdict, UpdateAlert(u, verdict))
       /\ Note(u, vision.row)
       /\ vision' = [vision EXCEPT !.pc = "finalizing"]
       /\ UNCHANGED <<unit, facts, digests, media, req, worker, listed, troubles>>

FinalizeReading ==
    LET u == vision.at IN
    /\ vision.pc = "finalizing"
    /\ facts' = [facts EXCEPT ![u] = [vision.row EXCEPT !.vision = vision.final]]
    /\ NextReading(u)
    /\ UNCHANGED <<unit, match, alerts, digests, media, req, worker, history, troubles>>

\* A step raises: the facts are read again and stored back as an error.
VisionFails ==
    /\ vision.pc \notin {"idle", "next", "failing"}
    /\ troubles < MaxTroubles
    /\ troubles' = troubles + 1
    /\ vision' = [vision EXCEPT !.pc = "failing", !.row = facts[vision.at]]
    /\ UNCHANGED <<tables, worker, history>>

RecordVisionError ==
    LET u == vision.at IN
    /\ vision.pc = "failing"
    /\ facts' = [facts EXCEPT ![u] = [vision.row EXCEPT !.vision = "error"]]
    /\ NextReading(u)
    /\ UNCHANGED <<unit, match, alerts, digests, media, req, worker, history, troubles>>

(***************************************************************************)
(* The daemon dies: its tasks are gone, its tables stay.                   *)
(***************************************************************************)
Crash ==
    /\ troubles < MaxTroubles
    /\ troubles' = troubles + 1
    /\ worker' = Asleep
    /\ vision' = Blind
    /\ UNCHANGED <<tables, history>>

Members == {"caption", "photo"}
Outcomes == {"refused", "failed", "gone", "oversized", "saved"}

WorkerStep ==
    \/ \E u \in Units : BeginUnit(u)
    \/ \E row \in UNION {Extractions[u] : u \in Units} \cup {Unread} : ExtractFacts(row)
    \/ ScreenOffer
    \/ ReadRequirements
    \/ JudgeUnit
    \/ RequestPhotographs
    \/ FinishUnit
    \/ CheckRematch
    \/ BeginSweep
    \/ ListUnits
    \/ \E u \in Units : SweepFacts(u)
    \/ SweepJudge
    \/ RecordRematch

VisionStep ==
    \/ AwaitVision
    \/ \E u \in Units : ReadFacts(u)
    \/ ReadPrevious
    \/ \E seen \in SeenBy : ReadPhotographs(seen)
    \/ ReadActive
    \/ JudgeReading
    \/ FinalizeReading
    \/ RecordVisionError

Claims(u) == \E S \in SUBSET Units : u \in S /\ ClaimSettledUnits(S)

UnitsNext ==
    \/ \E u \in Units, member \in Members : RecordMessage(u, member)
    \/ \E d \in Edits, r \in 0..MaxRevisions : EditRequirements(d, r)
    \/ \E S \in SUBSET Units : ClaimSettledUnits(S)
    \/ WorkerStep
    \/ ProcessFails
    \/ CycleFails
    \/ \E u \in Units, outcome \in Outcomes : SettleMedia(u, outcome)
    \/ VisionStep
    \/ VisionFails
    \/ Crash

UnitsSpec == UnitsInit /\ [][UnitsNext]_unitVars

\* The loops run for as long as the daemon does: each goes on with what it is
\* at, polls again for units whose time has come, and the budgets that refuse
\* a download are windows that pass.
Fairness ==
    /\ WF_unitVars(WorkerStep)
    /\ WF_unitVars(VisionStep)
    /\ \A u \in Units :
        /\ WF_unitVars(Claims(u))
        /\ WF_unitVars(\E outcome \in Outcomes \ {"refused"} : SettleMedia(u, outcome))

UnitsFairSpec == UnitsSpec /\ Fairness

(***************************************************************************)
(* Properties.                                                             *)
(***************************************************************************)
\* Every row and every local of the workers stays in its domain.
UnitStates == {"absent", "assembling", "ready", "extracting", "extracted", "matching",
               "done", "error"}

UnitsTypeOK ==
    /\ unit \in [Units -> [state : UnitStates, text : BOOLEAN, photo : BOOLEAN,
                           sweeps : 0..MaxSweeps]]
    /\ facts \in [Units -> Facts \cup {NoFacts}]
    /\ match \in [Units -> [Revisions -> Verdicts \cup {"none"}]]
    /\ alerts \subseteq Units \X {"possible", "confirmed"} \X {"live", "update"}
    /\ digests \subseteq Revisions
    /\ media \in [Units -> [status : {"absent", "pending", "downloaded", "failed", "failed_gone"},
                            attempts : 0..MaxAttempts]]
    /\ req \in [revision : 0..MaxRevisions, generation : 0..MaxRevisions,
                rematched : 0..MaxRevisions, saved : [Revisions -> Definitions]]

\* Once an edit is marked as re-judged, every finished offer of the archive
\* has a verdict under the active definition: no edit made while a unit was
\* being judged, or while the sweep ran, leaves a unit behind
\* (_rematch_if_edited, record_rematch).  A unit swept again while its
\* photographs are read is left out: the row the reader holds then replaces
\* what the second extraction found.
ArchiveIsRejudged ==
    req.revision > 0 /\ ~Pending =>
        \A u \in Units :
            /\ unit[u].state = "done"
            /\ facts[u].offer = "yes"
            /\ media[u].status = "downloaded" => unit[u].sweeps = 1
            => match[u][req.revision] # "none"

Told(u) == u \in listed \/ \E a \in alerts : a[1] = u

\* A finished offer whose latest verdict admits it was told to the owner, by an
\* alert of its own or in a digest: no crash, retry or dropped duplicate loses
\* it (record_match_with_alert, record_rematch).
AdmittedIsTold ==
    \A u \in Units :
        /\ unit[u].state = "done"
        /\ facts[u].offer = "yes"
        /\ LatestMatch(u) \in {"possible", "confirmed"}
        => Told(u)

\* A reading is final only once a verdict was recorded from the facts it left:
\* a death in between repeats the reading, it never strands a stale verdict
\* (the comment in HousingVisionWorker._read).
VisionDoneIsJudged ==
    \A u \in Units : facts[u].vision = "done" => Content(facts[u]) \in judgedOn[u]

\* Every unit that was assembled is finished, unless it used up its sweeps.
EveryUnitSettles ==
    \A u \in Units :
        unit[u].state # "absent" ~> unit[u].state = "done" \/ unit[u].sweeps = MaxSweeps

\* "a standalone house is recognisable" (worker.py:229-231): a usable reading
\* that shows a house settles the type the text left open.
HouseIsRecognised ==
    [][\A u \in Units, seen \in SeenBy :
          /\ vision.at = u
          /\ vision.row.type = "unstated"
          /\ seen.status = "usable" /\ seen.house
          /\ ReadPhotographs(seen)
          => facts'[u].type = "house"]_unitVars
=============================================================================
