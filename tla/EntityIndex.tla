---------------------------- MODULE EntityIndex ----------------------------
(***************************************************************************)
(* The derived search index: index_cli.py and pipeline/indexer.py over     *)
(* storage/search.py.  A tick copies new rows of the two source stores     *)
(* into the corpus, embeds them, leases extraction jobs, records what the  *)
(* model found and settles crossposts from the copy that was sent.         *)
(*                                                                         *)
(* A process starts runs of index_cli: `build`, the timer's, or `extract`, *)
(* an operator's.  A run holds the exclusive lock of the index from its    *)
(* start to its end or its death, and one that finds it taken is skipped.  *)
(* Every transaction is one step.  Cooldowns and leases of hours are       *)
(* choices: a row that failed, or that a dead run left running, may be due *)
(* at any moment.                                                          *)
(***************************************************************************)
EXTENDS Integers, FiniteSets, Sequences

CONSTANTS
    Messages,       \* messages of the two source stores
    StreamOf,       \* "live" or "scout"
    TextOf,         \* content digest and author: the crosspost group
    Extractable,    \* texts is_extraction_candidate admits
    Processes,      \* the timer and the operators
    Builders,       \* those that run `build`; the others run `extract`
    Answers,        \* what the model may find: sets of <<place, descriptor>>
    MaxAttempts,    \* MAX_EXTRACTION_ATTEMPTS
    RescanEvery,    \* ticks between full rescans of the scout stream
    ChunkSize,      \* chunk_size
    Limit,          \* the most rows a run sends (extract_limit, --limit)
    MaxRemovals,    \* bound: rows removed from the sources
    MaxCommands,    \* bound: runs of `extract` by hand
    MaxTroubles,    \* bound: deaths and failed embedding calls
    MaxVersions     \* bound: values of ENTITY_EXTRACTION_VERSION

ASSUME IndexConstants ==
    /\ IsFiniteSet(Messages)
    /\ Builders \subseteq Processes
    /\ StreamOf \in [Messages -> {"live", "scout"}]
    /\ MaxAttempts \in Nat \ {0}
    /\ RescanEvery \in Nat \ {0}
    /\ ChunkSize \in Nat \ {0}
    /\ Limit \in Nat \ {0}
    /\ MaxRemovals \in Nat
    /\ MaxCommands \in Nat
    /\ MaxTroubles \in Nat
    /\ MaxVersions \in Nat \ {0}
    \* The model names a place once, with one descriptor.
    /\ \A a \in Answers : \A x, y \in a : x[1] = y[1] => x = y

Places == {x[1] : x \in UNION Answers}
Descriptors == {x[2] : x \in UNION Answers}
Streams == {"live", "scout"}

VARIABLES
    \* The sources.
    rowid,      \* rowid[m] in its table, 0 when there is no row
    autoinc,    \* the AUTOINCREMENT counter of live.messages
    \* search.db
    corpus,     \* corpus_messages: corpus_id is the position
    saved,      \* sync_state: saved[s] = the cursor and the ticks of a stream
    embedded,   \* messages with a vector
    state,      \* extraction_state: the status and the active prompt version
    job,        \* extraction_jobs of the deployed version
    mentions,   \* place_mentions of a message
    placeCount, \* places.mention_count, 0 when there is no row
    descriptorCount,
    \* The processes, and the version they are built with.
    proc,
    version,
    \* History.
    sent,       \* messages sent to the model under the deployed version
    removals, commands, troubles

tables == <<corpus, saved, embedded, state, job, mentions, placeCount, descriptorCount>>
sources == <<rowid, autoinc, removals>>
bounds == <<commands, troubles>>
indexVars == <<sources, tables, proc, version, sent, bounds>>

NoJob == [status |-> "absent", attempts |-> 0]
NoState == [status |-> "absent", active |-> 0]

Idle == [pc |-> "idle", builds |-> FALSE, cursor |-> 0, ticks |-> 0,
         rows |-> {}, done |-> 0, twins |-> {}]

\* A run of `build`, which goes through every stage.
Build == [Idle EXCEPT !.builds = TRUE]

IndexInit ==
    /\ rowid = [m \in Messages |-> 0]
    /\ autoinc = 0
    /\ corpus = <<>>
    /\ saved = [s \in Streams |-> [cursor |-> 0, ticks |-> 0]]
    /\ embedded = {}
    /\ state = [m \in Messages |-> NoState]
    /\ job = [m \in Messages |-> NoJob]
    /\ mentions = [m \in Messages |-> {}]
    /\ placeCount = [p \in Places |-> 0]
    /\ descriptorCount = [d \in Descriptors |-> 0]
    /\ proc = [k \in Processes |-> Idle]
    /\ version = 1
    /\ sent = {}
    /\ removals = 0
    /\ commands = 0
    /\ troubles = 0

(***************************************************************************)
(* The source stores.                                                      *)
(***************************************************************************)
Indexed == {corpus[i] : i \in 1..Len(corpus)}
IdOf(m) == CHOOSE i \in 1..Len(corpus) : corpus[i] = m
Earlier(a, b) == {a, b} \subseteq Indexed /\ IdOf(a) < IdOf(b)
Copies(a, b) == TextOf[a] = TextOf[b]

RowsOf(s) == {m \in Messages : StreamOf[m] = s /\ rowid[m] > 0}

Highest(S) == CHOOSE n \in S \cup {0} : \A i \in S : i <= n

\* messages.id is AUTOINCREMENT; the rowid of scout_messages is one above the
\* highest there is, and comes back after a delete.
Arrive(m) ==
    LET s == StreamOf[m] IN
    /\ rowid[m] = 0
    /\ m \notin Indexed
    /\ rowid' = [rowid EXCEPT ![m] =
                   IF s = "live" THEN autoinc + 1
                   ELSE Highest({rowid[n] : n \in RowsOf(s)}) + 1]
    /\ autoinc' = IF s = "live" THEN autoinc + 1 ELSE autoinc
    /\ UNCHANGED <<removals, tables, proc, version, sent, bounds>>

\* Retention takes live rows, and a scout row may go at any time; one that goes
\* before it was copied is as good as one that never came.
Remove(m) ==
    /\ rowid[m] > 0
    /\ m \in Indexed
    /\ removals < MaxRemovals
    /\ removals' = removals + 1
    /\ rowid' = [rowid EXCEPT ![m] = 0]
    /\ UNCHANGED <<autoinc, tables, proc, version, sent, bounds>>

(***************************************************************************)
(* sync and _sync_stream.                                                  *)
(***************************************************************************)
Step(k, p) == proc' = [proc EXCEPT ![k] = p]

\* Mutant: a run that is refused the lock goes on all the same.
OnlyItself(k) == proc[k].pc = "idle"

\* The lock of the index: whoever holds it is not idle, and the kernel releases
\* it when its holder dies.
LockFree(k) == \A j \in Processes : proc[j].pc = "idle"

BeginBuild(k) ==
    /\ LockFree(k)
    /\ Step(k, [Build EXCEPT !.pc = "live", !.cursor = saved["live"].cursor,
                            !.ticks = saved["live"].ticks])
    /\ UNCHANGED <<sources, tables, version, sent, bounds>>

Unseen(k, s) == {m \in RowsOf(s) : rowid[m] > proc[k].cursor}

\* A row that is already there stays as it is (ON CONFLICT).
Inserted(m) == IF m \in Indexed THEN corpus ELSE Append(corpus, m)

\* A row is copied and the cursor saved with it.
CopyRow(k, m) ==
    LET s == proc[k].pc IN
    /\ s \in Streams
    /\ m \in Unseen(k, s)
    /\ \A n \in Unseen(k, s) : rowid[m] <= rowid[n]
    /\ corpus' = Inserted(m)
    /\ saved' = [saved EXCEPT ![s] = [cursor |-> rowid[m], ticks |-> proc[k].ticks]]
    /\ Step(k, [proc[k] EXCEPT !.cursor = rowid[m]])
    /\ UNCHANGED <<sources, embedded, state, job, mentions, placeCount, descriptorCount,
                   version, sent, bounds>>

\* Mutant: the cursor alone decides what is new.
NeverRescan(ticks) == FALSE

RescanDue(ticks) == ticks >= RescanEvery

\* The stream is exhausted: its tick is counted, and the scout stream starts
\* from zero when a full rescan is due.
EndStream(k) ==
    LET s == proc[k].pc IN
    /\ s \in Streams
    /\ Unseen(k, s) = {}
    \* Only the scout stream reads its ticks, and only up to RescanEvery.
    /\ saved' = [saved EXCEPT ![s] =
                   [cursor |-> proc[k].cursor,
                    ticks |-> IF s = "scout" /\ proc[k].ticks < RescanEvery
                             THEN proc[k].ticks + 1 ELSE proc[k].ticks]]
    /\ Step(k, IF s = "scout" THEN [Build EXCEPT !.pc = "seed"]
               ELSE IF RescanDue(saved["scout"].ticks) THEN [Build EXCEPT !.pc = "scout"]
               ELSE [Build EXCEPT !.pc = "scout", !.cursor = saved["scout"].cursor,
                                 !.ticks = saved["scout"].ticks])
    /\ UNCHANGED <<sources, corpus, embedded, state, job, mentions, placeCount,
                   descriptorCount, version, sent, bounds>>

(***************************************************************************)
(* _seed_extraction_state, _mark_crosspost_duplicates and                  *)
(* _seed_extraction_jobs.                                                  *)
(***************************************************************************)
IsCandidate(m) == TextOf[m] \in Extractable

\* A pending copy of a text some earlier message stands for is a duplicate.
Marked(st) ==
    [m \in Messages |->
       IF /\ st[m].status = "pending"
          /\ \E e \in Indexed :
                /\ Copies(e, m) /\ Earlier(e, m)
                /\ st[e].status \in {"pending", "extracted", "no_venue"}
       THEN [st[m] EXCEPT !.status = "duplicate"]
       ELSE st[m]]

Seeded ==
    [m \in Messages |->
       IF m \in Indexed /\ state[m].status = "absent"
       THEN [status |-> IF IsCandidate(m) THEN "pending" ELSE "skipped", active |-> 0]
       ELSE state[m]]

JobsFor(st) ==
    [m \in Messages |->
       IF /\ st[m].status # "absent"
          /\ st[m].active # version
          /\ job[m].status = "absent"
          /\ IsCandidate(m)
       THEN [status |-> "pending", attempts |-> 0]
       ELSE job[m]]

SeedState(k) ==
    /\ proc[k].pc = "seed"
    /\ state' = Marked(Seeded)
    /\ job' = JobsFor(state')
    /\ Step(k, [Build EXCEPT !.pc = "embed"])
    /\ UNCHANGED <<sources, corpus, saved, embedded, mentions, placeCount, descriptorCount,
                   version, sent, bounds>>

\* EmbeddingIndexer.run: a batch that fails ends the whole tick.
Embed(k) ==
    /\ proc[k].pc = "embed"
    /\ embedded' = Indexed
    /\ Step(k, [Build EXCEPT !.pc = "pending"])
    /\ UNCHANGED <<sources, corpus, saved, state, job, mentions, placeCount, descriptorCount,
                   version, sent, bounds>>

EmbedFails(k) ==
    /\ proc[k].pc = "embed"
    /\ Indexed # embedded
    /\ troubles < MaxTroubles
    /\ troubles' = troubles + 1
    /\ Step(k, Idle)
    /\ UNCHANGED <<sources, tables, version, sent, commands>>

(***************************************************************************)
(* pending_extractions, extractions_for_statuses and                       *)
(* mark_extractions_running: a chunk is read, then leased.                 *)
(***************************************************************************)
\* Mutant: every copy stands for itself.
StandsForItself(m, jobs) == m \in Indexed

\* Of the copies of a text only the earliest with a job may be sent.
StandsForItsText(m, jobs) ==
    \A e \in Indexed : (Copies(e, m) /\ Earlier(e, m)) => jobs[e].status = "absent"

\* Mutant: a running row is taken to be in good hands.
DueFresh(m, jobs) ==
    /\ \/ jobs[m].status = "pending"
       \/ jobs[m].status = "error" /\ jobs[m].attempts < MaxAttempts
    /\ StandsForItsText(m, jobs)

\* A running row is one that a dead run left: its lease may be over.
Due(m, jobs) ==
    /\ \/ jobs[m].status = "pending"
       \/ /\ jobs[m].status \in {"error", "running"}
          /\ jobs[m].attempts < MaxAttempts
    /\ StandsForItsText(m, jobs)

Chunks(S) ==
    {rows \in SUBSET S :
        Cardinality(rows) = IF Cardinality(S) < ChunkSize THEN Cardinality(S) ELSE ChunkSize}

\* What a run does once it has no more rows to read.
AfterExtraction(k) ==
    IF proc[k].builds THEN [Idle EXCEPT !.pc = "twins"] ELSE Idle

\* `extract` without statuses reads the queue the tick reads.
BeginExtract(k) ==
    /\ LockFree(k)
    /\ commands < MaxCommands
    /\ commands' = commands + 1
    /\ Step(k, [Idle EXCEPT !.pc = "pending"])
    /\ UNCHANGED <<sources, tables, version, sent, troubles>>

\* The jobs a read seeds are committed with the lease that follows it.
ReadPending(k) ==
    /\ proc[k].pc = "pending"
    /\ LET jobs == JobsFor(state)
           due == {m \in Messages : Due(m, jobs)}
       IN  /\ job' = jobs
           /\ IF due = {} \/ proc[k].done >= Limit
              THEN Step(k, AfterExtraction(k))
              ELSE \E rows \in Chunks(due) :
                     Step(k, [proc[k] EXCEPT !.pc = "lease", !.rows = rows])
    /\ UNCHANGED <<sources, corpus, saved, embedded, state, mentions, placeCount,
                   descriptorCount, version, sent, bounds>>

\* `extract --status`: a snapshot of settled rows whose job is still open,
\* whatever its attempts and its cooldown say.
BeginReextract(k, statuses) ==
    /\ LockFree(k)
    /\ commands < MaxCommands
    /\ commands' = commands + 1
    /\ LET jobs == JobsFor(state)
           chosen == {m \in Messages :
                        /\ jobs[m].status \in {"pending", "error"}
                        /\ state[m].status \in statuses
                        /\ StandsForItsText(m, jobs)}
       IN  /\ chosen # {}
           /\ job' = jobs
           /\ \E rows \in Chunks(chosen) :
                Step(k, [Idle EXCEPT !.pc = "lease", !.rows = rows, !.done = Limit])
    /\ UNCHANGED <<sources, corpus, saved, embedded, state, mentions, placeCount,
                   descriptorCount, version, sent, troubles>>

\* The rows that were read go to the model.
MarkRunning(k) ==
    /\ proc[k].pc = "lease"
    /\ job' = [m \in Messages |->
                 IF m \in proc[k].rows /\ job[m].status \in {"pending", "error", "running"}
                 THEN [job[m] EXCEPT !.status = "running"]
                 ELSE job[m]]
    /\ sent' = sent \cup proc[k].rows
    /\ Step(k, [proc[k] EXCEPT !.pc = "answers", !.done = @ + Cardinality(proc[k].rows)])
    /\ UNCHANGED <<sources, corpus, saved, embedded, state, mentions, placeCount,
                   descriptorCount, version, bounds>>

(***************************************************************************)
(* record_extraction, and the aggregates it refreshes.                     *)
(***************************************************************************)
PlacesIn(found) == {x[1] : x \in found}
DescriptorsIn(found) == {x[2] : x \in found}

PlaceTotal(ms, p) == Cardinality({n \in Messages : p \in PlacesIn(ms[n])})
DescriptorTotal(ms, d) ==
    Cardinality({u \in Messages \X Places : <<u[2], d>> \in ms[u[1]]})

\* Mutant: only what is still mentioned is recounted.
TouchedNow(ms, gone, places) ==
    {x[2] : x \in {y \in UNION {ms[n] : n \in Messages} : y[1] \in places}}

\* The descriptors to recount: those of the mentions that went, and those of
\* every mention of an affected place.
Touched(ms, gone, places) ==
    DescriptorsIn(gone) \cup {x[2] : x \in {y \in UNION {ms[n] : n \in Messages} : y[1] \in places}}

\* One message's mentions are replaced and every projection of them refreshed.
Replace(m, found) ==
    LET ms == [mentions EXCEPT ![m] = found]
        places == PlacesIn(mentions[m]) \cup PlacesIn(found)
        touched == Touched(ms, mentions[m], places)
    IN  /\ mentions' = ms
        /\ placeCount' = [p \in Places |->
                            IF p \in places THEN PlaceTotal(ms, p) ELSE placeCount[p]]
        /\ descriptorCount' = [d \in Descriptors |->
                                 IF d \in touched THEN DescriptorTotal(ms, d)
                                 ELSE descriptorCount[d]]

\* A chunk that is done is followed by the next read.
Recorded(k, m) ==
    LET rest == proc[k].rows \ {m} IN
    Step(k, [proc[k] EXCEPT !.rows = rest, !.pc = IF rest = {} THEN "pending" ELSE "answers"])

Saturated(n) == IF n < MaxAttempts THEN n ELSE MaxAttempts

RecordAnswer(k, m, found) ==
    /\ proc[k].pc = "answers"
    /\ m \in proc[k].rows
    /\ Replace(m, found)
    /\ state' = [state EXCEPT ![m] =
                   [status |-> IF found = {} THEN "no_venue" ELSE "extracted",
                    active |-> version]]
    /\ job' = [job EXCEPT ![m] =
                 [status |-> "succeeded", attempts |-> Saturated(@.attempts + 1)]]
    /\ Recorded(k, m)
    /\ UNCHANGED <<sources, corpus, saved, embedded, version, sent, bounds>>

\* Attempts are counted as far as they are compared.
AttemptsAfter(m, transient) ==
    IF transient THEN Saturated(job[m].attempts + 1) ELSE MaxAttempts

\* A failure for good is the failure of every copy.
Failed(m, transient) ==
    LET attempts == AttemptsAfter(m, transient)
        failed == [status |-> "error", attempts |-> attempts]
    IN  [n \in Messages |->
           IF \/ n = m
              \/ attempts >= MaxAttempts /\ Copies(n, m) /\ job[n].status # "absent"
           THEN failed
           ELSE job[n]]

RecordError(k, m, transient) ==
    /\ proc[k].pc = "answers"
    /\ m \in proc[k].rows
    /\ job' = Failed(m, transient)
    /\ Recorded(k, m)
    /\ UNCHANGED <<sources, corpus, saved, embedded, state, mentions, placeCount,
                   descriptorCount, version, sent, bounds>>

(***************************************************************************)
(* propagate_duplicates: the pairs are read once, then each copy is        *)
(* settled in a transaction of its own.                                    *)
(***************************************************************************)
\* Mutant: any version's answer will do.
SourcesOfAnyVersion(m) ==
    {e \in Indexed : Copies(e, m) /\ Earlier(e, m) /\ state[e].active > 0}

Sources(m) ==
    {e \in Indexed : Copies(e, m) /\ Earlier(e, m) /\ job[e].status = "succeeded"}

ReadTwins(k) ==
    /\ proc[k].pc = "twins"
    /\ LET open == {m \in Indexed : job[m].status \in {"pending", "error"} /\ Sources(m) # {}}
           First(S) == CHOOSE e \in S : \A f \in S : e = f \/ Earlier(e, f)
       IN  Step(k, IF open = {} THEN Idle
                   ELSE [Idle EXCEPT !.pc = "settle",
                           !.twins = {[copy |-> m, source |-> First(Sources(m)),
                                       status |-> state[First(Sources(m))].status] : m \in open}])
    /\ UNCHANGED <<sources, tables, version, sent, bounds>>

SettleTwin(k, t) ==
    /\ proc[k].pc = "settle"
    /\ t \in proc[k].twins
    /\ Replace(t.copy, mentions[t.source])
    /\ state' = [state EXCEPT ![t.copy] = [status |-> t.status, active |-> version]]
    /\ job' = [job EXCEPT ![t.copy].status = "succeeded"]
    /\ LET rest == proc[k].twins \ {t} IN
       Step(k, IF rest = {} THEN Idle ELSE [proc[k] EXCEPT !.twins = rest])
    /\ UNCHANGED <<sources, corpus, saved, embedded, version, sent, bounds>>

(***************************************************************************)
(* The run is killed (TimeoutStartSec, a deploy), and a new prompt version *)
(* is deployed between two runs.                                           *)
(***************************************************************************)
Die(k) ==
    /\ proc[k].pc # "idle"
    /\ troubles < MaxTroubles
    /\ troubles' = troubles + 1
    /\ Step(k, Idle)
    /\ UNCHANGED <<sources, tables, version, sent, commands>>

Upgrade ==
    /\ version < MaxVersions
    /\ \A k \in Processes : proc[k].pc = "idle"
    /\ version' = version + 1
    /\ job' = [m \in Messages |-> NoJob]
    /\ sent' = {}
    /\ UNCHANGED <<sources, corpus, saved, embedded, state, mentions, placeCount,
                   descriptorCount, proc, bounds>>

(***************************************************************************)
(* The specification.                                                      *)
(***************************************************************************)
Sync(k) ==
    \/ BeginBuild(k)
    \/ \E m \in Messages : CopyRow(k, m)
    \/ EndStream(k)
    \/ SeedState(k)

Extract(k) ==
    \/ ReadPending(k)
    \/ MarkRunning(k)
    \/ \E m \in Messages :
          \/ \E found \in Answers : RecordAnswer(k, m, found)
          \/ \E transient \in BOOLEAN : RecordError(k, m, transient)

Propagate(k) ==
    \/ ReadTwins(k)
    \/ \E t \in proc[k].twins : SettleTwin(k, t)

Command(k) ==
    \/ BeginExtract(k)
    \/ \E statuses \in SUBSET {"extracted", "no_venue", "skipped"} \ {{}} :
          BeginReextract(k, statuses)

IndexNext ==
    \/ \E m \in Messages : Arrive(m) \/ Remove(m)
    \/ \E k \in Builders : Sync(k) \/ Propagate(k)
    \/ \E k \in Builders : Embed(k) \/ EmbedFails(k)
    \/ \E k \in Processes : Extract(k) \/ Die(k)
    \/ \E k \in Processes \ Builders : Command(k)
    \/ Upgrade

IndexSpec == IndexInit /\ [][IndexNext]_indexVars

\* The run that holds the lock goes on, unless it is killed.
Proceed(k) ==
    \/ k \in Builders /\ proc[k].pc # "idle" /\ (Sync(k) \/ Embed(k) \/ Propagate(k))
    \/ Extract(k)

\* The timer keeps starting builds, and some tick of it finds the lock free.
\* Nothing is fair about a death, or about what an operator starts.
IndexFairness ==
    /\ \A k \in Builders : SF_indexVars(BeginBuild(k))
    /\ WF_indexVars(\E k \in Processes : Proceed(k))

IndexFairSpec == IndexSpec /\ IndexFairness

(***************************************************************************)
(* Properties.                                                             *)
(***************************************************************************)
\* Every row of search.db and every local of a run stays in its domain.
Statuses == {"absent", "pending", "duplicate", "skipped", "extracted", "no_venue"}

Runs ==
    [pc : {"idle", "live", "scout", "seed", "embed", "pending", "lease", "answers", "twins",
           "settle"},
     builds : BOOLEAN, cursor : Nat, ticks : 0..RescanEvery, rows : SUBSET Messages, done : Nat,
     twins : SUBSET [copy : Messages, source : Messages, status : Statuses \ {"absent"}]]

IndexTypeOK ==
    /\ rowid \in [Messages -> Nat] /\ autoinc \in Nat
    /\ corpus \in Seq(Messages)
    /\ \A i, j \in 1..Len(corpus) : corpus[i] = corpus[j] => i = j
    /\ saved \in [Streams -> [cursor : Nat, ticks : 0..RescanEvery]]
    /\ embedded \subseteq Indexed
    /\ version \in Nat \ {0}
    /\ state \in [Messages -> [status : Statuses, active : 0..version]]
    /\ job \in [Messages -> [status : {"absent", "pending", "running", "succeeded", "error"},
                            attempts : 0..MaxAttempts]]
    /\ mentions \in [Messages -> Answers \cup {{}}]
    /\ proc \in [Processes -> Runs]
    /\ sent \subseteq Messages

\* The counts of places and of descriptors are those of the mentions there are,
\* although each message recounts only what it touched: a descriptor whose
\* mentions all went shrinks with them (_refresh_entity_aggregates).
AggregatesMatchMentions ==
    /\ \A p \in Places : placeCount[p] = PlaceTotal(mentions, p)
    /\ \A d \in Descriptors : descriptorCount[d] = DescriptorTotal(mentions, d)

\* Of the copies of one text by one author at most one is ever sent to the
\* model under a prompt version, whatever dies, fails or is extracted by hand
\* (_mark_crosspost_duplicates: one message per identical text).
OneCopyIsSent ==
    \A m, n \in sent : Copies(m, n) => m = n

\* A settled crosspost carries exactly what its settled original carries, through
\* new prompt versions and runs that die between an answer and its copies
\* (propagate_duplicates).
CopiesAgree ==
    \A m, n \in Indexed :
        Copies(m, n) /\ job[m].status = "succeeded" /\ job[n].status = "succeeded" =>
            mentions[m] = mentions[n]

\* No text is paid for again once it has its answer: a run holds none, from its
\* read to its record, of which some copy is answered.  "A timer tick landing on
\* top of a long manual pass would re-issue the same LLM calls for the same rows:
\* the writes are idempotent, the billing is not" (_EXCLUSIVE in index_cli.py).
AnswersAreNotPaidAgain ==
    \A k \in Processes : \A m \in proc[k].rows, n \in Messages :
        Copies(n, m) => job[n].status # "succeeded"

\* A row that stays in its source reaches the corpus, also when it took the
\* rowid of a row that was removed (_sync_stream, rescan_every).
EveryRowReachesCorpus ==
    \A m \in Messages : rowid[m] > 0 ~> (m \in Indexed \/ rowid[m] = 0)

\* Out of attempts: failed for good, or sent again all the same by `extract
\* --status`, and left `running` when that run died.
GivenUp(m) == job[m].status \in {"error", "running"} /\ job[m].attempts >= MaxAttempts

\* Every job ends: answered, given up, or waiting for an original that was given
\* up before its copy was synced; a row whose run died is sent by the next.
EveryJobSettles ==
    \A m \in {n \in Messages : IsCandidate(n)} :
        job[m].status # "absent"
          ~> \/ job[m].status \in {"succeeded", "absent"}
             \/ \E e \in Messages : GivenUp(e) /\ (e = m \/ (Copies(e, m) /\ Earlier(e, m)))

\* build_index: "Every stage is resumable on its own", and a run that is killed
\* leaves its rows to be sent again (PlaceExtractor.run).
KilledRunsAreResumed ==
    \A m \in Messages : job[m].status = "running" ~> job[m].status # "running"
=============================================================================
