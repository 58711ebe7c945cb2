# Eidolon: formal models

TLA+ models of the parts of the Eidolon Telegram scraper that carry its
promises: no committed message is lost, an alert is delivered and recorded
once, a policy change reaches a running daemon, a listing is judged under the
requirements in force and its report reaches the owner with the original behind
it, a chat is joined and archived within its budgets, and what was collected is
indexed without holes. TLC checks the models on small
instances; TLAPS proves what matters most for every value of the constants.
`PROJECT.json` lists the runs, the mutants that show each property can fail,
the source lines of every definition, the hazards and the theorems.

## Inventory

| component | state it keeps | operations | what is hard about it | correct when |
|---|---|---|---|---|
| ingress and pipeline (`main.py`, `storage/db.py`) | `messages`, `pipeline_runs`, `filter_stats`; a bounded queue; the worker pool | store an update with its jobs, put, process, record an outcome, recover at start, drain, purge | a crash between the commit and the queue; replayed updates; policies edited while jobs are pending; retention beside open work | every committed job ends once, with its alert, under a policy it may be judged by |
| relevance ladder (`pipeline/processor.py`, `filters.py`, `embeddings.py`, `llm.py`) | none | rule, embedding, model; degraded verdicts; echo and external policies | a provider that fails in the middle; a policy that stops at level 1 or 2 | a verdict is what the policy says of the answers it got |
| alert outbox (`storage/db.py`, `main.py`, `pipeline/dispatcher.py`) | `alerts`, provenance columns, `alerts_sent` | enqueue, claim under a lease, post with bounded retries, record the result, purge | lost answers, stalled workers, leases that run out, late results, refreshed payloads | the audit record is what was sent, counted once; duplicates have a cause; every alert ends |
| watcher reload (`main.py`, `pipeline/agent_watchers.py`, `storage/db.py`, `eidolon_mcp.py`) | watcher definitions, bindings, observation modes, a generation; in memory: routing, filters, the vector index | writes of the bridge, the poll, reconcile, seed, reload, start | two tasks rebuild one routing across awaits; writes between the reads of one tick; a tick that fails half way | what is marked as seen is what runs; who is routed is seeded and has a filter |
| join worker (`pipeline/joiner.py`, `storage/scout.py`, `eidolon_mcp.py`) | a queue of joins | queue, join, reconcile, activate | an interrupted join must not be repeated; activation writes two databases and reloads the routing; the bridge writes the queue from another process | a join is sent once per key, only members are observed, what is joined is archived, no row is stuck |
| housing delivery (`pipeline/housing/worker.py`, `owner_transport.py`, `storage/housing.py`) | `housing_alerts` | claim, report, checkpoint, forward, copy, bot fallback, reopen, probe, settle | two calls per alert with a crash between them; a DM that is paused for hours; rows that reopen | a report is not repeated, an original follows its report, nothing is closed unseen |
| housing units, requirements, photographs (`pipeline/housing/*`, `storage/housing.py`, `eidolon_mcp.py`) | units, facts, matches, requirements with a generation, media queue | attach, sweep, extract, match, re-match, download, read photographs, save requirements | sweeps of stale units; edits during a unit or a re-match; four loops write one unit | an edit reaches the whole archive; what is admitted is told; a final reading was judged; every unit ends |
| action governor (`pipeline/governor.py`, `storage/scout.py`) | ledger of actions, cooldowns | reserve, execute, settle, pause | several tasks share rolling budgets; an attempt of unknown outcome | no budget is exceeded, a spent slot stays spent, a mutation is not repeated |
| backfill (`pipeline/backfill.py`, `crawler.py`, `storage/scout.py`) | targets with a cursor, archived messages | choose a target, fetch a page, move the cursor, defer | a crash between page and cursor; a page asked for again under a used key | history has no gap and is walked to its end |
| discovery, recon (`discovery*.py`, `recon*.py`, `scoring.py`, `storage/scout.py`) | jobs, canonical chats with their aliases, candidates with their evidence | submit, run a job wave by wave, register, merge, score, approve, join, queue links | records that turn out to be one chat; usernames that change hands; a run that dies | a locator belongs to one record; approval rests on counted evidence; a job ends |
| search index (`storage/search.py`, `pipeline/indexer.py`, `index_cli.py`) | a corpus with cursors, vectors, extraction jobs, mentions and their counts | sync, rescan, embed, lease, record, settle crossposts, re-extract | rowids used again; killed leases; a timer that ticks on top of a run by hand; a new prompt version | every row is indexed, one copy of a text is paid for and once, counts are those of the mentions, a job ends |
| session lock, migrations (`storage/session_lock.py`, `storage/db.py`) | a file lock; the schema | acquire; rebuild `housing_alerts` | two daemons; a rebuild cut short | one daemon per session; no row is lost |
| control plane, bridge reads, summary, providers, tools | none worth a model | reads, one model call, offline commands | none of the above | not modelled |

The components meet in three places. The SQLite file: one lock serialises the
writers of the daemon's connection and `BEGIN IMMEDIATE` those of other
processes, so a transaction is one step of every model. The event loop: what
runs between two awaits is one step, and every await is a point where other
tasks step; callbacks (`on_new_message`, the join worker's `on_joined`) run in
it too. And Telegram: a request whose answer is lost may have happened.

## Modules

| module | models | composed of |
|---|---|---|
| `AlertLifecycle` | abstract: what the outbox promises about an alert | |
| `AlertOutbox` | the alert outbox, with leases and countdown clocks | implements `AlertLifecycle` |
| `AlertOutboxProofs` | the theorems about `AlertOutbox` | |
| `RelevanceLadder` | the relevance ladder as operators on policies and answers | |
| `DurableJob` | abstract: the life of a message under a watcher | |
| `MessagePipeline` | ingress, queue, workers, recovery, retention | extends `RelevanceLadder`, implements `DurableJob` |
| `MessagePipelineProofs` | the theorems about `MessagePipeline` | |
| `WatcherReload` | the tables of the bridge, the poll, the join worker's reload, the routing | |
| `WatcherReloadProofs` | the theorems about `WatcherReload` | |
| `HousingDelivery` | the two-step outbox of housing alerts | |
| `HousingDeliveryProofs` | the theorems about `HousingDelivery` | |
| `ActionGovernor` | reservations, budgets, pauses and the one slot of Telegram calls | |
| `HistoryBackfill` | the archive worker | extends `ActionGovernor` |
| `JoinQueue` | the join queue, its worker, the bridge that fills it, Telegram's side of a membership | extends `HistoryBackfill` |
| `JoinQueueProofs` | the theorems about `ActionGovernor`, `HistoryBackfill` and `JoinQueue` | |
| `HousingMatcher` | facts, requirements, verdicts and readings of photographs as operators | |
| `HousingUnits` | units, extraction, matching, the archive sweep, downloads and the reading of photographs | extends `HousingMatcher` |
| `HousingUnitsProofs` | the theorems about `HousingMatcher` and `HousingUnits` | |
| `EntityIndex` | the derived search index: sync, extraction jobs, mentions, crossposts | |
| `EntityIndexProofs` | the theorems about `EntityIndex` | |
| `Discovery` | reconnaissance jobs, the records of chats and their candidates | |
| `DiscoveryProofs` | the theorems about `Discovery` | |
| `MC*` | instances for TLC | |

**AlertOutbox.** A row of `alerts` is `status`, `attempts`, `due`, `lease`,
`owner`, `level`; `cycle[d]` is where a user of `_deliver_due_alerts` stands
between its claim and the recorded result. `ClaimDueAlert` is
`_claim_due_alerts_locked`; `PostSucceeds`, `PostRefused`, `PostFails`,
`PostTimesOut` and `WaitEnds` are the rounds of `_deliver_html`;
`MarkDeliveryResult` is `_mark_alert_delivery_result_locked` with its fencing
token. `due` and `lease` count down with `Tick`. `OnTime` says whether the
process is scheduled in time: with `OnTime = TRUE` time does not pass a
deliverer that has to act, with `FALSE` it may stall anywhere. `accepted`,
`shown` and `troubled` are history: what the Bot API took, and whether
something that justifies a duplicate happened.

**MessagePipeline.** One chat, whose messages go to every live watcher.
`StoreMessage` is `store_message` with its jobs; `PutWorkItem` the bounded
queue; `BeginJob`/`FinishJob` a worker around the ladder;
`LoadRecoveryBatch`, `RefuseStaleJob`, `RecoverJob`, `FinishRecoveryBatch`
the replay at start; `PurgeExpiredData` retention. `JobLife` maps the tables to
`DurableJob`. A policy is a fingerprint, and `PolicyOf` says what it means.
Delivery appears as its verdict (`SettleAlert`), since `AlertOutbox` has the
cycle behind it.

**WatcherReload.** A watcher's definition is a version; `Merged` is
`merge_agent_watchers`. The poll is `ReadGeneration`, `ReadDefinitions`, one
seeding step per awaited call (`ReuseIndex`, `DropIndex`, `FillIndex`),
`SyncReads`, `SyncSwaps`; the join worker is `JoinObserves`, `JoinBinds`,
`JoinReads`, `JoinSwaps`. `reloads` holds the snapshots that were read and not
yet swapped in, in the order the two tasks read them.

**HousingDelivery.** `row[a]` is a row of `housing_alerts`; `work` is
`run_once`, with `pc` naming the awaited call the delivery is at. The owner's
DM answers a report with acceptance, a code of `NOT_YET_CODES` (`"later"`), a
counted failure (`"retry"`), or that it cannot be written to. A lease and
`next_attempt_at` are one flag, `waits`: one daemon delivers, so they only say
when a row is due, and rows that wait for neither are claimed in order of ids.
`shown` is what the owner received and `lost` what the row was never told.

**ActionGovernor.** `ledger[k]` is the row of `telegram_actions` under an
idempotency key, `cooldown[s]` a row of `account_cooldowns`, `call[c]` where a
caller is inside `run()`. A key is `<<kind, subject, number>>`, what the texts
of the callers' keys are made of. `ReserveAction` is `reserve_action` as one
transaction (replay, pause, pace, hour, day, in this order); `TakeSlot` the
semaphore with the request; `Answer` what Telegram says; `Settle` and
`SetCooldown` the records, each its own transaction. Ages and pauses are counted
in ticks; an age stops at the longest window. A replayed read runs again, a
replayed join does not. Waiters of the semaphore are taken in any order. A pause
ends by its time even if it asks for an operator, as in the code; lifting one by
hand is left out.

**HistoryBackfill.** A chat's history is `Pages` pages, and the cursor is the
number walked. `StorePage` and `RecordPage` are the two transactions of a page,
`DeferTarget` every answer without one. A horizon ends the walk as the end of
the history does; raising it later is left out.

**JoinQueue.** `row[x]` is a row of `join_queue`; `joiner` is `run_forever` with
the rows it has read (`job`, `todo`, `dialogs`); `bridge` is `queue_chat_join`
between its read and its writes. A public chat goes through `ResolveEntity` and
`Resolved` (or `Unresolvable`) before `AskToJoin`: `_named_entity` asks Telegram
for the username outside the governor, so the request is in no ledger, waits for
no slot and heeds no pause, and neither does the list of dialogs (`ReadDialogs`).
An invite link is asked for at once. `AskToJoin` leads to one action per answer
(`DeferRefused`, `DeferHalted`, `ParkInterrupted`, `AwaitAdmin`,
`JoinFails`, `Joined`, `JoinRaises`); `ObserveChat`, `BindPolicy`, `AddTarget`
and `SettleJoined` are the writes of `_activate`; `StartReconcile` to
`EndReconcile` are `reconcile`. `member[x]` is what Telegram holds, and a stop
or a lost answer leaves it open whether a join arrived. The rows of a
reconciliation are gone through in any order. The owner's messages and the
searches of discovery use the same governor in the code; here the join worker
and the archive worker do. The joins of `recon.py`, under keys of its jobs, are
in `Discovery`.

**HousingUnits.** `unit[u]`, `facts[u]`, `match[u]`, `media[u]` are the rows of
a unit; `req` the active requirements with the generation and the generation the
archive was re-judged at; `alerts` the keys of `housing_alerts`, which
`HousingDelivery` takes from there. `RecordMessage` attaches a message,
`EditRequirements` is the bridge's tool. `worker` is `HousingWorker`: the batch
it claimed, then `BeginUnit`, `ExtractFacts`, `ScreenOffer`, `ReadRequirements`,
`JudgeUnit`, `RequestPhotographs`, `FinishUnit` for each unit, then `CheckRematch`
to `RecordRematch` for the archive. `SettleMedia` is one answer of a download,
and `vision` the reading: `ReadFacts`, `ReadPrevious`, `ReadPhotographs`,
`ReadActive`, `JudgeReading`, `FinalizeReading`. The loops share the tables and
step between any two transactions. Quiet windows, ages and delays may pass at
any moment. `listed` and `judgedOn` are history: what a digest listed, and the
facts a recorded verdict came from. What the extractor and the vision model find
are inputs; how facts are judged and completed is `HousingMatcher`, criterion by
criterion; a rent is asked for when the definition names it, with a bound or without.

**EntityIndex.** `rowid` is what the two sources hold, `corpus` the copied rows
in the order of their `corpus_id`, `saved` the cursors. `proc[k]` is one run of
`index_cli`: a build goes through `BeginBuild`, `CopyRow`, `EndStream` for each
stream, `SeedState`, `Embed`, `ReadPending`, `MarkRunning`, `RecordAnswer` or
`RecordError` for each row, `ReadTwins` and `SettleTwin`; `extract --status` starts
at `BeginReextract`. All of them run under one exclusive lock (`LockFree`,
`_EXCLUSIVE` in `index_cli.py`), which a killed run leaves to the next; a command
that finds it taken is skipped. `Upgrade` deploys a new prompt version between two
runs or during one. `placeCount` and `descriptorCount` are recomputed only for what
a message touched. `sent` is history.

**Discovery.** `names` is Telegram's, `chat` and `alias` are `scout_chats` and
`chat_aliases`, `cand[j][r]` a candidate with its evidence and the stored count.
`ResolveChat` is `resolve_chat` with the merge of a second record;
`run` is the one `ReconRunner` there can be: `ResolveSeed`, `Search`, then
`Register`, `Prove`, `Attach` for what they found, `List`, `Score`, `Decide`, and
for an approved chat `Enter`, `JoinChannel` with its answers, `SetMembership`,
`Settle`, `Observe`, `Link`, `Linked`. `DaemonStart` and `CliStart` start it,
`RunRaises` and `Killed` end it early, and a join
that was cut off may have reached Telegram and leaves its key spent (`CutOff`). A score is what `_decide` may say of a chat
whose value is unknown: the proof of public scope, the count and the wave decide
what is left. `recon_frontier` is used by tests only and left out, as are the
deadline of a job and profile fields.

## Runs

| run | instance | shows |
|---|---|---|
| `outbox_stalled` | 1 row, 2 deliverers, 4 tokens, lease shorter than a cycle, stalls | `DuplicateNeedsCause`, `SentPayloadIsAudited`, `SentCountedOnce`, and that the outbox implements `AlertLifecycle` |
| `outbox_live` | 1 row, 2 deliverers, lease longer than a cycle, on time, fair | `NoInFlightReclaim`, `EveryAlertSettles` |
| `pipeline_jobs` | 2 messages, 1 watcher, 2 workers, queue of 1, one stop and edit, two faults | `PendingWorkIsHeld`, `JobHasOneHolder` |
| `pipeline_ladder` | 1 message, a three-stage watcher and an external one, fair | `AlertIffAccepted`, `RecoveredUnderStoredPolicy`, `EveryJobFinishes`, and that the pipeline implements `DurableJob` |
| `reload` | 1 chat, a config and an agent watcher, 3 writes, a join, a fault, a stop, fair | `RoutedHasFilter`, `NoChangeMissed`, `ChangesReachRouting` |
| `housing_delivery` | a live alert and an update of one listing, 2 tries, one fault, fair | `ReportsOnceUnlessLost`, `OriginalFollowsReport`, `NoOriginalForgotten`, `EveryListingSettles`, `FallbackReachesDM` |
| `joins` | 1 chat, public or by invite, 2 requests of the bridge, one trouble and one fault | `BudgetKept`, `MutationIsOneCall`, `JoinedIsActivated`, `NoHistoryGap` |
| `joins_live` | the same with 2 pages, 1 request and one trouble or fault, fair | `NoRowIsStuck`, `HistoryIsWalked` |
| `joins_upgrade` | two requests of the bridge | violates `JoinedIsBound` |
| `units` | 1 unit with a caption and a photograph, 2 revisions, 2 sweeps, one death or failing step, fair | `ArchiveIsRejudged`, `AdmittedIsTold`, `VisionDoneIsJudged`, `EveryUnitSettles` |
| `index` | one announcement in a live and two scouted chats, a build and an extraction by hand that want the same lock, 2 versions, one removal, one trouble, fair | `AggregatesMatchMentions`, `OneCopyIsSent`, `CopiesAgree`, `AnswersAreNotPaidAgain`, `EveryRowReachesCorpus`, `EveryJobSettles` |
| `discovery` | 2 chats, 2 usernames, one job run twice, with one seed, one term and one join, 2 waves, one name that moves, one trouble, fair | `LocatorsAreOwned`, `SourcesAreCounted`, `ApprovedIsSupported`, `EveryJobEnds` |

Each module also states its type invariant, which its theorems prove. Every
invariant and every refinement of this table is also the statement of a theorem;
the properties under fairness are checked here only.

**Bounds.** Every bound is a constant: accepted requests and abandoned cycles
per outbox run; stops, faults and edits of the pipeline; writes, joins, faults
and stops of a reload; faults of a housing delivery; requests of the bridge,
troubles (answers that settle nothing), faults, and all of these together
(`MaxEvents`) of the join queue. One of each is enough for
the interesting case, a failure at any point followed by a full recovery; two
versions of a policy make a stale one; two workers or deliverers make a race;
a queue of one is full when a second message comes; two alerts of one listing
relate to each other; budgets of one slot per window are full at once; three
copies of one text in two streams are a crosspost with a row of each stream behind
another, and one removal is enough to
use a rowid again; two chats and two names make a record of each name, a merge of
two records and a name that passes from one chat to the other. One chat
is enough for the join queue, whose rows meet only in the order they are taken
and in the governor, which the archive worker shares. Rows of the outbox do not interact (a claim takes one
row), so one row with two deliverers has all the races; the theorems cover any
number. Where the bounded instance ends in a state without successors (all
messages judged and purged, writes used up) the cfg switches deadlock checking
off; `outbox_stalled` and `outbox_live` check it.

The safety invariants were also checked once on larger instances than the cfgs
have: two units for `units` (4.3 million states) and two moved names for `discovery` (1.2
million, liveness included).

**Fairness.** Weak fairness on the steps the code takes by itself: loops that
poll forever, requests that end by their timeout, sleeps that end, writes that
commit, a supervisor that restarts the daemon. Nothing forces a crash, an
update, a write of the bridge, or a Bot API that accepts. `HousingDelivery`
assumes more, and says so: a row waiting for its time is claimed in the end
(strong fairness, since the claim is ordered by `next_attempt_at` and a retry
goes to the back), and a DM that is written to again and again accepts in the
end, because pacing, budgets and pauses of the governor end with their
windows. A pause that asks for an operator lapses
by its time as well. `JoinQueue` assumes that the loops run on, that Telegram
answers, that waiters of the semaphore are served (strong fairness: the other
caller may hold it again and again), that an admin who was asked approves, and
that time passes; a reconciliation is started, and a page asked for, whenever
that is possible again and again. `HousingUnits` assumes that its four loops go
on and that the daemon is restarted; `EntityIndex` that the timer starts a
build if the lock is free again and again (strong fairness: a run by hand may hold it)
and that whoever holds the lock goes on until it ends or is killed; `Discovery` that the daemon polls
for queued jobs and a run goes on. In all three the troubles are bounded and
nothing forces an edit, a command, a removal or a renamed chat.

## Findings

- **An upgrade of a pending join is lost** (`joins_upgrade`). The worker
  activates with the row it read before the join; a policy the bridge added
  since is in the queue and nowhere else.

Also seen, each a violation of a property that is stated in its module and that
no run checks; a cfg like that of the named run, with the property as its only
INVARIANT or PROPERTY, shows it:

- **A reload can stop the daemon** (`ReloadSparesProcess`; `reload` with two
  writes, no unusable version, join, fault or stop). Between the two halves of
  `reconcile_agent_watchers` a revoked watcher is routed without a fingerprint; a
  message for its chat is a `KeyError` in the ingress handler (main.py:710), which
  shuts the process down. agent_watchers.py:150-152 says "a bug here costs a stale
  watcher set until the next tick and never the process".
- **A replayed read enters a pause** (`EntersUnpaused`; `joins` with two pages
  and one request).
  `reserve_action` answers a key it knows before it looks at the pauses
  (scout.py:921), and a read that is replayed runs again: a history page whose
  first request was flooded, halted or cut off goes out while the account is
  paused. scout.py:908 promises a slot "or explain the refusal".
- **A house in a photograph is not recognised** (`HouseIsRecognised`; `units` with
  `SeenBy <- AHouse`). `HousingVisionExtractor.read` asks the model for
  `property_type_visible` and `terrace_visible` and builds the reading without them
  (vision.py:263-273), although photographs are requested because "a standalone
  house is recognisable" (worker.py:229-231).
- **A killed run leaves a row running** (`KilledRunsAreResumed`; `index`).
  A row out of attempts that `extract --status` marked `running` is taken up by
  nobody once that run dies: a lease is only reclaimed below the attempt ceiling
  (search.py:1704-1710). indexer.py says "Every stage is resumable on its own."
- **A failed seeding is not retried** (`SeededBeforeRouted`; `reload` with one
  write and one fault). The retry finds the definitions unchanged and routes the
  watcher without its references until the next change. The join worker's
  reload can do the same for the time of one seeding.
- **A job without a subsystem blocks every start** (`StartIsNotBlocked`;
  `pipeline_ladder` with one stop and `ExternalPolicy`).
- **A failed housing alert may have been read** (`FailedWasNeverSeen`;
  `housing_delivery` without faults), and a row that failed this way is never
  offered to the DM again.
- **One listing, two originals** (`OriginalShownOnce`; `housing_delivery`
  without faults). Only an `UPDATE` asks whether its listing was already shown;
  a `LIVE` alert paced behind it forwards the original again.
- **An unresolved entity buries a membership** (`FailedIsNotMember`; `joins`
  with two faults). Every exception of the resolver counts as an entity that
  does not exist, also for a row whose join was interrupted.
- **An interrupted join is neither joined nor reconciled** (`InterruptedIsReconciled`;
  `joins_live`). scout.py:1430 says that such a row is never checked by the join
  path, "next_queued_join deliberately refuses" it; its SELECT (scout.py:1355) takes
  every pending row that is due. Row and reconciliation wait for the same hour, the
  loop calls `run_once` first, the governor replays the used key, and the row is
  parked for another hour before `reconcile`, which sees only due rows, looks: for
  ever, unless an older row keeps `run_once` busy at that moment. The tests set
  `not_before` to NULL and call `reconcile` alone. `NoRowIsStuck` therefore ends, for
  a row that was interrupted, where it is parked.
- **A username is resolved past the governor** (`PausedAccountIsSilent`; `joins`).
  "Every crawl call goes through TelegramActionGovernor" (governor.py:3), but
  `run_once` calls `client.get_entity` for every public chat before its join
  (joiner.py:106, main.py:552-559): also while the account is paused as a whole. A
  `FloodWait` there pauses nothing, and the row fails as one that does not exist.

Read in the code while modelling, with no property of their own:

- *Units.* A provider outage is said to delay certainty "instead of discarding a
  listing" (extractor.py:119-128), but a unit whose extraction was unread ends as
  `done` and is not read again. `update_housing_requirements` tells the owner that
  listings "already judged keep the verdict they were given", and the archive is
  re-judged. A download counts an attempt for a governor's refusal that media.py
  says is "without spending an attempt". The reading writes the whole row of facts
  it read minutes before, over an extraction in between, and a verdict of the same
  revision over that of a sweep in between. A second digest of one revision is
  dropped by its key; so is a rejection found in the photographs when an update
  exists. A unit that dies in every sweep stays as it is.
- *Index.* A copy synced after its original failed for good waits for
  ever. A failed embedding call ends the tick before its extraction.
- *Backfill.* A horizon that `backfill_chat` raises while the worker reads the
  last page of the old one is lost: the row is still pending, so the upsert leaves
  its state, and the page is then recorded as `complete` (backfill.py:117-131). The
  larger `target_days` is stored, never walked, and asking again with as many days
  does nothing; only still more days resume the walk.
- *Discovery.* The daemon takes up only queued jobs: one that died while
  discovering needs `recon_cli`, although `active_jobs` says it returns the jobs "a
  restarted scheduler must pick back up" and recon.py that "a restart resumes"; a
  candidate left scored by such a death is never decided. A crash between a join
  and `observe_chat` leaves the chat unobserved. A username that passes to another
  chat makes two chats one record, and the chat entered need not be the chat
  observed. Links of a joined chat have no peer and no proof, and are blocked as
  private. A merge drops the public proof and the membership of the record it
  deletes. `create_job` says a repeated submit "must never start a second crawl",
  and `recon_cli` runs the job it returns again.

## Proofs

`AlertOutboxProofs` proves for any number of rows, deliverers, tokens and any
lease, from the named assumptions on the constants:

- `OutboxTypes`, `SentPayloads`, `SentCounts`: invariants of `OutboxSpec`.
  None is inductive by itself. `OutboxInv` adds that a row that is still
  pending has tries left, that a busy deliverer has a row and a token, that a
  claimed row's payload is the one its owner is sending (`Pinned`: a refresh
  is refused under a claim), and that a recorded success was shown. One lemma
  per action.
- `LeaseSuffices`: if the lease is longer than all requests, waits and the
  final write together (`LeaseCovers`) and the process is scheduled in time,
  `NoInFlightReclaim` holds. `LeaseInv` says that the lease left is never less
  than the time the cycle can still spend; each step pays for what it spends.
- `SettledRows` and `OutboxImplementsLifecycle`: each step preserves settled
  rows, and maps to a step of `AlertLifecycle` or to a stutter.
- `DuplicatesHaveCause`: an alert that the Bot API took twice has a cause
  (`DuplicateNeedsCause`). The step that takes it a second time knows nothing of
  the first, so `DuplicateInv` says of every row that was never troubled that
  whoever works on it owns it under a lease that runs (so one deliverer does), and
  that once it was accepted the row says so or its deliverer is about to record it
  (`AcceptedOnce`).

`MessagePipelineProofs` proves for any messages, watchers, workers, policies,
queue and faults `PipelineTypes`, `OneHolder`, `NothingIsDropped`,
`AlertsMatchOutcomes`, `RecoveryKeepsPolicy` and `PipelineImplementsDurableJob`.
None of the promises is inductive: a step that takes a job from where it is
held must leave it held once, or finished. `PipelineIInv` adds `TablesAgree` (a
run, its alert and its judge agree), `PhaseOwnsWork` (nothing is in hand before the
daemon is up, and what recovery has still to do is pending), `HandsAreSound` (a
worker no longer has to begin the job it judges), `JobsHeldOnce` (what is held is
pending, and one place of the handler, the queue and the workers holds it) and
`UpHolds` (a pending job is stranded or held). The refinement uses the same invariant:
one lemma per action names the step of `DurableJob` the job of each message and
watcher takes, or that it takes none.

`WatcherReloadProofs` proves for any chats, watchers, definitions, writes, faults
and stops `ReloadTypes`, `RoutedAreFiltered` and `ChangesAreApplied`.
`NoChangeMissed` says what is true when both tasks rest; `ReloadInv` says how far
it is true while they work. A tick that is under way has a generation to apply
that is not ahead of the tables (`NeverAhead`); the definitions are current once it
has read them and nothing was written since (`DefinitionsAreLive`); and the
routing of every chat, but the one being activated, is that of the tables or will be
once the last pending snapshot is swapped in (`ReadsAgree`, `LastReadAgrees`):
the last one read, since the two tasks swap in the order in which they read.

`JoinQueueProofs` has three parts. Of the governor it proves for any callers, keys,
policy and lengths
`GovernorTypes`, `Budgets` and `MutationsOnce`. `BudgetKept` needs that the
spent slots of a window are finite, that a granted slot adds one where the
window was below its cap (`SlotWithinBudget`), and that nothing else spends a
slot or makes one younger (`NothingSpent`): a caller that settles holds a key
that is already spent. `MutationIsOneCall` needs that a join in the queue has
sent nothing yet and has no second waiter (`CallerFacts`), which holds because a
request leaves its key spent (`RequestsAreSpent`).

Of the workers it proves for any chats, keys, policy and lengths
`WorkersKeepBudgets` (the governor's invariants as `joins` checks them) and
`HistoryHasNoGap`. A lemma (`WorkersAreCallers`) carries the first over: what the
workers do to the governor's variables its own specification allows, by the way
`JoinQueue` is written. It says nothing of the requests that go past the governor,
the resolving of a username and the dialogs, which count in no budget in the code
either. `NoHistoryGap` is not inductive: a page counts as stored only if the
worker that moves the cursor is the one that stored it. `HistoryFacts` adds
`ReaderFacts` (the target in the worker's hand is pending, at "record" the page
at its cursor is stored, and the worker waits for the governor only while it
asks) and that a pending cursor has a page before it.
`JoinTypes` and `ActivationIsWhole` are the third part. `JoinedIsActivated` is
about a row settled by the last of four writes in two databases; `WorkFacts` says
which of the earlier writes are done at each place of the worker
(`ActivationSoFar`), that nobody else settles the row in its hand or those on its
list (`WorkerOwnsRows`), and how much of what the bridge read before its write is
still so (`BridgeStillRight`): a row it upgrades is still joined, and one it found
settled has not changed.

`DiscoveryProofs` proves for any chats, usernames, records, jobs, thresholds and
bounds `DiscoveryTypes`, `RecordsOwnTheirLocators`, `StoredCountIsTrue` and
`ApprovalNeedsSupport`. The invariant `DiscoveryIInv` joins the types with
`RunIsPlaced` and `RunIsTyped` (the record in the runner's hand is stored, and a
candidate where a step writes one; nothing is listed while chats are registered, so
no listed candidate is merged away), `EvidenceIsFinite`, and `SnapshotHolds`: the
count listed for a candidate is never more than its evidence, since evidence only
grows and a merge keeps both. Without it `ApprovedIsSupported` is not inductive, as
`Decide` trusts a number read several transactions before. `LocatorsAreOwned` leans on the sizes: there are at least as
many uuids as locators, so a chat that is new finds a free record.

`HousingUnitsProofs` proves of the matcher, for all facts, readings and
definitions, that a photograph never turns an admitted listing into a rejected one
(`PhotographNeverRejects`) and keeps a confirmed one confirmed
(`PhotographKeepsConfirmed`): the promise by which photographs are read after the
owner was told. Of the four loops it proves for any units, photographs,
extractions, edits, sweeps and faults `UnitsTypes`, `ArchiveRejudged`,
`OwnerIsTold` and `ReadingsAreJudged`. `UnitsInv` has one named part per promise a
loop relies on. A unit is swept exactly once it has left assembly
(`SweptOnceClaimed`); the worker and the reading are at rows that exist
(`WorkerIsAtWork`, `VisionIsAtWork`), which only the reading writes behind the
worker's back, and only with photographs on disk (`RowIsStored`); revisions and
generations never run backwards (`RevisionsInOrder`), and the worker is under the
last one or the archive is still to be re-judged. `AdmittedIsTold` needs more
than its words: `DoneIsTold` says that a finished unit was told, is no offer, or is
rejected by its latest verdict and by every digest that is later than it;
`PhotographsAreOfTold` and `WorkerJudges` say that a reading judges only what was
told, so nothing but the worker can admit an offer that was not.
`ArchiveIsRejudged` needs `SweepIsWhole`: a sweep misses no archived offer and lists
each one that it upgrades, although units finish and readings write facts while
it runs, and `FinishedIsJudged`: a unit that is about to end has its verdict.

`EntityIndexProofs` proves for any messages, texts, answers, runs, chunks and faults
`IndexTypes`, `CountsAreTrue`, `OriginalsOnly`, `CopiesCarryOneAnswer` and
`NothingIsPaidAgain`.
`OneCopyIsSent` is a consequence of a stronger fact that is inductive: what a run
holds or has sent is the earliest of its copies in the corpus (`OriginalsAreSent`,
`RunsHold`). It stays true because the corpus only grows at its end (`CorpusGrows`)
and a message has a state only once all its seniors have one (`SeededInOrder`), so
the copy that stands for its text is one that no later row precedes. `AnswersAgree`
says of every message at the current version, settled or not, that an original was
answered for it and that copies agree, which a job's status alone does not.
Both this and `NothingIsPaidAgain` rest on the lock: at most one run is open
(`OneRunMoves`), so the rows it holds are still as due as when it read them
(`RunsHold`), and no other run can answer, or fail, what it is paying for.
`CountsMatch` needs that an answer touches every place and descriptor whose
mentions it removes or adds (`ReplaceCounts`).

Each of these invariants was checked by TLC, as an invariant of the runs'
specifications, before it was proved:

| invariant | distinct states |
|---|---|
| `DuplicateInv` | 37,885 (`outbox_stalled`) |
| `PipelineIInv` | 3,555,390 (`pipeline_jobs` without symmetry) |
| `ReloadInv` | 1,075,401 (`reload`) |
| `WorkFacts` | 970,869 (`joins`) |
| `UnitsInv` | 219,946 (`units`) and 3,328,057 (two units) |
| `IndexInv` | 325,790 (`index`) |

The assumptions on the constants are in the modules that declare them. Two of them
are there for the proofs alone: `UnitConstants` asks for one revision at least, as
saving the default requirements is one, and `IndexConstants` that the runs of the
timer are among the runs.

Only model-checked: everything under fairness, since liveness and `ENABLED` are out
of the prover's reach here (`EveryAlertSettles`, `EveryJobFinishes`,
`ChangesReachRouting`, `EveryListingSettles`, `FallbackReachesDM`, `NoRowIsStuck`,
`HistoryIsWalked`, `EveryUnitSettles`, `EveryRowReachesCorpus`, `EveryJobSettles`,
`EveryJobEnds`), and `JoinedIsBound`, which does not hold. The two abstract
specifications state no fairness, so the refinements proved are the whole of what
`ImplementsLifecycle` and `ImplementsDurableJob` check.

## Not modelled

Texts, rendering, ranking and parsing are data: the models take their results
as inputs. The control plane, the reading tools of the bridge, the summary and
the command line tools change no state the models read. The housing reports
(`history.py`, `rating.py`, `replay.py`) are batch commands that run alone over
exported history. The session lock is one file lock; every module assumes what it
gives, one daemon per session and one index command at a time. Migrations run before
everything else; the rebuild of `housing_alerts` may be cut short after its rename and
finds its legacy table at the next start (db.py:444). Of the
index, queries, contacts, reply links and names are left out; of discovery, the
frontier, the deadline and pages of a joined chat beyond the first.

## Plan

Every invariant of the passing runs, and every refinement they check, is stated by
a proved theorem. What is left:

1. Action properties that the invariants now at hand would carry: a final verdict
   of a unit is only replaced under a later revision or a reading; a settled
   extraction job is only opened again by a new prompt version or by hand.
2. An abstract specification of an extraction job, as `DurableJob` is for a job of
   the pipeline, and the proof that `EntityIndex` implements it.
3. Composition of `WatcherReload` with `MessagePipeline`: which policy judges
   a message that arrives during a reload.
4. The horizon of a backfill target, raised by the bridge while a page is read (see
   above); the rebuild of `housing_alerts`.
