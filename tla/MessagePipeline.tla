-------------------------- MODULE MessagePipeline --------------------------
(***************************************************************************)
(* The durable message pipeline of the daemon: ingestion of Telegram       *)
(* updates, the bounded queue, the workers, recovery at start, shutdown,   *)
(* retention, and the tables they share (messages, pipeline_runs, alerts,  *)
(* filter_stats).  A job is one message under one watcher.                 *)
(*                                                                         *)
(* One chat is modelled, routed to every live watcher; how routing changes *)
(* is WatcherReload.  The delivery of an alert appears as its verdict; the *)
(* cycle behind it is AlertOutbox.  Every transaction of storage/db.py is  *)
(* one step, because one lock serialises the writers of one connection;    *)
(* every await between transactions is a point where others may step.      *)
(***************************************************************************)
EXTENDS RelevanceLadder, FiniteSets, Sequences

CONSTANTS
    Messages,       \* Telegram messages of the chat
    Watchers,       \* watcher names
    Workers,        \* processing_workers tasks
    Versions,       \* policy fingerprints, a subset of Nat \ {0}
    PolicyOf,       \* PolicyOf[w][v]: the policy of watcher w with fingerprint v
    None,           \* no watcher, no message
    QueueSize,      \* processing_queue_size
    BatchSize,      \* recovery_batch_size
    StoreAttempts,  \* ingress_max_attempts
    MaxStops,       \* bound: crashes and shutdowns
    MaxDbFaults,    \* bound: writes that fail
    MaxEdits        \* bound: policy changes

ASSUME PipelineConstants ==
    /\ None \notin Messages \cup Watchers
    /\ Versions \subseteq Nat \ {0}
    /\ PolicyOf \in [Watchers -> [Versions -> Policies]]
    /\ QueueSize \in Nat \ {0}
    /\ BatchSize \in Nat \ {0}
    /\ StoreAttempts \in Nat \ {0}
    /\ MaxStops \in Nat
    /\ MaxDbFaults \in Nat
    /\ MaxEdits \in Nat

Jobs == Messages \X Watchers

Removed == 0

VARIABLES
    \* SQLite.  The rows of a purged message are gone from the file; the
    \* functions below keep their last value as the history of what was there.
    stored,     \* stored[m]: "absent", "stored" or "purged"
    expired,    \* messages older than retention_days
    run,        \* run[j]: the decision columns of the pipeline_runs row
    fp,         \* fp[j]: watcher_config_fingerprint, the policy at ingestion
    alert,      \* alert[j]: delivery_status of the alert row, or "absent"
    alertSent,  \* alertSent[j]: pipeline_runs.alert_sent
    stats,      \* stats[w]: the filter_stats counters, all days together
    \* The process.
    phase,      \* "down", "recovering", "up" or "draining"
    fatal,      \* _fatal_ingress_error is set
    policy,     \* policy[w]: fingerprint of the loaded policy, or Removed
    handler,    \* the update handler; sequential_updates allows one at a time
    queue,      \* _message_queue
    worker,     \* worker[k]: the work item task k is processing
    recovery,   \* the batch _recover_pending_pipeline_jobs is processing
    \* History.
    judged,     \* judged[j]: fingerprint a stage ran under, and who ran it
    stranded,   \* jobs this process let go of without a terminal row
    stops, dbFaults, edits

dbVars == <<stored, expired, run, fp, alert, alertSent, stats>>
bounds == <<stops, dbFaults, edits>>
pipeVars == <<dbVars, phase, fatal, policy, handler, queue, worker, recovery,
              judged, stranded, bounds>>

Idle == [msg |-> None, todo |-> {}, current |-> None, version |-> Removed]
NoUpdate == [pc |-> "idle", msg |-> None, watchers |-> {},
             fps |-> [w \in Watchers |-> Removed], attempt |-> 0]
NoBatch == [batch |-> {}, todo |-> {}]
NoJudge == [by |-> "nobody", version |-> Removed]
ZeroStats == [total |-> 0, passed |-> [i \in 1..3 |-> 0], accepted |-> 0, alerts |-> 0]

Terminal == {"completed", "failed"}
Pending(j) == stored[j[1]] = "stored" /\ run[j].status = "pending"
PendingJobs == {j \in Jobs : Pending(j)}

PipelineInit ==
    /\ stored = [m \in Messages |-> "absent"]
    /\ expired = {}
    /\ run = [j \in Jobs |-> NoOutcome]
    /\ fp = [j \in Jobs |-> Removed]
    /\ alert = [j \in Jobs |-> "absent"]
    /\ alertSent = [j \in Jobs |-> FALSE]
    /\ stats = [w \in Watchers |-> ZeroStats]
    /\ phase = "down"
    /\ fatal = FALSE
    /\ policy \in [Watchers -> Versions]
    /\ handler = NoUpdate
    /\ queue = <<>>
    /\ worker = [k \in Workers |-> Idle]
    /\ recovery = NoBatch
    /\ judged = [j \in Jobs |-> NoJudge]
    /\ stranded = {}
    /\ stops = 0
    /\ dbFaults = 0
    /\ edits = 0

(***************************************************************************)
(* record_pipeline_outcome: a pending row becomes terminal, with its alert *)
(* and its counters; a row already terminal is left alone.                 *)
(***************************************************************************)

Counted(s, o) ==
    [s EXCEPT !.total = @ + 1,
              !.passed = [i \in 1..3 |-> @[i] + (IF i \in o.passed THEN 1 ELSE 0)],
              !.accepted = @ + (IF o.accepted THEN 1 ELSE 0)]

\* Mutant: every message that passed the rules raises an alert.
RecordOutcomeAlertingEarly(j, o) ==
    IF run[j].status = "pending"
    THEN /\ run' = [run EXCEPT ![j] = o]
         /\ alert' = IF 1 \in o.passed THEN [alert EXCEPT ![j] = "pending"] ELSE alert
         /\ stats' = [stats EXCEPT ![j[2]] = Counted(@, o)]
         /\ UNCHANGED <<stored, expired, fp, alertSent>>
    ELSE UNCHANGED dbVars

RecordOutcome(j, o) ==
    IF run[j].status = "pending"
    THEN /\ run' = [run EXCEPT ![j] = o]
         /\ alert' = IF o.alert THEN [alert EXCEPT ![j] = "pending"] ELSE alert
         /\ stats' = [stats EXCEPT ![j[2]] = Counted(@, o)]
         /\ UNCHANGED <<stored, expired, fp, alertSent>>
    ELSE UNCHANGED dbVars

\* A write that raises instead: the transaction rolls back.
DbFault ==
    /\ dbFaults < MaxDbFaults
    /\ dbFaults' = dbFaults + 1
    /\ UNCHANGED <<dbVars, stops, edits>>

(***************************************************************************)
(* purge_expired_data: in one transaction, every expired message that has  *)
(* neither a pending job nor a pending alert.                              *)
(***************************************************************************)

\* Mutant: alerts not yet delivered do not hold a message.
PurgeableUndelivered(m) ==
    /\ stored[m] = "stored"
    /\ m \in expired
    /\ \A w \in Watchers : run[<<m, w>>].status # "pending"

Purgeable(m) ==
    /\ stored[m] = "stored"
    /\ m \in expired
    /\ \A w \in Watchers : run[<<m, w>>].status # "pending" /\ alert[<<m, w>>] # "pending"

PurgeExpiredData ==
    /\ stored' = [m \in Messages |-> IF Purgeable(m) THEN "purged" ELSE stored[m]]
    /\ UNCHANGED <<expired, run, fp, alert, alertSent, stats>>

RetentionSweep ==
    /\ phase = "up"
    /\ \E m \in Messages : Purgeable(m)
    /\ PurgeExpiredData
    /\ UNCHANGED <<phase, fatal, policy, handler, queue, worker, recovery, judged,
                   stranded, bounds>>

\* Time passes: a message crosses the retention cutoff.
MessageExpires(m) ==
    /\ m \notin expired
    /\ expired' = expired \cup {m}
    /\ UNCHANGED <<stored, run, fp, alert, alertSent, stats, phase, fatal, policy,
                   handler, queue, worker, recovery, judged, stranded, bounds>>

(***************************************************************************)
(* Start, recovery, shutdown, crash                                        *)
(***************************************************************************)

Start ==
    /\ phase = "down"
    /\ phase' = "recovering"
    /\ fatal' = FALSE
    /\ stranded' = {}
    /\ PurgeExpiredData
    /\ UNCHANGED <<policy, handler, queue, worker, recovery, judged, bounds>>

\* Everything volatile goes with the process.
Forgets ==
    /\ phase' = "down"
    /\ handler' = NoUpdate
    /\ queue' = <<>>
    /\ worker' = [k \in Workers |-> Idle]
    /\ recovery' = NoBatch

\* Mutant: the daemon goes up after one batch.
LoadOneBatch ==
    /\ phase = "recovering"
    /\ recovery = NoBatch
    /\ phase' = "up"
    /\ UNCHANGED <<dbVars, fatal, policy, handler, queue, worker, recovery, judged,
                   stranded, bounds>>

LoadRecoveryBatch ==
    /\ phase = "recovering"
    /\ recovery = NoBatch
    /\ IF PendingJobs = {}
       THEN phase' = "up" /\ UNCHANGED recovery
       ELSE /\ \E b \in SUBSET PendingJobs :
                /\ Cardinality(b) = IF Cardinality(PendingJobs) < BatchSize
                                    THEN Cardinality(PendingJobs) ELSE BatchSize
                /\ recovery' = [batch |-> b, todo |-> b]
            /\ UNCHANGED phase
    /\ UNCHANGED <<dbVars, fatal, policy, handler, queue, worker, judged, stranded, bounds>>

\* Mutant: only a watcher that is gone makes a job stale.
StaleIfRemoved(j) == policy[j[2]] = Removed

\* A job whose watcher is gone, or whose policy is not the one it was stored
\* under, is refused without judging it.
Stale(j) == policy[j[2]] # fp[j]

RefuseStaleJob(j) ==
    /\ phase = "recovering"
    /\ j \in recovery.todo
    /\ Stale(j)
    /\ RecordOutcome(j, Refusal)
    /\ recovery' = [recovery EXCEPT !.todo = @ \ {j}]
    /\ UNCHANGED <<phase, fatal, policy, handler, queue, worker, judged, stranded, bounds>>

RecoverJob(j) ==
    LET p == PolicyOf[j[2]][policy[j[2]]] IN
    /\ phase = "recovering"
    /\ j \in recovery.todo
    /\ ~Stale(j)
    /\ \/ /\ HasJudge(p)
          /\ \E s \in Signals : RecordOutcome(j, Judge(p, s))
          /\ judged' = [judged EXCEPT ![j] = [by |-> "recovery", version |-> policy[j[2]]]]
          /\ UNCHANGED bounds
       \/ ~HasJudge(p) /\ UNCHANGED <<dbVars, judged, bounds>>
       \/ DbFault /\ UNCHANGED judged
    /\ recovery' = [recovery EXCEPT !.todo = @ \ {j}]
    /\ UNCHANGED <<phase, fatal, policy, handler, queue, worker, stranded>>

\* The refusal of a stale job cannot be written: start() raises.
RecoveryFails(j) ==
    /\ phase = "recovering"
    /\ j \in recovery.todo
    /\ Stale(j)
    /\ DbFault
    /\ Forgets
    /\ UNCHANGED <<fatal, policy, judged, stranded>>

\* The batch holds the oldest pending rows, so one of them still pending shows
\* up again in the next query: "pending pipeline recovery made no progress".
FinishRecoveryBatch ==
    /\ phase = "recovering"
    /\ recovery.batch # {}
    /\ recovery.todo = {}
    /\ IF \E j \in recovery.batch : Pending(j)
       THEN Forgets
       ELSE recovery' = NoBatch /\ UNCHANGED <<phase, handler, queue, worker>>
    /\ UNCHANGED <<dbVars, fatal, policy, judged, stranded, bounds>>

\* SIGTERM, or the ingress handler gave up: the client disconnects, the queue
\* is drained for as long as the shutdown timeout allows.
Shutdown ==
    /\ phase = "up"
    /\ \/ fatal /\ UNCHANGED bounds
       \/ ~fatal /\ stops < MaxStops /\ stops' = stops + 1 /\ UNCHANGED <<dbFaults, edits>>
    /\ phase' = "draining"
    /\ UNCHANGED <<dbVars, fatal, policy, handler, queue, worker, recovery, judged, stranded>>

\* The queue drained or the timeout cut it short; workers are cancelled, and a
\* cancelled job records nothing.
Exit ==
    /\ phase = "draining"
    /\ Forgets
    /\ UNCHANGED <<dbVars, fatal, policy, judged, stranded, bounds>>

Crash ==
    /\ phase # "down"
    /\ stops < MaxStops
    /\ stops' = stops + 1
    /\ Forgets
    /\ UNCHANGED <<dbVars, fatal, policy, judged, stranded, dbFaults, edits>>

\* A new watchers.yml before a start, or an agent watcher reconciled while up.
ChangePolicy(w, v) ==
    /\ phase \in {"down", "up"}
    /\ edits < MaxEdits
    /\ v # policy[w]
    /\ policy' = [policy EXCEPT ![w] = v]
    /\ edits' = edits + 1
    /\ UNCHANGED <<dbVars, phase, fatal, handler, queue, worker, recovery, judged,
                   stranded, stops, dbFaults>>

(***************************************************************************)
(* on_new_message: persist, then enqueue                                   *)
(***************************************************************************)

\* Telegram may repeat an update it already delivered, but not one so old that
\* retention has deleted it.
ReceiveUpdate(m) ==
    /\ phase = "up"
    /\ ~fatal
    /\ handler.pc = "idle"
    /\ stored[m] # "purged"
    /\ \E w \in Watchers : policy[w] # Removed
    /\ handler' = [pc |-> "storing", msg |-> m, watchers |-> {w \in Watchers : policy[w] # Removed},
                   fps |-> policy, attempt |-> 1]
    /\ UNCHANGED <<dbVars, phase, fatal, policy, queue, worker, recovery, judged,
                   stranded, bounds>>

HandlerMayRun == phase \in {"up", "draining"}

\* Mutant: a repeated update is queued again.
StoreAndQueueAgain ==
    LET m == handler.msg IN
    /\ HandlerMayRun
    /\ handler.pc = "storing"
    /\ stored' = [stored EXCEPT ![m] = "stored"]
    /\ run' = [j \in Jobs |-> IF stored[m] = "absent" /\ j[1] = m /\ j[2] \in handler.watchers
                              THEN Unjudged ELSE run[j]]
    /\ fp' = [j \in Jobs |-> IF stored[m] = "absent" /\ j[1] = m /\ j[2] \in handler.watchers
                             THEN handler.fps[j[2]] ELSE fp[j]]
    /\ handler' = [handler EXCEPT !.pc = "putting"]
    /\ UNCHANGED <<expired, alert, alertSent, stats, phase, fatal, policy, queue, worker,
                   recovery, judged, stranded, bounds>>

\* store_message: the message and one pending job per watcher, or, for a
\* message already stored, nothing.
StoreMessage ==
    LET m == handler.msg IN
    /\ HandlerMayRun
    /\ handler.pc = "storing"
    /\ IF stored[m] = "absent"
       THEN /\ stored' = [stored EXCEPT ![m] = "stored"]
            /\ run' = [j \in Jobs |-> IF j[1] = m /\ j[2] \in handler.watchers
                                      THEN Unjudged ELSE run[j]]
            /\ fp' = [j \in Jobs |-> IF j[1] = m /\ j[2] \in handler.watchers
                                     THEN handler.fps[j[2]] ELSE fp[j]]
            /\ handler' = [handler EXCEPT !.pc = "putting"]
            /\ UNCHANGED <<expired, alert, alertSent, stats>>
       ELSE handler' = NoUpdate /\ UNCHANGED dbVars
    /\ UNCHANGED <<phase, fatal, policy, queue, worker, recovery, judged, stranded, bounds>>

\* sqlite3.OperationalError: retried with backoff, and fatal the last time.
StoreFails ==
    /\ HandlerMayRun
    /\ handler.pc = "storing"
    /\ DbFault
    /\ IF handler.attempt < StoreAttempts
       THEN handler' = [handler EXCEPT !.pc = "backoff"] /\ UNCHANGED fatal
       ELSE handler' = NoUpdate /\ fatal' = TRUE
    /\ UNCHANGED <<phase, policy, queue, worker, recovery, judged, stranded>>

\* The retry reads the fingerprints again; one that is gone is a KeyError.
RetryStore ==
    /\ HandlerMayRun
    /\ handler.pc = "backoff"
    /\ IF \E w \in handler.watchers : policy[w] = Removed
       THEN handler' = NoUpdate /\ fatal' = TRUE
       ELSE /\ handler' = [handler EXCEPT !.pc = "storing", !.attempt = @ + 1, !.fps = policy]
            /\ UNCHANGED fatal
    /\ UNCHANGED <<dbVars, phase, policy, queue, worker, recovery, judged, stranded, bounds>>

\* Mutant: put_nowait, an item that finds the queue full is dropped.
PutOrDrop ==
    /\ HandlerMayRun
    /\ handler.pc = "putting"
    /\ queue' = IF Len(queue) < QueueSize
                THEN Append(queue, [msg |-> handler.msg, watchers |-> handler.watchers])
                ELSE queue
    /\ handler' = NoUpdate
    /\ UNCHANGED <<dbVars, phase, fatal, policy, worker, recovery, judged, stranded, bounds>>

\* queue.put blocks while the queue is full.
PutWorkItem ==
    /\ HandlerMayRun
    /\ handler.pc = "putting"
    /\ Len(queue) < QueueSize
    /\ queue' = Append(queue, [msg |-> handler.msg, watchers |-> handler.watchers])
    /\ handler' = NoUpdate
    /\ UNCHANGED <<dbVars, phase, fatal, policy, worker, recovery, judged, stranded, bounds>>

\* Disconnecting the client cancels the handler wherever it waits.
CancelHandler ==
    /\ phase = "draining"
    /\ handler.pc # "idle"
    /\ handler' = NoUpdate
    /\ UNCHANGED <<dbVars, phase, fatal, policy, queue, worker, recovery, judged,
                   stranded, bounds>>

(***************************************************************************)
(* _message_worker                                                         *)
(***************************************************************************)

WorkersRun == phase \in {"up", "draining"}
Free(k) == worker[k].todo = {} /\ worker[k].current = None

TakeWorkItem(k) ==
    /\ WorkersRun
    /\ Free(k)
    /\ queue # <<>>
    /\ worker' = [worker EXCEPT ![k] =
            [Idle EXCEPT !.msg = Head(queue).msg, !.todo = Head(queue).watchers]]
    /\ queue' = Tail(queue)
    /\ UNCHANGED <<dbVars, phase, fatal, policy, handler, recovery, judged, stranded, bounds>>

\* The policy is looked up once, when its turn comes, and kept through the
\* awaits of the stages.
BeginJob(k, w) ==
    /\ WorkersRun
    /\ worker[k].current = None
    /\ w \in worker[k].todo
    /\ policy[w] # Removed
    /\ worker' = [worker EXCEPT ![k] = [worker[k] EXCEPT !.todo = @ \ {w}, !.current = w,
                                               !.version = policy[w]]]
    /\ UNCHANGED <<dbVars, phase, fatal, policy, handler, queue, recovery, judged,
                   stranded, bounds>>

After(k) == worker' = [worker EXCEPT ![k] = [worker[k] EXCEPT !.current = None, !.version = Removed]]

FinishJob(k) ==
    LET w == worker[k].current
        j == <<worker[k].msg, w>>
        p == PolicyOf[w][worker[k].version] IN
    /\ WorkersRun
    /\ w # None
    /\ \/ /\ HasJudge(p)
          /\ \E s \in Signals : RecordOutcome(j, Judge(p, s))
          /\ judged' = [judged EXCEPT ![j] = [by |-> "worker", version |-> worker[k].version]]
          /\ UNCHANGED <<stranded, bounds>>
       \/ /\ \/ ~HasJudge(p) /\ UNCHANGED <<dbVars, bounds>>
             \/ DbFault
          /\ stranded' = stranded \cup {j}
          /\ UNCHANGED judged
    /\ After(k)
    /\ UNCHANGED <<phase, fatal, policy, handler, queue, recovery>>

\* A watcher gone since ingestion.  This write is outside the try of the loop
\* over watchers: when it raises, the worker drops the rest of the item.
RefuseRemoved(k, w) ==
    /\ WorkersRun
    /\ worker[k].current = None
    /\ w \in worker[k].todo
    /\ policy[w] = Removed
    /\ \/ /\ RecordOutcome(<<worker[k].msg, w>>, Refusal)
          /\ worker' = [worker EXCEPT ![k] = [worker[k] EXCEPT !.todo = @ \ {w}]]
          /\ UNCHANGED <<stranded, bounds>>
       \/ /\ DbFault
          /\ stranded' = stranded \cup {<<worker[k].msg, x>> : x \in worker[k].todo}
          /\ worker' = [worker EXCEPT ![k] = Idle]
    /\ UNCHANGED <<phase, fatal, policy, handler, queue, recovery, judged>>

(***************************************************************************)
(* The outbox settles an alert: AlertOutbox!MarkDeliveryResult, whose      *)
(* success updates the run and the counters in the same transaction.       *)
(***************************************************************************)
SettleAlert(j) ==
    /\ phase \in {"up", "draining"}
    /\ stored[j[1]] = "stored"
    /\ alert[j] = "pending"
    /\ \/ /\ alert' = [alert EXCEPT ![j] = "sent"]
          /\ IF run[j].status = "completed" /\ ~alertSent[j]
             THEN /\ alertSent' = [alertSent EXCEPT ![j] = TRUE]
                  /\ stats' = [stats EXCEPT ![j[2]].alerts = @ + 1]
             ELSE UNCHANGED <<alertSent, stats>>
       \/ alert' = [alert EXCEPT ![j] = "failed"] /\ UNCHANGED <<alertSent, stats>>
    /\ UNCHANGED <<stored, expired, run, fp, phase, fatal, policy, handler, queue, worker,
                   recovery, judged, stranded, bounds>>

PipelineNext ==
    \/ Start \/ LoadRecoveryBatch \/ FinishRecoveryBatch
    \/ \E j \in Jobs : RefuseStaleJob(j) \/ RecoverJob(j) \/ RecoveryFails(j) \/ SettleAlert(j)
    \/ Shutdown \/ Exit \/ Crash
    \/ RetentionSweep
    \/ \E m \in Messages : MessageExpires(m) \/ ReceiveUpdate(m)
    \/ \E w \in Watchers, v \in Versions \cup {Removed} : ChangePolicy(w, v)
    \/ StoreMessage \/ StoreFails \/ RetryStore \/ PutWorkItem \/ CancelHandler
    \/ \E k \in Workers :
        \/ TakeWorkItem(k) \/ FinishJob(k)
        \/ \E w \in Watchers : BeginJob(k, w) \/ RefuseRemoved(k, w)

PipelineSpec == PipelineInit /\ [][PipelineNext]_pipeVars

(***************************************************************************)
(* Supervision restarts the daemon; every task that can run does; the      *)
(* shutdown that follows a fatal error is carried out.                     *)
(***************************************************************************)
PipelineFairness ==
    /\ WF_pipeVars(Start)
    /\ WF_pipeVars(LoadRecoveryBatch)
    /\ WF_pipeVars(FinishRecoveryBatch)
    /\ WF_pipeVars(\E j \in Jobs : RefuseStaleJob(j))
    /\ WF_pipeVars(\E j \in Jobs : RecoverJob(j))
    /\ WF_pipeVars(fatal /\ Shutdown)
    /\ WF_pipeVars(Exit)
    /\ WF_pipeVars(StoreMessage)
    /\ WF_pipeVars(RetryStore)
    /\ WF_pipeVars(PutWorkItem)
    /\ \A k \in Workers :
        /\ WF_pipeVars(TakeWorkItem(k))
        /\ WF_pipeVars(\E w \in Watchers : BeginJob(k, w) \/ RefuseRemoved(k, w))
        /\ WF_pipeVars(FinishJob(k))

PipelineFairSpec == PipelineSpec /\ PipelineFairness

-----------------------------------------------------------------------------
(***************************************************************************)
(* Correctness                                                             *)
(***************************************************************************)

WorkItems == [msg : Messages, watchers : SUBSET Watchers]

WorkerStates ==
    [msg : Messages \cup {None}, todo : SUBSET Watchers, current : Watchers \cup {None},
     version : Versions \cup {Removed}]

HandlerStates ==
    [pc : {"idle", "storing", "backoff", "putting"}, msg : Messages \cup {None},
     watchers : SUBSET Watchers, fps : [Watchers -> Versions \cup {Removed}],
     attempt : 0..StoreAttempts]

\* Every variable has its type, and the queue keeps within its capacity.
PipelineTypeOK ==
    /\ stored \in [Messages -> {"absent", "stored", "purged"}]
    /\ expired \in SUBSET Messages
    /\ run \in [Jobs -> Outcomes]
    /\ fp \in [Jobs -> Versions \cup {Removed}]
    /\ alert \in [Jobs -> {"absent", "pending", "sent", "failed"}]
    /\ alertSent \in [Jobs -> BOOLEAN]
    /\ stats \in [Watchers -> [total : Nat, passed : [1..3 -> Nat], accepted : Nat, alerts : Nat]]
    /\ phase \in {"down", "recovering", "up", "draining"}
    /\ fatal \in BOOLEAN
    /\ policy \in [Watchers -> Versions \cup {Removed}]
    /\ handler \in HandlerStates
    /\ queue \in Seq(WorkItems) /\ Len(queue) <= QueueSize
    /\ worker \in [Workers -> WorkerStates]
    /\ recovery \in [batch : SUBSET Jobs, todo : SUBSET Jobs]
    /\ judged \in [Jobs -> [by : {"nobody", "worker", "recovery"}, version : Versions \cup {Removed}]]
    /\ stranded \in SUBSET Jobs
    /\ stops \in 0..MaxStops /\ dbFaults \in 0..MaxDbFaults /\ edits \in 0..MaxEdits

\* Who of the process has job j in hand.
HandlerHolds(j) == handler.pc = "putting" /\ handler.msg = j[1] /\ j[2] \in handler.watchers
QueueHolds(i, j) == queue[i].msg = j[1] /\ j[2] \in queue[i].watchers
WorkerHolds(k, j) == worker[k].msg = j[1] /\ j[2] \in worker[k].todo \cup {worker[k].current}

Holders(j) ==
    {<<"handler", 1>> : x \in {x \in {1} : HandlerHolds(j)}}
    \cup {<<"queue", i>> : i \in {i \in 1..Len(queue) : QueueHolds(i, j)}}
    \cup {<<"worker", k>> : k \in {k \in Workers : WorkerHolds(k, j)}}

\* While the daemon is up, a committed job is always in somebody's hands: the
\* handler waiting on the full queue, the queue, or a worker.  Only a failed
\* write, or a policy without a subsystem, leaves one behind until the next
\* start.
PendingWorkIsHeld ==
    phase = "up" => \A j \in PendingJobs : j \in stranded \/ Holders(j) # {}

\* Nobody judges a message twice under one watcher: replayed updates, recovery
\* and the workers never hold the same job together, and what they hold is
\* still pending.
JobHasOneHolder ==
    \A j \in Jobs :
        /\ Cardinality(Holders(j)) <= 1
        /\ Holders(j) # {} => Pending(j)

\* The outcome and its alert commit together: an alert exists for exactly the
\* accepted jobs of policies that alert at once.
AlertIffAccepted ==
    \A j \in Jobs :
        alert[j] # "absent" <=> run[j].status = "completed" /\ run[j].alert

\* "Recovery cannot silently replay historical text under changed rules or
\* prompts": what recovery judges, it judges under the stored fingerprint.
RecoveredUnderStoredPolicy ==
    \A j \in Jobs : judged[j].by = "recovery" => judged[j].version = fp[j]

\* A pending job of a policy no subsystem judges: every start ends at it.
BlocksStart(j) ==
    /\ Pending(j) /\ policy[j[2]] # Removed
    /\ ~HasJudge(PolicyOf[j[2]][policy[j[2]]])

\* Every committed job reaches a terminal outcome, through crashes, shutdowns,
\* a full queue and policy changes, unless its worker could not write it and it
\* waits for the next start, or no start gets past a job nobody judges.
EveryJobFinishes ==
    \A j \in Jobs :
        Pending(j) ~> \/ run[j].status \in Terminal
                      \/ j \in stranded
                      \/ \E i \in Jobs : BlocksStart(i)

\* "Unexpected poison jobs become terminal failed records instead of blocking
\* startup": with a healthy database, recovery ends a start only by a crash.
StartIsNotBlocked ==
    [][dbFaults = 0 /\ phase = "recovering" /\ phase' = "down" => stops' # stops]_pipeVars

\* The life of a job as its message, its row and its alert tell it.
LifeOf(message, o, delivery) ==
    CASE o.status = "none" -> "none"
      [] o.status # "none" /\ message = "purged" -> "gone"
      [] message = "stored" /\ o.status = "pending" -> "pending"
      [] message = "stored" /\ o.status = "failed" -> "failed"
      [] message = "stored" /\ o.status = "completed" ->
            CASE delivery = "absent" -> "quiet"
              [] delivery = "pending" -> "alerting"
              [] delivery = "sent" -> "sent"
              [] delivery = "failed" -> "undelivered"

JobLife == [j \in Jobs |-> LifeOf(stored[j[1]], run[j], alert[j])]

Durable == INSTANCE DurableJob WITH life <- JobLife

\* The daemon implements the promise: jobs commit with their message, end once
\* and with their alert, and are forgotten only when settled.
ImplementsDurableJob == Durable!JobSpec
=============================================================================
