---------------------------- MODULE AlertOutbox ----------------------------
(***************************************************************************)
(* The durable alert outbox: the alerts table of storage/db.py, the worker *)
(* loop of main.py that claims one due row at a time, delivers it and      *)
(* records the result, and the bounded in-process retry of                 *)
(* pipeline/dispatcher.py around the Telegram Bot API.                     *)
(*                                                                         *)
(* A deliverer is one caller of that loop: the outbox task, the final      *)
(* flush of a shutdown, or the same code of another process.  Row r is the *)
(* r-th row inserted, so the order of the numbers is the ORDER BY of the   *)
(* claim query.  Times are whole ticks, kept as countdowns: due[r] and     *)
(* lease[r] are the ticks left until next_attempt_at and claimed_until.    *)
(* owner[r] = NoToken stands for both lease columns being NULL.            *)
(***************************************************************************)
EXTENDS Integers, FiniteSets

CONSTANTS
    Rows,           \* 1..n, the alert rows in order of insertion
    Deliverers,     \* concurrent users of the claim/deliver/record loop
    Levels,         \* payload of a row (filter level, keyword, score)
    Tokens, NoToken,\* lease owners
    Lease,          \* outbox_lease_seconds
    PostTimeout,    \* total timeout of one Bot API request
    MaxWait,        \* longest wait between two requests of a cycle
    SettleTime,     \* longest time from the answer to the committed result
    MaxPosts,       \* requests in one delivery cycle
    MaxAttempts,    \* outbox_max_attempts, cycles recorded for a row
    BaseDelay, DelayCap,    \* backoff between recorded cycles
    RetryHints,     \* retry_after of a result; 0 when it has none
    OnTime,         \* TRUE: the process is scheduled in time; FALSE: it may stall
    MaxAccepted,    \* bound: requests the Bot API accepts for one row
    MaxAbandons     \* bound: cycles cut short by a crash or an exception

ASSUME OutboxConstants ==
    /\ Rows \subseteq Nat /\ IsFiniteSet(Rows)
    /\ NoToken \notin Tokens
    /\ Lease \in Nat \ {0}
    /\ PostTimeout \in Nat \ {0}
    /\ MaxWait \in Nat \ {0}
    /\ SettleTime \in Nat \ {0}
    /\ MaxPosts \in Nat \ {0}
    /\ MaxAttempts \in Nat \ {0}
    /\ BaseDelay \in Nat \ {0}
    /\ DelayCap \in Nat
    /\ RetryHints \subseteq Nat
    /\ OnTime \in BOOLEAN
    /\ MaxAccepted \in Nat
    /\ MaxAbandons \in Nat

VARIABLES
    status,     \* alerts.delivery_status, with "absent" and "purged"
    attempts,   \* alerts.delivery_attempts
    due,        \* ticks until alerts.next_attempt_at
    lease,      \* ticks until alerts.claimed_until
    owner,      \* alerts.lease_owner
    level,      \* the payload columns
    alertSent,  \* pipeline_runs.alert_sent of the job that raised the alert
    sentStat,   \* filter_stats.alerts_sent
    cycle,      \* cycle[d]: what deliverer d is in the middle of
    accepted,   \* requests the Bot API accepted for the row
    shown,      \* payloads the Bot API accepted for the row
    troubled,   \* history: something that may duplicate the row happened
    abandons    \* history: cycles abandoned so far

rowVars == <<status, attempts, due, lease, owner, level>>
statVars == <<alertSent, sentStat>>
wireVars == <<accepted, shown>>
outboxVars == <<rowVars, statVars, cycle, wireVars, troubled, abandons>>

Terminal == {"sent", "failed"}
Verdicts == {"none", "sent", "permanent", "retry"}

Idle == [pc |-> "idle", row |-> 0, token |-> NoToken, level |-> 0,
         post |-> 0, left |-> 0, verdict |-> "none"]

Busy(d) == cycle[d].pc # "idle"

Lesser(a, b) == IF a < b THEN a ELSE b

OutboxInit ==
    /\ status = [r \in Rows |-> "absent"]
    /\ attempts = [r \in Rows |-> 0]
    /\ due = [r \in Rows |-> 0]
    /\ lease = [r \in Rows |-> 0]
    /\ owner = [r \in Rows |-> NoToken]
    /\ level = [r \in Rows |-> 0]
    /\ alertSent = [r \in Rows |-> FALSE]
    /\ sentStat = 0
    /\ cycle = [d \in Deliverers |-> Idle]
    /\ accepted = [r \in Rows |-> 0]
    /\ shown = [r \in Rows |-> {}]
    /\ troubled = [r \in Rows |-> FALSE]
    /\ abandons = 0

(***************************************************************************)
(* Enqueueing                                                              *)
(***************************************************************************)

\* A new (watcher, message) key: INSERT with the column defaults.
Insert(r, l) ==
    /\ status[r] = "absent"
    /\ \A q \in Rows : q < r => status[q] # "absent"
    /\ status' = [status EXCEPT ![r] = "pending"]
    /\ level' = [level EXCEPT ![r] = l]
    /\ UNCHANGED <<attempts, due, lease, owner>>

\* Mutant: the UPDATE forgets the lease columns.
RefreshUnderClaim(r, l) ==
    /\ status[r] = "pending"
    /\ level' = [level EXCEPT ![r] = l]
    /\ UNCHANGED <<status, attempts, due, lease, owner>>

\* The key exists: only a pending row no lease ever pinned takes the new
\* payload; an expired lease still pins it, because its columns are not NULL.
Refresh(r, l) ==
    /\ status[r] = "pending"
    /\ owner[r] = NoToken
    /\ level' = [level EXCEPT ![r] = l]
    /\ UNCHANGED <<status, attempts, due, lease, owner>>

EnqueueAlert(r, l) ==
    /\ Insert(r, l) \/ Refresh(r, l)
    /\ UNCHANGED <<statVars, cycle, wireVars, troubled, abandons>>

(***************************************************************************)
(* One delivery cycle                                                      *)
(***************************************************************************)

\* Mutant: the claim query forgets the lease of a live worker.
ClaimableUnderLease(r) == status[r] = "pending" /\ due[r] = 0

\* Mutant: a claim left behind by a crash never expires.
ClaimableUnowned(r) == status[r] = "pending" /\ due[r] = 0 /\ owner[r] = NoToken

Claimable(r) ==
    /\ status[r] = "pending"
    /\ due[r] = 0
    /\ owner[r] = NoToken \/ lease[r] = 0

\* secrets.token_urlsafe(24) never repeats a token still in use.
FreshTokens == Tokens \ ({owner[r] : r \in Rows} \cup {cycle[d].token : d \in Deliverers})

ClaimDueAlert(d) ==
    /\ ~Busy(d)
    /\ \E r \in Rows, t \in FreshTokens :
        /\ Claimable(r)
        /\ \A q \in Rows : Claimable(q) => r <= q
        /\ owner' = [owner EXCEPT ![r] = t]
        /\ lease' = [lease EXCEPT ![r] = Lease]
        /\ cycle' = [cycle EXCEPT ![d] =
                [pc |-> "posting", row |-> r, token |-> t, level |-> level[r],
                 post |-> 1, left |-> PostTimeout, verdict |-> "none"]]
    /\ UNCHANGED <<status, attempts, due, level, statVars, wireVars, troubled, abandons>>

Answer(d, v) ==
    cycle' = [cycle EXCEPT ![d] =
                [@ EXCEPT !.pc = "answered", !.left = SettleTime, !.verdict = v]]

\* A transient failure: the last request of the cycle turns it into a
\* retryable verdict, an earlier one sleeps for the server's hint or backoff.
Transient(d) ==
    IF cycle[d].post = MaxPosts
    THEN Answer(d, "retry")
    ELSE \E w \in 1..MaxWait :
            cycle' = [cycle EXCEPT ![d] = [@ EXCEPT !.pc = "waiting", !.left = w]]

\* What the Bot API took, whether or not the deliverer learns of it.
Accept(d) ==
    LET r == cycle[d].row IN
    /\ accepted[r] < MaxAccepted
    /\ accepted' = [accepted EXCEPT ![r] = @ + 1]
    /\ shown' = [shown EXCEPT ![r] = @ \cup {cycle[d].level}]

PostSucceeds(d) ==
    /\ cycle[d].pc = "posting"
    /\ Accept(d)
    /\ Answer(d, "sent")
    /\ UNCHANGED <<rowVars, statVars, troubled, abandons>>

\* HTTP 4xx other than 429, or no bot token configured.
PostRefused(d) ==
    /\ cycle[d].pc = "posting"
    /\ Answer(d, "permanent")
    /\ UNCHANGED <<rowVars, statVars, wireVars, troubled, abandons>>

\* HTTP 429 or 5xx, a network error, or a timeout before the API acted.
PostFails(d) ==
    /\ cycle[d].pc = "posting"
    /\ Transient(d)
    /\ UNCHANGED <<rowVars, statVars, wireVars, troubled, abandons>>

\* The API took the message and the answer was lost.
PostTimesOut(d) ==
    /\ cycle[d].pc = "posting"
    /\ Accept(d)
    /\ Transient(d)
    /\ troubled' = [troubled EXCEPT ![cycle[d].row] = TRUE]
    /\ UNCHANGED <<rowVars, statVars, abandons>>

WaitEnds(d) ==
    /\ cycle[d].pc = "waiting"
    /\ cycle[d].left = 0
    /\ cycle' = [cycle EXCEPT ![d] =
            [cycle[d] EXCEPT !.pc = "posting", !.post = @ + 1, !.left = PostTimeout]]
    /\ UNCHANGED <<rowVars, statVars, wireVars, troubled, abandons>>

\* A cancellation, a crash of the process, or an exception the loop logs: the
\* row keeps its lease and is left for whoever claims it after the expiry.
Abandon(d) ==
    /\ Busy(d)
    /\ abandons < MaxAbandons
    /\ abandons' = abandons + 1
    /\ cycle' = [cycle EXCEPT ![d] = Idle]
    /\ troubled' = [troubled EXCEPT ![cycle[d].row] = @ \/ cycle[d].verdict = "sent"]
    /\ UNCHANGED <<rowVars, statVars, wireVars>>

(***************************************************************************)
(* Recording the result of a cycle                                         *)
(***************************************************************************)

\* min(base * 2^(n-1), cap) for the n-th recorded cycle.
Backoff(n) == Lesser(BaseDelay * 2^(n-1), DelayCap)

RetryDelay(hint, n) == Lesser(IF hint # 0 THEN hint ELSE Backoff(n), DelayCap)

\* Mutant: provenance and counter are written before the lease is checked.
ResultIgnoredButCounted(d) ==
    LET r == cycle[d].row IN
    /\ owner[r] # cycle[d].token
    /\ alertSent' = [alertSent EXCEPT ![r] = @ \/ cycle[d].verdict = "sent"]
    /\ sentStat' = IF cycle[d].verdict = "sent" THEN sentStat + 1 ELSE sentStat
    /\ troubled' = [troubled EXCEPT ![r] = @ \/ cycle[d].verdict = "sent"]
    /\ UNCHANGED rowVars

\* A row already settled (or gone), or a claim somebody else holds now: the
\* call returns or raises, and the loop logs it; nothing is written.
ResultIgnored(d) ==
    LET r == cycle[d].row IN
    /\ owner[r] # cycle[d].token
    /\ troubled' = [troubled EXCEPT ![r] = @ \/ cycle[d].verdict = "sent"]
    /\ UNCHANGED <<rowVars, statVars>>

Release(r) ==
    /\ owner' = [owner EXCEPT ![r] = NoToken]
    /\ lease' = [lease EXCEPT ![r] = 0]
    /\ attempts' = [attempts EXCEPT ![r] = @ + 1]

\* Delivery state, provenance and the daily counter in one transaction.
ResultSent(d) ==
    LET r == cycle[d].row IN
    /\ owner[r] = cycle[d].token
    /\ cycle[d].verdict = "sent"
    /\ Release(r)
    /\ status' = [status EXCEPT ![r] = "sent"]
    /\ due' = [due EXCEPT ![r] = 0]
    /\ alertSent' = [alertSent EXCEPT ![r] = TRUE]
    /\ sentStat' = IF alertSent[r] THEN sentStat ELSE sentStat + 1
    /\ UNCHANGED <<level, troubled>>

ResultRetried(d) ==
    LET r == cycle[d].row IN
    /\ owner[r] = cycle[d].token
    /\ cycle[d].verdict = "retry"
    /\ attempts[r] + 1 < MaxAttempts
    /\ Release(r)
    /\ \E hint \in RetryHints :
        due' = [due EXCEPT ![r] = RetryDelay(hint, attempts[r] + 1)]
    /\ UNCHANGED <<status, level, statVars, troubled>>

ResultFailed(d) ==
    LET r == cycle[d].row IN
    /\ owner[r] = cycle[d].token
    /\ \/ cycle[d].verdict = "permanent"
       \/ cycle[d].verdict = "retry" /\ attempts[r] + 1 >= MaxAttempts
    /\ Release(r)
    /\ status' = [status EXCEPT ![r] = "failed"]
    /\ due' = [due EXCEPT ![r] = 0]
    /\ UNCHANGED <<level, statVars, troubled>>

MarkDeliveryResult(d) ==
    /\ cycle[d].pc = "answered"
    /\ ResultIgnored(d) \/ ResultSent(d) \/ ResultRetried(d) \/ ResultFailed(d)
    /\ cycle' = [cycle EXCEPT ![d] = Idle]
    /\ UNCHANGED <<wireVars, abandons>>

(***************************************************************************)
(* Retention and time                                                      *)
(***************************************************************************)

\* Mutant: the sweep deletes alerts still in the outbox.
PurgeAnyAlert(r) ==
    /\ status[r] \in Terminal \cup {"pending"}
    /\ status' = [status EXCEPT ![r] = "purged"]
    /\ UNCHANGED <<attempts, due, lease, owner, level, statVars, cycle, wireVars,
                   troubled, abandons>>

\* The retention sweep deletes a settled alert with its expired message.
PurgeAlert(r) ==
    /\ status[r] \in Terminal
    /\ status' = [status EXCEPT ![r] = "purged"]
    /\ UNCHANGED <<attempts, due, lease, owner, level, statVars, cycle, wireVars,
                   troubled, abandons>>

Sooner(n) == IF n > 0 THEN n - 1 ELSE 0

\* A lease running out under a live cycle is a cause of duplicates, too.
Tick ==
    /\ OnTime => \A d \in Deliverers : Busy(d) => cycle[d].left > 0
    /\ due' = [r \in Rows |-> Sooner(due[r])]
    /\ lease' = [r \in Rows |-> Sooner(lease[r])]
    /\ cycle' = [d \in Deliverers |-> [cycle[d] EXCEPT !.left = Sooner(@)]]
    /\ troubled' = [r \in Rows |->
            \/ troubled[r]
            \/ /\ lease'[r] = 0
               /\ \E d \in Deliverers : cycle[d].row = r /\ cycle[d].token = owner[r] /\ Busy(d)]
    /\ UNCHANGED <<status, attempts, owner, level, statVars, wireVars, abandons>>

OutboxNext ==
    \/ \E r \in Rows, l \in Levels : EnqueueAlert(r, l)
    \/ \E d \in Deliverers :
        \/ ClaimDueAlert(d)
        \/ PostSucceeds(d)
        \/ PostRefused(d)
        \/ PostFails(d)
        \/ PostTimesOut(d)
        \/ WaitEnds(d)
        \/ Abandon(d)
        \/ MarkDeliveryResult(d)
    \/ \E r \in Rows : PurgeAlert(r)
    \/ Tick

OutboxSpec == OutboxInit /\ [][OutboxNext]_outboxVars

(***************************************************************************)
(* The loop polls forever, every request ends by its timeout, every sleep  *)
(* ends, every result is committed, and time passes.  Nothing makes the    *)
(* Bot API accept a message, and nothing forces a crash.                   *)
(***************************************************************************)
OutboxFairness ==
    /\ \A d \in Deliverers :
        /\ WF_outboxVars(ClaimDueAlert(d))
        /\ WF_outboxVars(PostFails(d))
        /\ WF_outboxVars(WaitEnds(d))
        /\ WF_outboxVars(MarkDeliveryResult(d))
    /\ WF_outboxVars(Tick)

OutboxFairSpec == OutboxSpec /\ OutboxFairness

-----------------------------------------------------------------------------
(***************************************************************************)
(* Correctness                                                             *)
(***************************************************************************)

Cycles ==
    [pc : {"idle", "posting", "waiting", "answered"}, row : Rows \cup {0},
     token : Tokens \cup {NoToken}, level : Levels \cup {0}, post : 0..MaxPosts,
     left : Nat, verdict : Verdicts]

\* Every variable has its type, no row records more cycles than
\* outbox_max_attempts allows, and no retry is put off beyond the cap.
OutboxTypeOK ==
    /\ status \in [Rows -> {"absent", "pending", "sent", "failed", "purged"}]
    /\ attempts \in [Rows -> 0..MaxAttempts]
    /\ due \in [Rows -> Int] /\ \A r \in Rows : due[r] <= DelayCap
    /\ lease \in [Rows -> 0..Lease]
    /\ owner \in [Rows -> Tokens \cup {NoToken}]
    /\ level \in [Rows -> Levels \cup {0}]
    /\ alertSent \in [Rows -> BOOLEAN]
    /\ sentStat \in Nat
    /\ cycle \in [Deliverers -> Cycles]
    /\ accepted \in [Rows -> Nat]
    /\ shown \in [Rows -> SUBSET (Levels \cup {0})]
    /\ troubled \in [Rows -> BOOLEAN]
    /\ abandons \in Nat

\* The lease that config/settings.py keeps above three requests and two waits
\* holds for the whole cycle: while a deliverer is in the middle of a row it is
\* still the owner, so no other worker reclaims an alert in flight.
NoInFlightReclaim ==
    \A d \in Deliverers :
        Busy(d) => /\ status[cycle[d].row] = "pending"
                   /\ owner[cycle[d].row] = cycle[d].token

\* The owner reads an alert twice only after a lost answer, a crash with an
\* unrecorded success, or a lease that ran out under a stalled worker;
\* concurrent claims, retries and late results never duplicate one.
DuplicateNeedsCause ==
    \A r \in Rows : accepted[r] > 1 => troubled[r]

\* A row says "sent" only if the Bot API took exactly the payload the row keeps
\* as the audit record, not one that a later evaluation wrote over it.
SentPayloadIsAudited ==
    \A r \in Rows : status[r] = "sent" => level[r] \in shown[r]

\* Provenance and the daily counter agree with the verdict of the row through
\* retries, late successes, reclaims and purges.
SentCountedOnce ==
    /\ \A r \in Rows : status[r] = "sent" => alertSent[r]
    /\ \A r \in Rows : alertSent[r] => status[r] \in {"sent", "purged"}
    /\ sentStat = Cardinality({r \in Rows : alertSent[r]})

\* Once settled, a row keeps verdict, attempts and payload until it is purged:
\* no late worker, reclaim or re-evaluation rewrites the audit record.
SettledRowsFrozen ==
    [][\A r \in Rows :
        status[r] \in Terminal =>
            /\ status'[r] \in {status[r], "purged"}
            /\ attempts'[r] = attempts[r]
            /\ level'[r] = level[r]
            /\ alertSent'[r] = alertSent[r]]_outboxVars

\* Every alert is eventually sent or given up, through crashes, lost answers and
\* leases left behind.
EveryAlertSettles ==
    \A r \in Rows : (status[r] = "pending") ~> (status[r] \in Terminal)

\* The outbox implements the abstract life of an alert.
Lifecycle == INSTANCE AlertLifecycle
                WITH state <- status,
                     reached <- [r \in Rows |-> shown[r] # {}]

ImplementsLifecycle == Lifecycle!LifeSpec
=============================================================================
