------------------------------- MODULE JoinQueue -------------------------------
(***************************************************************************)
(* JoinWorker (pipeline/joiner.py) over join_queue (storage/scout.py), the  *)
(* bridge that fills the queue (queue_chat_join of eidolon_mcp.py), and     *)
(* Telegram's side of a membership.  The username of a public chat is first *)
(* resolved, by a request that does not go through the action governor; the *)
(* join itself does.  It is activated into observation and a backfill       *)
(* target, and is reconciled with the account's dialogs, another request    *)
(* outside the ledger, when its outcome is not known.                       *)
(*                                                                         *)
(* A chat is its reference, a number in the order of created_at and a       *)
(* username or an invite link; a row has one policy to be bound to or none. *)
(* not_before is `due`, the ticks left until it.  Texts, labels and         *)
(* joined_chat_id are left out.                                            *)
(***************************************************************************)
EXTENDS HistoryBackfill

CONSTANTS
    BudgetBackoff,   \* BUDGET_BACKOFF_SECONDS
    ReconcileTicks,  \* RECONCILE_SECONDS
    InviteRecheck,   \* INVITE_RECHECK_SECONDS
    MaxRequests,     \* bound: requests of the bridge
    MaxTroubles,     \* bound: answers of Telegram that settle nothing
    MaxFaults,       \* bound: stops, exceptions and entities that do not resolve
    MaxEvents        \* bound: all of these together

ASSUME JoinAssumption ==
    /\ {"joiner", "reader"} \subseteq Callers
    /\ Chats \subseteq Nat \ {0}
    /\ {BudgetBackoff, ReconcileTicks, InviteRecheck} \subseteq Nat
    /\ {MaxRequests, MaxTroubles, MaxFaults, MaxEvents} \subseteq Nat

VARIABLES
    row,       \* row[x]: the row of join_queue of chat x
    joiner,    \* where run_forever is, with the rows it has read
    bridge,    \* a request of the bridge between its read and its writes
    registry,  \* registry[x]: observed_chats and chat_policy_bindings
    member,    \* member[x]: what Telegram holds of the account in x
    used       \* how much of each bound is used

joinVars == <<row, joiner, bridge, registry, member, used>>
vars == <<joinVars, backfillVars, governorVars>>

JoinKey(x, attempt) == <<"join", x, attempt>>
CheckKey(x, attempt) == <<"invite_check", x, attempt>>

NoRow == [state |-> "absent", attempts |-> 0, error |-> "none", due |-> 0, watcher |-> FALSE,
          invite |-> FALSE]
NoJob == [chat |-> 0, attempts |-> 0, error |-> "none", watcher |-> FALSE]
Job(x) == [chat |-> x, attempts |-> row[x].attempts, error |-> row[x].error,
           watcher |-> row[x].watcher]

\* References that are invite links and not usernames (invite_hash).
Invites == {x \in Chats : row[x].invite}

\* "rest" is the head of the loop and "between" what follows run_once.
JoinerRests == [pc |-> "rest", mode |-> "run", job |-> NoJob, todo |-> {}, dialogs |-> {}]
BridgeRests == [pc |-> "rest", chat |-> 0, watcher |-> FALSE, seen |-> NoRow]

JoinInit ==
    /\ row = [x \in Chats |-> NoRow]
    /\ joiner = JoinerRests
    /\ bridge = BridgeRests
    /\ registry = [x \in Chats |-> [mode |-> "none", bound |-> FALSE]]
    /\ member = [x \in Chats |-> "no"]
    /\ used = [requests |-> 0, troubles |-> 0, faults |-> 0]

Init == GovernorInit /\ BackfillInit /\ JoinInit

Within == used.requests + used.troubles + used.faults < MaxEvents
MayRequest == used.requests < MaxRequests /\ Within
MayTrouble == used.troubles < MaxTroubles /\ Within
MayFail == used.faults < MaxFaults /\ Within

Goto(pc) == joiner' = [joiner EXCEPT !.pc = pc]
X == joiner.job.chat

\* Where the worker goes on after the row in hand.
NextPc == IF joiner.mode = "run" THEN "between" ELSE "reconcile"

\* The three writes of a row, each one statement under the lock.
SettleRow(x, state, error) ==
    row' = [row EXCEPT ![x] = [row[x] EXCEPT !.state = state, !.attempts = row[x].attempts + 1,
                                             !.error = error, !.due = 0]]
DeferRow(x, ticks, error, counted) ==
    row' = [row EXCEPT ![x] = [row[x] EXCEPT
        !.due = ticks, !.error = error,
        !.attempts = row[x].attempts + (IF counted THEN 1 ELSE 0)]]
RequeueRow(x) ==
    row' = [row EXCEPT ![x] = [row[x] EXCEPT !.state = "pending", !.attempts = row[x].attempts + 1,
                                             !.error = "other", !.due = 0]]

-----------------------------------------------------------------------------
(***************************************************************************)
(* queue_chat_join, of another process: a read, then writes that do not     *)
(* look again.                                                             *)
(***************************************************************************)

\* Rows are created in the order of their numbers.
BridgeReads(x, watcher) ==
    /\ bridge.pc = "rest" /\ MayRequest
    /\ \A y \in Chats : y < x => row[y].state # "absent"
    /\ bridge' = [pc |-> "write", chat |-> x, watcher |-> watcher, seen |-> row[x]]
    /\ used' = [used EXCEPT !.requests = @ + 1]
    /\ UNCHANGED <<row, joiner, registry, member, backfillVars, governorVars>>

\* A repeat with a policy upgrades a row that has none.
Upgrades == bridge.watcher /\ ~bridge.seen.watcher

BridgeInserts ==
    /\ bridge.pc = "write" /\ bridge.seen.state = "absent"
    /\ \E invite \in BOOLEAN : row' = [row EXCEPT ![bridge.chat] =
        [NoRow EXCEPT !.state = "pending", !.watcher = bridge.watcher, !.invite = invite]]
    /\ bridge' = BridgeRests
    /\ UNCHANGED <<joiner, registry, member, used, backfillVars, governorVars>>

BridgeRevives ==
    /\ bridge.pc = "write" /\ bridge.seen.state = "failed"
    /\ row' = [row EXCEPT ![bridge.chat] =
        [row[bridge.chat] EXCEPT !.state = "pending", !.attempts = row[bridge.chat].attempts + 1,
            !.error = "none", !.due = 0, !.watcher = @ \/ bridge.watcher]]
    /\ bridge' = BridgeRests
    /\ UNCHANGED <<joiner, registry, member, used, backfillVars, governorVars>>

\* A joined chat is bound first (resume_chat).
BridgeResumes ==
    /\ bridge.pc = "write" /\ bridge.seen.state = "joined" /\ Upgrades
    /\ registry' = [registry EXCEPT ![bridge.chat] = [mode |-> "monitor", bound |-> TRUE]]
    /\ bridge' = [bridge EXCEPT !.pc = "upgrade"]
    /\ UNCHANGED <<row, joiner, member, used, backfillVars, governorVars>>

BridgeUpgrades ==
    /\ \/ bridge.pc = "upgrade"
       \/ bridge.pc = "write" /\ bridge.seen.state = "pending" /\ Upgrades
    /\ row' = [row EXCEPT ![bridge.chat].watcher = TRUE]
    /\ bridge' = BridgeRests
    /\ UNCHANGED <<joiner, registry, member, used, backfillVars, governorVars>>

BridgeReports ==
    /\ bridge.pc = "write"
    /\ \/ bridge.seen.state = "requested"
       \/ bridge.seen.state \in {"pending", "joined"} /\ ~Upgrades
    /\ bridge' = BridgeRests
    /\ UNCHANGED <<row, joiner, registry, member, used, backfillVars, governorVars>>

-----------------------------------------------------------------------------
(***************************************************************************)
(* run_once: at most one join.                                             *)
(***************************************************************************)

DueRows == {x \in Chats : row[x].state = "pending" /\ row[x].due = 0}

\* next_queued_join; an invite resolves nothing.
TakeJoin(x) ==
    /\ joiner.pc = "rest" /\ x \in DueRows /\ \A y \in DueRows : x <= y
    /\ joiner' = [JoinerRests EXCEPT !.pc = IF x \in Invites THEN "join" ELSE "resolve",
                                     !.job = Job(x)]
    /\ UNCHANGED <<row, bridge, registry, member, used, backfillVars, governorVars>>

\* get_entity of a public chat: a request under no key, budget, pause or slot.
ResolveEntity ==
    /\ joiner.pc = "resolve"
    /\ Goto("resolving")
    /\ UNCHANGED <<row, bridge, registry, member, used, backfillVars, governorVars>>

Resolved ==
    /\ joiner.pc = "resolving"
    /\ Goto("join")
    /\ UNCHANGED <<row, bridge, registry, member, used, backfillVars, governorVars>>

\* _named_entity makes None of every exception, a FloodWait too, which pauses
\* nothing.
Unresolvable ==
    /\ joiner.pc = "resolving" /\ MayFail
    /\ SettleRow(X, "failed", "other")
    /\ Goto("between")
    /\ used' = [used EXCEPT !.faults = @ + 1]
    /\ UNCHANGED <<bridge, registry, member, backfillVars, governorVars>>

AskToJoin ==
    /\ joiner.pc = "join"
    /\ ReserveAction("joiner", JoinKey(X, joiner.job.attempts))
    /\ Goto("joining")
    /\ UNCHANGED <<row, bridge, registry, member, used, backfillVars>>

JoinTold == joiner.pc = "joining" /\ call["joiner"].pc = "told"
Status == call["joiner"].answer
Wait == call["joiner"].wait
AfterCall == Return("joiner") /\ UNCHANGED <<bridge, registry, member, used, backfillVars>>

\* A FloodWait reached Telegram and spends the attempt; a denial did not.
DeferRefused ==
    /\ JoinTold /\ Status \in {"denied", "flood_wait"}
    /\ DeferRow(X, IF Wait > 0 THEN Wait ELSE BudgetBackoff, "other", Status = "flood_wait")
    /\ Goto("between") /\ AfterCall

DeferHalted ==
    /\ JoinTold /\ Status \in {"halted", "refused"}
    /\ DeferRow(X, HaltRetry, "other", Status = "halted")
    /\ Goto("between") /\ AfterCall

\* An earlier life sent this join: only Telegram knows what became of it.
ParkInterrupted ==
    /\ JoinTold /\ Status = "replayed"
    /\ DeferRow(X, ReconcileTicks, "already_attempted", FALSE)
    /\ Goto("between") /\ AfterCall

AwaitAdmin ==
    /\ JoinTold /\ Status = "requested"
    /\ SettleRow(X, "requested", "other")
    /\ Goto("between") /\ AfterCall

\* An invite may come back without its chat: "joined_but_unidentified".
JoinFails ==
    /\ JoinTold
    /\ \/ Status \in {"rejected", "dead"}
       \/ Status = "member" /\ X \in Invites
    /\ SettleRow(X, "failed", "other")
    /\ Goto("between") /\ AfterCall

Joined ==
    /\ JoinTold /\ Status = "member"
    /\ Goto("observe") /\ AfterCall
    /\ UNCHANGED row

\* The exception ends the cycle and leaves the row as due as it was.
JoinRaises ==
    /\ JoinTold /\ Status = "raised"
    /\ Goto("between") /\ AfterCall
    /\ UNCHANGED row

-----------------------------------------------------------------------------
(***************************************************************************)
(* _activate: four writes to two databases, then the reload that           *)
(* WatcherReload models.                                                   *)
(***************************************************************************)

ObserveChat ==
    /\ joiner.pc = "observe"
    /\ registry' = [registry EXCEPT ![X].mode = IF joiner.job.watcher THEN "monitor" ELSE "recon"]
    /\ Goto("bind")
    /\ UNCHANGED <<row, bridge, member, used, backfillVars, governorVars>>

BindPolicy ==
    /\ joiner.pc = "bind"
    /\ registry' = [registry EXCEPT ![X].bound = @ \/ joiner.job.watcher]
    /\ Goto("archive")
    /\ UNCHANGED <<row, bridge, member, used, backfillVars, governorVars>>

\* Mutant: the join is settled before its chat is archived.
SettleUnarchived ==
    /\ joiner.pc = "archive"
    /\ SettleRow(X, "joined", "none")
    /\ Goto("settle")
    /\ UNCHANGED <<bridge, registry, member, used, backfillVars, governorVars>>

AddTarget ==
    /\ joiner.pc = "archive"
    /\ target' = [target EXCEPT ![X] = WithTarget(target[X])]
    /\ Goto("settle")
    /\ UNCHANGED <<row, bridge, registry, member, used, stored, reader, governorVars>>

SettleJoined ==
    /\ joiner.pc = "settle"
    /\ SettleRow(X, "joined", "none")
    /\ Goto(NextPc)
    /\ UNCHANGED <<bridge, registry, member, used, backfillVars, governorVars>>

-----------------------------------------------------------------------------
(***************************************************************************)
(* reconcile, once an hour: the loop comes to it after every run_once.     *)
(***************************************************************************)

\* Mutant: requests that await an admin are not looked at again.
OnlyInterrupted ==
    {x \in Chats : row[x].due = 0 /\ row[x].state = "pending" /\ row[x].error = "already_attempted"}

\* joins_awaiting_reconciliation
Unresolved ==
    {x \in Chats : /\ row[x].due = 0
                   /\ \/ row[x].state = "requested"
                      \/ row[x].state = "pending" /\ row[x].error = "already_attempted"}

StartReconcile ==
    /\ \/ joiner.pc = "between"
       \/ joiner.pc = "rest" /\ DueRows = {}
    /\ Unresolved # {}
    /\ joiner' = [JoinerRests EXCEPT !.pc = "dialogs", !.mode = "reconcile",
                                     !.todo = {Job(x) : x \in Unresolved}]
    /\ UNCHANGED <<row, bridge, registry, member, used, backfillVars, governorVars>>

\* The hour is not over, or nothing awaits reconciliation.
SkipReconcile ==
    /\ joiner.pc = "between"
    /\ joiner' = JoinerRests
    /\ UNCHANGED <<row, bridge, registry, member, used, backfillVars, governorVars>>

ReadDialogs ==
    /\ joiner.pc = "dialogs"
    /\ joiner' = [joiner EXCEPT !.pc = "reconcile", !.dialogs = {x \in Chats : member[x] = "yes"}]
    /\ UNCHANGED <<row, bridge, registry, member, used, backfillVars, governorVars>>

\* The rows are gone through in the order of updated_at; here in any order.
FoundAmongDialogs(job) ==
    /\ joiner.pc = "reconcile" /\ job \in joiner.todo
    /\ job.chat \notin Invites /\ job.chat \in joiner.dialogs
    /\ joiner' = [joiner EXCEPT !.pc = "observe", !.job = job, !.todo = @ \ {job}]
    /\ UNCHANGED <<row, bridge, registry, member, used, backfillVars, governorVars>>

MissingFromDialogs(job) ==
    /\ joiner.pc = "reconcile" /\ job \in joiner.todo
    /\ job.chat \notin Invites /\ job.chat \notin joiner.dialogs
    /\ IF job.error = "already_attempted" THEN RequeueRow(job.chat) ELSE UNCHANGED row
    /\ joiner' = [joiner EXCEPT !.todo = @ \ {job}]
    /\ UNCHANGED <<bridge, registry, member, used, backfillVars, governorVars>>

AskInvite(job) ==
    /\ joiner.pc = "reconcile" /\ job \in joiner.todo /\ job.chat \in Invites
    /\ ReserveAction("joiner", CheckKey(job.chat, job.attempts))
    /\ joiner' = [joiner EXCEPT !.pc = "checking", !.job = job, !.todo = @ \ {job}]
    /\ UNCHANGED <<row, bridge, registry, member, used, backfillVars>>

CheckTold == joiner.pc = "checking" /\ call["joiner"].pc = "told"

InviteIsMember ==
    /\ CheckTold /\ Status = "member"
    /\ Goto("observe") /\ AfterCall
    /\ UNCHANGED row

InviteIsDead ==
    /\ CheckTold /\ Status = "dead"
    /\ SettleRow(X, "failed", "other")
    /\ Goto("reconcile") /\ AfterCall

\* Everything but a denial of the budget moves to a fresh key.
AskInviteLater ==
    /\ CheckTold /\ Status \notin {"member", "dead", "raised"}
    /\ DeferRow(X, InviteRecheck, joiner.job.error, Status \notin {"denied", "refused"})
    /\ Goto("reconcile") /\ AfterCall

\* An exception ends the pass: what is left of it waits an hour.
CheckRaises ==
    /\ CheckTold /\ Status = "raised"
    /\ joiner' = JoinerRests /\ AfterCall
    /\ UNCHANGED row

EndReconcile ==
    /\ joiner.pc = "reconcile" /\ joiner.todo = {}
    /\ joiner' = JoinerRests
    /\ UNCHANGED <<row, bridge, registry, member, used, backfillVars, governorVars>>

-----------------------------------------------------------------------------
(***************************************************************************)
(* The governor's steps with Telegram's answers, the process, and time.    *)
(***************************************************************************)

Chat(c) == call[c].key[2]

\* What a join may have come to in x when its answer is lost.
MayBecome(x) == IF member[x] = "yes" THEN {"yes"} ELSE {member[x], "asked", "yes"}

MemberUnlessLost(c, becomes) ==
    IF KindOf(call[c].key) = "join" THEN member' = [member EXCEPT ![Chat(c)] = becomes]
    ELSE UNCHANGED member

\* What Telegram answers, in each case of what the account is in the chat.
Answered(c, answer) ==
    /\ Answer(c, answer)
    /\ \/ /\ KindOf(call[c].key) = "history_page" /\ answer = "page"
          /\ UNCHANGED <<member, used>>
       \/ /\ KindOf(call[c].key) \in {"join", "invite_check"} /\ answer = "member"
          /\ KindOf(call[c].key) = "invite_check" => member[Chat(c)] = "yes"
          /\ MemberUnlessLost(c, "yes")
          /\ UNCHANGED used
       \/ /\ KindOf(call[c].key) = "join" /\ answer = "requested" /\ member[Chat(c)] # "yes"
          /\ member' = [member EXCEPT ![Chat(c)] = "asked"]
          /\ UNCHANGED used
       \/ /\ KindOf(call[c].key) \in {"join", "invite_check"} /\ answer = "dead"
          /\ Chat(c) \in Invites /\ member[Chat(c)] = "no"
          /\ UNCHANGED <<member, used>>
       \/ /\ KindOf(call[c].key) = "invite_check" /\ answer = "requested"
          /\ member[Chat(c)] # "yes" /\ MayTrouble
          /\ used' = [used EXCEPT !.troubles = @ + 1]
          /\ UNCHANGED member
       \/ /\ answer \in Troubles \ {"raised"} /\ MayTrouble
          /\ used' = [used EXCEPT !.troubles = @ + 1]
          /\ UNCHANGED member
       \/ /\ answer = "raised" /\ MayFail
          /\ used' = [used EXCEPT !.faults = @ + 1]
          /\ \E becomes \in MayBecome(Chat(c)) : MemberUnlessLost(c, becomes)
    /\ UNCHANGED <<row, joiner, bridge, registry, backfillVars>>

AdminApproves(x) ==
    /\ member[x] = "asked"
    /\ member' = [member EXCEPT ![x] = "yes"]
    /\ UNCHANGED <<row, joiner, bridge, registry, used, backfillVars, governorVars>>

GovernorStep(c) ==
    /\ TakeSlot(c) \/ Settle(c) \/ \E s \in Scopes : SetCooldown(c, s)
    /\ UNCHANGED <<joinVars, backfillVars>>

\* The daemon stops; a join in flight may have reached Telegram.
StopDaemon ==
    /\ MayFail
    /\ used' = [used EXCEPT !.faults = @ + 1]
    /\ Stop
    /\ joiner' = JoinerRests /\ reader' = ReaderRests
    /\ \/ UNCHANGED member
       \/ /\ call["joiner"].pc = "calling" /\ KindOf(call["joiner"].key) = "join"
          /\ \E becomes \in MayBecome(X) : member' = [member EXCEPT ![X] = becomes]
    /\ UNCHANGED <<row, bridge, registry, target, stored>>

Time ==
    /\ Tick
    /\ row' = [x \in Chats |-> [row[x] EXCEPT !.due = Less(row[x].due)]]
    /\ target' = [x \in Chats |-> [target[x] EXCEPT !.due = Less(target[x].due)]]
    /\ UNCHANGED <<joiner, bridge, registry, member, used, stored, reader>>

BridgeStep ==
    \/ \E x \in Chats, watcher \in BOOLEAN : BridgeReads(x, watcher)
    \/ BridgeInserts \/ BridgeRevives \/ BridgeResumes \/ BridgeUpgrades \/ BridgeReports

RunOnce ==
    \/ \E x \in Chats : TakeJoin(x)
    \/ ResolveEntity \/ Resolved \/ Unresolvable \/ AskToJoin
    \/ DeferRefused \/ DeferHalted \/ ParkInterrupted
    \/ AwaitAdmin \/ JoinFails \/ Joined \/ JoinRaises
    \/ ObserveChat \/ BindPolicy \/ AddTarget \/ SettleJoined

Reconcile ==
    \/ StartReconcile \/ SkipReconcile \/ ReadDialogs \/ EndReconcile
    \/ \E job \in joiner.todo : FoundAmongDialogs(job) \/ MissingFromDialogs(job) \/ AskInvite(job)
    \/ InviteIsMember \/ InviteIsDead \/ AskInviteLater \/ CheckRaises

Next ==
    \/ BridgeStep \/ RunOnce \/ Reconcile
    \/ BackfillStep /\ UNCHANGED joinVars
    \/ \E c \in Callers : GovernorStep(c) \/ \E answer \in Values \cup Troubles : Answered(c, answer)
    \/ \E x \in Chats : AdminApproves(x)
    \/ StopDaemon
    \/ Time

JoinSpec == Init /\ [][Next]_vars

\* The loops run on (a pass of reconcile once an hour, a page whenever live
\* traffic leaves room), every request is answered, waiters of the semaphore are
\* served in turn, and time passes.
Fairness ==
    /\ WF_vars(BridgeStep) /\ WF_vars(RunOnce)
    /\ WF_vars(Reconcile) /\ SF_vars(StartReconcile)
    /\ WF_vars(BackfillStep /\ UNCHANGED joinVars) /\ SF_vars(\E x \in Chats : AskPage(x) /\ UNCHANGED joinVars)
    /\ \A c \in Callers :
        /\ SF_vars(GovernorStep(c))
        /\ WF_vars(\E answer \in Values \cup Troubles : Answered(c, answer))
    /\ \A x \in Chats : WF_vars(AdminApproves(x))
    /\ WF_vars(Time)

JoinFairSpec == JoinSpec /\ Fairness

-----------------------------------------------------------------------------
(***************************************************************************)
(* Properties.                                                             *)
(***************************************************************************)

\* What each part of the state may be (join_queue, the worker, the bridge).
JoinTypeOK ==
    /\ GovernorTypeOK /\ BackfillTypeOK
    /\ row \in [Chats -> [state : {"absent", "pending", "requested", "joined", "failed"},
                          attempts : Nat, error : {"none", "other", "already_attempted"},
                          due : Nat, watcher : BOOLEAN, invite : BOOLEAN]]
    /\ joiner.mode \in {"run", "reconcile"} /\ X \in Chats \cup {0}
    /\ joiner.dialogs \subseteq Chats
    /\ bridge.pc \in {"rest", "write", "upgrade"} /\ bridge.chat \in Chats \cup {0}
    /\ registry \in [Chats -> [mode : {"none", "recon", "monitor"}, bound : BOOLEAN]]
    /\ member \in [Chats -> {"no", "asked", "yes"}]
    /\ used \in [requests : 0..MaxRequests, troubles : 0..MaxTroubles, faults : 0..MaxFaults]

\* A join that is settled is activated to the end: a stop between the writes of
\* _activate leaves a row that is done again, not a joined chat nobody archives
\* or one that is monitored under no policy.
JoinedIsActivated ==
    \A x \in Chats : row[x].state = "joined" =>
        /\ target[x].state # "absent" /\ registry[x].mode # "none"
        /\ registry[x].mode = "monitor" => registry[x].bound

\* No row of the queue is stuck, also when the daemon stops or a call raises.
\* Refusals and floods only defer a join, under a fresh key where its attempt is
\* spent (defer_queued_join), so it is decided, or was interrupted and is parked
\* as such; and a request that an admin approved is noticed (reconcile; "must not
\* go unnoticed forever").  InterruptedIsReconciled is about the parked rows.
NoRowIsStuck ==
    \A x \in Chats :
        /\ row[x].state = "pending" ~>
               \/ row[x].state # "pending"
               \/ row[x].error = "already_attempted" /\ used.faults > 0
        /\ row[x].state = "requested" /\ member[x] = "yes" ~> row[x].state # "requested"

\* The history of a chat is archived to its end, whatever refuses, floods or
\* stops the walk in between (BackfillWorker.run_once).
HistoryIsWalked ==
    \A x \in Chats : target[x].state = "pending" ~> target[x].state = "complete"

\* queue_chat_join says of a pending row that takes a policy that it "will
\* alert through" it "once joined" (eidolon_mcp.py).
JoinedIsBound ==
    \A x \in Chats :
        row[x].state = "joined" /\ row[x].watcher /\ bridge.pc = "rest" => registry[x].bound

\* "Settling FAILED here would bury a chat we may in fact be a member of"
\* (run_once, of a public chat).
FailedIsNotMember ==
    \A x \in Chats \ Invites : row[x].state = "failed" => member[x] # "yes"

\* A join that was interrupted is only decided by reconcile, for
\* "next_queued_join deliberately refuses" it (scout.py, joins_awaiting_reconciliation).
InterruptedIsReconciled ==
    \A x \in Chats : row[x].error = "already_attempted" ~> row[x].error # "already_attempted"

\* "Every crawl call goes through TelegramActionGovernor" (governor.py), so that
\* none is sent while the account is paused as a whole.
PausedAccountIsSilent ==
    [][joiner.pc = "resolve" /\ joiner'.pc = "resolving" => cooldown["all"].left = 0]_vars
=============================================================================
