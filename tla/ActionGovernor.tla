---------------------------- MODULE ActionGovernor ----------------------------
(***************************************************************************)
(* TelegramActionGovernor (pipeline/governor.py) over the ledger of        *)
(* actions and the pauses of the account (storage/scout.py).  A caller     *)
(* reserves a slot under an idempotency key, waits for the one request in  *)
(* flight, sends its own, and records what came back.                      *)
(*                                                                         *)
(* Time is a number of ticks; a window, a pace and a pause are lengths in   *)
(* them.  A key is <<kind, subject, number>>, which is what the texts of    *)
(* the callers' keys are made of.  One account; no operator lifts a pause.  *)
(***************************************************************************)
EXTENDS Naturals, FiniteSets

CONSTANTS
    Callers,     \* the tasks that call Telegram
    NoCaller,
    Kinds,       \* action classes (ActionKind) the callers use
    Keys,        \* idempotency keys (bound: those within reach of an instance)
    PerHour,     \* PerHour[kind], PerDay[kind]: the caps of its BudgetRule
    PerDay,
    NoCap,       \* a rule without that cap
    Pace,        \* Pace[kind]: min_interval_seconds, 0 without one
    Hour,        \* lengths of the rolling windows
    Day,
    ShortFlood,  \* a FloodWait that pauses one class, with its margin
    CrawlFlood,  \* ... of CRAWL_HALT_FLOOD_SECONDS, which pauses all
    ManualHalt,  \* MANUAL_HALT_FLOOD_SECONDS
    Values       \* what a request that runs may return

Troubles == {"rejected", "short_flood", "crawl_flood", "manual_flood", "spam", "full", "raised"}
Statuses == {"denied", "refused", "halted", "replayed", "flood_wait", "rejected", "raised"}
Caps == Nat \cup {NoCap}

ASSUME CallersAssumption == NoCaller \notin Callers
ASSUME KeysAssumption == \A k \in Keys : k[1] \in Kinds
ASSUME PolicyAssumption ==
    /\ PerHour \in [Kinds -> Caps] /\ PerDay \in [Kinds -> Caps] /\ NoCap \notin Nat
    /\ Pace \in [Kinds -> Nat] /\ \A kind \in Kinds : Pace[kind] <= Day
ASSUME LengthsAssumption ==
    /\ Hour \in Nat /\ Day \in Nat /\ Hour <= Day
    /\ ShortFlood \in Nat \ {0} /\ CrawlFlood \in Nat \ {0} /\ ManualHalt \in Nat \ {0}
ASSUME ValuesAssumption == Values \cap (Troubles \cup Statuses \cup {"none"}) = {}

VARIABLES
    ledger,    \* ledger[k]: the row of telegram_actions under key k
    cooldown,  \* cooldown[s]: the row of account_cooldowns of scope s
    slot,      \* the caller that holds the semaphore
    call,      \* call[c]: where c is inside run()
    requests   \* requests[k]: requests Telegram received under k, up to 2 (history)

governorVars == <<ledger, cooldown, slot, call, requests>>

KindOf(k) == k[1]

\* Mutant: no request is repeated under its key.
AllMutating(kind) == kind \in Kinds

\* ActionKind.is_mutating and OWNER_KINDS
Mutating(kind) == kind = "join"
OwnerKinds == {"owner_message", "owner_forward"} \cap Kinds

Scopes == Kinds \cup {"all"}

\* A row that is not there is "none"; an age stops at Day, past every window.
Outcomes == {"none", "reserved", "succeeded", "failed", "flood_wait", "ambiguous"}
Unused == [outcome |-> "none", age |-> 0]

\* "queued" waits for the slot, "calling" for Telegram; "settling" and
\* "pausing" are about to write what came back; "told" has run()'s result.
Idle == [pc |-> "idle", key |-> <<>>, answer |-> "none", scopes |-> {}, wait |-> 0]
Told(k, status, wait) ==
    [pc |-> "told", key |-> k, answer |-> status, scopes |-> {}, wait |-> wait]
At(pc, k, answer, scopes) ==
    [pc |-> pc, key |-> k, answer |-> answer, scopes |-> scopes, wait |-> 0]

GovernorInit ==
    /\ ledger = [k \in Keys |-> Unused]
    /\ cooldown = [s \in Scopes |-> [left |-> 0, manual |-> FALSE]]
    /\ slot = NoCaller
    /\ call = [c \in Callers |-> Idle]
    /\ requests = [k \in Keys |-> 0]

-----------------------------------------------------------------------------
(***************************************************************************)
(* The reservation, one transaction.                                       *)
(***************************************************************************)

\* Slots of a kind spent in the last window ticks.
Spent(kind, window) ==
    {k \in Keys : KindOf(k) = kind /\ ledger[k].outcome # "none" /\ ledger[k].age < window}

\* The limits of a kind in the order they are asked.
Limits(kind) == << <<1, Pace[kind]>>, <<PerHour[kind], Hour>>, <<PerDay[kind], Day>> >>

\* Mutant: the cap is refused one slot too late.
FullPastCap(kind, cap, window) == cap # NoCap /\ Cardinality(Spent(kind, window)) > cap

Full(kind, cap, window) == cap # NoCap /\ Cardinality(Spent(kind, window)) >= cap

Refusing(kind) == {i \in 1..3 : Full(kind, Limits(kind)[i][1], Limits(kind)[i][2])}

\* When the oldest slot of a window leaves it; a cap of zero waits the least.
Waits(kind, window) ==
    LET spent == Spent(kind, window)
    IN  IF spent = {} THEN {1}
        ELSE {window - ledger[k].age :
                k \in {k \in spent : \A l \in spent : ledger[l].age <= ledger[k].age}}

Paused(kind) == {s \in {kind, "all"} : cooldown[s].left > 0}

\* Of two pauses the longer one answers; of two equal ones, either.
Governs(s, kind) ==
    s \in Paused(kind) /\ \A t \in Paused(kind) : cooldown[t].left <= cooldown[s].left

ReservedRow(k) == [ledger EXCEPT ![k] = [outcome |-> "reserved", age |-> 0]]

Enters(c, k) == call' = [call EXCEPT ![c] = At("queued", k, "none", {})]
Returns(c, k, status, wait) == call' = [call EXCEPT ![c] = Told(k, status, wait)]

\* Mutant: a key that was used runs again whatever it does.
ReplayRuns(c, k) ==
    /\ ledger[k].outcome # "none"
    /\ Enters(c, k)
    /\ UNCHANGED ledger

\* The key was used before: a read runs again, a join does not.
Replay(c, k) ==
    /\ ledger[k].outcome # "none"
    /\ IF Mutating(KindOf(k)) THEN Returns(c, k, "replayed", 0) ELSE Enters(c, k)
    /\ UNCHANGED ledger

RefusePaused(c, k) ==
    /\ ledger[k].outcome = "none"
    /\ \E s \in Scopes :
        /\ Governs(s, KindOf(k))
        /\ IF cooldown[s].manual THEN Returns(c, k, "refused", 0)
           ELSE Returns(c, k, "denied", cooldown[s].left)
    /\ UNCHANGED ledger

RefuseOverBudget(c, k) ==
    /\ ledger[k].outcome = "none" /\ Paused(KindOf(k)) = {}
    /\ \E i \in Refusing(KindOf(k)) :
        /\ \A j \in Refusing(KindOf(k)) : i <= j
        /\ \E wait \in Waits(KindOf(k), Limits(KindOf(k))[i][2]) : Returns(c, k, "denied", wait)
    /\ UNCHANGED ledger

Grant(c, k) ==
    /\ ledger[k].outcome = "none" /\ Paused(KindOf(k)) = {}
    /\ Refusing(KindOf(k)) = {}
    /\ ledger' = ReservedRow(k)
    /\ Enters(c, k)

ReserveAction(c, k) ==
    /\ call[c].pc = "idle" /\ k \in Keys
    /\ Replay(c, k) \/ RefusePaused(c, k) \/ RefuseOverBudget(c, k) \/ Grant(c, k)
    /\ UNCHANGED <<cooldown, slot, requests>>

-----------------------------------------------------------------------------
(***************************************************************************)
(* The request and what is recorded of it, under the semaphore.            *)
(***************************************************************************)

\* Waiters are served in the order they came; here in any order.
TakeSlot(c) ==
    LET k == call[c].key
    IN  /\ call[c].pc = "queued" /\ slot = NoCaller
        /\ slot' = c
        /\ call' = [call EXCEPT ![c].pc = "calling"]
        /\ requests' = [requests EXCEPT ![k] = IF requests[k] = 2 THEN 2 ELSE requests[k] + 1]
        /\ UNCHANGED <<ledger, cooldown>>

\* Only a join can find the account at its channel limit.
Answer(c, answer) ==
    /\ call[c].pc = "calling"
    /\ answer = "full" => KindOf(call[c].key) = "join"
    /\ call' = [call EXCEPT ![c] = [@ EXCEPT !.pc = "settling", !.answer = answer]]
    /\ UNCHANGED <<ledger, cooldown, slot, requests>>

OutcomeOf(answer) ==
    CASE answer \in Values -> "succeeded"
      [] answer \in {"short_flood", "crawl_flood", "manual_flood"} -> "flood_wait"
      [] answer = "raised" -> "ambiguous"
      [] OTHER -> "failed"

\* The scopes an answer pauses, for how long, and whether a person must lift it.
PausedScopes(answer, kind) ==
    CASE answer = "short_flood" -> {kind}
      [] answer \in {"crawl_flood", "manual_flood"} -> {"all"}
      [] answer = "spam" -> IF kind \in OwnerKinds THEN OwnerKinds ELSE {"all"}
      [] answer = "full" -> {"join"}
      [] OTHER -> {}

PauseLength(answer) ==
    CASE answer = "short_flood" -> ShortFlood
      [] answer = "crawl_flood" -> CrawlFlood
      [] OTHER -> ManualHalt

NeedsOperator(answer) == answer \in {"manual_flood", "spam", "full"}

\* What run() returns once nothing is left to write; "raised" is the exception.
StatusOf(answer) ==
    CASE answer \in Values \cup {"rejected", "raised"} -> answer
      [] answer \in {"short_flood", "crawl_flood"} -> "flood_wait"
      [] OTHER -> "halted"

WaitOf(answer) ==
    IF answer \in {"short_flood", "crawl_flood", "manual_flood"} THEN PauseLength(answer) ELSE 0

Finishes(c, k, answer) ==
    /\ call' = [call EXCEPT ![c] = Told(k, StatusOf(answer), WaitOf(answer))]
    /\ slot' = NoCaller

Settle(c) ==
    LET k == call[c].key
        answer == call[c].answer
        scopes == PausedScopes(answer, KindOf(k))
    IN  /\ call[c].pc = "settling"
        /\ ledger' = [ledger EXCEPT ![k] = [@ EXCEPT !.outcome = OutcomeOf(answer)]]
        /\ IF scopes = {} THEN Finishes(c, k, answer)
           ELSE call' = [call EXCEPT ![c] = At("pausing", k, answer, scopes)] /\ UNCHANGED slot
        /\ UNCHANGED <<cooldown, requests>>

\* set_cooldown never shortens a pause, and never takes its operator away.
Lengthened(pause, answer) ==
    [left |-> IF pause.left < PauseLength(answer) THEN PauseLength(answer) ELSE pause.left,
     manual |-> pause.manual \/ NeedsOperator(answer)]

SetCooldown(c, s) ==
    LET k == call[c].key
        answer == call[c].answer
        rest == call[c].scopes \ {s}
    IN  /\ call[c].pc = "pausing" /\ s \in call[c].scopes
        /\ cooldown' = [cooldown EXCEPT ![s] = Lengthened(cooldown[s], answer)]
        /\ IF rest = {} THEN Finishes(c, k, answer)
           ELSE call' = [call EXCEPT ![c] = At("pausing", k, answer, rest)] /\ UNCHANGED slot
        /\ UNCHANGED <<ledger, requests>>

\* The caller goes on with the result.
Return(c) ==
    /\ call[c].pc = "told"
    /\ call' = [call EXCEPT ![c] = Idle]
    /\ UNCHANGED <<ledger, cooldown, slot, requests>>

-----------------------------------------------------------------------------
\* The process ends: what is in the database stays.
Stop ==
    /\ call' = [c \in Callers |-> Idle]
    /\ slot' = NoCaller
    /\ UNCHANGED <<ledger, cooldown, requests>>

Older(r) == IF r.outcome = "none" \/ r.age = Day THEN r ELSE [r EXCEPT !.age = r.age + 1]

Less(n) == IF n = 0 THEN 0 ELSE n - 1

Tick ==
    /\ ledger' = [k \in Keys |-> Older(ledger[k])]
    /\ cooldown' = [s \in Scopes |-> [cooldown[s] EXCEPT !.left = Less(cooldown[s].left)]]
    /\ UNCHANGED <<slot, call, requests>>

GovernorNext ==
    \/ \E c \in Callers :
        \/ \E k \in Keys : ReserveAction(c, k)
        \/ TakeSlot(c)
        \/ \E answer \in Values \cup Troubles : Answer(c, answer)
        \/ Settle(c)
        \/ \E s \in Scopes : SetCooldown(c, s)
        \/ Return(c)
    \/ Stop
    \/ Tick

GovernorSpec == GovernorInit /\ [][GovernorNext]_governorVars
-----------------------------------------------------------------------------
(***************************************************************************)
(* Properties.                                                             *)
(***************************************************************************)

\* What each part of the state may be (telegram_actions, account_cooldowns).
GovernorTypeOK ==
    /\ ledger \in [Keys -> [outcome : Outcomes, age : 0..Day]]
    /\ cooldown \in [Scopes -> [left : Nat, manual : BOOLEAN]]
    /\ slot \in Callers \cup {NoCaller}
    /\ call \in [Callers ->
        [pc : {"idle", "queued", "calling", "settling", "pausing", "told"},
         key : Keys \cup {<<>>}, answer : Values \cup Troubles \cup Statuses \cup {"none"},
         scopes : SUBSET Scopes, wait : Nat]]
    /\ requests \in [Keys -> 0..2]

\* No rolling window of a class ever holds more slots than its rule allows,
\* and no two slots are nearer than its pace, whatever fails, stops or is
\* replayed in between (_budget_denial_locked; "never refunded").
BudgetKept ==
    \A kind \in Kinds : \A i \in 1..3 :
        LET cap == Limits(kind)[i][1]
        IN  cap # NoCap => Cardinality(Spent(kind, Limits(kind)[i][2])) <= cap

\* Telegram receives a join at most once under a key: neither a second caller
\* nor a stop between the request and its record repeats it (run, is_mutating).
MutationIsOneCall == \A k \in Keys : Mutating(KindOf(k)) => requests[k] <= 1

\* A request that reached Telegram has its slot, for ever: a stop or an answer
\* that was lost never makes it look unspent (reserve_action).
RequestsAreSpent == \A k \in Keys : requests[k] > 0 => ledger[k].outcome # "none"

\* A slot is granted only where nothing pauses its class (reserve_action:
\* "Reserve one slot for an MTProto call, or explain the refusal").
EntersUnpaused ==
    [][\A c \in Callers :
        call[c].pc = "idle" /\ call'[c].pc = "queued" =>
            Paused(KindOf(call'[c].key)) = {}]_governorVars
=============================================================================
