--------------------------- MODULE HousingDelivery ---------------------------
(***************************************************************************)
(* The housing outbox: HousingAlertDelivery (pipeline/housing/worker.py)   *)
(* over the rows of housing_alerts (storage/housing.py).  A delivery is    *)
(* two calls to the owner's DM, a report and then the original, with a     *)
(* checkpoint between them; when the DM cannot be written to, the report   *)
(* goes through the bot and is owed to the DM from then on.                *)
(*                                                                         *)
(* One process delivers, so a lease and next_attempt_at only say when a row *)
(* is due again: a row that waits for either is claimed at any later time. *)
(* The owner's DM, the action governor in front of it and the Bot API are  *)
(* what they may answer.  Bodies, replies and amendments are left out.     *)
(***************************************************************************)
EXTENDS Naturals, FiniteSets

CONSTANTS
    Alerts,       \* ids of the rows of housing_alerts
    Kind,         \* Kind[a]: "live", "replay", "update" or "digest"
    Unit,         \* Unit[a]: the advertisement a is about
    Configured,   \* whether OWNER_USERNAME names an owner
    BatchLimit,   \* rows of one claim
    MaxAttempts,  \* HousingAlertDelivery.max_attempts
    MaxFaults     \* bound: crashes, failing writes and lost answers

ASSUME AlertsAssumption == Alerts \subseteq Nat \ {0} /\ IsFiniteSet(Alerts)
ASSUME KindAssumption == Kind \in [Alerts -> {"live", "replay", "update", "digest"}]
ASSUME LimitsAssumption ==
    /\ BatchLimit \in Nat \ {0} /\ MaxAttempts \in Nat \ {0} /\ MaxFaults \in Nat
    /\ Configured \in BOOLEAN

VARIABLES
    row,      \* row[a] of housing_alerts
    work,     \* the delivery cycle: its batch and the step of the alert in hand
    shown,    \* shown[a]: the messages about a the owner has received (history)
    lost,     \* lost[a]: those of them the row was never told of (history)
    faults    \* crashes, failed writes and lost answers so far

housingVars == <<row, work, shown, lost, faults>>

Statuses == {"absent", "pending", "delivered", "failed", "gone"}
Forwards == {"pending", "forwarded", "copied", "unavailable", "skipped", "bot_fallback"}
Kinds == {"live", "replay", "update", "digest"}
Nothing == [reports |-> 0, originals |-> 0, bot |-> 0]

NoRow == [status |-> "absent", waits |-> FALSE, forward |-> "pending", reported |-> FALSE,
          attempts |-> 0, botReports |-> 0]
NoAlert == 0
Idle == [pc |-> "idle", todo |-> {}, alert |-> NoAlert, carries |-> FALSE, next |-> "idle"]

HousingInit ==
    /\ row = [a \in Alerts |-> NoRow]
    /\ work = Idle
    /\ shown = [a \in Alerts |-> Nothing]
    /\ lost = [a \in Alerts |-> Nothing]
    /\ faults = 0

\* The delivery of the alert in hand goes on at pc.
Goto(pc) == work' = [work EXCEPT !.pc = pc]

-----------------------------------------------------------------------------
(***************************************************************************)
(* The rows: enqueued by the matching of units and of photographs, claimed *)
(* by the delivery loop, aged out by retention.                            *)
(***************************************************************************)

\* Ids are given in the order of insertion.  Replays are spread out by a delay.
EnqueueAlert(a) ==
    /\ row[a].status = "absent"
    /\ \A b \in Alerts : b < a => row[b].status # "absent"
    /\ row' = [row EXCEPT ![a].status = "pending", ![a].waits = (Kind[a] = "replay")]
    /\ UNCHANGED <<work, shown, lost, faults>>

Pending == {a \in Alerts : row[a].status = "pending"}

\* Rows that wait for nothing are due, in the order of their ids.
Fresh == {a \in Pending : ~row[a].waits}

\* Mutant: a lease never runs out, and a retry is never due.
ClaimFreshAlerts(due) ==
    /\ work.pc = "idle"
    /\ due # {} /\ due \subseteq Fresh /\ Cardinality(due) <= BatchLimit
    /\ row' = [a \in Alerts |-> [row[a] EXCEPT !.waits = @ \/ a \in due]]
    /\ work' = [Idle EXCEPT !.pc = "take", !.todo = due]
    /\ UNCHANGED <<shown, lost, faults>>

ClaimDueAlerts(due) ==
    /\ work.pc = "idle"
    /\ due # {} /\ due \subseteq Pending /\ Cardinality(due) <= BatchLimit
    /\ \A a \in Fresh \ due :
        Cardinality(due) = BatchLimit /\ \A b \in Fresh \cap due : b < a
    /\ row' = [a \in Alerts |-> [row[a] EXCEPT !.waits = @ \/ a \in due]]
    /\ work' = [Idle EXCEPT !.pc = "take", !.todo = due]
    /\ UNCHANGED <<shown, lost, faults>>

PurgeAlert(a) ==
    /\ row[a].status \in {"delivered", "failed"}
    /\ row' = [row EXCEPT ![a] = [NoRow EXCEPT !.status = "gone"]]
    /\ UNCHANGED <<work, shown, lost, faults>>

\* Delivered alerts that still owe the owner their DM version.
Backlog ==
    {a \in Alerts : /\ row[a].status = "delivered" /\ Kind[a] # "digest"
                    /\ row[a].forward \in {"bot_fallback", "unavailable"}}

\* Mutant: reopening forgets the report that landed.
ReopenedFromScratch(r, as) ==
    [a \in Alerts |->
        IF a \in as THEN [NoRow EXCEPT !.status = "pending", !.waits = TRUE,
                                       !.botReports = r[a].botReports]
        ELSE r[a]]

\* reopen_fallback_alerts: a report that landed is kept, so its row resumes at
\* the original.
Reopened(r, as) ==
    [a \in Alerts |->
        IF a \in as THEN [r[a] EXCEPT !.status = "pending", !.waits = TRUE,
                                         !.forward = "pending", !.attempts = 0]
        ELSE r[a]]

\* Mutant: the probe reopens only what lost its original.
ProbeUnavailable(a) ==
    /\ work.pc = "idle"
    /\ Configured /\ Pending = {} /\ a \in Backlog /\ row[a].reported
    /\ row' = Reopened(row, {a})
    /\ UNCHANGED <<work, shown, lost, faults>>

\* With nothing else waiting, one alert of the backlog is sent back to the DM
\* at the end of a cycle.
ProbeBacklog(a) ==
    /\ work.pc = "idle"
    /\ Configured /\ Pending = {} /\ a \in Backlog
    /\ row' = Reopened(row, {a})
    /\ UNCHANGED <<work, shown, lost, faults>>

-----------------------------------------------------------------------------
(***************************************************************************)
(* _deliver: one alert, both steps, resuming where the last try stopped.   *)
(***************************************************************************)

UnitReported(a) == \E b \in Alerts \ {a} : Unit[b] = Unit[a] /\ row[b].reported

CarriesOriginal(a) ==
    \/ Kind[a] \in {"live", "replay"}
    \/ Kind[a] = "update" /\ ~UnitReported(a)

\* Where a delivery goes once the report has reached the DM.
AfterReport(a, carries) ==
    CASE row[a].forward # "pending" -> "success"
      [] row[a].forward = "pending" /\ carries -> "forward"
      [] row[a].forward = "pending" /\ ~carries -> "skip"

\* The batch is delivered in the order of the ids.
TakeAlert(a) ==
    /\ work.pc = "take"
    /\ a \in work.todo /\ \A b \in work.todo : a <= b
    /\ work' = [work EXCEPT
            !.todo = @ \ {a}, !.alert = a, !.carries = CarriesOriginal(a),
            !.pc = CASE ~Configured -> "bot"
                     [] Configured /\ ~row[a].reported -> "report"
                     [] Configured /\ row[a].reported -> AfterReport(a, CarriesOriginal(a))]
    /\ UNCHANGED <<row, shown, lost, faults>>

EndCycle ==
    /\ work.pc = "take" /\ work.todo = {}
    /\ work' = Idle
    /\ UNCHANGED <<row, shown, lost, faults>>

\* How a step can end without its message: "later" for the codes of the
\* governor's pacing, budgets and pauses, "retry" for everything else.
Refusals == {"later", "retry"}

\* Telegram has the message; the row is told by the step at pc.
Accepted(what, pc) ==
    /\ shown' = [shown EXCEPT ![work.alert][what] = @ + 1]
    /\ Goto(pc)
    /\ UNCHANGED <<row, lost, faults>>

\* Telegram has the message and the call raises.
AnswerLost(what) ==
    /\ faults < MaxFaults
    /\ faults' = faults + 1
    /\ shown' = [shown EXCEPT ![work.alert][what] = @ + 1]
    /\ lost' = [lost EXCEPT ![work.alert][what] = @ + 1]
    /\ Goto("retry")
    /\ UNCHANGED row

Refused(outcome) == Goto(outcome) /\ UNCHANGED <<row, shown, lost, faults>>

ReportAccepted == work.pc = "report" /\ Accepted("reports", "mark")

SendReport ==
    \/ ReportAccepted
    \/ /\ work.pc = "report"
       /\ \/ AnswerLost("reports")
          \/ \E outcome \in Refusals : Refused(outcome)

\* The DM cannot be written to: the bot reports once, then the row waits.
OwnerUnreachable ==
    /\ work.pc = "report"
    /\ \E outcome \in (IF row[work.alert].botReports >= 1 THEN Refusals ELSE {"bot"}) : Goto(outcome)
    /\ UNCHANGED <<row, shown, lost, faults>>

\* The checkpoint of the report.
MarkReportSent ==
    /\ work.pc = "mark"
    /\ row' = [row EXCEPT ![work.alert].reported = TRUE]
    /\ work' = [work EXCEPT !.pc = "recover", !.next = AfterReport(work.alert, work.carries)]
    /\ UNCHANGED <<shown, lost, faults>>

\* The DM works again: whatever fell back to the bot is due once more.
RecoverBacklog ==
    /\ work.pc = "recover"
    /\ row' = Reopened(row, Backlog)
    /\ Goto(work.next)
    /\ UNCHANGED <<shown, lost, faults>>

SkipOriginal ==
    /\ work.pc = "skip"
    /\ row' = [row EXCEPT ![work.alert].forward = "skipped"]
    /\ Goto("success")
    /\ UNCHANGED <<shown, lost, faults>>

OriginalAccepted ==
    \/ work.pc = "forward" /\ Accepted("originals", "forwarded")
    \/ work.pc = "copy" /\ Accepted("originals", "copied")

ForwardRefused ==
    /\ work.pc = "forward"
    /\ \/ AnswerLost("originals")
       \/ \E outcome \in Refusals \cup {"copy"} : Refused(outcome)

\* The source refuses forwarding, or the advertisement is gone.
CopyRefused ==
    /\ work.pc = "copy"
    /\ \/ AnswerLost("originals")
       \/ \E outcome \in Refusals \cup {"abandon"} : Refused(outcome)

MarkOriginalSent ==
    /\ work.pc \in {"forwarded", "copied"}
    /\ row' = [row EXCEPT ![work.alert].forward = work.pc]
    /\ work' = [work EXCEPT !.pc = "recover", !.next = "success"]
    /\ UNCHANGED <<shown, lost, faults>>

\* Mutant: the original that could not be shown is not owed any more.
AbandonForGood ==
    /\ work.pc \in {"abandon", "close"}
    /\ row' = [row EXCEPT ![work.alert].forward = "skipped"]
    /\ Goto("success")
    /\ UNCHANGED <<shown, lost, faults>>

AbandonOriginal ==
    /\ work.pc \in {"abandon", "close"}
    /\ row' = [row EXCEPT ![work.alert].forward = "unavailable"]
    /\ Goto("success")
    /\ UNCHANGED <<shown, lost, faults>>

DeliverViaBot ==
    /\ work.pc = "bot"
    /\ \/ Accepted("bot", "fellback")
       \/ AnswerLost("bot")
       \/ \E outcome \in {"retry", "final"} : Refused(outcome)

\* Mutant: the report through the bot is followed by the original.
MarkBotReportThenForward ==
    /\ work.pc = "fellback"
    /\ row' = [row EXCEPT ![work.alert].botReports = @ + 1]
    /\ Goto("forward")
    /\ UNCHANGED <<shown, lost, faults>>

MarkBotReport ==
    /\ work.pc = "fellback"
    /\ row' = [row EXCEPT
            ![work.alert].forward = IF Configured THEN "bot_fallback" ELSE "skipped",
            ![work.alert].botReports = IF Configured THEN @ + 1 ELSE @]
    /\ Goto("success")
    /\ UNCHANGED <<shown, lost, faults>>

-----------------------------------------------------------------------------
(***************************************************************************)
(* run_once: how a delivery is settled.                                    *)
(***************************************************************************)

\* The next alert of the batch, with the row of this one settled.
Settle(status, counted) ==
    /\ row' = [row EXCEPT ![work.alert].status = status,
                          ![work.alert].waits = (status = "pending"),
                          ![work.alert].attempts = IF counted THEN @ + 1 ELSE @]
    /\ work' = [Idle EXCEPT !.pc = "take", !.todo = work.todo]
    /\ UNCHANGED <<shown, lost, faults>>

GivesUp == work.pc = "final" \/ row[work.alert].attempts + 1 >= MaxAttempts

SettleDelivered == work.pc = "success" /\ Settle("delivered", TRUE)
SettleLater == work.pc = "later" /\ Settle("pending", FALSE)
SettleRetry == work.pc = "retry" /\ ~GivesUp /\ Settle("pending", TRUE)

\* The owner has the report: giving up on the original closes the alert.
SettleWithoutOriginal ==
    /\ work.pc \in {"retry", "final"} /\ GivesUp /\ row[work.alert].reported
    /\ Goto("close")
    /\ UNCHANGED <<row, shown, lost, faults>>

SettleFailed ==
    /\ work.pc \in {"retry", "final"} /\ GivesUp /\ ~row[work.alert].reported
    /\ Settle("failed", TRUE)

-----------------------------------------------------------------------------
(***************************************************************************)
(* A message is accepted and its record does not commit: the process dies, *)
(* and the rest of the batch waits for its lease to run out, or the write  *)
(* fails, which run_once settles as any exception of a delivery.           *)
(***************************************************************************)

Unrecorded ==
    CASE work.pc = "mark" -> "reports"
      [] work.pc \in {"forwarded", "copied"} -> "originals"
      [] work.pc = "fellback" -> "bot"
      [] OTHER -> "nothing"

LoseRecord ==
    /\ faults < MaxFaults
    /\ faults' = faults + 1
    /\ lost' = IF Unrecorded = "nothing" THEN lost
               ELSE [lost EXCEPT ![work.alert][Unrecorded] = @ + 1]

Crash ==
    /\ work.pc # "idle"
    /\ LoseRecord
    /\ work' = Idle
    /\ UNCHANGED <<row, shown>>

WriteFails ==
    /\ work.pc \in {"mark", "recover", "skip", "forwarded", "copied", "abandon", "fellback"}
    /\ LoseRecord
    /\ Goto("retry")
    /\ UNCHANGED <<row, shown>>

-----------------------------------------------------------------------------
DeliveryStep ==
    \/ (\E a \in Alerts : TakeAlert(a)) \/ EndCycle
    \/ SendReport \/ OwnerUnreachable \/ MarkReportSent \/ RecoverBacklog
    \/ SkipOriginal \/ OriginalAccepted \/ ForwardRefused \/ CopyRefused \/ MarkOriginalSent
    \/ AbandonOriginal \/ DeliverViaBot \/ MarkBotReport
    \/ SettleDelivered \/ SettleLater \/ SettleRetry
    \/ SettleWithoutOriginal \/ SettleFailed

HousingNext ==
    \/ \E a \in Alerts : EnqueueAlert(a) \/ PurgeAlert(a) \/ ProbeBacklog(a)
    \/ \E due \in SUBSET Alerts : ClaimDueAlerts(due)
    \/ DeliveryStep
    \/ Crash \/ WriteFails

HousingSpec == HousingInit /\ [][HousingNext]_housingVars

\* The loop keeps running and claims by next_attempt_at, and a DM that is
\* written to again and again accepts in the end: pacing, budgets and pauses
\* end with their windows.
HousingFairness ==
    /\ WF_housingVars(DeliveryStep)
    /\ WF_housingVars(\E a \in Alerts : ProbeBacklog(a))
    /\ \A a \in Alerts :
        /\ SF_housingVars(\E due \in SUBSET Alerts : a \in due /\ ClaimDueAlerts(due))
        /\ SF_housingVars(work.alert = a /\ (ReportAccepted \/ OriginalAccepted))

HousingFairSpec == HousingSpec /\ HousingFairness

-----------------------------------------------------------------------------
(***************************************************************************)
(* Correctness                                                             *)
(***************************************************************************)
Steps == {"idle", "take", "report", "mark", "recover", "skip", "forward", "forwarded",
          "copy", "copied", "abandon", "close", "bot", "fellback", "success", "later", "retry", "final"}
Counts == [reports : Nat, originals : Nat, bot : Nat]
Rows == [status : Statuses, waits : BOOLEAN, forward : Forwards, reported : BOOLEAN,
         attempts : 0..MaxAttempts, botReports : Nat]
Cycles == [pc : Steps, todo : SUBSET Alerts, alert : Alerts \cup {NoAlert},
           carries : BOOLEAN, next : Steps]

\* Every variable has its type; no row records more tries than max_attempts.
HousingTypeOK ==
    /\ row \in [Alerts -> Rows]
    /\ work \in Cycles
    /\ shown \in [Alerts -> Counts]
    /\ lost \in [Alerts -> Counts]
    /\ faults \in 0..MaxFaults

\* "The owner never receives the same report twice": through retries, pauses
\* and reopened rows, a report comes again only if the row was never told of
\* one that went out.
ReportsOnceUnlessLost ==
    \A a \in Alerts : shown[a].reports <= 1 + lost[a].reports

\* "... and never receives an original without its report above it."
OriginalFollowsReport ==
    \A a \in Alerts : shown[a].originals > 0 => shown[a].reports > 0

\* An alert is closed as delivered only when its report has reached the owner,
\* in the DM or through the bot.
DeliveredWasShown ==
    \A a \in Alerts :
        row[a].status = "delivered" => shown[a].reports + shown[a].bot > 0

\* A row that is settled without its original stays in the backlog, or has
\* nothing to show: no original is forgotten by a pause of the DM.
NoOriginalForgotten ==
    \A a \in Alerts :
        /\ Configured
        /\ row[a].status = "delivered"
        /\ Kind[a] \in {"live", "replay"}
        => a \in Backlog \/ shown[a].originals > 0

\* Every alert is delivered or given up, through pauses, crashes and retries.
EveryListingSettles ==
    \A a \in Alerts :
        row[a].status = "pending" ~> row[a].status \in {"delivered", "failed"}

\* What fell back to the bot reaches the owner's DM once it can be written to,
\* unless its tries run out or its row ages out first.
FallbackReachesDM ==
    \A a \in Alerts :
        a \in Backlog /\ row[a].forward = "bot_fallback" ~>
            row[a].reported \/ row[a].status \in {"failed", "gone"}

\* "A failed alert is a listing the owner never saw."
FailedWasNeverSeen ==
    \A a \in Alerts : row[a].status = "failed" => shown[a].reports + shown[a].bot = 0

AboutOneListing(a, b) ==
    /\ a # b /\ Unit[a] = Unit[b]
    /\ "gone" \notin {row[a].status, row[b].status}
    /\ "replay" \notin {Kind[a], Kind[b]}

\* An original that followed a report of its listing "must not be forwarded a
\* second time" by the other alerts about it.
OriginalShownOnce ==
    \A a, b \in Alerts :
        AboutOneListing(a, b) => shown[a].originals = 0 \/ shown[b].originals = 0
=============================================================================
