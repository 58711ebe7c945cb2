----------------------- MODULE HousingDeliveryProofs -----------------------
(* Theorems about HousingDelivery, for any number of alerts and faults. *)
EXTENDS HousingDelivery, TLAPS

-----------------------------------------------------------------------------
(***************************************************************************)
(* The inductive invariant                                                 *)
(***************************************************************************)

ListingKinds == {"live", "replay"}

InHand(a) == work.pc \notin {"idle", "take"} /\ work.alert = a

\* What row, owner and history say of an alert, whoever works on it.
RowFacts(a) ==
    /\ row[a].status \in {"absent", "pending"} => row[a].attempts < MaxAttempts
    /\ row[a].reported => shown[a].reports > 0
    /\ shown[a].reports <= lost[a].reports + 1
    /\ (/\ ~row[a].reported /\ row[a].status # "gone"
        /\ ~(work.pc = "mark" /\ work.alert = a))
       => shown[a].reports <= lost[a].reports
    /\ shown[a].originals > 0 => shown[a].reports > 0
    /\ row[a].forward \in {"forwarded", "copied"} => shown[a].originals > 0
    /\ row[a].status = "delivered" =>
            shown[a].reports + shown[a].bot > 0 /\ row[a].forward # "pending"
    /\ Configured /\ Kind[a] \in ListingKinds => row[a].forward # "skipped"

\* What the step of the delivery says of the alert in hand.
StepFacts(a) ==
    /\ row[a].status = "pending" /\ a \notin work.todo
    /\ Kind[a] \in ListingKinds => work.carries
    /\ work.pc \in {"report", "mark"} => ~row[a].reported
    /\ work.pc \in {"recover", "skip", "forward", "forwarded", "copy", "copied", "abandon", "close"}
            => row[a].reported
    /\ work.pc = "mark" => shown[a].reports > 0
    /\ work.pc \in {"forwarded", "copied"} => shown[a].originals > 0
    /\ work.pc = "fellback" => shown[a].bot > 0
    /\ work.pc = "success" =>
            shown[a].reports + shown[a].bot > 0 /\ row[a].forward # "pending"
    /\ work.pc = "recover" =>
            /\ work.next \in {"success", "skip", "forward"}
            /\ work.next = "success" => row[a].forward # "pending"
            /\ work.next = "skip" => ~work.carries
    /\ work.pc = "skip" => ~work.carries

TodoPending == \A a \in work.todo : row[a].status = "pending"
HandIsAlert == work.pc \notin {"idle", "take"} => work.alert \in Alerts
AllRowFacts == \A a \in Alerts : RowFacts(a)
AllStepFacts == \A a \in Alerts : InHand(a) => StepFacts(a)

DeliveryInv ==
    /\ HousingTypeOK
    /\ TodoPending
    /\ HandIsAlert
    /\ AllRowFacts
    /\ AllStepFacts

-----------------------------------------------------------------------------
(***************************************************************************)
(* Types of what the steps build                                           *)
(***************************************************************************)

LEMMA RowFields ==
    ASSUME NEW r \in Rows, NEW s \in Statuses, NEW f \in Forwards, NEW w \in BOOLEAN,
           NEW n \in 0..MaxAttempts, NEW k \in Nat
    PROVE  /\ [r EXCEPT !.status = s, !.waits = w] \in Rows
           /\ [r EXCEPT !.status = s, !.waits = w, !.attempts = n] \in Rows
           /\ [r EXCEPT !.status = s, !.waits = w, !.forward = f, !.attempts = n] \in Rows
           /\ [r EXCEPT !.reported = TRUE] \in Rows
           /\ [r EXCEPT !.forward = f] \in Rows
           /\ [r EXCEPT !.forward = f, !.botReports = k] \in Rows
BY DEF Rows

LEMMA IdleType == Idle \in Cycles
<1>1. "idle" \in Steps
  BY DEF Steps
<1> QED
  BY <1>1 DEF Idle, Cycles, NoAlert

LEMMA CycleFields ==
    ASSUME NEW c \in Cycles, NEW pc \in Steps, NEW next \in Steps
    PROVE  /\ [c EXCEPT !.pc = pc] \in Cycles
           /\ [c EXCEPT !.pc = pc, !.next = next] \in Cycles
           /\ [Idle EXCEPT !.pc = pc, !.todo = c.todo] \in Cycles
<1>1. /\ [c EXCEPT !.pc = pc] \in Cycles
      /\ [c EXCEPT !.pc = pc, !.next = next] \in Cycles
  BY DEF Cycles
<1>2. [Idle EXCEPT !.pc = pc, !.todo = c.todo] \in Cycles
  BY IdleType DEF Cycles
<1> QED
  BY <1>1, <1>2

\* One more of a kind of message about an alert, and nothing else.
OneMore(f, a, what) == [f EXCEPT ![a][what] = @ + 1]

LEMMA CountOneMore ==
    ASSUME NEW f \in [Alerts -> Counts], NEW a \in Alerts,
           NEW what \in {"reports", "originals", "bot"},
           NEW g, g = OneMore(f, a, what)
    PROVE  /\ g \in [Alerts -> Counts]
           /\ \A b \in Alerts \ {a} : g[b] = f[b]
           /\ g[a].reports = IF what = "reports" THEN f[a].reports + 1 ELSE f[a].reports
           /\ g[a].originals = IF what = "originals" THEN f[a].originals + 1 ELSE f[a].originals
           /\ g[a].bot = IF what = "bot" THEN f[a].bot + 1 ELSE f[a].bot
<1>1. f[a] \in Counts
  OBVIOUS
<1>2. CASE what = "reports"
  <2> DEFINE c == [f[a] EXCEPT !.reports = f[a].reports + 1]
  <2>1. g = [f EXCEPT ![a] = c]
    BY <1>2 DEF OneMore
  <2>2. c \in Counts
    BY <1>1 DEF Counts
  <2>3. g \in [Alerts -> Counts] /\ (\A b \in Alerts \ {a} : g[b] = f[b]) /\ g[a] = c
    BY <2>1, <2>2
  <2> QED
    BY <1>1, <1>2, <2>3 DEF Counts
<1>3. CASE what = "originals"
  <2> DEFINE c == [f[a] EXCEPT !.originals = f[a].originals + 1]
  <2>1. g = [f EXCEPT ![a] = c]
    BY <1>3 DEF OneMore
  <2>2. c \in Counts
    BY <1>1 DEF Counts
  <2>3. g \in [Alerts -> Counts] /\ (\A b \in Alerts \ {a} : g[b] = f[b]) /\ g[a] = c
    BY <2>1, <2>2
  <2> QED
    BY <1>1, <1>3, <2>3 DEF Counts
<1>4. CASE what = "bot"
  <2> DEFINE c == [f[a] EXCEPT !.bot = f[a].bot + 1]
  <2>1. g = [f EXCEPT ![a] = c]
    BY <1>4 DEF OneMore
  <2>2. c \in Counts
    BY <1>1 DEF Counts
  <2>3. g \in [Alerts -> Counts] /\ (\A b \in Alerts \ {a} : g[b] = f[b]) /\ g[a] = c
    BY <2>1, <2>2
  <2> QED
    BY <1>1, <1>4, <2>3 DEF Counts
<1> QED
  BY <1>2, <1>3, <1>4

-----------------------------------------------------------------------------
(***************************************************************************)
(* Every step keeps the invariant                                          *)
(***************************************************************************)

Working == work.pc \notin {"idle", "take"}

LEMMA HandFacts ==
    ASSUME DeliveryInv, Working
    PROVE  /\ work.alert \in Alerts /\ work \in Cycles
           /\ RowFacts(work.alert) /\ StepFacts(work.alert)
           /\ row[work.alert] \in Rows
           /\ shown[work.alert] \in Counts /\ lost[work.alert] \in Counts
BY DEF DeliveryInv, HousingTypeOK, HandIsAlert, AllRowFacts, AllStepFacts, InHand, Working

\* A step that touches only the alert in hand keeps what is known of the others.
LEMMA HandStep ==
    ASSUME DeliveryInv, HousingTypeOK', NEW a \in Alerts, Working, work.alert = a,
           \A b \in Alerts \ {a} :
                row'[b] = row[b] /\ shown'[b] = shown[b] /\ lost'[b] = lost[b],
           work'.todo = work.todo \/ work'.todo = {},
           work'.alert = a \/ ~Working',
           RowFacts(a)', Working' => StepFacts(a)'
    PROVE  DeliveryInv'
<1>1. StepFacts(a)
  BY HandFacts
<1>2. TodoPending'
  <2>1. a \notin work.todo /\ work.todo \subseteq Alerts
    BY <1>1 DEF StepFacts, DeliveryInv, HousingTypeOK, Cycles
  <2> QED
    BY <2>1 DEF TodoPending, DeliveryInv
<1>3. HandIsAlert'
  BY DEF HandIsAlert, Working
<1>4. AllRowFacts'
  <2> SUFFICES ASSUME NEW b \in Alerts PROVE RowFacts(b)'
    BY DEF AllRowFacts
  <2>1. CASE b = a
    BY <2>1
  <2>2. CASE b # a
    <3>1. RowFacts(b) /\ row'[b] = row[b] /\ shown'[b] = shown[b] /\ lost'[b] = lost[b]
      BY <2>2 DEF DeliveryInv, AllRowFacts
    <3>2. ~(work.pc = "mark" /\ work.alert = b) /\ ~(work'.pc = "mark" /\ work'.alert = b)
      BY <2>2 DEF Working
    <3> QED
      BY <3>1, <3>2 DEF RowFacts
  <2> QED
    BY <2>1, <2>2
<1>5. AllStepFacts'
  BY DEF AllStepFacts, InHand, Working
<1> QED
  BY <1>2, <1>3, <1>4, <1>5 DEF DeliveryInv

\* The delivery goes on at pc and nothing is written or sent.
LEMMA Moves ==
    ASSUME DeliveryInv, Working, work.pc # "mark", NEW pc \in Steps, Goto(pc),
           UNCHANGED <<row, shown, lost>>, faults' \in 0..MaxFaults,
           \/ pc \in {"bot", "retry", "later", "final"}
           \/ pc \in {"copy", "abandon", "close"} /\ row[work.alert].reported
    PROVE  DeliveryInv'
<1> DEFINE a == work.alert
<1>1. a \in Alerts /\ work \in Cycles /\ RowFacts(a) /\ StepFacts(a)
  BY HandFacts
<1>2. /\ work' = [work EXCEPT !.pc = pc] /\ work' \in Cycles
      /\ work'.pc = pc /\ work'.alert = a
      /\ work'.todo = work.todo /\ work'.carries = work.carries
  BY <1>1, CycleFields DEF Goto, Cycles
<1>3. HousingTypeOK'
  BY <1>2 DEF DeliveryInv, HousingTypeOK
<1>4. RowFacts(a)'
  BY <1>1, <1>2 DEF RowFacts
<1>5. StepFacts(a)'
  BY <1>1, <1>2 DEF StepFacts
<1> QED
  BY <1>1, <1>2, <1>3, <1>4, <1>5, HandStep

\* Telegram has one more message about the alert in hand.
LEMMA AcceptedKeeps ==
    ASSUME DeliveryInv, Working, NEW what \in {"reports", "originals", "bot"}, NEW pc \in Steps,
           Accepted(what, pc),
           \/ work.pc = "report" /\ what = "reports" /\ pc = "mark"
           \/ work.pc \in {"forward", "copy"} /\ what = "originals" /\ pc \in {"forwarded", "copied"}
           \/ work.pc = "bot" /\ what = "bot" /\ pc = "fellback"
    PROVE  DeliveryInv'
<1> DEFINE a == work.alert
<1>1. /\ a \in Alerts /\ work \in Cycles /\ RowFacts(a) /\ StepFacts(a)
      /\ shown[a] \in Counts /\ lost[a] \in Counts
  BY HandFacts
<1>2. /\ work' = [work EXCEPT !.pc = pc] /\ work' \in Cycles
      /\ work'.pc = pc /\ work'.alert = a
      /\ work'.todo = work.todo /\ work'.carries = work.carries
  BY <1>1, CycleFields DEF Accepted, Goto, Cycles
<1>3. /\ shown' \in [Alerts -> Counts]
      /\ \A b \in Alerts \ {a} : shown'[b] = shown[b]
      /\ shown'[a].reports = IF what = "reports" THEN shown[a].reports + 1 ELSE shown[a].reports
      /\ shown'[a].originals = IF what = "originals" THEN shown[a].originals + 1 ELSE shown[a].originals
      /\ shown'[a].bot = IF what = "bot" THEN shown[a].bot + 1 ELSE shown[a].bot
  <2>1. shown' = OneMore(shown, a, what)
    BY DEF Accepted, OneMore
  <2>2. shown \in [Alerts -> Counts] /\ a \in Alerts
    BY <1>1 DEF DeliveryInv, HousingTypeOK
  <2> HIDE DEF a
  <2> QED
    BY <2>1, <2>2, CountOneMore
<1>4. row' = row /\ lost' = lost /\ faults' = faults
  BY DEF Accepted
<1>5. HousingTypeOK'
  BY <1>2, <1>3, <1>4 DEF DeliveryInv, HousingTypeOK
<1>6. shown[a].reports \in Nat /\ shown[a].originals \in Nat /\ shown[a].bot \in Nat
      /\ lost[a].reports \in Nat
  BY <1>1 DEF Counts
<1>7. RowFacts(a)'
  BY <1>1, <1>2, <1>3, <1>4, <1>6 DEF RowFacts, StepFacts
<1>8. StepFacts(a)'
  BY <1>1, <1>2, <1>3, <1>4, <1>6 DEF RowFacts, StepFacts
<1> QED
  BY <1>1, <1>2, <1>3, <1>4, <1>5, <1>7, <1>8, HandStep

\* Telegram has it, and the delivery does not know.
LEMMA AnswerLostKeeps ==
    ASSUME DeliveryInv, Working, NEW what \in {"reports", "originals", "bot"},
           AnswerLost(what),
           work.pc # "mark",
           what = "originals" => row[work.alert].reported,
           what = "reports" => ~row[work.alert].reported
    PROVE  DeliveryInv'
<1> DEFINE a == work.alert
<1>1. /\ a \in Alerts /\ work \in Cycles /\ RowFacts(a) /\ StepFacts(a)
      /\ shown[a] \in Counts /\ lost[a] \in Counts
  BY HandFacts
<1>2. /\ work' = [work EXCEPT !.pc = "retry"] /\ work' \in Cycles
      /\ work'.pc = "retry" /\ work'.alert = a
      /\ work'.todo = work.todo /\ work'.carries = work.carries
  <2>1. "retry" \in Steps
    BY DEF Steps
  <2> QED
    BY <1>1, <2>1, CycleFields DEF AnswerLost, Goto, Cycles
<1>3. /\ shown' \in [Alerts -> Counts]
      /\ \A b \in Alerts \ {a} : shown'[b] = shown[b]
      /\ shown'[a].reports = IF what = "reports" THEN shown[a].reports + 1 ELSE shown[a].reports
      /\ shown'[a].originals = IF what = "originals" THEN shown[a].originals + 1 ELSE shown[a].originals
      /\ shown'[a].bot = IF what = "bot" THEN shown[a].bot + 1 ELSE shown[a].bot
  <2>1. shown' = OneMore(shown, a, what)
    BY DEF AnswerLost, OneMore
  <2>2. shown \in [Alerts -> Counts] /\ a \in Alerts
    BY <1>1 DEF DeliveryInv, HousingTypeOK
  <2> HIDE DEF a
  <2> QED
    BY <2>1, <2>2, CountOneMore
<1>4. /\ lost' \in [Alerts -> Counts]
      /\ \A b \in Alerts \ {a} : lost'[b] = lost[b]
      /\ lost'[a].reports = IF what = "reports" THEN lost[a].reports + 1 ELSE lost[a].reports
  <2>1. lost' = OneMore(lost, a, what)
    BY DEF AnswerLost, OneMore
  <2>2. lost \in [Alerts -> Counts] /\ a \in Alerts
    BY <1>1 DEF DeliveryInv, HousingTypeOK
  <2> HIDE DEF a
  <2> QED
    BY <2>1, <2>2, CountOneMore
<1>5. row' = row /\ faults' \in 0..MaxFaults
  BY LimitsAssumption DEF AnswerLost, DeliveryInv, HousingTypeOK
<1>6. HousingTypeOK'
  BY <1>2, <1>3, <1>4, <1>5 DEF DeliveryInv, HousingTypeOK
<1>7. shown[a].reports \in Nat /\ shown[a].originals \in Nat /\ shown[a].bot \in Nat
      /\ lost[a].reports \in Nat
  BY <1>1 DEF Counts
<1>8. RowFacts(a)'
  BY <1>1, <1>2, <1>3, <1>4, <1>5, <1>7 DEF RowFacts
<1>9. StepFacts(a)'
  BY <1>1, <1>2, <1>3, <1>4, <1>5, <1>7 DEF StepFacts
<1> QED
  BY <1>1, <1>2, <1>3, <1>4, <1>5, <1>6, <1>8, <1>9, HandStep

\* The row of the alert in hand is written, and the delivery goes on at pc.
LEMMA HandWrites ==
    ASSUME DeliveryInv, Working, NEW r \in Rows, NEW pc \in Steps, NEW next \in Steps,
           row' = [row EXCEPT ![work.alert] = r],
           work' = [work EXCEPT !.pc = pc, !.next = next],
           UNCHANGED <<shown, lost, faults>>
    PROVE  /\ HousingTypeOK'
           /\ row'[work.alert] = r
           /\ \A b \in Alerts \ {work.alert} : row'[b] = row[b]
           /\ work'.pc = pc /\ work'.next = next /\ work'.alert = work.alert
           /\ work'.todo = work.todo /\ work'.carries = work.carries
<1>1. work.alert \in Alerts /\ work \in Cycles
  BY HandFacts
<1>2. row \in [Alerts -> Rows]
  BY DEF DeliveryInv, HousingTypeOK
<1>3. row' \in [Alerts -> Rows] /\ work' \in Cycles
  BY <1>1, <1>2, CycleFields
<1>4. work'.pc = pc /\ work'.next = next /\ work'.alert = work.alert
      /\ work'.todo = work.todo /\ work'.carries = work.carries
  BY <1>1 DEF Cycles
<1> QED
  BY <1>1, <1>2, <1>3, <1>4 DEF DeliveryInv, HousingTypeOK

LEMMA MarkReportSentKeeps ==
    ASSUME DeliveryInv, MarkReportSent
    PROVE  DeliveryInv'
<1> DEFINE a == work.alert
           r == [row[a] EXCEPT !.reported = TRUE]
           next == AfterReport(a, work.carries)
<1>1. Working
  BY DEF MarkReportSent, Working
<1>2. /\ a \in Alerts /\ work \in Cycles /\ RowFacts(a) /\ StepFacts(a) /\ row[a] \in Rows
  BY <1>1, HandFacts
<1>3. r \in Rows /\ r.reported /\ r.status = row[a].status /\ r.forward = row[a].forward
      /\ r.attempts = row[a].attempts
  BY <1>2 DEF Rows
<1>4. /\ next \in {"success", "forward", "skip"} /\ next \in Steps /\ "recover" \in Steps
      /\ next = "success" => row[a].forward # "pending"
      /\ next = "skip" => ~work.carries
  <2>1. work.carries \in BOOLEAN
    BY <1>2 DEF Cycles
  <2> QED
    BY <2>1 DEF AfterReport, Steps
<1>5. row' = [row EXCEPT ![a] = r] /\ work' = [work EXCEPT !.pc = "recover", !.next = next]
      /\ UNCHANGED <<shown, lost, faults>>
  BY DEF MarkReportSent
<1> HIDE DEF r, next
<1>6. /\ HousingTypeOK' /\ row'[a] = r /\ \A b \in Alerts \ {a} : row'[b] = row[b]
      /\ work'.pc = "recover" /\ work'.next = next /\ work'.alert = a
      /\ work'.todo = work.todo /\ work'.carries = work.carries
  BY <1>1, <1>3, <1>4, <1>5, HandWrites
<1>7. RowFacts(a)'
  BY <1>2, <1>3, <1>5, <1>6 DEF RowFacts, StepFacts, MarkReportSent
<1>8. StepFacts(a)'
  BY <1>2, <1>3, <1>4, <1>5, <1>6 DEF StepFacts
<1> QED
  BY <1>1, <1>2, <1>5, <1>6, <1>7, <1>8, HandStep

LEMMA GotoIs ==
    ASSUME work \in Cycles, NEW pc, Goto(pc)
    PROVE  work' = [work EXCEPT !.pc = pc, !.next = work.next] /\ work.next \in Steps
<1> DEFINE c == [work EXCEPT !.pc = pc]
<1>1. work.next \in Steps /\ c.next = work.next
  BY DEF Cycles
<1>2. c = [c EXCEPT !.next = work.next]
  BY <1>1 DEF Cycles
<1> QED
  BY <1>1, <1>2 DEF Goto

\* What becomes of the original is recorded.
LEMMA ForwardRecorded ==
    ASSUME DeliveryInv, Working, work.pc # "mark",
           NEW f \in Forwards \ {"pending"}, NEW k \in Nat, NEW pc \in Steps, NEW next \in Steps,
           row' = [row EXCEPT ![work.alert] =
                        [row[work.alert] EXCEPT !.forward = f, !.botReports = k]],
           work' = [work EXCEPT !.pc = pc, !.next = next],
           UNCHANGED <<shown, lost, faults>>,
           \/ pc = "success"
           \/ pc = "recover" /\ next = "success" /\ row[work.alert].reported,
           shown[work.alert].reports + shown[work.alert].bot > 0,
           f \in {"forwarded", "copied"} => shown[work.alert].originals > 0,
           f = "skipped" => ~Configured \/ Kind[work.alert] \notin ListingKinds
    PROVE  DeliveryInv'
<1> DEFINE a == work.alert
           r == [row[a] EXCEPT !.forward = f, !.botReports = k]
<1>1. a \in Alerts /\ RowFacts(a) /\ StepFacts(a) /\ row[a] \in Rows
  BY HandFacts
<1>2. r \in Rows
  BY <1>1 DEF Rows
<1>3. r.forward = f /\ r.status = row[a].status /\ r.attempts = row[a].attempts
      /\ r.reported = row[a].reported
  BY <1>1 DEF Rows
<1> HIDE DEF r
<1>4. /\ HousingTypeOK' /\ row'[a] = r /\ \A b \in Alerts \ {a} : row'[b] = row[b]
      /\ work'.pc = pc /\ work'.next = next /\ work'.alert = a
      /\ work'.todo = work.todo /\ work'.carries = work.carries
  <2>1. row' = [row EXCEPT ![a] = r]
    BY DEF r
  <2> QED
    BY <1>2, <2>1, HandWrites
<1>5. RowFacts(a)'
  BY <1>1, <1>3, <1>4 DEF RowFacts
<1>6. StepFacts(a)'
  BY <1>1, <1>3, <1>4 DEF StepFacts
<1> QED
  BY <1>1, <1>4, <1>5, <1>6, HandStep

LEMMA SkipOriginalKeeps ==
    ASSUME DeliveryInv, SkipOriginal
    PROVE  DeliveryInv'
<1> DEFINE a == work.alert
<1>1. Working
  BY DEF SkipOriginal, Working
<1>2. /\ a \in Alerts /\ work \in Cycles /\ RowFacts(a) /\ StepFacts(a) /\ row[a] \in Rows
      /\ shown[a] \in Counts
  BY <1>1, HandFacts
<1>3. row[a].reported /\ ~work.carries /\ Kind[a] \notin ListingKinds
  BY <1>2 DEF StepFacts, SkipOriginal
<1>4. shown[a].reports + shown[a].bot > 0
  BY <1>2, <1>3 DEF RowFacts, Counts
<1>5. row' = [row EXCEPT ![a] = [row[a] EXCEPT !.forward = "skipped",
                                                !.botReports = row[a].botReports]]
  BY <1>2 DEF SkipOriginal, Rows
<1>6. row[a].botReports \in Nat /\ "skipped" \in Forwards \ {"pending"} /\ "success" \in Steps
  BY <1>2 DEF Rows, Forwards, Steps
<1>7. work' = [work EXCEPT !.pc = "success", !.next = work.next] /\ work.next \in Steps
      /\ UNCHANGED <<shown, lost, faults>>
  BY <1>2, GotoIs DEF SkipOriginal
<1> QED
  BY <1>1, <1>3, <1>4, <1>5, <1>6, <1>7, ForwardRecorded DEF SkipOriginal

LEMMA AbandonOriginalKeeps ==
    ASSUME DeliveryInv, AbandonOriginal
    PROVE  DeliveryInv'
<1> DEFINE a == work.alert
<1>1. Working /\ work.pc # "mark"
  BY DEF AbandonOriginal, Working
<1>2. /\ a \in Alerts /\ work \in Cycles /\ RowFacts(a) /\ StepFacts(a) /\ row[a] \in Rows
      /\ shown[a] \in Counts
  BY <1>1, HandFacts
<1>3. row[a].reported
  BY <1>2 DEF StepFacts, AbandonOriginal
<1>4. shown[a].reports + shown[a].bot > 0
  BY <1>2, <1>3 DEF RowFacts, Counts
<1>5. row' = [row EXCEPT ![a] = [row[a] EXCEPT !.forward = "unavailable",
                                                !.botReports = row[a].botReports]]
  BY <1>2 DEF AbandonOriginal, Rows
<1>6. row[a].botReports \in Nat /\ "unavailable" \in Forwards \ {"pending"} /\ "success" \in Steps
  BY <1>2 DEF Rows, Forwards, Steps
<1>7. work' = [work EXCEPT !.pc = "success", !.next = work.next] /\ work.next \in Steps
      /\ UNCHANGED <<shown, lost, faults>>
  BY <1>2, GotoIs DEF AbandonOriginal
<1> QED
  BY <1>1, <1>4, <1>5, <1>6, <1>7, ForwardRecorded

LEMMA MarkOriginalSentKeeps ==
    ASSUME DeliveryInv, MarkOriginalSent
    PROVE  DeliveryInv'
<1> DEFINE a == work.alert
<1>1. Working /\ work.pc # "mark" /\ work.pc \in {"forwarded", "copied"}
  BY DEF MarkOriginalSent, Working
<1>2. /\ a \in Alerts /\ work \in Cycles /\ RowFacts(a) /\ StepFacts(a) /\ row[a] \in Rows
      /\ shown[a] \in Counts
  BY <1>1, HandFacts
<1>3. row[a].reported /\ shown[a].originals > 0
  BY <1>1, <1>2 DEF StepFacts
<1>4. shown[a].reports + shown[a].bot > 0
  BY <1>2, <1>3 DEF RowFacts, Counts
<1>5. row' = [row EXCEPT ![a] = [row[a] EXCEPT !.forward = work.pc,
                                                !.botReports = row[a].botReports]]
  BY <1>2 DEF MarkOriginalSent, Rows
<1>6. /\ row[a].botReports \in Nat /\ work.pc \in Forwards \ {"pending"}
      /\ "success" \in Steps /\ "recover" \in Steps
  BY <1>1, <1>2 DEF Rows, Forwards, Steps
<1>7. work' = [work EXCEPT !.pc = "recover", !.next = "success"]
      /\ UNCHANGED <<shown, lost, faults>>
  BY DEF MarkOriginalSent
<1> QED
  BY <1>1, <1>3, <1>4, <1>5, <1>6, <1>7, ForwardRecorded

LEMMA MarkBotReportKeeps ==
    ASSUME DeliveryInv, MarkBotReport
    PROVE  DeliveryInv'
<1> DEFINE a == work.alert
           f == IF Configured THEN "bot_fallback" ELSE "skipped"
           k == IF Configured THEN row[a].botReports + 1 ELSE row[a].botReports
<1>1. Working /\ work.pc # "mark"
  BY DEF MarkBotReport, Working
<1>2. /\ a \in Alerts /\ work \in Cycles /\ RowFacts(a) /\ StepFacts(a) /\ row[a] \in Rows
      /\ shown[a] \in Counts
  BY <1>1, HandFacts
<1>3. shown[a].reports + shown[a].bot > 0
  BY <1>2 DEF StepFacts, Counts, MarkBotReport
<1>4. row[a].botReports \in Nat
  BY <1>2 DEF Rows
<1>5. k \in Nat /\ f \in Forwards \ {"pending"} /\ "success" \in Steps
      /\ f \notin {"forwarded", "copied"} /\ (f = "skipped" => ~Configured)
  BY <1>4 DEF Forwards, Steps
<1>6. row' = [row EXCEPT ![a] = [row[a] EXCEPT !.forward = f, !.botReports = k]]
  BY DEF MarkBotReport
<1>7. work' = [work EXCEPT !.pc = "success", !.next = work.next] /\ work.next \in Steps
      /\ UNCHANGED <<shown, lost, faults>>
  BY <1>2, GotoIs DEF MarkBotReport
<1> HIDE DEF f, k
<1> QED
  BY <1>1, <1>3, <1>5, <1>6, <1>7, ForwardRecorded

\* How a delivery ends: the row is settled and the next alert of the batch taken.
LEMMA SettleKeeps ==
    ASSUME DeliveryInv, Working, work.pc # "mark", NEW counted \in BOOLEAN,
           NEW status \in {"pending", "delivered", "failed"},
           Settle(status, counted),
           status = "pending" /\ counted => row[work.alert].attempts + 1 < MaxAttempts,
           status = "delivered" => work.pc = "success"
    PROVE  DeliveryInv'
<1>0. PICK a \in Alerts : a = work.alert
  BY HandFacts
<1> DEFINE n == IF counted THEN row[a].attempts + 1 ELSE row[a].attempts
           r == [row[a] EXCEPT !.status = status, !.waits = (status = "pending"), !.attempts = n]
<1>1. /\ work \in Cycles /\ RowFacts(a) /\ StepFacts(a) /\ row[a] \in Rows
      /\ status = "pending" /\ counted => row[a].attempts + 1 < MaxAttempts
  BY <1>0, HandFacts
<1>2. row[a].attempts \in Nat /\ row[a].attempts < MaxAttempts /\ MaxAttempts \in Nat
  BY <1>1, LimitsAssumption DEF Rows, RowFacts, StepFacts
<1>3. n \in 0..MaxAttempts /\ (status = "pending" => n < MaxAttempts)
  BY <1>1, <1>2
<1>4. status \in Statuses
  BY DEF Statuses
<1> HIDE DEF n
<1>5. r \in Rows /\ r.status = status /\ r.attempts = n /\ r.forward = row[a].forward
      /\ r.reported = row[a].reported
  BY <1>1, <1>3, <1>4 DEF Rows
<1>6. row' = [row EXCEPT ![a] = r]
  BY <1>0 DEF Settle, n
<1> HIDE DEF r
<1>7. /\ row' \in [Alerts -> Rows] /\ row'[a] = r /\ \A b \in Alerts \ {a} : row'[b] = row[b]
  BY <1>1, <1>5, <1>6 DEF DeliveryInv, HousingTypeOK
<1>8. /\ work' \in Cycles /\ work'.todo = work.todo /\ work'.pc = "take"
      /\ UNCHANGED <<shown, lost, faults>>
  <2>1. "take" \in Steps
    BY DEF Steps
  <2>2. work' = [Idle EXCEPT !.pc = "take", !.todo = work.todo] /\ UNCHANGED <<shown, lost, faults>>
    BY DEF Settle
  <2>3. work' \in Cycles
    BY <1>1, <2>1, <2>2, CycleFields
  <2> QED
    BY <2>2, <2>3 DEF Idle
<1>9. HousingTypeOK'
  BY <1>7, <1>8 DEF DeliveryInv, HousingTypeOK
<1>10. RowFacts(a)'
  <2>1. /\ row'[a].status = status /\ row'[a].attempts = n
        /\ row'[a].forward = row[a].forward /\ row'[a].reported = row[a].reported
        /\ shown' = shown /\ lost' = lost /\ work'.pc = "take"
    BY <1>5, <1>7, <1>8
  <2>2. status = "delivered" =>
            shown[a].reports + shown[a].bot > 0 /\ row[a].forward # "pending"
    BY <1>1 DEF StepFacts
  <2>3. row[a].status = "pending"
    BY <1>1 DEF StepFacts
  <2> QED
    BY <1>1, <1>3, <2>1, <2>2, <2>3 DEF RowFacts
<1>11. ~Working'
  BY <1>8 DEF Working
<1> QED
  <2>1. \A b \in Alerts \ {a} :
            row'[b] = row[b] /\ shown'[b] = shown[b] /\ lost'[b] = lost[b]
    BY <1>7, <1>8
  <2> QED
    BY <1>0, <1>8, <1>9, <1>10, <1>11, <2>1, HandStep

LEMMA SettlesKeep ==
    ASSUME DeliveryInv, SettleDelivered \/ SettleLater \/ SettleRetry \/ SettleFailed
    PROVE  DeliveryInv'
<1>1. Working /\ work.pc # "mark"
  BY DEF SettleDelivered, SettleLater, SettleRetry, SettleFailed, Working
<1>2. row[work.alert].attempts \in Nat /\ MaxAttempts \in Nat
  BY <1>1, HandFacts, LimitsAssumption DEF Rows
<1>3. CASE SettleDelivered
  <2>1. work.pc = "success" /\ Settle("delivered", TRUE) /\ TRUE \in BOOLEAN
        /\ "delivered" \in {"pending", "delivered", "failed"} /\ "delivered" # "pending"
    BY <1>3 DEF SettleDelivered
  <2> QED
    BY <1>1, <2>1, SettleKeeps
<1>4. CASE SettleLater
  <2>1. Settle("pending", FALSE) /\ FALSE \in BOOLEAN
        /\ "pending" \in {"pending", "delivered", "failed"} /\ "pending" # "delivered"
    BY <1>4 DEF SettleLater
  <2> QED
    BY <1>1, <2>1, SettleKeeps
<1>5. CASE SettleRetry
  <2>1. row[work.alert].attempts + 1 < MaxAttempts
    BY <1>2, <1>5 DEF SettleRetry, GivesUp
  <2>2. Settle("pending", TRUE) /\ TRUE \in BOOLEAN
        /\ "pending" \in {"pending", "delivered", "failed"} /\ "pending" # "delivered"
    BY <1>5 DEF SettleRetry
  <2> QED
    BY <1>1, <2>1, <2>2, SettleKeeps
<1>6. CASE SettleFailed
  <2>1. Settle("failed", TRUE) /\ TRUE \in BOOLEAN
        /\ "failed" \in {"pending", "delivered", "failed"} /\ "failed" \notin {"pending", "delivered"}
    BY <1>6 DEF SettleFailed
  <2> QED
    BY <1>1, <2>1, SettleKeeps
<1> QED
  BY <1>3, <1>4, <1>5, <1>6

LEMMA SettleWithoutOriginalKeeps ==
    ASSUME DeliveryInv, SettleWithoutOriginal
    PROVE  DeliveryInv'
<1>1. Working /\ work.pc # "mark" /\ "close" \in Steps
  BY DEF SettleWithoutOriginal, Working, Steps
<1>2. faults \in 0..MaxFaults
  BY DEF DeliveryInv, HousingTypeOK
<1> QED
  BY <1>1, <1>2, Moves DEF SettleWithoutOriginal

\* What went out and was not recorded is counted as lost.
LEMMA LoseRecordFacts ==
    ASSUME DeliveryInv, LoseRecord, Working \/ work.pc = "take"
    PROVE  /\ faults' \in 0..MaxFaults
           /\ lost' \in [Alerts -> Counts]
           /\ work.pc = "take" => lost' = lost
           /\ Working => \A b \in Alerts \ {work.alert} : lost'[b] = lost[b]
           /\ Working => lost'[work.alert].reports =
                            IF work.pc = "mark" THEN lost[work.alert].reports + 1
                            ELSE lost[work.alert].reports
<1>1. faults' \in 0..MaxFaults /\ lost \in [Alerts -> Counts]
  BY LimitsAssumption DEF LoseRecord, DeliveryInv, HousingTypeOK
<1>2. Unrecorded \in {"reports", "originals", "bot", "nothing"}
      /\ (Unrecorded = "reports" <=> work.pc = "mark")
      /\ (work.pc = "take" => Unrecorded = "nothing")
  BY DEF Unrecorded
<1>3. CASE Unrecorded = "nothing"
  BY <1>1, <1>2, <1>3 DEF LoseRecord
<1>4. CASE Unrecorded # "nothing"
  <2> DEFINE a == work.alert
             what == Unrecorded
  <2>1. Working
    BY <1>2, <1>4
  <2>2. a \in Alerts /\ what \in {"reports", "originals", "bot"}
    BY <1>2, <1>4, <2>1, HandFacts
  <2>3. lost' = OneMore(lost, a, what)
    BY <1>4 DEF LoseRecord, OneMore
  <2> HIDE DEF a, what
  <2>4. /\ lost' \in [Alerts -> Counts]
        /\ \A b \in Alerts \ {a} : lost'[b] = lost[b]
        /\ lost'[a].reports = IF what = "reports" THEN lost[a].reports + 1 ELSE lost[a].reports
    BY <1>1, <2>2, <2>3, CountOneMore
  <2> QED
    BY <1>1, <1>2, <1>4, <2>4 DEF a, what
<1> QED
  BY <1>3, <1>4

LEMMA CrashKeeps ==
    ASSUME DeliveryInv, Crash
    PROVE  DeliveryInv'
<1>1. work.pc # "idle" /\ LoseRecord /\ work' = Idle /\ row' = row /\ shown' = shown
  BY DEF Crash
<1>2. Working \/ work.pc = "take"
  BY <1>1 DEF Working
<1>3. ~Working' /\ work'.todo = {} /\ work' \in Cycles
  <2>1. work'.pc = "idle" /\ work'.todo = {}
    BY <1>1 DEF Idle
  <2>2. work' \in Cycles
    BY <1>1, IdleType
  <2> QED
    BY <2>1, <2>2 DEF Working
<1>4. HousingTypeOK'
  BY <1>1, <1>2, <1>3, LoseRecordFacts DEF DeliveryInv, HousingTypeOK
<1>5. CASE work.pc = "take"
  <2>1. lost' = lost
    BY <1>1, <1>5, LoseRecordFacts
  <2>2. work.pc # "mark" /\ work'.pc # "mark"
    BY <1>1, <1>5 DEF Idle
  <2>3. AllRowFacts'
    BY <1>1, <2>1, <2>2 DEF DeliveryInv, AllRowFacts, RowFacts
  <2>4. TodoPending' /\ HandIsAlert' /\ AllStepFacts'
    BY <1>3 DEF TodoPending, HandIsAlert, AllStepFacts, InHand, Working
  <2> QED
    BY <1>4, <2>3, <2>4 DEF DeliveryInv
<1>6. CASE Working
  <2>1. PICK a \in Alerts : a = work.alert
    BY <1>6, HandFacts
  <2>2. RowFacts(a) /\ StepFacts(a) /\ lost[a] \in Counts /\ shown[a] \in Counts
    BY <1>6, <2>1, HandFacts
  <2>3. lost[a].reports \in Nat /\ shown[a].reports \in Nat
    BY <2>2 DEF Counts
  <2>4. /\ \A b \in Alerts \ {a} :
                row'[b] = row[b] /\ shown'[b] = shown[b] /\ lost'[b] = lost[b]
        /\ lost'[a].reports = IF work.pc = "mark" THEN lost[a].reports + 1 ELSE lost[a].reports
    BY <1>1, <1>2, <1>6, <2>1, LoseRecordFacts
  <2>5. RowFacts(a)'
    <3>1. row'[a] = row[a] /\ shown'[a] = shown[a] /\ work'.pc # "mark"
      BY <1>1 DEF Idle
    <3> QED
      BY <2>1, <2>2, <2>3, <2>4, <3>1 DEF RowFacts
  <2> QED
    BY <1>3, <1>4, <1>6, <2>1, <2>4, <2>5, HandStep
<1> QED
  BY <1>2, <1>5, <1>6

LEMMA WriteFailsKeeps ==
    ASSUME DeliveryInv, WriteFails
    PROVE  DeliveryInv'
<1>1. Working /\ LoseRecord /\ Goto("retry") /\ row' = row /\ shown' = shown
  BY DEF WriteFails, Working
<1>2. PICK a \in Alerts : a = work.alert
  BY <1>1, HandFacts
<1>3. RowFacts(a) /\ StepFacts(a) /\ lost[a] \in Counts /\ shown[a] \in Counts /\ work \in Cycles
  BY <1>1, <1>2, HandFacts
<1>4. lost[a].reports \in Nat /\ shown[a].reports \in Nat
  BY <1>3 DEF Counts
<1>5. /\ \A b \in Alerts \ {a} :
              row'[b] = row[b] /\ shown'[b] = shown[b] /\ lost'[b] = lost[b]
      /\ lost'[a].reports = IF work.pc = "mark" THEN lost[a].reports + 1 ELSE lost[a].reports
      /\ faults' \in 0..MaxFaults /\ lost' \in [Alerts -> Counts]
  BY <1>1, <1>2, LoseRecordFacts
<1>6. /\ work' \in Cycles /\ work'.pc = "retry" /\ work'.alert = a
      /\ work'.todo = work.todo /\ work'.carries = work.carries
  <2>1. "retry" \in Steps /\ work' = [work EXCEPT !.pc = "retry"]
    BY <1>1 DEF Steps, Goto
  <2>2. work' \in Cycles
    BY <1>3, <2>1, CycleFields
  <2> QED
    BY <1>2, <1>3, <2>1, <2>2 DEF Cycles
<1>7. HousingTypeOK'
  BY <1>1, <1>5, <1>6 DEF DeliveryInv, HousingTypeOK
<1>8. RowFacts(a)'
  <2>1. row'[a] = row[a] /\ shown'[a] = shown[a] /\ work'.pc # "mark"
    BY <1>1, <1>6
  <2> QED
    BY <1>2, <1>3, <1>4, <1>5, <2>1 DEF RowFacts
<1>9. StepFacts(a)'
  BY <1>1, <1>3, <1>6 DEF StepFacts
<1> QED
  BY <1>1, <1>2, <1>5, <1>6, <1>7, <1>8, <1>9, HandStep

-----------------------------------------------------------------------------
(***************************************************************************)
(* Rows reopened, enqueued, claimed and purged                             *)
(***************************************************************************)

LEMMA ReopenedFacts ==
    ASSUME DeliveryInv, NEW S \in SUBSET Backlog, row' = Reopened(row, S)
    PROVE  /\ row' \in [Alerts -> Rows]
           /\ \A b \in Alerts \ S : row'[b] = row[b]
           /\ \A b \in S :
                /\ row[b].status = "delivered"
                /\ row'[b].status = "pending" /\ row'[b].attempts = 0
                /\ row'[b].forward = "pending" /\ row'[b].reported = row[b].reported
<1>1. row \in [Alerts -> Rows] /\ S \subseteq Alerts
  BY DEF DeliveryInv, HousingTypeOK, Backlog
<1>2. ASSUME NEW b \in Alerts
      PROVE  LET r == [row[b] EXCEPT !.status = "pending", !.waits = TRUE,
                                     !.forward = "pending", !.attempts = 0] IN
             r \in Rows /\ r.status = "pending" /\ r.attempts = 0
             /\ r.forward = "pending" /\ r.reported = row[b].reported
  <2>1. row[b] \in Rows /\ "pending" \in Statuses /\ "pending" \in Forwards /\ 0 \in 0..MaxAttempts
    BY <1>1, LimitsAssumption DEF Statuses, Forwards
  <2> QED
    BY <2>1 DEF Rows
<1>3. \A b \in S : row[b].status = "delivered"
  BY DEF Backlog
<1> QED
  BY <1>1, <1>2, <1>3 DEF Reopened

\* Reopening settled rows disturbs nobody's facts.
LEMMA ReopenKeepsRowFacts ==
    ASSUME DeliveryInv, NEW S \in SUBSET Backlog, row' = Reopened(row, S),
           UNCHANGED <<shown, lost>>,
           work.pc # "mark", work'.pc # "mark"
    PROVE  AllRowFacts'
<1> SUFFICES ASSUME NEW a \in Alerts PROVE RowFacts(a)'
  BY DEF AllRowFacts
<1>1. RowFacts(a)
  BY DEF DeliveryInv, AllRowFacts
<1>2. CASE a \in S
  <2>1. /\ row[a].status = "delivered" /\ row'[a].status = "pending" /\ row'[a].attempts = 0
        /\ row'[a].forward = "pending" /\ row'[a].reported = row[a].reported
    BY <1>2, ReopenedFacts
  <2> QED
    BY <1>1, <2>1, LimitsAssumption DEF RowFacts
<1>3. CASE a \notin S
  <2>1. row'[a] = row[a]
    BY <1>3, ReopenedFacts
  <2> QED
    BY <1>1, <2>1 DEF RowFacts
<1> QED
  BY <1>2, <1>3

LEMMA RecoverBacklogKeeps ==
    ASSUME DeliveryInv, RecoverBacklog
    PROVE  DeliveryInv'
<1>1. Working /\ work.pc = "recover" /\ row' = Reopened(row, Backlog)
      /\ UNCHANGED <<shown, lost, faults>>
  BY DEF RecoverBacklog, Working
<1>2. PICK a \in Alerts : a = work.alert
  BY <1>1, HandFacts
<1>3. RowFacts(a) /\ StepFacts(a) /\ work \in Cycles /\ shown[a] \in Counts
  BY <1>1, <1>2, HandFacts
<1>4. row[a].status = "pending" /\ a \notin Backlog /\ row'[a] = row[a]
  <2>1. row[a].status = "pending"
    BY <1>3 DEF StepFacts
  <2>2. a \notin Backlog
    BY <2>1 DEF Backlog
  <2> QED
    BY <1>1, <2>1, <2>2, ReopenedFacts
<1>5. /\ work' \in Cycles /\ work'.pc = work.next /\ work'.alert = a
      /\ work'.todo = work.todo /\ work'.carries = work.carries
      /\ work.next \in {"success", "skip", "forward"}
  <2>1. work' = [work EXCEPT !.pc = work.next] /\ work.next \in Steps
    BY <1>3 DEF RecoverBacklog, Goto, Cycles
  <2>2. work' \in Cycles
    BY <1>3, <2>1, CycleFields
  <2>3. work.next \in {"success", "skip", "forward"}
    BY <1>1, <1>3 DEF StepFacts
  <2> QED
    BY <1>2, <1>3, <2>1, <2>2, <2>3 DEF Cycles
<1>6. HousingTypeOK'
  BY <1>1, <1>5, ReopenedFacts DEF DeliveryInv, HousingTypeOK
<1>7. AllRowFacts'
  <2>1. work.pc # "mark" /\ work'.pc # "mark"
    BY <1>1, <1>5
  <2> QED
    BY <1>1, <2>1, ReopenKeepsRowFacts
<1>8. TodoPending'
  <2>1. work.todo \subseteq Alerts /\ \A b \in work.todo : row[b].status = "pending"
    BY <1>3 DEF DeliveryInv, TodoPending, Cycles
  <2>2. \A b \in work.todo : b \notin Backlog
    BY <2>1 DEF Backlog
  <2> QED
    BY <1>1, <1>5, <2>1, <2>2, ReopenedFacts DEF TodoPending
<1>9. AllStepFacts' /\ HandIsAlert'
  <2>1. StepFacts(a)'
    <3>1. shown[a].reports \in Nat /\ shown[a].bot \in Nat
      BY <1>3 DEF Counts
    <3>2. shown[a].reports + shown[a].bot > 0
      BY <1>1, <1>3, <3>1 DEF StepFacts, RowFacts
    <3> QED
      BY <1>1, <1>3, <1>4, <1>5, <3>2 DEF StepFacts
  <2> QED
    BY <1>5, <2>1 DEF AllStepFacts, InHand, HandIsAlert
<1> QED
  BY <1>6, <1>7, <1>8, <1>9 DEF DeliveryInv

LEMMA ProbeBacklogKeeps ==
    ASSUME DeliveryInv, NEW a \in Alerts, ProbeBacklog(a)
    PROVE  DeliveryInv'
<1>1. /\ work.pc = "idle" /\ Pending = {} /\ {a} \in SUBSET Backlog
      /\ row' = Reopened(row, {a}) /\ UNCHANGED <<work, shown, lost, faults>>
  BY DEF ProbeBacklog
<1>2. HousingTypeOK'
  BY <1>1, ReopenedFacts DEF DeliveryInv, HousingTypeOK
<1>3. AllRowFacts'
  BY <1>1, ReopenKeepsRowFacts
<1>4. TodoPending'
  <2>1. work.todo = {}
    BY <1>1 DEF DeliveryInv, HousingTypeOK, Cycles, TodoPending, Pending
  <2> QED
    BY <1>1, <2>1 DEF TodoPending
<1>5. HandIsAlert' /\ AllStepFacts'
  BY <1>1 DEF HandIsAlert, AllStepFacts, InHand
<1> QED
  BY <1>2, <1>3, <1>4, <1>5 DEF DeliveryInv

LEMMA EnqueueKeeps ==
    ASSUME DeliveryInv, NEW a \in Alerts, EnqueueAlert(a)
    PROVE  DeliveryInv'
<1> DEFINE r == [row[a] EXCEPT !.status = "pending", !.waits = (Kind[a] = "replay")]
<1>1. row[a].status = "absent" /\ row' = [row EXCEPT ![a] = r]
      /\ UNCHANGED <<work, shown, lost, faults>>
  BY DEF EnqueueAlert
<1>2. row \in [Alerts -> Rows] /\ row[a] \in Rows /\ work \in Cycles /\ "pending" \in Statuses
  BY DEF DeliveryInv, HousingTypeOK, Statuses
<1>3. r \in Rows /\ r.status = "pending" /\ r.attempts = row[a].attempts
      /\ r.forward = row[a].forward /\ r.reported = row[a].reported
  BY <1>2 DEF Rows
<1> HIDE DEF r
<1>4. row' \in [Alerts -> Rows] /\ row'[a] = r /\ \A b \in Alerts \ {a} : row'[b] = row[b]
  BY <1>1, <1>2, <1>3
<1>5. HousingTypeOK'
  BY <1>1, <1>4 DEF DeliveryInv, HousingTypeOK
<1>6. TodoPending' /\ HandIsAlert'
  <2>1. a \notin work.todo /\ work.todo \subseteq Alerts
    BY <1>1, <1>2 DEF DeliveryInv, TodoPending, Cycles
  <2> QED
    BY <1>1, <1>4, <2>1 DEF DeliveryInv, TodoPending, HandIsAlert
<1>7. AllRowFacts'
  <2> SUFFICES ASSUME NEW b \in Alerts PROVE RowFacts(b)'
    BY DEF AllRowFacts
  <2>1. RowFacts(b)
    BY DEF DeliveryInv, AllRowFacts
  <2>2. /\ row'[b].status = IF b = a THEN "pending" ELSE row[b].status
        /\ row'[b].attempts = row[b].attempts /\ row'[b].forward = row[b].forward
        /\ row'[b].reported = row[b].reported
    BY <1>3, <1>4
  <2> QED
    BY <1>1, <2>1, <2>2 DEF RowFacts
<1>8. AllStepFacts'
  <2> SUFFICES ASSUME NEW b \in Alerts, InHand(b)' PROVE StepFacts(b)'
    BY DEF AllStepFacts
  <2>1. StepFacts(b)
    BY <1>1 DEF DeliveryInv, AllStepFacts, InHand
  <2>2. row'[b] = row[b]
    BY <1>1, <1>4, <2>1 DEF StepFacts
  <2> QED
    BY <1>1, <2>1, <2>2 DEF StepFacts
<1> QED
  BY <1>5, <1>6, <1>7, <1>8 DEF DeliveryInv

LEMMA PurgeKeeps ==
    ASSUME DeliveryInv, NEW a \in Alerts, PurgeAlert(a)
    PROVE  DeliveryInv'
<1> DEFINE r == [NoRow EXCEPT !.status = "gone"]
<1>1. row[a].status \in {"delivered", "failed"} /\ row' = [row EXCEPT ![a] = r]
      /\ UNCHANGED <<work, shown, lost, faults>>
  BY DEF PurgeAlert
<1>2. row \in [Alerts -> Rows] /\ row[a] \in Rows /\ work \in Cycles
  BY DEF DeliveryInv, HousingTypeOK
<1>3. r.status = "gone" /\ r.forward = "pending" /\ r.reported = FALSE /\ r \in Rows
  <2>1. "gone" \in Statuses /\ "pending" \in Forwards /\ 0 \in 0..MaxAttempts
    BY LimitsAssumption DEF Statuses, Forwards
  <2> QED
    BY <2>1 DEF NoRow, Rows
<1> HIDE DEF r
<1>4. row' \in [Alerts -> Rows] /\ row'[a] = r /\ \A b \in Alerts \ {a} : row'[b] = row[b]
  BY <1>1, <1>2, <1>3
<1>5. HousingTypeOK'
  BY <1>1, <1>4 DEF DeliveryInv, HousingTypeOK
<1>6. TodoPending' /\ HandIsAlert'
  <2>1. a \notin work.todo /\ work.todo \subseteq Alerts
    BY <1>1, <1>2 DEF DeliveryInv, TodoPending, Cycles
  <2> QED
    BY <1>1, <1>4, <2>1 DEF DeliveryInv, TodoPending, HandIsAlert
<1>7. AllRowFacts'
  <2> SUFFICES ASSUME NEW b \in Alerts PROVE RowFacts(b)'
    BY DEF AllRowFacts
  <2>1. RowFacts(b)
    BY DEF DeliveryInv, AllRowFacts
  <2>2. CASE b = a
    BY <1>1, <1>3, <1>4, <2>1, <2>2 DEF RowFacts
  <2>3. CASE b # a
    <3>1. row'[b] = row[b]
      BY <1>4, <2>3
    <3> QED
      BY <1>1, <2>1, <3>1 DEF RowFacts
  <2> QED
    BY <2>2, <2>3
<1>8. AllStepFacts'
  <2> SUFFICES ASSUME NEW b \in Alerts, InHand(b)' PROVE StepFacts(b)'
    BY DEF AllStepFacts
  <2>1. StepFacts(b)
    BY <1>1 DEF DeliveryInv, AllStepFacts, InHand
  <2>2. row'[b] = row[b]
    BY <1>1, <1>4, <2>1 DEF StepFacts
  <2> QED
    BY <1>1, <2>1, <2>2 DEF StepFacts
<1> QED
  BY <1>5, <1>6, <1>7, <1>8 DEF DeliveryInv

LEMMA ClaimKeeps ==
    ASSUME DeliveryInv, NEW due \in SUBSET Alerts, ClaimDueAlerts(due)
    PROVE  DeliveryInv'
<1>1. /\ work.pc = "idle" /\ due \subseteq Pending
      /\ row' = [a \in Alerts |-> [row[a] EXCEPT !.waits = @ \/ a \in due]]
      /\ work' = [Idle EXCEPT !.pc = "take", !.todo = due]
      /\ UNCHANGED <<shown, lost, faults>>
  BY DEF ClaimDueAlerts
<1>2. row \in [Alerts -> Rows] /\ work \in Cycles
  BY DEF DeliveryInv, HousingTypeOK
<1>3. ASSUME NEW b \in Alerts
      PROVE  row'[b] \in Rows /\ row'[b].status = row[b].status
             /\ row'[b].attempts = row[b].attempts /\ row'[b].forward = row[b].forward
             /\ row'[b].reported = row[b].reported
  <2>1. row[b] \in Rows /\ row'[b] = [row[b] EXCEPT !.waits = @ \/ b \in due]
    BY <1>1, <1>2
  <2>2. (row[b].waits \/ b \in due) \in BOOLEAN
    OBVIOUS
  <2> QED
    BY <2>1, <2>2 DEF Rows
<1>4. work' \in Cycles /\ work'.pc = "take" /\ work'.todo = due
  <2>1. "take" \in Steps /\ Idle \in Cycles
    BY IdleType DEF Steps
  <2>2. work' \in Cycles
    BY <1>1, <2>1 DEF Cycles
  <2> QED
    BY <1>1, <2>2 DEF Idle
<1>5. row' \in [Alerts -> Rows]
  BY <1>1, <1>3
<1>6. HousingTypeOK'
  BY <1>1, <1>4, <1>5 DEF DeliveryInv, HousingTypeOK
<1>7. TodoPending' /\ HandIsAlert' /\ AllStepFacts'
  BY <1>1, <1>3, <1>4 DEF TodoPending, HandIsAlert, AllStepFacts, InHand, Pending
<1>8. AllRowFacts'
  <2> SUFFICES ASSUME NEW b \in Alerts PROVE RowFacts(b)'
    BY DEF AllRowFacts
  <2>1. RowFacts(b)
    BY DEF DeliveryInv, AllRowFacts
  <2> QED
    BY <1>1, <1>3, <1>4, <2>1 DEF RowFacts
<1> QED
  BY <1>6, <1>7, <1>8 DEF DeliveryInv

LEMMA EndCycleKeeps ==
    ASSUME DeliveryInv, EndCycle
    PROVE  DeliveryInv'
<1>1. work.pc = "take" /\ work' = Idle /\ UNCHANGED <<row, shown, lost, faults>>
  BY DEF EndCycle
<1>2. work'.pc = "idle" /\ work'.todo = {} /\ work' \in Cycles
  BY <1>1, IdleType DEF Idle
<1>3. HousingTypeOK'
  BY <1>1, <1>2 DEF DeliveryInv, HousingTypeOK
<1>4. TodoPending' /\ HandIsAlert' /\ AllStepFacts'
  BY <1>2 DEF TodoPending, HandIsAlert, AllStepFacts, InHand
<1>5. AllRowFacts'
  BY <1>1, <1>2 DEF DeliveryInv, AllRowFacts, RowFacts
<1> QED
  BY <1>3, <1>4, <1>5 DEF DeliveryInv

LEMMA TakeAlertKeeps ==
    ASSUME DeliveryInv, NEW a \in Alerts, TakeAlert(a)
    PROVE  DeliveryInv'
<1> DEFINE pc == CASE ~Configured -> "bot"
                   [] Configured /\ ~row[a].reported -> "report"
                   [] Configured /\ row[a].reported -> AfterReport(a, CarriesOriginal(a))
           carries == CarriesOriginal(a)
<1>1. /\ work.pc = "take" /\ a \in work.todo
      /\ work' = [work EXCEPT !.todo = @ \ {a}, !.alert = a, !.carries = carries, !.pc = pc]
      /\ UNCHANGED <<row, shown, lost, faults>>
  BY DEF TakeAlert
<1>2. work \in Cycles /\ row[a] \in Rows /\ RowFacts(a) /\ shown[a] \in Counts
      /\ row[a].status = "pending"
  BY <1>1 DEF DeliveryInv, HousingTypeOK, AllRowFacts, TodoPending
<1>3. carries \in BOOLEAN /\ (Kind[a] \in ListingKinds => carries)
  BY DEF CarriesOriginal, ListingKinds
<1>4. row[a].reported \in BOOLEAN /\ Configured \in BOOLEAN
  BY <1>2, LimitsAssumption DEF Rows
<1>5. /\ pc \in {"bot", "report", "success", "forward", "skip"}
      /\ pc = "report" => ~row[a].reported
      /\ pc \in {"success", "forward", "skip"} => row[a].reported
      /\ pc = "success" => row[a].forward # "pending"
      /\ pc = "skip" => ~carries
  BY <1>3, <1>4 DEF AfterReport
<1>6. pc \in Steps
  BY <1>5 DEF Steps
<1> HIDE DEF pc, carries
<1>7. /\ work' \in Cycles /\ work'.pc = pc /\ work'.alert = a /\ work'.carries = carries
      /\ work'.todo = work.todo \ {a}
  BY <1>1, <1>2, <1>3, <1>6 DEF Cycles
<1>8. HousingTypeOK'
  BY <1>1, <1>7 DEF DeliveryInv, HousingTypeOK
<1>9. TodoPending' /\ HandIsAlert'
  BY <1>1, <1>7 DEF DeliveryInv, TodoPending, HandIsAlert
<1>10. AllRowFacts'
  <2>1. work.pc # "mark" /\ work'.pc # "mark"
    BY <1>1, <1>5, <1>7
  <2> QED
    BY <1>1, <2>1 DEF DeliveryInv, AllRowFacts, RowFacts
<1>11. AllStepFacts'
  <2>1. pc = "success" => shown[a].reports + shown[a].bot > 0
    BY <1>2, <1>5 DEF RowFacts, Counts
  <2>2. StepFacts(a)'
    BY <1>1, <1>2, <1>3, <1>5, <1>7, <2>1 DEF StepFacts
  <2> QED
    BY <1>7, <2>2 DEF AllStepFacts, InHand
<1> QED
  BY <1>8, <1>9, <1>10, <1>11 DEF DeliveryInv

-----------------------------------------------------------------------------
(***************************************************************************)
(* The calls to the owner's DM and to the bot                              *)
(***************************************************************************)

LEMMA SendReportKeeps ==
    ASSUME DeliveryInv, SendReport
    PROVE  DeliveryInv'
<1>1. Working /\ work.pc = "report" /\ faults \in 0..MaxFaults
  BY DEF SendReport, ReportAccepted, Working, DeliveryInv, HousingTypeOK
<1>2. ~row[work.alert].reported
  BY <1>1, HandFacts DEF StepFacts
<1>3. "mark" \in Steps /\ "retry" \in Steps /\ "later" \in Steps
  BY DEF Steps
<1>4. CASE Accepted("reports", "mark")
  BY <1>1, <1>3, <1>4, AcceptedKeeps
<1>5. CASE AnswerLost("reports")
  BY <1>1, <1>2, <1>5, AnswerLostKeeps
<1>6. ASSUME NEW outcome \in Refusals, Refused(outcome) PROVE DeliveryInv'
  BY <1>1, <1>3, <1>6, Moves DEF Refused, Refusals
<1> QED
  BY <1>4, <1>5, <1>6 DEF SendReport, ReportAccepted

LEMMA OwnerUnreachableKeeps ==
    ASSUME DeliveryInv, OwnerUnreachable
    PROVE  DeliveryInv'
<1>1. /\ Working /\ work.pc = "report" /\ UNCHANGED <<row, shown, lost, faults>>
      /\ faults \in 0..MaxFaults
  BY DEF OwnerUnreachable, Working, DeliveryInv, HousingTypeOK
<1>2. PICK outcome \in Refusals \cup {"bot"} : Goto(outcome)
  BY DEF OwnerUnreachable
<1>3. outcome \in Steps
  BY DEF Refusals, Steps
<1> QED
  BY <1>1, <1>2, <1>3, Moves DEF Refusals

LEMMA OriginalAcceptedKeeps ==
    ASSUME DeliveryInv, OriginalAccepted
    PROVE  DeliveryInv'
<1>1. Working /\ work.pc \in {"forward", "copy"}
  BY DEF OriginalAccepted, Working
<1>2. "forwarded" \in Steps /\ "copied" \in Steps
  BY DEF Steps
<1>3. Accepted("originals", "forwarded") \/ Accepted("originals", "copied")
  BY DEF OriginalAccepted
<1> QED
  BY <1>1, <1>2, <1>3, AcceptedKeeps

LEMMA RefusedOriginalKeeps ==
    ASSUME DeliveryInv, ForwardRefused \/ CopyRefused
    PROVE  DeliveryInv'
<1>1. Working /\ work.pc \in {"forward", "copy"} /\ faults \in 0..MaxFaults
  BY DEF ForwardRefused, CopyRefused, Working, DeliveryInv, HousingTypeOK
<1>2. row[work.alert].reported
  BY <1>1, HandFacts DEF StepFacts
<1>3. CASE AnswerLost("originals")
  BY <1>1, <1>2, <1>3, AnswerLostKeeps
<1>4. ASSUME NEW outcome \in Refusals \cup {"copy", "abandon"}, Refused(outcome)
      PROVE  DeliveryInv'
  <2>1. outcome \in Steps
    BY DEF Refusals, Steps
  <2> QED
    BY <1>1, <1>2, <1>4, <2>1, Moves DEF Refused, Refusals
<1> QED
  BY <1>3, <1>4 DEF ForwardRefused, CopyRefused

LEMMA DeliverViaBotKeeps ==
    ASSUME DeliveryInv, DeliverViaBot
    PROVE  DeliveryInv'
<1>1. Working /\ work.pc = "bot" /\ faults \in 0..MaxFaults
  BY DEF DeliverViaBot, Working, DeliveryInv, HousingTypeOK
<1>2. "fellback" \in Steps /\ "retry" \in Steps /\ "final" \in Steps
  BY DEF Steps
<1>3. CASE Accepted("bot", "fellback")
  BY <1>1, <1>2, <1>3, AcceptedKeeps
<1>4. CASE AnswerLost("bot")
  BY <1>1, <1>4, AnswerLostKeeps
<1>5. ASSUME NEW outcome \in {"retry", "final"}, Refused(outcome) PROVE DeliveryInv'
  BY <1>1, <1>2, <1>5, Moves DEF Refused
<1> QED
  BY <1>3, <1>4, <1>5 DEF DeliverViaBot

-----------------------------------------------------------------------------
(***************************************************************************)
(* The theorems                                                            *)
(***************************************************************************)

LEMMA DeliveryInit == HousingInit => DeliveryInv
<1> SUFFICES ASSUME HousingInit PROVE DeliveryInv
  OBVIOUS
<1>1. /\ row = [a \in Alerts |-> NoRow] /\ work = Idle
      /\ shown = [a \in Alerts |-> Nothing] /\ lost = [a \in Alerts |-> Nothing]
      /\ faults = 0
  BY DEF HousingInit
<1>2. NoRow \in Rows
  <2>1. "absent" \in Statuses /\ "pending" \in Forwards /\ 0 \in 0..MaxAttempts
    BY LimitsAssumption DEF Statuses, Forwards
  <2> QED
    BY <2>1 DEF NoRow, Rows
<1>3. HousingTypeOK
  <2>1. Nothing \in Counts /\ 0 \in 0..MaxFaults
    BY LimitsAssumption DEF Nothing, Counts
  <2> QED
    BY <1>1, <1>2, <2>1, IdleType DEF HousingTypeOK
<1>4. TodoPending /\ HandIsAlert /\ AllStepFacts
  BY <1>1 DEF Idle, TodoPending, HandIsAlert, AllStepFacts, InHand
<1>5. AllRowFacts
  BY <1>1, LimitsAssumption DEF AllRowFacts, RowFacts, NoRow, Nothing
<1> QED
  BY <1>3, <1>4, <1>5 DEF DeliveryInv

LEMMA DeliveryNext == DeliveryInv /\ [HousingNext]_housingVars => DeliveryInv'
<1> SUFFICES ASSUME DeliveryInv, [HousingNext]_housingVars PROVE DeliveryInv'
  OBVIOUS
<1>1. CASE UNCHANGED housingVars
  <2>1. UNCHANGED <<row, work, shown, lost, faults>>
    BY <1>1 DEF housingVars
  <2> QED
    BY <2>1 DEF DeliveryInv, HousingTypeOK, TodoPending, HandIsAlert, AllRowFacts, RowFacts,
                AllStepFacts, InHand, StepFacts
<1>2. ASSUME NEW a \in Alerts, EnqueueAlert(a) \/ PurgeAlert(a) \/ ProbeBacklog(a)
      PROVE  DeliveryInv'
  BY <1>2, EnqueueKeeps, PurgeKeeps, ProbeBacklogKeeps
<1>3. ASSUME NEW due \in SUBSET Alerts, ClaimDueAlerts(due) PROVE DeliveryInv'
  BY <1>3, ClaimKeeps
<1>4. CASE DeliveryStep
  BY <1>4, TakeAlertKeeps, EndCycleKeeps, SendReportKeeps, OwnerUnreachableKeeps,
     MarkReportSentKeeps, RecoverBacklogKeeps, SkipOriginalKeeps, OriginalAcceptedKeeps,
     RefusedOriginalKeeps, MarkOriginalSentKeeps, AbandonOriginalKeeps, DeliverViaBotKeeps,
     MarkBotReportKeeps, SettlesKeep, SettleWithoutOriginalKeeps
     DEF DeliveryStep
<1>5. CASE Crash \/ WriteFails
  BY <1>5, CrashKeeps, WriteFailsKeeps
<1> QED
  BY <1>1, <1>2, <1>3, <1>4, <1>5 DEF HousingNext

LEMMA InvariantHolds == HousingSpec => []DeliveryInv
BY DeliveryInit, DeliveryNext, PTL DEF HousingSpec

\* The rows, the cycle and the counts keep their types for any number of
\* alerts, and no row records more tries than max_attempts.
THEOREM HousingTypes == HousingSpec => []HousingTypeOK
<1>1. DeliveryInv => HousingTypeOK
  BY DEF DeliveryInv
<1> QED
  BY <1>1, InvariantHolds, PTL

\* Whatever crashes, pauses and reopened rows: a report is repeated only after
\* one the row was never told of.
THEOREM ReportsOnce == HousingSpec => []ReportsOnceUnlessLost
<1>1. DeliveryInv => ReportsOnceUnlessLost
  <2> SUFFICES ASSUME DeliveryInv, NEW a \in Alerts
               PROVE  shown[a].reports <= 1 + lost[a].reports
    BY DEF ReportsOnceUnlessLost
  <2>1. RowFacts(a) /\ lost[a] \in Counts
    BY DEF DeliveryInv, AllRowFacts, HousingTypeOK
  <2> QED
    BY <2>1 DEF RowFacts, Counts
<1> QED
  BY <1>1, InvariantHolds, PTL

\* An original is never shown to the owner without its report before it.
THEOREM OriginalsFollow == HousingSpec => []OriginalFollowsReport
<1>1. DeliveryInv => OriginalFollowsReport
  BY DEF DeliveryInv, AllRowFacts, RowFacts, OriginalFollowsReport
<1> QED
  BY <1>1, InvariantHolds, PTL

\* An alert closed as delivered has reached the owner in the DM or by the bot.
THEOREM DeliveredReached == HousingSpec => []DeliveredWasShown
<1>1. DeliveryInv => DeliveredWasShown
  BY DEF DeliveryInv, AllRowFacts, RowFacts, DeliveredWasShown
<1> QED
  BY <1>1, InvariantHolds, PTL

\* A listing that is closed without its original stays in the backlog that the
\* probe and the recovery of the DM work off.
THEOREM OriginalsKept == HousingSpec => []NoOriginalForgotten
<1>1. DeliveryInv => NoOriginalForgotten
  <2> SUFFICES ASSUME DeliveryInv, NEW a \in Alerts, Configured, row[a].status = "delivered",
                      Kind[a] \in ListingKinds, a \notin Backlog
               PROVE  shown[a].originals > 0
    BY DEF NoOriginalForgotten, ListingKinds
  <2>1. RowFacts(a) /\ row[a].forward \in Forwards
    BY DEF DeliveryInv, AllRowFacts, HousingTypeOK, Rows
  <2>2. row[a].forward \notin {"pending", "skipped", "bot_fallback", "unavailable"}
    BY <2>1 DEF RowFacts, Backlog, ListingKinds
  <2> QED
    BY <2>1, <2>2 DEF RowFacts, Forwards
<1> QED
  BY <1>1, InvariantHolds, PTL
=============================================================================
