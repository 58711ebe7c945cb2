------------------------ MODULE MessagePipelineProofs ------------------------
(***************************************************************************)
(* Theorems about MessagePipeline, for any messages, watchers, workers,    *)
(* policies, capacities and bounds that meet its assumption.               *)
(***************************************************************************)
EXTENDS MessagePipeline, SequenceTheorems, FiniteSetTheorems, TLAPS

(***************************************************************************)
(* The inductive invariant.                                                *)
(***************************************************************************)

\* A job has a row, an alert and a judge only with its message, and its alert
\* and its judge agree with its row.
TablesAgree ==
    \A j \in Jobs :
        /\ stored[j[1]] = "absent" =>
            run[j].status = "none" /\ alert[j] = "absent" /\ judged[j].by = "nobody"
        /\ alert[j] # "absent" <=> run[j].status = "completed" /\ run[j].alert
        /\ judged[j].by = "recovery" => judged[j].version = fp[j]

\* Nothing is in hand before the daemon is up, and what recovery has still to
\* do is pending.
PhaseOwnsWork ==
    /\ phase \in {"down", "recovering"} =>
        handler = NoUpdate /\ queue = <<>> /\ worker = [k \in Workers |-> Idle]
    /\ phase # "recovering" => recovery = NoBatch
    /\ recovery.todo \subseteq PendingJobs

\* The handler has a message and a try left; a worker has a message, and under
\* it the job that it judges is no longer one that it has yet to begin.
HandsAreSound ==
    /\ handler.pc # "idle" => handler.msg \in Messages
    /\ handler.pc = "backoff" => handler.attempt < StoreAttempts
    /\ \A k \in Workers :
        /\ worker[k].todo # {} => worker[k].msg \in Messages
        /\ worker[k].current # None =>
            worker[k].msg \in Messages /\ worker[k].current \notin worker[k].todo

InHandler(j) == HandlerHolds(j)
InQueue(j) == \E i \in 1..Len(queue) : QueueHolds(i, j)
WithWorker(j) == \E k \in Workers : WorkerHolds(k, j)
Held(j) == InHandler(j) \/ InQueue(j) \/ WithWorker(j)

\* What is held is pending and is held once.
HeldOnce(j) ==
    /\ Held(j) => Pending(j)
    /\ InHandler(j) => ~InQueue(j) /\ ~WithWorker(j)
    /\ InQueue(j) => ~WithWorker(j)
    /\ \A i, n \in 1..Len(queue) : QueueHolds(i, j) /\ QueueHolds(n, j) => i = n
    /\ \A k, n \in Workers : WorkerHolds(k, j) /\ WorkerHolds(n, j) => k = n

JobsHeldOnce == \A j \in Jobs : HeldOnce(j)

UpHolds == phase = "up" => \A j \in Jobs : Pending(j) => j \in stranded \/ Held(j)

PipelineIInv ==
    /\ PipelineTypeOK
    /\ TablesAgree
    /\ PhaseOwnsWork
    /\ HandsAreSound
    /\ JobsHeldOnce
    /\ UpHolds


-----------------------------------------------------------------------------
(***************************************************************************)
(* Types.                                                                  *)
(***************************************************************************)

LEMMA EmptyHands ==
    /\ NoUpdate \in HandlerStates /\ NoUpdate.pc = "idle"
    /\ Idle \in WorkerStates /\ Idle.todo = {} /\ Idle.current = None
    /\ NoBatch \in [batch : SUBSET Jobs, todo : SUBSET Jobs] /\ NoBatch.todo = {}
BY PipelineConstants DEF NoUpdate, HandlerStates, Removed, Idle, WorkerStates, NoBatch

LEMMA JobIsPair ==
    /\ \A j \in Jobs : j[1] \in Messages /\ j[2] \in Watchers /\ j = <<j[1], j[2]>>
    /\ \A m \in Messages, w \in Watchers : <<m, w>> \in Jobs
BY DEF Jobs

LEMMA NoneIsNothing == None \notin Messages /\ None \notin Watchers
BY PipelineConstants

\* Whatever a stage answers, its outcome is terminal and alerts only if it is
\* completed.
LEMMA JudgeIsTerminal ==
    ASSUME NEW p, NEW s
    PROVE  /\ Judge(p, s) \in Outcomes
           /\ Judge(p, s).status \in {"completed", "failed"}
           /\ Judge(p, s).alert => Judge(p, s).status = "completed"
<1>1. Accepts(p, s) \in BOOLEAN
    BY DEF Accepts
<1>2. Accepts(p, s) => ~Crashes(p, s)
    BY DEF Accepts
<1>3. (Accepts(p, s) /\ p.alert = "immediate") \in BOOLEAN
    OBVIOUS
<1>4. QED
    BY <1>1, <1>2, <1>3 DEF Judge, Outcomes

LEMMA RefusalIsTerminal ==
    Refusal \in Outcomes /\ Refusal.status = "failed" /\ ~Refusal.alert
BY DEF Refusal, Outcomes

LEMMA UnjudgedIsPending == Unjudged \in Outcomes /\ Unjudged.status = "pending"
BY DEF Unjudged, Outcomes

StatRows == [total : Nat, passed : [1..3 -> Nat], accepted : Nat, alerts : Nat]

LEMMA CountedIsRow ==
    ASSUME NEW s \in StatRows, NEW o \in Outcomes
    PROVE  Counted(s, o) \in StatRows
<1> DEFINE passed == [i \in 1..3 |-> s.passed[i] + (IF i \in o.passed THEN 1 ELSE 0)]
           accepted == s.accepted + (IF o.accepted THEN 1 ELSE 0)
<1>1. Counted(s, o) = [[[s EXCEPT !.total = s.total + 1] EXCEPT !.passed = passed]
                          EXCEPT !.accepted = accepted]
    BY Zenon DEF Counted
<1>2. s.total + 1 \in Nat /\ passed \in [1..3 -> Nat] /\ accepted \in Nat
    <2>1. \A i \in 1..3 : s.passed[i] \in Nat
        BY DEF StatRows
    <2>2. s.total \in Nat /\ s.accepted \in Nat
        BY DEF StatRows
    <2>3. QED
        BY <2>1, <2>2
<1> HIDE DEF passed, accepted
<1>3. QED
    BY <1>1, <1>2 DEF StatRows

LEMMA AlertedIsRow ==
    ASSUME NEW s \in StatRows
    PROVE  [s EXCEPT !.alerts = s.alerts + 1] \in StatRows
<1>1. s.alerts + 1 \in Nat
    BY DEF StatRows
<1>2. ASSUME NEW n \in Nat
      PROVE  [s EXCEPT !.alerts = n] \in StatRows
    BY DEF StatRows
<1>3. QED
    BY <1>1, <1>2, Zenon

\* The tables after an outcome is recorded.
LEMMA RecordTypes ==
    ASSUME PipelineTypeOK, NEW j \in Jobs, NEW o \in Outcomes, RecordOutcome(j, o)
    PROVE  /\ run' \in [Jobs -> Outcomes]
           /\ alert' \in [Jobs -> {"absent", "pending", "sent", "failed"}]
           /\ stats' \in [Watchers -> [total : Nat, passed : [1..3 -> Nat], accepted : Nat, alerts : Nat]]
           /\ UNCHANGED <<stored, expired, fp, alertSent>>
<1>1. CASE run[j].status = "pending"
    <2>1. /\ run' = [run EXCEPT ![j] = o]
          /\ alert' = IF o.alert THEN [alert EXCEPT ![j] = "pending"] ELSE alert
          /\ stats' = [stats EXCEPT ![j[2]] = Counted(stats[j[2]], o)]
          /\ UNCHANGED <<stored, expired, fp, alertSent>>
        BY <1>1 DEF RecordOutcome
    <2>2. \A w \in Watchers : Counted(stats[w], o)
            \in [total : Nat, passed : [1..3 -> Nat], accepted : Nat, alerts : Nat]
        BY CountedIsRow DEF PipelineTypeOK, StatRows
    <2>3. QED
        BY <2>1, <2>2, JobIsPair DEF PipelineTypeOK
<1>2. CASE run[j].status # "pending"
    BY <1>2 DEF RecordOutcome, dbVars, PipelineTypeOK
<1>3. QED
    BY <1>1, <1>2

-----------------------------------------------------------------------------
(***************************************************************************)
(* What is in hand.                                                        *)
(***************************************************************************)

\* Held jobs stay as they are while nobody touches them.
LEMMA SameHands ==
    ASSUME UNCHANGED <<handler, queue, worker>>, JobsHeldOnce,
           \A j \in Jobs : Held(j) /\ Pending(j) => Pending(j)'
    PROVE  JobsHeldOnce'
<1>1. \A j \in Jobs : /\ InHandler(j)' = InHandler(j) /\ InQueue(j)' = InQueue(j)
                      /\ WithWorker(j)' = WithWorker(j)
    BY DEF InHandler, HandlerHolds, InQueue, QueueHolds, WithWorker, WorkerHolds
<1>2. QED
    BY <1>1 DEF JobsHeldOnce, HeldOnce, Held, QueueHolds, WorkerHolds

LEMMA SameHandsHold ==
    ASSUME UNCHANGED <<handler, queue, worker>>, UpHolds, stranded \subseteq stranded',
           phase' = "up" => phase = "up",
           \A j \in Jobs : Pending(j)' => Pending(j)
    PROVE  UpHolds'
<1>1. \A j \in Jobs : Held(j)' = Held(j)
    BY DEF Held, InHandler, HandlerHolds, InQueue, QueueHolds, WithWorker, WorkerHolds
<1>2. QED
    BY <1>1 DEF UpHolds

\* A process that is gone holds nothing.
LEMMA NoHands ==
    ASSUME handler = NoUpdate, queue = <<>>, worker = [k \in Workers |-> Idle]
    PROVE  /\ \A j \in Jobs : ~Held(j)
           /\ JobsHeldOnce
<1>1. ASSUME NEW j \in Jobs
      PROVE  ~Held(j) /\ HeldOnce(j)
    <2>1. ~InHandler(j)
        BY DEF InHandler, HandlerHolds, NoUpdate
    <2>2. Len(queue) = 0
        OBVIOUS
    <2>3. ~InQueue(j)
        BY <2>2 DEF InQueue
    <2>4. \A k \in Workers : ~WorkerHolds(k, j)
        BY JobIsPair, NoneIsNothing DEF WorkerHolds, Idle
    <2>5. QED
        BY <2>1, <2>2, <2>3, <2>4 DEF Held, WithWorker, HeldOnce
<1>2. QED
    BY <1>1 DEF JobsHeldOnce

LEMMA Initially == PipelineInit => PipelineIInv
<1> SUFFICES ASSUME PipelineInit PROVE PipelineIInv
    OBVIOUS
<1>1. PipelineTypeOK
    <2>1. NoOutcome \in Outcomes /\ NoJudge \in [by : {"nobody", "worker", "recovery"},
                                                  version : Versions \cup {Removed}]
        BY DEF NoOutcome, Outcomes, NoJudge
    <2>2. ZeroStats \in [total : Nat, passed : [1..3 -> Nat], accepted : Nat, alerts : Nat]
        BY DEF ZeroStats
    <2>3. <<>> \in Seq(WorkItems) /\ Len(<<>>) <= QueueSize
        BY EmptySeq, PipelineConstants
    <2>4. stops \in 0..MaxStops /\ dbFaults \in 0..MaxDbFaults /\ edits \in 0..MaxEdits
        BY PipelineConstants DEF PipelineInit
    <2>5. /\ policy \in [Watchers -> Versions \cup {Removed}]
          /\ fp \in [Jobs -> Versions \cup {Removed}]
        BY DEF PipelineInit
    <2>6. queue \in Seq(WorkItems) /\ Len(queue) <= QueueSize
        BY <2>3 DEF PipelineInit
    <2>7. QED
        BY <2>1, <2>2, <2>4, <2>5, <2>6, EmptyHands DEF PipelineInit, PipelineTypeOK
<1>2. TablesAgree
    BY DEF PipelineInit, TablesAgree, NoOutcome, NoJudge
<1>3. PhaseOwnsWork /\ HandsAreSound
    BY EmptyHands DEF PipelineInit, PhaseOwnsWork, HandsAreSound
<1>4. JobsHeldOnce
    BY NoHands DEF PipelineInit
<1>5. UpHolds
    BY DEF PipelineInit, UpHolds
<1>6. QED
    BY <1>1, <1>2, <1>3, <1>4, <1>5 DEF PipelineIInv

-----------------------------------------------------------------------------
(***************************************************************************)
(* Steps that leave every hand and every run as it is.                     *)
(***************************************************************************)

LEMMA ShutdownStep ==
    ASSUME PipelineIInv, Shutdown
    PROVE  PipelineIInv'
<1> USE DEF PipelineIInv
<1>1. PipelineTypeOK'
    <2>1. /\ UNCHANGED bounds \/ (stops < MaxStops /\ stops' = stops + 1 /\ UNCHANGED <<dbFaults, edits>>)
          /\ phase' = "draining"
          /\ UNCHANGED <<dbVars, fatal, policy, handler, queue, worker, recovery, judged, stranded>>
        BY DEF Shutdown
    <2>2. stops' \in 0..MaxStops /\ dbFaults' \in 0..MaxDbFaults /\ edits' \in 0..MaxEdits
        BY <2>1, PipelineConstants DEF PipelineTypeOK, bounds
    <2>3. QED
        BY <2>1, <2>2 DEF PipelineTypeOK, dbVars
<1>2. TablesAgree'
    BY DEF Shutdown, TablesAgree, dbVars
<1>3. PhaseOwnsWork' /\ HandsAreSound'
    BY DEF Shutdown, PhaseOwnsWork, HandsAreSound, PendingJobs, Pending, dbVars
<1>4. JobsHeldOnce'
    BY SameHands DEF Shutdown, Pending, dbVars
<1>5. UpHolds'
    BY DEF Shutdown, UpHolds
<1>6. QED
    BY <1>1, <1>2, <1>3, <1>4, <1>5

LEMMA ChangePolicyStep ==
    ASSUME PipelineIInv, NEW w \in Watchers, NEW v \in Versions \cup {Removed}, ChangePolicy(w, v)
    PROVE  PipelineIInv'
<1> USE DEF PipelineIInv
<1>1. PipelineTypeOK'
    BY PipelineConstants DEF ChangePolicy, PipelineTypeOK, dbVars
<1>2. TablesAgree'
    BY DEF ChangePolicy, TablesAgree, dbVars
<1>3. PhaseOwnsWork' /\ HandsAreSound'
    BY DEF ChangePolicy, PhaseOwnsWork, HandsAreSound, PendingJobs, Pending, dbVars
<1>4. JobsHeldOnce'
    BY SameHands DEF ChangePolicy, Pending, dbVars
<1>5. UpHolds'
    BY SameHandsHold DEF ChangePolicy, Pending, dbVars
<1>6. QED
    BY <1>1, <1>2, <1>3, <1>4, <1>5

LEMMA MessageExpiresStep ==
    ASSUME PipelineIInv, NEW m \in Messages, MessageExpires(m)
    PROVE  PipelineIInv'
<1> USE DEF PipelineIInv
<1>1. PipelineTypeOK'
    BY DEF MessageExpires, PipelineTypeOK, bounds
<1>2. TablesAgree'
    BY DEF MessageExpires, TablesAgree
<1>3. PhaseOwnsWork' /\ HandsAreSound'
    BY DEF MessageExpires, PhaseOwnsWork, HandsAreSound, PendingJobs, Pending
<1>4. JobsHeldOnce'
    BY SameHands DEF MessageExpires, Pending
<1>5. UpHolds'
    BY SameHandsHold DEF MessageExpires, Pending
<1>6. QED
    BY <1>1, <1>2, <1>3, <1>4, <1>5

LEMMA SettleAlertStep ==
    ASSUME PipelineIInv, NEW j \in Jobs, SettleAlert(j)
    PROVE  PipelineIInv'
<1> USE DEF PipelineIInv
<1>1. PipelineTypeOK'
    <2>1. \A w \in Watchers : [stats[w] EXCEPT !.alerts = stats[w].alerts + 1] \in StatRows
        BY AlertedIsRow DEF PipelineTypeOK, StatRows
    <2>2. /\ alert' \in [Jobs -> {"absent", "pending", "sent", "failed"}]
          /\ alertSent' \in [Jobs -> BOOLEAN]
        BY DEF SettleAlert, PipelineTypeOK
    <2>3. stats' \in [Watchers -> StatRows]
        <3>1. \/ stats' = stats
              \/ stats' = [stats EXCEPT ![j[2]] = [stats[j[2]] EXCEPT !.alerts = stats[j[2]].alerts + 1]]
            BY Zenon DEF SettleAlert
        <3>2. stats \in [Watchers -> StatRows]
            BY DEF PipelineTypeOK, StatRows
        <3>3. QED
            BY <2>1, <3>1, <3>2, JobIsPair
    <2>4. QED
        BY <2>2, <2>3 DEF SettleAlert, PipelineTypeOK, StatRows, bounds
<1>2. TablesAgree'
    <2>1. alert' \in {[alert EXCEPT ![j] = "sent"], [alert EXCEPT ![j] = "failed"]}
        BY DEF SettleAlert
    <2>2. \A i \in Jobs : alert'[i] = "absent" <=> alert[i] = "absent"
        BY <2>1 DEF SettleAlert, PipelineTypeOK
    <2>3. QED
        BY <2>2 DEF SettleAlert, TablesAgree
<1>3. PhaseOwnsWork' /\ HandsAreSound'
    BY DEF SettleAlert, PhaseOwnsWork, HandsAreSound, PendingJobs, Pending
<1>4. JobsHeldOnce'
    BY SameHands DEF SettleAlert, Pending
<1>5. UpHolds'
    BY SameHandsHold DEF SettleAlert, Pending
<1>6. QED
    BY <1>1, <1>2, <1>3, <1>4, <1>5

\* Retention takes no message with a pending job.
LEMMA PurgeSpares ==
    ASSUME PipelineTypeOK, PurgeExpiredData
    PROVE  /\ \A j \in Jobs : Pending(j)' <=> Pending(j)
           /\ \A m \in Messages : stored'[m] = "absent" <=> stored[m] = "absent"
           /\ stored' \in [Messages -> {"absent", "stored", "purged"}]
           /\ UNCHANGED <<expired, run, fp, alert, alertSent, stats>>
<1>1. /\ stored' = [m \in Messages |-> IF Purgeable(m) THEN "purged" ELSE stored[m]]
      /\ UNCHANGED <<expired, run, fp, alert, alertSent, stats>>
    BY DEF PurgeExpiredData
<1>2. ASSUME NEW j \in Jobs
      PROVE  Pending(j)' <=> Pending(j)
    <2>1. Purgeable(j[1]) => run[j].status # "pending"
        BY JobIsPair, Zenon DEF Purgeable
    <2>2. Purgeable(j[1]) => stored[j[1]] = "stored"
        BY DEF Purgeable
    <2>3. QED
        BY <1>1, <2>1, <2>2, JobIsPair DEF Pending
<1>3. \A m \in Messages : Purgeable(m) => stored[m] = "stored"
    BY DEF Purgeable
<1>4. QED
    BY <1>1, <1>2, <1>3 DEF PipelineTypeOK

LEMMA RetentionStep ==
    ASSUME PipelineIInv, RetentionSweep
    PROVE  PipelineIInv'
<1> USE DEF PipelineIInv
<1>1. PurgeExpiredData /\ UNCHANGED <<phase, fatal, policy, handler, queue, worker, recovery,
                                      judged, stranded, bounds>>
    BY DEF RetentionSweep
<1>2. PipelineTypeOK'
    BY <1>1, PurgeSpares DEF PipelineTypeOK, bounds
<1>3. TablesAgree'
    BY <1>1, PurgeSpares, JobIsPair DEF TablesAgree
<1>4. PhaseOwnsWork' /\ HandsAreSound'
    BY <1>1, PurgeSpares DEF PhaseOwnsWork, HandsAreSound, PendingJobs
<1>5. JobsHeldOnce'
    BY <1>1, PurgeSpares, SameHands
<1>6. UpHolds'
    BY <1>1, PurgeSpares, SameHandsHold
<1>7. QED
    BY <1>2, <1>3, <1>4, <1>5, <1>6

LEMMA StartStep ==
    ASSUME PipelineIInv, Start
    PROVE  PipelineIInv'
<1> USE DEF PipelineIInv
<1>1. /\ phase = "down" /\ phase' = "recovering" /\ fatal' = FALSE /\ stranded' = {}
      /\ PurgeExpiredData
      /\ UNCHANGED <<policy, handler, queue, worker, recovery, judged, bounds>>
    BY DEF Start
<1>2. PipelineTypeOK'
    BY <1>1, PurgeSpares DEF PipelineTypeOK, bounds
<1>3. TablesAgree'
    BY <1>1, PurgeSpares, JobIsPair DEF TablesAgree
<1>4. PhaseOwnsWork' /\ HandsAreSound'
    BY <1>1, PurgeSpares DEF PhaseOwnsWork, HandsAreSound, PendingJobs
<1>5. JobsHeldOnce'
    BY <1>1, PurgeSpares, SameHands
<1>6. UpHolds'
    BY <1>1 DEF UpHolds
<1>7. QED
    BY <1>2, <1>3, <1>4, <1>5, <1>6

-----------------------------------------------------------------------------
(***************************************************************************)
(* The end of a process.                                                   *)
(***************************************************************************)
BoundsOK == stops \in 0..MaxStops /\ dbFaults \in 0..MaxDbFaults /\ edits \in 0..MaxEdits

LEMMA DbFaultKeeps ==
    ASSUME PipelineTypeOK, DbFault
    PROVE  /\ BoundsOK' /\ UNCHANGED dbVars
BY PipelineConstants DEF DbFault, PipelineTypeOK, BoundsOK

LEMMA ForgetsStep ==
    ASSUME PipelineIInv, Forgets, BoundsOK', UNCHANGED <<dbVars, fatal, policy, judged, stranded>>
    PROVE  PipelineIInv'
<1> USE DEF PipelineIInv
<1>1. PipelineTypeOK'
    <2>1. <<>> \in Seq(WorkItems) /\ Len(<<>>) <= QueueSize
        BY EmptySeq, PipelineConstants
    <2>2. queue' \in Seq(WorkItems) /\ Len(queue') <= QueueSize
        BY <2>1 DEF Forgets
    <2>3. QED
        BY <2>2, EmptyHands DEF Forgets, PipelineTypeOK, dbVars, BoundsOK
<1>2. TablesAgree'
    BY DEF TablesAgree, dbVars
<1>3. PhaseOwnsWork' /\ HandsAreSound'
    BY EmptyHands DEF Forgets, PhaseOwnsWork, HandsAreSound
<1>4. JobsHeldOnce'
    <2>1. handler' = NoUpdate /\ queue' = <<>> /\ worker' = [k \in Workers |-> Idle]
        BY DEF Forgets
    <2>2. \A j \in Jobs : ~Held(j)' /\ HeldOnce(j)'
        <3>1. ASSUME NEW j \in Jobs
              PROVE  /\ ~InHandler(j)' /\ ~InQueue(j)' /\ \A k \in Workers : ~WorkerHolds(k, j)'
                     /\ Len(queue') = 0
            <4>1. ~InHandler(j)'
                BY <2>1 DEF InHandler, HandlerHolds, NoUpdate
            <4>2. Len(queue') = 0
                BY <2>1
            <4>3. ~InQueue(j)'
                BY <4>2 DEF InQueue
            <4>4. \A k \in Workers : ~WorkerHolds(k, j)'
                BY <2>1, JobIsPair, NoneIsNothing DEF WorkerHolds, Idle
            <4>5. QED
                BY <4>1, <4>2, <4>3, <4>4
        <3>2. QED
            BY <3>1 DEF Held, WithWorker, HeldOnce
    <2>3. QED
        BY <2>2 DEF JobsHeldOnce
<1>5. UpHolds'
    BY DEF Forgets, UpHolds
<1>6. QED
    BY <1>1, <1>2, <1>3, <1>4, <1>5

LEMMA ExitStep ==
    ASSUME PipelineIInv, Exit
    PROVE  PipelineIInv'
BY ForgetsStep DEF Exit, PipelineIInv, PipelineTypeOK, BoundsOK, bounds

LEMMA CrashStep ==
    ASSUME PipelineIInv, Crash
    PROVE  PipelineIInv'
<1>1. BoundsOK'
    BY PipelineConstants DEF Crash, PipelineIInv, PipelineTypeOK, BoundsOK
<1>2. QED
    BY <1>1, ForgetsStep DEF Crash

LEMMA RecoveryFailsStep ==
    ASSUME PipelineIInv, NEW j \in Jobs, RecoveryFails(j)
    PROVE  PipelineIInv'
BY ForgetsStep, DbFaultKeeps DEF RecoveryFails, PipelineIInv

-----------------------------------------------------------------------------
(***************************************************************************)
(* Recovery.                                                               *)
(***************************************************************************)

LEMMA LoadBatchStep ==
    ASSUME PipelineIInv, LoadRecoveryBatch
    PROVE  PipelineIInv'
<1> USE DEF PipelineIInv
<1>1. /\ phase = "recovering" /\ recovery = NoBatch
      /\ UNCHANGED <<dbVars, fatal, policy, handler, queue, worker, judged, stranded, bounds>>
    BY DEF LoadRecoveryBatch
<1>2. /\ \A j \in Jobs : Pending(j)' = Pending(j)
      /\ PendingJobs' = PendingJobs
    BY <1>1 DEF Pending, PendingJobs, dbVars
<1>3. \/ PendingJobs = {} /\ phase' = "up" /\ UNCHANGED recovery
      \/ \E b \in SUBSET PendingJobs : recovery' = [batch |-> b, todo |-> b] /\ UNCHANGED phase
    BY DEF LoadRecoveryBatch
<1>4. TablesAgree' /\ HandsAreSound'
    BY <1>1 DEF TablesAgree, HandsAreSound, dbVars
<1>5. JobsHeldOnce'
    BY <1>1, <1>2, SameHands
<1>6. CASE PendingJobs = {} /\ phase' = "up" /\ UNCHANGED recovery
    <2>1. PipelineTypeOK'
        BY <1>1, <1>6 DEF PipelineTypeOK, dbVars, bounds
    <2>2. PhaseOwnsWork'
        BY <1>1, <1>2, <1>6 DEF PhaseOwnsWork
    <2>3. UpHolds'
        BY <1>2, <1>6 DEF UpHolds, PendingJobs
    <2>4. QED
        BY <1>4, <1>5, <2>1, <2>2, <2>3
<1>7. ASSUME NEW b \in SUBSET PendingJobs, recovery' = [batch |-> b, todo |-> b], UNCHANGED phase
      PROVE  PipelineIInv'
    <2>1. recovery' \in [batch : SUBSET Jobs, todo : SUBSET Jobs]
        BY <1>7 DEF PendingJobs
    <2>2. PipelineTypeOK'
        BY <1>1, <1>7, <2>1 DEF PipelineTypeOK, dbVars, bounds
    <2>3. PhaseOwnsWork'
        BY <1>1, <1>2, <1>7 DEF PhaseOwnsWork
    <2>4. UpHolds'
        BY <1>1, <1>7 DEF UpHolds
    <2>5. QED
        BY <1>4, <1>5, <2>2, <2>3, <2>4
<1>8. QED
    BY <1>3, <1>6, <1>7

LEMMA FinishBatchStep ==
    ASSUME PipelineIInv, FinishRecoveryBatch
    PROVE  PipelineIInv'
<1> USE DEF PipelineIInv
<1>1. CASE \E j \in recovery.batch : Pending(j)
    BY <1>1, ForgetsStep DEF FinishRecoveryBatch, PipelineTypeOK, BoundsOK, bounds
<1>2. CASE ~\E j \in recovery.batch : Pending(j)
    <2>1. /\ phase = "recovering" /\ recovery' = NoBatch
          /\ UNCHANGED <<dbVars, fatal, policy, judged, stranded, bounds, phase, handler, queue, worker>>
        BY <1>2 DEF FinishRecoveryBatch
    <2>2. PipelineTypeOK'
        BY <2>1, EmptyHands DEF PipelineTypeOK, dbVars, bounds
    <2>3. TablesAgree' /\ HandsAreSound'
        BY <2>1 DEF TablesAgree, HandsAreSound, dbVars
    <2>4. PhaseOwnsWork'
        BY <2>1, EmptyHands DEF PhaseOwnsWork
    <2>5. JobsHeldOnce'
        BY <2>1, SameHands DEF Pending, dbVars
    <2>6. UpHolds'
        BY <2>1 DEF UpHolds
    <2>7. QED
        BY <2>2, <2>3, <2>4, <2>5, <2>6
<1>3. QED
    BY <1>1, <1>2

\* A pending job that is recorded: its row is terminal with its alert, and no
\* other job sees it.
LEMMA RecordedJob ==
    ASSUME PipelineTypeOK, TablesAgree, NEW j \in Jobs, Pending(j), NEW o \in Outcomes,
           o.status \in {"completed", "failed"}, o.alert => o.status = "completed",
           RecordOutcome(j, o)
    PROVE  /\ ~Pending(j)'
           /\ \A i \in Jobs : i # j => Pending(i)' = Pending(i) /\ run'[i] = run[i] /\ alert'[i] = alert[i]
           /\ stored' = stored /\ fp' = fp
           /\ stored[j[1]] = "stored"
           /\ run'[j] = o
           /\ alert'[j] = IF o.alert THEN "pending" ELSE "absent"
<1>1. run[j].status = "pending" /\ stored[j[1]] = "stored" /\ alert[j] = "absent"
    BY DEF Pending, TablesAgree, PipelineTypeOK
<1>2. /\ run' = [run EXCEPT ![j] = o]
      /\ alert' = IF o.alert THEN [alert EXCEPT ![j] = "pending"] ELSE alert
      /\ stored' = stored /\ fp' = fp
    BY <1>1 DEF RecordOutcome
<1>3. QED
    BY <1>1, <1>2 DEF PipelineTypeOK, Pending

\* So the tables still agree, whoever judged the job.
LEMMA RecordAgrees ==
    ASSUME PipelineTypeOK, TablesAgree, NEW j \in Jobs, Pending(j), NEW o \in Outcomes,
           o.status \in {"completed", "failed"}, o.alert => o.status = "completed",
           RecordOutcome(j, o),
           \A i \in Jobs : i # j => judged'[i] = judged[i],
           judged'[j].by = "recovery" => judged'[j].version = fp[j]
    PROVE  TablesAgree'
<1>1. ASSUME NEW i \in Jobs, i # j
      PROVE  /\ stored'[i[1]] = "absent" =>
                    run'[i].status = "none" /\ alert'[i] = "absent" /\ judged'[i].by = "nobody"
             /\ alert'[i] # "absent" <=> run'[i].status = "completed" /\ run'[i].alert
             /\ judged'[i].by = "recovery" => judged'[i].version = fp'[i]
    BY <1>1, RecordedJob DEF TablesAgree
<1>2. /\ stored'[j[1]] = "stored"
      /\ alert'[j] # "absent" <=> run'[j].status = "completed" /\ run'[j].alert
      /\ fp' = fp
    BY RecordedJob
<1>3. QED
    BY <1>1, <1>2 DEF TablesAgree

\* A job leaves the batch; what is left of it is as pending as before.
LEMMA RecoveredStep ==
    ASSUME PipelineIInv, NEW j \in Jobs, phase = "recovering", j \in recovery.todo,
           recovery' = [recovery EXCEPT !.todo = @ \ {j}],
           UNCHANGED <<phase, fatal, policy, handler, queue, worker, stranded>>,
           PipelineTypeOK', TablesAgree',
           \A i \in Jobs : i # j => Pending(i)' = Pending(i)
    PROVE  PipelineIInv'
<1> USE DEF PipelineIInv
<1>1. handler = NoUpdate /\ queue = <<>> /\ worker = [k \in Workers |-> Idle]
    BY DEF PhaseOwnsWork
<1>2. \A i \in Jobs : ~Held(i)
    BY <1>1, NoHands
<1>3. HandsAreSound' /\ UpHolds'
    BY DEF HandsAreSound, UpHolds
<1>4. JobsHeldOnce'
    BY <1>2, SameHands
<1>5. recovery'.todo = recovery.todo \ {j} /\ recovery.todo \subseteq Jobs
    BY DEF PipelineTypeOK
<1>6. PhaseOwnsWork'
    BY <1>5 DEF PhaseOwnsWork, PendingJobs
<1>7. QED
    BY <1>3, <1>4, <1>6

LEMMA RefuseStaleStep ==
    ASSUME PipelineIInv, NEW j \in Jobs, RefuseStaleJob(j)
    PROVE  PipelineIInv'
<1> USE DEF PipelineIInv
<1>1. /\ phase = "recovering" /\ j \in recovery.todo /\ RecordOutcome(j, Refusal)
      /\ recovery' = [recovery EXCEPT !.todo = @ \ {j}]
      /\ UNCHANGED <<phase, fatal, policy, handler, queue, worker, judged, stranded, bounds>>
    BY DEF RefuseStaleJob
<1>2. Pending(j)
    BY <1>1 DEF PhaseOwnsWork, PendingJobs
<1>3. PipelineTypeOK'
    BY <1>1, RefusalIsTerminal, RecordTypes DEF PipelineTypeOK, bounds
<1>4. TablesAgree'
    BY <1>1, <1>2, RefusalIsTerminal, RecordAgrees DEF TablesAgree
<1>5. \A i \in Jobs : i # j => Pending(i)' = Pending(i)
    BY <1>1, <1>2, RefusalIsTerminal, RecordedJob
<1>6. QED
    BY <1>1, <1>3, <1>4, <1>5, RecoveredStep

LEMMA RecoverJobStep ==
    ASSUME PipelineIInv, NEW j \in Jobs, RecoverJob(j)
    PROVE  PipelineIInv'
<1> USE DEF PipelineIInv
<1> DEFINE p == PolicyOf[j[2]][policy[j[2]]]
<1>1. /\ phase = "recovering" /\ j \in recovery.todo /\ policy[j[2]] = fp[j]
      /\ recovery' = [recovery EXCEPT !.todo = @ \ {j}]
      /\ UNCHANGED <<phase, fatal, policy, handler, queue, worker, stranded>>
    BY DEF RecoverJob, Stale
<1>2. Pending(j) /\ policy[j[2]] \in Versions \cup {Removed}
    BY <1>1, JobIsPair DEF PhaseOwnsWork, PendingJobs, PipelineTypeOK
<1>3. recovery' \in [batch : SUBSET Jobs, todo : SUBSET Jobs]
    BY <1>1 DEF PipelineTypeOK
<1>4. ASSUME NEW s \in Signals, RecordOutcome(j, Judge(p, s)), UNCHANGED bounds,
             judged' = [judged EXCEPT ![j] = [by |-> "recovery", version |-> policy[j[2]]]]
      PROVE  PipelineIInv'
    <2>1. PipelineTypeOK'
        BY <1>1, <1>2, <1>3, <1>4, JudgeIsTerminal, RecordTypes DEF PipelineTypeOK, bounds
    <2>2. TablesAgree'
        BY <1>1, <1>2, <1>4, JudgeIsTerminal, RecordAgrees DEF PipelineTypeOK
    <2>3. \A i \in Jobs : i # j => Pending(i)' = Pending(i)
        BY <1>2, <1>4, JudgeIsTerminal, RecordedJob
    <2>4. QED
        BY <1>1, <2>1, <2>2, <2>3, RecoveredStep
<1>5. CASE UNCHANGED <<dbVars, judged>> /\ BoundsOK'
    <2>1. PipelineTypeOK'
        BY <1>1, <1>3, <1>5 DEF PipelineTypeOK, dbVars, BoundsOK
    <2>2. TablesAgree' /\ \A i \in Jobs : Pending(i)' = Pending(i)
        BY <1>5 DEF TablesAgree, Pending, dbVars
    <2>3. QED
        BY <1>1, <2>1, <2>2, RecoveredStep
<1>6. BoundsOK
    BY DEF PipelineTypeOK, BoundsOK
<1>7. QED
    BY <1>4, <1>5, <1>6, DbFaultKeeps DEF RecoverJob, BoundsOK, bounds

-----------------------------------------------------------------------------
(***************************************************************************)
(* The update handler.                                                     *)
(***************************************************************************)

\* While the daemon runs there is no batch.
LEMMA RunningOwns ==
    ASSUME PhaseOwnsWork, phase \in {"up", "draining"}, UNCHANGED <<phase, recovery>>
    PROVE  PhaseOwnsWork'
BY EmptyHands DEF PhaseOwnsWork

\* A handler that is not putting holds nothing.
LEMMA HandlerElsewhere ==
    ASSUME handler.pc # "putting", handler'.pc # "putting", UNCHANGED <<queue, worker>>,
           phase' = phase, stranded' = stranded, JobsHeldOnce, UpHolds,
           \A j \in Jobs : Pending(j)' = Pending(j)
    PROVE  JobsHeldOnce' /\ UpHolds'
<1>1. \A j \in Jobs : /\ InHandler(j)' = InHandler(j) /\ InQueue(j)' = InQueue(j)
                      /\ WithWorker(j)' = WithWorker(j)
    BY DEF InHandler, HandlerHolds, InQueue, QueueHolds, WithWorker, WorkerHolds
<1>2. JobsHeldOnce'
    BY <1>1 DEF JobsHeldOnce, HeldOnce, Held, QueueHolds, WorkerHolds
<1>3. QED
    BY <1>1, <1>2 DEF UpHolds, Held

LEMMA ReceiveStep ==
    ASSUME PipelineIInv, NEW m \in Messages, ReceiveUpdate(m)
    PROVE  PipelineIInv'
<1> USE DEF PipelineIInv
<1>1. /\ phase = "up" /\ handler.pc = "idle"
      /\ handler' = [pc |-> "storing", msg |-> m, watchers |-> {w \in Watchers : policy[w] # Removed},
                     fps |-> policy, attempt |-> 1]
      /\ UNCHANGED <<dbVars, phase, fatal, policy, queue, worker, recovery, judged, stranded, bounds>>
    BY DEF ReceiveUpdate
<1>2. handler' \in HandlerStates
    BY <1>1, PipelineConstants DEF HandlerStates, PipelineTypeOK
<1>3. PipelineTypeOK'
    BY <1>1, <1>2 DEF PipelineTypeOK, dbVars, bounds
<1>4. TablesAgree' /\ HandsAreSound'
    BY <1>1 DEF TablesAgree, HandsAreSound, dbVars
<1>5. PhaseOwnsWork'
    BY <1>1, RunningOwns
<1>6. JobsHeldOnce' /\ UpHolds'
    BY <1>1, HandlerElsewhere DEF Pending, dbVars
<1>7. QED
    BY <1>3, <1>4, <1>5, <1>6

LEMMA StoreFailsStep ==
    ASSUME PipelineIInv, StoreFails
    PROVE  PipelineIInv'
<1> USE DEF PipelineIInv
<1>1. /\ phase \in {"up", "draining"} /\ handler.pc = "storing" /\ DbFault
      /\ UNCHANGED <<phase, policy, queue, worker, recovery, judged, stranded>>
    BY DEF StoreFails, HandlerMayRun
<1>2. \/ handler.attempt < StoreAttempts /\ handler' = [handler EXCEPT !.pc = "backoff"] /\ fatal' = fatal
      \/ handler' = NoUpdate /\ fatal' = TRUE
    BY DEF StoreFails
<1>3. UNCHANGED dbVars /\ BoundsOK'
    BY <1>1, DbFaultKeeps
<1>4. handler' \in HandlerStates /\ handler'.pc # "putting" /\ fatal' \in BOOLEAN
    BY <1>2, EmptyHands DEF PipelineTypeOK, HandlerStates
<1>5. PipelineTypeOK'
    BY <1>1, <1>3, <1>4 DEF PipelineTypeOK, dbVars, BoundsOK
<1>6. TablesAgree'
    BY <1>1, <1>3 DEF TablesAgree, dbVars
<1>7. HandsAreSound'
    <2>1. CASE handler' = NoUpdate
        BY <1>1, <2>1, EmptyHands DEF HandsAreSound
    <2>2. CASE handler.attempt < StoreAttempts /\ handler' = [handler EXCEPT !.pc = "backoff"]
        <3>1. handler'.msg = handler.msg /\ handler'.attempt = handler.attempt
            BY <2>2 DEF PipelineTypeOK, HandlerStates
        <3>2. QED
            BY <1>1, <2>2, <3>1 DEF HandsAreSound
    <2>3. QED
        BY <1>2, <2>1, <2>2
<1>8. PhaseOwnsWork'
    BY <1>1, RunningOwns
<1>9. JobsHeldOnce' /\ UpHolds'
    BY <1>1, <1>3, <1>4, HandlerElsewhere DEF Pending, dbVars
<1>10. QED
    BY <1>5, <1>6, <1>7, <1>8, <1>9

LEMMA RetryStoreStep ==
    ASSUME PipelineIInv, RetryStore
    PROVE  PipelineIInv'
<1> USE DEF PipelineIInv
<1>1. /\ phase \in {"up", "draining"} /\ handler.pc = "backoff"
      /\ UNCHANGED <<dbVars, phase, policy, queue, worker, recovery, judged, stranded, bounds>>
    BY DEF RetryStore, HandlerMayRun
<1>2. \/ handler' = NoUpdate /\ fatal' = TRUE
      \/ /\ handler' = [handler EXCEPT !.pc = "storing", !.attempt = handler.attempt + 1, !.fps = policy]
         /\ fatal' = fatal
    BY DEF RetryStore
<1>3. handler.attempt + 1 \in 0..StoreAttempts /\ handler.msg \in Messages
    BY <1>1, PipelineConstants DEF PipelineTypeOK, HandlerStates, HandsAreSound
<1>4. /\ handler' \in HandlerStates /\ handler'.pc \in {"idle", "storing"} /\ fatal' \in BOOLEAN
      /\ handler'.pc # "idle" => handler'.msg \in Messages
    <2>1. CASE handler' = NoUpdate /\ fatal' = TRUE
        BY <2>1, EmptyHands
    <2>2. CASE /\ handler' = [handler EXCEPT !.pc = "storing", !.attempt = handler.attempt + 1, !.fps = policy]
               /\ fatal' = fatal
        <3>1. ASSUME NEW a \in 0..StoreAttempts, NEW f \in [Watchers -> Versions \cup {Removed}]
              PROVE  /\ [handler EXCEPT !.pc = "storing", !.attempt = a, !.fps = f] \in HandlerStates
                     /\ [handler EXCEPT !.pc = "storing", !.attempt = a, !.fps = f].msg = handler.msg
                     /\ [handler EXCEPT !.pc = "storing", !.attempt = a, !.fps = f].pc = "storing"
            BY DEF PipelineTypeOK, HandlerStates
        <3>2. policy \in [Watchers -> Versions \cup {Removed}] /\ fatal \in BOOLEAN
            BY DEF PipelineTypeOK
        <3>3. /\ handler' \in HandlerStates /\ handler'.msg = handler.msg /\ handler'.pc = "storing"
            BY <1>3, <2>2, <3>1, <3>2
        <3>4. QED
            BY <1>3, <2>2, <3>2, <3>3
    <2>3. QED
        BY <1>2, <2>1, <2>2
<1>5. PipelineTypeOK'
    BY <1>1, <1>4 DEF PipelineTypeOK, dbVars, bounds
<1>6. TablesAgree' /\ HandsAreSound'
    BY <1>1, <1>4 DEF TablesAgree, HandsAreSound, dbVars
<1>7. PhaseOwnsWork'
    BY <1>1, RunningOwns
<1>8. JobsHeldOnce' /\ UpHolds'
    BY <1>1, <1>4, HandlerElsewhere DEF Pending, dbVars
<1>9. QED
    BY <1>5, <1>6, <1>7, <1>8

LEMMA CancelStep ==
    ASSUME PipelineIInv, CancelHandler
    PROVE  PipelineIInv'
<1> USE DEF PipelineIInv
<1>1. /\ phase = "draining" /\ handler' = NoUpdate
      /\ UNCHANGED <<dbVars, phase, fatal, policy, queue, worker, recovery, judged, stranded, bounds>>
    BY DEF CancelHandler
<1>2. PipelineTypeOK'
    BY <1>1, EmptyHands DEF PipelineTypeOK, dbVars, bounds
<1>3. TablesAgree' /\ HandsAreSound' /\ UpHolds'
    BY <1>1, EmptyHands DEF TablesAgree, HandsAreSound, UpHolds, dbVars
<1>4. PhaseOwnsWork'
    BY <1>1, RunningOwns
<1>5. JobsHeldOnce'
    <2>1. \A j \in Jobs : /\ ~InHandler(j)' /\ InQueue(j)' = InQueue(j) /\ WithWorker(j)' = WithWorker(j)
                          /\ Pending(j)' = Pending(j)
        BY <1>1 DEF InHandler, HandlerHolds, InQueue, QueueHolds, WithWorker, WorkerHolds, NoUpdate,
            Pending, dbVars
    <2>2. QED
        BY <1>1, <2>1 DEF JobsHeldOnce, HeldOnce, Held, QueueHolds, WorkerHolds
<1>6. QED
    BY <1>2, <1>3, <1>4, <1>5

\* What store_message commits for a new message: one pending job per watcher.
StoresNew(m) ==
    /\ stored[m] = "absent"
    /\ stored' = [stored EXCEPT ![m] = "stored"]
    /\ run' = [j \in Jobs |-> IF j[1] = m /\ j[2] \in handler.watchers THEN Unjudged ELSE run[j]]
    /\ fp' = [j \in Jobs |-> IF j[1] = m /\ j[2] \in handler.watchers THEN handler.fps[j[2]] ELSE fp[j]]
    /\ handler' = [handler EXCEPT !.pc = "putting"]
    /\ UNCHANGED <<expired, alert, alertSent, stats>>

LEMMA NewMessageStep ==
    ASSUME PipelineIInv, NEW m \in Messages, m = handler.msg, handler.pc = "storing",
           phase \in {"up", "draining"}, StoresNew(m),
           UNCHANGED <<phase, fatal, policy, queue, worker, recovery, judged, stranded, bounds>>
    PROVE  PipelineIInv'
<1> USE DEF PipelineIInv
<1>1. /\ handler' \in HandlerStates /\ handler'.pc = "putting" /\ handler'.msg = m
      /\ handler'.watchers = handler.watchers /\ handler.watchers \subseteq Watchers
    BY DEF StoresNew, PipelineTypeOK, HandlerStates
<1>2. \A j \in Jobs : /\ j[1] = m => run[j].status = "none" /\ alert[j] = "absent" /\ judged[j].by = "nobody"
                      /\ j[1] = m /\ j[2] \in handler.watchers => run'[j] = Unjudged
                      /\ ~(j[1] = m /\ j[2] \in handler.watchers) => run'[j] = run[j] /\ fp'[j] = fp[j]
                      /\ stored'[j[1]] = IF j[1] = m THEN "stored" ELSE stored[j[1]]
    BY JobIsPair DEF StoresNew, TablesAgree, PipelineTypeOK
<1>3. PipelineTypeOK'
    <2>1. /\ stored' \in [Messages -> {"absent", "stored", "purged"}]
          /\ run' \in [Jobs -> Outcomes]
          /\ fp' \in [Jobs -> Versions \cup {Removed}]
        BY UnjudgedIsPending, JobIsPair DEF StoresNew, PipelineTypeOK, HandlerStates
    <2>2. QED
        BY <1>1, <2>1 DEF StoresNew, PipelineTypeOK, bounds
<1>4. TablesAgree'
    <2>1. ASSUME NEW j \in Jobs
          PROVE  /\ stored'[j[1]] = "absent" =>
                        run'[j].status = "none" /\ alert'[j] = "absent" /\ judged'[j].by = "nobody"
                 /\ alert'[j] # "absent" <=> run'[j].status = "completed" /\ run'[j].alert
                 /\ judged'[j].by = "recovery" => judged'[j].version = fp'[j]
        <3>1. alert' = alert /\ judged' = judged
            BY DEF StoresNew
        <3>2. CASE j[1] = m /\ j[2] \in handler.watchers
            BY <1>2, <3>1, <3>2, UnjudgedIsPending
        <3>3. CASE ~(j[1] = m /\ j[2] \in handler.watchers)
            BY <1>2, <3>1, <3>3 DEF TablesAgree
        <3>4. QED
            BY <3>2, <3>3
    <2>2. QED
        BY <2>1 DEF TablesAgree
<1>5. HandsAreSound'
    BY <1>1 DEF HandsAreSound
<1>6. PhaseOwnsWork'
    BY RunningOwns
<1>7. \A j \in Jobs : /\ Pending(j)' <=> Pending(j) \/ (j[1] = m /\ j[2] \in handler.watchers)
                      /\ j[1] = m => ~Pending(j)
    <2>1. \A j \in Jobs : Pending(j) <=> stored[j[1]] = "stored" /\ run[j].status = "pending"
        BY DEF Pending
    <2>2. \A j \in Jobs : Pending(j)' <=> stored'[j[1]] = "stored" /\ run'[j].status = "pending"
        BY DEF Pending
    <2>3. stored[m] = "absent"
        BY DEF StoresNew
    <2>4. QED
        BY <1>2, <2>1, <2>2, <2>3, UnjudgedIsPending
<1>8. \A j \in Jobs : /\ ~InHandler(j) /\ InQueue(j)' = InQueue(j) /\ WithWorker(j)' = WithWorker(j)
                      /\ InHandler(j)' <=> j[1] = m /\ j[2] \in handler.watchers
    BY <1>1 DEF InHandler, HandlerHolds, InQueue, QueueHolds, WithWorker, WorkerHolds
<1>9. JobsHeldOnce'
    <2>1. ASSUME NEW j \in Jobs
          PROVE  /\ Held(j)' => Pending(j)'
                 /\ InHandler(j)' => ~InQueue(j)' /\ ~WithWorker(j)'
                 /\ InQueue(j)' => ~WithWorker(j)'
        BY <1>7, <1>8 DEF Held, JobsHeldOnce, HeldOnce
    <2>2. QED
        BY <2>1 DEF JobsHeldOnce, HeldOnce, QueueHolds, WorkerHolds
<1>10. UpHolds'
    BY <1>7, <1>8 DEF UpHolds, Held
<1>11. QED
    BY <1>3, <1>4, <1>5, <1>6, <1>9, <1>10

LEMMA StoreMessageStep ==
    ASSUME PipelineIInv, StoreMessage
    PROVE  PipelineIInv'
<1> USE DEF PipelineIInv
<1>1. /\ phase \in {"up", "draining"} /\ handler.pc = "storing" /\ handler.msg \in Messages
      /\ UNCHANGED <<phase, fatal, policy, queue, worker, recovery, judged, stranded, bounds>>
    BY DEF StoreMessage, HandlerMayRun, HandsAreSound
<1>2. CASE stored[handler.msg] = "absent"
    <2>1. StoresNew(handler.msg)
        BY <1>2 DEF StoreMessage, StoresNew
    <2>2. QED
        BY <1>1, <2>1, NewMessageStep
<1>3. CASE stored[handler.msg] # "absent"
    <2>1. handler' = NoUpdate /\ UNCHANGED dbVars
        BY <1>3 DEF StoreMessage
    <2>2. PipelineTypeOK'
        BY <1>1, <2>1, EmptyHands DEF PipelineTypeOK, dbVars, bounds
    <2>3. TablesAgree' /\ HandsAreSound'
        BY <1>1, <2>1, EmptyHands DEF TablesAgree, HandsAreSound, dbVars
    <2>4. PhaseOwnsWork'
        BY <1>1, RunningOwns
    <2>5. JobsHeldOnce' /\ UpHolds'
        BY <1>1, <2>1, EmptyHands, HandlerElsewhere DEF Pending, dbVars
    <2>6. QED
        BY <2>2, <2>3, <2>4, <2>5
<1>4. QED
    BY <1>2, <1>3

LEMMA PutStep ==
    ASSUME PipelineIInv, PutWorkItem
    PROVE  PipelineIInv'
<1> USE DEF PipelineIInv
<1> DEFINE item == [msg |-> handler.msg, watchers |-> handler.watchers]
<1>0. PICK n \in Nat : n = Len(queue)
    BY LenProperties DEF PipelineTypeOK
<1>1. /\ phase \in {"up", "draining"} /\ handler.pc = "putting" /\ n < QueueSize
      /\ queue' = Append(queue, item) /\ handler' = NoUpdate
      /\ UNCHANGED <<dbVars, phase, fatal, policy, worker, recovery, judged, stranded, bounds>>
    BY <1>0 DEF PutWorkItem, HandlerMayRun
<1>2. item \in WorkItems /\ queue \in Seq(WorkItems)
    BY <1>1 DEF PipelineTypeOK, HandlerStates, WorkItems, HandsAreSound
<1>3. /\ queue' \in Seq(WorkItems) /\ Len(queue') = n + 1
      /\ \A i \in 1..n : queue'[i] = queue[i]
      /\ queue'[n + 1] = item
    BY <1>0, <1>1, <1>2, AppendProperties
<1>4. PipelineTypeOK'
    BY <1>1, <1>2, <1>3, EmptyHands, PipelineConstants DEF PipelineTypeOK, dbVars, bounds
<1>5. TablesAgree' /\ HandsAreSound'
    BY <1>1, EmptyHands DEF TablesAgree, HandsAreSound, dbVars
<1>6. PhaseOwnsWork'
    BY <1>1, RunningOwns
<1>7. ASSUME NEW j \in Jobs
      PROVE  /\ ~InHandler(j)' /\ WithWorker(j)' = WithWorker(j) /\ Pending(j)' = Pending(j)
             /\ \A i \in 1..n : QueueHolds(i, j)' = QueueHolds(i, j)
             /\ QueueHolds(n + 1, j)' = InHandler(j)
    <2>1. ~InHandler(j)'
        BY <1>1 DEF InHandler, HandlerHolds, NoUpdate
    <2>2. WithWorker(j)' = WithWorker(j) /\ Pending(j)' = Pending(j)
        BY <1>1 DEF WithWorker, WorkerHolds, Pending, dbVars
    <2>3. \A i \in 1..n : QueueHolds(i, j)' = QueueHolds(i, j)
        BY <1>3 DEF QueueHolds
    <2>4. QueueHolds(n + 1, j)' = InHandler(j)
        BY <1>1, <1>3 DEF QueueHolds, InHandler, HandlerHolds
    <2>5. QED
        BY <2>1, <2>2, <2>3, <2>4
<1>8. ASSUME NEW j \in Jobs
      PROVE  InQueue(j)' <=> InQueue(j) \/ InHandler(j)
    <2>1. InQueue(j)' <=> \E i \in 1..n + 1 : QueueHolds(i, j)'
        BY <1>3 DEF InQueue
    <2>2. \A i \in 1..n + 1 : i \in 1..n \/ i = n + 1
        BY <1>2
    <2>3. 1..n \subseteq 1..n + 1 /\ n + 1 \in 1..n + 1
        BY <1>2
    <2>4. QED
        BY <1>0, <1>7, <2>1, <2>2, <2>3 DEF InQueue
<1>9. JobsHeldOnce'
    <2>1. ASSUME NEW j \in Jobs
          PROVE  HeldOnce(j)'
        <3>1. HeldOnce(j)
            BY DEF JobsHeldOnce
        <3>2. /\ Held(j)' => Pending(j)'
              /\ InHandler(j)' => ~InQueue(j)' /\ ~WithWorker(j)'
              /\ InQueue(j)' => ~WithWorker(j)'
            BY <1>7, <1>8, <3>1 DEF Held, HeldOnce
        <3>3. \A k, l \in Workers : WorkerHolds(k, j)' /\ WorkerHolds(l, j)' => k = l
            BY <1>1, <3>1 DEF HeldOnce, WorkerHolds
        <3>4. ASSUME NEW i \in 1..n + 1, NEW l \in 1..n + 1, QueueHolds(i, j)', QueueHolds(l, j)'
              PROVE  i = l
            <4>1. CASE i \in 1..n /\ l \in 1..n
                BY <1>0, <1>7, <3>1, <3>4, <4>1 DEF HeldOnce
            <4>2. CASE i = n + 1 /\ l # n + 1
                <5>1. l \in 1..n
                    BY <1>2, <4>2
                <5>2. InHandler(j) /\ InQueue(j)
                    BY <1>7, <3>4, <4>2, <5>1, <1>0 DEF InQueue
                <5>3. QED
                    BY <3>1, <5>2 DEF HeldOnce
            <4>3. CASE l = n + 1 /\ i # n + 1
                <5>1. i \in 1..n
                    BY <1>2, <4>3
                <5>2. InHandler(j) /\ InQueue(j)
                    BY <1>7, <3>4, <4>3, <5>1, <1>0 DEF InQueue
                <5>3. QED
                    BY <3>1, <5>2 DEF HeldOnce
            <4>4. QED
                BY <1>2, <4>1, <4>2, <4>3
        <3>5. \A i, l \in 1..Len(queue') : QueueHolds(i, j)' /\ QueueHolds(l, j)' => i = l
            BY <1>3, <3>4
        <3>6. QED
            BY <3>2, <3>3, <3>5 DEF HeldOnce
    <2>2. QED
        BY <2>1 DEF JobsHeldOnce
<1>10. UpHolds'
    BY <1>1, <1>7, <1>8 DEF UpHolds, Held
<1>11. QED
    BY <1>4, <1>5, <1>6, <1>9, <1>10

-----------------------------------------------------------------------------
(***************************************************************************)
(* The workers.                                                            *)
(***************************************************************************)

\* A worker that only lets go of jobs, each of them settled or stranded.
LEMMA LetsGo ==
    ASSUME JobsHeldOnce, UpHolds, NEW k \in Workers,
           UNCHANGED <<handler, queue, phase>>,
           \A n \in Workers : n # k => worker'[n] = worker[n],
           stranded \subseteq stranded',
           \A j \in Jobs : WorkerHolds(k, j)' => WorkerHolds(k, j) /\ Pending(j)' = Pending(j),
           \A j \in Jobs : Pending(j)' => Pending(j),
           \A j \in Jobs : ~WorkerHolds(k, j) => Pending(j)' = Pending(j),
           \A j \in Jobs : WorkerHolds(k, j) =>
               WorkerHolds(k, j)' \/ ~Pending(j)' \/ j \in stranded'
    PROVE  JobsHeldOnce' /\ UpHolds'
<1>1. \A j \in Jobs : /\ InHandler(j)' = InHandler(j) /\ InQueue(j)' = InQueue(j)
                      /\ \A i \in 1..Len(queue) : QueueHolds(i, j)' = QueueHolds(i, j)
                      /\ \A n \in Workers : n # k => WorkerHolds(n, j)' = WorkerHolds(n, j)
    BY DEF InHandler, HandlerHolds, InQueue, QueueHolds, WorkerHolds
<1>2. \A j \in Jobs : WithWorker(j)' => WithWorker(j)
    BY <1>1 DEF WithWorker
<1>3. \A j \in Jobs : Held(j)' => Held(j)
    BY <1>1, <1>2 DEF Held
<1>4. ASSUME NEW j \in Jobs, Held(j)'
      PROVE  Pending(j)'
    <2>1. HeldOnce(j)
        BY DEF JobsHeldOnce
    <2>2. CASE WorkerHolds(k, j)
        <3>1. ~InHandler(j) /\ ~InQueue(j) /\ \A n \in Workers : n # k => ~WorkerHolds(n, j)
            BY <2>1, <2>2 DEF HeldOnce, WithWorker
        <3>2. WorkerHolds(k, j)'
            BY <1>1, <1>4, <3>1 DEF Held, WithWorker
        <3>3. QED
            BY <2>1, <2>2, <3>2 DEF HeldOnce, Held, WithWorker
    <2>3. CASE ~WorkerHolds(k, j)
        BY <1>3, <1>4, <2>1, <2>3 DEF HeldOnce
    <2>4. QED
        BY <2>2, <2>3
<1>5. JobsHeldOnce'
    <2>1. ASSUME NEW j \in Jobs
          PROVE  HeldOnce(j)'
        <3>1. HeldOnce(j)
            BY DEF JobsHeldOnce
        <3>2. /\ InHandler(j)' => ~InQueue(j)' /\ ~WithWorker(j)'
              /\ InQueue(j)' => ~WithWorker(j)'
            BY <1>1, <1>2, <3>1 DEF HeldOnce
        <3>3. \A i, n \in 1..Len(queue') : QueueHolds(i, j)' /\ QueueHolds(n, j)' => i = n
            BY <3>1 DEF HeldOnce, QueueHolds
        <3>4. \A l, n \in Workers : WorkerHolds(l, j)' /\ WorkerHolds(n, j)' => l = n
            BY <1>1, <3>1 DEF HeldOnce
        <3>5. QED
            BY <1>4, <3>2, <3>3, <3>4 DEF HeldOnce
    <2>2. QED
        BY <2>1 DEF JobsHeldOnce
<1>6. UpHolds'
    <2>1. ASSUME NEW j \in Jobs, phase = "up", Pending(j)', j \notin stranded'
          PROVE  Held(j)'
        <3>1. Held(j)
            BY <2>1 DEF UpHolds
        <3>2. QED
            BY <1>1, <2>1, <3>1 DEF Held, WithWorker
    <2>2. QED
        BY <2>1 DEF UpHolds
<1>7. QED
    BY <1>5, <1>6

\* The worker's fields are what they are typed to be.
LEMMA WorkerFields ==
    ASSUME PipelineTypeOK, NEW k \in Workers
    PROVE  /\ worker[k].msg \in Messages \cup {None}
           /\ worker[k].todo \subseteq Watchers
           /\ worker[k].current \in Watchers \cup {None}
           /\ worker[k].version \in Versions \cup {Removed}
           /\ worker[k] \in WorkerStates
BY DEF PipelineTypeOK, WorkerStates

LEMMA BeginStep ==
    ASSUME PipelineIInv, NEW k \in Workers, NEW w \in Watchers, BeginJob(k, w)
    PROVE  PipelineIInv'
<1> USE DEF PipelineIInv
<1> DEFINE busy == [worker[k] EXCEPT !.todo = worker[k].todo \ {w}, !.current = w, !.version = policy[w]]
<1>1. /\ phase \in {"up", "draining"} /\ worker[k].current = None /\ w \in worker[k].todo
      /\ worker' = [worker EXCEPT ![k] = busy]
      /\ UNCHANGED <<dbVars, phase, fatal, policy, handler, queue, recovery, judged, stranded, bounds>>
    BY DEF BeginJob, WorkersRun
<1>2. /\ busy \in WorkerStates /\ busy.msg = worker[k].msg /\ busy.todo = worker[k].todo \ {w}
      /\ busy.current = w
    <2>1. policy[w] \in Versions \cup {Removed}
        BY DEF PipelineTypeOK
    <2>2. QED
        BY <2>1, WorkerFields DEF WorkerStates
<1>3. worker'[k] = busy /\ \A n \in Workers : n # k => worker'[n] = worker[n]
    BY <1>1 DEF PipelineTypeOK
<1> HIDE DEF busy
<1>4. PipelineTypeOK'
    BY <1>1, <1>2 DEF PipelineTypeOK, dbVars, bounds
<1>5. TablesAgree'
    BY <1>1 DEF TablesAgree, dbVars
<1>6. HandsAreSound'
    BY <1>1, <1>2, <1>3 DEF HandsAreSound
<1>7. PhaseOwnsWork'
    BY <1>1, RunningOwns
<1>8. \A j \in Jobs : Pending(j)' = Pending(j) /\ (WorkerHolds(k, j)' <=> WorkerHolds(k, j))
    <2>1. \A j \in Jobs : Pending(j)' = Pending(j)
        BY <1>1 DEF Pending, dbVars
    <2>2. ASSUME NEW j \in Jobs
          PROVE  WorkerHolds(k, j)' <=> WorkerHolds(k, j)
        <3>1. WorkerHolds(k, j)' <=> worker'[k].msg = j[1] /\ (j[2] \in worker'[k].todo \/ j[2] = worker'[k].current)
            BY DEF WorkerHolds
        <3>2. WorkerHolds(k, j) <=> worker[k].msg = j[1] /\ (j[2] \in worker[k].todo \/ j[2] = worker[k].current)
            BY DEF WorkerHolds
        <3>3. j[2] # None
            BY JobIsPair, NoneIsNothing
        <3>4. QED
            BY <1>1, <1>2, <1>3, <3>1, <3>2, <3>3
    <2>3. QED
        BY <2>1, <2>2
<1>9. JobsHeldOnce' /\ UpHolds'
    BY <1>1, <1>3, <1>8, LetsGo
<1>10. QED
    BY <1>4, <1>5, <1>6, <1>7, <1>9

LEMMA TakeStep ==
    ASSUME PipelineIInv, NEW k \in Workers, TakeWorkItem(k)
    PROVE  PipelineIInv'
<1> USE DEF PipelineIInv
<1> DEFINE taken == [Idle EXCEPT !.msg = Head(queue).msg, !.todo = Head(queue).watchers]
<1>0. PICK n \in Nat : n = Len(queue)
    BY LenProperties DEF PipelineTypeOK
<1>1. /\ phase \in {"up", "draining"} /\ worker[k].todo = {} /\ worker[k].current = None /\ queue # <<>>
      /\ worker' = [worker EXCEPT ![k] = taken] /\ queue' = Tail(queue)
      /\ UNCHANGED <<dbVars, phase, fatal, policy, handler, recovery, judged, stranded, bounds>>
    BY DEF TakeWorkItem, WorkersRun, Free
<1>2. /\ n >= 1 /\ Head(queue) = queue[1] /\ queue[1] \in WorkItems
      /\ queue' \in Seq(WorkItems) /\ Len(queue') = n - 1
      /\ \A i \in 1..n - 1 : queue'[i] = queue[i + 1]
    <2>1. queue \in Seq(WorkItems)
        BY DEF PipelineTypeOK
    <2>2. n >= 1 /\ Head(queue) = queue[1]
        BY <1>0, <1>1, <2>1, EmptySeq
    <2>3. QED
        BY <1>0, <1>1, <2>1, <2>2, HeadTailProperties
<1>3. /\ taken \in WorkerStates /\ taken.msg = queue[1].msg /\ taken.todo = queue[1].watchers
      /\ taken.current = None /\ queue[1].msg \in Messages
    <2>1. queue[1].msg \in Messages /\ queue[1].watchers \in SUBSET Watchers
        BY <1>2 DEF WorkItems
    <2>2. QED
        BY <1>2, <2>1 DEF Idle, WorkerStates
<1>4. worker'[k] = taken /\ \A l \in Workers : l # k => worker'[l] = worker[l]
    BY <1>1 DEF PipelineTypeOK
<1> HIDE DEF taken
<1>5. PipelineTypeOK'
    <2>1. Len(queue') <= QueueSize
        BY <1>0, <1>2, PipelineConstants DEF PipelineTypeOK
    <2>2. QED
        BY <1>1, <1>2, <1>3, <2>1 DEF PipelineTypeOK, dbVars, bounds
<1>6. TablesAgree'
    BY <1>1 DEF TablesAgree, dbVars
<1>7. HandsAreSound'
    BY <1>1, <1>3, <1>4 DEF HandsAreSound
<1>8. PhaseOwnsWork'
    BY <1>1, RunningOwns
<1>9. ASSUME NEW j \in Jobs
      PROVE  /\ InHandler(j)' = InHandler(j) /\ Pending(j)' = Pending(j)
             /\ ~WorkerHolds(k, j)
             /\ WorkerHolds(k, j)' = QueueHolds(1, j)
             /\ \A l \in Workers : l # k => WorkerHolds(l, j)' = WorkerHolds(l, j)
             /\ \A i \in 1..n - 1 : QueueHolds(i, j)' = QueueHolds(i + 1, j)
    <2>1. InHandler(j)' = InHandler(j) /\ Pending(j)' = Pending(j)
        BY <1>1 DEF InHandler, HandlerHolds, Pending, dbVars
    <2>2. j[2] # None
        BY JobIsPair, NoneIsNothing
    <2>3. ~WorkerHolds(k, j)
        BY <1>1, <2>2 DEF WorkerHolds
    <2>4. WorkerHolds(k, j)' = QueueHolds(1, j)
        BY <1>3, <1>4, <2>2 DEF WorkerHolds, QueueHolds
    <2>5. \A l \in Workers : l # k => WorkerHolds(l, j)' = WorkerHolds(l, j)
        BY <1>4 DEF WorkerHolds
    <2>6. \A i \in 1..n - 1 : QueueHolds(i, j)' = QueueHolds(i + 1, j)
        BY <1>2 DEF QueueHolds
    <2>7. QED
        BY <2>1, <2>3, <2>4, <2>5, <2>6
<1>10. ASSUME NEW j \in Jobs
       PROVE  /\ InQueue(j) <=> InQueue(j)' \/ QueueHolds(1, j)
              /\ WithWorker(j)' <=> WithWorker(j) \/ QueueHolds(1, j)
    <2>1. InQueue(j) <=> \E i \in 1..n : QueueHolds(i, j)
        BY <1>0 DEF InQueue
    <2>2. InQueue(j)' <=> \E i \in 1..n - 1 : QueueHolds(i, j)'
        BY <1>2 DEF InQueue
    <2>3. \A i \in 1..n : i = 1 \/ i - 1 \in 1..n - 1
        OBVIOUS
    <2>4. \A i \in 1..n - 1 : i + 1 \in 1..n
        OBVIOUS
    <2>5. 1 \in 1..n /\ \A i \in 1..n : (i - 1) + 1 = i
        BY <1>2
    <2>6. InQueue(j)' => InQueue(j)
        BY <1>9, <2>1, <2>2, <2>4
    <2>7. ASSUME NEW i \in 1..n, QueueHolds(i, j), i # 1
          PROVE  InQueue(j)'
        BY <1>9, <2>2, <2>3, <2>5, <2>7
    <2>8. WithWorker(j)' <=> WithWorker(j) \/ QueueHolds(1, j)
        BY <1>9 DEF WithWorker
    <2>9. QED
        BY <2>1, <2>5, <2>6, <2>7, <2>8
<1>11. JobsHeldOnce'
    <2>1. ASSUME NEW j \in Jobs
          PROVE  HeldOnce(j)'
        <3>1. HeldOnce(j)
            BY DEF JobsHeldOnce
        <3>2. \A i, l \in 1..n : QueueHolds(i, j) /\ QueueHolds(l, j) => i = l
            BY <1>0, <3>1 DEF HeldOnce
        <3>3. QueueHolds(1, j) => ~InQueue(j)'
            <4>1. \A i \in 1..n - 1 : i + 1 \in 1..n /\ 1 \in 1..n /\ i + 1 # 1
                OBVIOUS
            <4>2. InQueue(j)' => \E i \in 1..n - 1 : QueueHolds(i + 1, j)
                BY <1>2, <1>9 DEF InQueue
            <4>3. QED
                BY <3>2, <4>1, <4>2
        <3>4. QueueHolds(1, j) => InQueue(j)
            BY <1>10
        <3>5. /\ Held(j)' => Pending(j)'
              /\ InHandler(j)' => ~InQueue(j)' /\ ~WithWorker(j)'
              /\ InQueue(j)' => ~WithWorker(j)'
            BY <1>9, <1>10, <3>1, <3>3, <3>4 DEF Held, HeldOnce
        <3>6. \A i, l \in 1..n - 1 : QueueHolds(i, j)' /\ QueueHolds(l, j)' => i = l
            <4>1. \A i, l \in 1..n - 1 : /\ i + 1 \in 1..n /\ l + 1 \in 1..n
                                         /\ i + 1 = l + 1 => i = l
                OBVIOUS
            <4>2. QED
                BY <1>9, <3>2, <4>1
        <3>7. \A l, r \in Workers : WorkerHolds(l, j)' /\ WorkerHolds(r, j)' => l = r
            BY <1>9, <3>1, <3>4 DEF HeldOnce, WithWorker
        <3>8. \A i, l \in 1..Len(queue') : QueueHolds(i, j)' /\ QueueHolds(l, j)' => i = l
            BY <1>2, <3>6
        <3>9. QED
            BY <3>5, <3>7, <3>8 DEF HeldOnce
    <2>2. QED
        BY <2>1 DEF JobsHeldOnce
<1>12. UpHolds'
    BY <1>1, <1>9, <1>10 DEF UpHolds, Held
<1>13. QED
    BY <1>5, <1>6, <1>7, <1>8, <1>11, <1>12

\* The job in hand is settled by its worker, and by nobody else.
LEMMA SettledByWorker ==
    ASSUME PipelineIInv, NEW k \in Workers, NEW j \in Jobs, WorkerHolds(k, j), NEW o \in Outcomes,
           o.status \in {"completed", "failed"}, o.alert => o.status = "completed",
           RecordOutcome(j, o),
           phase \in {"up", "draining"}, UNCHANGED <<phase, fatal, policy, handler, queue, recovery, stranded>>,
           BoundsOK', NEW free \in WorkerStates, worker' = [worker EXCEPT ![k] = free],
           free.msg = worker[k].msg, free.current = None,
           \A w \in Watchers : w \in free.todo <=>
                <<worker[k].msg, w>> # j /\ w \in worker[k].todo \cup {worker[k].current},
           judged' \in [Jobs -> [by : {"nobody", "worker", "recovery"}, version : Versions \cup {Removed}]],
           \A i \in Jobs : i # j => judged'[i] = judged[i],
           judged'[j].by = "recovery" => judged'[j].version = fp[j]
    PROVE  PipelineIInv'
<1> USE DEF PipelineIInv
<1>1. Pending(j) /\ j[1] = worker[k].msg /\ j = <<j[1], j[2]>> /\ j[1] \in Messages
    BY JobIsPair DEF JobsHeldOnce, HeldOnce, Held, WithWorker, WorkerHolds
<1>2. worker'[k] = free /\ \A n \in Workers : n # k => worker'[n] = worker[n]
    BY DEF PipelineTypeOK
<1>3. PipelineTypeOK'
    BY RecordTypes DEF PipelineTypeOK, BoundsOK
<1>4. TablesAgree'
    BY <1>1, RecordAgrees
<1>5. HandsAreSound'
    BY <1>1, <1>2 DEF HandsAreSound
<1>6. PhaseOwnsWork'
    BY RunningOwns
<1>7. ~Pending(j)' /\ \A i \in Jobs : i # j => Pending(i)' = Pending(i)
    BY <1>1, RecordedJob
<1>8. ASSUME NEW i \in Jobs
      PROVE  WorkerHolds(k, i)' <=> i # j /\ WorkerHolds(k, i)
    <2>1. i = <<i[1], i[2]>> /\ i[2] \in Watchers /\ i[2] # None
        BY JobIsPair, NoneIsNothing
    <2>2. WorkerHolds(k, i)' <=> free.msg = i[1] /\ i[2] \in free.todo
        BY <1>2, <2>1 DEF WorkerHolds
    <2>3. WorkerHolds(k, i) <=> worker[k].msg = i[1] /\ i[2] \in worker[k].todo \cup {worker[k].current}
        BY DEF WorkerHolds
    <2>4. QED
        BY <2>1, <2>2, <2>3
<1>9. JobsHeldOnce' /\ UpHolds'
    BY <1>1, <1>2, <1>7, <1>8, LetsGo
<1>10. QED
    BY <1>3, <1>4, <1>5, <1>6, <1>9

\* The tables stay as they are, and what the worker lets go of is stranded.
LEMMA StrandedByWorker ==
    ASSUME PipelineIInv, NEW k \in Workers, NEW gone \in SUBSET Jobs,
           phase \in {"up", "draining"}, UNCHANGED <<dbVars, phase, fatal, policy, handler, queue, recovery, judged>>,
           BoundsOK', stranded' = stranded \cup gone,
           NEW free \in WorkerStates, worker' = [worker EXCEPT ![k] = free],
           free.current = None, free.todo # {} => free.msg \in Messages,
           \A j \in Jobs : free.msg = j[1] /\ j[2] \in free.todo => WorkerHolds(k, j),
           \A j \in Jobs : WorkerHolds(k, j) => j \in gone \/ (free.msg = j[1] /\ j[2] \in free.todo)
    PROVE  PipelineIInv'
<1> USE DEF PipelineIInv
<1>1. worker'[k] = free /\ \A n \in Workers : n # k => worker'[n] = worker[n]
    BY DEF PipelineTypeOK
<1>2. PipelineTypeOK'
    BY DEF PipelineTypeOK, BoundsOK, dbVars
<1>3. TablesAgree'
    BY DEF TablesAgree, dbVars
<1>4. HandsAreSound'
    BY <1>1 DEF HandsAreSound
<1>5. PhaseOwnsWork'
    BY RunningOwns
<1>6. \A j \in Jobs : Pending(j)' = Pending(j)
    BY DEF Pending, dbVars
<1>7. ASSUME NEW j \in Jobs
      PROVE  WorkerHolds(k, j)' <=> free.msg = j[1] /\ j[2] \in free.todo
    BY <1>1, JobIsPair, NoneIsNothing DEF WorkerHolds
<1>8. JobsHeldOnce' /\ UpHolds'
    BY <1>1, <1>6, <1>7, LetsGo
<1>9. QED
    BY <1>2, <1>3, <1>4, <1>5, <1>8

LEMMA FinishStep ==
    ASSUME PipelineIInv, NEW k \in Workers, FinishJob(k)
    PROVE  PipelineIInv'
<1> USE DEF PipelineIInv
<1> DEFINE w == worker[k].current
           j == <<worker[k].msg, w>>
           p == PolicyOf[w][worker[k].version]
           free == [worker[k] EXCEPT !.current = None, !.version = Removed]
<1>1. /\ phase \in {"up", "draining"} /\ w # None /\ worker' = [worker EXCEPT ![k] = free]
      /\ UNCHANGED <<phase, fatal, policy, handler, queue, recovery>>
    BY DEF FinishJob, WorkersRun, After
<1>2. \/ /\ \E s \in Signals : RecordOutcome(j, Judge(p, s))
         /\ judged' = [judged EXCEPT ![j] = [by |-> "worker", version |-> worker[k].version]]
         /\ UNCHANGED <<stranded, bounds>>
      \/ /\ UNCHANGED <<dbVars, bounds>> \/ DbFault
         /\ stranded' = stranded \cup {j} /\ judged' = judged
    BY DEF FinishJob
<1>3. /\ worker[k].msg \in Messages /\ w \in Watchers /\ w \notin worker[k].todo
      /\ worker[k].todo \subseteq Watchers
    BY <1>1, WorkerFields DEF HandsAreSound
<1>4. /\ free \in WorkerStates /\ free.msg = worker[k].msg /\ free.todo = worker[k].todo /\ free.current = None
    BY WorkerFields DEF WorkerStates
<1>5. j \in Jobs /\ WorkerHolds(k, j)
    BY <1>3, JobIsPair DEF WorkerHolds
<1>6. \A x \in Watchers : x \in free.todo <=> <<worker[k].msg, x>> # j /\ x \in worker[k].todo \cup {w}
    BY <1>3, <1>4
<1>7. BoundsOK
    BY DEF PipelineTypeOK, BoundsOK
<1>8. worker[k].version \in Versions \cup {Removed}
    BY WorkerFields
<1> HIDE DEF free
<1>9. ASSUME NEW s \in Signals, RecordOutcome(j, Judge(p, s)), UNCHANGED <<stranded, bounds>>,
             judged' = [judged EXCEPT ![j] = [by |-> "worker", version |-> worker[k].version]]
      PROVE  PipelineIInv'
    <2>1. /\ judged' \in [Jobs -> [by : {"nobody", "worker", "recovery"}, version : Versions \cup {Removed}]]
          /\ \A i \in Jobs : i # j => judged'[i] = judged[i]
          /\ judged'[j].by # "recovery"
        BY <1>5, <1>8, <1>9 DEF PipelineTypeOK
    <2>2. PICK i \in Jobs : i = j
        BY <1>5
    <2>3. PICK o \in Outcomes : o = Judge(p, s)
        BY JudgeIsTerminal
    <2>4. o.status \in {"completed", "failed"} /\ (o.alert => o.status = "completed")
        BY <2>3, JudgeIsTerminal
    <2>5. BoundsOK'
        BY <1>7, <1>9 DEF BoundsOK, bounds
    <2>6. RecordOutcome(i, o) /\ WorkerHolds(k, i)
        BY <1>5, <1>9, <2>2, <2>3
    <2>7. PICK f \in WorkerStates : f = free
        BY <1>4
    <2>8. \A x \in Watchers : x \in f.todo <=> <<worker[k].msg, x>> # i /\ x \in worker[k].todo \cup {worker[k].current}
        BY <1>6, <2>2, <2>7
    <2>9. /\ f.msg = worker[k].msg /\ f.current = None /\ worker' = [worker EXCEPT ![k] = f]
        BY <1>1, <1>4, <2>7
    <2>10. /\ \A l \in Jobs : l # i => judged'[l] = judged[l]
           /\ judged'[i].by = "recovery" => judged'[i].version = fp[i]
        BY <2>1, <2>2
    <2>11. QED
        BY <1>1, <1>9, <2>1, <2>4, <2>5, <2>6, <2>8, <2>9, <2>10, SettledByWorker
<1>10. CASE /\ UNCHANGED <<dbVars, bounds>> \/ DbFault
            /\ stranded' = stranded \cup {j} /\ judged' = judged
    <2>1. UNCHANGED dbVars /\ BoundsOK'
        BY <1>7, <1>10, DbFaultKeeps DEF BoundsOK, bounds
    <2>2. \A i \in Jobs : /\ free.msg = i[1] /\ i[2] \in free.todo => WorkerHolds(k, i)
                          /\ WorkerHolds(k, i) => i \in {j} \/ (free.msg = i[1] /\ i[2] \in free.todo)
        BY <1>4, JobIsPair DEF WorkerHolds
    <2>3. PICK f \in WorkerStates : f = free
        BY <1>4
    <2>4. PICK gone \in SUBSET Jobs : gone = {j}
        BY <1>5
    <2>5. /\ f.msg = worker[k].msg /\ f.current = None /\ worker' = [worker EXCEPT ![k] = f]
        BY <1>1, <1>4, <2>3
    <2>6. stranded' = stranded \cup gone /\ judged' = judged
        BY <1>10, <2>4
    <2>7. \A i \in Jobs : /\ f.msg = i[1] /\ i[2] \in f.todo => WorkerHolds(k, i)
                          /\ WorkerHolds(k, i) => i \in gone \/ (f.msg = i[1] /\ i[2] \in f.todo)
        BY <2>2, <2>3, <2>4
    <2>8. f.msg \in Messages
        BY <1>3, <2>5
    <2>9. QED
        BY <1>1, <2>1, <2>5, <2>6, <2>7, <2>8, StrandedByWorker
<1>11. QED
    BY <1>2, <1>9, <1>10

LEMMA RefuseRemovedStep ==
    ASSUME PipelineIInv, NEW k \in Workers, NEW w \in Watchers, RefuseRemoved(k, w)
    PROVE  PipelineIInv'
<1> USE DEF PipelineIInv
<1> DEFINE j == <<worker[k].msg, w>>
           free == [worker[k] EXCEPT !.todo = worker[k].todo \ {w}]
           rest == {<<worker[k].msg, x>> : x \in worker[k].todo}
<1>1. /\ phase \in {"up", "draining"} /\ worker[k].current = None /\ w \in worker[k].todo
      /\ UNCHANGED <<phase, fatal, policy, handler, queue, recovery, judged>>
    BY DEF RefuseRemoved, WorkersRun
<1>2. \/ RecordOutcome(j, Refusal) /\ worker' = [worker EXCEPT ![k] = free] /\ UNCHANGED <<stranded, bounds>>
      \/ DbFault /\ stranded' = stranded \cup rest /\ worker' = [worker EXCEPT ![k] = Idle]
    BY DEF RefuseRemoved
<1>3. worker[k].msg \in Messages /\ worker[k].todo \subseteq Watchers
    BY <1>1, WorkerFields DEF HandsAreSound
<1>4. /\ free \in WorkerStates /\ free.msg = worker[k].msg /\ free.todo = worker[k].todo \ {w}
      /\ free.current = None
    BY <1>1, WorkerFields DEF WorkerStates
<1>5. j \in Jobs /\ WorkerHolds(k, j)
    BY <1>1, <1>3, JobIsPair DEF WorkerHolds
<1>6. \A x \in Watchers : x \in free.todo <=>
            <<worker[k].msg, x>> # j /\ x \in worker[k].todo \cup {worker[k].current}
    BY <1>1, <1>4, NoneIsNothing
<1>7. BoundsOK
    BY DEF PipelineTypeOK, BoundsOK
<1> HIDE DEF free
<1>8. CASE RecordOutcome(j, Refusal) /\ worker' = [worker EXCEPT ![k] = free] /\ UNCHANGED <<stranded, bounds>>
    <2>1. PICK i \in Jobs : i = j
        BY <1>5
    <2>2. PICK o \in Outcomes : o = Refusal
        BY RefusalIsTerminal
    <2>3. BoundsOK'
        BY <1>7, <1>8 DEF BoundsOK, bounds
    <2>4. PICK f \in WorkerStates : f = free
        BY <1>4
    <2>5. \A x \in Watchers : x \in f.todo <=> <<worker[k].msg, x>> # i /\ x \in worker[k].todo \cup {worker[k].current}
        BY <1>6, <2>1, <2>4
    <2>6. judged' \in [Jobs -> [by : {"nobody", "worker", "recovery"}, version : Versions \cup {Removed}]]
        BY <1>1 DEF PipelineTypeOK
    <2>7. judged'[i].by = "recovery" => judged'[i].version = fp[i]
        BY <1>1 DEF TablesAgree
    <2>8. RecordOutcome(i, o) /\ WorkerHolds(k, i)
        BY <1>5, <1>8, <2>1, <2>2
    <2>9. QED
        BY <1>1, <1>4, <1>8, <2>2, <2>3, <2>4, <2>5, <2>6, <2>7, <2>8, RefusalIsTerminal, SettledByWorker
<1>9. CASE DbFault /\ stranded' = stranded \cup rest /\ worker' = [worker EXCEPT ![k] = Idle]
    <2>1. rest \in SUBSET Jobs
        BY <1>3, JobIsPair
    <2>2. \A i \in Jobs : WorkerHolds(k, i) => i \in rest
        BY <1>1, JobIsPair, NoneIsNothing DEF WorkerHolds
    <2>3. UNCHANGED dbVars /\ BoundsOK'
        BY <1>9, DbFaultKeeps
    <2> HIDE DEF rest
    <2>4. QED
        BY <1>1, <1>9, <2>1, <2>2, <2>3, EmptyHands, StrandedByWorker
<1>10. QED
    BY <1>2, <1>8, <1>9

-----------------------------------------------------------------------------
(***************************************************************************)
(* The invariant, and what it says.                                        *)
(***************************************************************************)

LEMMA NextKeeps == PipelineIInv /\ [PipelineNext]_pipeVars => PipelineIInv'
<1> SUFFICES ASSUME PipelineIInv, [PipelineNext]_pipeVars
             PROVE  PipelineIInv'
    OBVIOUS
<1>1. CASE Start \/ LoadRecoveryBatch \/ FinishRecoveryBatch \/ Shutdown \/ Exit \/ Crash \/ RetentionSweep
    BY <1>1, StartStep, LoadBatchStep, FinishBatchStep, ShutdownStep, ExitStep, CrashStep, RetentionStep
<1>2. CASE \E j \in Jobs : RefuseStaleJob(j) \/ RecoverJob(j) \/ RecoveryFails(j) \/ SettleAlert(j)
    BY <1>2, RefuseStaleStep, RecoverJobStep, RecoveryFailsStep, SettleAlertStep
<1>3. CASE \E m \in Messages : MessageExpires(m) \/ ReceiveUpdate(m)
    BY <1>3, MessageExpiresStep, ReceiveStep
<1>4. CASE \E w \in Watchers, v \in Versions \cup {Removed} : ChangePolicy(w, v)
    BY <1>4, ChangePolicyStep
<1>5. CASE StoreMessage \/ StoreFails \/ RetryStore \/ PutWorkItem \/ CancelHandler
    BY <1>5, StoreMessageStep, StoreFailsStep, RetryStoreStep, PutStep, CancelStep
<1>6. CASE \E k \in Workers :
            \/ TakeWorkItem(k) \/ FinishJob(k)
            \/ \E w \in Watchers : BeginJob(k, w) \/ RefuseRemoved(k, w)
    BY <1>6, TakeStep, FinishStep, BeginStep, RefuseRemovedStep
<1>7. CASE UNCHANGED pipeVars
    <2>1. PipelineTypeOK' /\ TablesAgree' /\ HandsAreSound'
        BY <1>7 DEF PipelineIInv, PipelineTypeOK, TablesAgree, HandsAreSound, pipeVars, dbVars, bounds
    <2>2. PhaseOwnsWork'
        BY <1>7 DEF PipelineIInv, PhaseOwnsWork, PendingJobs, Pending, pipeVars, dbVars
    <2>3. JobsHeldOnce'
        BY <1>7, SameHands DEF PipelineIInv, Pending, pipeVars, dbVars
    <2>4. UpHolds'
        BY <1>7, SameHandsHold DEF PipelineIInv, Pending, pipeVars, dbVars
    <2>5. QED
        BY <2>1, <2>2, <2>3, <2>4 DEF PipelineIInv
<1>8. QED
    BY <1>1, <1>2, <1>3, <1>4, <1>5, <1>6, <1>7 DEF PipelineNext

LEMMA PipelineInvariant == PipelineSpec => []PipelineIInv
BY Initially, NextKeeps, PTL DEF PipelineSpec

\* Every variable of the pipeline keeps its type, and the queue its capacity.
THEOREM PipelineTypes == PipelineSpec => []PipelineTypeOK
<1>1. PipelineIInv => PipelineTypeOK
    BY DEF PipelineIInv
<1>2. QED
    BY <1>1, PipelineInvariant, PTL

LEMMA HoldersAreHands ==
    ASSUME NEW j \in Jobs
    PROVE  \A h : h \in Holders(j) <=>
               \/ h = <<"handler", 1>> /\ InHandler(j)
               \/ \E i \in 1..Len(queue) : h = <<"queue", i>> /\ QueueHolds(i, j)
               \/ \E k \in Workers : h = <<"worker", k>> /\ WorkerHolds(k, j)
BY DEF Holders, InHandler

\* Replays, recovery and the workers never hold one job together, and what is
\* held is still pending: no message is judged twice under a watcher.
THEOREM OneHolder == PipelineSpec => []JobHasOneHolder
<1>1. PipelineIInv => JobHasOneHolder
    <2> SUFFICES ASSUME PipelineIInv, NEW j \in Jobs
                 PROVE  /\ Cardinality(Holders(j)) <= 1
                        /\ Holders(j) # {} => Pending(j)
        BY DEF JobHasOneHolder
    <2>1. HeldOnce(j)
        BY DEF PipelineIInv, JobsHeldOnce
    <2>2. \A g, h \in Holders(j) : g = h
        BY <2>1, HoldersAreHands DEF HeldOnce, InQueue, WithWorker
    <2>3. Cardinality(Holders(j)) <= 1
        <3>1. CASE Holders(j) = {}
            BY <3>1, FS_EmptySet
        <3>2. CASE Holders(j) # {}
            <4>1. PICK h : Holders(j) = {h}
                BY <2>2, <3>2
            <4>2. QED
                BY <4>1, FS_Singleton
        <3>3. QED
            BY <3>1, <3>2
    <2>4. Holders(j) # {} => Held(j)
        BY HoldersAreHands DEF Held, InQueue, WithWorker
    <2>5. QED
        BY <2>1, <2>3, <2>4 DEF HeldOnce
<1>2. QED
    BY <1>1, PipelineInvariant, PTL

\* While the daemon is up every committed job is in somebody's hands, or was
\* stranded by a failed write or a policy without a subsystem.
THEOREM NothingIsDropped == PipelineSpec => []PendingWorkIsHeld
<1>1. PipelineIInv => PendingWorkIsHeld
    <2> SUFFICES ASSUME PipelineIInv, phase = "up", NEW j \in PendingJobs, j \notin stranded
                 PROVE  Holders(j) # {}
        BY DEF PendingWorkIsHeld
    <2>1. j \in Jobs /\ Pending(j)
        BY DEF PendingJobs
    <2>2. Held(j)
        BY <2>1 DEF PipelineIInv, UpHolds
    <2>3. QED
        BY <2>1, <2>2, HoldersAreHands DEF Held, InQueue, WithWorker
<1>2. QED
    BY <1>1, PipelineInvariant, PTL

\* The outcome and its alert commit together: there is an alert for exactly the
\* accepted jobs of policies that alert at once.
THEOREM AlertsMatchOutcomes == PipelineSpec => []AlertIffAccepted
<1>1. PipelineIInv => AlertIffAccepted
    BY DEF PipelineIInv, TablesAgree, AlertIffAccepted
<1>2. QED
    BY <1>1, PipelineInvariant, PTL

\* What recovery judges, it judges under the policy the job was stored with.
THEOREM RecoveryKeepsPolicy == PipelineSpec => []RecoveredUnderStoredPolicy
<1>1. PipelineIInv => RecoveredUnderStoredPolicy
    BY DEF PipelineIInv, TablesAgree, RecoveredUnderStoredPolicy
<1>2. QED
    BY <1>1, PipelineInvariant, PTL

-----------------------------------------------------------------------------
(***************************************************************************)
(* The refinement of DurableJob.                                           *)
(***************************************************************************)

\* The lives by the columns they are read from.
LEMMA LivesAre ==
    ASSUME NEW message \in {"absent", "stored", "purged"}, NEW o \in Outcomes,
           NEW delivery \in {"absent", "pending", "sent", "failed"}
    PROVE  LET life == LifeOf(message, o, delivery) IN
           /\ o.status = "none" => life = "none"
           /\ o.status # "none" /\ message = "purged" => life = "gone"
           /\ o.status = "pending" /\ message = "stored" => life = "pending"
           /\ o.status = "failed" /\ message = "stored" => life = "failed"
           /\ o.status = "completed" /\ message = "stored" =>
                life = IF delivery = "absent" THEN "quiet"
                       ELSE IF delivery = "pending" THEN "alerting"
                       ELSE IF delivery = "sent" THEN "sent"
                       ELSE "undelivered"
BY DEF LifeOf, Outcomes

LEMMA LifeOfJob ==
    ASSUME PipelineTypeOK, NEW j \in Jobs
    PROVE  /\ JobLife[j] = LifeOf(stored[j[1]], run[j], alert[j])
           /\ stored[j[1]] \in {"absent", "stored", "purged"}
           /\ run[j] \in Outcomes
           /\ alert[j] \in {"absent", "pending", "sent", "failed"}
BY JobIsPair DEF JobLife, PipelineTypeOK

\* A step that leaves the tables alone is a stutter.
LEMMA LifeStutters ==
    ASSUME UNCHANGED <<stored, run, alert>>
    PROVE  UNCHANGED JobLife
BY DEF JobLife

\* Where one job changes, the lives change there only.
LEMMA LifeMoves ==
    ASSUME PipelineTypeOK, NEW j \in Jobs, stored' = stored,
           \A i \in Jobs : i # j => run'[i] = run[i] /\ alert'[i] = alert[i]
    PROVE  JobLife' = [JobLife EXCEPT ![j] = LifeOf(stored[j[1]], run'[j], alert'[j])]
BY DEF JobLife

LEMMA InitMaps == PipelineInit => Durable!JobInit
<1> SUFFICES ASSUME PipelineInit
             PROVE  Durable!JobInit
    OBVIOUS
<1>1. \A j \in Jobs : LifeOf(stored[j[1]], run[j], alert[j]) = "none"
    BY DEF PipelineInit, NoOutcome, LifeOf
<1>2. QED
    BY <1>1 DEF JobLife, Durable!JobInit, Durable!Keys, Jobs

LEMMA RecordMaps ==
    ASSUME PipelineIInv, NEW j \in Jobs, Pending(j), NEW o \in Outcomes,
           o.status \in {"completed", "failed"}, o.alert => o.status = "completed",
           RecordOutcome(j, o)
    PROVE  Durable!JobNext
<1> USE DEF PipelineIInv
<1>1. /\ stored' = stored /\ stored[j[1]] = "stored" /\ run[j].status = "pending"
      /\ \A i \in Jobs : i # j => run'[i] = run[i] /\ alert'[i] = alert[i]
      /\ run'[j] = o /\ alert'[j] = IF o.alert THEN "pending" ELSE "absent"
    BY RecordedJob DEF Pending
<1>2. JobLife[j] = "pending"
    BY <1>1, LifeOfJob, LivesAre
<1>3. JobLife' = [JobLife EXCEPT ![j] = LifeOf("stored", o, alert'[j])]
    BY <1>1, LifeMoves
<1>4. LifeOf("stored", o, alert'[j]) \in {"quiet", "failed", "alerting"}
    BY <1>1, LivesAre
<1>5. Durable!Finish(j)
    BY <1>2, <1>3, <1>4 DEF Durable!Finish
<1>6. QED
    BY <1>5 DEF Durable!JobNext, Durable!Keys, Jobs

LEMMA SettleMaps ==
    ASSUME PipelineIInv, NEW j \in Jobs, SettleAlert(j)
    PROVE  Durable!JobNext
<1> USE DEF PipelineIInv
<1>1. /\ stored' = stored /\ run' = run /\ stored[j[1]] = "stored" /\ alert[j] = "pending"
      /\ alert' = [alert EXCEPT ![j] = "sent"] \/ alert' = [alert EXCEPT ![j] = "failed"]
    BY DEF SettleAlert
<1>2. run[j].status = "completed"
    BY <1>1 DEF TablesAgree
<1>3. JobLife[j] = "alerting"
    BY <1>1, <1>2, LifeOfJob, LivesAre
<1>4. /\ \A i \in Jobs : i # j => alert'[i] = alert[i]
      /\ alert'[j] \in {"sent", "failed"}
    BY <1>1 DEF PipelineTypeOK
<1>5. JobLife' = [JobLife EXCEPT ![j] = LifeOf("stored", run[j], alert'[j])]
    BY <1>1, <1>4, LifeMoves
<1>6. LifeOf("stored", run[j], alert'[j]) \in {"sent", "undelivered"}
    BY <1>2, <1>4, LifeOfJob, LivesAre
<1>7. Durable!Settle(j)
    BY <1>3, <1>5, <1>6 DEF Durable!Settle
<1>8. QED
    BY <1>7 DEF Durable!JobNext, Durable!Keys, Jobs

LEMMA PurgeMaps ==
    ASSUME PipelineIInv, PurgeExpiredData
    PROVE  Durable!JobNext
<1> USE DEF PipelineIInv
<1> DEFINE gone == {m \in Messages : Purgeable(m)}
<1>1. /\ \A m \in Messages : stored'[m] = IF m \in gone THEN "purged" ELSE stored[m]
      /\ run' = run /\ alert' = alert
    BY DEF PurgeExpiredData
<1>2. \A m \in gone, w \in Watchers :
        /\ stored[m] = "stored" /\ run[<<m, w>>].status # "pending" /\ alert[<<m, w>>] # "pending"
    BY DEF Purgeable
<1>3. ASSUME NEW m \in gone, NEW w \in Watchers
      PROVE  JobLife[<<m, w>>] \notin {"pending", "alerting"}
    <2>1. <<m, w>> \in Jobs /\ <<m, w>>[1] = m
        BY JobIsPair
    <2>2. run[<<m, w>>].status \in {"none", "completed", "failed"}
        BY <1>2, <2>1 DEF PipelineTypeOK, Outcomes
    <2>3. QED
        BY <1>2, <2>1, <2>2, LifeOfJob, LivesAre
<1>4. ASSUME NEW j \in Jobs
      PROVE  JobLife'[j] = IF j[1] \in gone /\ JobLife[j] # "none" THEN "gone" ELSE JobLife[j]
    <2>1. JobLife'[j] = LifeOf(stored'[j[1]], run[j], alert[j])
        BY <1>1 DEF JobLife
    <2>2. CASE j[1] \notin gone
        BY <1>1, <2>1, <2>2, JobIsPair, LifeOfJob
    <2>3. CASE j[1] \in gone /\ run[j].status = "none"
        BY <2>1, <2>3, LifeOfJob, LivesAre, <1>1
    <2>4. CASE j[1] \in gone /\ run[j].status # "none"
        <3>1. stored'[j[1]] = "purged" /\ stored[j[1]] = "stored"
            BY <1>1, <1>2, <2>4, JobIsPair
        <3>2. JobLife'[j] = "gone"
            BY <2>1, <2>4, <3>1, LifeOfJob, LivesAre
        <3>3. run[j].status \in {"pending", "completed", "failed"}
            BY <2>4, LifeOfJob DEF Outcomes
        <3>4. JobLife[j] # "none"
            BY <3>1, <3>3, LifeOfJob, LivesAre
        <3>5. QED
            BY <2>4, <3>2, <3>4
    <2>5. QED
        BY <2>2, <2>3, <2>4
<1>5. JobLife' = [j \in Jobs |-> IF j[1] \in gone /\ JobLife[j] # "none" THEN "gone" ELSE JobLife[j]]
    <2>1. JobLife' = [j \in Jobs |-> JobLife'[j]]
        BY DEF JobLife
    <2>2. QED
        BY <1>4, <2>1
<1>6. PICK ms \in SUBSET Messages : ms = gone
    OBVIOUS
<1>7. Durable!Forget(ms)
    BY <1>3, <1>5, <1>6 DEF Durable!Forget, Durable!Keys, Durable!Open, Jobs
<1>8. QED
    BY <1>6, <1>7 DEF Durable!JobNext

LEMMA CommitMaps ==
    ASSUME PipelineIInv, NEW m \in Messages, handler.pc = "storing", StoresNew(m)
    PROVE  Durable!JobNext
<1> USE DEF PipelineIInv
<1>1. PICK ws \in SUBSET Watchers : ws = handler.watchers
    BY DEF PipelineTypeOK, HandlerStates
<1>2. \A j \in Jobs : /\ j[1] = m => run[j].status = "none" /\ alert[j] = "absent"
                      /\ run'[j] = IF j[1] = m /\ j[2] \in ws THEN Unjudged ELSE run[j]
                      /\ stored'[j[1]] = IF j[1] = m THEN "stored" ELSE stored[j[1]]
                      /\ alert'[j] = alert[j]
    BY <1>1, JobIsPair DEF StoresNew, TablesAgree, PipelineTypeOK
<1>3. \A w \in Watchers : JobLife[<<m, w>>] = "none"
    <2>1. \A w \in Watchers : <<m, w>> \in Jobs /\ <<m, w>>[1] = m
        BY JobIsPair
    <2>2. QED
        BY <1>2, <2>1, LifeOfJob, LivesAre
<1>4. ASSUME NEW j \in Jobs
      PROVE  JobLife'[j] = IF j[1] = m /\ j[2] \in ws THEN "pending" ELSE JobLife[j]
    <2>1. JobLife'[j] = LifeOf(stored'[j[1]], run'[j], alert'[j])
        BY DEF JobLife
    <2>2. CASE j[1] = m /\ j[2] \in ws
        BY <1>2, <2>1, <2>2, LifeOfJob, LivesAre, UnjudgedIsPending
    <2>3. CASE j[1] = m /\ j[2] \notin ws
        BY <1>2, <2>1, <2>3, LifeOfJob, LivesAre
    <2>4. CASE j[1] # m
        BY <1>2, <2>1, <2>4, LifeOfJob
    <2>5. QED
        BY <2>2, <2>3, <2>4
<1>5. JobLife' = [j \in Jobs |-> IF j[1] = m /\ j[2] \in ws THEN "pending" ELSE JobLife[j]]
    <2>1. JobLife' = [j \in Jobs |-> JobLife'[j]]
        BY DEF JobLife
    <2>2. QED
        BY <1>4, <2>1
<1>6. Durable!Commit(m, ws)
    BY <1>3, <1>5 DEF Durable!Commit, Durable!Keys, Jobs
<1>7. QED
    BY <1>6 DEF Durable!JobNext

\* The outcomes that are recorded are of pending jobs.
LEMMA JudgedMaps ==
    ASSUME PipelineIInv, NEW j \in Jobs, Pending(j), NEW p, NEW s, RecordOutcome(j, Judge(p, s))
    PROVE  Durable!JobNext
<1>1. PICK o \in Outcomes : o = Judge(p, s)
    BY JudgeIsTerminal
<1>2. QED
    BY <1>1, JudgeIsTerminal, RecordMaps

LEMMA RefusedMaps ==
    ASSUME PipelineIInv, NEW j \in Jobs, Pending(j), RecordOutcome(j, Refusal)
    PROVE  Durable!JobNext
BY RefusalIsTerminal, RecordMaps

\* A worker judges and refuses what it holds.
LEMMA WorkersMap ==
    ASSUME PipelineIInv, NEW k \in Workers,
           FinishJob(k) \/ \E w \in Watchers : RefuseRemoved(k, w)
    PROVE  Durable!JobNext \/ UNCHANGED JobLife
<1> USE DEF PipelineIInv
<1>1. ASSUME NEW w \in Watchers, worker[k].msg \in Messages, w \in worker[k].todo \cup {worker[k].current}
      PROVE  <<worker[k].msg, w>> \in Jobs /\ Pending(<<worker[k].msg, w>>)
    <2>1. <<worker[k].msg, w>> \in Jobs
        BY <1>1, JobIsPair
    <2>2. WorkerHolds(k, <<worker[k].msg, w>>)
        BY <1>1 DEF WorkerHolds
    <2>3. QED
        BY <2>1, <2>2 DEF JobsHeldOnce, HeldOnce, Held, WithWorker
<1>2. CASE FinishJob(k)
    <2> DEFINE w == worker[k].current
               p == PolicyOf[w][worker[k].version]
    <2>1. w # None /\ worker[k].msg \in Messages /\ w \in Watchers
        BY <1>2, WorkerFields DEF FinishJob, HandsAreSound
    <2>2. PICK j \in Jobs : j = <<worker[k].msg, w>>
        BY <1>1, <2>1
    <2>3. Pending(j)
        BY <1>1, <2>1, <2>2
    <2>4. \/ \E s \in Signals : RecordOutcome(j, Judge(p, s))
          \/ UNCHANGED dbVars
          \/ DbFault
        BY <1>2, <2>2 DEF FinishJob
    <2>5. CASE \E s \in Signals : RecordOutcome(j, Judge(p, s))
        <3>1. PICK s \in Signals : RecordOutcome(j, Judge(p, s))
            BY <2>5
        <3>2. PICK q : q = p
            OBVIOUS
        <3>3. QED
            BY <2>3, <3>1, <3>2, JudgedMaps
    <2>6. QED
        BY <2>4, <2>5, LifeStutters, DbFaultKeeps DEF dbVars
<1>3. ASSUME NEW w \in Watchers, RefuseRemoved(k, w)
      PROVE  Durable!JobNext \/ UNCHANGED JobLife
    <2>1. w \in worker[k].todo /\ worker[k].msg \in Messages
        BY <1>3 DEF RefuseRemoved, HandsAreSound
    <2>2. PICK j \in Jobs : j = <<worker[k].msg, w>>
        BY <1>1, <2>1
    <2>3. Pending(j)
        BY <1>1, <2>1, <2>2
    <2>4. RecordOutcome(j, Refusal) \/ DbFault
        BY <1>3, <2>2 DEF RefuseRemoved
    <2>5. QED
        BY <2>3, <2>4, RefusedMaps, LifeStutters, DbFaultKeeps DEF dbVars
<1>4. QED
    BY <1>2, <1>3

LEMMA RecoveryMaps ==
    ASSUME PipelineIInv, NEW j \in Jobs, RefuseStaleJob(j) \/ RecoverJob(j) \/ RecoveryFails(j)
    PROVE  Durable!JobNext \/ UNCHANGED JobLife
<1> USE DEF PipelineIInv
<1> DEFINE p == PolicyOf[j[2]][policy[j[2]]]
<1>1. Pending(j)
    BY DEF RefuseStaleJob, RecoverJob, RecoveryFails, PhaseOwnsWork, PendingJobs
<1>2. \/ RecordOutcome(j, Refusal)
      \/ \E s \in Signals : RecordOutcome(j, Judge(p, s))
      \/ UNCHANGED dbVars
      \/ DbFault
    BY DEF RefuseStaleJob, RecoverJob, RecoveryFails
<1>3. CASE \E s \in Signals : RecordOutcome(j, Judge(p, s))
    <2>1. PICK s \in Signals : RecordOutcome(j, Judge(p, s))
        BY <1>3
    <2>2. PICK q : q = p
        OBVIOUS
    <2>3. QED
        BY <1>1, <2>1, <2>2, JudgedMaps
<1>4. QED
    BY <1>1, <1>2, <1>3, RefusedMaps, LifeStutters, DbFaultKeeps DEF dbVars

LEMMA StepMaps == PipelineIInv /\ [PipelineNext]_pipeVars => [Durable!JobNext]_JobLife
<1> SUFFICES ASSUME PipelineIInv, [PipelineNext]_pipeVars
             PROVE  Durable!JobNext \/ UNCHANGED JobLife
    OBVIOUS
<1>1. CASE Start \/ RetentionSweep
    BY <1>1, PurgeMaps DEF Start, RetentionSweep
<1>2. CASE StoreMessage
    <2>1. CASE stored[handler.msg] = "absent"
        <3>1. PICK m \in Messages : m = handler.msg
            BY <1>2 DEF StoreMessage, PipelineIInv, HandsAreSound
        <3>2. StoresNew(m) /\ handler.pc = "storing"
            BY <1>2, <2>1, <3>1 DEF StoreMessage, StoresNew
        <3>3. QED
            BY <3>2, CommitMaps
    <2>2. CASE stored[handler.msg] # "absent"
        BY <1>2, <2>2, LifeStutters DEF StoreMessage, dbVars
    <2>3. QED
        BY <2>1, <2>2
<1>3. CASE LoadRecoveryBatch \/ FinishRecoveryBatch \/ Shutdown \/ Exit \/ Crash
    BY <1>3, LifeStutters DEF LoadRecoveryBatch, FinishRecoveryBatch, Shutdown, Exit, Crash, dbVars
<1>4. CASE \E j \in Jobs : RefuseStaleJob(j) \/ RecoverJob(j) \/ RecoveryFails(j) \/ SettleAlert(j)
    BY <1>4, RecoveryMaps, SettleMaps
<1>5. CASE \E m \in Messages : MessageExpires(m) \/ ReceiveUpdate(m)
    BY <1>5, LifeStutters DEF MessageExpires, ReceiveUpdate, dbVars
<1>6. CASE \E w \in Watchers, v \in Versions \cup {Removed} : ChangePolicy(w, v)
    BY <1>6, LifeStutters DEF ChangePolicy, dbVars
<1>7. CASE StoreFails \/ RetryStore \/ PutWorkItem \/ CancelHandler
    BY <1>7, LifeStutters DEF StoreFails, DbFault, RetryStore, PutWorkItem, CancelHandler, dbVars
<1>8. CASE \E k \in Workers :
            \/ TakeWorkItem(k) \/ FinishJob(k)
            \/ \E w \in Watchers : BeginJob(k, w) \/ RefuseRemoved(k, w)
    <2>1. PICK k \in Workers :
            \/ TakeWorkItem(k) \/ FinishJob(k)
            \/ \E w \in Watchers : BeginJob(k, w) \/ RefuseRemoved(k, w)
        BY <1>8
    <2>2. CASE TakeWorkItem(k) \/ \E w \in Watchers : BeginJob(k, w)
        BY <2>2, LifeStutters DEF TakeWorkItem, BeginJob, dbVars
    <2>3. QED
        BY <2>1, <2>2, WorkersMap
<1>9. CASE UNCHANGED pipeVars
    BY <1>9, LifeStutters DEF pipeVars, dbVars
<1>10. QED
    BY <1>1, <1>2, <1>3, <1>4, <1>5, <1>6, <1>7, <1>8, <1>9 DEF PipelineNext

\* The pipeline implements DurableJob: through replays, crashes, refusals and
\* failed writes, the jobs of a message appear together, each ends once and
\* with its alert, and a message is forgotten whole and only when settled.
THEOREM PipelineImplementsDurableJob == PipelineSpec => ImplementsDurableJob
<1> QED
    BY PipelineInvariant, InitMaps, StepMaps, PTL
    DEF PipelineSpec, ImplementsDurableJob, Durable!JobSpec

=============================================================================
