------------------------- MODULE AlertOutboxProofs -------------------------
(* Theorems about AlertOutbox, for any number of rows and deliverers. *)
EXTENDS AlertOutbox, FiniteSetTheorems, TLAPS

-----------------------------------------------------------------------------
(***************************************************************************)
(* The inductive invariant                                                 *)
(***************************************************************************)

AttemptsLeft == \A r \in Rows : status[r] \in {"absent", "pending"} => attempts[r] < MaxAttempts

BusyHasRow ==
    \A d \in Deliverers : Busy(d) =>
        /\ cycle[d].row \in Rows
        /\ cycle[d].token \in Tokens
        /\ cycle[d].post \in 1..MaxPosts
        /\ cycle[d].pc = "waiting" => cycle[d].post # MaxPosts
        /\ status[cycle[d].row] # "absent"

\* A lease that is still its taker's pins the status and the payload.
Pinned ==
    \A d \in Deliverers : Busy(d) /\ owner[cycle[d].row] = cycle[d].token =>
        /\ status[cycle[d].row] = "pending"
        /\ level[cycle[d].row] = cycle[d].level

SuccessWasShown ==
    \A d \in Deliverers : Busy(d) /\ cycle[d].verdict = "sent" =>
        cycle[d].level \in shown[cycle[d].row]

OutboxInv ==
    /\ OutboxTypeOK
    /\ AttemptsLeft
    /\ BusyHasRow
    /\ Pinned
    /\ SuccessWasShown
    /\ SentPayloadIsAudited
    /\ SentCountedOnce

-----------------------------------------------------------------------------
(***************************************************************************)
(* Types                                                                   *)
(***************************************************************************)

LEMMA SoonerBounds ==
    ASSUME NEW n \in Int, NEW b \in Nat, n <= b
    PROVE  Sooner(n) \in Int /\ Sooner(n) <= b /\ (n \in Nat => Sooner(n) \in Nat)
BY DEF Sooner

\* Whatever the hint or the exponent, a recorded retry is at most the cap away.
LEMMA DelayBounds ==
    ASSUME NEW h \in RetryHints, NEW n \in Nat, n >= 1
    PROVE  RetryDelay(h, n) \in Int /\ RetryDelay(h, n) <= DelayCap
<1>1. BaseDelay * 2^(n-1) \in Int
  BY OutboxConstants
<1>2. h \in Int /\ DelayCap \in Int
  BY OutboxConstants
<1> QED
  BY <1>1, <1>2 DEF RetryDelay, Backoff, Lesser

LEMMA TypeInit == OutboxInit => OutboxTypeOK
BY OutboxConstants DEF OutboxInit, OutboxTypeOK, Cycles, Idle, Verdicts

\* Replacing the pc, the clock and the verdict of a cycle keeps its type.
LEMMA CycleFields ==
    ASSUME NEW c \in Cycles, NEW pc \in {"idle", "posting", "waiting", "answered"},
           NEW n \in Nat, NEW v \in Verdicts
    PROVE  /\ [c EXCEPT !.pc = pc, !.left = n, !.verdict = v] \in Cycles
           /\ [c EXCEPT !.pc = pc, !.left = n] \in Cycles
           /\ [c EXCEPT !.left = n] \in Cycles
BY DEF Cycles

LEMMA AnswerType ==
    ASSUME OutboxTypeOK, NEW d \in Deliverers, NEW v \in Verdicts, Answer(d, v)
    PROVE  cycle' \in [Deliverers -> Cycles]
<1>1. cycle \in [Deliverers -> Cycles] /\ cycle[d] \in Cycles /\ SettleTime \in Nat
  BY OutboxConstants DEF OutboxTypeOK
<1>2. [cycle[d] EXCEPT !.pc = "answered", !.left = SettleTime, !.verdict = v] \in Cycles
  BY <1>1, CycleFields
<1> QED
  BY <1>1, <1>2 DEF Answer

LEMMA TransientType ==
    ASSUME OutboxTypeOK, NEW d \in Deliverers, Transient(d)
    PROVE  cycle' \in [Deliverers -> Cycles]
<1>1. CASE cycle[d].post = MaxPosts
  BY <1>1, AnswerType DEF Transient, Verdicts
<1>2. CASE cycle[d].post # MaxPosts
  <2>1. PICK w \in 1..MaxWait :
            cycle' = [cycle EXCEPT ![d] = [@ EXCEPT !.pc = "waiting", !.left = w]]
    BY <1>2 DEF Transient
  <2>2. cycle \in [Deliverers -> Cycles] /\ cycle[d] \in Cycles /\ w \in Nat
    BY OutboxConstants DEF OutboxTypeOK
  <2>3. [cycle[d] EXCEPT !.pc = "waiting", !.left = w] \in Cycles
    BY <2>2 DEF Cycles
  <2> QED
    BY <2>1, <2>2, <2>3
<1> QED
  BY <1>1, <1>2

LEMMA AcceptType ==
    ASSUME OutboxTypeOK, NEW d \in Deliverers, Accept(d)
    PROVE  accepted' \in [Rows -> Nat] /\ shown' \in [Rows -> SUBSET (Levels \cup {0})]
<1> DEFINE r == cycle[d].row
<1>1. cycle[d].level \in Levels \cup {0}
  BY DEF OutboxTypeOK, Cycles
<1>2. accepted' = [accepted EXCEPT ![r] = @ + 1]
  BY DEF Accept
<1>3. shown' = [shown EXCEPT ![r] = @ \cup {cycle[d].level}]
  BY DEF Accept
<1> HIDE DEF r
<1>4. accepted' \in [Rows -> Nat]
  <2>1. accepted \in [Rows -> Nat] /\ (r \in Rows => accepted[r] + 1 \in Nat)
    BY DEF OutboxTypeOK
  <2> QED
    BY <1>2, <2>1
<1>5. shown' \in [Rows -> SUBSET (Levels \cup {0})]
  BY <1>1, <1>3 DEF OutboxTypeOK
<1> QED
  BY <1>4, <1>5

\* What a recorded result does to a row that is still claimed.
LEMMA ReleaseType ==
    ASSUME OutboxTypeOK, NEW r \in Rows, attempts[r] < MaxAttempts, Release(r)
    PROVE  /\ owner' \in [Rows -> Tokens \cup {NoToken}]
           /\ lease' \in [Rows -> 0..Lease]
           /\ attempts' \in [Rows -> 0..MaxAttempts]
<1>1. /\ owner \in [Rows -> Tokens \cup {NoToken}]
      /\ lease \in [Rows -> 0..Lease]
      /\ attempts \in [Rows -> 0..MaxAttempts]
      /\ Lease \in Nat /\ MaxAttempts \in Nat
  BY OutboxConstants DEF OutboxTypeOK
<1>2. attempts[r] + 1 \in 0..MaxAttempts /\ 0 \in 0..Lease
  BY <1>1
<1> QED
  BY <1>1, <1>2 DEF Release

-----------------------------------------------------------------------------
(***************************************************************************)
(* Every step keeps the invariant                                          *)
(***************************************************************************)

LEMMA InvInit == OutboxInit => OutboxInv
<1> SUFFICES ASSUME OutboxInit PROVE OutboxInv
  OBVIOUS
<1>1. OutboxTypeOK
  BY TypeInit
<1>2. AttemptsLeft
  BY OutboxConstants DEF OutboxInit, AttemptsLeft
<1>3. BusyHasRow /\ Pinned /\ SuccessWasShown
  BY DEF OutboxInit, BusyHasRow, Pinned, SuccessWasShown, Busy, Idle
<1>4. SentPayloadIsAudited
  BY DEF OutboxInit, SentPayloadIsAudited
<1>5. SentCountedOnce
  <2>1. {r \in Rows : alertSent[r]} = {} /\ sentStat = 0
    BY DEF OutboxInit
  <2> QED
    BY <2>1, FS_EmptySet DEF OutboxInit, SentCountedOnce
<1> QED
  BY <1>1, <1>2, <1>3, <1>4, <1>5 DEF OutboxInv

\* The counter and provenance stay together while nobody touches them.
LEMMA CountsKept ==
    ASSUME SentCountedOnce, OutboxTypeOK, UNCHANGED statVars,
           \A q \in Rows :
                \/ status'[q] = status[q]
                \/ status'[q] \in {"pending", "failed"} /\ ~alertSent[q]
                \/ status'[q] = "purged"
    PROVE  SentCountedOnce'
BY DEF SentCountedOnce, statVars, OutboxTypeOK

LEMMA EnqueueKeepsInv ==
    ASSUME OutboxInv, NEW r \in Rows, NEW l \in Levels, EnqueueAlert(r, l)
    PROVE  OutboxInv'
<1> USE DEF OutboxInv
<1>0. /\ level' = [level EXCEPT ![r] = l]
      /\ status' \in [Rows -> {"absent", "pending", "sent", "failed", "purged"}]
      /\ status[r] \in {"absent", "pending"} /\ status'[r] = "pending"
      /\ status[r] = "pending" => owner[r] = NoToken
      /\ \A q \in Rows \ {r} : status'[q] = status[q]
      /\ UNCHANGED <<attempts, due, lease, owner, statVars, cycle, wireVars, troubled, abandons>>
  BY DEF EnqueueAlert, Insert, Refresh, OutboxTypeOK
<1>1. OutboxTypeOK'
  BY <1>0 DEF OutboxTypeOK, statVars, wireVars
<1>2. AttemptsLeft'
  BY <1>0 DEF AttemptsLeft
<1>3. BusyHasRow' /\ SuccessWasShown'
  BY <1>0 DEF BusyHasRow, SuccessWasShown, Busy, wireVars, OutboxTypeOK
<1>4. Pinned'
  BY <1>0, OutboxConstants DEF Pinned, BusyHasRow, Busy, OutboxTypeOK
<1>5. SentPayloadIsAudited'
  BY <1>0 DEF SentPayloadIsAudited, wireVars, OutboxTypeOK
<1>6. SentCountedOnce'
  <2>1. UNCHANGED statVars /\ ~alertSent[r]
    BY <1>0 DEF SentCountedOnce
  <2>2. \A q \in Rows :
            \/ status'[q] = status[q]
            \/ status'[q] \in {"pending", "failed"} /\ ~alertSent[q]
            \/ status'[q] = "purged"
    BY <1>0, <2>1
  <2> QED
    BY <2>1, <2>2, CountsKept
<1> QED
  BY <1>1, <1>2, <1>3, <1>4, <1>5, <1>6

LEMMA ClaimKeepsInv ==
    ASSUME OutboxInv, NEW d \in Deliverers, ClaimDueAlert(d)
    PROVE  OutboxInv'
<1> USE DEF OutboxInv
<1>0. PICK r \in Rows, t \in FreshTokens :
        /\ Claimable(r)
        /\ owner' = [owner EXCEPT ![r] = t]
        /\ lease' = [lease EXCEPT ![r] = Lease]
        /\ cycle' = [cycle EXCEPT ![d] =
                [pc |-> "posting", row |-> r, token |-> t, level |-> level[r],
                 post |-> 1, left |-> PostTimeout, verdict |-> "none"]]
  BY DEF ClaimDueAlert
<1>a. UNCHANGED <<status, attempts, due, level, statVars, wireVars, troubled, abandons>>
  BY DEF ClaimDueAlert
<1>b. t \in Tokens /\ \A e \in Deliverers : cycle[e].token # t
  BY DEF FreshTokens
<1>1. OutboxTypeOK'
  <2>1. [pc |-> "posting", row |-> r, token |-> t, level |-> level[r],
         post |-> 1, left |-> PostTimeout, verdict |-> "none"] \in Cycles
    BY <1>b, OutboxConstants DEF Cycles, Verdicts, OutboxTypeOK
  <2>2. cycle' \in [Deliverers -> Cycles]
    BY <1>0, <2>1 DEF OutboxTypeOK
  <2>3. owner' \in [Rows -> Tokens \cup {NoToken}] /\ lease' \in [Rows -> 0..Lease]
    BY <1>0, <1>b, OutboxConstants DEF OutboxTypeOK
  <2> QED
    BY <1>a, <2>2, <2>3 DEF OutboxTypeOK, statVars, wireVars
<1>2. AttemptsLeft' /\ SentPayloadIsAudited'
  BY <1>a DEF AttemptsLeft, SentPayloadIsAudited, wireVars
<1>3. /\ cycle'[d] = [pc |-> "posting", row |-> r, token |-> t, level |-> level[r],
                       post |-> 1, left |-> PostTimeout, verdict |-> "none"]
      /\ \A e \in Deliverers \ {d} : cycle'[e] = cycle[e]
  BY <1>0 DEF OutboxTypeOK
<1>4. BusyHasRow'
  <2>1. status[r] = "pending" /\ 1 \in 1..MaxPosts
    BY <1>0, OutboxConstants DEF Claimable
  <2>2. ASSUME NEW e \in Deliverers, e # d, Busy(e)'
        PROVE  cycle'[e] = cycle[e] /\ Busy(e)
    BY <1>3, <2>2 DEF Busy
  <2> QED
    BY <1>a, <1>b, <1>3, <2>1, <2>2 DEF BusyHasRow
<1>5. Pinned'
  <2>1. ASSUME NEW e \in Deliverers, e # d, Busy(e)', (owner[cycle[e].row] = cycle[e].token)'
        PROVE  (status[cycle[e].row] = "pending" /\ level[cycle[e].row] = cycle[e].level)'
    <3>1. cycle'[e] = cycle[e] /\ Busy(e) /\ cycle[e].row \in Rows
      BY <1>3, <2>1 DEF Busy, BusyHasRow
    <3>2. cycle[e].row # r
      BY <1>0, <1>b, <2>1, <3>1 DEF OutboxTypeOK
    <3> QED
      BY <1>0, <1>a, <2>1, <3>1, <3>2 DEF Pinned, OutboxTypeOK
  <2>2. (status[cycle[d].row] = "pending" /\ level[cycle[d].row] = cycle[d].level)'
    BY <1>0, <1>3, <1>a DEF Claimable
  <2> QED
    BY <2>1, <2>2 DEF Pinned
<1>6. SuccessWasShown'
  BY <1>3, <1>a DEF SuccessWasShown, Busy, wireVars
<1>7. SentCountedOnce'
  BY <1>a DEF SentCountedOnce, statVars
<1> QED
  BY <1>1, <1>2, <1>4, <1>5, <1>6, <1>7

\* Steps of a cycle that touch no row: a request, a wait, a crash.
LEMMA CycleStepKeepsInv ==
    ASSUME OutboxInv, NEW d \in Deliverers, Busy(d),
           UNCHANGED <<rowVars, statVars>>,
           cycle' \in [Deliverers -> Cycles],
           \A e \in Deliverers \ {d} : cycle'[e] = cycle[e],
           Busy(d)' => /\ cycle'[d].row = cycle[d].row
                       /\ cycle'[d].token = cycle[d].token
                       /\ cycle'[d].level = cycle[d].level
                       /\ cycle'[d].post \in 1..MaxPosts
                       /\ cycle'[d].pc = "waiting" => cycle'[d].post # MaxPosts
                       /\ cycle'[d].verdict = "sent" => cycle[d].level \in shown'[cycle[d].row],
           accepted' \in [Rows -> Nat],
           shown' \in [Rows -> SUBSET (Levels \cup {0})],
           \A r \in Rows : shown[r] \subseteq shown'[r],
           troubled' \in [Rows -> BOOLEAN], abandons' \in Nat
    PROVE  OutboxInv'
<1> USE DEF OutboxInv
<1>1. OutboxTypeOK'
  BY DEF OutboxTypeOK, rowVars, statVars
<1>2. AttemptsLeft' /\ SentPayloadIsAudited' /\ SentCountedOnce'
  BY DEF AttemptsLeft, SentPayloadIsAudited, SentCountedOnce, rowVars, statVars
<1>3. ASSUME NEW e \in Deliverers, Busy(e)'
      PROVE  Busy(e) /\ cycle'[e].row = cycle[e].row /\ cycle'[e].token = cycle[e].token
             /\ cycle'[e].level = cycle[e].level
  BY <1>3 DEF Busy
<1>4. BusyHasRow'
  BY <1>3 DEF BusyHasRow, rowVars
<1>5. Pinned'
  BY <1>3 DEF Pinned, rowVars
<1>6. SuccessWasShown'
  BY <1>3 DEF SuccessWasShown, BusyHasRow
<1> QED
  BY <1>1, <1>2, <1>4, <1>5, <1>6

LEMMA PostKeepsInv ==
    ASSUME OutboxInv, NEW d \in Deliverers,
           PostSucceeds(d) \/ PostRefused(d) \/ PostFails(d) \/ PostTimesOut(d)
    PROVE  OutboxInv'
<1> USE DEF OutboxInv
<1>0. /\ cycle[d].pc = "posting" /\ Busy(d) /\ cycle[d] \in Cycles
      /\ cycle[d].row \in Rows /\ cycle[d].post \in 1..MaxPosts
      /\ UNCHANGED <<rowVars, statVars>>
  BY DEF PostSucceeds, PostRefused, PostFails, PostTimesOut, Busy, BusyHasRow, OutboxTypeOK
<1>1. abandons' \in Nat /\ troubled' \in [Rows -> BOOLEAN]
  BY DEF PostSucceeds, PostRefused, PostFails, PostTimesOut, OutboxTypeOK
<1>2. /\ accepted' \in [Rows -> Nat] /\ shown' \in [Rows -> SUBSET (Levels \cup {0})]
      /\ \A r \in Rows : shown[r] \subseteq shown'[r]
      /\ PostSucceeds(d) => cycle[d].level \in shown'[cycle[d].row]
  <2>1. CASE PostSucceeds(d) \/ PostTimesOut(d)
    <3>1. Accept(d)
      BY <2>1 DEF PostSucceeds, PostTimesOut
    <3>2. shown' = [shown EXCEPT ![cycle[d].row] = @ \cup {cycle[d].level}]
      BY <3>1 DEF Accept
    <3> QED
      BY <1>0, <3>1, <3>2, AcceptType DEF OutboxTypeOK
  <2>2. CASE ~(PostSucceeds(d) \/ PostTimesOut(d))
    BY <2>2 DEF PostRefused, PostFails, OutboxTypeOK, wireVars
  <2> QED
    BY <2>1, <2>2
<1>3. \/ \E v \in Verdicts : Answer(d, v) /\ (v = "sent" => PostSucceeds(d))
      \/ \E w \in 1..MaxWait :
            /\ cycle[d].post # MaxPosts
            /\ cycle' = [cycle EXCEPT ![d] = [@ EXCEPT !.pc = "waiting", !.left = w]]
  BY DEF PostSucceeds, PostRefused, PostFails, PostTimesOut, Transient, Verdicts
<1>4. /\ cycle' \in [Deliverers -> Cycles]
      /\ \A e \in Deliverers \ {d} : cycle'[e] = cycle[e]
      /\ cycle'[d].row = cycle[d].row /\ cycle'[d].token = cycle[d].token
      /\ cycle'[d].level = cycle[d].level /\ cycle'[d].post = cycle[d].post
      /\ cycle'[d].pc = "waiting" => cycle'[d].post # MaxPosts
      /\ cycle'[d].verdict = "sent" => cycle[d].level \in shown'[cycle[d].row]
  <2>1. ASSUME NEW v \in Verdicts, Answer(d, v), v = "sent" => PostSucceeds(d)
        PROVE  <1>4
    <3>1. cycle' \in [Deliverers -> Cycles]
      BY <2>1, AnswerType
    <3>2. /\ cycle'[d] = [cycle[d] EXCEPT !.pc = "answered", !.left = SettleTime, !.verdict = v]
          /\ \A e \in Deliverers \ {d} : cycle'[e] = cycle[e]
      BY <2>1 DEF Answer, OutboxTypeOK
    <3> QED
      BY <1>0, <1>2, <2>1, <3>1, <3>2 DEF Cycles
  <2>2. ASSUME NEW w \in 1..MaxWait, cycle[d].post # MaxPosts,
               cycle' = [cycle EXCEPT ![d] = [@ EXCEPT !.pc = "waiting", !.left = w]]
        PROVE  <1>4
    <3>0. w \in Nat
      BY OutboxConstants
    <3>1. [cycle[d] EXCEPT !.pc = "waiting", !.left = w] \in Cycles
      BY <1>0, <3>0 DEF Cycles
    <3>2. /\ cycle' \in [Deliverers -> Cycles]
          /\ cycle'[d] = [cycle[d] EXCEPT !.pc = "waiting", !.left = w]
          /\ \A e \in Deliverers \ {d} : cycle'[e] = cycle[e]
      BY <2>2, <3>1 DEF OutboxTypeOK
    <3>3. cycle[d].verdict = "sent" => cycle[d].level \in shown[cycle[d].row]
      BY <1>0 DEF SuccessWasShown
    <3>4. /\ cycle'[d].row = cycle[d].row /\ cycle'[d].token = cycle[d].token
          /\ cycle'[d].level = cycle[d].level /\ cycle'[d].post = cycle[d].post
          /\ cycle'[d].verdict = cycle[d].verdict
      BY <1>0, <3>2 DEF Cycles
    <3> QED
      BY <1>0, <1>2, <2>2, <3>2, <3>3, <3>4
  <2> QED
    BY <1>3, <2>1, <2>2
<1> QED
  BY <1>0, <1>1, <1>2, <1>4, CycleStepKeepsInv

LEMMA WaitEndsKeepsInv ==
    ASSUME OutboxInv, NEW d \in Deliverers, WaitEnds(d)
    PROVE  OutboxInv'
<1> USE DEF OutboxInv
<1>0. /\ Busy(d) /\ cycle[d] \in Cycles
      /\ cycle[d].row \in Rows /\ cycle[d].post \in 1..MaxPosts
      /\ cycle[d].verdict = "sent" => cycle[d].level \in shown[cycle[d].row]
      /\ UNCHANGED <<rowVars, statVars, wireVars, troubled, abandons>>
  BY DEF WaitEnds, Busy, BusyHasRow, SuccessWasShown, OutboxTypeOK
<1>1. cycle[d].post + 1 \in 1..MaxPosts /\ PostTimeout \in Nat
  <2>1. cycle[d].post # MaxPosts
    BY DEF WaitEnds, Busy, BusyHasRow
  <2> QED
    BY <1>0, <2>1, OutboxConstants
<1> DEFINE n == cycle[d].post + 1
           c == [cycle[d] EXCEPT !.pc = "posting", !.post = n, !.left = PostTimeout]
<1>2. n \in 0..MaxPosts
  BY <1>0, <1>1, OutboxConstants
<1>3. cycle' = [cycle EXCEPT ![d] = c]
  BY DEF WaitEnds
<1> HIDE DEF n
<1>4. c \in Cycles
  BY <1>0, <1>1, <1>2 DEF Cycles
<1>5. /\ c.row = cycle[d].row /\ c.token = cycle[d].token /\ c.level = cycle[d].level
      /\ c.post = n /\ c.pc = "posting" /\ c.verdict = cycle[d].verdict
  BY <1>0 DEF Cycles
<1> HIDE DEF c
<1>6. /\ cycle' \in [Deliverers -> Cycles] /\ cycle'[d] = c
      /\ \A e \in Deliverers \ {d} : cycle'[e] = cycle[e]
  BY <1>3, <1>4 DEF OutboxTypeOK
<1>7. n \in 1..MaxPosts
  BY <1>1 DEF n
<1> QED
  BY <1>0, <1>5, <1>6, <1>7, CycleStepKeepsInv DEF wireVars, OutboxTypeOK

LEMMA AbandonKeepsInv ==
    ASSUME OutboxInv, NEW d \in Deliverers, Abandon(d)
    PROVE  OutboxInv'
<1> USE DEF OutboxInv
<1>1. /\ Busy(d) /\ UNCHANGED <<rowVars, statVars, wireVars>>
      /\ abandons' \in Nat
      /\ troubled' = [troubled EXCEPT ![cycle[d].row] = @ \/ cycle[d].verdict = "sent"]
  BY DEF Abandon, OutboxTypeOK
<1>a. troubled' \in [Rows -> BOOLEAN]
  BY <1>1, Zenon DEF OutboxTypeOK
<1>2. Idle \in Cycles
  BY OutboxConstants DEF Idle, Cycles, Verdicts
<1>3. /\ cycle' \in [Deliverers -> Cycles] /\ cycle'[d] = Idle
      /\ \A e \in Deliverers \ {d} : cycle'[e] = cycle[e]
  BY <1>2 DEF Abandon, OutboxTypeOK
<1>4. ~Busy(d)'
  BY <1>3 DEF Busy, Idle
<1> QED
  BY <1>1, <1>a, <1>3, <1>4, CycleStepKeepsInv DEF wireVars, OutboxTypeOK

LEMMA PurgeKeepsInv ==
    ASSUME OutboxInv, NEW r \in Rows, PurgeAlert(r)
    PROVE  OutboxInv'
<1> USE DEF OutboxInv
<1>0. /\ status[r] \in Terminal /\ status' = [status EXCEPT ![r] = "purged"]
      /\ UNCHANGED <<attempts, due, lease, owner, level, statVars, cycle, wireVars,
                     troubled, abandons>>
  BY DEF PurgeAlert
<1>1. OutboxTypeOK'
  BY <1>0 DEF OutboxTypeOK, statVars, wireVars
<1>2. AttemptsLeft' /\ SentPayloadIsAudited'
  BY <1>0 DEF AttemptsLeft, SentPayloadIsAudited, wireVars, OutboxTypeOK
<1>3. BusyHasRow' /\ SuccessWasShown'
  BY <1>0 DEF BusyHasRow, SuccessWasShown, Busy, wireVars, OutboxTypeOK
<1>4. Pinned'
  BY <1>0 DEF Pinned, Busy, Terminal, OutboxTypeOK
<1>5. SentCountedOnce'
  <2>1. UNCHANGED statVars
    BY <1>0
  <2>2. \A q \in Rows :
            \/ status'[q] = status[q]
            \/ status'[q] \in {"pending", "failed"} /\ ~alertSent[q]
            \/ status'[q] = "purged"
    BY <1>0 DEF OutboxTypeOK
  <2> QED
    BY <2>1, <2>2, CountsKept
<1> QED
  BY <1>1, <1>2, <1>3, <1>4, <1>5

LEMMA TickKeepsInv ==
    ASSUME OutboxInv, Tick
    PROVE  OutboxInv'
<1> USE DEF OutboxInv
<1>0. /\ due' = [r \in Rows |-> Sooner(due[r])]
      /\ lease' = [r \in Rows |-> Sooner(lease[r])]
      /\ cycle' = [d \in Deliverers |-> [cycle[d] EXCEPT !.left = Sooner(@)]]
      /\ troubled' \in [Rows -> BOOLEAN]
      /\ UNCHANGED <<status, attempts, owner, level, statVars, wireVars, abandons>>
  BY DEF Tick
<1>1. ASSUME NEW d \in Deliverers
      PROVE  /\ cycle'[d] \in Cycles
             /\ cycle'[d].pc = cycle[d].pc /\ cycle'[d].row = cycle[d].row
             /\ cycle'[d].token = cycle[d].token /\ cycle'[d].level = cycle[d].level
             /\ cycle'[d].post = cycle[d].post /\ cycle'[d].verdict = cycle[d].verdict
  <2>1. cycle[d] \in Cycles /\ cycle[d].left \in Nat
    BY DEF OutboxTypeOK, Cycles
  <2>2. Sooner(cycle[d].left) \in Nat
    BY <2>1 DEF Sooner
  <2>3. cycle'[d] = [cycle[d] EXCEPT !.left = Sooner(cycle[d].left)]
    BY <1>0
  <2> QED
    BY <2>1, <2>2, <2>3 DEF Cycles
<1>2. due' \in [Rows -> Int] /\ \A r \in Rows : due'[r] <= DelayCap
  <2>1. \A r \in Rows : Sooner(due[r]) \in Int /\ Sooner(due[r]) <= DelayCap
    BY SoonerBounds, OutboxConstants DEF OutboxTypeOK
  <2> QED
    BY <1>0, <2>1
<1>3. lease' \in [Rows -> 0..Lease]
  <2>1. \A r \in Rows : lease[r] \in 0..Lease /\ Lease \in Nat
    BY OutboxConstants DEF OutboxTypeOK
  <2>2. \A r \in Rows : Sooner(lease[r]) \in 0..Lease
    BY <2>1 DEF Sooner
  <2> QED
    BY <1>0, <2>2
<1>4. cycle' \in [Deliverers -> Cycles]
  BY <1>0, <1>1
<1>5. OutboxTypeOK'
  BY <1>0, <1>2, <1>3, <1>4 DEF OutboxTypeOK, statVars, wireVars
<1>6. AttemptsLeft' /\ SentPayloadIsAudited' /\ SentCountedOnce'
  BY <1>0 DEF AttemptsLeft, SentPayloadIsAudited, SentCountedOnce, statVars, wireVars
<1>7. BusyHasRow'
  BY <1>0, <1>1 DEF BusyHasRow, Busy
<1>8. Pinned'
  BY <1>0, <1>1 DEF Pinned, Busy
<1>9. SuccessWasShown'
  BY <1>0, <1>1 DEF SuccessWasShown, Busy, wireVars
<1> QED
  BY <1>5, <1>6, <1>7, <1>8, <1>9

\* The three results that are written release the row of deliverer d; row by row
\* they differ only in the new status and in the books of a success.
LEMMA WrittenResult ==
    ASSUME OutboxInv, NEW d \in Deliverers, MarkDeliveryResult(d), ~ResultIgnored(d)
    PROVE  LET r == cycle[d].row IN
           /\ r \in Rows /\ Busy(d) /\ owner[r] = cycle[d].token
           /\ status[r] = "pending" /\ ~alertSent[r] /\ level[r] = cycle[d].level
           /\ attempts[r] < MaxAttempts
           /\ Release(r)
           /\ ResultSent(d) \/ ResultRetried(d) \/ ResultFailed(d)
           /\ UNCHANGED <<level, troubled, wireVars, abandons>>
<1>1. Busy(d) /\ cycle[d].row \in Rows
  BY DEF MarkDeliveryResult, Busy, OutboxInv, BusyHasRow
<1>2. owner[cycle[d].row] = cycle[d].token
  BY DEF MarkDeliveryResult, ResultSent, ResultRetried, ResultFailed
<1>3. status[cycle[d].row] = "pending" /\ level[cycle[d].row] = cycle[d].level
  BY <1>1, <1>2 DEF OutboxInv, Pinned
<1>4. ~alertSent[cycle[d].row] /\ attempts[cycle[d].row] < MaxAttempts
  BY <1>1, <1>3 DEF OutboxInv, SentCountedOnce, AttemptsLeft
<1>5. Release(cycle[d].row) /\ UNCHANGED <<level, troubled, wireVars, abandons>>
  BY DEF MarkDeliveryResult, ResultSent, ResultRetried, ResultFailed
<1> QED
  BY <1>1, <1>2, <1>3, <1>4, <1>5 DEF MarkDeliveryResult

LEMMA MarkKeepsInv ==
    ASSUME OutboxInv, NEW d \in Deliverers, MarkDeliveryResult(d)
    PROVE  OutboxInv'
<1> USE DEF OutboxInv
<1> DEFINE r == cycle[d].row
<1>a. Idle \in Cycles
  BY OutboxConstants DEF Idle, Cycles, Verdicts
<1>b. /\ cycle' \in [Deliverers -> Cycles] /\ cycle'[d] = Idle
      /\ \A e \in Deliverers \ {d} : cycle'[e] = cycle[e]
  BY <1>a DEF MarkDeliveryResult, OutboxTypeOK
<1>c. ~Busy(d)'
  BY <1>b DEF Busy, Idle
<1>1. CASE ResultIgnored(d)
  <2>1. Busy(d) /\ UNCHANGED <<rowVars, statVars, wireVars, abandons>>
    BY <1>1 DEF MarkDeliveryResult, ResultIgnored, Busy
  <2>2. troubled' = [troubled EXCEPT ![r] = @ \/ cycle[d].verdict = "sent"]
    BY <1>1 DEF ResultIgnored
  <2>3. troubled' \in [Rows -> BOOLEAN]
    BY <2>2, Zenon DEF OutboxTypeOK
  <2> QED
    BY <1>b, <1>c, <2>1, <2>3, CycleStepKeepsInv DEF wireVars, OutboxTypeOK
<1>2. CASE ~ResultIgnored(d)
  <2>1. /\ r \in Rows /\ Busy(d) /\ owner[r] = cycle[d].token
        /\ status[r] = "pending" /\ ~alertSent[r] /\ level[r] = cycle[d].level
        /\ attempts[r] < MaxAttempts
        /\ Release(r)
        /\ ResultSent(d) \/ ResultRetried(d) \/ ResultFailed(d)
        /\ UNCHANGED <<level, troubled, wireVars, abandons>>
    BY <1>2, WrittenResult
  <2>2. /\ status' \in [Rows -> {"absent", "pending", "sent", "failed", "purged"}]
        /\ status'[r] = "sent" => ResultSent(d)
        /\ status'[r] = "pending" => ResultRetried(d)
        /\ status'[r] \in {"pending", "sent", "failed"}
        /\ \A q \in Rows \ {r} : status'[q] = status[q]
    BY <2>1 DEF ResultSent, ResultRetried, ResultFailed, OutboxTypeOK
  <2>3. due' \in [Rows -> Int] /\ \A q \in Rows : due'[q] <= DelayCap
    <3>1. \E t \in Int : t <= DelayCap /\ due' = [due EXCEPT ![r] = t]
      <4>1. CASE ResultRetried(d)
        <5>1. attempts[r] + 1 \in Nat /\ attempts[r] + 1 >= 1
          <6>1. attempts[r] \in 0..MaxAttempts /\ MaxAttempts \in Nat
            BY <2>1, OutboxConstants DEF OutboxTypeOK
          <6> QED
            BY <6>1
        <5> QED
          BY <4>1, <5>1, DelayBounds DEF ResultRetried
      <4>2. CASE ~ResultRetried(d)
        BY <2>1, <4>2, OutboxConstants DEF ResultSent, ResultFailed
      <4> QED
        BY <4>1, <4>2
    <3> QED
      BY <2>1, <3>1 DEF OutboxTypeOK
  <2>4. alertSent' \in [Rows -> BOOLEAN] /\ sentStat' \in Nat
    <3>1. /\ alertSent' = alertSent \/ alertSent' = [alertSent EXCEPT ![r] = TRUE]
          /\ sentStat' = sentStat \/ sentStat' = sentStat + 1
      BY <2>1 DEF ResultSent, ResultRetried, ResultFailed, statVars
    <3>2. alertSent \in [Rows -> BOOLEAN] /\ sentStat \in Nat
      BY DEF OutboxTypeOK
    <3>3. alertSent' \in [Rows -> BOOLEAN]
      BY <3>1, <3>2
    <3>4. sentStat' \in Nat
      BY <3>1, <3>2
    <3> QED
      BY <3>3, <3>4
  <2>5. OutboxTypeOK'
    BY <1>b, <2>1, <2>2, <2>3, <2>4, ReleaseType DEF OutboxTypeOK, wireVars
  <2>6. /\ owner'[r] = NoToken /\ attempts'[r] = attempts[r] + 1
        /\ \A q \in Rows \ {r} : owner'[q] = owner[q] /\ attempts'[q] = attempts[q]
    BY <2>1 DEF Release, OutboxTypeOK
  <2>7. AttemptsLeft'
    BY <2>1, <2>2, <2>6 DEF AttemptsLeft, ResultRetried
  <2>8. BusyHasRow' /\ SuccessWasShown'
    BY <1>b, <1>c, <2>1, <2>2 DEF BusyHasRow, SuccessWasShown, Busy, wireVars
  <2>9. Pinned'
    <3>1. ASSUME NEW e \in Deliverers, Busy(e)', (owner[cycle[e].row] = cycle[e].token)'
          PROVE  (status[cycle[e].row] = "pending" /\ level[cycle[e].row] = cycle[e].level)'
      <4>1. e # d /\ cycle'[e] = cycle[e] /\ Busy(e)
        BY <1>b, <1>c, <3>1 DEF Busy
      <4>2. cycle[e].row \in Rows /\ cycle[e].token \in Tokens
        BY <4>1 DEF BusyHasRow
      <4>3. cycle[e].row # r
        BY <2>6, <3>1, <4>1, <4>2, OutboxConstants
      <4> QED
        BY <2>1, <2>2, <2>6, <3>1, <4>1, <4>2, <4>3 DEF Pinned
    <3> QED
      BY <3>1 DEF Pinned
  <2>10. SentPayloadIsAudited'
    <3>1. ResultSent(d) => level[r] \in shown[r]
      BY <2>1 DEF ResultSent, SuccessWasShown
    <3> QED
      BY <2>1, <2>2, <3>1 DEF SentPayloadIsAudited, wireVars
  <2>11. SentCountedOnce'
    <3>1. CASE ResultSent(d)
      <4>1. /\ alertSent' = [alertSent EXCEPT ![r] = TRUE] /\ sentStat' = sentStat + 1
            /\ status'[r] = "sent"
        BY <2>1, <3>1 DEF ResultSent, OutboxTypeOK
      <4> DEFINE Old == {q \in Rows : alertSent[q]}
      <4>2. {q \in Rows : alertSent'[q]} = Old \cup {r} /\ r \notin Old
        BY <2>1, <4>1 DEF OutboxTypeOK
      <4>3. IsFiniteSet(Old)
        BY FS_Subset, OutboxConstants
      <4>4. Cardinality(Old \cup {r}) = Cardinality(Old) + 1
        BY <4>2, <4>3, FS_AddElement
      <4>5. sentStat = Cardinality(Old)
        BY DEF SentCountedOnce
      <4>6. \A q \in Rows \ {r} : alertSent'[q] = alertSent[q]
        BY <4>1 DEF OutboxTypeOK
      <4>7. alertSent'[r]
        BY <2>1, <4>1 DEF OutboxTypeOK
      <4> QED
        BY <2>2, <4>1, <4>2, <4>4, <4>5, <4>6, <4>7 DEF SentCountedOnce
    <3>2. CASE ~ResultSent(d)
      <4>1. UNCHANGED statVars /\ status'[r] \in {"pending", "failed"}
        BY <2>1, <2>2, <3>2 DEF ResultRetried, ResultFailed
      <4>2. \A q \in Rows :
                \/ status'[q] = status[q]
                \/ status'[q] \in {"pending", "failed"} /\ ~alertSent[q]
                \/ status'[q] = "purged"
        BY <2>1, <2>2, <4>1
      <4> QED
        BY <4>1, <4>2, CountsKept
    <3> QED
      BY <3>1, <3>2
  <2> QED
    BY <2>5, <2>7, <2>8, <2>9, <2>10, <2>11
<1> QED
  BY <1>1, <1>2

LEMMA InvStep == OutboxInv /\ [OutboxNext]_outboxVars => OutboxInv'
<1> SUFFICES ASSUME OutboxInv, [OutboxNext]_outboxVars PROVE OutboxInv'
  OBVIOUS
<1>1. ASSUME NEW r \in Rows, NEW l \in Levels, EnqueueAlert(r, l) PROVE OutboxInv'
  BY <1>1, EnqueueKeepsInv
<1>2. ASSUME NEW d \in Deliverers, ClaimDueAlert(d) PROVE OutboxInv'
  BY <1>2, ClaimKeepsInv
<1>3. ASSUME NEW d \in Deliverers,
             PostSucceeds(d) \/ PostRefused(d) \/ PostFails(d) \/ PostTimesOut(d)
      PROVE  OutboxInv'
  BY <1>3, PostKeepsInv
<1>4. ASSUME NEW d \in Deliverers, WaitEnds(d) PROVE OutboxInv'
  BY <1>4, WaitEndsKeepsInv
<1>5. ASSUME NEW d \in Deliverers, Abandon(d) PROVE OutboxInv'
  BY <1>5, AbandonKeepsInv
<1>6. ASSUME NEW d \in Deliverers, MarkDeliveryResult(d) PROVE OutboxInv'
  BY <1>6, MarkKeepsInv
<1>7. ASSUME NEW r \in Rows, PurgeAlert(r) PROVE OutboxInv'
  BY <1>7, PurgeKeepsInv
<1>8. CASE Tick
  BY <1>8, TickKeepsInv
<1>9. CASE UNCHANGED outboxVars
  BY <1>9 DEF outboxVars, rowVars, statVars, wireVars, OutboxInv, OutboxTypeOK, AttemptsLeft,
              BusyHasRow, Pinned, SuccessWasShown, SentPayloadIsAudited, SentCountedOnce, Busy
<1> QED
  BY <1>1, <1>2, <1>3, <1>4, <1>5, <1>6, <1>7, <1>8, <1>9 DEF OutboxNext

\* The strengthening holds of every behaviour of the outbox.
LEMMA InvHolds == OutboxSpec => []OutboxInv
<1> QED
  BY InvInit, InvStep, PTL DEF OutboxSpec

\* storage/db.py: every column keeps its type, delivery_attempts never passes
\* outbox_max_attempts, no retry is put off beyond the cap of one hour.
THEOREM OutboxTypes == OutboxSpec => []OutboxTypeOK
<1>1. OutboxInv => OutboxTypeOK
  BY DEF OutboxInv
<1> QED
  BY <1>1, InvHolds, PTL

\* mark_alert_delivery_result: whatever the interleaving of claims, stalls,
\* crashes and re-evaluations, a row that says "sent" keeps a payload that the
\* Bot API took.
THEOREM SentPayloads == OutboxSpec => []SentPayloadIsAudited
<1>1. OutboxInv => SentPayloadIsAudited
  BY DEF OutboxInv
<1> QED
  BY <1>1, InvHolds, PTL

\* _mark_pipeline_alert_sent_locked: provenance and the daily counter count each
\* sent row exactly once, for any number of rows and workers.
THEOREM SentCounts == OutboxSpec => []SentCountedOnce
<1>1. OutboxInv => SentCountedOnce
  BY DEF OutboxInv
<1> QED
  BY <1>1, InvHolds, PTL

-----------------------------------------------------------------------------
(***************************************************************************)
(* The lease                                                               *)
(***************************************************************************)

\* config/settings.py: the process is scheduled in time, and the lease exceeds
\* the longest delivery cycle: all requests, the waits between them, the write.
LeaseCovers ==
    /\ OnTime
    /\ Lease > PostTimeout + (MaxPosts - 1) * (MaxWait + PostTimeout) + SettleTime

\* The longest time a cycle can still take.
Remaining(c) ==
    CASE c.pc = "posting" ->
            c.left + (MaxPosts - c.post) * (MaxWait + PostTimeout) + SettleTime
      [] c.pc = "waiting" ->
            c.left + PostTimeout + (MaxPosts - c.post - 1) * (MaxWait + PostTimeout) + SettleTime
      [] OTHER -> c.left

HoldsLease ==
    \A d \in Deliverers : Busy(d) =>
        /\ status[cycle[d].row] = "pending"
        /\ owner[cycle[d].row] = cycle[d].token
        /\ lease[cycle[d].row] > Remaining(cycle[d])

OneDelivererPerRow ==
    \A d, e \in Deliverers : Busy(d) /\ Busy(e) /\ cycle[d].row = cycle[e].row => d = e

LeaseInv == OutboxInv /\ HoldsLease /\ OneDelivererPerRow

\* One request and one wait less are one term less.
LEMMA OneRoundLess ==
    ASSUME NEW n \in Int, NEW k \in Nat
    PROVE  (n - 1) * k + k = n * k /\ (n >= 0 => n * k >= 0)
OBVIOUS

LEMMA RoundsArePositive ==
    /\ MaxWait + PostTimeout \in Nat
    /\ \A c \in Cycles : c.post \in 1..MaxPosts => (MaxPosts - c.post) * (MaxWait + PostTimeout) \in Nat
<1>1. MaxWait + PostTimeout \in Nat
  BY OutboxConstants
<1>2. ASSUME NEW c \in Cycles, c.post \in 1..MaxPosts
      PROVE  (MaxPosts - c.post) * (MaxWait + PostTimeout) \in Nat
  <2>1. MaxPosts - c.post \in Nat
    BY <1>2, OutboxConstants
  <2> QED
    BY <1>1, <2>1
<1> QED
  BY <1>1, <1>2

\* A live cycle has time left.
LEMMA RemainingIsNat ==
    ASSUME NEW c \in Cycles, c.post \in 1..MaxPosts, c.pc = "waiting" => c.post # MaxPosts
    PROVE  Remaining(c) \in Nat
<1> DEFINE K == MaxWait + PostTimeout
<1>1. c.left \in Nat
  BY DEF Cycles
<1>2. SettleTime \in Nat /\ PostTimeout \in Nat /\ MaxPosts \in Nat /\ K \in Nat
  BY OutboxConstants
<1>3. (MaxPosts - c.post) * K \in Nat
  BY <1>1, RoundsArePositive
<1>4. c.pc = "waiting" => (MaxPosts - c.post - 1) * K \in Nat
  <2>1. c.pc = "waiting" => MaxPosts - c.post - 1 \in Nat
    BY <1>1, <1>2
  <2> HIDE DEF K
  <2> QED
    BY <1>2, <2>1
<1> HIDE DEF K
<1>5. /\ c.pc = "posting" => c.left + (MaxPosts - c.post) * K + SettleTime \in Nat
      /\ c.pc = "waiting" => c.left + PostTimeout + (MaxPosts - c.post - 1) * K + SettleTime \in Nat
  BY <1>1, <1>2, <1>3, <1>4
<1> QED
  BY <1>1, <1>5 DEF Remaining, K

LEMMA BusyTimeIsNat ==
    ASSUME OutboxInv, NEW d \in Deliverers, Busy(d)
    PROVE  Remaining(cycle[d]) \in Nat
BY RemainingIsNat DEF OutboxInv, OutboxTypeOK, BusyHasRow

\* A step of one cycle that does not outlast the time it had left.
LEMMA SpendsItsTime ==
    ASSUME LeaseInv, OutboxInv', NEW d \in Deliverers, Busy(d), UNCHANGED rowVars,
           \A e \in Deliverers \ {d} : cycle'[e] = cycle[e],
           Busy(d)' => /\ cycle'[d].row = cycle[d].row
                       /\ cycle'[d].token = cycle[d].token
                       /\ Remaining(cycle'[d]) \in Nat
                       /\ Remaining(cycle'[d]) <= Remaining(cycle[d])
    PROVE  LeaseInv'
<1>1. ASSUME NEW e \in Deliverers, Busy(e)'
      PROVE  /\ Busy(e) /\ cycle'[e].row = cycle[e].row /\ cycle'[e].token = cycle[e].token
             /\ e # d => cycle'[e] = cycle[e]
  BY <1>1 DEF Busy
<1>2. OneDelivererPerRow'
  BY <1>1 DEF LeaseInv, OneDelivererPerRow
<1>3. ASSUME NEW e \in Deliverers, Busy(e)'
      PROVE  lease'[cycle'[e].row] > Remaining(cycle'[e])
  <2>1. lease[cycle[e].row] > Remaining(cycle[e]) /\ Remaining(cycle[e]) \in Nat
    BY <1>1, <1>3, BusyTimeIsNat DEF LeaseInv, HoldsLease
  <2>2. cycle[e].row \in Rows
    BY <1>1, <1>3 DEF LeaseInv, OutboxInv, BusyHasRow
  <2>3. lease[cycle[e].row] \in Nat /\ lease' = lease
    <3>1. lease \in [Rows -> 0..Lease] /\ Lease \in Nat /\ lease' = lease
      BY OutboxConstants DEF LeaseInv, OutboxInv, OutboxTypeOK, rowVars
    <3> QED
      BY <2>2, <3>1
  <2>4. CASE e # d
    BY <1>1, <1>3, <2>1, <2>3, <2>4
  <2>5. CASE e = d
    <3>1. /\ Remaining(cycle'[d]) <= Remaining(cycle[d]) /\ Remaining(cycle'[d]) \in Nat
          /\ cycle'[d].row = cycle[d].row
      BY <1>3, <2>5
    <3> HIDE DEF Remaining
    <3> QED
      BY <2>1, <2>3, <2>5, <3>1
  <2> QED
    BY <2>4, <2>5
<1>4. HoldsLease'
  BY <1>1, <1>3 DEF LeaseInv, HoldsLease, rowVars
<1> QED
  BY <1>2, <1>4 DEF LeaseInv

\* The answer of a request leaves the time of the write; a wait and the rounds
\* after it fit into the round that is given up.
LEMMA PostSpends ==
    ASSUME LeaseInv, OutboxInv', NEW d \in Deliverers,
           PostSucceeds(d) \/ PostRefused(d) \/ PostFails(d) \/ PostTimesOut(d)
    PROVE  LeaseInv'
<1> DEFINE c == cycle[d]
           K == MaxWait + PostTimeout
<1>0. /\ c.pc = "posting" /\ Busy(d) /\ c \in Cycles /\ c.left \in Nat
      /\ c.post \in 1..MaxPosts /\ UNCHANGED rowVars
  BY DEF PostSucceeds, PostRefused, PostFails, PostTimesOut, Busy, BusyHasRow, OutboxTypeOK,
         OutboxInv, LeaseInv, Cycles
<1>1. /\ SettleTime \in Nat /\ PostTimeout \in Nat /\ MaxPosts \in Nat /\ MaxWait \in Nat
      /\ K \in Nat /\ K = MaxWait + PostTimeout
  BY OutboxConstants
<1>2. (MaxPosts - c.post) * K \in Nat
  BY <1>0, RoundsArePositive
<1>3. (MaxPosts - c.post - 1) * K + K = (MaxPosts - c.post) * K
  <2>1. MaxPosts - c.post \in Int
    BY <1>0, <1>1
  <2> QED
    BY <1>1, <2>1, OneRoundLess
<1> HIDE DEF K
<1>4. Remaining(c) = c.left + (MaxPosts - c.post) * K + SettleTime
  BY <1>0 DEF Remaining, K
<1>5. \/ \E v \in Verdicts : Answer(d, v)
      \/ \E w \in 1..MaxWait :
            /\ c.post # MaxPosts
            /\ cycle' = [cycle EXCEPT ![d] = [@ EXCEPT !.pc = "waiting", !.left = w]]
  BY DEF PostSucceeds, PostRefused, PostFails, PostTimesOut, Transient, Verdicts
<1>6. /\ \A e \in Deliverers \ {d} : cycle'[e] = cycle[e]
      /\ cycle'[d].row = c.row /\ cycle'[d].token = c.token
      /\ Remaining(cycle'[d]) \in Nat
      /\ Remaining(cycle'[d]) <= Remaining(c)
  <2>1. ASSUME NEW v \in Verdicts, Answer(d, v)
        PROVE  <1>6
    <3>1. /\ cycle'[d] = [c EXCEPT !.pc = "answered", !.left = SettleTime, !.verdict = v]
          /\ \A e \in Deliverers \ {d} : cycle'[e] = cycle[e]
      BY <2>1 DEF Answer, OutboxTypeOK, OutboxInv, LeaseInv
    <3>2. /\ cycle'[d].row = c.row /\ cycle'[d].token = c.token
          /\ cycle'[d].pc = "answered" /\ cycle'[d].left = SettleTime
      BY <1>0, <3>1 DEF Cycles
    <3>3. Remaining(cycle'[d]) = SettleTime
      BY <3>2 DEF Remaining
    <3> HIDE DEF c
    <3> QED
      BY <1>0, <1>1, <1>2, <1>4, <3>1, <3>2, <3>3
  <2>2. ASSUME NEW w \in 1..MaxWait, c.post # MaxPosts,
               cycle' = [cycle EXCEPT ![d] = [@ EXCEPT !.pc = "waiting", !.left = w]]
        PROVE  <1>6
    <3>1. /\ cycle'[d] = [c EXCEPT !.pc = "waiting", !.left = w]
          /\ \A e \in Deliverers \ {d} : cycle'[e] = cycle[e]
      BY <2>2 DEF OutboxTypeOK, OutboxInv, LeaseInv
    <3>2. /\ cycle'[d].row = c.row /\ cycle'[d].token = c.token
          /\ cycle'[d].pc = "waiting" /\ cycle'[d].left = w /\ cycle'[d].post = c.post
      BY <1>0, <3>1 DEF Cycles
    <3>3. Remaining(cycle'[d]) = w + PostTimeout + (MaxPosts - c.post - 1) * K + SettleTime
      BY <3>2 DEF Remaining, K
    <3>4. w \in Nat /\ w <= MaxWait
      BY <1>1
    <3>5. (MaxPosts - c.post - 1) * K \in Nat
      <4>1. MaxPosts - c.post - 1 \in Nat
        BY <1>0, <1>1, <2>2
      <4> QED
        BY <1>1, <4>1
    <3> HIDE DEF c
    <3> QED
      BY <1>0, <1>1, <1>3, <1>4, <3>1, <3>2, <3>3, <3>4, <3>5
  <2> QED
    BY <1>5, <2>1, <2>2
<1> QED
  BY <1>0, <1>6, SpendsItsTime

LEMMA WaitSpends ==
    ASSUME LeaseInv, OutboxInv', NEW d \in Deliverers, WaitEnds(d)
    PROVE  LeaseInv'
<1> DEFINE c == cycle[d]
           K == MaxWait + PostTimeout
           n == c.post + 1
<1>0. /\ c.pc = "waiting" /\ c.left = 0 /\ Busy(d) /\ c \in Cycles
      /\ c.post \in 1..MaxPosts /\ UNCHANGED rowVars
  BY DEF WaitEnds, Busy, BusyHasRow, OutboxTypeOK, OutboxInv, LeaseInv
<1>1. cycle' = [cycle EXCEPT ![d] = [c EXCEPT !.pc = "posting", !.post = n, !.left = PostTimeout]]
  BY DEF WaitEnds
<1>2. MaxPosts - n = MaxPosts - c.post - 1
  BY <1>0, OutboxConstants
<1> HIDE DEF n
<1>3. /\ cycle'[d] = [c EXCEPT !.pc = "posting", !.post = n, !.left = PostTimeout]
      /\ \A e \in Deliverers \ {d} : cycle'[e] = cycle[e]
  BY <1>1 DEF OutboxTypeOK, OutboxInv, LeaseInv
<1>4. /\ cycle'[d].row = c.row /\ cycle'[d].token = c.token
      /\ cycle'[d].pc = "posting" /\ cycle'[d].left = PostTimeout /\ cycle'[d].post = n
  BY <1>0, <1>3 DEF Cycles
<1>5. Remaining(c) = c.left + PostTimeout + (MaxPosts - c.post - 1) * K + SettleTime
  BY <1>0 DEF Remaining
<1>6. Remaining(cycle'[d]) = PostTimeout + (MaxPosts - n) * K + SettleTime
  BY <1>4 DEF Remaining
<1>7. Remaining(c) \in Nat
  BY <1>0, BusyTimeIsNat DEF LeaseInv
<1> HIDE DEF c, K
<1>8. Remaining(cycle'[d]) = Remaining(c)
  <2>1. (MaxPosts - c.post - 1) * K \in Int /\ PostTimeout \in Nat /\ SettleTime \in Nat
    BY <1>0, OutboxConstants DEF K
  <2> QED
    BY <1>0, <1>2, <1>5, <1>6, <2>1
<1> HIDE DEF Remaining
<1>9. Remaining(cycle'[d]) \in Nat /\ Remaining(cycle'[d]) <= Remaining(cycle[d])
  BY <1>7, <1>8 DEF c
<1> QED
  BY <1>0, <1>3, <1>4, <1>9, SpendsItsTime DEF c

LEMMA AbandonSpends ==
    ASSUME LeaseInv, OutboxInv', NEW d \in Deliverers, Abandon(d)
    PROVE  LeaseInv'
<1>1. /\ Busy(d) /\ UNCHANGED rowVars /\ cycle'[d] = Idle
      /\ \A e \in Deliverers \ {d} : cycle'[e] = cycle[e]
  BY DEF Abandon, OutboxTypeOK, OutboxInv, LeaseInv
<1>2. ~Busy(d)'
  BY <1>1 DEF Busy, Idle
<1> QED
  BY <1>1, <1>2, SpendsItsTime

\* A row in flight has an owner and an unexpired lease, so no claim, refresh or
\* purge can touch it.
LEMMA InFlightIsOutOfReach ==
    ASSUME LeaseInv, NEW d \in Deliverers, Busy(d)
    PROVE  LET r == cycle[d].row IN
           r \in Rows /\ ~Claimable(r) /\ owner[r] # NoToken /\ status[r] = "pending"
<1>1. /\ cycle[d].row \in Rows /\ cycle[d].token \in Tokens
      /\ owner[cycle[d].row] = cycle[d].token /\ status[cycle[d].row] = "pending"
      /\ lease[cycle[d].row] > Remaining(cycle[d])
  BY DEF LeaseInv, OutboxInv, BusyHasRow, HoldsLease
<1>2. Remaining(cycle[d]) \in Nat
  BY BusyTimeIsNat DEF LeaseInv
<1> HIDE DEF Remaining
<1>3. lease[cycle[d].row] # 0
  BY <1>1, <1>2
<1> QED
  BY <1>1, <1>3, OutboxConstants DEF Claimable

LEMMA ClaimKeepsLease ==
    ASSUME LeaseCovers, LeaseInv, OutboxInv', NEW d \in Deliverers, ClaimDueAlert(d)
    PROVE  LeaseInv'
<1> DEFINE new(r, t) == [pc |-> "posting", row |-> r, token |-> t, level |-> level[r],
                         post |-> 1, left |-> PostTimeout, verdict |-> "none"]
<1>0. PICK r \in Rows, t \in FreshTokens :
        /\ Claimable(r)
        /\ owner' = [owner EXCEPT ![r] = t]
        /\ lease' = [lease EXCEPT ![r] = Lease]
        /\ cycle' = [cycle EXCEPT ![d] = new(r, t)]
  BY DEF ClaimDueAlert
<1>1. /\ owner'[r] = t /\ lease'[r] = Lease /\ cycle'[d] = new(r, t) /\ status' = status
      /\ \A q \in Rows \ {r} : owner'[q] = owner[q] /\ lease'[q] = lease[q]
      /\ \A e \in Deliverers \ {d} : cycle'[e] = cycle[e]
  BY <1>0 DEF ClaimDueAlert, LeaseInv, OutboxInv, OutboxTypeOK
<1>2. ASSUME NEW e \in Deliverers \ {d}, Busy(e)'
      PROVE  Busy(e) /\ cycle'[e] = cycle[e] /\ cycle[e].row \in Rows \ {r}
  BY <1>0, <1>1, <1>2, InFlightIsOutOfReach DEF Busy
<1>3. Remaining(cycle'[d]) < Lease
  <2>1. /\ cycle'[d].pc = "posting" /\ cycle'[d].left = PostTimeout /\ cycle'[d].post = 1
    BY <1>1
  <2> QED
    BY <2>1, OutboxConstants DEF LeaseCovers, Remaining
<1>4. HoldsLease'
  <2>1. ASSUME NEW e \in Deliverers \ {d}, Busy(e)'
        PROVE  (/\ status[cycle[e].row] = "pending"
                /\ owner[cycle[e].row] = cycle[e].token
                /\ lease[cycle[e].row] > Remaining(cycle[e]))'
    BY <1>1, <1>2, <2>1 DEF LeaseInv, HoldsLease
  <2>2. (/\ status[cycle[d].row] = "pending"
         /\ owner[cycle[d].row] = cycle[d].token
         /\ lease[cycle[d].row] > Remaining(cycle[d]))'
    <3>1. Remaining(cycle'[d]) \in Int
      <4>1. cycle'[d].pc = "posting" /\ cycle'[d].left = PostTimeout /\ cycle'[d].post = 1
        BY <1>1
      <4> QED
        BY <4>1, OutboxConstants DEF Remaining
    <3>2. lease'[r] > Remaining(cycle'[d])
      <4> HIDE DEF Remaining
      <4> QED
        BY <1>1, <1>3, <3>1, OutboxConstants
    <3> QED
      BY <1>0, <1>1, <3>2 DEF Claimable
  <2> QED
    BY <2>1, <2>2 DEF HoldsLease
<1>5. OneDelivererPerRow'
  <2>1. cycle'[d].row = r
    BY <1>1
  <2> QED
    BY <1>2, <2>1 DEF LeaseInv, OneDelivererPerRow
<1> QED
  BY <1>4, <1>5 DEF LeaseInv

\* Steps on rows that nobody has in flight.
LEMMA OtherRowsKeepLease ==
    ASSUME LeaseInv, NEW r \in Rows,
           \A d \in Deliverers : Busy(d)' => cycle'[d] = cycle[d] /\ cycle[d].row # r,
           \A q \in Rows \ {r} : status'[q] = status[q] /\ owner'[q] = owner[q] /\ lease'[q] = lease[q]
    PROVE  HoldsLease' /\ OneDelivererPerRow'
<1>1. ASSUME NEW d \in Deliverers, Busy(d)'
      PROVE  Busy(d) /\ cycle'[d] = cycle[d] /\ cycle[d].row \in Rows \ {r}
  BY <1>1 DEF Busy, LeaseInv, OutboxInv, BusyHasRow
<1>2. HoldsLease'
  BY <1>1 DEF LeaseInv, HoldsLease
<1>3. OneDelivererPerRow'
  BY <1>1 DEF LeaseInv, OneDelivererPerRow
<1> QED
  BY <1>2, <1>3

LEMMA EnqueueKeepsLease ==
    ASSUME LeaseInv, OutboxInv', NEW r \in Rows, NEW l \in Levels, EnqueueAlert(r, l)
    PROVE  LeaseInv'
<1>1. /\ status[r] = "absent" \/ (status[r] = "pending" /\ owner[r] = NoToken)
      /\ UNCHANGED <<owner, lease, cycle>>
      /\ \A q \in Rows \ {r} : status'[q] = status[q]
  BY DEF EnqueueAlert, Insert, Refresh, LeaseInv, OutboxInv, OutboxTypeOK
<1>2. \A d \in Deliverers : Busy(d)' => cycle'[d] = cycle[d] /\ cycle[d].row # r
  BY <1>1, InFlightIsOutOfReach DEF Busy
<1> QED
  BY <1>1, <1>2, OtherRowsKeepLease DEF LeaseInv

LEMMA PurgeKeepsLease ==
    ASSUME LeaseInv, OutboxInv', NEW r \in Rows, PurgeAlert(r)
    PROVE  LeaseInv'
<1>1. /\ status[r] # "pending"
      /\ UNCHANGED <<owner, lease, cycle>>
      /\ \A q \in Rows \ {r} : status'[q] = status[q]
  BY DEF PurgeAlert, Terminal, LeaseInv, OutboxInv, OutboxTypeOK
<1>2. \A d \in Deliverers : Busy(d)' => cycle'[d] = cycle[d] /\ cycle[d].row # r
  BY <1>1, InFlightIsOutOfReach DEF Busy
<1> QED
  BY <1>1, <1>2, OtherRowsKeepLease DEF LeaseInv

LEMMA MarkKeepsLease ==
    ASSUME LeaseInv, OutboxInv', NEW d \in Deliverers, MarkDeliveryResult(d)
    PROVE  LeaseInv'
<1>1. Busy(d) /\ cycle[d].row \in Rows
  BY DEF MarkDeliveryResult, Busy, LeaseInv, OutboxInv, BusyHasRow
<1>2. cycle'[d] = Idle /\ \A e \in Deliverers \ {d} : cycle'[e] = cycle[e]
  BY DEF MarkDeliveryResult, LeaseInv, OutboxInv, OutboxTypeOK
<1>3. \A e \in Deliverers : Busy(e)' => cycle'[e] = cycle[e] /\ cycle[e].row # cycle[d].row
  BY <1>1, <1>2 DEF Busy, Idle, LeaseInv, OneDelivererPerRow
<1>4. ~ResultIgnored(d)
  BY <1>1 DEF ResultIgnored, LeaseInv, HoldsLease
<1>5. \A q \in Rows \ {cycle[d].row} :
        status'[q] = status[q] /\ owner'[q] = owner[q] /\ lease'[q] = lease[q]
  BY <1>4 DEF MarkDeliveryResult, ResultSent, ResultRetried, ResultFailed, Release,
              LeaseInv, OutboxInv, OutboxTypeOK
<1> QED
  BY <1>1, <1>3, <1>5, OtherRowsKeepLease DEF LeaseInv

\* Time passes for the lease and for the cycle alike.
LEMMA TickKeepsLease ==
    ASSUME LeaseCovers, LeaseInv, OutboxInv', Tick
    PROVE  LeaseInv'
<1>1. /\ lease' = [r \in Rows |-> Sooner(lease[r])]
      /\ cycle' = [d \in Deliverers |-> [cycle[d] EXCEPT !.left = Sooner(@)]]
      /\ UNCHANGED <<status, owner>>
      /\ \A d \in Deliverers : Busy(d) => cycle[d].left > 0
  BY DEF Tick, LeaseCovers
<1>2. ASSUME NEW d \in Deliverers, Busy(d)'
      PROVE  /\ Busy(d) /\ cycle[d].row \in Rows
             /\ cycle'[d].row = cycle[d].row /\ cycle'[d].token = cycle[d].token
             /\ Remaining(cycle'[d]) = Remaining(cycle[d]) - 1
  <2>1. cycle[d] \in Cycles
    BY DEF LeaseInv, OutboxInv, OutboxTypeOK
  <2>2. cycle'[d] = [cycle[d] EXCEPT !.left = Sooner(cycle[d].left)]
    BY <1>1
  <2>3. /\ cycle'[d].pc = cycle[d].pc /\ cycle'[d].row = cycle[d].row
        /\ cycle'[d].token = cycle[d].token /\ cycle'[d].post = cycle[d].post
        /\ cycle'[d].left = Sooner(cycle[d].left)
    BY <2>1, <2>2 DEF Cycles
  <2>4. Busy(d) /\ cycle[d].row \in Rows /\ cycle[d].post \in 1..MaxPosts
    BY <1>2, <2>3 DEF Busy, LeaseInv, OutboxInv, BusyHasRow
  <2>5. cycle[d].left \in Nat /\ cycle'[d].left = cycle[d].left - 1
    BY <1>1, <2>1, <2>3, <2>4 DEF Sooner, Cycles
  <2>6. Remaining(cycle'[d]) = Remaining(cycle[d]) - 1
    <3> DEFINE a == (MaxPosts - cycle[d].post) * (MaxWait + PostTimeout)
               b == (MaxPosts - cycle[d].post - 1) * (MaxWait + PostTimeout)
    <3>1. a \in Int /\ b \in Int /\ SettleTime \in Int /\ PostTimeout \in Int
      BY <2>4, OutboxConstants
    <3>2. Remaining(cycle[d]) =
            CASE cycle[d].pc = "posting" -> cycle[d].left + a + SettleTime
              [] cycle[d].pc = "waiting" -> cycle[d].left + PostTimeout + b + SettleTime
              [] OTHER -> cycle[d].left
      BY DEF Remaining
    <3>3. Remaining(cycle'[d]) =
            CASE cycle[d].pc = "posting" -> cycle[d].left - 1 + a + SettleTime
              [] cycle[d].pc = "waiting" -> cycle[d].left - 1 + PostTimeout + b + SettleTime
              [] OTHER -> cycle[d].left - 1
      BY <2>3, <2>5 DEF Remaining
    <3> HIDE DEF a, b
    <3> QED
      BY <2>5, <3>1, <3>2, <3>3
  <2> QED
    BY <2>3, <2>4, <2>6
<1>3. ASSUME NEW d \in Deliverers, Busy(d)'
      PROVE  lease'[cycle'[d].row] > Remaining(cycle'[d])
  <2>1. /\ lease[cycle[d].row] > Remaining(cycle[d]) /\ Remaining(cycle[d]) \in Nat
        /\ Remaining(cycle'[d]) = Remaining(cycle[d]) - 1
    BY <1>2, <1>3, BusyTimeIsNat DEF LeaseInv, HoldsLease
  <2>2. lease \in [Rows -> 0..Lease] /\ Lease \in Nat
    BY OutboxConstants DEF LeaseInv, OutboxInv, OutboxTypeOK
  <2>3. lease[cycle[d].row] \in Nat
    BY <1>2, <1>3, <2>2
  <2>4. lease'[cycle'[d].row] = Sooner(lease[cycle[d].row])
    BY <1>1, <1>2, <1>3
  <2> HIDE DEF Remaining
  <2>5. Sooner(lease[cycle[d].row]) = lease[cycle[d].row] - 1
    BY <2>1, <2>3 DEF Sooner
  <2> QED
    BY <2>1, <2>3, <2>4, <2>5
<1>4. HoldsLease'
  BY <1>1, <1>2, <1>3 DEF LeaseInv, HoldsLease
<1>5. OneDelivererPerRow'
  BY <1>2 DEF LeaseInv, OneDelivererPerRow
<1> QED
  BY <1>4, <1>5 DEF LeaseInv

LEMMA LeaseInit == OutboxInit => LeaseInv
BY InvInit DEF OutboxInit, LeaseInv, HoldsLease, OneDelivererPerRow, Busy, Idle

LEMMA LeaseStep == LeaseCovers /\ LeaseInv /\ [OutboxNext]_outboxVars => LeaseInv'
<1> SUFFICES ASSUME LeaseCovers, LeaseInv, [OutboxNext]_outboxVars PROVE LeaseInv'
  OBVIOUS
<1>0. OutboxInv'
  BY InvStep DEF LeaseInv
<1>1. ASSUME NEW r \in Rows, NEW l \in Levels, EnqueueAlert(r, l) PROVE LeaseInv'
  BY <1>0, <1>1, EnqueueKeepsLease
<1>2. ASSUME NEW d \in Deliverers, ClaimDueAlert(d) PROVE LeaseInv'
  BY <1>0, <1>2, ClaimKeepsLease
<1>3. ASSUME NEW d \in Deliverers,
             PostSucceeds(d) \/ PostRefused(d) \/ PostFails(d) \/ PostTimesOut(d)
      PROVE  LeaseInv'
  BY <1>0, <1>3, PostSpends
<1>4. ASSUME NEW d \in Deliverers, WaitEnds(d) PROVE LeaseInv'
  BY <1>0, <1>4, WaitSpends
<1>5. ASSUME NEW d \in Deliverers, Abandon(d) PROVE LeaseInv'
  BY <1>0, <1>5, AbandonSpends
<1>6. ASSUME NEW d \in Deliverers, MarkDeliveryResult(d) PROVE LeaseInv'
  BY <1>0, <1>6, MarkKeepsLease
<1>7. ASSUME NEW r \in Rows, PurgeAlert(r) PROVE LeaseInv'
  BY <1>0, <1>7, PurgeKeepsLease
<1>8. CASE Tick
  BY <1>0, <1>8, TickKeepsLease
<1>9. CASE UNCHANGED outboxVars
  BY <1>0, <1>9 DEF outboxVars, rowVars, LeaseInv, HoldsLease, OneDelivererPerRow, Busy
<1> QED
  BY <1>1, <1>2, <1>3, <1>4, <1>5, <1>6, <1>7, <1>8, <1>9 DEF OutboxNext

\* config/settings.py, "keep the lease above that ceiling so another worker cannot
\* reclaim an in-flight alert": a lease longer than all requests, waits and the
\* write of one cycle is enough, for any number of workers and alerts.
THEOREM LeaseSuffices ==
    ASSUME LeaseCovers
    PROVE  OutboxSpec => []NoInFlightReclaim
<1>1. LeaseInv /\ [OutboxNext]_outboxVars => LeaseInv'
  BY LeaseStep
<1>2. LeaseInv => NoInFlightReclaim
  BY DEF LeaseInv, HoldsLease, NoInFlightReclaim
<1> QED
  BY <1>1, <1>2, LeaseInit, PTL DEF OutboxSpec

-----------------------------------------------------------------------------
(***************************************************************************)
(* Settled rows, and the abstract life of an alert                         *)
(***************************************************************************)

LEMMA FrozenStep ==
    OutboxInv /\ [OutboxNext]_outboxVars =>
        [\A r \in Rows :
            status[r] \in Terminal =>
                /\ status'[r] \in {status[r], "purged"}
                /\ attempts'[r] = attempts[r]
                /\ level'[r] = level[r]
                /\ alertSent'[r] = alertSent[r]]_outboxVars
<1> SUFFICES ASSUME OutboxInv, OutboxNext, NEW r \in Rows, status[r] \in Terminal
             PROVE  /\ status'[r] \in {status[r], "purged"}
                    /\ attempts'[r] = attempts[r]
                    /\ level'[r] = level[r]
                    /\ alertSent'[r] = alertSent[r]
  OBVIOUS
<1> USE DEF OutboxInv
<1>1. ASSUME NEW q \in Rows, NEW l \in Levels, EnqueueAlert(q, l)
      PROVE  UNCHANGED <<attempts, alertSent>> /\ status'[r] = status[r] /\ level'[r] = level[r]
  <2>1. q # r /\ UNCHANGED <<attempts, alertSent>>
    BY <1>1 DEF EnqueueAlert, Insert, Refresh, Terminal, statVars
  <2> QED
    BY <1>1, <2>1 DEF EnqueueAlert, Insert, Refresh, OutboxTypeOK
<1>2. ASSUME NEW d \in Deliverers,
             \/ ClaimDueAlert(d) \/ PostSucceeds(d) \/ PostRefused(d) \/ PostFails(d)
             \/ PostTimesOut(d) \/ WaitEnds(d) \/ Abandon(d)
      PROVE  UNCHANGED <<status, attempts, level, alertSent>>
  BY <1>2 DEF ClaimDueAlert, PostSucceeds, PostRefused, PostFails, PostTimesOut, WaitEnds, Abandon,
              rowVars, statVars
<1>3. ASSUME NEW d \in Deliverers, MarkDeliveryResult(d)
      PROVE  /\ status'[r] = status[r] /\ attempts'[r] = attempts[r]
             /\ level' = level /\ alertSent'[r] = alertSent[r]
  <2>1. CASE ResultIgnored(d)
    BY <2>1 DEF ResultIgnored, rowVars, statVars
  <2>2. CASE ~ResultIgnored(d)
    <3>1. /\ cycle[d].row \in Rows \ {r} /\ Release(cycle[d].row) /\ level' = level
          /\ ResultSent(d) \/ ResultRetried(d) \/ ResultFailed(d)
      BY <1>3, <2>2, WrittenResult DEF Terminal
    <3> QED
      BY <3>1 DEF Release, ResultSent, ResultRetried, ResultFailed, OutboxTypeOK, statVars
  <2> QED
    BY <2>1, <2>2
<1>4. ASSUME NEW q \in Rows, PurgeAlert(q)
      PROVE  /\ status'[r] \in {status[r], "purged"}
             /\ UNCHANGED <<attempts, level, alertSent>>
  BY <1>4 DEF PurgeAlert, OutboxTypeOK, statVars
<1>5. CASE Tick
  BY <1>5 DEF Tick, statVars
<1> QED
  BY <1>1, <1>2, <1>3, <1>4, <1>5 DEF OutboxNext

\* storage/db.py: no late worker, reclaim, refresh or retry rewrites the verdict,
\* the attempts, the payload or the provenance of a settled row.
THEOREM SettledRows == OutboxSpec => SettledRowsFrozen
<1> QED
  BY InvHolds, FrozenStep, PTL DEF OutboxSpec, SettledRowsFrozen

Reached == [r \in Rows |-> shown[r] # {}]

LEMMA LifeInitMaps == OutboxInit => Lifecycle!LifeInit
BY DEF OutboxInit, Lifecycle!LifeInit

\* The Bot API took a payload of row r, and nothing else changed for the owner.
LEMMA AcceptMaps ==
    ASSUME OutboxInv, NEW d \in Deliverers, Busy(d), Accept(d), status' = status
    PROVE  Lifecycle!Reach(cycle[d].row)
<1>1. cycle[d].row \in Rows /\ status[cycle[d].row] # "absent"
  BY DEF OutboxInv, BusyHasRow
<1>2. shown' = [shown EXCEPT ![cycle[d].row] = @ \cup {cycle[d].level}]
  BY DEF Accept
<1>3. \A r \in Rows : shown'[r] # {} <=> (r = cycle[d].row \/ shown[r] # {})
  BY <1>1, <1>2 DEF OutboxInv, OutboxTypeOK
<1>4. Reached' = [Reached EXCEPT ![cycle[d].row] = TRUE]
  BY <1>1, <1>3, Zenon DEF Reached
<1> QED
  BY <1>1, <1>4 DEF Lifecycle!Reach, Reached

LEMMA LifeActs ==
    \A r \in Rows :
        Lifecycle!Raise(r) \/ Lifecycle!Reach(r) \/ Lifecycle!Confirm(r)
            \/ Lifecycle!GiveUp(r) \/ Lifecycle!Forget(r)
        => Lifecycle!LifeNext
BY DEF Lifecycle!LifeNext

LEMMA LifeStepMaps ==
    OutboxInv /\ [OutboxNext]_outboxVars => [Lifecycle!LifeNext]_(Lifecycle!lifeVars)
<1> SUFFICES ASSUME OutboxInv, [OutboxNext]_outboxVars
             PROVE  [Lifecycle!LifeNext]_(Lifecycle!lifeVars)
  OBVIOUS
<1> USE DEF OutboxInv
<1>1. ASSUME NEW r \in Rows, NEW l \in Levels, EnqueueAlert(r, l)
      PROVE  Lifecycle!Raise(r) \/ UNCHANGED Lifecycle!lifeVars
  BY <1>1 DEF EnqueueAlert, Insert, Refresh, Lifecycle!Raise, Lifecycle!lifeVars, wireVars
<1>2. ASSUME NEW d \in Deliverers,
             ClaimDueAlert(d) \/ PostRefused(d) \/ PostFails(d) \/ WaitEnds(d) \/ Abandon(d)
      PROVE  UNCHANGED Lifecycle!lifeVars
  BY <1>2 DEF ClaimDueAlert, PostRefused, PostFails, WaitEnds, Abandon, Lifecycle!lifeVars,
              rowVars, wireVars
<1>3. ASSUME NEW d \in Deliverers, PostSucceeds(d) \/ PostTimesOut(d)
      PROVE  \E r \in Rows : Lifecycle!Reach(r)
  <2>1. Busy(d) /\ Accept(d) /\ status' = status
    BY <1>3 DEF PostSucceeds, PostTimesOut, Busy, rowVars
  <2>2. cycle[d].row \in Rows
    BY <2>1 DEF BusyHasRow
  <2>3. Lifecycle!Reach(cycle[d].row)
    BY <2>1, AcceptMaps
  <2> QED
    BY <2>2, <2>3 DEF Lifecycle!Reach
<1>4. ASSUME NEW d \in Deliverers, MarkDeliveryResult(d)
      PROVE  \/ UNCHANGED Lifecycle!lifeVars
             \/ \E r \in Rows : Lifecycle!Confirm(r) \/ Lifecycle!GiveUp(r)
  <2>0. UNCHANGED shown
    BY <1>4 DEF MarkDeliveryResult, wireVars
  <2>1. CASE ResultIgnored(d)
    BY <2>0, <2>1 DEF ResultIgnored, rowVars, Lifecycle!lifeVars
  <2>2. CASE ~ResultIgnored(d)
    <3> DEFINE r == cycle[d].row
    <3>1. /\ r \in Rows /\ Busy(d) /\ status[r] = "pending" /\ level[r] = cycle[d].level
          /\ ResultSent(d) \/ ResultRetried(d) \/ ResultFailed(d)
      BY <1>4, <2>2, WrittenResult
    <3>2. CASE ResultSent(d)
      <4>1. shown[r] # {} /\ status' = [status EXCEPT ![r] = "sent"]
        BY <3>1, <3>2 DEF ResultSent, SuccessWasShown
      <4> QED
        BY <2>0, <3>1, <4>1 DEF Lifecycle!Confirm
    <3>3. CASE ResultRetried(d)
      BY <2>0, <3>3 DEF ResultRetried, Lifecycle!lifeVars
    <3>4. CASE ResultFailed(d)
      <4>1. status' = [status EXCEPT ![r] = "failed"]
        BY <3>4 DEF ResultFailed
      <4> QED
        BY <2>0, <3>1, <4>1 DEF Lifecycle!GiveUp
    <3> QED
      BY <3>1, <3>2, <3>3, <3>4
  <2> QED
    BY <2>1, <2>2
<1>5. ASSUME NEW r \in Rows, PurgeAlert(r)
      PROVE  Lifecycle!Forget(r)
  BY <1>5 DEF PurgeAlert, Terminal, Lifecycle!Forget, Lifecycle!Settled, wireVars
<1>6. CASE Tick
  BY <1>6 DEF Tick, Lifecycle!lifeVars, wireVars
<1>7. CASE UNCHANGED outboxVars
  BY <1>7 DEF outboxVars, rowVars, wireVars, Lifecycle!lifeVars
<1> HIDE DEF OutboxInv
<1>8. CASE \E r \in Rows, l \in Levels : EnqueueAlert(r, l)
  BY <1>1, <1>8, LifeActs
<1>9. CASE \E d \in Deliverers :
            ClaimDueAlert(d) \/ PostRefused(d) \/ PostFails(d) \/ WaitEnds(d) \/ Abandon(d)
  BY <1>2, <1>9
<1>10. CASE \E d \in Deliverers : PostSucceeds(d) \/ PostTimesOut(d)
  BY <1>3, <1>10, LifeActs
<1>11. CASE \E d \in Deliverers : MarkDeliveryResult(d)
  BY <1>4, <1>11, LifeActs
<1>12. CASE \E r \in Rows : PurgeAlert(r)
  BY <1>5, <1>12, LifeActs
<1> QED
  BY <1>6, <1>7, <1>8, <1>9, <1>10, <1>11, <1>12 DEF OutboxNext

\* AlertLifecycle: with its leases, tokens, clocks, retries and crashes, the
\* outbox still raises an alert once, says "sent" only of what was taken, and
\* forgets only what is settled.
THEOREM OutboxImplementsLifecycle == OutboxSpec => ImplementsLifecycle
<1> QED
  BY InvHolds, LifeInitMaps, LifeStepMaps, PTL
     DEF OutboxSpec, ImplementsLifecycle, Lifecycle!LifeSpec

-----------------------------------------------------------------------------
(***************************************************************************)
(* Duplicates.  While nothing has troubled a row, whoever works on it owns  *)
(* it under a lease that runs, so at most one deliverer does; and once the  *)
(* Bot API took it, either the row says so or its deliverer is about to.    *)
(***************************************************************************)

TokensDiffer ==
    \A d, e \in Deliverers : Busy(d) /\ Busy(e) /\ cycle[d].token = cycle[e].token => d = e

WorksOn(d, r) == Busy(d) /\ cycle[d].row = r

WorkerOwns(r) ==
    \A d \in Deliverers : WorksOn(d, r) => owner[r] = cycle[d].token /\ lease[r] > 0

\* The acceptance is recorded, or is in the hands of the deliverer.
Told(r) ==
    \/ status[r] \in {"sent", "purged"}
    \/ \E d \in Deliverers :
        WorksOn(d, r) /\ cycle[d].pc = "answered" /\ cycle[d].verdict = "sent"

AcceptedOnce(r) == WorkerOwns(r) /\ accepted[r] <= 1 /\ (accepted[r] > 0 => Told(r))

DuplicateInv == TokensDiffer /\ \A r \in Rows : troubled[r] \/ AcceptedOnce(r)

\* Two deliverers of one untroubled row are one.
LEMMA SoleWorker ==
    ASSUME TokensDiffer, NEW r \in Rows, AcceptedOnce(r),
           NEW d \in Deliverers, NEW e \in Deliverers, WorksOn(d, r), WorksOn(e, r)
    PROVE  d = e
BY DEF TokensDiffer, AcceptedOnce, WorkerOwns, WorksOn

\* Before it answers, the deliverer of an untroubled row has had nothing accepted.
LEMMA NothingAcceptedYet ==
    ASSUME OutboxInv, TokensDiffer, NEW d \in Deliverers, Busy(d), AcceptedOnce(cycle[d].row),
           cycle[d].pc # "answered" \/ cycle[d].verdict # "sent"
    PROVE  accepted[cycle[d].row] = 0
<1>1. cycle[d].row \in Rows /\ WorksOn(d, cycle[d].row)
  BY DEF OutboxInv, BusyHasRow, WorksOn
<1>2. status[cycle[d].row] = "pending"
  BY <1>1 DEF OutboxInv, Pinned, AcceptedOnce, WorkerOwns
<1>3. ~Told(cycle[d].row)
  BY <1>1, <1>2, SoleWorker DEF Told
<1> QED
  BY <1>1, <1>3 DEF AcceptedOnce, OutboxInv, OutboxTypeOK

\* A row that no deliverer touches, and whose worker goes on as before.
LEMMA RowUntouched ==
    ASSUME NEW r \in Rows, troubled[r] \/ AcceptedOnce(r), troubled[r] => troubled'[r],
           owner'[r] = owner[r], lease'[r] = lease[r], accepted'[r] = accepted[r],
           \/ status'[r] = status[r]
           \/ status[r] \notin {"sent", "purged"} \/ status'[r] \in {"sent", "purged"},
           \A d \in Deliverers : WorksOn(d, r) \/ WorksOn(d, r)' => cycle'[d] = cycle[d]
    PROVE  troubled'[r] \/ AcceptedOnce(r)'
<1>1. CASE troubled[r]
  BY <1>1
<1>2. CASE AcceptedOnce(r)
  <2>1. \A d \in Deliverers : (WorksOn(d, r) <=> WorksOn(d, r)') /\ (WorksOn(d, r) => cycle'[d] = cycle[d])
    BY DEF WorksOn, Busy
  <2>2. WorkerOwns(r)'
    BY <1>2, <2>1 DEF AcceptedOnce, WorkerOwns
  <2>3. Told(r) => Told(r)'
    BY <2>1 DEF Told
  <2> QED
    BY <1>2, <2>2, <2>3 DEF AcceptedOnce
<1> QED
  BY <1>1, <1>2

\* Where only the cycle of d changes, tokens stay different.
LEMMA TokensStayDifferent ==
    ASSUME TokensDiffer, NEW d \in Deliverers,
           \A e \in Deliverers \ {d} : cycle'[e] = cycle[e],
           Busy(d)' => Busy(d) /\ cycle'[d].token = cycle[d].token
    PROVE  TokensDiffer'
BY DEF TokensDiffer, Busy

LEMMA ClaimKeepsOnce ==
    ASSUME OutboxInv, DuplicateInv, NEW d \in Deliverers, ClaimDueAlert(d)
    PROVE  DuplicateInv'
<1>0. PICK r \in Rows, t \in FreshTokens :
        /\ Claimable(r)
        /\ owner' = [owner EXCEPT ![r] = t]
        /\ lease' = [lease EXCEPT ![r] = Lease]
        /\ cycle' = [cycle EXCEPT ![d] =
                [pc |-> "posting", row |-> r, token |-> t, level |-> level[r],
                 post |-> 1, left |-> PostTimeout, verdict |-> "none"]]
  BY DEF ClaimDueAlert
<1>1. UNCHANGED <<status, accepted, troubled>> /\ ~Busy(d)
  BY DEF ClaimDueAlert, wireVars
<1>2. t \in Tokens /\ \A e \in Deliverers : cycle[e].token # t
  BY DEF FreshTokens
<1>3. /\ cycle'[d].pc = "posting" /\ cycle'[d].row = r /\ cycle'[d].token = t
      /\ \A e \in Deliverers \ {d} : cycle'[e] = cycle[e]
      /\ owner'[r] = t /\ lease'[r] = Lease
      /\ \A q \in Rows \ {r} : owner'[q] = owner[q] /\ lease'[q] = lease[q]
  BY <1>0 DEF OutboxInv, OutboxTypeOK
<1>4. TokensDiffer'
  BY <1>2, <1>3 DEF DuplicateInv, TokensDiffer, Busy
<1>5. troubled[r] \/ AcceptedOnce(r)'
  <2> SUFFICES ASSUME ~troubled[r] PROVE AcceptedOnce(r)'
    OBVIOUS
  <2>1. AcceptedOnce(r)
    BY DEF DuplicateInv
  <2>2. \A e \in Deliverers : ~WorksOn(e, r)
    BY <1>0, <2>1, OutboxConstants DEF Claimable, AcceptedOnce, WorkerOwns, WorksOn, OutboxInv,
        OutboxTypeOK, BusyHasRow
  <2>3. accepted[r] = 0
    BY <1>0, <2>1, <2>2 DEF Claimable, AcceptedOnce, Told, OutboxInv, OutboxTypeOK
  <2>4. WorkerOwns(r)'
    BY <1>3, <2>2, OutboxConstants DEF WorkerOwns, WorksOn, Busy
  <2> QED
    BY <1>1, <2>3, <2>4 DEF AcceptedOnce
<1>6. ASSUME NEW q \in Rows \ {r}
      PROVE  troubled'[q] \/ AcceptedOnce(q)'
  <2>1. \A e \in Deliverers : WorksOn(e, q) \/ WorksOn(e, q)' => cycle'[e] = cycle[e]
    BY <1>1, <1>3 DEF WorksOn
  <2> QED
    BY <1>1, <1>3, <2>1, RowUntouched DEF DuplicateInv
<1> QED
  BY <1>1, <1>4, <1>5, <1>6 DEF DuplicateInv

\* A request, an answer or a wait of d.
LEMMA CycleKeepsOnce ==
    ASSUME OutboxInv, DuplicateInv, NEW d \in Deliverers, Busy(d),
           UNCHANGED <<status, owner, lease>>,
           \A e \in Deliverers \ {d} : cycle'[e] = cycle[e],
           Busy(d)' => cycle'[d].row = cycle[d].row /\ cycle'[d].token = cycle[d].token,
           \A q \in Rows \ {cycle[d].row} : accepted'[q] = accepted[q] /\ troubled'[q] = troubled[q],
           \/ troubled'[cycle[d].row]
           \/ /\ troubled'[cycle[d].row] = troubled[cycle[d].row]
              /\ accepted'[cycle[d].row] = accepted[cycle[d].row]
              /\ cycle[d].pc # "answered" \/ cycle[d].verdict # "sent"
           \/ /\ troubled'[cycle[d].row] = troubled[cycle[d].row]
              /\ accepted'[cycle[d].row] = accepted[cycle[d].row] + 1
              /\ cycle[d].pc = "posting" /\ Busy(d)'
              /\ cycle'[d].pc = "answered" /\ cycle'[d].verdict = "sent"
    PROVE  DuplicateInv'
<1>0. PICK r \in Rows : r = cycle[d].row
  BY DEF OutboxInv, BusyHasRow
<1>1. WorksOn(d, r)
  BY <1>0 DEF WorksOn
<1>2. TokensDiffer'
  BY TokensStayDifferent DEF DuplicateInv
<1>3. ASSUME NEW q \in Rows \ {r}
      PROVE  troubled'[q] \/ AcceptedOnce(q)'
  <2>1. \A e \in Deliverers : WorksOn(e, q) \/ WorksOn(e, q)' => cycle'[e] = cycle[e]
    BY <1>0 DEF WorksOn
  <2> QED
    BY <1>0, <2>1, RowUntouched DEF DuplicateInv
<1>4. troubled'[r] \/ AcceptedOnce(r)'
  <2> SUFFICES ASSUME ~troubled'[r] PROVE AcceptedOnce(r)'
    OBVIOUS
  <2>1. AcceptedOnce(r) /\ TokensDiffer
    BY <1>1 DEF DuplicateInv
  <2>2. accepted[r] = 0
    BY <1>0, <1>1, <2>1, NothingAcceptedYet
  <2>3. WorkerOwns(r)'
    BY <1>0, <1>1, <2>1, SoleWorker DEF AcceptedOnce, WorkerOwns, WorksOn, Busy
  <2>4. accepted'[r] = 0 \/ (accepted'[r] = 1 /\ Told(r)')
    BY <1>0, <2>2 DEF Told, WorksOn
  <2> QED
    BY <2>3, <2>4 DEF AcceptedOnce
<1> QED
  BY <1>2, <1>3, <1>4 DEF DuplicateInv

\* What the next place of a cycle that goes on keeps of it.
LEMMA NextPlace ==
    ASSUME OutboxInv, NEW d \in Deliverers, Busy(d),
           \/ \E v \in Verdicts : Answer(d, v)
           \/ Transient(d) \/ WaitEnds(d)
    PROVE  /\ cycle'[d].row = cycle[d].row /\ cycle'[d].token = cycle[d].token
           /\ \A e \in Deliverers \ {d} : cycle'[e] = cycle[e]
           /\ \A v \in Verdicts : Answer(d, v) => cycle'[d].pc = "answered" /\ cycle'[d].verdict = v
<1>1. cycle \in [Deliverers -> Cycles] /\ cycle[d] \in Cycles
  BY DEF OutboxInv, OutboxTypeOK
<1>2. \A v \in Verdicts : Answer(d, v) =>
        /\ cycle'[d].row = cycle[d].row /\ cycle'[d].token = cycle[d].token
        /\ cycle'[d].pc = "answered" /\ cycle'[d].verdict = v
        /\ \A e \in Deliverers \ {d} : cycle'[e] = cycle[e]
  <2> TAKE v \in Verdicts
  <2> HAVE Answer(d, v)
  <2>1. cycle' = [cycle EXCEPT ![d] = [cycle[d] EXCEPT !.pc = "answered", !.left = SettleTime, !.verdict = v]]
    BY DEF Answer
  <2> QED
    BY <1>1, <2>1 DEF Cycles
<1>3. ASSUME NEW new, cycle' = [cycle EXCEPT ![d] = new], new.row = cycle[d].row,
             new.token = cycle[d].token, new.pc # "answered"
      PROVE  /\ cycle'[d].row = cycle[d].row /\ cycle'[d].token = cycle[d].token
             /\ cycle'[d].pc # "answered"
             /\ \A e \in Deliverers \ {d} : cycle'[e] = cycle[e]
  BY <1>1, <1>3
<1>4. CASE \E v \in Verdicts : Answer(d, v)
  BY <1>2, <1>4
<1>5. CASE WaitEnds(d)
  <2> DEFINE new == [cycle[d] EXCEPT !.pc = "posting", !.post = cycle[d].post + 1, !.left = PostTimeout]
  <2>1. cycle' = [cycle EXCEPT ![d] = new]
    BY <1>5 DEF WaitEnds
  <2>2. new.row = cycle[d].row /\ new.token = cycle[d].token /\ new.pc = "posting"
    BY <1>1 DEF Cycles
  <2> HIDE DEF new
  <2> QED
    BY <1>2, <1>3, <2>1, <2>2
<1>6. CASE Transient(d)
  <2>1. CASE cycle[d].post = MaxPosts
    BY <1>2, <1>6, <2>1 DEF Transient, Verdicts
  <2>2. CASE cycle[d].post # MaxPosts
    <3>1. PICK w \in 1..MaxWait :
            cycle' = [cycle EXCEPT ![d] = [cycle[d] EXCEPT !.pc = "waiting", !.left = w]]
      BY <1>6, <2>2 DEF Transient
    <3> DEFINE new == [cycle[d] EXCEPT !.pc = "waiting", !.left = w]
    <3>2. new.row = cycle[d].row /\ new.token = cycle[d].token /\ new.pc = "waiting"
      BY <1>1 DEF Cycles
    <3> HIDE DEF new
    <3>3. cycle' = [cycle EXCEPT ![d] = new]
      BY <3>1 DEF new
    <3> QED
      BY <1>2, <1>3, <3>2, <3>3
  <2> QED
    BY <2>1, <2>2
<1> QED
  BY <1>4, <1>5, <1>6

LEMMA PostKeepsOnce ==
    ASSUME OutboxInv, DuplicateInv, NEW d \in Deliverers,
           PostSucceeds(d) \/ PostRefused(d) \/ PostFails(d) \/ PostTimesOut(d) \/ WaitEnds(d)
    PROVE  DuplicateInv'
<1>1. /\ Busy(d) /\ cycle[d].row \in Rows /\ UNCHANGED <<status, owner, lease>>
      /\ cycle[d].pc \in {"posting", "waiting"}
  BY DEF PostSucceeds, PostRefused, PostFails, PostTimesOut, WaitEnds, Busy, OutboxInv,
      BusyHasRow, rowVars
<1>2. /\ cycle'[d].row = cycle[d].row /\ cycle'[d].token = cycle[d].token
      /\ \A e \in Deliverers \ {d} : cycle'[e] = cycle[e]
  BY <1>1, NextPlace DEF PostSucceeds, PostRefused, PostFails, PostTimesOut, Verdicts
<1>3. CASE PostRefused(d) \/ PostFails(d) \/ WaitEnds(d)
  <2>1. UNCHANGED <<accepted, troubled>>
    BY <1>3 DEF PostRefused, PostFails, WaitEnds, wireVars
  <2> QED
    BY <1>1, <1>2, <2>1, CycleKeepsOnce
<1>4. CASE PostTimesOut(d)
  <2>1. /\ troubled'[cycle[d].row]
        /\ \A q \in Rows \ {cycle[d].row} : accepted'[q] = accepted[q] /\ troubled'[q] = troubled[q]
    BY <1>1, <1>4 DEF PostTimesOut, Accept, OutboxInv, OutboxTypeOK
  <2> QED
    BY <1>1, <1>2, <2>1, CycleKeepsOnce
<1>5. CASE PostSucceeds(d)
  <2>1. /\ accepted'[cycle[d].row] = accepted[cycle[d].row] + 1 /\ troubled' = troubled
        /\ \A q \in Rows \ {cycle[d].row} : accepted'[q] = accepted[q]
        /\ cycle[d].pc = "posting"
    <3>1. accepted' = [accepted EXCEPT ![cycle[d].row] = accepted[cycle[d].row] + 1]
      BY <1>5 DEF PostSucceeds, Accept
    <3> QED
      BY <1>1, <1>5, <3>1 DEF PostSucceeds, OutboxInv, OutboxTypeOK
  <2>2. cycle'[d].pc = "answered" /\ cycle'[d].verdict = "sent"
    BY <1>1, <1>5, NextPlace DEF PostSucceeds, Verdicts
  <2>3. Busy(d)'
    BY <2>2 DEF Busy
  <2> QED
    BY <1>1, <1>2, <2>1, <2>2, <2>3, CycleKeepsOnce
<1> QED
  BY <1>3, <1>4, <1>5

LEMMA AbandonKeepsOnce ==
    ASSUME OutboxInv, DuplicateInv, NEW d \in Deliverers, Abandon(d)
    PROVE  DuplicateInv'
<1>1. /\ Busy(d) /\ cycle[d].row \in Rows /\ UNCHANGED <<status, owner, lease, accepted>>
      /\ cycle' = [cycle EXCEPT ![d] = Idle]
  BY DEF Abandon, OutboxInv, BusyHasRow, rowVars, wireVars
<1>2. ~Busy(d)' /\ \A e \in Deliverers \ {d} : cycle'[e] = cycle[e]
  BY <1>1 DEF Busy, Idle, OutboxInv, OutboxTypeOK
<1>3. PICK trouble \in BOOLEAN :
        /\ troubled' = [troubled EXCEPT ![cycle[d].row] = trouble]
        /\ trouble = (troubled[cycle[d].row] \/ cycle[d].verdict = "sent")
  BY Zenon DEF Abandon
<1>4. /\ troubled'[cycle[d].row] = trouble
      /\ \A q \in Rows \ {cycle[d].row} : troubled'[q] = troubled[q]
      /\ troubled[cycle[d].row] \in BOOLEAN
  BY <1>1, <1>3 DEF OutboxInv, OutboxTypeOK
<1>5. \/ troubled'[cycle[d].row]
      \/ troubled'[cycle[d].row] = troubled[cycle[d].row] /\ cycle[d].verdict # "sent"
  BY <1>3, <1>4
<1> QED
  BY <1>1, <1>2, <1>4, <1>5, CycleKeepsOnce

LEMMA MarkKeepsOnce ==
    ASSUME OutboxInv, DuplicateInv, NEW d \in Deliverers, MarkDeliveryResult(d)
    PROVE  DuplicateInv'
<1>0. PICK r \in Rows : r = cycle[d].row
  BY DEF MarkDeliveryResult, OutboxInv, BusyHasRow, Busy
<1>1. /\ Busy(d) /\ r = cycle[d].row /\ WorksOn(d, r) /\ cycle' = [cycle EXCEPT ![d] = Idle]
      /\ accepted' = accepted
  BY <1>0 DEF MarkDeliveryResult, Busy, WorksOn, wireVars
<1>2. ~Busy(d)' /\ \A e \in Deliverers \ {d} : cycle'[e] = cycle[e]
  BY <1>1 DEF Busy, Idle, OutboxInv, OutboxTypeOK
<1>3. TokensDiffer'
  BY <1>2, TokensStayDifferent DEF DuplicateInv
<1>4. CASE ResultIgnored(d)
  <2>1. UNCHANGED <<status, owner, lease>> /\ owner[r] # cycle[d].token
    BY <1>1, <1>4 DEF ResultIgnored, rowVars
  <2>2. troubled[r]
    BY <1>1, <2>1 DEF DuplicateInv, AcceptedOnce, WorkerOwns
  <2>3. \A q \in Rows : troubled[q] => troubled'[q]
    BY <1>1, <1>4, <2>2 DEF ResultIgnored, OutboxInv, OutboxTypeOK
  <2>4. ASSUME NEW q \in Rows
        PROVE  troubled'[q] \/ AcceptedOnce(q)'
    <3>1. CASE q = r
      BY <2>2, <2>3, <3>1
    <3>2. CASE q # r
      <4>1. \A e \in Deliverers : WorksOn(e, q) \/ WorksOn(e, q)' => cycle'[e] = cycle[e]
        BY <1>1, <1>2, <3>2 DEF WorksOn
      <4> QED
        BY <1>1, <2>1, <2>3, <4>1, RowUntouched DEF DuplicateInv
    <3> QED
      BY <3>1, <3>2
  <2> QED
    BY <1>3, <2>4 DEF DuplicateInv
<1>5. CASE ResultSent(d) \/ ResultRetried(d) \/ ResultFailed(d)
  <2>1. /\ troubled' = troubled /\ owner[r] = cycle[d].token
        /\ \A q \in Rows \ {r} : owner'[q] = owner[q] /\ lease'[q] = lease[q] /\ status'[q] = status[q]
        /\ ResultSent(d) => status'[r] = "sent"
        /\ ~ResultSent(d) => cycle[d].verdict # "sent"
    <3>1. /\ troubled' = troubled /\ owner[r] = cycle[d].token /\ Release(r)
          /\ status' = status \/ \E s \in Terminal : status' = [status EXCEPT ![r] = s]
          /\ ResultSent(d) => status' = [status EXCEPT ![r] = "sent"]
          /\ ~ResultSent(d) => cycle[d].verdict # "sent"
      BY <1>1, <1>5 DEF ResultSent, ResultRetried, ResultFailed, Terminal
    <3> QED
      BY <1>1, <3>1 DEF Release, OutboxInv, OutboxTypeOK
  <2>2. ASSUME NEW q \in Rows, q # r
        PROVE  troubled'[q] \/ AcceptedOnce(q)'
    <3>1. \A e \in Deliverers : WorksOn(e, q) \/ WorksOn(e, q)' => cycle'[e] = cycle[e]
      BY <1>1, <1>2, <2>2 DEF WorksOn
    <3> QED
      BY <1>1, <2>1, <2>2, <3>1, RowUntouched DEF DuplicateInv
  <2>3. troubled'[r] \/ AcceptedOnce(r)'
    <3> SUFFICES ASSUME ~troubled[r] PROVE AcceptedOnce(r)'
      BY <2>1
    <3>1. AcceptedOnce(r) /\ TokensDiffer
      BY <1>1 DEF DuplicateInv
    <3>2. \A e \in Deliverers : ~WorksOn(e, r)'
      BY <1>1, <1>2, <3>1, SoleWorker DEF WorksOn, Busy
    <3>3. accepted[r] > 0 => status'[r] = "sent"
      BY <1>1, <2>1, <3>1, NothingAcceptedYet DEF AcceptedOnce
    <3> QED
      BY <1>1, <3>1, <3>2, <3>3 DEF AcceptedOnce, WorkerOwns, Told
  <2> QED
    BY <1>3, <2>2, <2>3 DEF DuplicateInv
<1> QED
  BY <1>4, <1>5 DEF MarkDeliveryResult

LEMMA TickKeepsOnce ==
    ASSUME OutboxInv, DuplicateInv, Tick
    PROVE  DuplicateInv'
<1>1. /\ lease' = [r \in Rows |-> Sooner(lease[r])]
      /\ cycle' = [d \in Deliverers |-> [cycle[d] EXCEPT !.left = Sooner(@)]]
      /\ UNCHANGED <<status, owner, accepted>>
  BY DEF Tick, wireVars
<1>2. \A d \in Deliverers : /\ Busy(d)' <=> Busy(d)
                            /\ cycle'[d].pc = cycle[d].pc /\ cycle'[d].row = cycle[d].row
                            /\ cycle'[d].token = cycle[d].token /\ cycle'[d].verdict = cycle[d].verdict
  BY <1>1 DEF Busy, OutboxInv, OutboxTypeOK, Cycles
<1>3. \A d \in Deliverers, r \in Rows : WorksOn(d, r)' <=> WorksOn(d, r)
  BY <1>2 DEF WorksOn
<1>4. TokensDiffer'
  BY <1>2 DEF DuplicateInv, TokensDiffer
<1>5. ASSUME NEW r \in Rows, ~troubled'[r]
      PROVE  AcceptedOnce(r)'
  <2>1. /\ ~troubled[r]
        /\ ~(lease'[r] = 0 /\ \E d \in Deliverers : cycle[d].row = r /\ cycle[d].token = owner[r] /\ Busy(d))
    BY <1>5 DEF Tick
  <2>2. AcceptedOnce(r)
    BY <2>1 DEF DuplicateInv
  <2>3. lease'[r] \in Nat
    BY <1>1, OutboxConstants DEF Sooner, OutboxInv, OutboxTypeOK
  <2>4. \A d \in Deliverers : WorksOn(d, r) => owner[r] = cycle[d].token /\ lease'[r] > 0
    BY <2>1, <2>2, <2>3 DEF AcceptedOnce, WorkerOwns, WorksOn
  <2>5. WorkerOwns(r)'
    BY <1>1, <1>2, <1>3, <2>4 DEF WorkerOwns
  <2>6. Told(r) => Told(r)'
    BY <1>1, <1>2, <1>3 DEF Told
  <2> QED
    BY <1>1, <2>2, <2>5, <2>6 DEF AcceptedOnce
<1> QED
  BY <1>4, <1>5 DEF DuplicateInv

LEMMA DuplicateStep == OutboxInv /\ DuplicateInv /\ [OutboxNext]_outboxVars => DuplicateInv'
<1> SUFFICES ASSUME OutboxInv, DuplicateInv, [OutboxNext]_outboxVars PROVE DuplicateInv'
  OBVIOUS
<1>1. ASSUME UNCHANGED <<owner, lease, cycle, accepted, troubled>>,
             \A r \in Rows : status[r] \in {"sent", "purged"} => status'[r] \in {"sent", "purged"}
      PROVE  DuplicateInv'
  <2>1. TokensDiffer'
    BY <1>1 DEF DuplicateInv, TokensDiffer, Busy
  <2> QED
    BY <1>1, <2>1, RowUntouched DEF DuplicateInv
<1>2. ASSUME NEW r \in Rows, NEW l \in Levels, EnqueueAlert(r, l)
      PROVE  DuplicateInv'
  BY <1>1, <1>2 DEF EnqueueAlert, Insert, Refresh, wireVars, OutboxInv, OutboxTypeOK
<1>3. ASSUME NEW r \in Rows, PurgeAlert(r)
      PROVE  DuplicateInv'
  BY <1>1, <1>3 DEF PurgeAlert, wireVars, OutboxInv, OutboxTypeOK
<1>4. ASSUME NEW d \in Deliverers, ClaimDueAlert(d)
      PROVE  DuplicateInv'
  BY <1>4, ClaimKeepsOnce
<1>5. ASSUME NEW d \in Deliverers, PostSucceeds(d) \/ PostRefused(d) \/ PostFails(d)
                                   \/ PostTimesOut(d) \/ WaitEnds(d)
      PROVE  DuplicateInv'
  BY <1>5, PostKeepsOnce
<1>6. ASSUME NEW d \in Deliverers, Abandon(d) \/ MarkDeliveryResult(d)
      PROVE  DuplicateInv'
  BY <1>6, AbandonKeepsOnce, MarkKeepsOnce
<1>7. CASE Tick
  BY <1>7, TickKeepsOnce
<1>8. CASE UNCHANGED outboxVars
  BY <1>1, <1>8 DEF outboxVars, rowVars, wireVars
<1> QED
  BY <1>2, <1>3, <1>4, <1>5, <1>6, <1>7, <1>8 DEF OutboxNext

\* _run_outbox_worker: for any number of rows and deliverers, the owner reads an
\* alert twice only after a lost answer, a crash with an unrecorded success, or
\* a lease that ran out under a stalled worker.
THEOREM DuplicatesHaveCause == OutboxSpec => []DuplicateNeedsCause
<1>1. OutboxInit => DuplicateInv
  BY DEF OutboxInit, DuplicateInv, TokensDiffer, AcceptedOnce, WorkerOwns, WorksOn, Busy, Idle
<1>2. OutboxInv /\ DuplicateInv => DuplicateNeedsCause
  BY DEF DuplicateInv, AcceptedOnce, DuplicateNeedsCause, OutboxInv, OutboxTypeOK
<1> QED
  BY <1>1, <1>2, InvHolds, DuplicateStep, PTL DEF OutboxSpec

=============================================================================
