----------------------------- MODULE JoinQueueProofs -----------------------------
(***************************************************************************)
(* Theorems about ActionGovernor, for any callers, keys, budgets, windows   *)
(* and lengths of pauses, and about JoinQueue and HistoryBackfill, which    *)
(* call it, for any chats, policy and bounds that meet their assumptions.  *)
(***************************************************************************)
EXTENDS JoinQueue, FiniteSetTheorems, TLAPS

\* The keys whose slot is spent; a window holds some of them.
UsedKeys == {k \in Keys : ledger[k].outcome # "none"}

\* A caller between its reservation and the end of its record.
Engaged == {"queued", "calling", "settling", "pausing"}

\* What the place of a caller says of the key in its hand.
CallFacts(c) ==
    /\ call[c].pc # "idle" => call[c].key \in Keys
    /\ call[c].pc \in Engaged => ledger[call[c].key].outcome # "none"
    /\ call[c].pc = "settling" /\ call[c].answer = "full" => KindOf(call[c].key) = "join"
    /\ call[c].pc = "queued" /\ Mutating(KindOf(call[c].key)) => requests[call[c].key] = 0

\* Two callers never wait to send the same join.
SoleWaiter ==
    \A c, d \in Callers :
        /\ call[c].pc = "queued" /\ call[d].pc = "queued"
        /\ call[c].key = call[d].key /\ Mutating(KindOf(call[c].key))
        => c = d

LedgerFacts == IsFiniteSet(UsedKeys) /\ BudgetKept

CallerFacts == (\A c \in Callers : CallFacts(c)) /\ SoleWaiter

RequestFacts == MutationIsOneCall /\ RequestsAreSpent

GovernorInv == GovernorTypeOK /\ LedgerFacts /\ CallerFacts /\ RequestFacts

-----------------------------------------------------------------------------
(***************************************************************************)
(* Windows and what they hold.                                             *)
(***************************************************************************)

\* The three limits of a kind are numbers or no cap, over windows of naturals.
LEMMA LimitsType ==
    ASSUME NEW kind \in Kinds, NEW i \in 1..3
    PROVE  Limits(kind)[i][1] \in Caps /\ Limits(kind)[i][2] \in Nat
<1>1. CASE i = 1
    BY <1>1, PolicyAssumption, LengthsAssumption DEF Limits, Caps
<1>2. CASE i = 2
    BY <1>2, PolicyAssumption, LengthsAssumption DEF Limits, Caps
<1>3. CASE i = 3
    BY <1>3, PolicyAssumption, LengthsAssumption DEF Limits, Caps
<1>4. QED
    BY <1>1, <1>2, <1>3

\* A window holds finitely many slots.
LEMMA SpentFinite ==
    ASSUME IsFiniteSet(UsedKeys), NEW kind, NEW window
    PROVE  IsFiniteSet(Spent(kind, window)) /\ Cardinality(Spent(kind, window)) \in Nat
<1>1. Spent(kind, window) \subseteq UsedKeys
    BY DEF Spent, UsedKeys
<1>2. QED
    BY <1>1, FS_Subset, FS_CardinalityType

\* A step that spends no slot and makes none younger keeps every budget.
LEMMA NothingSpent ==
    ASSUME GovernorTypeOK, LedgerFacts,
           ledger' \in [Keys -> [outcome : Outcomes, age : 0..Day]],
           \A k \in Keys : ledger'[k].outcome # "none" =>
               ledger[k].outcome # "none" /\ ledger[k].age <= ledger'[k].age
    PROVE  LedgerFacts'
<1>1. IsFiniteSet(UsedKeys)'
    <2>1. UsedKeys' \subseteq UsedKeys
        BY DEF UsedKeys
    <2>2. QED
        BY <2>1, FS_Subset DEF LedgerFacts
<1>2. ASSUME NEW kind \in Kinds, NEW i \in 1..3, Limits(kind)[i][1] # NoCap
      PROVE  Cardinality(Spent(kind, Limits(kind)[i][2])') <= Limits(kind)[i][1]
    <2> DEFINE window == Limits(kind)[i][2]
    <2>1. window \in Nat /\ Limits(kind)[i][1] \in Nat
        BY <1>2, LimitsType DEF Caps
    <2>2. \A k \in Keys : ledger[k].age \in Nat /\ ledger'[k].age \in Nat
        BY LengthsAssumption DEF GovernorTypeOK
    <2>3. Spent(kind, window)' \subseteq Spent(kind, window)
        <3> HIDE DEF window
        <3> QED
            BY <2>1, <2>2 DEF Spent
    <2>4. IsFiniteSet(Spent(kind, window)) /\ Cardinality(Spent(kind, window)) \in Nat
        BY SpentFinite DEF LedgerFacts
    <2>5. /\ Cardinality(Spent(kind, window)') <= Cardinality(Spent(kind, window))
          /\ Cardinality(Spent(kind, window)') \in Nat
        BY <2>3, <2>4, FS_Subset, FS_CardinalityType
    <2>6. Cardinality(Spent(kind, window)) <= Limits(kind)[i][1]
        BY <1>2 DEF LedgerFacts, BudgetKept
    <2>7. QED
        <3> HIDE DEF window
        <3>1. Cardinality(Spent(kind, window)') <= Limits(kind)[i][1]
            BY <2>1, <2>4, <2>5, <2>6 DEF window
        <3>2. QED
            BY <3>1 DEF window
<1>3. BudgetKept'
    BY <1>2 DEF BudgetKept, Limits
<1>4. QED
    BY <1>1, <1>3 DEF LedgerFacts

\* A slot granted where no limit is reached fills no window past its cap.
LEMMA SlotWithinBudget ==
    ASSUME GovernorTypeOK, LedgerFacts, NEW key \in Keys,
           Refusing(KindOf(key)) = {}, ledger' = ReservedRow(key)
    PROVE  LedgerFacts'
<1>1. IsFiniteSet(UsedKeys)'
    <2>1. UsedKeys' \subseteq UsedKeys \cup {key}
        BY DEF UsedKeys, ReservedRow, GovernorTypeOK
    <2>2. IsFiniteSet(UsedKeys \cup {key})
        BY FS_AddElement DEF LedgerFacts
    <2>3. QED
        BY <2>1, <2>2, FS_Subset
<1>2. ASSUME NEW kind \in Kinds, NEW i \in 1..3, Limits(kind)[i][1] # NoCap
      PROVE  Cardinality(Spent(kind, Limits(kind)[i][2])') <= Limits(kind)[i][1]
    <2> DEFINE window == Limits(kind)[i][2]
               cap == Limits(kind)[i][1]
    <2>1. window \in Nat /\ cap \in Nat
        BY <1>2, LimitsType DEF Caps
    <2>2. cap # NoCap /\ Cardinality(Spent(kind, window)) <= cap
        BY <1>2 DEF LedgerFacts, BudgetKept
    <2>3. IsFiniteSet(Spent(kind, window)) /\ Cardinality(Spent(kind, window)) \in Nat
        BY SpentFinite DEF LedgerFacts
    <2>4. CASE kind = KindOf(key)
        <3>1. ~Full(kind, cap, window)
            BY <2>4 DEF Refusing
        <3> HIDE DEF window, cap
        <3>2. Cardinality(Spent(kind, window)) < cap
            BY <3>1, <2>1, <2>2, <2>3 DEF Full
        <3>3. Spent(kind, window)' \subseteq Spent(kind, window) \cup {key}
            BY <2>1 DEF Spent, ReservedRow, GovernorTypeOK
        <3>4. /\ IsFiniteSet(Spent(kind, window) \cup {key})
              /\ Cardinality(Spent(kind, window) \cup {key}) <= Cardinality(Spent(kind, window)) + 1
            <4> DEFINE spent == Spent(kind, window)
            <4>1. /\ IsFiniteSet(spent \cup {key})
                  /\ Cardinality(spent \cup {key}) =
                        IF key \in spent THEN Cardinality(spent) ELSE Cardinality(spent) + 1
                <5> HIDE DEF spent
                <5>1. IsFiniteSet(spent)
                    BY <2>3 DEF spent
                <5>2. QED
                    BY <5>1, FS_AddElement
            <4>2. Cardinality(spent) \in Nat
                BY <2>3
            <4> HIDE DEF spent
            <4>3. Cardinality(spent \cup {key}) <= Cardinality(spent) + 1
                BY <4>1, <4>2
            <4>4. QED
                BY <4>1, <4>3 DEF spent
        <3>5. /\ Cardinality(Spent(kind, window)') <= Cardinality(Spent(kind, window) \cup {key})
              /\ Cardinality(Spent(kind, window)') \in Nat
              /\ Cardinality(Spent(kind, window) \cup {key}) \in Nat
            BY <3>3, <3>4, FS_Subset, FS_CardinalityType
        <3>6. Cardinality(Spent(kind, window)') <= cap
            BY <2>1, <2>3, <3>2, <3>4, <3>5
        <3>7. QED
            BY <3>6 DEF window, cap
    <2>5. CASE kind # KindOf(key)
        <3> HIDE DEF window, cap
        <3>1. Spent(kind, window)' = Spent(kind, window)
            BY <2>5 DEF Spent, ReservedRow, GovernorTypeOK
        <3>2. Cardinality(Spent(kind, window)') <= cap
            BY <3>1, <2>2
        <3>3. QED
            BY <3>2 DEF window, cap
    <2>6. QED
        BY <2>4, <2>5
<1>3. BudgetKept'
    BY <1>2 DEF BudgetKept, Limits
<1>4. QED
    BY <1>1, <1>3 DEF LedgerFacts

-----------------------------------------------------------------------------
(***************************************************************************)
(* One lemma per action.                                                   *)
(***************************************************************************)

LEMMA InitEstablishes ==
    ASSUME GovernorInit
    PROVE  GovernorInv
<1>1. GovernorTypeOK
    BY LengthsAssumption DEF GovernorInit, GovernorTypeOK, Unused, Outcomes, Idle
<1>2. \A k \in Keys : ledger[k].outcome = "none"
    BY DEF GovernorInit, Unused
<1>3. IsFiniteSet(UsedKeys)
    BY <1>2, FS_EmptySet DEF UsedKeys
<1>4. ASSUME NEW kind \in Kinds, NEW i \in 1..3, Limits(kind)[i][1] # NoCap
      PROVE  Cardinality(Spent(kind, Limits(kind)[i][2])) <= Limits(kind)[i][1]
    <2> DEFINE cap == Limits(kind)[i][1]
    <2>1. Spent(kind, Limits(kind)[i][2]) = {}
        BY <1>2 DEF Spent
    <2>2. cap \in Nat
        BY <1>4, LimitsType DEF Caps
    <2> HIDE DEF cap
    <2>3. 0 <= cap
        BY <2>2
    <2>4. QED
        BY <2>1, <2>3, FS_EmptySet DEF cap
<1>5. LedgerFacts
    BY <1>3, <1>4 DEF LedgerFacts, BudgetKept
<1>6. CallerFacts
    BY DEF GovernorInit, CallerFacts, CallFacts, SoleWaiter, Idle, Engaged
<1>7. RequestFacts
    BY DEF GovernorInit, RequestFacts, MutationIsOneCall, RequestsAreSpent
<1>8. QED
    BY <1>1, <1>5, <1>6, <1>7 DEF GovernorInv

\* The wait that a full window tells is a natural number.
LEMMA WaitsType ==
    ASSUME GovernorTypeOK, NEW kind \in Kinds, NEW i \in 1..3
    PROVE  Waits(kind, Limits(kind)[i][2]) \subseteq Nat
<1> DEFINE window == Limits(kind)[i][2]
<1>1. window \in Nat
    BY LimitsType
<1>2. \A k \in Spent(kind, window) : window - ledger[k].age \in Nat
    <2> HIDE DEF window
    <2> QED
        BY <1>1 DEF Spent, GovernorTypeOK
<1>3. QED
    BY <1>2 DEF Waits

LEMMA ReserveKeeps ==
    ASSUME GovernorInv, NEW c \in Callers, NEW k \in Keys, ReserveAction(c, k)
    PROVE  GovernorInv'
<1> USE DEF GovernorInv
<1>0. KindOf(k) \in Kinds
    BY KeysAssumption DEF KindOf
<1>1. UNCHANGED <<cooldown, slot, requests>> /\ call[c].pc = "idle"
    BY DEF ReserveAction
<1>2. CASE RefusePaused(c, k) \/ RefuseOverBudget(c, k) \/ (Replay(c, k) /\ Mutating(KindOf(k)))
    <2>1. PICK status \in Statuses, wait \in Nat :
            call' = [call EXCEPT ![c] = Told(k, status, wait)] /\ ledger' = ledger
        <3>1. CASE RefusePaused(c, k)
            BY <3>1 DEF RefusePaused, Returns, Governs, Paused, GovernorTypeOK, Statuses
        <3>2. CASE RefuseOverBudget(c, k)
            <4>1. PICK i \in 1..3 : \E wait \in Waits(KindOf(k), Limits(KindOf(k))[i][2]) :
                    Returns(c, k, "denied", wait)
                BY <3>2 DEF RefuseOverBudget, Refusing
            <4>2. QED
                BY <3>2, <4>1, <1>0, WaitsType DEF RefuseOverBudget, Returns, Statuses
        <3>3. CASE Replay(c, k) /\ Mutating(KindOf(k))
            BY <3>3 DEF Replay, Returns, Statuses
        <3>4. QED
            BY <1>2, <3>1, <3>2, <3>3
    <2>2. GovernorTypeOK'
        BY <1>1, <2>1 DEF GovernorTypeOK, Told
    <2>3. LedgerFacts'
        BY <2>1 DEF LedgerFacts, UsedKeys, BudgetKept, Limits, Spent
    <2>4. CallerFacts'
        BY <1>1, <2>1, <2>2 DEF CallerFacts, CallFacts, SoleWaiter, Told, Engaged, GovernorTypeOK
    <2>5. RequestFacts'
        BY <1>1, <2>1 DEF RequestFacts, MutationIsOneCall, RequestsAreSpent
    <2>6. QED
        BY <2>2, <2>3, <2>4, <2>5
<1>3. CASE Replay(c, k) /\ ~Mutating(KindOf(k))
    <2>1. /\ call' = [call EXCEPT ![c] = At("queued", k, "none", {})]
          /\ ledger' = ledger /\ ledger[k].outcome # "none"
        BY <1>3 DEF Replay, Enters
    <2>2. GovernorTypeOK'
        BY <1>1, <2>1 DEF GovernorTypeOK, At
    <2>3. LedgerFacts'
        BY <2>1 DEF LedgerFacts, UsedKeys, BudgetKept, Limits, Spent
    <2>4. CallerFacts'
        BY <1>1, <1>3, <2>1, <2>2 DEF CallerFacts, CallFacts, SoleWaiter, At, Engaged, GovernorTypeOK
    <2>5. RequestFacts'
        BY <1>1, <2>1 DEF RequestFacts, MutationIsOneCall, RequestsAreSpent
    <2>6. QED
        BY <2>2, <2>3, <2>4, <2>5
<1>4. CASE Grant(c, k)
    <2>1. /\ call' = [call EXCEPT ![c] = At("queued", k, "none", {})]
          /\ ledger' = ReservedRow(k) /\ ledger[k].outcome = "none"
          /\ Refusing(KindOf(k)) = {}
        BY <1>4 DEF Grant, Enters
    <2>2. GovernorTypeOK'
        BY <1>1, <2>1, LengthsAssumption DEF GovernorTypeOK, At, ReservedRow, Outcomes
    <2>3. LedgerFacts'
        BY <2>1, SlotWithinBudget
    <2>4. requests[k] = 0 /\ \A d \in Callers : call[d].pc = "queued" => call[d].key # k
        BY <2>1 DEF RequestFacts, RequestsAreSpent, CallerFacts, CallFacts, Engaged, GovernorTypeOK
    <2>5. CallerFacts'
        <3>1. \A d \in Callers : CallFacts(d)'
            BY <1>1, <2>1, <2>2, <2>4
            DEF CallerFacts, CallFacts, At, Engaged, GovernorTypeOK, ReservedRow
        <3>2. SoleWaiter'
            BY <2>1, <2>4 DEF CallerFacts, SoleWaiter, At, GovernorTypeOK
        <3>3. QED
            BY <3>1, <3>2 DEF CallerFacts
    <2>6. RequestFacts'
        BY <1>1, <2>1
        DEF RequestFacts, MutationIsOneCall, RequestsAreSpent, ReservedRow, GovernorTypeOK
    <2>7. QED
        BY <2>2, <2>3, <2>5, <2>6
<1>5. QED
    BY <1>2, <1>3, <1>4 DEF ReserveAction

\* The request of the caller at the head of the semaphore.
LEMMA TakeSlotKeeps ==
    ASSUME GovernorInv, NEW c \in Callers, TakeSlot(c)
    PROVE  GovernorInv'
<1> USE DEF GovernorInv
<1> DEFINE key == call[c].key
<1>1. /\ call[c].pc = "queued" /\ key \in Keys
      /\ call' = [call EXCEPT ![c].pc = "calling"]
      /\ UNCHANGED <<ledger, cooldown>>
      /\ slot' = c
    BY DEF TakeSlot, CallerFacts, CallFacts
<1>2. requests' = [requests EXCEPT ![key] = IF requests[key] = 2 THEN 2 ELSE requests[key] + 1]
    BY DEF TakeSlot
<1> HIDE DEF key
<1>3. GovernorTypeOK'
    <2>1. requests' \in [Keys -> 0..2]
        <3>1. (IF requests[key] = 2 THEN 2 ELSE requests[key] + 1) \in 0..2
            <4>1. requests[key] \in 0..2
                BY <1>1 DEF GovernorTypeOK
            <4>2. QED
                BY <4>1
        <3>2. requests \in [Keys -> 0..2]
            BY DEF GovernorTypeOK
        <3>3. QED
            BY <1>2, <3>1, <3>2
    <2>2. call' \in [Callers ->
            [pc : {"idle", "queued", "calling", "settling", "pausing", "told"},
             key : Keys \cup {<<>>}, answer : Values \cup Troubles \cup Statuses \cup {"none"},
             scopes : SUBSET Scopes, wait : Nat]]
        BY <1>1 DEF GovernorTypeOK
    <2>3. QED
        BY <1>1, <2>1, <2>2 DEF GovernorTypeOK
<1>4. LedgerFacts'
    BY <1>1 DEF LedgerFacts, UsedKeys, BudgetKept, Limits, Spent
<1>5. ledger[key].outcome # "none"
    BY <1>1 DEF CallerFacts, CallFacts, Engaged, key
<1>6. Mutating(KindOf(key)) => requests[key] = 0
    BY <1>1 DEF CallerFacts, CallFacts, key
<1>7. ASSUME NEW d \in Callers
      PROVE  CallFacts(d)'
    <2>1. CASE d = c
        BY <1>1, <1>5, <2>1 DEF CallerFacts, CallFacts, Engaged, GovernorTypeOK, key
    <2>2. CASE d # c
        <3>1. call'[d] = call[d]
            BY <1>1, <2>2 DEF GovernorTypeOK
        <3>2. ASSUME call[d].pc = "queued", Mutating(KindOf(call[d].key))
              PROVE  requests'[call[d].key] = 0
            <4>1. call[d].key # key
                BY <1>1, <2>2, <3>2 DEF CallerFacts, SoleWaiter, key
            <4>2. call[d].key \in Keys /\ requests[call[d].key] = 0
                BY <3>2 DEF CallerFacts, CallFacts
            <4>3. QED
                BY <1>2, <4>1, <4>2 DEF GovernorTypeOK
        <3>3. QED
            BY <1>1, <3>1, <3>2 DEF CallerFacts, CallFacts
    <2>3. QED
        BY <2>1, <2>2
<1>8. SoleWaiter'
    <2>1. \A d \in Callers : call'[d].pc = "queued" => call'[d] = call[d]
        BY <1>1 DEF GovernorTypeOK
    <2>2. QED
        BY <2>1 DEF CallerFacts, SoleWaiter
<1>9. RequestFacts'
    <2>1. \A k \in Keys : requests'[k] = IF k = key THEN (IF requests[k] = 2 THEN 2 ELSE requests[k] + 1)
                                       ELSE requests[k]
        BY <1>2 DEF GovernorTypeOK
    <2>2. MutationIsOneCall'
        BY <1>6, <2>1 DEF RequestFacts, MutationIsOneCall
    <2>3. RequestsAreSpent'
        BY <1>1, <1>5, <2>1 DEF RequestFacts, RequestsAreSpent
    <2>4. QED
        BY <2>2, <2>3 DEF RequestFacts
<1>10. QED
    BY <1>3, <1>4, <1>7, <1>8, <1>9 DEF CallerFacts

\* A step of one caller that has left the queue, writes no request and leaves
\* every slot spent keeps what is said of the callers and of the requests.
LEMMA CallerAdvances ==
    ASSUME GovernorInv, NEW c \in Callers, call[c].pc \in {"calling", "settling", "pausing", "told"},
           NEW next, call' = [call EXCEPT ![c] = next], GovernorTypeOK',
           requests' = requests,
           \A k \in Keys : ledger[k].outcome # "none" => ledger'[k].outcome # "none",
           next.pc \in {"settling", "pausing", "told", "idle"},
           next.pc # "idle" => next.key = call[c].key,
           next.pc \in Engaged => call[c].pc \in Engaged,
           next.pc = "settling" /\ next.answer = "full" => KindOf(call[c].key) = "join"
    PROVE  CallerFacts' /\ RequestFacts'
<1> USE DEF GovernorInv
<1>1. \A d \in Callers \ {c} : call'[d] = call[d]
    BY DEF GovernorTypeOK
<1>2. call'[c] = next
    BY DEF GovernorTypeOK
<1>3. CallFacts(c)'
    BY <1>2 DEF CallerFacts, CallFacts, Engaged
<1>4. \A d \in Callers \ {c} : CallFacts(d)'
    BY <1>1 DEF CallerFacts, CallFacts, Engaged
<1>5. SoleWaiter'
    BY <1>1, <1>2 DEF CallerFacts, SoleWaiter
<1>6. RequestFacts'
    BY DEF RequestFacts, MutationIsOneCall, RequestsAreSpent
<1>7. QED
    BY <1>3, <1>4, <1>5, <1>6 DEF CallerFacts

LEMMA AnswerKeeps ==
    ASSUME GovernorInv, NEW c \in Callers, NEW answer \in Values \cup Troubles, Answer(c, answer)
    PROVE  GovernorInv'
<1> USE DEF GovernorInv
<1> DEFINE next == [call[c] EXCEPT !.pc = "settling", !.answer = answer]
<1>1. /\ call[c].pc = "calling" /\ (answer = "full" => KindOf(call[c].key) = "join")
      /\ call' = [call EXCEPT ![c] = next]
      /\ UNCHANGED <<ledger, cooldown, slot, requests>>
    BY DEF Answer
<1>2. call[c].key \in Keys
    BY <1>1 DEF CallerFacts, CallFacts
<1>3. /\ next.pc = "settling" /\ next.answer = answer /\ next.key = call[c].key
      /\ next \in [pc : {"idle", "queued", "calling", "settling", "pausing", "told"},
                   key : Keys \cup {<<>>}, answer : Values \cup Troubles \cup Statuses \cup {"none"},
                   scopes : SUBSET Scopes, wait : Nat]
    BY DEF GovernorTypeOK
<1> HIDE DEF next
<1>4. GovernorTypeOK'
    BY <1>1, <1>3 DEF GovernorTypeOK
<1>5. CallerFacts' /\ RequestFacts'
    BY <1>1, <1>3, <1>4, CallerAdvances DEF Engaged
<1>6. LedgerFacts'
    BY <1>1 DEF LedgerFacts, UsedKeys, BudgetKept, Limits, Spent
<1>7. QED
    BY <1>4, <1>5, <1>6

\* Every outcome, scope and status an answer leads to is one of its type.
LEMMA AnswerTypes ==
    ASSUME NEW k \in Keys, NEW answer, answer = "full" => KindOf(k) = "join"
    PROVE  /\ OutcomeOf(answer) \in Outcomes \ {"none"}
           /\ PausedScopes(answer, KindOf(k)) \subseteq Scopes
           /\ StatusOf(answer) \in Values \cup Troubles \cup Statuses
           /\ WaitOf(answer) \in Nat /\ PauseLength(answer) \in Nat
<1>1. KindOf(k) \in Kinds
    BY KeysAssumption DEF KindOf
<1>2. OutcomeOf(answer) \in Outcomes \ {"none"}
    BY DEF OutcomeOf, Outcomes
<1>3. PausedScopes(answer, KindOf(k)) \subseteq Scopes
    BY <1>1 DEF PausedScopes, Scopes, OwnerKinds
<1>4. StatusOf(answer) \in Values \cup Troubles \cup Statuses
    BY DEF StatusOf, Troubles, Statuses
<1>5. PauseLength(answer) \in Nat
    BY LengthsAssumption DEF PauseLength
<1>6. WaitOf(answer) \in Nat
    BY <1>5 DEF WaitOf
<1>7. QED
    BY <1>2, <1>3, <1>4, <1>5, <1>6

LEMMA SettleKeeps ==
    ASSUME GovernorInv, NEW c \in Callers, Settle(c)
    PROVE  GovernorInv'
<1> USE DEF GovernorInv
<1> DEFINE key == call[c].key
           answer == call[c].answer
           scopes == PausedScopes(answer, KindOf(key))
           next == IF scopes = {} THEN Told(key, StatusOf(answer), WaitOf(answer))
                   ELSE At("pausing", key, answer, scopes)
<1>1. /\ call[c].pc = "settling" /\ key \in Keys
      /\ answer = "full" => KindOf(key) = "join"
      /\ ledger[key].outcome # "none"
      /\ answer \in Values \cup Troubles \cup Statuses \cup {"none"}
    BY DEF Settle, CallerFacts, CallFacts, Engaged, GovernorTypeOK
<1>2. /\ ledger' = [ledger EXCEPT ![key] = [ledger[key] EXCEPT !.outcome = OutcomeOf(answer)]]
      /\ call' = [call EXCEPT ![c] = next]
      /\ slot' \in {slot, NoCaller}
      /\ UNCHANGED <<cooldown, requests>>
    BY DEF Settle, Finishes
<1>3. /\ OutcomeOf(answer) \in Outcomes \ {"none"} /\ scopes \subseteq Scopes
      /\ StatusOf(answer) \in Values \cup Troubles \cup Statuses /\ WaitOf(answer) \in Nat
    BY <1>1, AnswerTypes
<1>4. /\ next.pc \in {"told", "pausing"} /\ next.key = key
      /\ next \in [pc : {"idle", "queued", "calling", "settling", "pausing", "told"},
                   key : Keys \cup {<<>>}, answer : Values \cup Troubles \cup Statuses \cup {"none"},
                   scopes : SUBSET Scopes, wait : Nat]
    <2> HIDE DEF key, answer, scopes
    <2>1. QED
        BY <1>1, <1>3 DEF Told, At
<1> HIDE DEF next, scopes, answer
<1>5. GovernorTypeOK'
    BY <1>1, <1>2, <1>3, <1>4 DEF GovernorTypeOK
<1>6. \A k \in Keys : ledger'[k].age = ledger[k].age
                     /\ (ledger'[k].outcome = "none" <=> ledger[k].outcome = "none")
    BY <1>1, <1>2, <1>3 DEF GovernorTypeOK
<1>7. CallerFacts' /\ RequestFacts'
    BY <1>1, <1>2, <1>4, <1>5, <1>6, CallerAdvances DEF Engaged, key
<1>8. LedgerFacts'
    <2>1. ledger' \in [Keys -> [outcome : Outcomes, age : 0..Day]]
        BY <1>5 DEF GovernorTypeOK
    <2>2. \A k \in Keys : ledger'[k].outcome # "none" =>
            ledger[k].outcome # "none" /\ ledger[k].age <= ledger'[k].age
        BY <1>6, LengthsAssumption DEF GovernorTypeOK
    <2>3. QED
        BY <2>1, <2>2, NothingSpent
<1>9. QED
    BY <1>5, <1>7, <1>8

LEMMA SetCooldownKeeps ==
    ASSUME GovernorInv, NEW c \in Callers, NEW s \in Scopes, SetCooldown(c, s)
    PROVE  GovernorInv'
<1> USE DEF GovernorInv
<1> DEFINE key == call[c].key
           answer == call[c].answer
           rest == call[c].scopes \ {s}
           next == IF rest = {} THEN Told(key, StatusOf(answer), WaitOf(answer))
                   ELSE At("pausing", key, answer, rest)
<1>1. /\ call[c].pc = "pausing" /\ key \in Keys /\ rest \subseteq Scopes
      /\ answer \in Values \cup Troubles \cup Statuses \cup {"none"}
    BY DEF SetCooldown, CallerFacts, CallFacts, GovernorTypeOK
<1>2. /\ cooldown' = [cooldown EXCEPT ![s] = Lengthened(cooldown[s], answer)]
      /\ call' = [call EXCEPT ![c] = next]
      /\ slot' \in {slot, NoCaller}
      /\ UNCHANGED <<ledger, requests>>
    BY DEF SetCooldown, Finishes
<1>3. /\ StatusOf(answer) \in Values \cup Troubles \cup Statuses
      /\ WaitOf(answer) \in Nat /\ PauseLength(answer) \in Nat
    <2>1. PauseLength(answer) \in Nat
        BY LengthsAssumption DEF PauseLength
    <2>2. QED
        BY <2>1 DEF StatusOf, WaitOf, Troubles, Statuses
<1>4. /\ next.pc \in {"told", "pausing"} /\ next.key = key
      /\ next \in [pc : {"idle", "queued", "calling", "settling", "pausing", "told"},
                   key : Keys \cup {<<>>}, answer : Values \cup Troubles \cup Statuses \cup {"none"},
                   scopes : SUBSET Scopes, wait : Nat]
    <2> HIDE DEF key, answer, rest
    <2>1. QED
        BY <1>1, <1>3 DEF Told, At
<1>5. Lengthened(cooldown[s], answer) \in [left : Nat, manual : BOOLEAN]
    <2> HIDE DEF answer
    <2>1. cooldown[s] \in [left : Nat, manual : BOOLEAN]
        BY DEF GovernorTypeOK
    <2>2. (IF cooldown[s].left < PauseLength(answer) THEN PauseLength(answer) ELSE cooldown[s].left) \in Nat
        BY <1>3, <2>1
    <2>3. (cooldown[s].manual \/ NeedsOperator(answer)) \in BOOLEAN
        OBVIOUS
    <2>4. QED
        BY <2>2, <2>3 DEF Lengthened
<1> HIDE DEF next, rest, answer
<1>6. GovernorTypeOK'
    BY <1>1, <1>2, <1>4, <1>5 DEF GovernorTypeOK
<1>7. CallerFacts' /\ RequestFacts'
    BY <1>1, <1>2, <1>4, <1>6, CallerAdvances DEF Engaged, key
<1>8. LedgerFacts'
    BY <1>2 DEF LedgerFacts, UsedKeys, BudgetKept, Limits, Spent
<1>9. QED
    BY <1>6, <1>7, <1>8

LEMMA ReturnKeeps ==
    ASSUME GovernorInv, NEW c \in Callers, Return(c)
    PROVE  GovernorInv'
<1> USE DEF GovernorInv
<1>1. /\ call[c].pc = "told" /\ call' = [call EXCEPT ![c] = Idle]
      /\ UNCHANGED <<ledger, cooldown, slot, requests>>
    BY DEF Return
<1>2. GovernorTypeOK'
    BY <1>1 DEF GovernorTypeOK, Idle
<1>3. CallerFacts' /\ RequestFacts'
    BY <1>1, <1>2, CallerAdvances DEF Engaged, Idle
<1>4. LedgerFacts'
    BY <1>1 DEF LedgerFacts, UsedKeys, BudgetKept, Limits, Spent
<1>5. QED
    BY <1>2, <1>3, <1>4

LEMMA StopKeeps ==
    ASSUME GovernorInv, Stop
    PROVE  GovernorInv'
<1> USE DEF GovernorInv
<1>1. /\ call' = [c \in Callers |-> Idle] /\ slot' = NoCaller
      /\ UNCHANGED <<ledger, cooldown, requests>>
    BY DEF Stop
<1>2. GovernorTypeOK'
    BY <1>1 DEF GovernorTypeOK, Idle
<1>3. CallerFacts'
    BY <1>1 DEF CallerFacts, CallFacts, SoleWaiter, Idle, Engaged
<1>4. RequestFacts'
    BY <1>1 DEF RequestFacts, MutationIsOneCall, RequestsAreSpent
<1>5. LedgerFacts'
    BY <1>1 DEF LedgerFacts, UsedKeys, BudgetKept, Limits, Spent
<1>6. QED
    BY <1>2, <1>3, <1>4, <1>5

LEMMA TickKeeps ==
    ASSUME GovernorInv, Tick
    PROVE  GovernorInv'
<1> USE DEF GovernorInv
<1>1. /\ ledger' = [k \in Keys |-> Older(ledger[k])]
      /\ cooldown' = [s \in Scopes |-> [cooldown[s] EXCEPT !.left = Less(cooldown[s].left)]]
      /\ UNCHANGED <<slot, call, requests>>
    BY DEF Tick
<1>2. ASSUME NEW k \in Keys
      PROVE  /\ Older(ledger[k]) \in [outcome : Outcomes, age : 0..Day]
             /\ Older(ledger[k]).outcome = ledger[k].outcome
             /\ ledger[k].age <= Older(ledger[k]).age
    BY LengthsAssumption DEF GovernorTypeOK, Older
<1>3. \A s \in Scopes : [cooldown[s] EXCEPT !.left = Less(cooldown[s].left)] \in [left : Nat, manual : BOOLEAN]
    BY DEF GovernorTypeOK, Less
<1>4. ledger' \in [Keys -> [outcome : Outcomes, age : 0..Day]]
    BY <1>1, <1>2
<1>5. GovernorTypeOK'
    BY <1>1, <1>3, <1>4 DEF GovernorTypeOK
<1>6. \A k \in Keys : ledger'[k].outcome = ledger[k].outcome /\ ledger[k].age <= ledger'[k].age
    BY <1>1, <1>2
<1>7. LedgerFacts'
    BY <1>4, <1>6, NothingSpent
<1>8. CallerFacts'
    BY <1>1, <1>6 DEF CallerFacts, CallFacts, SoleWaiter, Engaged
<1>9. RequestFacts'
    BY <1>1, <1>6 DEF RequestFacts, MutationIsOneCall, RequestsAreSpent
<1>10. QED
    BY <1>5, <1>7, <1>8, <1>9

-----------------------------------------------------------------------------
(***************************************************************************)
(* The theorems.                                                           *)
(***************************************************************************)

LEMMA StepKeeps == GovernorInv /\ [GovernorNext]_governorVars => GovernorInv'
<1> SUFFICES ASSUME GovernorInv, [GovernorNext]_governorVars
             PROVE  GovernorInv'
    OBVIOUS
<1>1. CASE UNCHANGED governorVars
    BY <1>1 DEF governorVars, GovernorInv, GovernorTypeOK, LedgerFacts, UsedKeys, BudgetKept,
        Limits, Spent, CallerFacts, CallFacts, SoleWaiter, RequestFacts, MutationIsOneCall,
        RequestsAreSpent
<1>2. ASSUME NEW c \in Callers, NEW k \in Keys, ReserveAction(c, k)
      PROVE  GovernorInv'
    BY <1>2, ReserveKeeps
<1>3. ASSUME NEW c \in Callers, TakeSlot(c)
      PROVE  GovernorInv'
    BY <1>3, TakeSlotKeeps
<1>4. ASSUME NEW c \in Callers, NEW answer \in Values \cup Troubles, Answer(c, answer)
      PROVE  GovernorInv'
    BY <1>4, AnswerKeeps
<1>5. ASSUME NEW c \in Callers, Settle(c)
      PROVE  GovernorInv'
    BY <1>5, SettleKeeps
<1>6. ASSUME NEW c \in Callers, NEW s \in Scopes, SetCooldown(c, s)
      PROVE  GovernorInv'
    BY <1>6, SetCooldownKeeps
<1>7. ASSUME NEW c \in Callers, Return(c)
      PROVE  GovernorInv'
    BY <1>7, ReturnKeeps
<1>8. CASE Stop
    BY <1>8, StopKeeps
<1>9. CASE Tick
    BY <1>9, TickKeeps
<1>10. QED
    BY <1>1, <1>2, <1>3, <1>4, <1>5, <1>6, <1>7, <1>8, <1>9 DEF GovernorNext

\* Everything the governor keeps, as one inductive invariant.
THEOREM GovernorInvariant == GovernorSpec => []GovernorInv
<1>1. GovernorInit => GovernorInv
    BY InitEstablishes
<1>2. QED
    BY <1>1, StepKeeps, PTL DEF GovernorSpec

\* The ledger, the pauses, the slot and the calls keep their types (run,
\* reserve_action, set_cooldown).
THEOREM GovernorTypes == GovernorSpec => []GovernorTypeOK
<1>1. GovernorInv => GovernorTypeOK
    BY DEF GovernorInv
<1>2. QED
    BY <1>1, GovernorInvariant, PTL

\* Whatever the policy, the callers and the answers, no rolling window holds
\* more slots than its cap (_budget_denial_locked).
THEOREM Budgets == GovernorSpec => []BudgetKept
<1>1. GovernorInv => BudgetKept
    BY DEF GovernorInv, LedgerFacts
<1>2. QED
    BY <1>1, GovernorInvariant, PTL

\* A join reaches Telegram at most once under its key, with any number of
\* callers, stops and lost answers (run, is_mutating).
THEOREM MutationsOnce == GovernorSpec => []MutationIsOneCall
<1>1. GovernorInv => MutationIsOneCall
    BY DEF GovernorInv, RequestFacts
<1>2. QED
    BY <1>1, GovernorInvariant, PTL

-----------------------------------------------------------------------------
(***************************************************************************)
(* The workers and the governor.  The requests that go through it, those of *)
(* a key, are steps of its specification; resolving a username and reading  *)
(* the dialogs do not, and leave its variables as they are.                 *)
(***************************************************************************)

LEMMA RunOnceGoverned ==
    ASSUME RunOnce
    PROVE  GovernorNext \/ UNCHANGED governorVars
<1> USE JoinAssumption DEF AfterCall
<1>1. CASE \E x \in Chats : TakeJoin(x)
    BY <1>1 DEF TakeJoin
<1>2. CASE AskToJoin
    BY <1>2 DEF AskToJoin, GovernorNext, ReserveAction
<1>3. CASE DeferRefused \/ DeferHalted \/ ParkInterrupted
    BY <1>3 DEF DeferRefused, DeferHalted, ParkInterrupted, GovernorNext
<1>4. CASE AwaitAdmin \/ JoinFails \/ Joined \/ JoinRaises
    BY <1>4 DEF AwaitAdmin, JoinFails, Joined, JoinRaises, GovernorNext
<1>5. CASE Unresolvable \/ ObserveChat \/ BindPolicy \/ AddTarget \/ SettleJoined
    BY <1>5 DEF Unresolvable, ObserveChat, BindPolicy, AddTarget, SettleJoined, governorVars
<1>6. CASE ResolveEntity \/ Resolved
    BY <1>6 DEF ResolveEntity, Resolved
<1>7. QED
    BY <1>1, <1>2, <1>3, <1>4, <1>5, <1>6 DEF RunOnce

LEMMA ReconcileGoverned ==
    ASSUME Reconcile
    PROVE  GovernorNext \/ UNCHANGED governorVars
<1> USE JoinAssumption DEF AfterCall
<1>1. CASE StartReconcile \/ SkipReconcile \/ ReadDialogs \/ EndReconcile
    BY <1>1 DEF StartReconcile, SkipReconcile, ReadDialogs, EndReconcile
<1>2. ASSUME NEW job \in joiner.todo, FoundAmongDialogs(job) \/ MissingFromDialogs(job)
      PROVE  UNCHANGED governorVars
    BY <1>2 DEF FoundAmongDialogs, MissingFromDialogs
<1>3. ASSUME NEW job \in joiner.todo, AskInvite(job)
      PROVE  GovernorNext
    BY <1>3 DEF AskInvite, GovernorNext, ReserveAction
<1>4. CASE InviteIsMember \/ InviteIsDead \/ AskInviteLater \/ CheckRaises
    BY <1>4 DEF InviteIsMember, InviteIsDead, AskInviteLater, CheckRaises, GovernorNext
<1>5. QED
    BY <1>1, <1>2, <1>3, <1>4 DEF Reconcile

LEMMA BackfillGoverned ==
    ASSUME BackfillStep
    PROVE  GovernorNext \/ UNCHANGED governorVars
<1> USE JoinAssumption
<1>1. ASSUME NEW x \in Chats, PeerUnresolved(x)
      PROVE  UNCHANGED governorVars
    BY <1>1 DEF PeerUnresolved
<1>2. ASSUME NEW x \in Chats, AskPage(x)
      PROVE  GovernorNext
    BY <1>2 DEF AskPage, GovernorNext, ReserveAction
<1>3. CASE DeferTarget \/ ReadRaises \/ StorePage
    BY <1>3 DEF DeferTarget, ReadRaises, StorePage, GovernorNext
<1>4. CASE RecordPage
    BY <1>4 DEF RecordPage
<1>5. QED
    BY <1>1, <1>2, <1>3, <1>4 DEF BackfillStep

LEMMA StepGoverned ==
    ASSUME [Next]_vars
    PROVE  [GovernorNext]_governorVars
<1>1. CASE UNCHANGED vars
    BY <1>1 DEF vars
<1>2. CASE BridgeStep
    BY <1>2 DEF BridgeStep, BridgeReads, BridgeInserts, BridgeRevives, BridgeResumes,
        BridgeUpgrades, BridgeReports
<1>3. CASE RunOnce
    BY <1>3, RunOnceGoverned
<1>4. CASE Reconcile
    BY <1>4, ReconcileGoverned
<1>5. CASE BackfillStep /\ UNCHANGED joinVars
    BY <1>5, BackfillGoverned
<1>6. ASSUME NEW c \in Callers, GovernorStep(c)
      PROVE  GovernorNext
    BY <1>6 DEF GovernorStep, GovernorNext
<1>7. ASSUME NEW c \in Callers, NEW answer \in Values \cup Troubles, Answered(c, answer)
      PROVE  GovernorNext
    BY <1>7 DEF Answered, GovernorNext
<1>8. ASSUME NEW x \in Chats, AdminApproves(x)
      PROVE  UNCHANGED governorVars
    BY <1>8 DEF AdminApproves
<1>9. CASE StopDaemon
    BY <1>9 DEF StopDaemon, GovernorNext
<1>10. CASE Time
    BY <1>10 DEF Time, GovernorNext
<1>11. QED
    BY <1>1, <1>2, <1>3, <1>4, <1>5, <1>6, <1>7, <1>8, <1>9, <1>10 DEF Next

\* What the workers do to the governor's variables is what its specification lets
\* its callers do, so what is proved of it holds here.  It says nothing of the
\* requests that go past it.
LEMMA WorkersAreCallers == JoinSpec => GovernorSpec
<1>1. Init => GovernorInit
    BY DEF Init
<1>2. [Next]_vars => [GovernorNext]_governorVars
    BY StepGoverned
<1>3. QED
    BY <1>1, <1>2, PTL DEF JoinSpec, GovernorSpec

LEMMA GovernorHolds == JoinSpec => []GovernorInv
BY GovernorInvariant, WorkersAreCallers, PTL

\* The workers together, sharing one ledger, keep within every rolling budget, and
\* send no join twice, through interrupted joins, reconciliations that ask under a
\* key again, replayed pages and stops (ActionGovernor.run in pipeline/governor.py
\* as pipeline/joiner.py and pipeline/backfill.py call it).
THEOREM WorkersKeepBudgets == JoinSpec => [](BudgetKept /\ MutationIsOneCall)
<1>1. GovernorInv => BudgetKept /\ MutationIsOneCall
    BY DEF GovernorInv, LedgerFacts, RequestFacts
<1>2. QED
    BY <1>1, GovernorHolds, PTL

-----------------------------------------------------------------------------
(***************************************************************************)
(* The history of a chat.                                                  *)
(***************************************************************************)

\* What the archive worker's place says of the target in its hand.
ReaderFacts ==
    /\ reader.pc # "rest" => reader.chat \in Chats /\ target[reader.chat].state = "pending"
    /\ reader.pc = "record" => target[reader.chat].cursor \in stored[reader.chat]
    /\ call["reader"].pc # "idle" => reader.pc = "asking"

HistoryFacts ==
    /\ BackfillTypeOK
    /\ \A x \in Chats : target[x].state = "pending" => target[x].cursor < Pages
    /\ NoHistoryGap
    /\ ReaderFacts

\* No caller but c is moved by c's step, and nobody is called by a governor's.
LEMMA CallsOfOthers ==
    ASSUME GovernorTypeOK, NEW c \in Callers, NEW d \in Callers, d # c,
           (\E k \in Keys : ReserveAction(c, k)) \/ Return(c)
    PROVE  call'[d] = call[d]
<1>1. PICK next : call' = [call EXCEPT ![c] = next]
    BY DEF ReserveAction, Replay, RefusePaused, RefuseOverBudget, Grant, Enters, Returns, Return
<1>2. QED
    BY <1>1 DEF GovernorTypeOK

LEMMA OnlyCallersCall ==
    ASSUME GovernorTypeOK, NEW c \in Callers, NEW d \in Callers,
           \/ TakeSlot(c) \/ Settle(c) \/ \E s \in Scopes : SetCooldown(c, s)
           \/ \E answer \in Values \cup Troubles : Answer(c, answer)
    PROVE  call'[d].pc # "idle" => call[d].pc # "idle" /\ call'[d].key = call[d].key
<1>1. CASE TakeSlot(c)
    BY <1>1 DEF TakeSlot, GovernorTypeOK
<1>2. CASE Settle(c)
    <2>1. PICK next : /\ call[c].pc = "settling" /\ next.key = call[c].key
                      /\ call' = [call EXCEPT ![c] = next]
        BY <1>2 DEF Settle, Finishes, Told, At
    <2>2. QED
        BY <2>1 DEF GovernorTypeOK
<1>3. CASE \E s \in Scopes : SetCooldown(c, s)
    <2>1. PICK next : /\ call[c].pc = "pausing" /\ next.key = call[c].key
                      /\ call' = [call EXCEPT ![c] = next]
        BY <1>3 DEF SetCooldown, Finishes, Told, At
    <2>2. QED
        BY <2>1 DEF GovernorTypeOK
<1>4. CASE \E answer \in Values \cup Troubles : Answer(c, answer)
    <2>1. PICK answer : call' = [call EXCEPT ![c] = [call[c] EXCEPT !.pc = "settling", !.answer = answer]]
        BY <1>4 DEF Answer
    <2>2. call[c].pc = "calling"
        BY <1>4 DEF Answer
    <2>3. [call[c] EXCEPT !.pc = "settling", !.answer = answer].key = call[c].key
        BY DEF GovernorTypeOK
    <2>4. QED
        BY <2>1, <2>2, <2>3 DEF GovernorTypeOK
<1>5. QED
    BY <1>1, <1>2, <1>3, <1>4

\* A step that leaves the archive alone and calls nobody for its worker.
LEMMA HistoryFrame ==
    ASSUME HistoryFacts, UNCHANGED backfillVars,
           call'["reader"].pc # "idle" => call["reader"].pc # "idle"
    PROVE  HistoryFacts'
BY DEF HistoryFacts, backfillVars, BackfillTypeOK, NoHistoryGap, ReaderFacts

LEMMA AskPageKeepsHistory ==
    ASSUME HistoryFacts, NEW x \in Chats, AskPage(x)
    PROVE  HistoryFacts'
<1>1. /\ reader' = [pc |-> "asking", chat |-> x] /\ target[x].state = "pending"
      /\ UNCHANGED <<target, stored>>
    BY DEF AskPage, IsNextTarget, Due
<1>2. QED
    BY <1>1 DEF HistoryFacts, BackfillTypeOK, NoHistoryGap, ReaderFacts

LEMMA DeferredKeepsHistory ==
    ASSUME HistoryFacts, NEW x \in Chats, NEW due \in Nat,
           target' = [target EXCEPT ![x].due = due],
           reader' = ReaderRests, stored' = stored, call'["reader"].pc = "idle"
    PROVE  HistoryFacts'
<1>1. BackfillTypeOK'
    BY DEF HistoryFacts, BackfillTypeOK, ReaderRests
<1>2. \A y \in Chats : target'[y].state = target[y].state /\ target'[y].cursor = target[y].cursor
    BY DEF HistoryFacts, BackfillTypeOK
<1>3. QED
    BY <1>1, <1>2 DEF HistoryFacts, NoHistoryGap, ReaderFacts, ReaderRests

LEMMA StorePageKeepsHistory ==
    ASSUME HistoryFacts, GovernorTypeOK, StorePage
    PROVE  HistoryFacts'
<1> DEFINE x == reader.chat
<1>1. /\ reader.pc = "asking" /\ x \in Chats /\ target[x].state = "pending"
      /\ target[x].cursor < Pages
    BY DEF StorePage, PageTold, HistoryFacts, ReaderFacts
<1>2. /\ stored' = [stored EXCEPT ![x] = stored[x] \cup {target[x].cursor}]
      /\ reader' = [reader EXCEPT !.pc = "record"] /\ target' = target
    BY DEF StorePage
<1>3. call'["reader"].pc = "idle"
    BY JoinAssumption DEF StorePage, Return, Idle, GovernorTypeOK
<1> HIDE DEF x
<1>4. BackfillTypeOK'
    <2>1. target[x].cursor \in 0..Pages - 1
        BY <1>1, BackfillAssumption DEF HistoryFacts, BackfillTypeOK
    <2>2. stored' \in [Chats -> SUBSET (0..Pages - 1)]
        BY <1>1, <1>2, <2>1 DEF HistoryFacts, BackfillTypeOK
    <2>3. QED
        BY <1>2, <2>2 DEF HistoryFacts, BackfillTypeOK
<1>5. reader'.chat = x /\ reader'.pc = "record"
    BY <1>2 DEF HistoryFacts, BackfillTypeOK, x
<1>6. /\ \A y \in Chats : stored[y] \subseteq stored'[y]
      /\ target[x].cursor \in stored'[x]
    BY <1>1, <1>2 DEF HistoryFacts, BackfillTypeOK
<1>7. QED
    BY <1>1, <1>2, <1>3, <1>4, <1>5, <1>6 DEF HistoryFacts, NoHistoryGap, ReaderFacts

LEMMA RecordPageKeepsHistory ==
    ASSUME HistoryFacts, RecordPage
    PROVE  HistoryFacts'
<1> DEFINE x == reader.chat
           cursor == target[x].cursor
           next == [state |-> IF cursor + 1 = Pages THEN "complete" ELSE "pending",
                    cursor |-> cursor + 1, due |-> 0]
<1>1. /\ reader.pc = "record" /\ x \in Chats /\ cursor < Pages /\ cursor \in stored[x]
    BY DEF RecordPage, HistoryFacts, ReaderFacts
<1>2. /\ target' = [target EXCEPT ![x] = next] /\ reader' = ReaderRests
      /\ stored' = stored /\ call' = call
    BY DEF RecordPage, governorVars
<1>3. cursor \in Nat /\ cursor + 1 \in 0..Pages
    <2>1. cursor \in 0..Pages
        BY <1>1 DEF HistoryFacts, BackfillTypeOK
    <2>2. QED
        BY <1>1, <2>1, BackfillAssumption
<1>4. call["reader"].pc = "idle"
    BY <1>1 DEF HistoryFacts, ReaderFacts
<1> HIDE DEF x, cursor
<1>5. target' \in [Chats -> [state : {"absent", "pending", "complete"}, cursor : 0..Pages, due : Nat]]
    BY <1>1, <1>2, <1>3 DEF HistoryFacts, BackfillTypeOK
<1>6. target'[x] = next /\ \A y \in Chats \ {x} : target'[y] = target[y]
    BY <1>1, <1>2 DEF HistoryFacts, BackfillTypeOK
<1>7. NoHistoryGap'
    <2>1. ASSUME NEW y \in Chats \ {x}
          PROVE  0..target'[y].cursor - 1 \subseteq stored'[y]
        BY <1>2, <1>6, <2>1 DEF HistoryFacts, NoHistoryGap
    <2>2. 0..cursor - 1 \subseteq stored[x]
        BY <1>1 DEF HistoryFacts, NoHistoryGap, cursor
    <2>3. 0..target'[x].cursor - 1 \subseteq stored'[x]
        <3>1. target'[x].cursor = cursor + 1
            BY <1>6
        <3>2. 0..(cursor + 1) - 1 = (0..cursor - 1) \cup {cursor}
            BY <1>3
        <3>3. QED
            BY <1>1, <1>2, <2>2, <3>1, <3>2
    <2>4. QED
        BY <2>1, <2>3 DEF NoHistoryGap
<1>8. \A y \in Chats : target'[y].state = "pending" => target'[y].cursor < Pages
    <2>1. target'[x].state = "pending" => target'[x].cursor < Pages
        <3>1. target'[x].cursor = cursor + 1 /\ (target'[x].state = "pending" => cursor + 1 # Pages)
            BY <1>6
        <3>2. QED
            BY <1>3, <3>1, BackfillAssumption
    <2>2. \A y \in Chats \ {x} : target'[y].state = "pending" => target'[y].cursor < Pages
        BY <1>6 DEF HistoryFacts
    <2>3. QED
        BY <2>1, <2>2
<1>9. BackfillTypeOK'
    BY <1>2, <1>5 DEF HistoryFacts, BackfillTypeOK, ReaderRests
<1>10. ReaderFacts'
    BY <1>2, <1>4 DEF ReaderFacts, ReaderRests
<1>11. QED
    BY <1>7, <1>8, <1>9, <1>10 DEF HistoryFacts

LEMMA BackfillKeepsHistory ==
    ASSUME HistoryFacts, GovernorTypeOK, BackfillStep
    PROVE  HistoryFacts'
<1>0. "reader" \in Callers
    BY JoinAssumption
<1>1. ASSUME NEW x \in Chats, PeerUnresolved(x)
      PROVE  HistoryFacts'
    <2>1. /\ target' = [target EXCEPT ![x].due = PeerRetry] /\ reader' = reader
          /\ reader.pc = "rest" /\ stored' = stored /\ call' = call
        BY <1>1 DEF PeerUnresolved, governorVars
    <2>2. BackfillTypeOK' /\ \A y \in Chats : target'[y].state = target[y].state
                                           /\ target'[y].cursor = target[y].cursor
        BY <2>1, BackfillAssumption DEF HistoryFacts, BackfillTypeOK
    <2>3. QED
        BY <2>1, <2>2 DEF HistoryFacts, NoHistoryGap, ReaderFacts
<1>2. ASSUME NEW x \in Chats, AskPage(x)
      PROVE  HistoryFacts'
    BY <1>2, AskPageKeepsHistory
<1>3. CASE DeferTarget
    <2>1. PICK due \in Nat : target' = [target EXCEPT ![reader.chat].due = due]
        <3>1. call["reader"].wait \in Nat
            BY <1>0 DEF GovernorTypeOK
        <3>2. (CASE PageStatus \in {"halted", "refused"} -> HaltRetry
                 [] call["reader"].wait > 0 -> call["reader"].wait
                 [] OTHER -> PeerRetry) \in Nat
            BY <3>1, BackfillAssumption
        <3>3. QED
            BY <1>3, <3>2 DEF DeferTarget
    <2>2. reader.chat \in Chats
        BY <1>3 DEF DeferTarget, PageTold, HistoryFacts, ReaderFacts
    <2>3. reader' = ReaderRests /\ stored' = stored /\ call'["reader"].pc = "idle"
        BY <1>0, <1>3 DEF DeferTarget, Return, Idle, GovernorTypeOK
    <2>4. QED
        BY <2>1, <2>2, <2>3, DeferredKeepsHistory
<1>4. CASE ReadRaises
    <2>1. /\ target' = target /\ reader' = ReaderRests /\ stored' = stored
          /\ call'["reader"].pc = "idle"
        BY <1>0, <1>4 DEF ReadRaises, Return, Idle, GovernorTypeOK
    <2>2. QED
        BY <2>1 DEF HistoryFacts, BackfillTypeOK, NoHistoryGap, ReaderFacts, ReaderRests
<1>5. CASE StorePage
    BY <1>5, StorePageKeepsHistory
<1>6. CASE RecordPage
    BY <1>6, RecordPageKeepsHistory
<1>7. QED
    BY <1>1, <1>2, <1>3, <1>4, <1>5, <1>6 DEF BackfillStep

\* The joiner's calls are not the reader's.
LEMMA JoinerKeepsHistory ==
    ASSUME HistoryFacts, GovernorTypeOK, UNCHANGED backfillVars,
           (\E k \in Keys : ReserveAction("joiner", k)) \/ Return("joiner")
    PROVE  HistoryFacts'
<1>1. "joiner" \in Callers /\ "reader" \in Callers /\ "joiner" # "reader"
    BY JoinAssumption
<1>2. call'["reader"] = call["reader"]
    BY <1>1, CallsOfOthers
<1>3. QED
    BY <1>2, HistoryFrame

LEMMA AddTargetKeepsHistory ==
    ASSUME HistoryFacts, AddTarget
    PROVE  HistoryFacts'
<1>1. /\ target' = [target EXCEPT ![X] = WithTarget(target[X])]
      /\ stored' = stored /\ reader' = reader /\ call' = call
    BY DEF AddTarget, governorVars
<1>2. ASSUME NEW y \in Chats
      PROVE  /\ target'[y].cursor \in {target[y].cursor, 0}
             /\ target'[y] \in [state : {"absent", "pending", "complete"}, cursor : 0..Pages, due : Nat]
             /\ target[y].state # "absent" => target'[y] = target[y]
             /\ target'[y] = target[y] \/ target'[y].cursor = 0
    BY <1>1, BackfillAssumption DEF HistoryFacts, BackfillTypeOK, WithTarget, NoTarget
<1>3. BackfillTypeOK'
    <2>1. target' \in [Chats -> [state : {"absent", "pending", "complete"}, cursor : 0..Pages, due : Nat]]
        BY <1>1, <1>2 DEF HistoryFacts, BackfillTypeOK
    <2>2. QED
        BY <1>1, <2>1 DEF HistoryFacts, BackfillTypeOK
<1>4. NoHistoryGap'
    BY <1>1, <1>2 DEF HistoryFacts, NoHistoryGap
<1>5. \A y \in Chats : target'[y].state = "pending" => target'[y].cursor < Pages
    <2>1. ASSUME NEW y \in Chats, target'[y].state = "pending"
          PROVE  target'[y].cursor < Pages
        <3>1. target'[y] = target[y] \/ target'[y].cursor = 0
            BY <1>2
        <3>2. CASE target'[y] = target[y]
            BY <2>1, <3>2 DEF HistoryFacts
        <3>3. CASE target'[y].cursor = 0
            BY <3>3, BackfillAssumption
        <3>4. QED
            BY <3>1, <3>2, <3>3
    <2>2. QED
        BY <2>1
<1>6. ReaderFacts'
    BY <1>1, <1>2 DEF HistoryFacts, ReaderFacts
<1>7. QED
    BY <1>3, <1>4, <1>5, <1>6 DEF HistoryFacts

LEMMA HistoryStep ==
    ASSUME HistoryFacts, GovernorTypeOK, [Next]_vars
    PROVE  HistoryFacts'
<1> USE DEF AfterCall
<1>1. CASE UNCHANGED vars
    BY <1>1, HistoryFrame DEF vars, governorVars
<1>2. CASE BridgeStep
    BY <1>2, HistoryFrame DEF BridgeStep, BridgeReads, BridgeInserts, BridgeRevives, BridgeResumes,
        BridgeUpgrades, BridgeReports, governorVars
<1>3. CASE RunOnce
    <2>1. CASE \E x \in Chats : TakeJoin(x)
        BY <2>1, HistoryFrame DEF TakeJoin, governorVars
    <2>2. CASE AskToJoin
        BY <2>2, JoinerKeepsHistory DEF AskToJoin, ReserveAction, backfillVars
    <2>3. CASE DeferRefused \/ DeferHalted \/ ParkInterrupted
        BY <2>3, JoinerKeepsHistory DEF DeferRefused, DeferHalted, ParkInterrupted
    <2>4. CASE AwaitAdmin \/ JoinFails \/ Joined \/ JoinRaises
        BY <2>4, JoinerKeepsHistory DEF AwaitAdmin, JoinFails, Joined, JoinRaises
    <2>5. CASE Unresolvable \/ ObserveChat \/ BindPolicy \/ SettleJoined
        BY <2>5, HistoryFrame DEF Unresolvable, ObserveChat, BindPolicy, SettleJoined, governorVars
    <2>6. CASE ResolveEntity \/ Resolved
        BY <2>6, HistoryFrame DEF ResolveEntity, Resolved, governorVars
    <2>7. CASE AddTarget
        BY <2>7, AddTargetKeepsHistory
    <2>8. QED
        BY <1>3, <2>1, <2>2, <2>3, <2>4, <2>5, <2>6, <2>7 DEF RunOnce
<1>4. CASE Reconcile
    <2>1. CASE StartReconcile \/ SkipReconcile \/ ReadDialogs \/ EndReconcile
        BY <2>1, HistoryFrame DEF StartReconcile, SkipReconcile, ReadDialogs, EndReconcile, governorVars
    <2>2. ASSUME NEW job \in joiner.todo, FoundAmongDialogs(job) \/ MissingFromDialogs(job)
          PROVE  HistoryFacts'
        BY <2>2, HistoryFrame DEF FoundAmongDialogs, MissingFromDialogs, governorVars
    <2>3. ASSUME NEW job \in joiner.todo, AskInvite(job)
          PROVE  HistoryFacts'
        BY <2>3, JoinerKeepsHistory DEF AskInvite, ReserveAction
    <2>4. CASE InviteIsMember \/ InviteIsDead \/ AskInviteLater \/ CheckRaises
        BY <2>4, JoinerKeepsHistory DEF InviteIsMember, InviteIsDead, AskInviteLater, CheckRaises
    <2>5. QED
        BY <1>4, <2>1, <2>2, <2>3, <2>4 DEF Reconcile
<1>5. CASE BackfillStep /\ UNCHANGED joinVars
    BY <1>5, BackfillKeepsHistory
<1>6. ASSUME NEW c \in Callers, GovernorStep(c)
      PROVE  HistoryFacts'
    <2>1. call'["reader"].pc # "idle" => call["reader"].pc # "idle"
        BY <1>6, OnlyCallersCall, JoinAssumption DEF GovernorStep
    <2>2. QED
        BY <1>6, <2>1, HistoryFrame DEF GovernorStep
<1>7. ASSUME NEW c \in Callers, NEW answer \in Values \cup Troubles, Answered(c, answer)
      PROVE  HistoryFacts'
    <2>1. call'["reader"].pc # "idle" => call["reader"].pc # "idle"
        BY <1>7, OnlyCallersCall, JoinAssumption DEF Answered
    <2>2. QED
        BY <1>7, <2>1, HistoryFrame DEF Answered
<1>8. ASSUME NEW x \in Chats, AdminApproves(x)
      PROVE  HistoryFacts'
    BY <1>8, HistoryFrame DEF AdminApproves, governorVars
<1>9. CASE StopDaemon
    <2>1. /\ call'["reader"].pc = "idle" /\ reader' = ReaderRests
          /\ target' = target /\ stored' = stored
        BY <1>9, JoinAssumption DEF StopDaemon, Stop, Idle
    <2>2. QED
        BY <2>1 DEF HistoryFacts, BackfillTypeOK, NoHistoryGap, ReaderFacts, ReaderRests
<1>10. CASE Time
    <2>1. /\ target' = [x \in Chats |-> [target[x] EXCEPT !.due = Less(target[x].due)]]
          /\ stored' = stored /\ reader' = reader /\ call' = call
        BY <1>10 DEF Time, Tick
    <2>2. \A x \in Chats :
            /\ [target[x] EXCEPT !.due = Less(target[x].due)] \in
                    [state : {"absent", "pending", "complete"}, cursor : 0..Pages, due : Nat]
            /\ target'[x].state = target[x].state /\ target'[x].cursor = target[x].cursor
        <3> TAKE x \in Chats
        <3>1. target[x] \in [state : {"absent", "pending", "complete"}, cursor : 0..Pages, due : Nat]
            BY DEF HistoryFacts, BackfillTypeOK
        <3>2. Less(target[x].due) \in Nat
            BY <3>1 DEF Less
        <3>3. QED
            BY <2>1, <3>1, <3>2
    <2>3. BackfillTypeOK'
        BY <2>1, <2>2 DEF HistoryFacts, BackfillTypeOK
    <2>4. QED
        BY <2>1, <2>2, <2>3 DEF HistoryFacts, NoHistoryGap, ReaderFacts
<1>11. QED
    BY <1>1, <1>2, <1>3, <1>4, <1>5, <1>6, <1>7, <1>8, <1>9, <1>10 DEF Next

LEMMA HistoryBegins == Init => HistoryFacts
BY BackfillAssumption, JoinAssumption DEF Init, BackfillInit, GovernorInit, HistoryFacts,
    BackfillTypeOK, NoHistoryGap, ReaderFacts, NoTarget, ReaderRests, Idle

\* For any number of chats and pages, and whatever refuses, floods or stops the
\* walk, the cursor passes no page that is not stored (BackfillWorker.run_once).
THEOREM HistoryHasNoGap == JoinSpec => []NoHistoryGap
<1>1. Init => HistoryFacts
    BY HistoryBegins
<1>2. GovernorInv => GovernorTypeOK
    BY DEF GovernorInv
<1>3. HistoryFacts /\ GovernorTypeOK /\ [Next]_vars => HistoryFacts'
    BY HistoryStep
<1>4. HistoryFacts => NoHistoryGap
    BY DEF HistoryFacts
<1>5. QED
    BY <1>1, <1>2, <1>3, <1>4, GovernorHolds, PTL DEF JoinSpec

-----------------------------------------------------------------------------
(***************************************************************************)
(* Activation.  What the worker has in hand is a row it read some steps     *)
(* ago, and what the bridge is about to write rests on an earlier read: the *)
(* invariant says how much of either read still holds.                     *)
(***************************************************************************)

States == {"absent", "pending", "requested", "joined", "failed"}
Errors == {"none", "other", "already_attempted"}
RowRecords == [state : States, attempts : Nat, error : Errors, due : Nat, watcher : BOOLEAN,
               invite : BOOLEAN]
JobRecords == [chat : Chats, attempts : Nat, error : Errors, watcher : BOOLEAN]
UsedRecords == [requests : 0..MaxRequests, troubles : 0..MaxTroubles, faults : 0..MaxFaults]

\* The places of the worker at which joiner.job is the row it works on.
InHand == {"resolve", "resolving", "join", "joining", "checking", "observe", "bind", "archive", "settle"}

WorkTypes ==
    /\ row \in [Chats -> RowRecords]
    /\ joiner \in [pc : InHand \cup {"rest", "between", "dialogs", "reconcile"},
                   mode : {"run", "reconcile"}, job : JobRecords \cup {NoJob},
                   todo : SUBSET JobRecords, dialogs : SUBSET Chats]
    /\ bridge \in [pc : {"rest", "write", "upgrade"}, chat : Chats \cup {0},
                   watcher : BOOLEAN, seen : RowRecords]
    /\ registry \in [Chats -> [mode : {"none", "recon", "monitor"}, bound : BOOLEAN]]
    /\ member \in [Chats -> {"no", "asked", "yes"}]
    /\ used \in UsedRecords

\* Calls are about chats, the worker's about the row in its hand, and nobody
\* else sends a join.
CallsAreOfRows ==
    /\ call["joiner"].pc # "idle" => joiner.pc \in {"joining", "checking"} /\ Chat("joiner") = X
    /\ \A c \in Callers : call[c].pc # "idle" => Chat(c) \in Chats

Unsettled(x) == row[x].state \in {"pending", "requested"}

\* Nobody settles a row that the worker has in hand or on its list.
WorkerOwnsRows ==
    /\ joiner.pc \in InHand => X \in Chats /\ Unsettled(X)
    /\ \A job \in joiner.todo : Unsettled(job.chat) /\ (joiner.pc \in InHand => job.chat # X)
    /\ \A a, b \in joiner.todo : a.chat = b.chat => a = b

\* What the bridge read of a row that no worker owns is still so.
BridgeStillRight ==
    /\ bridge.pc # "rest" => bridge.chat \in Chats
    /\ bridge.pc = "upgrade" => row[bridge.chat].state = "joined"
    /\ bridge.pc = "write" /\ bridge.seen.state \notin {"pending", "requested"}
           => row[bridge.chat].state = bridge.seen.state

Observed(x) == registry[x].mode = "monitor" => registry[x].bound

\* How far _activate has come with the row in hand.
ActivationSoFar ==
    /\ joiner.pc = "bind" => registry[X].mode = IF joiner.job.watcher THEN "monitor" ELSE "recon"
    /\ joiner.pc \in {"archive", "settle"} => registry[X].mode # "none" /\ Observed(X)
    /\ joiner.pc = "settle" => target[X].state # "absent"

RowFacts == WorkerOwnsRows /\ BridgeStillRight /\ ActivationSoFar /\ JoinedIsActivated

WorkFacts == WorkTypes /\ CallsAreOfRows /\ RowFacts

-----------------------------------------------------------------------------
(***************************************************************************)
(* What a write of a row leaves behind.                                    *)
(***************************************************************************)

\* The row of x is written, and no other row.
WritesRow(x, states) ==
    /\ row' \in [Chats -> RowRecords]
    /\ row'[x].state \in states
    /\ \A y \in Chats \ {x} : row'[y] = row[y]

LEMMA SettleWrites ==
    ASSUME WorkTypes, NEW x \in Chats, NEW state \in States, NEW error \in Errors,
           SettleRow(x, state, error)
    PROVE  WritesRow(x, {state})
<1>1. row \in [Chats -> RowRecords] /\ row[x] \in RowRecords
    BY DEF WorkTypes
<1>2. PICK attempts \in Nat : attempts = row[x].attempts + 1
    BY <1>1 DEF RowRecords
<1> DEFINE new == [row[x] EXCEPT !.state = state, !.attempts = attempts, !.error = error, !.due = 0]
<1>3. row' = [row EXCEPT ![x] = new]
    BY <1>2 DEF SettleRow
<1>4. new \in RowRecords /\ new.state = state
    BY <1>1 DEF RowRecords
<1>5. QED
    BY <1>1, <1>3, <1>4 DEF WritesRow

LEMMA DeferWrites ==
    ASSUME WorkTypes, NEW x \in Chats, NEW ticks \in Nat, NEW error \in Errors,
           NEW counted \in BOOLEAN, DeferRow(x, ticks, error, counted)
    PROVE  WritesRow(x, {row[x].state})
<1>1. PICK attempts \in Nat :
        row' = [row EXCEPT ![x] = [row[x] EXCEPT !.due = ticks, !.error = error,
                                                 !.attempts = attempts]]
    <2>1. row[x].attempts + (IF counted THEN 1 ELSE 0) \in Nat
        BY DEF WorkTypes, RowRecords
    <2>2. QED
        BY <2>1 DEF DeferRow
<1> DEFINE new == [row[x] EXCEPT !.due = ticks, !.error = error, !.attempts = attempts]
<1>2. new \in RowRecords /\ new.state = row[x].state
    BY DEF WorkTypes, RowRecords
<1>3. QED
    BY <1>1, <1>2 DEF WorkTypes, WritesRow

LEMMA RequeueWrites ==
    ASSUME WorkTypes, NEW x \in Chats, RequeueRow(x)
    PROVE  WritesRow(x, {"pending"})
<1>1. row \in [Chats -> RowRecords] /\ row[x] \in RowRecords
    BY DEF WorkTypes
<1>2. PICK attempts \in Nat : attempts = row[x].attempts + 1
    BY <1>1 DEF RowRecords
<1> DEFINE new == [row[x] EXCEPT !.state = "pending", !.attempts = attempts,
                                 !.error = "other", !.due = 0]
<1>3. row' = [row EXCEPT ![x] = new]
    BY <1>2 DEF RequeueRow
<1>4. new \in RowRecords /\ new.state = "pending"
    BY <1>1 DEF RowRecords, States, Errors
<1>5. QED
    BY <1>1, <1>3, <1>4 DEF WritesRow

LEMMA JobIsRecord ==
    ASSUME WorkTypes, NEW x \in Chats
    PROVE  Job(x) \in JobRecords /\ Job(x).chat = x
BY DEF WorkTypes, Job, JobRecords, RowRecords

LEMMA UsedStaysWithin ==
    ASSUME used \in UsedRecords
    PROVE  /\ MayRequest => [used EXCEPT !.requests = @ + 1] \in UsedRecords
           /\ MayTrouble => [used EXCEPT !.troubles = @ + 1] \in UsedRecords
           /\ MayFail => [used EXCEPT !.faults = @ + 1] \in UsedRecords
<1> USE JoinAssumption DEF UsedRecords
<1>1. MayRequest => used.requests + 1 \in 0..MaxRequests
    BY DEF MayRequest
<1>2. MayTrouble => used.troubles + 1 \in 0..MaxTroubles
    BY DEF MayTrouble
<1>3. MayFail => used.faults + 1 \in 0..MaxFaults
    BY DEF MayFail
<1>4. QED
    BY <1>1, <1>2, <1>3

-----------------------------------------------------------------------------
(***************************************************************************)
(* What a step of the worker does to RowFacts.                             *)
(***************************************************************************)

\* A row in hand is deferred, requeued or settled short of joined, and let go.
LEMMA HandLetsGo ==
    ASSUME WorkTypes, RowFacts, joiner.pc \in InHand, WritesRow(X, States \ {"joined"}),
           joiner'.pc \notin InHand, joiner'.todo \subseteq joiner.todo,
           UNCHANGED <<bridge, registry, target>>
    PROVE  RowFacts'
<1>1. X \in Chats /\ Unsettled(X)
    BY DEF RowFacts, WorkerOwnsRows
<1>2. WorkerOwnsRows'
    BY <1>1 DEF RowFacts, WorkerOwnsRows, WritesRow, Unsettled, InHand, WorkTypes, JobRecords
<1>3. BridgeStillRight'
    BY <1>1 DEF RowFacts, BridgeStillRight, WritesRow, Unsettled
<1>4. ActivationSoFar'
    BY DEF ActivationSoFar, InHand
<1>5. JoinedIsActivated'
    BY DEF RowFacts, JoinedIsActivated, WritesRow
<1>6. QED
    BY <1>2, <1>3, <1>4, <1>5 DEF RowFacts

\* No row changes its state and what the worker holds it held before.
LEMMA RowsStay ==
    ASSUME RowFacts, \A x \in Chats : row'[x].state = row[x].state, UNCHANGED <<bridge, registry>>,
           \A x \in Chats : target[x].state # "absent" => target'[x].state # "absent",
           joiner \in [pc : InHand \cup {"rest", "between", "dialogs", "reconcile"},
                   mode : {"run", "reconcile"}, job : JobRecords \cup {NoJob},
                   todo : SUBSET JobRecords, dialogs : SUBSET Chats],
           joiner'.todo \subseteq joiner.todo,
           \/ joiner'.pc \notin InHand
           \/ joiner.pc \in InHand /\ joiner'.job = joiner.job
              /\ (joiner'.pc = joiner.pc \/ joiner'.pc \in {"resolving", "join", "joining", "observe"})
    PROVE  RowFacts'
<1>1. WorkerOwnsRows'
    BY DEF RowFacts, WorkerOwnsRows, Unsettled, InHand, JobRecords, X
<1>2. BridgeStillRight'
    BY DEF RowFacts, BridgeStillRight
<1>3. ActivationSoFar'
    BY DEF RowFacts, WorkerOwnsRows, ActivationSoFar, InHand, Observed, X
<1>4. JoinedIsActivated'
    BY DEF RowFacts, JoinedIsActivated
<1>5. QED
    BY <1>1, <1>2, <1>3, <1>4 DEF RowFacts

-----------------------------------------------------------------------------
(***************************************************************************)
(* The actions, one by one.                                                *)
(***************************************************************************)

\* Calls after a step of the worker that calls, or that ends a call.
LEMMA WorkerAsks ==
    ASSUME GovernorTypeOK, CallsAreOfRows, NEW k \in Keys, ReserveAction("joiner", k),
           k[2] \in Chats, joiner'.pc \in {"joining", "checking"}, joiner'.job.chat = k[2]
    PROVE  CallsAreOfRows'
<1>1. "joiner" \in Callers
    BY JoinAssumption
<1>2. call'["joiner"].key = k
    BY <1>1 DEF ReserveAction, Replay, RefusePaused, RefuseOverBudget, Grant, Enters, Returns,
        Told, At, GovernorTypeOK
<1>3. \A d \in Callers \ {"joiner"} : call'[d] = call[d]
    BY <1>1, CallsOfOthers
<1>4. QED
    BY <1>1, <1>2, <1>3 DEF CallsAreOfRows, Chat, X

LEMMA WorkerReturns ==
    ASSUME GovernorTypeOK, CallsAreOfRows, Return("joiner")
    PROVE  CallsAreOfRows'
<1>1. call'["joiner"].pc = "idle"
    BY JoinAssumption DEF Return, Idle, GovernorTypeOK
<1>2. \A d \in Callers \ {"joiner"} : call'[d] = call[d]
    BY JoinAssumption, CallsOfOthers
<1>3. QED
    BY <1>1, <1>2 DEF CallsAreOfRows, Chat

\* A step of the worker between two calls.
LEMMA WorkerSilent ==
    ASSUME CallsAreOfRows, UNCHANGED call, joiner.pc \notin {"joining", "checking"}
    PROVE  CallsAreOfRows'
BY DEF CallsAreOfRows, Chat

LEMMA OthersSilent ==
    ASSUME CallsAreOfRows, UNCHANGED <<call, joiner>>
    PROVE  CallsAreOfRows'
BY DEF CallsAreOfRows, Chat, X

\* No step of the bridge moves a row that the worker owns out of its queue, and
\* it writes nothing over a joined row but its policy, which is bound first.
LEMMA BridgeKeepsWork ==
    ASSUME WorkFacts, BridgeStep
    PROVE  WorkFacts'
<1> USE DEF WorkFacts
<1>1. UNCHANGED <<joiner, member, target, call>>
    BY DEF BridgeStep, BridgeReads, BridgeInserts, BridgeRevives, BridgeResumes, BridgeUpgrades,
        BridgeReports, backfillVars, governorVars
<1>2. CallsAreOfRows'
    BY <1>1, OthersSilent
<1> DEFINE b == bridge.chat
<1>3. ASSUME NEW x \in Chats, NEW watcher \in BOOLEAN, BridgeReads(x, watcher)
      PROVE  WorkTypes' /\ RowFacts'
    <2>1. /\ bridge' = [pc |-> "write", chat |-> x, watcher |-> watcher, seen |-> row[x]]
          /\ used' = [used EXCEPT !.requests = @ + 1] /\ MayRequest
          /\ row' = row /\ registry' = registry
        BY <1>3 DEF BridgeReads
    <2>2. WorkTypes'
        BY <1>1, <2>1, UsedStaysWithin DEF WorkTypes
    <2>3. BridgeStillRight'
        BY <2>1 DEF BridgeStillRight
    <2>4. WorkerOwnsRows' /\ ActivationSoFar' /\ JoinedIsActivated'
        BY <1>1, <2>1 DEF RowFacts, WorkerOwnsRows, ActivationSoFar, JoinedIsActivated, X,
            Unsettled, Observed
    <2>5. QED
        BY <2>2, <2>3, <2>4 DEF RowFacts
<1>4. CASE BridgeInserts \/ BridgeRevives
    <2>1. PICK new \in RowRecords : row' = [row EXCEPT ![b] = new] /\ new.state = "pending"
        <3>1. CASE BridgeInserts
            <4>1. PICK invite \in BOOLEAN : row' = [row EXCEPT ![b] =
                    [NoRow EXCEPT !.state = "pending", !.watcher = bridge.watcher, !.invite = invite]]
                BY <3>1 DEF BridgeInserts
            <4>2. [NoRow EXCEPT !.state = "pending", !.watcher = bridge.watcher, !.invite = invite]
                    \in RowRecords
                BY DEF WorkTypes, NoRow, RowRecords, States, Errors
            <4>3. QED
                BY <4>1, <4>2 DEF NoRow
        <3>2. CASE BridgeRevives
            <4>1. row[b] \in RowRecords
                BY <3>2 DEF BridgeRevives, RowFacts, BridgeStillRight, WorkTypes
            <4>2. PICK attempts \in Nat, watcher \in BOOLEAN :
                    row' = [row EXCEPT ![b] = [row[b] EXCEPT !.state = "pending",
                        !.attempts = attempts, !.error = "none", !.due = 0, !.watcher = watcher]]
                <5>1. row[b].attempts + 1 \in Nat
                    BY <4>1 DEF RowRecords
                <5>2. (row[b].watcher \/ bridge.watcher) \in BOOLEAN
                    OBVIOUS
                <5>3. QED
                    BY <3>2, <5>1, <5>2, Zenon DEF BridgeRevives
            <4>3. [row[b] EXCEPT !.state = "pending", !.attempts = attempts, !.error = "none",
                                 !.due = 0, !.watcher = watcher] \in RowRecords
                BY <4>1 DEF RowRecords, States, Errors
            <4>4. QED
                BY <4>1, <4>2, <4>3 DEF RowRecords
        <3>3. QED
            BY <1>4, <3>1, <3>2
    <2>2. /\ b \in Chats /\ row[b].state \in {"absent", "failed"} /\ bridge' = BridgeRests
          /\ registry' = registry /\ used' = used
        BY <1>4 DEF BridgeInserts, BridgeRevives, RowFacts, BridgeStillRight
    <2>3. row' \in [Chats -> RowRecords] /\ row'[b] = new /\ \A y \in Chats \ {b} : row'[y] = row[y]
        BY <2>1, <2>2 DEF WorkTypes
    <2>4. WorkTypes'
        BY <1>1, <2>2, <2>3 DEF WorkTypes, BridgeRests, NoRow, RowRecords, States, Errors
    <2>5. BridgeStillRight'
        BY <2>2 DEF BridgeStillRight, BridgeRests
    <2>6. WorkerOwnsRows'
        BY <1>1, <2>1, <2>3 DEF RowFacts, WorkerOwnsRows, Unsettled, X, WorkTypes, JobRecords
    <2>7. ActivationSoFar' /\ JoinedIsActivated'
        BY <1>1, <2>1, <2>2, <2>3 DEF RowFacts, ActivationSoFar, JoinedIsActivated, X, Observed
    <2>8. QED
        BY <1>2, <2>4, <2>5, <2>6, <2>7 DEF RowFacts
<1>5. CASE BridgeResumes
    <2>1. /\ b \in Chats /\ row[b].state = "joined" /\ bridge' = [bridge EXCEPT !.pc = "upgrade"]
          /\ registry' = [registry EXCEPT ![b] = [mode |-> "monitor", bound |-> TRUE]]
          /\ row' = row /\ used' = used
        BY <1>5 DEF BridgeResumes, RowFacts, BridgeStillRight
    <2>2. /\ registry'[b] = [mode |-> "monitor", bound |-> TRUE]
          /\ \A y \in Chats \ {b} : registry'[y] = registry[y]
          /\ registry' \in [Chats -> [mode : {"none", "recon", "monitor"}, bound : BOOLEAN]]
        BY <2>1 DEF WorkTypes
    <2>3. WorkTypes'
        BY <1>1, <2>1, <2>2 DEF WorkTypes
    <2>4. BridgeStillRight' /\ WorkerOwnsRows'
        BY <1>1, <2>1 DEF RowFacts, BridgeStillRight, WorkerOwnsRows, Unsettled, X, WorkTypes
    <2>5. joiner.pc \in {"bind", "archive", "settle"} => X \in Chats \ {b}
        BY <2>1 DEF RowFacts, WorkerOwnsRows, Unsettled, InHand
    <2>6. ActivationSoFar'
        BY <1>1, <2>2, <2>5 DEF RowFacts, ActivationSoFar, X, Observed
    <2>7. JoinedIsActivated'
        BY <1>1, <2>1, <2>2 DEF RowFacts, JoinedIsActivated
    <2>8. QED
        BY <1>2, <2>3, <2>4, <2>6, <2>7 DEF RowFacts
<1>6. CASE BridgeUpgrades
    <2>1. /\ b \in Chats /\ row' = [row EXCEPT ![b] = [row[b] EXCEPT !.watcher = TRUE]]
          /\ bridge' = BridgeRests /\ registry' = registry /\ used' = used
        BY <1>6 DEF BridgeUpgrades, RowFacts, BridgeStillRight
    <2>2. row' \in [Chats -> RowRecords] /\ \A y \in Chats : row'[y].state = row[y].state
        BY <2>1 DEF WorkTypes, RowRecords
    <2>3. WorkTypes'
        BY <1>1, <2>1, <2>2 DEF WorkTypes, BridgeRests, NoRow, RowRecords, States, Errors
    <2>4. BridgeStillRight'
        BY <2>1 DEF BridgeStillRight, BridgeRests
    <2>5. WorkerOwnsRows' /\ ActivationSoFar' /\ JoinedIsActivated'
        BY <1>1, <2>1, <2>2 DEF RowFacts, WorkerOwnsRows, Unsettled, ActivationSoFar,
            JoinedIsActivated, X, Observed, WorkTypes, JobRecords
    <2>6. QED
        BY <1>2, <2>3, <2>4, <2>5 DEF RowFacts
<1>7. CASE BridgeReports
    <2>1. row' = row /\ bridge' = BridgeRests /\ registry' = registry /\ used' = used
        BY <1>7 DEF BridgeReports
    <2>2. WorkTypes'
        BY <1>1, <2>1 DEF WorkTypes, BridgeRests, NoRow, RowRecords, States, Errors
    <2>3. RowFacts'
        BY <1>1, <2>1 DEF RowFacts, BridgeStillRight, BridgeRests, WorkerOwnsRows, Unsettled,
            ActivationSoFar, JoinedIsActivated, X, Observed
    <2>4. QED
        BY <1>2, <2>2, <2>3
<1>8. QED
    BY <1>2, <1>3, <1>4, <1>5, <1>6, <1>7 DEF BridgeStep

\* The row in hand is let go with a write of it.
LEMMA HandGoes ==
    ASSUME WorkFacts, GovernorTypeOK, joiner.pc \in InHand, WritesRow(X, States \ {"joined"}),
           joiner' = [joiner EXCEPT !.pc = joiner'.pc], joiner'.pc \in {"between", "reconcile"},
           Return("joiner"), UNCHANGED <<bridge, registry, member, used, backfillVars>>
    PROVE  WorkFacts'
<1>1. joiner'.todo = joiner.todo
    BY DEF WorkFacts, WorkTypes
<1>2. RowFacts'
    BY <1>1, HandLetsGo DEF WorkFacts, InHand, backfillVars
<1>3. WorkTypes'
    BY DEF WorkFacts, WorkTypes, WritesRow
<1>4. QED
    BY <1>2, <1>3, WorkerReturns DEF WorkFacts

LEMMA TakeJoinKeepsWork ==
    ASSUME WorkFacts, NEW x \in Chats, TakeJoin(x)
    PROVE  WorkFacts'
<1>1. PICK pc \in {"join", "resolve"} :
      /\ joiner' = [JoinerRests EXCEPT !.pc = pc, !.job = Job(x)] /\ joiner.pc = "rest"
      /\ UNCHANGED <<row, bridge, registry, member, used, target, call>>
      /\ row[x].state = "pending"
    BY DEF TakeJoin, backfillVars, governorVars, DueRows
<1>2. Job(x) \in JobRecords /\ Job(x).chat = x
    BY JobIsRecord DEF WorkFacts
<1>3. joiner'.pc \in {"join", "resolve"} /\ joiner'.job = Job(x) /\ joiner'.todo = {}
    BY <1>1 DEF JoinerRests
<1>4. WorkTypes'
    BY <1>1, <1>2 DEF WorkFacts, WorkTypes, JoinerRests, InHand
<1>5. WorkerOwnsRows'
    BY <1>1, <1>2, <1>3 DEF WorkerOwnsRows, X, Unsettled
<1>6. BridgeStillRight' /\ ActivationSoFar' /\ JoinedIsActivated'
    BY <1>1, <1>3 DEF WorkFacts, RowFacts, BridgeStillRight, ActivationSoFar, JoinedIsActivated
<1>7. CallsAreOfRows'
    BY <1>1, WorkerSilent DEF WorkFacts
<1>8. QED
    BY <1>4, <1>5, <1>6, <1>7 DEF WorkFacts, RowFacts

LEMMA ResolveKeepsWork ==
    ASSUME WorkFacts, ResolveEntity \/ Resolved
    PROVE  WorkFacts'
<1>1. PICK pc \in {"resolving", "join"} :
      /\ joiner' = [joiner EXCEPT !.pc = pc] /\ joiner.pc \in {"resolve", "resolving"}
      /\ UNCHANGED <<row, bridge, registry, member, used, target, call>>
    BY DEF ResolveEntity, Resolved, Goto, backfillVars, governorVars
<1>2. joiner'.pc = pc /\ joiner'.job = joiner.job /\ joiner'.todo = joiner.todo
    BY <1>1 DEF WorkFacts, WorkTypes
<1>3. WorkTypes'
    BY <1>1 DEF WorkFacts, WorkTypes, InHand
<1>4. RowFacts'
    BY <1>1, <1>2, RowsStay DEF WorkFacts, WorkTypes, InHand
<1>5. CallsAreOfRows'
    BY <1>1, WorkerSilent DEF WorkFacts
<1>6. QED
    BY <1>3, <1>4, <1>5 DEF WorkFacts

LEMMA UnresolvableKeepsWork ==
    ASSUME WorkFacts, Unresolvable
    PROVE  WorkFacts'
<1>1. /\ joiner.pc = "resolving" /\ X \in Chats /\ MayFail
      /\ SettleRow(X, "failed", "other") /\ joiner' = [joiner EXCEPT !.pc = "between"]
      /\ used' = [used EXCEPT !.faults = @ + 1]
      /\ UNCHANGED <<bridge, registry, member, target, call>>
    BY DEF Unresolvable, Goto, WorkFacts, RowFacts, WorkerOwnsRows, InHand, backfillVars, governorVars
<1>2. WritesRow(X, {"failed"})
    BY <1>1, SettleWrites DEF WorkFacts, States, Errors
<1>3. WorkTypes'
    BY <1>1, <1>2, UsedStaysWithin DEF WorkFacts, WorkTypes, WritesRow
<1>4. joiner'.pc = "between" /\ joiner'.todo = joiner.todo
    BY <1>1 DEF WorkFacts, WorkTypes
<1>5. RowFacts'
    BY <1>1, <1>2, <1>4, HandLetsGo DEF WorkFacts, WritesRow, InHand, States
<1>6. CallsAreOfRows'
    BY <1>1, WorkerSilent DEF WorkFacts
<1>7. QED
    BY <1>3, <1>5, <1>6 DEF WorkFacts

LEMMA AskToJoinKeepsWork ==
    ASSUME WorkFacts, GovernorTypeOK, AskToJoin
    PROVE  WorkFacts'
<1>1. /\ joiner.pc = "join" /\ X \in Chats /\ joiner' = [joiner EXCEPT !.pc = "joining"]
      /\ ReserveAction("joiner", JoinKey(X, joiner.job.attempts))
      /\ UNCHANGED <<row, bridge, registry, member, used, target>>
    BY DEF AskToJoin, Goto, WorkFacts, RowFacts, WorkerOwnsRows, InHand, backfillVars
<1>2. joiner'.pc = "joining" /\ joiner'.job = joiner.job /\ joiner'.todo = joiner.todo
    BY <1>1 DEF WorkFacts, WorkTypes
<1>3. JoinKey(X, joiner.job.attempts)[2] = X /\ JoinKey(X, joiner.job.attempts) \in Keys
    BY <1>1 DEF JoinKey, ReserveAction
<1>4. CallsAreOfRows'
    BY <1>1, <1>2, <1>3, WorkerAsks DEF WorkFacts, X
<1>5. WorkTypes'
    BY <1>1 DEF WorkFacts, WorkTypes, InHand
<1>6. RowFacts'
    BY <1>1, <1>2, RowsStay DEF WorkFacts, WorkTypes, InHand
<1>7. QED
    BY <1>4, <1>5, <1>6 DEF WorkFacts

\* Every answer that is not a membership defers the row or settles it short of
\* joined, and so do those of a check of an invite.
LEMMA AnswerLetsGo ==
    ASSUME WorkFacts, GovernorTypeOK,
           \/ DeferRefused \/ DeferHalted \/ ParkInterrupted \/ AwaitAdmin \/ JoinFails
           \/ InviteIsDead \/ AskInviteLater
    PROVE  WorkFacts'
<1>1. joiner.pc \in {"joining", "checking"}
    BY DEF DeferRefused, DeferHalted, ParkInterrupted, AwaitAdmin, JoinFails, InviteIsDead,
        AskInviteLater, JoinTold, CheckTold
<1>2. X \in Chats /\ Unsettled(X) /\ joiner.job \in JobRecords
    BY <1>1, JoinAssumption DEF WorkFacts, RowFacts, WorkerOwnsRows, InHand, WorkTypes, NoJob, X
<1>3. Wait \in Nat
    BY JoinAssumption DEF Wait, GovernorTypeOK
<1>4. /\ Return("joiner") /\ UNCHANGED <<bridge, registry, member, used, backfillVars>>
      /\ joiner' = [joiner EXCEPT !.pc = joiner'.pc] /\ joiner'.pc \in {"between", "reconcile"}
    BY DEF DeferRefused, DeferHalted, ParkInterrupted, AwaitAdmin, JoinFails, InviteIsDead,
        AskInviteLater, AfterCall, Goto, WorkFacts, WorkTypes
<1>5. \/ \E ticks \in Nat, error \in Errors, counted \in BOOLEAN : DeferRow(X, ticks, error, counted)
      \/ \E state \in {"failed", "requested"} : SettleRow(X, state, "other")
    <2>1. CASE DeferRefused
        <3>1. (IF Wait > 0 THEN Wait ELSE BudgetBackoff) \in Nat /\ (Status = "flood_wait") \in BOOLEAN
            BY <1>3, JoinAssumption
        <3>2. QED
            BY <2>1, <3>1 DEF DeferRefused, Errors
    <2>2. CASE DeferHalted
        BY <2>2, BackfillAssumption DEF DeferHalted, Errors
    <2>3. CASE ParkInterrupted
        BY <2>3, JoinAssumption DEF ParkInterrupted, Errors
    <2>4. CASE AwaitAdmin \/ JoinFails \/ InviteIsDead
        BY <2>4 DEF AwaitAdmin, JoinFails, InviteIsDead
    <2>5. CASE AskInviteLater
        <3>1. joiner.job.error \in Errors /\ (Status \notin {"denied", "refused"}) \in BOOLEAN
            BY <1>2 DEF JobRecords
        <3>2. QED
            BY <2>5, <3>1, JoinAssumption DEF AskInviteLater
    <2>6. QED
        BY <2>1, <2>2, <2>3, <2>4, <2>5
<1>6. WritesRow(X, States \ {"joined"})
    <2>1. ASSUME NEW ticks \in Nat, NEW error \in Errors, NEW counted \in BOOLEAN,
                 DeferRow(X, ticks, error, counted)
          PROVE  WritesRow(X, States \ {"joined"})
        <3>1. WritesRow(X, {row[X].state})
            BY <1>2, <2>1, DeferWrites DEF WorkFacts
        <3>2. QED
            BY <1>2, <3>1 DEF WritesRow, Unsettled, States
    <2>2. ASSUME NEW state \in {"failed", "requested"}, SettleRow(X, state, "other")
          PROVE  WritesRow(X, States \ {"joined"})
        <3>1. WritesRow(X, {state})
            BY <1>2, <2>2, SettleWrites DEF WorkFacts, States, Errors
        <3>2. QED
            BY <3>1 DEF WritesRow, States
    <2>3. QED
        BY <1>5, <2>1, <2>2
<1>7. QED
    BY <1>1, <1>4, <1>6, HandGoes DEF InHand

\* What the worker learns of a call without writing the row.
LEMMA AnswerHeard ==
    ASSUME WorkFacts, GovernorTypeOK, Joined \/ JoinRaises \/ InviteIsMember \/ CheckRaises
    PROVE  WorkFacts'
<1>1. /\ joiner.pc \in {"joining", "checking"} /\ Return("joiner")
      /\ UNCHANGED <<row, bridge, registry, member, used, target>>
      /\ \/ joiner' = [joiner EXCEPT !.pc = joiner'.pc] /\ joiner'.pc \in {"observe", "between"}
         \/ joiner' = JoinerRests
    BY DEF Joined, JoinRaises, InviteIsMember, CheckRaises, JoinTold, CheckTold, AfterCall, Goto,
        WorkFacts, WorkTypes, backfillVars
<1>2. CallsAreOfRows'
    BY <1>1, WorkerReturns DEF WorkFacts
<1>3. WorkTypes'
    BY <1>1 DEF WorkFacts, WorkTypes, JoinerRests, InHand
<1>4. CASE joiner' = [joiner EXCEPT !.pc = joiner'.pc] /\ joiner'.pc \in {"observe", "between"}
    <2>1. joiner'.todo = joiner.todo /\ joiner'.job = joiner.job
        BY <1>4 DEF WorkFacts, WorkTypes
    <2>2. RowFacts'
        BY <1>1, <1>4, <2>1, RowsStay DEF WorkFacts, WorkTypes, InHand
    <2>3. QED
        BY <1>2, <1>3, <2>2 DEF WorkFacts
<1>5. CASE joiner' = JoinerRests
    <2>1. joiner'.todo = {} /\ joiner'.pc = "rest"
        BY <1>5 DEF JoinerRests
    <2>2. RowFacts'
        BY <1>1, <2>1, RowsStay DEF WorkFacts, WorkTypes, InHand
    <2>3. QED
        BY <1>2, <1>3, <2>2 DEF WorkFacts
<1>6. QED
    BY <1>1, <1>4, <1>5

\* The writes of _activate, in their order.
LEMMA ObserveKeepsWork ==
    ASSUME WorkFacts, ObserveChat
    PROVE  WorkFacts'
<1> DEFINE mode == IF joiner.job.watcher THEN "monitor" ELSE "recon"
<1>1. /\ joiner.pc = "observe" /\ X \in Chats /\ Unsettled(X)
      /\ registry' = [registry EXCEPT ![X] = [registry[X] EXCEPT !.mode = mode]]
      /\ joiner' = [joiner EXCEPT !.pc = "bind"]
      /\ UNCHANGED <<row, bridge, member, used, target, call>>
    BY DEF ObserveChat, Goto, WorkFacts, RowFacts, WorkerOwnsRows, InHand, backfillVars, governorVars
<1>2. /\ registry' \in [Chats -> [mode : {"none", "recon", "monitor"}, bound : BOOLEAN]]
      /\ registry'[X].mode = mode /\ \A y \in Chats \ {X} : registry'[y] = registry[y]
    BY <1>1 DEF WorkFacts, WorkTypes
<1>3. joiner'.pc = "bind" /\ joiner'.job = joiner.job /\ joiner'.todo = joiner.todo
    BY <1>1 DEF WorkFacts, WorkTypes
<1>4. WorkTypes'
    BY <1>1, <1>2 DEF WorkFacts, WorkTypes, InHand
<1>5. WorkerOwnsRows' /\ BridgeStillRight'
    BY <1>1, <1>3 DEF WorkFacts, RowFacts, WorkerOwnsRows, BridgeStillRight, Unsettled, X, InHand
<1>6. ActivationSoFar'
    BY <1>1, <1>2, <1>3 DEF ActivationSoFar, X
<1>7. JoinedIsActivated'
    BY <1>1, <1>2 DEF WorkFacts, RowFacts, JoinedIsActivated, Unsettled
<1>8. CallsAreOfRows'
    BY <1>1, WorkerSilent DEF WorkFacts
<1>9. QED
    BY <1>4, <1>5, <1>6, <1>7, <1>8 DEF WorkFacts, RowFacts

LEMMA BindKeepsWork ==
    ASSUME WorkFacts, BindPolicy
    PROVE  WorkFacts'
<1>1. PICK bound \in BOOLEAN : /\ bound = (registry[X].bound \/ joiner.job.watcher)
                               /\ registry' = [registry EXCEPT ![X] = [registry[X] EXCEPT !.bound = bound]]
    BY Zenon DEF BindPolicy
<1>2. /\ joiner.pc = "bind" /\ X \in Chats /\ Unsettled(X)
      /\ joiner' = [joiner EXCEPT !.pc = "archive"]
      /\ UNCHANGED <<row, bridge, member, used, target, call>>
    BY DEF BindPolicy, Goto, WorkFacts, RowFacts, WorkerOwnsRows, InHand, backfillVars, governorVars
<1>3. /\ registry' \in [Chats -> [mode : {"none", "recon", "monitor"}, bound : BOOLEAN]]
      /\ registry'[X].mode = registry[X].mode /\ registry'[X].bound = bound
      /\ \A y \in Chats \ {X} : registry'[y] = registry[y]
    BY <1>1, <1>2 DEF WorkFacts, WorkTypes
<1>4. joiner'.pc = "archive" /\ joiner'.job = joiner.job /\ joiner'.todo = joiner.todo
    BY <1>2 DEF WorkFacts, WorkTypes
<1>5. WorkTypes'
    BY <1>2, <1>3 DEF WorkFacts, WorkTypes, InHand
<1>6. WorkerOwnsRows' /\ BridgeStillRight'
    BY <1>2, <1>4 DEF WorkFacts, RowFacts, WorkerOwnsRows, BridgeStillRight, Unsettled, X, InHand
<1>7. ActivationSoFar'
    <2>1. registry[X].mode = IF joiner.job.watcher THEN "monitor" ELSE "recon"
        BY <1>2 DEF WorkFacts, RowFacts, ActivationSoFar
    <2>2. registry[X].mode = "monitor" => bound
        BY <1>1, <2>1
    <2>3. registry'[X].mode # "none" /\ (registry'[X].mode = "monitor" => registry'[X].bound)
        BY <1>3, <2>1, <2>2
    <2>4. QED
        BY <1>4, <2>3 DEF ActivationSoFar, Observed, X
<1>8. JoinedIsActivated'
    BY <1>2, <1>3 DEF WorkFacts, RowFacts, JoinedIsActivated, Unsettled
<1>9. CallsAreOfRows'
    BY <1>2, WorkerSilent DEF WorkFacts
<1>10. QED
    BY <1>5, <1>6, <1>7, <1>8, <1>9 DEF WorkFacts, RowFacts

LEMMA AddTargetKeepsWork ==
    ASSUME WorkFacts, BackfillTypeOK, AddTarget
    PROVE  WorkFacts'
<1>1. /\ joiner.pc = "archive" /\ X \in Chats /\ Unsettled(X)
      /\ target' = [target EXCEPT ![X] = WithTarget(target[X])]
      /\ joiner' = [joiner EXCEPT !.pc = "settle"]
      /\ UNCHANGED <<row, bridge, registry, member, used, call>>
    BY DEF AddTarget, Goto, WorkFacts, RowFacts, WorkerOwnsRows, InHand, governorVars
<1>2. target'[X].state # "absent" /\ \A y \in Chats \ {X} : target'[y] = target[y]
    BY <1>1 DEF BackfillTypeOK, WithTarget, NoTarget
<1>3. joiner'.pc = "settle" /\ joiner'.job = joiner.job /\ joiner'.todo = joiner.todo
    BY <1>1 DEF WorkFacts, WorkTypes
<1>4. WorkTypes'
    BY <1>1 DEF WorkFacts, WorkTypes, InHand
<1>5. WorkerOwnsRows' /\ BridgeStillRight'
    BY <1>1, <1>3 DEF WorkFacts, RowFacts, WorkerOwnsRows, BridgeStillRight, Unsettled, X, InHand
<1>6. ActivationSoFar'
    BY <1>1, <1>2, <1>3 DEF WorkFacts, RowFacts, ActivationSoFar, X, Observed
<1>7. JoinedIsActivated'
    BY <1>1, <1>2 DEF WorkFacts, RowFacts, JoinedIsActivated, Unsettled
<1>8. CallsAreOfRows'
    BY <1>1, WorkerSilent DEF WorkFacts
<1>9. QED
    BY <1>4, <1>5, <1>6, <1>7, <1>8 DEF WorkFacts, RowFacts

LEMMA SettleKeepsWork ==
    ASSUME WorkFacts, SettleJoined
    PROVE  WorkFacts'
<1>1. /\ joiner.pc = "settle" /\ X \in Chats /\ Unsettled(X) /\ SettleRow(X, "joined", "none")
      /\ joiner' = [joiner EXCEPT !.pc = NextPc]
      /\ UNCHANGED <<bridge, registry, member, used, target, call>>
    BY DEF SettleJoined, Goto, WorkFacts, RowFacts, WorkerOwnsRows, InHand, backfillVars, governorVars
<1>2. WritesRow(X, {"joined"})
    BY <1>1, SettleWrites DEF WorkFacts, States, Errors
<1>3. /\ joiner'.pc \in {"between", "reconcile"}
      /\ joiner'.job = joiner.job /\ joiner'.todo = joiner.todo
    BY <1>1 DEF WorkFacts, WorkTypes, NextPc
<1>4. WorkTypes'
    BY <1>1, <1>2 DEF WorkFacts, WorkTypes, WritesRow, NextPc
<1>5. WorkerOwnsRows'
    BY <1>1, <1>2, <1>3 DEF WorkFacts, WorkTypes, RowFacts, WorkerOwnsRows, WritesRow, Unsettled,
        InHand, JobRecords
<1>6. BridgeStillRight'
    BY <1>1, <1>2 DEF WorkFacts, RowFacts, BridgeStillRight, WritesRow, Unsettled
<1>7. ActivationSoFar'
    BY <1>3 DEF ActivationSoFar
<1>8. JoinedIsActivated'
    BY <1>1, <1>2 DEF WorkFacts, RowFacts, JoinedIsActivated, ActivationSoFar, Observed, WritesRow
<1>9. CallsAreOfRows'
    BY <1>1, WorkerSilent DEF WorkFacts
<1>10. QED
    BY <1>4, <1>5, <1>6, <1>7, <1>8, <1>9 DEF WorkFacts, RowFacts

-----------------------------------------------------------------------------
(***************************************************************************)
(* reconcile.                                                              *)
(***************************************************************************)

LEMMA PassKeepsWork ==
    ASSUME WorkFacts, StartReconcile \/ SkipReconcile \/ ReadDialogs \/ EndReconcile
    PROVE  WorkFacts'
<1>1. /\ UNCHANGED <<row, bridge, registry, member, used, target, call>>
      /\ joiner.pc \in {"between", "rest", "dialogs", "reconcile"}
    BY DEF StartReconcile, SkipReconcile, ReadDialogs, EndReconcile, backfillVars, governorVars
<1>2. CallsAreOfRows'
    BY <1>1, WorkerSilent DEF WorkFacts
<1>3. CASE StartReconcile
    <2>1. joiner' = [JoinerRests EXCEPT !.pc = "dialogs", !.mode = "reconcile",
                                        !.todo = {Job(x) : x \in Unresolved}]
        BY <1>3 DEF StartReconcile
    <2>2. \A x \in Unresolved : x \in Chats /\ Unsettled(x) /\ Job(x) \in JobRecords /\ Job(x).chat = x
        BY JobIsRecord DEF Unresolved, Unsettled, WorkFacts
    <2>3. WorkTypes'
        <3>1. {Job(x) : x \in Unresolved} \in SUBSET JobRecords
            BY <2>2
        <3>2. PICK todo \in SUBSET JobRecords :
                joiner' = [JoinerRests EXCEPT !.pc = "dialogs", !.mode = "reconcile", !.todo = todo]
            BY <2>1, <3>1
        <3>3. QED
            BY <1>1, <3>2 DEF WorkFacts, WorkTypes, JoinerRests, InHand
    <2>4. joiner'.pc = "dialogs" /\ joiner'.todo = {Job(x) : x \in Unresolved}
        BY <2>1 DEF JoinerRests
    <2>5. WorkerOwnsRows'
        <3>1. \A job \in joiner'.todo : Unsettled(job.chat) /\ job = Job(job.chat)
            BY <2>2, <2>4
        <3>2. \A a, b \in joiner'.todo : a.chat = b.chat => a = b
            BY <3>1
        <3>3. QED
            BY <1>1, <2>4, <3>1, <3>2 DEF WorkerOwnsRows, Unsettled, InHand
    <2>6. BridgeStillRight' /\ ActivationSoFar' /\ JoinedIsActivated'
        BY <1>1, <2>4 DEF WorkFacts, RowFacts, BridgeStillRight, ActivationSoFar, JoinedIsActivated
    <2>7. QED
        BY <1>2, <2>3, <2>5, <2>6 DEF WorkFacts, RowFacts
<1>4. CASE SkipReconcile \/ EndReconcile
    <2>1. joiner' = JoinerRests
        BY <1>4 DEF SkipReconcile, EndReconcile
    <2>2. WorkTypes' /\ joiner'.pc = "rest" /\ joiner'.todo = {}
        BY <1>1, <2>1 DEF JoinerRests, WorkFacts, WorkTypes, InHand
    <2>3. RowFacts'
        BY <1>1, <2>2, RowsStay DEF WorkFacts, WorkTypes, InHand
    <2>4. QED
        BY <1>2, <2>2, <2>3 DEF WorkFacts
<1>5. CASE ReadDialogs
    <2>1. PICK dialogs \in SUBSET Chats :
            joiner' = [joiner EXCEPT !.pc = "reconcile", !.dialogs = dialogs]
        <3>1. {x \in Chats : member[x] = "yes"} \in SUBSET Chats
            OBVIOUS
        <3>2. QED
            BY <1>5, <3>1 DEF ReadDialogs
    <2>2. WorkTypes' /\ joiner'.pc = "reconcile" /\ joiner'.todo = joiner.todo
        BY <1>1, <2>1 DEF WorkFacts, WorkTypes, InHand
    <2>3. RowFacts'
        BY <1>1, <2>2, RowsStay DEF WorkFacts, WorkTypes, InHand
    <2>4. QED
        BY <1>2, <2>2, <2>3 DEF WorkFacts
<1>6. QED
    BY <1>3, <1>4, <1>5

\* The next row of the list is taken in hand.
LEMMA JobInHand ==
    ASSUME WorkFacts, NEW job \in joiner.todo, NEW pc \in {"observe", "checking"},
           joiner.pc = "reconcile",
           joiner' = [joiner EXCEPT !.pc = pc, !.job = job, !.todo = joiner.todo \ {job}],
           UNCHANGED <<row, bridge, registry, member, used, target>>
    PROVE  WorkTypes' /\ RowFacts' /\ joiner'.pc = pc /\ joiner'.job = job
<1>1. joiner'.pc = pc /\ joiner'.job = job /\ joiner'.todo = joiner.todo \ {job}
    BY DEF WorkFacts, WorkTypes
<1>2. job \in JobRecords
    BY DEF WorkFacts, WorkTypes
<1>3. WorkTypes'
    BY <1>2 DEF WorkFacts, WorkTypes, InHand
<1>4. WorkerOwnsRows'
    BY <1>1, <1>2 DEF WorkFacts, RowFacts, WorkerOwnsRows, Unsettled, X, JobRecords
<1>5. BridgeStillRight' /\ ActivationSoFar' /\ JoinedIsActivated'
    BY <1>1 DEF WorkFacts, RowFacts, BridgeStillRight, ActivationSoFar, JoinedIsActivated
<1>6. QED
    BY <1>1, <1>3, <1>4, <1>5 DEF RowFacts

LEMMA ListKeepsWork ==
    ASSUME WorkFacts, GovernorTypeOK, NEW job \in joiner.todo,
           FoundAmongDialogs(job) \/ MissingFromDialogs(job) \/ AskInvite(job)
    PROVE  WorkFacts'
<1>0. job \in JobRecords /\ job.chat \in Chats /\ Unsettled(job.chat) /\ joiner.pc = "reconcile"
    BY DEF WorkFacts, WorkTypes, RowFacts, WorkerOwnsRows, JobRecords, FoundAmongDialogs,
        MissingFromDialogs, AskInvite
<1>1. CASE FoundAmongDialogs(job)
    <2>1. /\ joiner' = [joiner EXCEPT !.pc = "observe", !.job = job, !.todo = joiner.todo \ {job}]
          /\ UNCHANGED <<row, bridge, registry, member, used, target, call>>
        BY <1>1 DEF FoundAmongDialogs, backfillVars, governorVars
    <2>2. QED
        BY <1>0, <2>1, JobInHand, WorkerSilent DEF WorkFacts
<1>2. CASE AskInvite(job)
    <2>1. /\ joiner' = [joiner EXCEPT !.pc = "checking", !.job = job, !.todo = joiner.todo \ {job}]
          /\ ReserveAction("joiner", CheckKey(job.chat, job.attempts))
          /\ UNCHANGED <<row, bridge, registry, member, used, target>>
        BY <1>2 DEF AskInvite, backfillVars
    <2>2. WorkTypes' /\ RowFacts' /\ joiner'.pc = "checking" /\ joiner'.job = job
        BY <1>0, <2>1, JobInHand
    <2>3. CheckKey(job.chat, job.attempts)[2] = job.chat /\ CheckKey(job.chat, job.attempts) \in Keys
        BY <2>1 DEF CheckKey, ReserveAction
    <2>4. CallsAreOfRows'
        BY <1>0, <2>1, <2>2, <2>3, WorkerAsks DEF WorkFacts
    <2>5. QED
        BY <2>2, <2>4 DEF WorkFacts
<1>3. CASE MissingFromDialogs(job)
    <2>1. /\ joiner' = [joiner EXCEPT !.todo = joiner.todo \ {job}]
          /\ UNCHANGED <<bridge, registry, member, used, target, call>>
          /\ RequeueRow(job.chat) \/ UNCHANGED row
        BY <1>3 DEF MissingFromDialogs, backfillVars, governorVars
    <2>2. joiner'.todo \subseteq joiner.todo /\ joiner'.pc = "reconcile"
        BY <1>0, <2>1 DEF WorkFacts, WorkTypes
    <2>3. WritesRow(job.chat, {"pending"}) \/ UNCHANGED row
        BY <1>0, <2>1, RequeueWrites DEF WorkFacts
    <2>4. WorkTypes'
        BY <2>1, <2>3 DEF WorkFacts, WorkTypes, WritesRow
    <2>5. WorkerOwnsRows'
        BY <2>2, <2>3 DEF WorkFacts, WorkTypes, RowFacts, WorkerOwnsRows, WritesRow, Unsettled,
            InHand, JobRecords
    <2>6. BridgeStillRight' /\ ActivationSoFar' /\ JoinedIsActivated'
        BY <1>0, <2>1, <2>2, <2>3 DEF WorkFacts, RowFacts, BridgeStillRight, ActivationSoFar,
            JoinedIsActivated, WritesRow, Unsettled
    <2>7. QED
        BY <1>0, <2>1, <2>4, <2>5, <2>6, WorkerSilent DEF WorkFacts, RowFacts
<1>4. QED
    BY <1>1, <1>2, <1>3

-----------------------------------------------------------------------------
(***************************************************************************)
(* The archive worker, the governor and Telegram, the process and time.    *)
(***************************************************************************)

\* A target that is there stays.
LEMMA TargetsStay ==
    ASSUME HistoryFacts, BackfillStep, NEW x \in Chats, target[x].state # "absent"
    PROVE  target'[x].state # "absent"
<1>1. target \in [Chats -> [state : {"absent", "pending", "complete"}, cursor : 0..Pages, due : Nat]]
    BY DEF HistoryFacts, BackfillTypeOK
<1>2. ASSUME NEW y \in Chats, PeerUnresolved(y)
      PROVE  target'[x].state = target[x].state
    BY <1>1, <1>2 DEF PeerUnresolved
<1>3. CASE (\E y \in Chats : AskPage(y)) \/ ReadRaises \/ StorePage
    BY <1>3 DEF AskPage, ReadRaises, StorePage
<1>4. CASE DeferTarget
    <2>1. PICK due : target' = [target EXCEPT ![reader.chat].due = due]
        BY <1>4 DEF DeferTarget
    <2>2. QED
        BY <1>1, <2>1
<1>5. CASE RecordPage
    <2> DEFINE walked == target[reader.chat].cursor + 1
               new == [state |-> IF walked = Pages THEN "complete" ELSE "pending",
                       cursor |-> walked, due |-> 0]
    <2>1. target' = [target EXCEPT ![reader.chat] = new]
        BY <1>5 DEF RecordPage
    <2>2. new.state # "absent"
        OBVIOUS
    <2> HIDE DEF new
    <2>3. QED
        BY <1>1, <2>1, <2>2
<1>6. QED
    BY <1>2, <1>3, <1>4, <1>5 DEF BackfillStep

LEMMA BackfillKeepsWork ==
    ASSUME WorkFacts, HistoryFacts, GovernorTypeOK, BackfillStep, UNCHANGED joinVars
    PROVE  WorkFacts'
<1>0. "joiner" \in Callers /\ "reader" \in Callers
    BY JoinAssumption
<1>1. CallsAreOfRows'
    <2>1. ASSUME NEW x \in Chats, AskPage(x)
          PROVE  CallsAreOfRows'
        <3>1. PICK k \in Keys : k[2] = x /\ ReserveAction("reader", k)
            BY <2>1 DEF AskPage, ReserveAction, HistoryKey
        <3>2. call'["reader"].key = k
            BY <1>0, <3>1 DEF ReserveAction, Replay, RefusePaused, RefuseOverBudget, Grant, Enters,
                Returns, Told, At, GovernorTypeOK
        <3>3. \A d \in Callers \ {"reader"} : call'[d] = call[d]
            BY <1>0, <3>1, CallsOfOthers
        <3>4. QED
            BY <1>0, <3>1, <3>2, <3>3 DEF WorkFacts, CallsAreOfRows, Chat, X, joinVars
    <2>2. CASE DeferTarget \/ ReadRaises \/ StorePage
        <3>1. Return("reader")
            BY <2>2 DEF DeferTarget, ReadRaises, StorePage
        <3>2. call'["reader"].pc = "idle"
            BY <1>0, <3>1 DEF Return, Idle, GovernorTypeOK
        <3>3. \A d \in Callers \ {"reader"} : call'[d] = call[d]
            BY <1>0, <3>1, CallsOfOthers
        <3>4. QED
            BY <1>0, <3>2, <3>3 DEF WorkFacts, CallsAreOfRows, Chat, X, joinVars
    <2>3. CASE (\E x \in Chats : PeerUnresolved(x)) \/ RecordPage
        BY <2>3, OthersSilent DEF PeerUnresolved, RecordPage, governorVars, joinVars, WorkFacts
    <2>4. QED
        BY <2>1, <2>2, <2>3 DEF BackfillStep
<1>2. WorkTypes'
    BY DEF WorkFacts, WorkTypes, joinVars
<1>3. RowFacts'
    <2>1. joiner'.pc \notin InHand
            \/ (joiner.pc \in InHand /\ joiner'.job = joiner.job /\ joiner'.pc = joiner.pc)
        BY DEF joinVars
    <2>2. QED
        BY <2>1, TargetsStay, RowsStay DEF WorkFacts, WorkTypes, joinVars
<1>4. QED
    BY <1>1, <1>2, <1>3 DEF WorkFacts

\* Nothing but what the account is in the chats, and the bounds, changes.
LEMMA OutsideKeepsWork ==
    ASSUME WorkFacts, UNCHANGED <<row, joiner, bridge, registry, target>>,
           member' \in [Chats -> {"no", "asked", "yes"}], used' \in UsedRecords,
           \A c \in Callers : call'[c].pc # "idle" => call[c].pc # "idle" /\ call'[c].key = call[c].key
    PROVE  WorkFacts'
<1>1. CallsAreOfRows'
    BY JoinAssumption DEF WorkFacts, CallsAreOfRows, Chat, X
<1>2. WorkTypes'
    BY DEF WorkFacts, WorkTypes
<1>3. RowFacts'
    BY DEF WorkFacts, RowFacts, WorkerOwnsRows, BridgeStillRight, ActivationSoFar,
        JoinedIsActivated, Unsettled, Observed, X
<1>4. QED
    BY <1>1, <1>2, <1>3 DEF WorkFacts

LEMMA MemberTyped ==
    ASSUME member \in [Chats -> {"no", "asked", "yes"}], NEW x \in Chats
    PROVE  MayBecome(x) \subseteq {"no", "asked", "yes"}
BY DEF MayBecome

LEMMA AnsweredKeepsWork ==
    ASSUME WorkFacts, GovernorTypeOK, NEW c \in Callers, NEW answer \in Values \cup Troubles,
           Answered(c, answer)
    PROVE  WorkFacts'
<1>1. /\ call[c].pc = "calling" /\ Answer(c, answer)
      /\ UNCHANGED <<row, joiner, bridge, registry, target>>
    BY DEF Answered, Answer, backfillVars
<1>2. Chat(c) \in Chats
    BY <1>1 DEF WorkFacts, CallsAreOfRows
<1>3. \A d \in Callers : call'[d].pc # "idle" => call[d].pc # "idle" /\ call'[d].key = call[d].key
    BY <1>1, OnlyCallersCall
<1>4. member' \in [Chats -> {"no", "asked", "yes"}]
    <2>1. \/ UNCHANGED member
          \/ \E becomes \in {"no", "asked", "yes"} : MemberUnlessLost(c, becomes)
          \/ member' = [member EXCEPT ![Chat(c)] = "asked"]
        BY <1>2, MemberTyped DEF Answered, WorkFacts, WorkTypes
    <2>2. QED
        BY <2>1 DEF MemberUnlessLost, WorkFacts, WorkTypes
<1>5. used' \in UsedRecords
    BY UsedStaysWithin DEF Answered, WorkFacts, WorkTypes
<1>6. QED
    BY <1>1, <1>3, <1>4, <1>5, OutsideKeepsWork

LEMMA StopKeepsWork ==
    ASSUME WorkFacts, StopDaemon
    PROVE  WorkFacts'
<1>1. /\ joiner' = JoinerRests /\ used' = [used EXCEPT !.faults = @ + 1] /\ MayFail
      /\ UNCHANGED <<row, bridge, registry, target>> /\ call' = [c \in Callers |-> Idle]
    BY DEF StopDaemon, Stop
<1>2. used' \in UsedRecords
    BY <1>1, UsedStaysWithin DEF WorkFacts, WorkTypes
<1>3. member' \in [Chats -> {"no", "asked", "yes"}]
    <2>1. CASE call["joiner"].pc = "calling"
        <3>1. X \in Chats
            BY <2>1, JoinAssumption DEF WorkFacts, CallsAreOfRows, RowFacts, WorkerOwnsRows, InHand
        <3>2. QED
            BY <3>1, MemberTyped DEF StopDaemon, WorkFacts, WorkTypes
    <2>2. CASE call["joiner"].pc # "calling"
        BY <2>2 DEF StopDaemon, WorkFacts, WorkTypes
    <2>3. QED
        BY <2>1, <2>2
<1>4. joiner'.pc = "rest" /\ joiner'.todo = {}
    BY <1>1 DEF JoinerRests
<1>5. WorkTypes'
    BY <1>1, <1>2, <1>3 DEF WorkFacts, WorkTypes, JoinerRests, InHand
<1>6. RowFacts'
    BY <1>1, <1>4, RowsStay DEF WorkFacts, WorkTypes, InHand
<1>7. CallsAreOfRows'
    BY <1>1, JoinAssumption DEF CallsAreOfRows, Idle
<1>8. QED
    BY <1>5, <1>6, <1>7 DEF WorkFacts

LEMMA TimeKeepsWork ==
    ASSUME WorkFacts, HistoryFacts, Time
    PROVE  WorkFacts'
<1>1. /\ row' = [x \in Chats |-> [row[x] EXCEPT !.due = Less(row[x].due)]]
      /\ target' = [x \in Chats |-> [target[x] EXCEPT !.due = Less(target[x].due)]]
      /\ UNCHANGED <<joiner, bridge, registry, member, used, call>>
    BY DEF Time, Tick
<1>2. ASSUME NEW x \in Chats
      PROVE  row'[x] \in RowRecords /\ row'[x].state = row[x].state
    <2>1. row[x] \in RowRecords
        BY DEF WorkFacts, WorkTypes
    <2>2. PICK due \in Nat : due = Less(row[x].due)
        BY <2>1 DEF RowRecords, Less
    <2>3. row'[x] = [row[x] EXCEPT !.due = due]
        BY <1>1, <2>2
    <2>4. QED
        BY <2>1, <2>3 DEF RowRecords
<1>3. row' \in [Chats -> RowRecords]
    BY <1>1, <1>2
<1>4. ASSUME NEW x \in Chats
      PROVE  target'[x].state = target[x].state
    BY <1>1 DEF HistoryFacts, BackfillTypeOK
<1>5. WorkTypes'
    BY <1>1, <1>3 DEF WorkFacts, WorkTypes
<1>6. RowFacts'
    BY <1>1, <1>2, <1>4, RowsStay DEF WorkFacts, WorkTypes
<1>7. CallsAreOfRows'
    BY <1>1, OthersSilent DEF WorkFacts
<1>8. QED
    BY <1>5, <1>6, <1>7 DEF WorkFacts

LEMMA WorkStep ==
    ASSUME WorkFacts, HistoryFacts, GovernorTypeOK, [Next]_vars
    PROVE  WorkFacts'
<1>1. CASE UNCHANGED vars
    BY <1>1, OutsideKeepsWork DEF vars, joinVars, backfillVars, governorVars, WorkFacts, WorkTypes
<1>2. CASE BridgeStep
    BY <1>2, BridgeKeepsWork
<1>3. CASE RunOnce
    BY <1>3, TakeJoinKeepsWork, ResolveKeepsWork, UnresolvableKeepsWork, AskToJoinKeepsWork, AnswerLetsGo, AnswerHeard,
        ObserveKeepsWork, BindKeepsWork, AddTargetKeepsWork, SettleKeepsWork DEF RunOnce, HistoryFacts
<1>4. CASE Reconcile
    BY <1>4, PassKeepsWork, ListKeepsWork, AnswerLetsGo, AnswerHeard DEF Reconcile
<1>5. CASE BackfillStep /\ UNCHANGED joinVars
    BY <1>5, BackfillKeepsWork
<1>6. ASSUME NEW c \in Callers, GovernorStep(c)
      PROVE  WorkFacts'
    <2>1. \A d \in Callers : call'[d].pc # "idle" => call[d].pc # "idle" /\ call'[d].key = call[d].key
        BY <1>6, OnlyCallersCall DEF GovernorStep
    <2>2. QED
        BY <1>6, <2>1, OutsideKeepsWork DEF GovernorStep, joinVars, backfillVars, WorkFacts, WorkTypes
<1>7. ASSUME NEW c \in Callers, NEW answer \in Values \cup Troubles, Answered(c, answer)
      PROVE  WorkFacts'
    BY <1>7, AnsweredKeepsWork
<1>8. ASSUME NEW x \in Chats, AdminApproves(x)
      PROVE  WorkFacts'
    BY <1>8, OutsideKeepsWork DEF AdminApproves, backfillVars, governorVars, WorkFacts, WorkTypes
<1>9. CASE StopDaemon
    BY <1>9, StopKeepsWork
<1>10. CASE Time
    BY <1>10, TimeKeepsWork
<1>11. QED
    BY <1>1, <1>2, <1>3, <1>4, <1>5, <1>6, <1>7, <1>8, <1>9, <1>10 DEF Next

LEMMA WorkInvariant == JoinSpec => [](GovernorTypeOK /\ HistoryFacts /\ WorkFacts)
<1>1. Init => HistoryFacts
    BY HistoryBegins
<1>2. Init => WorkFacts
    <2> SUFFICES ASSUME Init PROVE WorkFacts
        OBVIOUS
    <2>1. WorkTypes
        BY JoinAssumption DEF Init, JoinInit, WorkTypes, NoRow, RowRecords, States, Errors,
            JoinerRests, BridgeRests, InHand, UsedRecords
    <2>2. CallsAreOfRows
        BY JoinAssumption DEF Init, GovernorInit, CallsAreOfRows, Idle
    <2>3. RowFacts
        BY DEF Init, JoinInit, RowFacts, WorkerOwnsRows, BridgeStillRight, ActivationSoFar,
            JoinedIsActivated, NoRow, JoinerRests, BridgeRests, InHand
    <2>4. QED
        BY <2>1, <2>2, <2>3 DEF WorkFacts
<1>3. GovernorInv => GovernorTypeOK
    BY DEF GovernorInv
<1>4. HistoryFacts /\ WorkFacts /\ GovernorTypeOK /\ [Next]_vars => (HistoryFacts /\ WorkFacts)'
    BY HistoryStep, WorkStep
<1>5. QED
    BY <1>1, <1>2, <1>3, <1>4, GovernorHolds, PTL DEF JoinSpec

\* Every variable of the join worker, the bridge and Telegram keeps its type,
\* with those of the archive worker and the governor (join_queue).
THEOREM JoinTypes == JoinSpec => []JoinTypeOK
<1>1. GovernorTypeOK /\ HistoryFacts /\ WorkFacts => JoinTypeOK
    BY DEF HistoryFacts, WorkFacts, WorkTypes, JoinTypeOK, RowRecords, JobRecords, States, Errors,
        UsedRecords, NoJob, X
<1>2. QED
    BY <1>1, WorkInvariant, PTL

\* Whatever stops between the writes of _activate, and whatever the bridge
\* writes meanwhile, a join that is settled is observed and archived, and no
\* chat is monitored without being bound to its policy.
THEOREM ActivationIsWhole == JoinSpec => []JoinedIsActivated
<1>1. WorkFacts => JoinedIsActivated
    BY DEF WorkFacts, RowFacts
<1>2. QED
    BY <1>1, WorkInvariant, PTL

=============================================================================
