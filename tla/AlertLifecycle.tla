--------------------------- MODULE AlertLifecycle ---------------------------
(***************************************************************************)
(* What the durable alert outbox promises its owner, with leases, tokens,  *)
(* clocks and retries left out: an alert is raised once, it ends as sent   *)
(* only after the Bot API took it at least once, a settled alert never     *)
(* changes its verdict, and only a settled alert may be forgotten.         *)
(***************************************************************************)
CONSTANT Rows

VARIABLES
    state,      \* state[r]: the life of alert r
    reached     \* reached[r]: the Bot API accepted alert r at least once

lifeVars == <<state, reached>>

Settled == {"sent", "failed"}

LifeInit ==
    /\ state = [r \in Rows |-> "absent"]
    /\ reached = [r \in Rows |-> FALSE]

\* An accepted message commits its alert.
Raise(r) ==
    /\ state[r] = "absent"
    /\ state' = [state EXCEPT ![r] = "pending"]
    /\ UNCHANGED reached

\* The Bot API takes the text.  A late request may still land after the row
\* was settled by somebody else, or was purged.
Reach(r) ==
    /\ state[r] # "absent"
    /\ reached' = [reached EXCEPT ![r] = TRUE]
    /\ UNCHANGED state

Confirm(r) ==
    /\ state[r] = "pending"
    /\ reached[r]
    /\ state' = [state EXCEPT ![r] = "sent"]
    /\ UNCHANGED reached

GiveUp(r) ==
    /\ state[r] = "pending"
    /\ state' = [state EXCEPT ![r] = "failed"]
    /\ UNCHANGED reached

Forget(r) ==
    /\ state[r] \in Settled
    /\ state' = [state EXCEPT ![r] = "purged"]
    /\ UNCHANGED reached

LifeNext ==
    \E r \in Rows : Raise(r) \/ Reach(r) \/ Confirm(r) \/ GiveUp(r) \/ Forget(r)

LifeSpec == LifeInit /\ [][LifeNext]_lifeVars
=============================================================================
