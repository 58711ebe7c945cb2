----------------------------- MODULE DurableJob -----------------------------
(***************************************************************************)
(* What the pipeline promises about a message under a watcher, seen from   *)
(* outside: the jobs of a message appear together; a job ends exactly      *)
(* once, and ends with its alert or without one in a single step; an alert *)
(* is settled once; and a message is forgotten whole, when nothing of it   *)
(* is open.                                                                *)
(***************************************************************************)
CONSTANTS Messages, Watchers

VARIABLE life

Keys == Messages \X Watchers

Open == {"pending", "alerting"}

Lives == Open \cup {"none", "quiet", "failed", "sent", "undelivered", "gone"}

JobInit == life = [j \in Keys |-> "none"]

Commit(m, ws) ==
    /\ \A w \in Watchers : life[<<m, w>>] = "none"
    /\ life' = [j \in Keys |-> IF j[1] = m /\ j[2] \in ws THEN "pending" ELSE life[j]]

Finish(j) ==
    /\ life[j] = "pending"
    /\ \E l \in {"quiet", "failed", "alerting"} : life' = [life EXCEPT ![j] = l]

Settle(j) ==
    /\ life[j] = "alerting"
    /\ \E l \in {"sent", "undelivered"} : life' = [life EXCEPT ![j] = l]

Forget(ms) ==
    /\ \A m \in ms, w \in Watchers : life[<<m, w>>] \notin Open
    /\ life' = [j \in Keys |-> IF j[1] \in ms /\ life[j] # "none" THEN "gone" ELSE life[j]]

JobNext ==
    \/ \E m \in Messages, ws \in SUBSET Watchers : Commit(m, ws)
    \/ \E j \in Keys : Finish(j) \/ Settle(j)
    \/ \E ms \in SUBSET Messages : Forget(ms)

JobSpec == JobInit /\ [][JobNext]_life
=============================================================================
