----------------------------- MODULE MCJoinQueue -----------------------------
(* Instances of JoinQueue for TLC. *)
EXTENDS JoinQueue

CONSTANTS MaxAttempts, JoinsPerDay

\* The keys that MaxRequests, MaxTroubles and MaxFaults leave within reach.
ReachableKeys ==
    {JoinKey(x, n) : x \in Chats, n \in 0..MaxAttempts}
        \cup {CheckKey(x, n) : x \in Chats, n \in 0..MaxAttempts}
        \cup {HistoryKey(x, n) : x \in Chats, n \in 0..Pages - 1}

\* A join is capped by the day and paced, the reads by the hour.
HourCaps == [kind \in Kinds |-> IF kind = "join" THEN NoCap ELSE 1]
DayCaps == [kind \in Kinds |-> IF kind = "join" THEN JoinsPerDay ELSE NoCap]
Paces == [kind \in Kinds |-> IF kind = "join" THEN 1 ELSE 0]
=============================================================================
