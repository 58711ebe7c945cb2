--------------------------- MODULE MCEntityIndex ---------------------------
(* Instances of EntityIndex for TLC. *)
EXTENDS EntityIndex, TLC

\* m1 and m2 are one announcement, in a live chat and in a scouted one; m3 is
\* another message of a scouted chat.
Crosspost == [m \in Messages |-> IF m = "m3" THEN "other" ELSE "announcement"]
LiveAndScout == [m \in Messages |-> IF m = "m1" THEN "live" ELSE "scout"]

\* The model finds nothing, or a cafe.
Cafe == {{}, {<<"cafe", "brunch">>}}
=============================================================================
