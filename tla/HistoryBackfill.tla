---------------------------- MODULE HistoryBackfill ----------------------------
(***************************************************************************)
(* BackfillWorker (pipeline/backfill.py) over backfill_targets and         *)
(* scout_messages (storage/scout.py): the history of a chat is walked       *)
(* backwards, page by page, each request under the action governor.        *)
(*                                                                         *)
(* The history of a chat is the pages 0..Pages - 1, newest first; the      *)
(* cursor oldest_message_id is the number of pages walked, and so is       *)
(* pages_done.  not_before is `due`, the ticks left until it.  A horizon    *)
(* ends the walk like the end of the history does.                         *)
(***************************************************************************)
EXTENDS ActionGovernor

CONSTANTS
    Chats,      \* the chats that may become targets, in the order of chat_id
    Pages,      \* pages of a chat's history
    PeerRetry,  \* the 900 seconds of a target that cannot be asked for
    HaltRetry   \* the 6 hours of a target, or a join, whose class is halted

ASSUME BackfillAssumption ==
    /\ Chats \subseteq Nat /\ Pages \in Nat \ {0} /\ PeerRetry \in Nat /\ HaltRetry \in Nat

VARIABLES
    target,  \* target[x]: the row of backfill_targets of chat x
    stored,  \* stored[x]: the pages of x in scout_messages
    reader   \* where run_once is

backfillVars == <<target, stored, reader>>

NoTarget == [state |-> "absent", cursor |-> 0, due |-> 0]
ReaderRests == [pc |-> "rest", chat |-> 0]

HistoryKey(x, page) == <<"history_page", x, page>>

BackfillInit ==
    /\ target = [x \in Chats |-> NoTarget]
    /\ stored = [x \in Chats |-> {}]
    /\ reader = ReaderRests

\* add_backfill_target; the horizon of a target that is there already stays.
WithTarget(t) == IF t.state = "absent" THEN [NoTarget EXCEPT !.state = "pending"] ELSE t

Due == {x \in Chats : target[x].state = "pending" /\ target[x].due = 0}

\* next_backfill_target: the least advanced, then the first.
IsNextTarget(x) ==
    /\ x \in Due
    /\ \A y \in Due : \/ target[x].cursor < target[y].cursor
                      \/ target[x].cursor = target[y].cursor /\ x <= y

PeerUnresolved(x) ==
    /\ reader.pc = "rest" /\ IsNextTarget(x)
    /\ target' = [target EXCEPT ![x].due = PeerRetry]
    /\ UNCHANGED <<stored, reader, governorVars>>

AskPage(x) ==
    /\ reader.pc = "rest" /\ IsNextTarget(x)
    /\ reader' = [pc |-> "asking", chat |-> x]
    /\ ReserveAction("reader", HistoryKey(x, target[x].cursor))
    /\ UNCHANGED <<target, stored>>

PageTold == call["reader"].pc = "told"
PageStatus == call["reader"].answer

\* Every result that is no page is waited out; only a halt has its own time.
DeferTarget ==
    /\ PageTold /\ PageStatus \notin {"page", "raised"}
    /\ target' = [target EXCEPT ![reader.chat].due =
        CASE PageStatus \in {"halted", "refused"} -> HaltRetry
          [] call["reader"].wait > 0 -> call["reader"].wait
          [] OTHER -> PeerRetry]
    /\ reader' = ReaderRests
    /\ Return("reader")
    /\ UNCHANGED stored

\* An exception ends the cycle; the target is as due as it was.
ReadRaises ==
    /\ PageTold /\ PageStatus = "raised"
    /\ reader' = ReaderRests
    /\ Return("reader")
    /\ UNCHANGED <<target, stored>>

\* Mutant: the page is not written before the cursor moves past it.
StoreNothing ==
    /\ PageTold /\ PageStatus = "page"
    /\ reader' = [reader EXCEPT !.pc = "record"]
    /\ Return("reader")
    /\ UNCHANGED <<target, stored>>

StorePage ==
    /\ PageTold /\ PageStatus = "page"
    /\ stored' = [stored EXCEPT ![reader.chat] = @ \cup {target[reader.chat].cursor}]
    /\ reader' = [reader EXCEPT !.pc = "record"]
    /\ Return("reader")
    /\ UNCHANGED target

RecordPage ==
    LET walked == target[reader.chat].cursor + 1
    IN  /\ reader.pc = "record"
        /\ target' = [target EXCEPT ![reader.chat] =
            [state |-> IF walked = Pages THEN "complete" ELSE "pending",
             cursor |-> walked, due |-> 0]]
        /\ reader' = ReaderRests
        /\ UNCHANGED <<stored, governorVars>>

BackfillStep ==
    \/ \E x \in Chats : PeerUnresolved(x) \/ AskPage(x)
    \/ DeferTarget \/ ReadRaises \/ StorePage \/ RecordPage

BackfillTypeOK ==
    /\ target \in [Chats -> [state : {"absent", "pending", "complete"}, cursor : 0..Pages, due : Nat]]
    /\ stored \in [Chats -> SUBSET (0..Pages - 1)]
    /\ reader \in [pc : {"rest", "asking", "record"}, chat : Chats \cup {0}]

\* What the cursor has walked past is stored: no stop, flood or refusal between
\* the page and its cursor leaves a hole that nobody asks for again (run_once).
NoHistoryGap == \A x \in Chats : 0..target[x].cursor - 1 \subseteq stored[x]
=============================================================================
