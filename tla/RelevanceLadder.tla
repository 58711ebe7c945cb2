-------------------------- MODULE RelevanceLadder --------------------------
(***************************************************************************)
(* How one watcher policy judges one message: the rule, embedding and LLM  *)
(* stages of pipeline/processor.py, with the degradation policy of         *)
(* pipeline/llm.py, as functions of what the stages answered.              *)
(***************************************************************************)
EXTENDS Integers

\* The fields of config/watchers.py that decide the outcome.
Policies ==
    [dispatch : {"pipeline", "housing", "orphan"},
     llmLevel : 1..3,
     degraded : {"reject", "accept"},
     alert : {"immediate", "digest"}]

\* What the stages answer for a message, were they all asked.  "crash" is an
\* exception none of the providers turned into a degraded decision.
Signals ==
    [rule : {"match", "miss", "crash"},
     embedding : {"pass", "below", "degraded"},
     llm : {"target", "other", "degraded", "crash"}]

\* A policy whose external subsystem is not the registered one has no judge.
HasJudge(p) == p.dispatch # "orphan"

OnLadder(p) == p.dispatch = "pipeline"

RulePassed(s) == s.rule = "match"

AsksEmbedding(p, s) == RulePassed(s) /\ p.llmLevel >= 2

EmbeddingLets(p, s) ==
    AsksEmbedding(p, s) =>
        \/ s.embedding = "pass"
        \/ s.embedding = "degraded" /\ p.degraded = "accept"

AsksModel(p, s) == RulePassed(s) /\ p.llmLevel >= 3 /\ EmbeddingLets(p, s)

ModelLets(p, s) ==
    AsksModel(p, s) =>
        \/ s.llm = "target"
        \/ s.llm = "degraded" /\ p.degraded = "accept"

Crashes(p, s) ==
    OnLadder(p) /\ (s.rule = "crash" \/ (AsksModel(p, s) /\ s.llm = "crash"))

Accepts(p, s) ==
    /\ OnLadder(p)
    /\ ~Crashes(p, s)
    /\ RulePassed(s)
    /\ EmbeddingLets(p, s)
    /\ ModelLets(p, s)

\* The columns of the terminal row: the stages that passed in good health, the
\* decision, and whether it raises an alert.  An external judge only records
\* that the message was handed over.
Judge(p, s) ==
    [status |-> IF Crashes(p, s) THEN "failed" ELSE "completed",
     passed |-> IF OnLadder(p)
                THEN {k \in {1} : RulePassed(s)}
                     \cup {k \in {2} : AsksEmbedding(p, s) /\ s.embedding = "pass"}
                     \cup {k \in {3} : AsksModel(p, s) /\ s.llm = "target"}
                ELSE {1},
     accepted |-> Accepts(p, s),
     alert |-> Accepts(p, s) /\ p.alert = "immediate"]

\* What recovery and the workers record without asking any stage.
Refusal == [status |-> "failed", passed |-> {}, accepted |-> FALSE, alert |-> FALSE]

\* No row yet, or none that is terminal.
NoOutcome == [status |-> "none", passed |-> {}, accepted |-> FALSE, alert |-> FALSE]
Unjudged == [status |-> "pending", passed |-> {}, accepted |-> FALSE, alert |-> FALSE]

Outcomes ==
    [status : {"none", "pending", "completed", "failed"}, passed : SUBSET (1..3),
     accepted : BOOLEAN, alert : BOOLEAN]
=============================================================================
