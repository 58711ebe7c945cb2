------------------------- MODULE MCMessagePipeline -------------------------
(* Instances of MessagePipeline for TLC. *)
EXTENDS MessagePipeline, TLC

CONSTANT Outer \* the watcher whose policy is external, where there is one

Ladder(level, degraded, kind) ==
    [dispatch |-> "pipeline", llmLevel |-> level, degraded |-> degraded, alert |-> kind]

\* Keywords that alert at once; the outcomes that matter to interleavings.
KeywordPolicy ==
    [w \in Watchers |-> [v \in Versions |-> Ladder(1, "reject", "immediate")]]

\* An external policy first with a subsystem behind it, then without one.
ExternalPolicy ==
    [w \in Watchers |-> [v \in Versions |->
        [Ladder(1, "reject", "immediate") EXCEPT !.dispatch =
            IF v = 1 THEN "housing" ELSE "orphan"]]]

\* One watcher with all three stages, tightened by its second version, beside
\* one with an external policy.
MixedPolicies ==
    [w \in Watchers |-> [v \in Versions |->
        IF w = Outer THEN ExternalPolicy[w][v]
        ELSE Ladder(3, IF v = 1 THEN "accept" ELSE "reject", "immediate")]]

Symmetry == Permutations(Messages) \cup Permutations(Watchers) \cup Permutations(Workers)
=============================================================================
