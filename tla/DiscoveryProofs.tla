-------------------------- MODULE DiscoveryProofs --------------------------
(***************************************************************************)
(* Theorems about Discovery, for any chats, names, jobs, seeds and bounds  *)
(* that meet its assumption.                                               *)
(***************************************************************************)
EXTENDS Discovery, FiniteSetTheorems, TLAPS

(***************************************************************************)
(* The inductive invariant.                                                *)
(***************************************************************************)
OnRecord == {"prove", "attach", "linked"}
OnCandidate == {"decide", "enter", "join", "member", "settle"}
Evidenced(r) == Cardinality(cand[run.job][r].evidence)

\* What a step of a run relies on: its job, its record and its candidate are
\* stored, and nothing is listed while chats are registered, so no listed
\* candidate is merged away.
RunIsPlaced ==
    /\ run.pc # "idle" => run.job \in Jobs
    /\ run.pc \in OnRecord => run.rec \in Records /\ chat[run.rec] # Absent
    /\ run.pc \in OnCandidate => run.rec \in Records /\ cand[run.job][run.rec] # NoCand
    /\ run.pc \in {"idle", "find", "register", "prove", "attach", "list"} => run.todo = {}
    /\ \A c \in run.todo : run.job \in Jobs /\ cand[run.job][c.rec] # NoCand

\* What a step's values are at the steps that use them.
RunIsTyped ==
    /\ run.pc = "linked" => run.at.name \in Usernames
    /\ run.pc = "observe" => run.at.peer \in Peers
    /\ run.pc = "join" => run.entity \in Peers
    /\ run.pc \in {"member", "settle"} => run.outcome \in {"member", "requested", "failed"}
    /\ run.pc = "finish" => run.outcome \in Terminal
    /\ run.pc = "decide" => run.decision \in CandidateStates

EvidenceIsFinite == \A j \in Jobs : \A r \in Records : IsFiniteSet(cand[j][r].evidence)

\* The count a candidate was listed with is still covered by its evidence, and
\* a run that goes on to join has the evidence for it.
SnapshotHolds ==
    /\ \A c \in run.todo : c.sources <= Evidenced(c.rec)
    /\ run.pc = "decide" /\ run.decision \in JoinStates => Evidenced(run.rec) >= MinSources
    /\ run.pc \in {"enter", "join", "member", "settle"} => Evidenced(run.rec) >= MinSources

DiscoveryIInv ==
    /\ DiscoveryTypeOK
    /\ RunIsPlaced
    /\ RunIsTyped
    /\ EvidenceIsFinite
    /\ LocatorsAreOwned
    /\ SourcesAreCounted
    /\ SnapshotHolds
    /\ ApprovedIsSupported

-----------------------------------------------------------------------------
(***************************************************************************)
(* Rows.                                                                   *)
(***************************************************************************)
LEMMA AbsentRows ==
    /\ Absent \notin ChatRows
    /\ NoCand \notin CandRows
    /\ NoCand.evidence = {} /\ NoCand.sources = 0 /\ NoCand.state = "absent"
    /\ Idle \in RunRows
    /\ Idle.pc = "idle" /\ Idle.todo = {}
BY DEF Absent, ChatRows, NoCand, CandRows, CandidateStates, Idle, RunRows, Steps, Origins,
    Descriptions, NobodyFound, Outcomes

LEMMA RowsAreTyped ==
    ASSUME DiscoveryTypeOK
    PROVE  /\ \A r \in Records : chat[r] \in ChatRows \/ chat[r] = Absent
           /\ \A j \in Jobs : \A r \in Records : cand[j][r] \in CandRows \/ cand[j][r] = NoCand
           /\ \A x \in Locators : alias[x] \in Records \cup {NoRecord}
BY DEF DiscoveryTypeOK

LEMMA LocatorsOfDescription ==
    ASSUME NEW d \in Descriptions
    PROVE  LocatorsOf(d) \subseteq Locators
BY DiscoveryConstants DEF LocatorsOf, Descriptions, Locators

\* _pick_survivor: one of the records the locators know, or a new one.
LEMMA SurvivorIsRecord ==
    ASSUME DiscoveryTypeOK, NEW d \in Descriptions, NEW s \in Survivors(Known(d))
    PROVE  /\ Known(d) \subseteq Records
           /\ s \in Records
           /\ Known(d) = {} => chat[s] = Absent
           /\ Known(d) # {} => s \in Known(d)
<1>1. Known(d) \subseteq Records
    BY LocatorsOfDescription, RowsAreTyped DEF Known
<1>2. CASE Known(d) = {}
    <2>1. Free # {} /\ s = CHOOSE r \in Free : TRUE
        BY <1>2 DEF Survivors
    <2>2. s \in Free
        BY <2>1
    <2>3. QED
        BY <1>1, <1>2, <2>2 DEF Free
<1>3. CASE Known(d) # {}
    BY <1>1, <1>3 DEF Survivors
<1>4. QED
    BY <1>2, <1>3

\* Records the locators know are stored.
LEMMA KnownIsStored ==
    ASSUME DiscoveryTypeOK, LocatorsAreOwned, NEW d \in Descriptions
    PROVE  \A r \in Known(d) : r \in Records /\ chat[r] # Absent
BY LocatorsOfDescription, RowsAreTyped DEF Known, LocatorsAreOwned

\* The row of the survivor.
LEMMA DescribedIsRow ==
    ASSUME DiscoveryTypeOK, NEW d \in Descriptions, NEW s \in Records
    PROVE  /\ Described(d, s) \in ChatRows
           /\ Described(d, s) # Absent
           /\ Described(d, s).peer \in {d.peer, chat[s].peer}
           /\ Described(d, s).name \in {d.name, chat[s].name}
<1>1. chat[s] \in ChatRows \/ chat[s] = Absent
    BY RowsAreTyped
<1>2. /\ chat[s].peer \in Peers \cup {NoPeer}
      /\ chat[s].name \in Usernames \cup {NoName}
      /\ chat[s].public \in BOOLEAN
      /\ chat[s] # Absent => chat[s].membership \in {"none", "member", "requested", "failed"}
    <2>1. CASE chat[s] \in ChatRows
        BY <2>1 DEF ChatRows
    <2>2. CASE chat[s] = Absent
        <3>1. chat[s].public = FALSE
            BY <2>2 DEF Absent
        <3>2. QED
            BY <2>2, <3>1 DEF Absent
    <2>3. QED
        BY <1>1, <2>1, <2>2
<1>3. /\ Described(d, s).peer \in {d.peer, chat[s].peer}
      /\ Described(d, s).name \in {d.name, chat[s].name}
    BY DEF Described, Coalesce
<1>4. Described(d, s) \in ChatRows
    BY <1>2 DEF Described, Coalesce, Descriptions, ChatRows
<1>5. QED
    BY <1>3, <1>4, AbsentRows

\* A merged candidate has both origins, counted.
LEMMA FoldedRow ==
    ASSUME NEW kept \in CandRows \cup {NoCand}, NEW lost \in CandRows \cup {NoCand},
           IsFiniteSet(kept.evidence), IsFiniteSet(lost.evidence),
           kept.sources = Cardinality(kept.evidence), lost.sources = Cardinality(lost.evidence),
           kept.state \in JoinStates => Cardinality(kept.evidence) >= MinSources,
           lost.state \in JoinStates => Cardinality(lost.evidence) >= MinSources
    PROVE  /\ Folded(kept, lost) \in CandRows \cup {NoCand}
           /\ IsFiniteSet(Folded(kept, lost).evidence)
           /\ Folded(kept, lost).sources = Cardinality(Folded(kept, lost).evidence)
           /\ Folded(kept, lost).state \in JoinStates =>
                Cardinality(Folded(kept, lost).evidence) >= MinSources
<1>1. CASE lost = NoCand
    BY <1>1 DEF Folded
<1>2. CASE lost # NoCand /\ kept = NoCand
    BY <1>2 DEF Folded
<1>3. CASE lost # NoCand /\ kept # NoCand
    <2> DEFINE both == kept.evidence \cup lost.evidence
               row == Folded(kept, lost)
    <2>1. kept \in CandRows /\ lost \in CandRows
        BY <1>3
    <2>2. IsFiniteSet(both)
        BY FS_Union
    <2>3. Cardinality(both) \in Nat /\ Cardinality(kept.evidence) \in Nat
        BY <2>2, FS_CardinalityType
    <2>4. Cardinality(kept.evidence) <= Cardinality(both)
        BY <2>2, FS_Subset
    <2>5. row = [kept EXCEPT !.evidence = both, !.sources = Cardinality(both)]
        BY <1>3 DEF Folded
    <2>6. row.evidence = both /\ row.sources = Cardinality(both) /\ row.state = kept.state
        BY <2>1, <2>5 DEF CandRows
    <2>7. row \in CandRows
        BY <2>1, <2>3, <2>5 DEF CandRows
    <2>8. QED
        BY <2>2, <2>3, <2>4, <2>6, <2>7, DiscoveryConstants
<1>4. QED
    BY <1>1, <1>2, <1>3

-----------------------------------------------------------------------------
(***************************************************************************)
(* The store's transactions.                                               *)
(***************************************************************************)
StoreOK ==
    /\ chat \in [Records -> ChatRows \cup {Absent}]
    /\ alias \in [Locators -> Records \cup {NoRecord}]
    /\ cand \in [Jobs -> [Records -> CandRows \cup {NoCand}]]

StoreInv ==
    /\ StoreOK
    /\ EvidenceIsFinite
    /\ LocatorsAreOwned
    /\ SourcesAreCounted
    /\ ApprovedIsSupported

\* resolve_chat leaves a stored record that owns the description's locators,
\* and keeps every other record that is not merged into it.
LEMMA ResolveKeeps ==
    ASSUME DiscoveryIInv, NEW d \in Descriptions, NEW s \in Survivors(Known(d)), ResolveChat(d, s)
    PROVE  /\ StoreInv'
           /\ s \in Records /\ chat'[s] # Absent
<1> DEFINE losers == Known(d) \ {s}
<1>0. DiscoveryTypeOK /\ LocatorsAreOwned
    BY DEF DiscoveryIInv
<1>1. /\ Known(d) \subseteq Records /\ s \in Records
      /\ s \notin losers /\ losers \subseteq Records
    BY <1>0, SurvivorIsRecord
<1>2. /\ chat' = [r \in Records |-> IF r \in losers THEN Absent
                                    ELSE IF r = s THEN Described(d, r) ELSE chat[r]]
      /\ alias' = AliasesAfter(d, s)
      /\ cand' = [j \in Jobs |-> [r \in Records |->
                    IF r \in losers THEN NoCand
                    ELSE IF r = s /\ losers # {}
                         THEN Folded(cand[j][r], cand[j][CHOOSE l \in losers : TRUE])
                    ELSE cand[j][r]]]
    BY DEF ResolveChat
<1>3. /\ Described(d, s) \in ChatRows /\ Described(d, s) # Absent
      /\ Described(d, s).peer \in {d.peer, chat[s].peer}
      /\ Described(d, s).name \in {d.name, chat[s].name}
    BY <1>0, <1>1, DescribedIsRow
<1>4. chat'[s] = Described(d, s) /\ \A r \in Records \ losers : r # s => chat'[r] = chat[r]
    BY <1>1, <1>2
<1>5. \A r \in losers : chat'[r] = Absent /\ \A j \in Jobs : cand'[j][r] = NoCand
    BY <1>1, <1>2
<1>6. /\ \A x \in Locators : x \in LocatorsOf(d) \/ alias[x] \in losers => alias'[x] = s
      /\ \A x \in Locators : x \notin LocatorsOf(d) /\ alias[x] \notin losers => alias'[x] = alias[x]
      /\ alias' \in [Locators -> Records \cup {NoRecord}]
    BY <1>0, <1>1, <1>2, RowsAreTyped DEF AliasesAfter
<1>7. \A x \in LocatorsOf(d) : x \in Locators /\ (alias[x] = NoRecord \/ alias[x] \in Known(d))
    BY LocatorsOfDescription DEF Known
<1>8. chat' \in [Records -> ChatRows \cup {Absent}]
    BY <1>0, <1>1, <1>2, <1>3, RowsAreTyped
<1>9. ASSUME NEW j \in Jobs, NEW r \in Records
      PROVE  /\ cand'[j][r] \in CandRows \cup {NoCand}
             /\ IsFiniteSet(cand'[j][r].evidence)
             /\ cand'[j][r].sources = Cardinality(cand'[j][r].evidence)
             /\ cand'[j][r].state \in JoinStates => Cardinality(cand'[j][r].evidence) >= MinSources
    <2> HIDE DEF losers
    <2>1. CASE r \in losers
        BY <2>1, <1>5, AbsentRows, FS_EmptySet DEF JoinStates
    <2>2. CASE r \notin losers /\ ~(r = s /\ losers # {})
        <3>1. cand'[j][r] = cand[j][r]
            BY <2>2, <1>2 DEF losers
        <3>2. QED
            BY <3>1, <1>0, RowsAreTyped DEF DiscoveryIInv, EvidenceIsFinite, SourcesAreCounted,
                ApprovedIsSupported
    <2>3. CASE r \notin losers /\ r = s /\ losers # {}
        <3>1. PICK l \in losers : l = CHOOSE k \in losers : TRUE
            BY <2>3
        <3>2. cand'[j][r] = Folded(cand[j][r], cand[j][l])
            BY <2>3, <3>1, <1>2 DEF losers
        <3>3. ASSUME NEW q \in Records
              PROVE  /\ cand[j][q] \in CandRows \cup {NoCand}
                     /\ IsFiniteSet(cand[j][q].evidence)
                     /\ cand[j][q].sources = Cardinality(cand[j][q].evidence)
                     /\ cand[j][q].state \in JoinStates =>
                          Cardinality(cand[j][q].evidence) >= MinSources
            BY <1>0, RowsAreTyped DEF DiscoveryIInv, EvidenceIsFinite, SourcesAreCounted,
                ApprovedIsSupported
        <3>4. l \in Records
            BY <1>1
        <3>5. QED
            BY <3>2, <3>3, <3>4, FoldedRow
    <2>4. QED
        BY <2>1, <2>2, <2>3
<1>10. LocatorsAreOwned'
    <2> HIDE DEF losers
    <2>1. ASSUME NEW x \in Locators, alias'[x] # NoRecord
          PROVE  chat'[alias'[x]] # Absent
        <3>1. CASE alias'[x] = s
            BY <3>1, <1>3, <1>4
        <3>2. CASE alias'[x] # s
            <4>1. alias'[x] = alias[x] /\ alias[x] \notin losers
                BY <3>2, <1>6
            <4>2. alias[x] \in Records /\ chat[alias[x]] # Absent
                BY <2>1, <4>1, <1>0, RowsAreTyped DEF LocatorsAreOwned
            <4>3. QED
                BY <3>2, <4>1, <4>2, <1>4
        <3>3. QED
            BY <3>1, <3>2
    <2>2. ASSUME NEW r \in Records, chat'[r] # Absent,
                 NEW x \in {chat'[r].peer, chat'[r].name} \ {NoPeer, NoName}
          PROVE  alias'[x] = r
        <3>1. r \notin losers
            BY <2>2, <1>5
        <3>2. CASE r = s
            <4>1. x \in LocatorsOf(d) \/ x \in {chat[s].peer, chat[s].name}
                BY <3>2, <2>2, <1>3, <1>4 DEF LocatorsOf
            <4>2. CASE x \in LocatorsOf(d)
                BY <3>2, <4>2, <1>6, <1>7
            <4>3. CASE x \in {chat[s].peer, chat[s].name}
                <5>1. chat[s] # Absent
                    BY <4>3, <2>2 DEF Absent
                <5>2. alias[x] = s
                    BY <4>3, <5>1, <2>2, <1>0, <1>1 DEF LocatorsAreOwned
                <5>3. x \in Locators
                    BY <4>3, <5>1, <2>2, <1>0, <1>1, RowsAreTyped DEF ChatRows, Locators
                <5>4. QED
                    BY <3>2, <5>2, <5>3, <1>6
            <4>4. QED
                BY <4>1, <4>2, <4>3
        <3>3. CASE r # s
            <4>1. chat[r] = chat'[r] /\ chat[r] # Absent
                BY <3>1, <3>3, <2>2, <1>4
            <4>2. alias[x] = r
                BY <4>1, <2>2, <1>0 DEF LocatorsAreOwned
            <4>3. x \in Locators
                BY <4>1, <2>2, <1>0, RowsAreTyped DEF ChatRows, Locators
            <4>4. x \notin LocatorsOf(d)
                BY <4>2, <3>1, <3>3, <1>7, DiscoveryConstants DEF losers
            <4>5. QED
                BY <4>2, <4>3, <4>4, <3>1, <1>6
        <3>4. QED
            BY <3>2, <3>3
    <2>3. ASSUME NEW j \in Jobs, NEW r \in Records, cand'[j][r] # NoCand
          PROVE  chat'[r] # Absent
        <3>1. r \notin losers
            BY <2>3, <1>5
        <3>2. CASE r = s
            BY <3>2, <1>3, <1>4
        <3>3. CASE r # s
            <4>1. cand'[j][r] = cand[j][r] /\ chat'[r] = chat[r]
                BY <3>1, <3>3, <1>2, <1>4 DEF losers
            <4>2. QED
                BY <2>3, <4>1, <1>0 DEF LocatorsAreOwned
        <3>4. QED
            BY <3>2, <3>3
    <2>4. QED
        BY <2>1, <2>2, <2>3 DEF LocatorsAreOwned
<1>11. cand' \in [Jobs -> [Records -> CandRows \cup {NoCand}]]
    <2> DEFINE row(j, r) ==
                IF r \in losers THEN NoCand
                ELSE IF r = s /\ losers # {}
                     THEN Folded(cand[j][r], cand[j][CHOOSE l \in losers : TRUE])
                ELSE cand[j][r]
    <2>1. cand' = [j \in Jobs |-> [r \in Records |-> row(j, r)]]
        BY <1>2
    <2>2. \A j \in Jobs : \A r \in Records : row(j, r) = cand'[j][r]
        BY <2>1
    <2>3. \A j \in Jobs : \A r \in Records : row(j, r) \in CandRows \cup {NoCand}
        BY <1>9, <2>2
    <2> HIDE DEF row
    <2>4. QED
        BY <2>1, <2>3
<1>12. EvidenceIsFinite' /\ SourcesAreCounted' /\ ApprovedIsSupported'
    BY <1>9 DEF EvidenceIsFinite, SourcesAreCounted, ApprovedIsSupported
<1>13. QED
    BY <1>1, <1>3, <1>4, <1>6, <1>8, <1>10, <1>11, <1>12 DEF StoreInv, StoreOK

\* A record is merged away only by a description of two locators.
LEMMA LinkMergesNothing ==
    ASSUME DiscoveryIInv, NEW u \in Usernames, NEW d, d = [peer |-> NoPeer, name |-> u],
           NEW s \in Survivors(Known(d)), ResolveChat(d, s)
    PROVE  /\ cand' = cand
           /\ \A r \in Records : chat[r] # Absent => chat'[r] # Absent
<1>1. d \in Descriptions /\ LocatorsOf(d) \subseteq {u}
    BY DEF Descriptions, LocatorsOf
<1>2. DiscoveryTypeOK
    BY DEF DiscoveryIInv
<1>3. \A r, q \in Known(d) : r = q
    BY <1>1 DEF Known
<1>4. s \in Records /\ Known(d) \ {s} = {}
    BY <1>1, <1>2, <1>3, SurvivorIsRecord
<1>5. cand' = [j \in Jobs |-> [r \in Records |-> cand[j][r]]]
    BY <1>4 DEF ResolveChat
<1>6. chat' = [r \in Records |-> IF r = s THEN Described(d, r) ELSE chat[r]]
    BY <1>4 DEF ResolveChat
<1>7. Described(d, s) # Absent
    BY <1>1, <1>2, <1>4, DescribedIsRow
<1>8. cand = [j \in Jobs |-> [r \in Records |-> cand[j][r]]]
    BY <1>2 DEF DiscoveryTypeOK
<1>9. QED
    BY <1>5, <1>6, <1>7, <1>8

\* A transaction on one candidate of a stored record.
LEMMA CandidateKeeps ==
    ASSUME DiscoveryIInv, NEW j \in Jobs, NEW r \in Records, chat[r] # Absent,
           NEW row \in CandRows, SetCandidate(j, r, row), UNCHANGED <<chat, alias>>,
           IsFiniteSet(row.evidence), row.sources = Cardinality(row.evidence),
           row.state \in JoinStates => Cardinality(row.evidence) >= MinSources
    PROVE  StoreInv' /\ cand'[j][r] = row /\ \A q \in Records : q # r => cand'[j][q] = cand[j][q]
<1>1. cand \in [Jobs -> [Records -> CandRows \cup {NoCand}]]
    BY DEF DiscoveryIInv, DiscoveryTypeOK
<1>2. cand' = [cand EXCEPT ![j][r] = row]
    BY DEF SetCandidate
<1>3. /\ cand'[j][r] = row
      /\ \A k \in Jobs : \A q \in Records : k # j \/ q # r => cand'[k][q] = cand[k][q]
    BY <1>1, <1>2
<1>4. cand' \in [Jobs -> [Records -> CandRows \cup {NoCand}]]
    BY <1>1, <1>2
<1>5. EvidenceIsFinite' /\ SourcesAreCounted' /\ ApprovedIsSupported'
    BY <1>3 DEF DiscoveryIInv, EvidenceIsFinite, SourcesAreCounted, ApprovedIsSupported
<1>6. LocatorsAreOwned'
    BY <1>3 DEF DiscoveryIInv, LocatorsAreOwned
<1>7. QED
    BY <1>3, <1>4, <1>5, <1>6 DEF DiscoveryIInv, DiscoveryTypeOK, StoreInv, StoreOK

\* add_candidate: the row of a chat found again has one origin more, counted.
LEMMA WithEvidenceRow ==
    ASSUME NEW c \in CandRows \cup {NoCand}, NEW w \in Nat, NEW o \in Origins,
           IsFiniteSet(c.evidence), c.state \in JoinStates => Cardinality(c.evidence) >= MinSources
    PROVE  LET row == WithEvidence(c, w, o) IN
           /\ row \in CandRows
           /\ IsFiniteSet(row.evidence)
           /\ row.sources = Cardinality(row.evidence)
           /\ Cardinality(row.evidence) >= Cardinality(c.evidence)
           /\ row.state \in JoinStates => Cardinality(row.evidence) >= MinSources
<1> DEFINE row == WithEvidence(c, w, o)
           known == c.evidence \cup {o}
<1>1. IsFiniteSet(known)
    BY FS_AddElement
<1>2. Cardinality(known) \in Nat /\ Cardinality(c.evidence) \in Nat
    BY <1>1, FS_CardinalityType
<1>3. Cardinality(c.evidence) <= Cardinality(known)
    BY <1>1, FS_Subset
<1>4. row = [state |-> IF c = NoCand THEN "discovered" ELSE c.state,
             wave |-> IF c = NoCand THEN w ELSE c.wave,
             evidence |-> known, sources |-> Cardinality(known)]
    BY DEF WithEvidence
<1>5. known \in SUBSET Origins
    BY AbsentRows DEF CandRows
<1>6. /\ (IF c = NoCand THEN "discovered" ELSE c.state) \in CandidateStates
      /\ (IF c = NoCand THEN w ELSE c.wave) \in Nat
    BY DEF CandRows, CandidateStates
<1>7. row \in CandRows
    <2> HIDE DEF known
    <2>1. QED
        BY <1>2, <1>4, <1>5, <1>6 DEF CandRows
<1>8. row.evidence = known /\ row.sources = Cardinality(known)
    BY <1>4
<1>9. row.state \in JoinStates => c.state \in JoinStates
    BY <1>4 DEF JoinStates
<1>10. QED
    BY <1>1, <1>2, <1>3, <1>7, <1>8, <1>9, DiscoveryConstants

\* A candidate that changes state keeps its evidence.
LEMMA RestatedRow ==
    ASSUME NEW c \in CandRows, NEW to \in CandidateStates
    PROVE  /\ [c EXCEPT !.state = to] \in CandRows
           /\ [c EXCEPT !.state = to].evidence = c.evidence
           /\ [c EXCEPT !.state = to].sources = c.sources
           /\ [c EXCEPT !.state = to].state = to
BY DEF CandRows

LEMMA MovedRow ==
    ASSUME NEW c \in CandRows, NEW to \in CandidateStates
    PROVE  /\ Moved(c, to) \in CandRows
           /\ Moved(c, to).evidence = c.evidence
           /\ Moved(c, to).sources = c.sources
           /\ Moved(c, to).state \in {c.state, to}
BY RestatedRow DEF Moved

\* transition_candidate on the candidate a run is at.
LEMMA TransitionKeeps ==
    ASSUME DiscoveryIInv, run.pc \in OnCandidate, NEW to \in CandidateStates,
           Transition(run.job, run.rec, to), UNCHANGED <<chat, alias>>,
           to \in JoinStates => Evidenced(run.rec) >= MinSources
    PROVE  /\ StoreInv'
           /\ \A r \in Records : cand[run.job][r] # NoCand =>
                cand'[run.job][r] # NoCand /\ cand'[run.job][r].evidence = cand[run.job][r].evidence
<1> DEFINE j == run.job
           r == run.rec
           c == cand[j][r]
<1>1. j \in Jobs /\ r \in Records /\ c # NoCand
    BY DEF DiscoveryIInv, RunIsPlaced, OnCandidate
<1>2. c \in CandRows /\ chat[r] # Absent
    BY <1>1, RowsAreTyped DEF DiscoveryIInv, LocatorsAreOwned
<1>3. /\ IsFiniteSet(c.evidence) /\ c.sources = Cardinality(c.evidence)
      /\ c.state \in JoinStates => Cardinality(c.evidence) >= MinSources
    BY <1>1 DEF DiscoveryIInv, EvidenceIsFinite, SourcesAreCounted, ApprovedIsSupported
<1>4. /\ Moved(c, to) \in CandRows
      /\ Moved(c, to).evidence = c.evidence
      /\ Moved(c, to).sources = c.sources
      /\ Moved(c, to).state \in {c.state, to}
    BY <1>2, MovedRow
<1>5. SetCandidate(j, r, Moved(c, to))
    BY DEF Transition
<1>6. to \in JoinStates => Cardinality(c.evidence) >= MinSources
    BY DEF Evidenced
<1>7. PICK row : row = Moved(c, to)
    OBVIOUS
<1> HIDE DEF c
<1>8. StoreInv' /\ cand'[j][r] = row /\ \A q \in Records : q # r => cand'[j][q] = cand[j][q]
    BY <1>1, <1>2, <1>3, <1>4, <1>5, <1>6, <1>7, CandidateKeeps
<1>9. QED
    BY <1>4, <1>7, <1>8, AbsentRows DEF c

\* add_candidate on the record a run is at.
LEMMA AddKeeps ==
    ASSUME DiscoveryIInv, run.pc \in OnRecord, NEW w \in Nat, NEW o \in Origins,
           AddCandidate(run.job, run.rec, w, o), UNCHANGED <<chat, alias>>
    PROVE  /\ StoreInv'
           /\ \A r \in Records : cand[run.job][r] # NoCand =>
                /\ cand'[run.job][r] # NoCand
                /\ Cardinality(cand'[run.job][r].evidence) >= Evidenced(r)
<1> DEFINE j == run.job
           r == run.rec
           c == cand[j][r]
<1>1. j \in Jobs /\ r \in Records /\ chat[r] # Absent
    BY DEF DiscoveryIInv, RunIsPlaced, OnRecord
<1>2. c \in CandRows \cup {NoCand}
    BY <1>1, RowsAreTyped DEF DiscoveryIInv
<1>3. /\ IsFiniteSet(c.evidence)
      /\ c.state \in JoinStates => Cardinality(c.evidence) >= MinSources
    BY <1>1 DEF DiscoveryIInv, EvidenceIsFinite, ApprovedIsSupported
<1>4. PICK row : row = WithEvidence(c, w, o)
    OBVIOUS
<1> HIDE DEF c
<1>5. /\ row \in CandRows
      /\ IsFiniteSet(row.evidence)
      /\ row.sources = Cardinality(row.evidence)
      /\ Cardinality(row.evidence) >= Cardinality(c.evidence)
      /\ row.state \in JoinStates => Cardinality(row.evidence) >= MinSources
    BY <1>2, <1>3, <1>4, WithEvidenceRow
<1>6. SetCandidate(j, r, row)
    BY <1>4 DEF AddCandidate, c
<1>7. StoreInv' /\ cand'[j][r] = row /\ \A q \in Records : q # r => cand'[j][q] = cand[j][q]
    BY <1>1, <1>5, <1>6, CandidateKeeps
<1>8. \A q \in Records : Cardinality(cand[j][q].evidence) \in Nat
    BY <1>1, FS_CardinalityType DEF DiscoveryIInv, EvidenceIsFinite
<1>9. QED
    BY <1>5, <1>7, <1>8, AbsentRows DEF c, Evidenced

-----------------------------------------------------------------------------
(***************************************************************************)
(* The runner: what each step makes of its own state.                      *)
(***************************************************************************)
LEMMA RunFields ==
    ASSUME run \in RunRows
    PROVE  /\ run.job \in Jobs \cup {NoJob} /\ run.wave \in Nat /\ run.joins \in Nat
           /\ run.seeds \in SUBSET Usernames /\ run.terms \in SUBSET Terms
           /\ run.found \in SUBSET Descriptions /\ run.at \in Descriptions
           /\ run.todo \in SUBSET [rec : Records, sources : Nat]
           /\ run.links \in SUBSET Usernames
           /\ run.rec \in Records \cup {NoRecord} /\ run.origin \in Origins
BY DEF RunRows

LEMMA DescriptionTyped ==
    ASSUME DiscoveryTypeOK, NEW p \in Peers
    PROVE  Description(p) \in Descriptions
BY DEF DiscoveryTypeOK, Description, Descriptions

\* The states a run moves through whatever the step.
LEMMA CommonRuns ==
    ASSUME run \in RunRows
    PROVE  /\ NextCandidate \in RunRows /\ NextCandidate.pc = "score"
           /\ NextCandidate.job = run.job /\ NextCandidate.todo = run.todo
           /\ \A o \in Terminal : o \in Outcomes =>
                /\ Stopped(o) \in RunRows /\ Stopped(o).pc = "finish"
                /\ Stopped(o).job = run.job /\ Stopped(o).todo = run.todo
                /\ Stopped(o).outcome = o
<1>1. NextCandidate \in RunRows
    BY DEF NextCandidate, RunRows, Steps, Outcomes
<1>2. /\ NextCandidate.pc = "score"
      /\ NextCandidate.job = run.job /\ NextCandidate.todo = run.todo
    BY DEF NextCandidate, RunRows
<1>3. ASSUME NEW o \in Outcomes
      PROVE  /\ Stopped(o) \in RunRows /\ Stopped(o).pc = "finish"
             /\ Stopped(o).job = run.job /\ Stopped(o).todo = run.todo
             /\ Stopped(o).outcome = o
    BY DEF Stopped, RunRows, Steps
<1>4. QED
    BY <1>1, <1>2, <1>3

LEMMA UpdatedRuns ==
    ASSUME NEW r \in RunRows
    PROVE  /\ \A p \in Peers \cup {NoPeer} :
                [r EXCEPT !.pc = "join", !.entity = p, !.joins = @ + 1] \in RunRows
           /\ \A links \in SUBSET Usernames : \A d \in Descriptions :
                [r EXCEPT !.pc = "links", !.links = links, !.at = d] \in RunRows
           /\ [r EXCEPT !.pc = "list", !.wave = @ + 1] \in RunRows
<1>1. ASSUME NEW p \in Peers \cup {NoPeer}
      PROVE  [r EXCEPT !.pc = "join", !.entity = p, !.joins = @ + 1] \in RunRows
    <2>1. PICK n \in Nat : n = r.joins + 1
        BY DEF RunRows
    <2>2. [r EXCEPT !.pc = "join", !.entity = p, !.joins = n] \in RunRows
        BY DEF RunRows, Steps
    <2>3. QED
        BY <2>1, <2>2
<1>2. ASSUME NEW links \in SUBSET Usernames, NEW d \in Descriptions
      PROVE  [r EXCEPT !.pc = "links", !.links = links, !.at = d] \in RunRows
    BY DEF RunRows, Steps
<1>3. [r EXCEPT !.pc = "list", !.wave = @ + 1] \in RunRows
    <2>1. PICK n \in Nat : n = r.wave + 1
        BY DEF RunRows
    <2>2. [r EXCEPT !.pc = "list", !.wave = n] \in RunRows
        BY DEF RunRows, Steps
    <2>3. QED
        BY <2>1, <2>2
<1>4. QED
    BY <1>1, <1>2, <1>3

LEMMA RegisteringRuns ==
    ASSUME DiscoveryIInv,
           \/ \E u \in Usernames : ResolveSeed(u)
           \/ \E t \in Terms : Search(t)
           \/ \E d \in run.found : Register(d)
           \/ Prove \/ Attach \/ Registered \/ List
    PROVE  run' \in RunRows
<1>0. DiscoveryTypeOK /\ run \in RunRows /\ RunIsPlaced
    BY DEF DiscoveryIInv, DiscoveryTypeOK
<1> USE <1>0, RunFields
<1>1. ASSUME NEW u \in Usernames, ResolveSeed(u) PROVE run' \in RunRows
    <2>1. PICK found \in SUBSET Holders(u) :
            run' = [run EXCEPT !.seeds = @ \ {u}, !.origin = <<"owner", u>>,
                               !.found = {Description(p) : p \in found}, !.pc = "register"]
        BY <1>1 DEF ResolveSeed
    <2>2. {Description(p) : p \in found} \in SUBSET Descriptions
        BY DescriptionTyped DEF Holders
    <2>3. <<"owner", u>> \in Origins
        BY DEF Origins
    <2>4. QED
        BY <2>1, <2>2, <2>3 DEF RunRows, Steps
<1>2. ASSUME NEW t \in Terms, Search(t) PROVE run' \in RunRows
    <2>1. CASE run' = Stopped("completed_partial")
        BY <2>1, CommonRuns DEF Terminal, Outcomes
    <2>2. CASE \E found \in SUBSET Peers :
            run' = [run EXCEPT !.terms = @ \ {t}, !.origin = <<"term", t>>,
                               !.found = {Description(p) : p \in found}, !.pc = "register"]
        <3>1. PICK found \in SUBSET Peers :
            run' = [run EXCEPT !.terms = @ \ {t}, !.origin = <<"term", t>>,
                               !.found = {Description(p) : p \in found}, !.pc = "register"]
            BY <2>2
        <3>2. {Description(p) : p \in found} \in SUBSET Descriptions
            BY DescriptionTyped
        <3>3. <<"term", t>> \in Origins
            BY DEF Origins
        <3>4. QED
            BY <3>1, <3>2, <3>3 DEF RunRows, Steps
    <2>3. QED
        BY <1>2, <2>1, <2>2 DEF Search
<1>3. ASSUME NEW d \in run.found, Register(d) PROVE run' \in RunRows
    <2>1. CASE run' = [run EXCEPT !.found = @ \ {d}]
        BY <2>1 DEF RunRows
    <2>2. ASSUME NEW s \in Survivors(Known(d)),
                 run' = [run EXCEPT !.found = @ \ {d}, !.at = d, !.rec = s, !.pc = "prove"]
          PROVE  run' \in RunRows
        <3>1. s \in Records /\ d \in Descriptions
            BY SurvivorIsRecord
        <3>2. QED
            BY <2>2, <3>1 DEF RunRows, Steps
    <2>3. QED
        BY <1>3, <2>1, <2>2 DEF Register
<1>4. CASE Prove
    BY <1>4 DEF Prove, RunRows, Steps
<1>5. CASE Attach
    BY <1>5 DEF Attach, RunRows, Steps, NobodyFound, Descriptions
<1>6. CASE Registered
    BY <1>6 DEF Registered, RunRows, Steps, Origins
<1>7. CASE List
    <2> DEFINE todo == {[rec |-> r, sources |-> cand[run.job][r].sources] :
                            r \in Undecided(run.job)}
    <2>1. run' = [run EXCEPT !.pc = "score", !.todo = todo] /\ run.job \in Jobs
        BY <1>7 DEF List, RunIsPlaced
    <2>2. todo \in SUBSET [rec : Records, sources : Nat]
        BY <2>1, RowsAreTyped DEF Undecided, CandRows, NoCand
    <2> HIDE DEF todo
    <2>3. QED
        BY <2>1, <2>2 DEF RunRows, Steps
<1>8. QED
    BY <1>1, <1>2, <1>3, <1>4, <1>5, <1>6, <1>7

LEMMA WaveRuns ==
    ASSUME DiscoveryIInv,
           \/ \E u \in Usernames : Link(u)
           \/ \E c \in run.todo : Score(c)
           \/ \E outcome \in {"member", "requested", "failed"} : JoinChannel(outcome)
           \/ Decide \/ Enter \/ Replayed \/ Refused \/ SetMembership \/ Settle \/ Observe
           \/ Linked \/ LinksQueued \/ EndWave \/ Finish
    PROVE  run' \in RunRows
<1>0. DiscoveryTypeOK /\ run \in RunRows /\ RunIsPlaced
    BY DEF DiscoveryIInv, DiscoveryTypeOK
<1> USE <1>0, RunFields
<1>1. ASSUME NEW u \in Usernames, Link(u) PROVE run' \in RunRows
    <2> DEFINE d == [peer |-> NoPeer, name |-> u]
    <2>1. PICK s \in Survivors(Known(d)) :
            run' = [run EXCEPT !.pc = "linked", !.links = @ \ {u}, !.at = d, !.rec = s]
        BY <1>1 DEF Link
    <2>2. d \in Descriptions
        BY DEF Descriptions
    <2> HIDE DEF d
    <2>3. s \in Records
        BY <2>2, SurvivorIsRecord
    <2>4. QED
        BY <2>1, <2>2, <2>3 DEF RunRows, Steps
<1>2. ASSUME NEW c \in run.todo, Score(c) PROVE run' \in RunRows
    <2>1. PICK decision \in Decisions(chat[c.rec].public, c.sources, cand[run.job][c.rec].wave) :
            run' = [run EXCEPT !.pc = "decide", !.todo = @ \ {c}, !.rec = c.rec,
                               !.decision = decision]
        BY <1>2 DEF Score
    <2>2. decision \in CandidateStates
        BY DEF Decisions, CandidateStates
    <2>3. c.rec \in Records
        OBVIOUS
    <2>4. QED
        BY <2>1, <2>2, <2>3 DEF RunRows, Steps
<1>3. ASSUME NEW outcome \in {"member", "requested", "failed"}, JoinChannel(outcome)
      PROVE  run' \in RunRows
    BY <1>3 DEF JoinChannel, RunRows, Steps, Outcomes
<1>4. CASE Decide
    BY <1>4, CommonRuns DEF Decide, Terminal, Outcomes, RunRows, Steps
<1>5. CASE Enter
    <2>1. CASE run' = NextCandidate
        BY <2>1, CommonRuns
    <2>2. ASSUME NEW p \in Holders(Reference) \cup ({chat[run.rec].peer} \ {NoPeer}),
                 run' = [run EXCEPT !.pc = "join", !.entity = p, !.joins = @ + 1]
          PROVE  run' \in RunRows
        <3>1. run.rec \in Records
            BY <1>5 DEF Enter, RunIsPlaced, OnCandidate
        <3>2. chat[run.rec].peer \in Peers \cup {NoPeer}
            BY <3>1, RowsAreTyped DEF ChatRows, Absent
        <3>3. p \in Peers \cup {NoPeer}
            BY <2>2, <3>2 DEF Holders
        <3>4. QED
            BY <2>2, <3>3, UpdatedRuns
    <2>3. QED
        BY <1>5, <2>1, <2>2 DEF Enter
<1>6. CASE Replayed \/ Refused \/ LinksQueued
    BY <1>6, CommonRuns DEF Replayed, Refused, LinksQueued, Terminal, Outcomes
<1>7. CASE SetMembership
    BY <1>7 DEF SetMembership, RunRows, Steps
<1>8. CASE Settle
    <2>1. run.rec \in Records
        BY <1>8 DEF Settle, RunIsPlaced, OnCandidate
    <2>2. [peer |-> chat[run.rec].peer, name |-> NoName] \in Descriptions
        BY <2>1, RowsAreTyped DEF ChatRows, Absent, Descriptions
    <2>3. [run EXCEPT !.pc = "observe", !.at = [peer |-> chat[run.rec].peer, name |-> NoName]]
            \in RunRows
        BY <2>2 DEF RunRows, Steps
    <2>4. QED
        BY <1>8, <2>3, CommonRuns DEF Settle
<1>9. CASE Observe
    <2>1. PICK links \in IF LastWave THEN {{}} ELSE SUBSET Usernames :
            run' = [NextCandidate EXCEPT !.pc = "links", !.links = links, !.at = NobodyFound]
        BY <1>9 DEF Observe
    <2>2. links \in SUBSET Usernames
        <3>1. CASE LastWave
            BY <2>1, <3>1
        <3>2. CASE ~LastWave
            BY <2>1, <3>2
        <3>3. QED
            BY <3>1, <3>2
    <2>3. PICK n \in RunRows : n = NextCandidate
        BY CommonRuns
    <2>4. run' = [n EXCEPT !.pc = "links", !.links = links, !.at = NobodyFound]
        BY <2>1, <2>3
    <2>5. NobodyFound \in Descriptions
        BY DEF NobodyFound, Descriptions
    <2>6. QED
        BY <2>2, <2>3, <2>4, <2>5, UpdatedRuns
<1>10. CASE Linked
    BY <1>10 DEF Linked, RunRows, Steps, NobodyFound, Descriptions
<1>11. CASE EndWave
    BY <1>11, CommonRuns, UpdatedRuns DEF EndWave, Terminal, Outcomes
<1>12. CASE Finish
    BY <1>12, AbsentRows DEF Finish
<1>13. QED
    BY <1>1, <1>2, <1>3, <1>4, <1>5, <1>6, <1>7, <1>8, <1>9, <1>10, <1>11, <1>12

-----------------------------------------------------------------------------
(***************************************************************************)
(* Every step keeps the store's invariants.                                *)
(***************************************************************************)
LEMMA QuietKeeps ==
    ASSUME DiscoveryIInv, UNCHANGED <<chat, alias, cand>>
    PROVE  StoreInv'
BY DEF DiscoveryIInv, DiscoveryTypeOK, StoreInv, StoreOK, EvidenceIsFinite, LocatorsAreOwned,
    SourcesAreCounted, ApprovedIsSupported

\* A record that only changes its proof or its membership.
LEMMA RecordKeeps ==
    ASSUME DiscoveryIInv, NEW r \in Records, chat[r] # Absent, NEW row \in ChatRows,
           row.peer = chat[r].peer, row.name = chat[r].name,
           chat' = [chat EXCEPT ![r] = row], UNCHANGED <<alias, cand>>
    PROVE  StoreInv' /\ \A q \in Records : chat[q] # Absent => chat'[q] # Absent
<1>1. chat \in [Records -> ChatRows \cup {Absent}]
    BY DEF DiscoveryIInv, DiscoveryTypeOK
<1>2. /\ chat'[r] = row /\ \A q \in Records : q # r => chat'[q] = chat[q]
      /\ chat' \in [Records -> ChatRows \cup {Absent}]
    BY <1>1
<1>3. row # Absent
    BY AbsentRows
<1>4. LocatorsAreOwned'
    <2>1. \A x \in Locators : alias[x] # NoRecord => chat'[alias[x]] # Absent
        BY <1>2, <1>3, RowsAreTyped DEF DiscoveryIInv, LocatorsAreOwned
    <2>2. \A q \in Records : chat'[q] # Absent =>
            \A x \in {chat'[q].peer, chat'[q].name} \ {NoPeer, NoName} : alias[x] = q
        BY <1>2, <1>3 DEF DiscoveryIInv, LocatorsAreOwned
    <2>3. \A j \in Jobs : \A q \in Records : cand[j][q] # NoCand => chat'[q] # Absent
        BY <1>2, <1>3 DEF DiscoveryIInv, LocatorsAreOwned
    <2>4. QED
        BY <2>1, <2>2, <2>3 DEF LocatorsAreOwned
<1>5. EvidenceIsFinite' /\ SourcesAreCounted' /\ ApprovedIsSupported'
    BY DEF DiscoveryIInv, EvidenceIsFinite, SourcesAreCounted, ApprovedIsSupported
<1>6. QED
    BY <1>2, <1>3, <1>4, <1>5 DEF DiscoveryIInv, DiscoveryTypeOK, StoreInv, StoreOK

LEMMA ProveKeeps ==
    ASSUME DiscoveryIInv, Prove
    PROVE  StoreInv' /\ \A q \in Records : chat[q] # Absent => chat'[q] # Absent
<1>1. run.rec \in Records /\ chat[run.rec] # Absent
    BY DEF DiscoveryIInv, RunIsPlaced, OnRecord, Prove
<1>2. chat[run.rec] \in ChatRows
    BY <1>1, RowsAreTyped DEF DiscoveryIInv
<1>3. PICK row : row = [chat[run.rec] EXCEPT !.public = chat[run.rec].public \/ run.at.name # NoName]
    OBVIOUS
<1>4. (chat[run.rec].public \/ run.at.name # NoName) \in BOOLEAN
    OBVIOUS
<1>5. row \in ChatRows /\ row.peer = chat[run.rec].peer /\ row.name = chat[run.rec].name
    BY <1>2, <1>3, <1>4 DEF ChatRows
<1>6. chat' = [chat EXCEPT ![run.rec] = row] /\ UNCHANGED <<alias, cand>>
    BY <1>3 DEF Prove
<1>7. QED
    BY <1>1, <1>5, <1>6, RecordKeeps

LEMMA MembershipKeeps ==
    ASSUME DiscoveryIInv, SetMembership
    PROVE  StoreInv' /\ \A q \in Records : chat[q] # Absent => chat'[q] # Absent
<1>1. run.rec \in Records /\ chat[run.rec] # Absent
    BY DEF DiscoveryIInv, RunIsPlaced, LocatorsAreOwned, OnCandidate, SetMembership
<1>2. chat[run.rec] \in ChatRows /\ run.outcome \in {"member", "requested", "failed"}
    BY <1>1, RowsAreTyped DEF DiscoveryIInv, RunIsTyped, SetMembership
<1>3. PICK row : row = [chat[run.rec] EXCEPT !.membership = run.outcome]
    OBVIOUS
<1>4. row \in ChatRows /\ row.peer = chat[run.rec].peer /\ row.name = chat[run.rec].name
    BY <1>2, <1>3 DEF ChatRows
<1>5. chat' = [chat EXCEPT ![run.rec] = row] /\ UNCHANGED <<alias, cand>>
    BY <1>3 DEF SetMembership
<1>6. QED
    BY <1>1, <1>4, <1>5, RecordKeeps

\* The candidate that is scored was listed: its evidence still covers the count
\* it was listed with, so an approval has the evidence it asks for.
LEMMA ScoreKeeps ==
    ASSUME DiscoveryIInv, NEW c \in run.todo, Score(c)
    PROVE  /\ StoreInv'
           /\ c.rec \in Records /\ run.job \in Jobs
           /\ \A r \in Records : cand[run.job][r] # NoCand =>
                cand'[run.job][r] # NoCand /\ cand'[run.job][r].evidence = cand[run.job][r].evidence
           /\ cand'[run.job][c.rec] # NoCand
           /\ run'.decision \in JoinStates =>
                Cardinality(cand'[run.job][c.rec].evidence) >= MinSources
<1> DEFINE j == run.job
           k == cand[j][c.rec]
<1>0. run \in RunRows /\ c \in [rec : Records, sources : Nat]
    BY RunFields DEF DiscoveryIInv, DiscoveryTypeOK
<1>1. j \in Jobs /\ c.rec \in Records /\ c.sources \in Nat /\ k # NoCand
    BY <1>0 DEF DiscoveryIInv, RunIsPlaced
<1>2. k \in CandRows /\ chat[c.rec] # Absent
    BY <1>1, RowsAreTyped DEF DiscoveryIInv, LocatorsAreOwned
<1>3. /\ IsFiniteSet(k.evidence) /\ k.sources = Cardinality(k.evidence)
      /\ c.sources <= Cardinality(k.evidence)
    BY <1>1 DEF DiscoveryIInv, EvidenceIsFinite, SourcesAreCounted, SnapshotHolds, Evidenced
<1>4. PICK row : row = [k EXCEPT !.state = "scored"]
    OBVIOUS
<1>5. SetCandidate(j, c.rec, row) /\ UNCHANGED <<chat, alias>>
    BY <1>4 DEF Score
<1>6. PICK decision \in Decisions(chat[c.rec].public, c.sources, k.wave) :
            run' = [run EXCEPT !.pc = "decide", !.todo = @ \ {c}, !.rec = c.rec,
                               !.decision = decision]
    BY DEF Score
<1>7. run'.decision = decision
    BY <1>0, <1>6 DEF RunRows
<1>8. decision \in JoinStates => c.sources >= MinSources
    BY <1>6 DEF Decisions, JoinStates
<1>9. Cardinality(k.evidence) \in Nat
    BY <1>3, FS_CardinalityType
<1> HIDE DEF k
<1>10. /\ row \in CandRows /\ row.evidence = k.evidence /\ row.sources = k.sources
       /\ row.state = "scored"
    BY <1>2, <1>4, RestatedRow DEF CandidateStates
<1>11. StoreInv' /\ cand'[j][c.rec] = row /\ \A q \in Records : q # c.rec => cand'[j][q] = cand[j][q]
    BY <1>1, <1>2, <1>3, <1>5, <1>10, CandidateKeeps DEF JoinStates
<1>12. cand'[j][c.rec] # NoCand
    BY <1>10, <1>11, AbsentRows
<1>13. run'.decision \in JoinStates => Cardinality(cand'[j][c.rec].evidence) >= MinSources
    BY <1>1, <1>3, <1>7, <1>8, <1>9, <1>10, <1>11, DiscoveryConstants
<1>14. QED
    BY <1>1, <1>10, <1>11, <1>12, <1>13 DEF k

\* The three steps that only move the candidate to a state.
LEMMA MovesKeep ==
    ASSUME DiscoveryIInv,
           \/ Decide
           \/ Enter /\ Transition(run.job, run.rec, "join_failed")
           \/ Replayed \/ Settle
    PROVE  /\ StoreInv'
           /\ \A r \in Records : cand[run.job][r] # NoCand =>
                cand'[run.job][r] # NoCand /\ cand'[run.job][r].evidence = cand[run.job][r].evidence
<1>1. CASE Decide
    BY <1>1, TransitionKeeps DEF Decide, DiscoveryIInv, RunIsTyped, SnapshotHolds, OnCandidate
<1>2. CASE Enter /\ Transition(run.job, run.rec, "join_failed")
    BY <1>2, TransitionKeeps DEF Enter, DiscoveryIInv, SnapshotHolds, OnCandidate, CandidateStates
<1>3. CASE Replayed
    BY <1>3, TransitionKeeps DEF Replayed, DiscoveryIInv, SnapshotHolds, OnCandidate, CandidateStates
<1>4. CASE Settle
    <2>1. PICK to : to = (CASE run.outcome = "member" -> "joined"
                            [] run.outcome = "requested" -> "join_requested"
                            [] OTHER -> "join_failed")
        OBVIOUS
    <2>2. to \in CandidateStates
        BY <2>1 DEF CandidateStates
    <2>3. Transition(run.job, run.rec, to) /\ UNCHANGED <<chat, alias>> /\ run.pc = "settle"
        BY <1>4, <2>1 DEF Settle
    <2>4. QED
        BY <2>2, <2>3, TransitionKeeps DEF DiscoveryIInv, SnapshotHolds, OnCandidate
<1>5. QED
    BY <1>1, <1>2, <1>3, <1>4

LEMMA AddsKeep ==
    ASSUME DiscoveryIInv, Attach \/ Linked
    PROVE  /\ StoreInv'
           /\ \A r \in Records : cand[run.job][r] # NoCand =>
                /\ cand'[run.job][r] # NoCand
                /\ Cardinality(cand'[run.job][r].evidence) >= Evidenced(r)
<1>1. run \in RunRows
    BY DEF DiscoveryIInv, DiscoveryTypeOK
<1>2. CASE Attach
    <2>1. run.pc \in OnRecord /\ run.origin \in Origins
        BY <1>1, <1>2, RunFields DEF Attach, OnRecord
    <2>2. AddCandidate(run.job, run.rec, 0, run.origin) /\ UNCHANGED <<chat, alias>>
        BY <1>2 DEF Attach
    <2>3. QED
        BY <2>1, <2>2, AddKeeps
<1>3. CASE Linked
    <2>1. run.pc \in OnRecord /\ run.wave + 1 \in Nat
        BY <1>1, <1>3, RunFields DEF Linked, OnRecord
    <2>2. <<"link", run.at.name>> \in Origins
        BY <1>3 DEF Linked, DiscoveryIInv, RunIsTyped, Origins
    <2>3. AddCandidate(run.job, run.rec, run.wave + 1, <<"link", run.at.name>>)
            /\ UNCHANGED <<chat, alias>>
        BY <1>3 DEF Linked
    <2>4. QED
        BY <2>1, <2>2, <2>3, AddKeeps
<1>4. QED
    BY <1>2, <1>3

LEMMA StoreStep ==
    ASSUME DiscoveryIInv, [DiscoveryNext]_discoveryVars
    PROVE  StoreInv'
<1>0. run \in RunRows
    BY DEF DiscoveryIInv, DiscoveryTypeOK
<1>1. CASE UNCHANGED discoveryVars
    BY <1>1, QuietKeeps DEF discoveryVars, store
<1>2. ASSUME NEW j \in Jobs, Submit(j) \/ DaemonStart(j) \/ CliStart(j) PROVE StoreInv'
    BY <1>2, QuietKeeps DEF Submit, DaemonStart, CliStart, Start
<1>3. ASSUME NEW u \in Usernames, ResolveSeed(u) PROVE StoreInv'
    BY <1>3, QuietKeeps DEF ResolveSeed, store
<1>4. ASSUME NEW u \in Usernames, Link(u) PROVE StoreInv'
    <2>1. PICK s \in Survivors(Known([peer |-> NoPeer, name |-> u])) :
            ResolveChat([peer |-> NoPeer, name |-> u], s)
        BY <1>4 DEF Link
    <2>2. [peer |-> NoPeer, name |-> u] \in Descriptions
        BY DEF Descriptions
    <2>3. QED
        BY <2>1, <2>2, ResolveKeeps
<1>5. ASSUME NEW t \in Terms, Search(t) PROVE StoreInv'
    BY <1>5, QuietKeeps DEF Search, store
<1>6. ASSUME NEW d \in run.found, Register(d) PROVE StoreInv'
    <2>1. CASE UNCHANGED <<chat, alias, cand>>
        BY <2>1, QuietKeeps
    <2>2. ASSUME NEW s \in Survivors(Known(d)), ResolveChat(d, s) PROVE StoreInv'
        BY <2>2, <1>0, RunFields, ResolveKeeps
    <2>3. QED
        BY <1>6, <2>1, <2>2 DEF Register
<1>7. ASSUME NEW c \in run.todo, Score(c) PROVE StoreInv'
    BY <1>7, ScoreKeeps
<1>8. ASSUME NEW outcome \in {"member", "requested", "failed"}, JoinChannel(outcome) PROVE StoreInv'
    BY <1>8, QuietKeeps DEF JoinChannel, store
<1>9. CASE Prove \/ SetMembership
    BY <1>9, ProveKeeps, MembershipKeeps
<1>10. CASE Attach \/ Linked
    BY <1>10, AddsKeep
<1>11. CASE Decide \/ Replayed \/ Settle
    BY <1>11, MovesKeep
<1>12. CASE Enter
    <2>1. CASE Transition(run.job, run.rec, "join_failed")
        BY <1>12, <2>1, MovesKeep
    <2>2. CASE UNCHANGED cand
        BY <1>12, <2>2, QuietKeeps DEF Enter
    <2>3. QED
        BY <1>12, <2>1, <2>2 DEF Enter
<1>13. CASE Registered \/ List \/ Refused \/ Observe \/ LinksQueued \/ EndWave
    BY <1>13, QuietKeeps DEF Registered, List, Refused, Observe, LinksQueued, EndWave, store
<1>14. CASE Finish \/ RunRaises \/ Killed
    BY <1>14, QuietKeeps DEF Finish, RunRaises, Killed, store
<1>15. ASSUME NEW p \in Peers, NEW u \in Usernames \cup {NoName}, Rename(p, u) PROVE StoreInv'
    BY <1>15, QuietKeeps DEF Rename, store
<1>16. QED
    BY <1>1, <1>2, <1>3, <1>4, <1>5, <1>6, <1>7, <1>8, <1>9, <1>10, <1>11, <1>12, <1>13, <1>14,
        <1>15 DEF DiscoveryNext, RunnerStep

-----------------------------------------------------------------------------
(***************************************************************************)
(* Every step leaves the run where its next step expects it.               *)
(***************************************************************************)
RunInv == RunIsPlaced /\ RunIsTyped /\ SnapshotHolds

\* A run with nothing listed, at a step that needs no record.
Unplaced == {"find", "register", "list", "idle"}

LEMMA UnplacedRun ==
    ASSUME run'.pc \in Unplaced, run'.todo = {}, run'.pc # "idle" => run'.job \in Jobs
    PROVE  RunInv'
BY DEF Unplaced, RunInv, RunIsPlaced, RunIsTyped, SnapshotHolds, OnRecord, OnCandidate

\* A run that stands still while the store does.
LEMMA StillRun ==
    ASSUME DiscoveryIInv, UNCHANGED <<run, chat, cand>>
    PROVE  RunInv'
BY DEF DiscoveryIInv, RunInv, RunIsPlaced, RunIsTyped, SnapshotHolds, Evidenced

\* Candidates only gain evidence while a wave is worked off.
Growing ==
    \A r \in Records : cand[run.job][r] # NoCand =>
        /\ cand'[run.job][r] # NoCand
        /\ Cardinality(cand'[run.job][r].evidence) >= Evidenced(r)

\* What remains of the list is still covered.
LEMMA ListKept ==
    ASSUME DiscoveryIInv, StoreInv', run.pc # "idle", Growing, run'.job = run.job, run'.todo \subseteq run.todo,
           run'.pc \in Steps \ {"idle", "find", "register", "prove", "attach", "list"}
    PROVE  /\ run'.job \in Jobs
           /\ \A c \in run'.todo :
                /\ cand'[run'.job][c.rec] # NoCand
                /\ c.sources <= Cardinality(cand'[run'.job][c.rec].evidence)
<1>1. run.job \in Jobs
    BY DEF DiscoveryIInv, RunIsPlaced
<1>2. ASSUME NEW c \in run.todo
      PROVE  /\ cand'[run.job][c.rec] # NoCand
             /\ c.sources <= Cardinality(cand'[run.job][c.rec].evidence)
    <2>1. c.rec \in Records /\ c.sources \in Nat
        BY RunFields DEF DiscoveryIInv, DiscoveryTypeOK
    <2>2. cand[run.job][c.rec] # NoCand /\ c.sources <= Evidenced(c.rec)
        BY DEF DiscoveryIInv, RunIsPlaced, SnapshotHolds
    <2>3. Evidenced(c.rec) \in Nat
        BY <1>1, <2>1, FS_CardinalityType DEF DiscoveryIInv, EvidenceIsFinite, Evidenced
    <2>4. Cardinality(cand'[run.job][c.rec].evidence) >= Evidenced(c.rec)
        BY <2>1, <2>2 DEF Growing
    <2>5. Cardinality(cand'[run.job][c.rec].evidence) \in Nat
        BY <1>1, <2>1, FS_CardinalityType DEF StoreInv, EvidenceIsFinite
    <2>6. QED
        BY <2>1, <2>2, <2>3, <2>4, <2>5 DEF Growing
<1>3. QED
    BY <1>1, <1>2

\* A run that has nothing in hand but its list.
LEMMA WavingRun ==
    ASSUME DiscoveryIInv, StoreInv', run.pc # "idle", Growing, run'.job = run.job, run'.todo \subseteq run.todo,
           run'.pc \in {"score", "links", "finish", "observe"},
           run'.pc = "observe" => run'.at.peer \in Peers,
           run'.pc = "finish" => run'.outcome \in Terminal
    PROVE  RunInv'
<1>1. /\ run'.job \in Jobs
      /\ \A c \in run'.todo :
            /\ cand'[run'.job][c.rec] # NoCand
            /\ c.sources <= Cardinality(cand'[run'.job][c.rec].evidence)
    BY ListKept DEF Steps
<1>2. QED
    BY <1>1 DEF RunInv, RunIsPlaced, RunIsTyped, SnapshotHolds, Evidenced, OnRecord, OnCandidate

\* A candidate that keeps its evidence grows by nothing.
LEMMA SameEvidenceGrows ==
    ASSUME DiscoveryIInv, run.pc # "idle",
           \A r \in Records : cand[run.job][r] # NoCand =>
                cand'[run.job][r] # NoCand /\ cand'[run.job][r].evidence = cand[run.job][r].evidence
    PROVE  Growing
<1>1. \A r \in Records : Evidenced(r) \in Nat
    BY FS_CardinalityType DEF DiscoveryIInv, RunIsPlaced, EvidenceIsFinite, Evidenced
<1>2. QED
    BY <1>1 DEF Growing, Evidenced

LEMMA RunStepRegistering ==
    ASSUME DiscoveryIInv, StoreInv',
           \/ \E u \in Usernames : ResolveSeed(u)
           \/ \E t \in Terms : Search(t)
           \/ \E d \in run.found : Register(d)
           \/ Prove \/ Attach \/ Registered \/ List
    PROVE  RunInv'
<1>0. /\ run \in RunRows /\ run.pc \in {"find", "register", "prove", "attach", "list"}
      /\ run.job \in Jobs /\ run.todo = {}
    BY DEF DiscoveryIInv, DiscoveryTypeOK, RunIsPlaced, ResolveSeed, Search, Register, Prove, Attach,
        Registered, List
<1>1. ASSUME NEW u \in Usernames, ResolveSeed(u) PROVE RunInv'
    <2>1. run'.pc = "register" /\ run'.todo = {} /\ run'.job = run.job
        BY <1>0, <1>1 DEF ResolveSeed, RunRows
    <2>2. QED
        BY <1>0, <2>1, UnplacedRun DEF Unplaced
<1>2. ASSUME NEW t \in Terms, Search(t) PROVE RunInv'
    <2>1. CASE run' = Stopped("completed_partial")
        <3>1. /\ run'.pc = "finish" /\ run'.todo = {} /\ run'.job = run.job
              /\ run'.outcome = "completed_partial"
            BY <1>0, <2>1 DEF Stopped, RunRows
        <3>2. QED
            BY <1>0, <3>1 DEF RunInv, RunIsPlaced, RunIsTyped, SnapshotHolds, OnRecord, OnCandidate,
                Terminal
    <2>2. CASE \E found \in SUBSET Peers :
            run' = [run EXCEPT !.terms = @ \ {t}, !.origin = <<"term", t>>,
                               !.found = {Description(p) : p \in found}, !.pc = "register"]
        <3>1. run'.pc = "register" /\ run'.todo = {} /\ run'.job = run.job
            BY <1>0, <2>2 DEF RunRows
        <3>2. QED
            BY <1>0, <3>1, UnplacedRun DEF Unplaced
    <2>3. QED
        BY <1>2, <2>1, <2>2 DEF Search
<1>3. ASSUME NEW d \in run.found, Register(d) PROVE RunInv'
    <2>1. CASE run' = [run EXCEPT !.found = @ \ {d}]
        <3>1. run'.pc = "register" /\ run'.todo = {} /\ run'.job = run.job
            BY <1>0, <1>3, <2>1 DEF RunRows, Register
        <3>2. QED
            BY <1>0, <3>1, UnplacedRun DEF Unplaced
    <2>2. ASSUME NEW s \in Survivors(Known(d)), ResolveChat(d, s),
                 run' = [run EXCEPT !.found = @ \ {d}, !.at = d, !.rec = s, !.pc = "prove"]
          PROVE  RunInv'
        <3>1. run'.pc = "prove" /\ run'.todo = {} /\ run'.job = run.job /\ run'.rec = s
            BY <1>0, <2>2 DEF RunRows
        <3>2. s \in Records /\ chat'[s] # Absent
            BY <1>0, <2>2, RunFields, ResolveKeeps
        <3>3. QED
            BY <1>0, <3>1, <3>2 DEF RunInv, RunIsPlaced, RunIsTyped, SnapshotHolds, OnRecord, OnCandidate
    <2>3. QED
        BY <1>3, <2>1, <2>2 DEF Register
<1>4. CASE Prove
    <2>1. run'.pc = "attach" /\ run'.todo = {} /\ run'.job = run.job /\ run'.rec = run.rec
        BY <1>0, <1>4 DEF RunRows, Prove
    <2>2. run.rec \in Records /\ chat'[run.rec] # Absent
        BY <1>4, ProveKeeps DEF DiscoveryIInv, RunIsPlaced, OnRecord, Prove
    <2>3. QED
        BY <1>0, <2>1, <2>2 DEF RunInv, RunIsPlaced, RunIsTyped, SnapshotHolds, OnRecord, OnCandidate
<1>5. CASE Attach \/ Registered
    <2>1. run'.pc \in {"register", "find"} /\ run'.todo = {} /\ run'.job = run.job
        BY <1>0, <1>5 DEF RunRows, Attach, Registered
    <2>2. QED
        BY <1>0, <2>1, UnplacedRun DEF Unplaced
<1>6. CASE List
    <2> DEFINE todo == {[rec |-> r, sources |-> cand[run.job][r].sources] :
                            r \in Undecided(run.job)}
    <2>1. run'.pc = "score" /\ run'.todo = todo /\ run'.job = run.job /\ UNCHANGED cand
        BY <1>0, <1>6 DEF RunRows, List, store
    <2>2. ASSUME NEW c \in todo
          PROVE  cand[run.job][c.rec] # NoCand /\ c.sources <= Cardinality(cand[run.job][c.rec].evidence)
        <3>1. PICK r \in Undecided(run.job) :
                c = [rec |-> r, sources |-> cand[run.job][r].sources]
            OBVIOUS
        <3>2. r \in Records /\ cand[run.job][r] # NoCand
            BY AbsentRows DEF Undecided
        <3>3. cand[run.job][r].sources = Cardinality(cand[run.job][r].evidence)
            BY <1>0, <3>2 DEF DiscoveryIInv, SourcesAreCounted
        <3>4. Cardinality(cand[run.job][r].evidence) \in Nat
            BY <1>0, <3>2, FS_CardinalityType DEF DiscoveryIInv, EvidenceIsFinite
        <3>5. QED
            BY <3>1, <3>2, <3>3, <3>4
    <2> HIDE DEF todo
    <2>3. QED
        BY <1>0, <2>1, <2>2 DEF RunInv, RunIsPlaced, RunIsTyped, SnapshotHolds, OnRecord, OnCandidate,
            Evidenced
<1>7. QED
    BY <1>1, <1>2, <1>3, <1>4, <1>5, <1>6

\* The evidence that admitted a candidate to the join still does after it moved.
LEMMA AdmittedRun ==
    ASSUME DiscoveryIInv, StoreInv', run.pc \in OnCandidate, Growing,
           run'.job = run.job, run'.rec = run.rec, run'.todo = run.todo,
           run'.pc \in {"enter", "join", "member", "settle"},
           Evidenced(run.rec) >= MinSources,
           run'.pc = "join" => run'.entity \in Peers,
           run'.pc \in {"member", "settle"} => run'.outcome \in {"member", "requested", "failed"}
    PROVE  RunInv'
<1>1. run.job \in Jobs /\ run.rec \in Records /\ cand[run.job][run.rec] # NoCand /\ run.pc # "idle"
    BY DEF DiscoveryIInv, RunIsPlaced, OnCandidate
<1>2. /\ run'.job \in Jobs
      /\ \A c \in run'.todo :
            /\ cand'[run'.job][c.rec] # NoCand
            /\ c.sources <= Cardinality(cand'[run'.job][c.rec].evidence)
    BY <1>1, ListKept DEF Steps
<1>3. Evidenced(run.rec) \in Nat
    BY <1>1, FS_CardinalityType DEF DiscoveryIInv, EvidenceIsFinite, Evidenced
<1>4. Cardinality(cand'[run.job][run.rec].evidence) \in Nat
    BY <1>1, FS_CardinalityType DEF StoreInv, EvidenceIsFinite
<1>5. /\ cand'[run'.job][run'.rec] # NoCand
      /\ Cardinality(cand'[run'.job][run'.rec].evidence) >= MinSources
    BY <1>1, <1>3, <1>4, DiscoveryConstants DEF Growing
<1>6. QED
    BY <1>1, <1>2, <1>5 DEF RunInv, RunIsPlaced, RunIsTyped, SnapshotHolds, OnRecord, OnCandidate,
        Evidenced

LEMMA RunStepWave ==
    ASSUME DiscoveryIInv, StoreInv',
           \/ \E u \in Usernames : Link(u)
           \/ \E c \in run.todo : Score(c)
           \/ \E outcome \in {"member", "requested", "failed"} : JoinChannel(outcome)
           \/ Decide \/ Enter \/ Replayed \/ Refused \/ SetMembership \/ Settle \/ Observe
           \/ Linked \/ LinksQueued \/ EndWave
    PROVE  RunInv'
<1>0. run \in RunRows /\ run.pc # "idle" /\ run.job \in Jobs
    BY DEF DiscoveryIInv, DiscoveryTypeOK, RunIsPlaced, Link, Score, JoinChannel, Decide, Enter,
        Replayed, Refused, SetMembership, Settle, Observe, Linked, LinksQueued, EndWave
<1>1. UNCHANGED cand => Growing
    BY <1>0, SameEvidenceGrows
<1>2. \A o \in {"completed", "completed_partial"} : run' = Stopped(o) =>
        /\ run'.pc = "finish" /\ run'.job = run.job /\ run'.todo = run.todo
        /\ run'.outcome \in Terminal
    BY <1>0 DEF Stopped, RunRows, Terminal
<1>3. run' = NextCandidate => run'.pc = "score" /\ run'.job = run.job /\ run'.todo = run.todo
    BY <1>0 DEF NextCandidate, RunRows
<1>4. ASSUME NEW u \in Usernames, Link(u) PROVE RunInv'
    <2>1. PICK d : d = [peer |-> NoPeer, name |-> u]
        OBVIOUS
    <2>2. PICK s \in Survivors(Known(d)) :
            /\ ResolveChat(d, s)
            /\ run' = [run EXCEPT !.pc = "linked", !.links = @ \ {u}, !.at = d, !.rec = s]
        BY <1>4, <2>1 DEF Link
    <2>3. /\ run'.pc = "linked" /\ run'.job = run.job /\ run'.todo = run.todo
          /\ run'.rec = s /\ run'.at = d
        BY <1>0, <2>2 DEF RunRows
    <2>4. cand' = cand
        BY <2>1, <2>2, LinkMergesNothing
    <2>5. s \in Records /\ chat'[s] # Absent
        BY <2>1, <2>2, ResolveKeeps DEF Descriptions
    <2>6. /\ run'.job \in Jobs
          /\ \A c \in run'.todo :
                /\ cand'[run'.job][c.rec] # NoCand
                /\ c.sources <= Cardinality(cand'[run'.job][c.rec].evidence)
        BY <1>0, <1>1, <2>3, <2>4, ListKept DEF Steps
    <2>7. QED
        BY <2>1, <2>3, <2>5, <2>6 DEF RunInv, RunIsPlaced, RunIsTyped, SnapshotHolds, OnRecord,
            OnCandidate, Evidenced
<1>5. ASSUME NEW c \in run.todo, Score(c) PROVE RunInv'
    <2>1. PICK decision \in Decisions(chat[c.rec].public, c.sources, cand[run.job][c.rec].wave) :
            run' = [run EXCEPT !.pc = "decide", !.todo = @ \ {c}, !.rec = c.rec,
                               !.decision = decision]
        BY <1>5 DEF Score
    <2>2. /\ run'.pc = "decide" /\ run'.job = run.job /\ run'.todo \subseteq run.todo
          /\ run'.rec = c.rec /\ run'.decision = decision
        BY <1>0, <2>1 DEF RunRows
    <2>3. decision \in CandidateStates
        BY <2>1 DEF Decisions, CandidateStates
    <2>4. Growing
        BY <1>0, <1>5, ScoreKeeps, SameEvidenceGrows
    <2>5. /\ run'.job \in Jobs
          /\ \A k \in run'.todo :
                /\ cand'[run'.job][k.rec] # NoCand
                /\ k.sources <= Cardinality(cand'[run'.job][k.rec].evidence)
        BY <1>0, <2>2, <2>4, ListKept DEF Steps
    <2>6. /\ c.rec \in Records /\ cand'[run.job][c.rec] # NoCand
          /\ decision \in JoinStates => Cardinality(cand'[run.job][c.rec].evidence) >= MinSources
        BY <1>5, <2>2, ScoreKeeps
    <2>7. QED
        BY <2>2, <2>3, <2>5, <2>6 DEF RunInv, RunIsPlaced, RunIsTyped, SnapshotHolds, OnRecord,
            OnCandidate, Evidenced
<1>6. ASSUME NEW outcome \in {"member", "requested", "failed"}, JoinChannel(outcome) PROVE RunInv'
    <2>1. /\ run'.pc = "member" /\ run'.job = run.job /\ run'.todo = run.todo
          /\ run'.rec = run.rec /\ run'.outcome = outcome /\ UNCHANGED cand
        BY <1>0, <1>6 DEF RunRows, JoinChannel, store
    <2>2. run.pc \in OnCandidate /\ Evidenced(run.rec) >= MinSources
        BY <1>6 DEF JoinChannel, DiscoveryIInv, SnapshotHolds, OnCandidate
    <2>3. QED
        BY <1>1, <2>1, <2>2, AdmittedRun
<1>7. CASE Decide
    <2>1. Growing
        BY <1>0, <1>7, MovesKeep, SameEvidenceGrows
    <2>2. CASE run' = NextCandidate \/ run' = Stopped("completed_partial")
        BY <1>0, <1>2, <1>3, <2>1, <2>2, WavingRun
    <2>3. CASE run.decision = "approved" /\ run' = [run EXCEPT !.pc = "enter"]
        <3>1. /\ run'.pc = "enter" /\ run'.job = run.job /\ run'.todo = run.todo
              /\ run'.rec = run.rec
            BY <1>0, <2>3 DEF RunRows
        <3>2. run.pc \in OnCandidate /\ Evidenced(run.rec) >= MinSources
            BY <1>7, <2>3 DEF Decide, DiscoveryIInv, SnapshotHolds, OnCandidate, JoinStates
        <3>3. QED
            BY <2>1, <3>1, <3>2, AdmittedRun
    <2>4. QED
        BY <1>7, <2>2, <2>3 DEF Decide
<1>8. CASE Enter
    <2>1. CASE Transition(run.job, run.rec, "join_failed") /\ run' = NextCandidate
        BY <1>0, <1>3, <1>8, <2>1, MovesKeep, SameEvidenceGrows, WavingRun
    <2>2. ASSUME NEW p \in Holders(Reference) \cup ({chat[run.rec].peer} \ {NoPeer}),
                 run' = [run EXCEPT !.pc = "join", !.entity = p, !.joins = @ + 1],
                 UNCHANGED cand
          PROVE  RunInv'
        <3>1. /\ run'.pc = "join" /\ run'.job = run.job /\ run'.todo = run.todo
              /\ run'.rec = run.rec /\ run'.entity = p
            BY <1>0, <2>2 DEF RunRows
        <3>2. /\ run.pc \in OnCandidate /\ Evidenced(run.rec) >= MinSources
              /\ run.rec \in Records
            BY <1>8 DEF Enter, DiscoveryIInv, SnapshotHolds, RunIsPlaced, OnCandidate
        <3>3. chat[run.rec].peer \in Peers \cup {NoPeer}
            BY <3>2, RowsAreTyped DEF DiscoveryIInv, ChatRows, Absent
        <3>4. p \in Peers
            BY <2>2, <3>3 DEF Holders
        <3>5. QED
            BY <1>1, <2>2, <3>1, <3>2, <3>4, AdmittedRun
    <2>3. QED
        BY <1>8, <2>1, <2>2 DEF Enter
<1>9. CASE Replayed
    BY <1>0, <1>3, <1>9, MovesKeep, SameEvidenceGrows, WavingRun DEF Replayed
<1>10. CASE Refused
    BY <1>0, <1>1, <1>2, <1>10, WavingRun DEF Refused, store
<1>11. CASE SetMembership
    <2>1. /\ run'.pc = "settle" /\ run'.job = run.job /\ run'.todo = run.todo
          /\ run'.rec = run.rec /\ run'.outcome = run.outcome /\ UNCHANGED cand
        BY <1>0, <1>11 DEF RunRows, SetMembership
    <2>2. /\ run.pc \in OnCandidate /\ Evidenced(run.rec) >= MinSources
          /\ run.outcome \in {"member", "requested", "failed"}
        BY <1>11 DEF SetMembership, DiscoveryIInv, SnapshotHolds, RunIsTyped, OnCandidate
    <2>3. QED
        BY <1>1, <2>1, <2>2, AdmittedRun
<1>12. CASE Settle
    <2>1. Growing
        BY <1>0, <1>12, MovesKeep, SameEvidenceGrows
    <2>2. CASE run' = NextCandidate
        BY <1>0, <1>3, <2>1, <2>2, WavingRun
    <2>3. CASE /\ chat[run.rec].peer # NoPeer
               /\ run' = [run EXCEPT !.pc = "observe",
                                     !.at = [peer |-> chat[run.rec].peer, name |-> NoName]]
        <3>1. /\ run'.pc = "observe" /\ run'.job = run.job /\ run'.todo = run.todo
              /\ run'.at.peer = chat[run.rec].peer
            BY <1>0, <2>3 DEF RunRows
        <3>2. run.rec \in Records
            BY <1>12 DEF Settle, DiscoveryIInv, RunIsPlaced, OnCandidate
        <3>3. chat[run.rec].peer \in Peers
            BY <2>3, <3>2, RowsAreTyped DEF DiscoveryIInv, ChatRows, Absent
        <3>4. QED
            BY <1>0, <2>1, <3>1, <3>3, WavingRun
    <2>4. QED
        BY <1>12, <2>2, <2>3 DEF Settle
<1>13. CASE Observe
    <2>1. PICK links : run' = [NextCandidate EXCEPT !.pc = "links", !.links = links, !.at = NobodyFound]
        BY <1>13 DEF Observe
    <2>2. run'.pc = "links" /\ run'.job = run.job /\ run'.todo = run.todo /\ UNCHANGED cand
        BY <1>0, <1>13, <2>1 DEF NextCandidate, RunRows, Observe, store
    <2>3. QED
        BY <1>0, <1>1, <2>2, WavingRun
<1>14. CASE Linked
    <2>1. run'.pc = "links" /\ run'.job = run.job /\ run'.todo = run.todo
        BY <1>0, <1>14 DEF RunRows, Linked
    <2>2. Growing
        BY <1>14, AddsKeep DEF Growing
    <2>3. QED
        BY <1>0, <2>1, <2>2, WavingRun
<1>15. CASE LinksQueued
    BY <1>0, <1>1, <1>3, <1>15, WavingRun DEF LinksQueued, store
<1>16. CASE EndWave
    <2>1. CASE run' = Stopped("completed")
        BY <1>0, <1>1, <1>2, <1>16, <2>1, WavingRun DEF EndWave, store
    <2>2. CASE run' = [run EXCEPT !.pc = "list", !.wave = @ + 1]
        <3>1. run'.pc = "list" /\ run'.job = run.job /\ run'.todo = {}
            BY <1>0, <1>16, <2>2 DEF RunRows, EndWave
        <3>2. QED
            BY <1>0, <3>1, UnplacedRun DEF Unplaced
    <2>3. QED
        BY <1>16, <2>1, <2>2 DEF EndWave
<1>17. QED
    BY <1>4, <1>5, <1>6, <1>7, <1>8, <1>9, <1>10, <1>11, <1>12, <1>13, <1>14, <1>15, <1>16

\* Starting and ending a run.
LEMMA StartRun ==
    ASSUME DiscoveryIInv, NEW j \in Jobs, NEW cli \in BOOLEAN, Start(j, cli)
    PROVE  run' \in RunRows /\ RunInv'
<1>1. run' = Started(j, cli)
    BY DEF Start
<1>2. run'.pc = "find" /\ run'.todo = {} /\ run'.job = j
    BY <1>1 DEF Started, Idle
<1>3. SeedsOf[j] \in SUBSET Usernames
    BY DiscoveryConstants
<1>4. run' \in RunRows
    BY <1>1, <1>3, AbsentRows DEF Started, RunRows, Steps
<1>5. QED
    BY <1>2, <1>4, UnplacedRun DEF Unplaced

LEMMA RunStep ==
    ASSUME DiscoveryIInv, [DiscoveryNext]_discoveryVars
    PROVE  run' \in RunRows /\ RunInv'
<1>0. run \in RunRows /\ StoreInv'
    BY StoreStep DEF DiscoveryIInv, DiscoveryTypeOK
<1>1. CASE UNCHANGED <<run, chat, cand>>
    BY <1>0, <1>1, StillRun
<1>2. ASSUME NEW j \in Jobs, Submit(j) \/ DaemonStart(j) \/ CliStart(j)
      PROVE  run' \in RunRows /\ RunInv'
    BY <1>1, <1>2, StartRun DEF Submit, DaemonStart, CliStart
<1>3. CASE Finish \/ RunRaises \/ Killed
    <2>1. run' = Idle
        BY <1>3 DEF Finish, RunRaises, Killed
    <2>2. QED
        BY <2>1, AbsentRows, UnplacedRun DEF Unplaced
<1>4. ASSUME NEW p \in Peers, NEW u \in Usernames \cup {NoName}, Rename(p, u)
      PROVE  run' \in RunRows /\ RunInv'
    BY <1>1, <1>4 DEF Rename, store
<1>5. CASE RunnerStep
    BY <1>0, <1>3, <1>5, RegisteringRuns, WaveRuns, RunStepRegistering, RunStepWave DEF RunnerStep
<1>6. QED
    BY <1>1, <1>2, <1>3, <1>4, <1>5 DEF DiscoveryNext, discoveryVars, store

-----------------------------------------------------------------------------
(***************************************************************************)
(* The other variables keep their types.                                   *)
(***************************************************************************)
RestOK ==
    /\ names \in [Peers -> Usernames \cup {NoName}]
    /\ members \in SUBSET Peers
    /\ observed \in SUBSET Peers
    /\ status \in [Jobs -> {"absent", "queued", "discovering"} \cup Terminal]
    /\ asked \in SUBSET (Jobs \X (Usernames \cup {NoName}))
    /\ interrupted \in SUBSET Jobs
    /\ runs \in [Jobs -> Nat]
    /\ moves \in Nat /\ troubles \in Nat

LEMMA UpdatedStatus ==
    ASSUME NEW s \in {"absent", "queued", "discovering"} \cup Terminal
    PROVE  /\ Updated(s, "discovering") \in {"absent", "queued", "discovering"} \cup Terminal
           /\ \A to \in Terminal : Updated(s, to) \in Terminal
           /\ AfterError(s) \in {"absent", "queued", "discovering"} \cup Terminal
BY DEF Updated, AfterError, Terminal

LEMMA JoinKeyIsTyped ==
    ASSUME DiscoveryIInv, run.pc = "join"
    PROVE  JoinKey \in Jobs \X (Usernames \cup {NoName})
<1>1. run.rec \in Records /\ run.job \in Jobs
    BY DEF DiscoveryIInv, RunIsPlaced, OnCandidate
<1>2. chat[run.rec].name \in Usernames \cup {NoName}
    BY <1>1, RowsAreTyped DEF DiscoveryIInv, ChatRows, Absent
<1>3. QED
    BY <1>1, <1>2 DEF JoinKey, Reference

\* A join that is cut off leaves keys and members what they may be.
LEMMA CutOffIsTyped ==
    ASSUME DiscoveryIInv, CutOff
    PROVE  /\ asked' \in SUBSET (Jobs \X (Usernames \cup {NoName}))
           /\ members' \in SUBSET Peers
<1>0. RestOK
    BY DEF DiscoveryIInv, DiscoveryTypeOK, RestOK
<1>1. CASE UNCHANGED <<asked, members>>
    BY <1>0, <1>1 DEF RestOK
<1>2. CASE /\ run.pc = "join"
           /\ asked' = asked \cup {JoinKey}
           /\ members' \in {members, members \cup {run.entity}}
    <2>1. run.entity \in Peers
        BY <1>2 DEF DiscoveryIInv, RunIsTyped
    <2>2. JoinKey \in Jobs \X (Usernames \cup {NoName})
        BY <1>2, JoinKeyIsTyped
    <2>3. QED
        BY <1>0, <1>2, <2>1, <2>2 DEF RestOK
<1>3. QED
    BY <1>1, <1>2 DEF CutOff

LEMMA RestStep ==
    ASSUME DiscoveryIInv, [DiscoveryNext]_discoveryVars
    PROVE  RestOK'
<1>0. RestOK /\ run \in RunRows /\ (run.pc # "idle" => run.job \in Jobs)
    BY DEF DiscoveryIInv, DiscoveryTypeOK, RestOK, RunIsPlaced
<1>1. CASE UNCHANGED <<telegram, observed, status, asked, counters>>
    BY <1>0, <1>1 DEF RestOK, telegram, counters
<1>2. CASE UNCHANGED discoveryVars
    BY <1>1, <1>2 DEF discoveryVars, store
<1>3. ASSUME NEW j \in Jobs, Submit(j) PROVE RestOK'
    BY <1>0, <1>3 DEF Submit, RestOK, telegram, counters
<1>4. ASSUME NEW j \in Jobs, NEW cli \in BOOLEAN, Start(j, cli) PROVE RestOK'
    <2>1. /\ UNCHANGED <<telegram, observed, asked, interrupted, troubles>>
          /\ status' = [status EXCEPT ![j] = Updated(status[j], "discovering")]
          /\ runs' = [runs EXCEPT ![j] = runs[j] + 1]
        BY <1>4 DEF Start
    <2>2. Updated(status[j], "discovering") \in {"absent", "queued", "discovering"} \cup Terminal
        BY <1>0, UpdatedStatus DEF RestOK
    <2>3. runs' \in [Jobs -> Nat]
        BY <1>0, <2>1 DEF RestOK
    <2>4. status' \in [Jobs -> {"absent", "queued", "discovering"} \cup Terminal]
        BY <1>0, <2>1, <2>2 DEF RestOK
    <2>5. QED
        BY <1>0, <2>1, <2>3, <2>4 DEF RestOK, telegram
<1>5. ASSUME NEW u \in Usernames, ResolveSeed(u) \/ Link(u) PROVE RestOK'
    BY <1>1, <1>5 DEF ResolveSeed, Link, store
<1>6. ASSUME NEW t \in Terms, Search(t) PROVE RestOK'
    BY <1>1, <1>6 DEF Search, store
<1>7. ASSUME NEW d \in run.found, Register(d) PROVE RestOK'
    BY <1>1, <1>7 DEF Register
<1>8. ASSUME NEW c \in run.todo, Score(c) PROVE RestOK'
    BY <1>1, <1>8 DEF Score
<1>9. run.pc = "join" => JoinKey \in Jobs \X (Usernames \cup {NoName})
    BY JoinKeyIsTyped
<1>10. ASSUME NEW outcome \in {"member", "requested", "failed"}, JoinChannel(outcome) PROVE RestOK'
    <2>1. run.pc = "join" /\ run.entity \in Peers
        BY <1>10 DEF JoinChannel, DiscoveryIInv, RunIsTyped
    <2>2. members' \in SUBSET Peers
        BY <1>0, <1>10, <2>1 DEF JoinChannel, RestOK
    <2>3. asked' \in SUBSET (Jobs \X (Usernames \cup {NoName}))
        BY <1>0, <1>9, <1>10, <2>1 DEF JoinChannel, RestOK
    <2>4. QED
        BY <1>0, <1>10, <2>2, <2>3 DEF JoinChannel, RestOK, store, counters
<1>11. CASE Refused
    <2>1. asked' \in SUBSET (Jobs \X (Usernames \cup {NoName}))
        BY <1>0, <1>9, <1>11 DEF Refused, RestOK
    <2>2. QED
        BY <1>0, <1>11, <2>1 DEF Refused, RestOK, store, counters, telegram
<1>12. CASE Observe
    <2>1. run.at.peer \in Peers
        BY <1>12 DEF Observe, DiscoveryIInv, RunIsTyped
    <2>2. QED
        BY <1>0, <1>12, <2>1 DEF Observe, RestOK, store, counters, telegram
<1>13. CASE Finish
    <2>1. run.outcome \in Terminal /\ run.job \in Jobs
        BY <1>0, <1>13 DEF Finish, DiscoveryIInv, RunIsTyped
    <2>2. status' = [status EXCEPT ![run.job] = Updated(status[run.job], run.outcome)]
        BY <1>13 DEF Finish
    <2>3. Updated(status[run.job], run.outcome) \in Terminal
        BY <1>0, <2>1, UpdatedStatus DEF RestOK
    <2>4. QED
        BY <1>0, <1>13, <2>1, <2>2, <2>3 DEF Finish, RestOK, counters, telegram
<1>14. CASE RunRaises
    <2>1. run.job \in Jobs
        BY <1>0, <1>14 DEF RunRaises
    <2>2. status' = [status EXCEPT ![run.job] = AfterError(status[run.job])]
        BY <1>14 DEF RunRaises
    <2>3. AfterError(status[run.job]) \in {"absent", "queued", "discovering"} \cup Terminal
        BY <1>0, <2>1, UpdatedStatus DEF RestOK
    <2>4. interrupted' \in SUBSET Jobs /\ troubles' \in Nat
        BY <1>0, <1>14, <2>1 DEF RunRaises, RestOK
    <2>5. asked' \in SUBSET (Jobs \X (Usernames \cup {NoName})) /\ members' \in SUBSET Peers
        BY <1>14, CutOffIsTyped DEF RunRaises
    <2>6. QED
        BY <1>0, <1>14, <2>2, <2>3, <2>4, <2>5 DEF RunRaises, RestOK
<1>15. CASE Killed
    <2>1. interrupted' \in SUBSET Jobs /\ troubles' \in Nat
        BY <1>0, <1>15 DEF Killed, RestOK
    <2>2. asked' \in SUBSET (Jobs \X (Usernames \cup {NoName})) /\ members' \in SUBSET Peers
        BY <1>15, CutOffIsTyped DEF Killed
    <2>3. QED
        BY <1>0, <1>15, <2>1, <2>2 DEF Killed, RestOK, store
<1>16. ASSUME NEW p \in Peers, NEW u \in Usernames \cup {NoName}, Rename(p, u) PROVE RestOK'
    <2>1. names' \in [Peers -> Usernames \cup {NoName}]
        BY <1>0, <1>16 DEF Rename, RestOK
    <2>2. moves' \in Nat
        BY <1>0, <1>16 DEF Rename, RestOK
    <2>3. QED
        BY <1>0, <1>16, <2>1, <2>2 DEF Rename, RestOK, store, counters
<1>17. CASE \/ Prove \/ Attach \/ Registered \/ List \/ Decide \/ Enter \/ Replayed
            \/ SetMembership \/ Settle \/ Linked \/ LinksQueued \/ EndWave
    BY <1>1, <1>17 DEF Prove, Attach, Registered, List, Decide, Enter, Replayed, SetMembership,
        Settle, Linked, LinksQueued, EndWave, store
<1>18. QED
    BY <1>2, <1>3, <1>4, <1>5, <1>6, <1>7, <1>8, <1>10, <1>11, <1>12, <1>13, <1>14, <1>15, <1>16,
        <1>17 DEF DiscoveryNext, RunnerStep, DaemonStart, CliStart

-----------------------------------------------------------------------------
(***************************************************************************)
(* The invariant is inductive.                                             *)
(***************************************************************************)
LEMMA DiscoveryInitInv == DiscoveryInit => DiscoveryIInv
<1> SUFFICES ASSUME DiscoveryInit PROVE DiscoveryIInv
    OBVIOUS
<1>1. /\ \A r \in Records : chat[r] = Absent
      /\ \A x \in Locators : alias[x] = NoRecord
      /\ \A j \in Jobs : \A r \in Records : cand[j][r] = NoCand
      /\ run.pc = "idle" /\ run.todo = {}
    BY AbsentRows DEF DiscoveryInit
<1>2. DiscoveryTypeOK
    BY AbsentRows DEF DiscoveryInit, DiscoveryTypeOK, Terminal
<1>3. RunIsPlaced /\ RunIsTyped /\ SnapshotHolds
    BY <1>1 DEF RunIsPlaced, RunIsTyped, SnapshotHolds, OnRecord, OnCandidate
<1>4. EvidenceIsFinite /\ SourcesAreCounted
    BY <1>1, AbsentRows, FS_EmptySet DEF EvidenceIsFinite, SourcesAreCounted
<1>5. LocatorsAreOwned
    BY <1>1 DEF LocatorsAreOwned
<1>6. ApprovedIsSupported
    BY <1>1, AbsentRows DEF ApprovedIsSupported, JoinStates
<1>7. QED
    BY <1>2, <1>3, <1>4, <1>5, <1>6 DEF DiscoveryIInv

LEMMA DiscoveryStepInv == DiscoveryIInv /\ [DiscoveryNext]_discoveryVars => DiscoveryIInv'
<1> SUFFICES ASSUME DiscoveryIInv, [DiscoveryNext]_discoveryVars PROVE DiscoveryIInv'
    OBVIOUS
<1>1. StoreInv' /\ RunInv' /\ RestOK' /\ run' \in RunRows
    BY StoreStep, RunStep, RestStep
<1>2. DiscoveryTypeOK'
    BY <1>1 DEF StoreInv, StoreOK, RestOK, DiscoveryTypeOK
<1>3. QED
    BY <1>1, <1>2 DEF DiscoveryIInv, StoreInv, RunInv

LEMMA DiscoveryInvariant == DiscoverySpec => []DiscoveryIInv
<1>1. QED
    BY DiscoveryInitInv, DiscoveryStepInv, PTL DEF DiscoverySpec

\* Every variable of a discovery keeps its type.
THEOREM DiscoveryTypes == DiscoverySpec => []DiscoveryTypeOK
<1>1. DiscoveryIInv => DiscoveryTypeOK
    BY DEF DiscoveryIInv
<1>2. QED
    BY <1>1, DiscoveryInvariant, PTL

\* resolve_chat: however chats are found, renamed and merged, a peer or a name
\* that a stored record carries leads to that record and to no other.
THEOREM RecordsOwnTheirLocators == DiscoverySpec => []LocatorsAreOwned
<1>1. DiscoveryIInv => LocatorsAreOwned
    BY DEF DiscoveryIInv
<1>2. QED
    BY <1>1, DiscoveryInvariant, PTL

\* independent_sources is the number of origins, after every rediscovery and merge.
THEOREM StoredCountIsTrue == DiscoverySpec => []SourcesAreCounted
<1>1. DiscoveryIInv => SourcesAreCounted
    BY DEF DiscoveryIInv
<1>2. QED
    BY <1>1, DiscoveryInvariant, PTL

\* No chat is approved or joined on fewer independent origins than the policy asks.
THEOREM ApprovalNeedsSupport == DiscoverySpec => []ApprovedIsSupported
<1>1. DiscoveryIInv => ApprovedIsSupported
    BY DEF DiscoveryIInv
<1>2. QED
    BY <1>1, DiscoveryInvariant, PTL
=============================================================================
