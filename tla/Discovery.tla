----------------------------- MODULE Discovery -----------------------------
(***************************************************************************)
(* Reconnaissance: jobs that search Telegram for chats, the canonical      *)
(* records of what they find, and the candidates they judge.               *)
(* pipeline/discovery_worker.py and pipeline/recon.py over storage/scout.py *)
(* and pipeline/scoring.py.                                                *)
(*                                                                         *)
(* A job is run by the daemon's worker, which never joins, or by           *)
(* recon_cli, which may; the session lock admits one of them, so there is  *)
(* one runner.  Every transaction and every call to Telegram is one step,  *)
(* and usernames may change hands between any two.                         *)
(***************************************************************************)
EXTENDS Integers, FiniteSets

CONSTANTS
    Peers, Usernames,   \* Telegram's chats, and the names they may hold
    NoPeer, NoName,
    Records,            \* uuids of scout_chats
    NoRecord,
    Jobs, NoJob,
    SeedsOf,            \* usernames the owner named for a job
    JoinsOf,            \* max_join_attempts
    Terms,              \* the queries of wave zero
    MinSources,         \* min_independent_sources
    MaxAutoWave,        \* max_auto_join_wave
    MaxCandidates, MaxWaves,
    MaxMoves,           \* bound: usernames that change hands
    MaxRuns,            \* bound: runs of a job from the command line
    MaxTroubles         \* bound: runs that raise or are killed

Locators == Peers \cup Usernames

ASSUME DiscoveryConstants ==
    /\ IsFiniteSet(Records) /\ IsFiniteSet(Locators)
    /\ Cardinality(Records) >= Cardinality(Locators)
    /\ Peers \cap Usernames = {}
    /\ NoPeer \notin Locators /\ NoName \notin Locators
    /\ NoRecord \notin Records
    /\ NoJob \notin Jobs
    /\ SeedsOf \in [Jobs -> SUBSET Usernames]
    /\ JoinsOf \in [Jobs -> Nat]
    /\ MinSources \in Nat \ {0}
    /\ MaxAutoWave \in Nat
    /\ MaxCandidates \in Nat \ {0}
    /\ MaxWaves \in Nat \ {0}
    /\ MaxMoves \in Nat
    /\ MaxRuns \in Nat
    /\ MaxTroubles \in Nat

VARIABLES
    names,      \* names[p]: the username Telegram gives p, or NoName
    members,    \* chats the account is a member of
    observed,   \* observed_chats, in the other database
    chat,       \* scout_chats, Absent where there is no row
    alias,      \* chat_aliases: the record of a locator, or NoRecord
    cand,       \* cand[j][r]: job_candidates and their evidence
    status,     \* recon_jobs.status
    run,        \* ReconRunner
    asked,      \* join keys the governor has used: job and reference
    interrupted,\* history: jobs whose run was killed
    runs, moves, troubles

store == <<chat, alias, cand, status>>
telegram == <<names, members, moves>>
counters == <<interrupted, runs, troubles>>
discoveryVars == <<telegram, observed, store, run, asked, counters>>

Absent == [peer |-> NoPeer, name |-> NoName, public |-> FALSE, membership |-> "absent"]
NoCand == [state |-> "absent", wave |-> 0, evidence |-> {}, sources |-> 0]

NobodyFound == [peer |-> NoPeer, name |-> NoName]

Idle ==
    [pc |-> "idle", job |-> NoJob, cli |-> FALSE, wave |-> 0, seeds |-> {}, terms |-> {},
     found |-> {}, origin |-> <<"none", "none">>, at |-> NobodyFound, rec |-> NoRecord,
     todo |-> {}, decision |-> "absent", joins |-> 0, entity |-> NoPeer,
     outcome |-> "none", links |-> {}]

DiscoveryInit ==
    /\ names \in [Peers -> Usernames \cup {NoName}]
    /\ \A p, q \in Peers : names[p] = names[q] /\ names[p] # NoName => p = q
    /\ members = {}
    /\ observed = {}
    /\ chat = [r \in Records |-> Absent]
    /\ alias = [x \in Locators |-> NoRecord]
    /\ cand = [j \in Jobs |-> [r \in Records |-> NoCand]]
    /\ status = [j \in Jobs |-> "absent"]
    /\ run = Idle
    /\ asked = {}
    /\ interrupted = {}
    /\ runs = [j \in Jobs |-> 0]
    /\ moves = 0
    /\ troubles = 0

Terminal == {"completed", "completed_partial", "failed"}

(***************************************************************************)
(* resolve_chat: whichever locator comes first creates the record; one     *)
(* that proves two records to be the same chat merges them.                *)
(***************************************************************************)
LocatorsOf(d) == {d.peer, d.name} \ {NoPeer, NoName}
Known(d) == {alias[x] : x \in LocatorsOf(d)} \ {NoRecord}

Free == {r \in Records : chat[r] = Absent}

\* _pick_survivor prefers a record with a resolved peer; records of one second
\* are ordered by their random ids.
Survivors(known) ==
    IF known = {} THEN IF Free = {} THEN {} ELSE {CHOOSE r \in Free : TRUE}
    ELSE IF \E r \in known : chat[r].peer # NoPeer
         THEN {r \in known : chat[r].peer # NoPeer}
    ELSE known

Coalesce(new, old, none) == IF new # none THEN new ELSE old

\* Mutant: the count of the surviving candidate is left as it was.
FoldedUncounted(kept, lost) ==
    IF lost = NoCand THEN kept
    ELSE IF kept = NoCand THEN lost
    ELSE [kept EXCEPT !.evidence = @ \cup lost.evidence]

\* The merged candidate keeps the survivor's state and takes over the signals
\* of the duplicate; a job that knew only the duplicate goes on with it.
Folded(kept, lost) ==
    IF lost = NoCand THEN kept
    ELSE IF kept = NoCand THEN lost
    ELSE [kept EXCEPT !.evidence = @ \cup lost.evidence,
                      !.sources = Cardinality(kept.evidence \cup lost.evidence)]

Described(d, survivor) ==
    [peer |-> Coalesce(d.peer, chat[survivor].peer, NoPeer),
     name |-> Coalesce(d.name, chat[survivor].name, NoName),
     public |-> chat[survivor].public,
     membership |-> IF chat[survivor] = Absent THEN "none" ELSE chat[survivor].membership]

\* Mutant: the merge leaves the other locators of the record it deletes.
AliasesAfterShallow(d, survivor) ==
    [x \in Locators |-> IF x \in LocatorsOf(d) THEN survivor ELSE alias[x]]
AliasesAfter(d, survivor) ==
    LET losers == Known(d) \ {survivor} IN
    [x \in Locators |-> IF x \in LocatorsOf(d) \/ alias[x] \in losers THEN survivor ELSE alias[x]]

\* _merge_chat of every other record into the survivor, then the update of the
\* survivor and of the aliases, in one transaction.
ResolveChat(d, survivor) ==
    LET losers == Known(d) \ {survivor} IN
    /\ chat' = [r \in Records |-> IF r \in losers THEN Absent
                                  ELSE IF r = survivor THEN Described(d, r)
                                  ELSE chat[r]]
    /\ alias' = AliasesAfter(d, survivor)
    /\ cand' = [j \in Jobs |-> [r \in Records |->
                    IF r \in losers THEN NoCand
                    ELSE IF r = survivor /\ losers # {}
                         THEN Folded(cand[j][r], cand[j][CHOOSE l \in losers : TRUE])
                    ELSE cand[j][r]]]

SetCandidate(j, r, row) == cand' = [cand EXCEPT ![j][r] = row]

\* add_candidate: a chat found again is more evidence, counted by its origin.
WithEvidence(c, wave, origin) ==
    LET known == c.evidence \cup {origin} IN
    [state |-> IF c = NoCand THEN "discovered" ELSE c.state,
     wave |-> IF c = NoCand THEN wave ELSE c.wave,
     evidence |-> known,
     sources |-> Cardinality(known)]

AddCandidate(j, r, wave, origin) ==
    SetCandidate(j, r, WithEvidence(cand[j][r], wave, origin))

\* transition_candidate: a candidate blocked as private is never reopened.
Moved(c, to) == IF c.state = "blocked_private" THEN c ELSE [c EXCEPT !.state = to]
Transition(j, r, to) == SetCandidate(j, r, Moved(cand[j][r], to))

\* update_job_status: a job that ended stays as it ended.
Updated(s, to) == IF s \in Terminal THEN s ELSE to

Candidates(j) == {r \in Records : cand[j][r] # NoCand}
Undecided(j) == {r \in Records : cand[j][r].state = "discovered"}

(***************************************************************************)
(* Jobs are submitted by an agent or by recon_cli, and started by either   *)
(* the daemon's worker or recon_cli.                                       *)
(***************************************************************************)
Submit(j) ==
    /\ status[j] = "absent"
    /\ status' = [status EXCEPT ![j] = "queued"]
    /\ UNCHANGED <<telegram, observed, chat, alias, cand, run, asked, counters>>

Started(j, cli) ==
    [Idle EXCEPT !.pc = "find", !.job = j, !.cli = cli, !.seeds = SeedsOf[j], !.terms = Terms]

Start(j, cli) ==
    /\ run.pc = "idle"
    /\ run' = Started(j, cli)
    /\ runs' = [runs EXCEPT ![j] = @ + 1]
    /\ status' = [status EXCEPT ![j] = Updated(@, "discovering")]
    /\ UNCHANGED <<telegram, observed, chat, alias, cand, asked, interrupted, troubles>>

\* next_queued_job: jobs are served in the order they were stored; any order here.
DaemonStart(j) == status[j] = "queued" /\ Start(j, FALSE)

\* create_job returns the row of a repeated key whatever its status, and
\* recon_cli runs it.
CliStart(j) == runs[j] < MaxRuns /\ Start(j, TRUE)

(***************************************************************************)
(* Seeds, then the searches of wave zero.                                  *)
(***************************************************************************)
Description(p) == [peer |-> p, name |-> names[p]]
Holders(u) == {p \in Peers : names[p] = u}

\* _seed: a name nobody holds, a refusal and an error are all skipped.
ResolveSeed(u) ==
    /\ run.pc = "find"
    /\ u \in run.seeds
    /\ \E found \in SUBSET Holders(u) :
         run' = [run EXCEPT !.seeds = @ \ {u}, !.origin = <<"owner", u>>,
                            !.found = {Description(p) : p \in found}, !.pc = "register"]
    /\ UNCHANGED <<telegram, observed, store, asked, counters>>

Stopped(outcome) == [run EXCEPT !.pc = "finish", !.outcome = outcome]

\* search_hashtag and search_contacts; a halt, a spent budget or a flood wait
\* stops the job.
Search(t) ==
    /\ run.pc = "find"
    /\ run.seeds = {}
    /\ t \in run.terms
    /\ \/ run' = Stopped("completed_partial")
       \/ \E found \in SUBSET Peers :
            run' = [run EXCEPT !.terms = @ \ {t}, !.origin = <<"term", t>>,
                               !.found = {Description(p) : p \in found}, !.pc = "register"]
    /\ UNCHANGED <<telegram, observed, store, asked, counters>>

\* _register, in three transactions; nothing more is stored at the limit.
Register(d) ==
    /\ run.pc = "register"
    /\ d \in run.found
    /\ IF Cardinality(Candidates(run.job)) >= MaxCandidates
       THEN /\ run' = [run EXCEPT !.found = @ \ {d}]
            /\ UNCHANGED <<chat, alias, cand>>
       ELSE \E survivor \in Survivors(Known(d)) :
              /\ ResolveChat(d, survivor)
              /\ run' = [run EXCEPT !.found = @ \ {d}, !.at = d, !.rec = survivor, !.pc = "prove"]
    /\ UNCHANGED <<telegram, observed, status, asked, counters>>

Prove ==
    /\ run.pc = "prove"
    /\ chat' = [chat EXCEPT ![run.rec].public = @ \/ run.at.name # NoName]
    /\ run' = [run EXCEPT !.pc = "attach"]
    /\ UNCHANGED <<telegram, observed, alias, cand, status, asked, counters>>

Attach ==
    /\ run.pc = "attach"
    /\ AddCandidate(run.job, run.rec, 0, run.origin)
    /\ run' = [run EXCEPT !.pc = "register", !.at = NobodyFound, !.rec = NoRecord]
    /\ UNCHANGED <<telegram, observed, chat, alias, status, asked, counters>>

Registered ==
    /\ run.pc = "register"
    /\ run.found = {}
    /\ run' = [run EXCEPT !.pc = "find", !.origin = Idle.origin]
    /\ UNCHANGED <<telegram, observed, store, asked, counters>>

(***************************************************************************)
(* A wave: what is undecided is listed, and scored from the list.          *)
(***************************************************************************)
List ==
    /\ \/ run.pc = "find" /\ run.seeds = {} /\ run.terms = {}
       \/ run.pc = "list"
    /\ run' = [run EXCEPT !.pc = "score",
                          !.todo = {[rec |-> r, sources |-> cand[run.job][r].sources] :
                                      r \in Undecided(run.job)}]
    /\ UNCHANGED <<telegram, observed, store, asked, counters>>

\* Mutant: a high value approves on its own.
DecisionsByValue(public, sources, wave) ==
    IF ~public THEN {"blocked_private"}
    ELSE {"rejected", "awaiting_approval", "approved"}
\* scoring.py: the proof of public scope comes first; the title, the size and
\* the flags give a value against the two thresholds.
Decisions(public, sources, wave) ==
    IF ~public THEN {"blocked_private"}
    ELSE {"rejected", "awaiting_approval"} \cup
         (IF sources >= MinSources /\ wave <= MaxAutoWave THEN {"approved"} ELSE {})

Score(c) ==
    /\ run.pc = "score"
    /\ c \in run.todo
    /\ \E decision \in Decisions(chat[c.rec].public, c.sources, cand[run.job][c.rec].wave) :
         run' = [run EXCEPT !.pc = "decide", !.todo = @ \ {c}, !.rec = c.rec,
                            !.decision = decision]
    /\ SetCandidate(run.job, c.rec, [cand[run.job][c.rec] EXCEPT !.state = "scored"])
    /\ UNCHANGED <<telegram, observed, chat, alias, status, asked, counters>>

JoinsLeft == run.joins < JoinsOf[run.job]
MayJoin == run.cli /\ JoinsOf[run.job] > 0

NextCandidate == [run EXCEPT !.pc = "score", !.rec = NoRecord, !.decision = "absent",
                             !.entity = NoPeer, !.outcome = "none"]

Decide ==
    /\ run.pc = "decide"
    /\ Transition(run.job, run.rec, run.decision)
    /\ run' = IF run.decision # "approved" \/ ~MayJoin THEN NextCandidate
              ELSE IF JoinsLeft THEN [run EXCEPT !.pc = "enter"]
              ELSE Stopped("completed_partial")
    /\ UNCHANGED <<telegram, observed, chat, alias, status, asked, counters>>

(***************************************************************************)
(* Joining: the reference is resolved again, so the chat entered is the    *)
(* one that holds the name now, or the one the client remembers.           *)
(***************************************************************************)
Reference == chat[run.rec].name

Enter ==
    /\ run.pc = "enter"
    /\ \/ /\ Transition(run.job, run.rec, "join_failed")
          /\ run' = NextCandidate
       \/ /\ \E p \in Holders(Reference) \cup ({chat[run.rec].peer} \ {NoPeer}) :
               run' = [run EXCEPT !.pc = "join", !.entity = p, !.joins = @ + 1]
          /\ UNCHANGED cand
    /\ UNCHANGED <<telegram, observed, chat, alias, status, asked, counters>>

JoinKey == <<run.job, Reference>>

\* A join the governor has made once is not made again.
Replayed ==
    /\ run.pc = "join"
    /\ JoinKey \in asked
    /\ Transition(run.job, run.rec, "join_failed")
    /\ run' = NextCandidate
    /\ UNCHANGED <<telegram, observed, chat, alias, status, asked, counters>>

Refused ==
    /\ run.pc = "join"
    /\ JoinKey \notin asked
    /\ asked' \in {asked, asked \cup {JoinKey}}   \* denied before the call, or flooded in it
    /\ run' = Stopped("completed_partial")
    /\ UNCHANGED <<telegram, observed, store, counters>>

JoinChannel(outcome) ==
    /\ run.pc = "join"
    /\ JoinKey \notin asked
    /\ asked' = asked \cup {JoinKey}
    /\ members' = IF outcome = "member" THEN members \cup {run.entity} ELSE members
    /\ run' = [run EXCEPT !.pc = "member", !.outcome = outcome]
    /\ UNCHANGED <<names, moves, observed, store, counters>>

\* set_chat_membership, transition_candidate and observe_chat are three
\* transactions, the last in the other database.
SetMembership ==
    /\ run.pc = "member"
    /\ chat' = [chat EXCEPT ![run.rec].membership = run.outcome]
    /\ run' = [run EXCEPT !.pc = "settle"]
    /\ UNCHANGED <<telegram, observed, alias, cand, status, asked, counters>>

Settle ==
    /\ run.pc = "settle"
    /\ Transition(run.job, run.rec, CASE run.outcome = "member" -> "joined"
                                      [] run.outcome = "requested" -> "join_requested"
                                      [] OTHER -> "join_failed")
    /\ run' = IF run.outcome = "member" /\ chat[run.rec].peer # NoPeer
              THEN [run EXCEPT !.pc = "observe", !.at = [peer |-> chat[run.rec].peer, name |-> NoName]]
              ELSE NextCandidate
    /\ UNCHANGED <<telegram, observed, chat, alias, status, asked, counters>>

LastWave == run.wave + 1 = MaxWaves

\* _backfill: the history of the entity entered names other chats, which are
\* candidates of the next wave if there is one.
Observe ==
    /\ run.pc = "observe"
    /\ observed' = observed \cup {run.at.peer}
    /\ \E links \in IF LastWave THEN {{}} ELSE SUBSET Usernames :
         run' = [NextCandidate EXCEPT !.pc = "links", !.links = links, !.at = NobodyFound]
    /\ UNCHANGED <<telegram, store, asked, counters>>

Link(u) ==
    /\ run.pc = "links"
    /\ u \in run.links
    /\ LET d == [peer |-> NoPeer, name |-> u] IN
       \E survivor \in Survivors(Known(d)) :
         /\ ResolveChat(d, survivor)
         /\ run' = [run EXCEPT !.pc = "linked", !.links = @ \ {u}, !.at = d, !.rec = survivor]
    /\ UNCHANGED <<telegram, observed, status, asked, counters>>

Linked ==
    /\ run.pc = "linked"
    /\ AddCandidate(run.job, run.rec, run.wave + 1, <<"link", run.at.name>>)
    /\ run' = [run EXCEPT !.pc = "links", !.at = NobodyFound, !.rec = NoRecord]
    /\ UNCHANGED <<telegram, observed, chat, alias, status, asked, counters>>

LinksQueued ==
    /\ run.pc = "links"
    /\ run.links = {}
    /\ run' = NextCandidate
    /\ UNCHANGED <<telegram, observed, store, asked, counters>>

(***************************************************************************)
(* The end of a wave and of a job.                                         *)
(***************************************************************************)
MoreToDo == Undecided(run.job) # {} /\ ~LastWave

EndWave ==
    /\ run.pc = "score"
    /\ run.todo = {}
    /\ run' = IF MoreToDo THEN [run EXCEPT !.pc = "list", !.wave = @ + 1]
              ELSE Stopped("completed")
    /\ UNCHANGED <<telegram, observed, store, asked, counters>>

Finish ==
    /\ run.pc = "finish"
    /\ status' = [status EXCEPT ![run.job] = Updated(@, run.outcome)]
    /\ run' = Idle
    /\ UNCHANGED <<telegram, observed, chat, alias, cand, asked, counters>>

\* Mutant: the handler that fails the job is dropped.
AfterErrorIgnored(s) == s

\* An error that no step expects: the daemon fails the job, recon_cli only exits.
AfterError(s) == IF run.cli THEN s ELSE Updated(s, "failed")

\* A join that is cut off in its call leaves its key used, and may have arrived:
\* an exception settles it as ambiguous, a death leaves the reservation.
CutOff ==
    \/ UNCHANGED <<asked, members>>
    \/ /\ run.pc = "join" /\ JoinKey \notin asked
       /\ asked' = asked \cup {JoinKey}
       /\ members' \in {members, members \cup {run.entity}}

\* An error that no step expects, out of any call of the run.
RunRaises ==
    /\ run.pc # "idle"
    /\ troubles < MaxTroubles
    /\ status' = [status EXCEPT ![run.job] = AfterError(@)]
    /\ interrupted' = IF run.cli THEN interrupted \cup {run.job} ELSE interrupted
    /\ run' = Idle
    /\ troubles' = troubles + 1
    /\ CutOff
    /\ UNCHANGED <<names, moves, observed, chat, alias, cand, runs>>

\* The process is killed or shut down: the job stays as it is, and only
\* recon_cli will run it again.
Killed ==
    /\ run.pc # "idle"
    /\ troubles < MaxTroubles
    /\ interrupted' = interrupted \cup {run.job}
    /\ run' = Idle
    /\ troubles' = troubles + 1
    /\ CutOff
    /\ UNCHANGED <<names, moves, observed, store, runs>>

\* A username is given up, and perhaps taken by another chat.
Rename(p, u) ==
    /\ moves < MaxMoves
    /\ u # names[p]
    /\ names' = [q \in Peers |-> IF q = p THEN u
                                 ELSE IF names[q] = u THEN NoName ELSE names[q]]
    /\ moves' = moves + 1
    /\ UNCHANGED <<members, observed, store, run, asked, counters>>

RunnerStep ==
    \/ \E u \in Usernames : ResolveSeed(u) \/ Link(u)
    \/ \E t \in Terms : Search(t)
    \/ \E d \in run.found : Register(d)
    \/ \E c \in run.todo : Score(c)
    \/ \E outcome \in {"member", "requested", "failed"} : JoinChannel(outcome)
    \/ Prove \/ Attach \/ Registered \/ List \/ Decide
    \/ Enter \/ Replayed \/ Refused \/ SetMembership \/ Settle \/ Observe
    \/ Linked \/ LinksQueued \/ EndWave \/ Finish

DiscoveryNext ==
    \/ \E j \in Jobs : Submit(j) \/ DaemonStart(j) \/ CliStart(j)
    \/ RunnerStep
    \/ RunRaises \/ Killed
    \/ \E p \in Peers, u \in Usernames \cup {NoName} : Rename(p, u)

DiscoverySpec == DiscoveryInit /\ [][DiscoveryNext]_discoveryVars

\* The daemon polls for queued jobs, and a run goes on until it ends.
DiscoveryFairSpec ==
    /\ DiscoverySpec
    /\ WF_discoveryVars(RunnerStep)
    /\ \A j \in Jobs : WF_discoveryVars(DaemonStart(j))

(***************************************************************************)
(* Types.                                                                  *)
(***************************************************************************)
Descriptions == [peer : Peers \cup {NoPeer}, name : Usernames \cup {NoName}]

ChatRows ==
    [peer : Peers \cup {NoPeer}, name : Usernames \cup {NoName}, public : BOOLEAN,
     membership : {"none", "member", "requested", "failed"}]

Origins == ({"owner", "link"} \X Usernames) \cup ({"term"} \X Terms) \cup {Idle.origin}

CandidateStates ==
    {"discovered", "scored", "blocked_private", "rejected", "awaiting_approval", "approved",
     "joined", "join_requested", "join_failed"}

CandRows ==
    [state : CandidateStates, wave : Nat, evidence : SUBSET Origins, sources : Nat]

Steps ==
    {"idle", "find", "register", "prove", "attach", "list", "score", "decide", "enter", "join",
     "member", "settle", "observe", "links", "linked", "finish"}

Outcomes == {"none", "member", "requested", "failed", "completed", "completed_partial"}

RunRows ==
    [pc : Steps, job : Jobs \cup {NoJob}, cli : BOOLEAN, wave : Nat, seeds : SUBSET Usernames,
     terms : SUBSET Terms, found : SUBSET Descriptions, origin : Origins, at : Descriptions,
     rec : Records \cup {NoRecord}, todo : SUBSET [rec : Records, sources : Nat],
     decision : CandidateStates \cup {"absent"}, joins : Nat, entity : Peers \cup {NoPeer},
     outcome : Outcomes, links : SUBSET Usernames]

\* Every variable has its type.
DiscoveryTypeOK ==
    /\ names \in [Peers -> Usernames \cup {NoName}]
    /\ members \in SUBSET Peers
    /\ observed \in SUBSET Peers
    /\ chat \in [Records -> ChatRows \cup {Absent}]
    /\ alias \in [Locators -> Records \cup {NoRecord}]
    /\ cand \in [Jobs -> [Records -> CandRows \cup {NoCand}]]
    /\ status \in [Jobs -> {"absent", "queued", "discovering"} \cup Terminal]
    /\ run \in RunRows
    /\ asked \in SUBSET (Jobs \X (Usernames \cup {NoName}))
    /\ interrupted \in SUBSET Jobs
    /\ runs \in [Jobs -> Nat]
    /\ moves \in Nat /\ troubles \in Nat

(***************************************************************************)
(* Properties.                                                             *)
(***************************************************************************)
\* chat_aliases and scout_chats agree: an alias names a stored record, a record
\* is found by the peer and the username it carries, and every candidate is of a
\* stored record.  A peer therefore belongs to one record, whatever was merged
\* and whatever names changed hands: the UNIQUE column is never violated.
LocatorsAreOwned ==
    /\ \A x \in Locators : alias[x] # NoRecord => chat[alias[x]] # Absent
    /\ \A r \in Records : chat[r] # Absent =>
         \A x \in {chat[r].peer, chat[r].name} \ {NoPeer, NoName} : alias[x] = r
    /\ \A j \in Jobs : \A r \in Records : cand[j][r] # NoCand => chat[r] # Absent

\* independent_sources, which is stored, is the number of distinct origins of
\* the evidence, through rediscovery and merges.
SourcesAreCounted ==
    \A j \in Jobs : \A r \in Records : cand[j][r].sources = Cardinality(cand[j][r].evidence)

JoinStates == {"approved", "joined", "join_requested", "join_failed"}

\* Nothing is approved, and so nothing is joined, without the proof of enough
\* origins, although the count scored is the one of the listing.
ApprovedIsSupported ==
    \A j \in Jobs : \A r \in Records :
        cand[j][r].state \in JoinStates => Cardinality(cand[j][r].evidence) >= MinSources

\* A submitted job ends, unless the process running it does.
EveryJobEnds ==
    \A j \in Jobs : status[j] = "queued" ~> (status[j] \in Terminal \/ j \in interrupted)
=============================================================================
