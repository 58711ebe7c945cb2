--------------------------- MODULE WatcherReload ---------------------------
(***************************************************************************)
(* How a change of the watcher set reaches a daemon that must not restart: *)
(* the policy tables of storage/db.py, the poll of pipeline/agent_watchers *)
(* .py, reconcile_agent_watchers and reload_observation of main.py, the    *)
(* seeding of pipeline/embeddings.py, and the join worker, which reloads   *)
(* the routing through the same callback.                                  *)
(*                                                                         *)
(* The tables belong to the whole machine (the MCP bridge writes them from *)
(* its own process), the vector index is on disk, everything else is the   *)
(* memory of one event loop: a step is what runs between two awaits.       *)
(***************************************************************************)
EXTENDS Integers, Sequences, FiniteSets

CONSTANTS
    Chats,
    Watchers,       \* watcher names
    Config,         \* those of watchers.yml; the others are agent watchers
    Declared,       \* <<chat, watcher>> pairs watchers.yml declares
    Versions,       \* definitions of a watcher, a subset of Nat \ {0}
    Unusable,       \* stored definitions that parse_agent_watcher refuses
    NoOne,          \* no watcher, no chat
    MaxWrites,      \* bound: writes of the MCP bridge
    MaxJoins,       \* bound: chats the join worker activates
    MaxFaults,      \* bound: database or provider failures
    MaxStops        \* bound: crashes and shutdowns

ASSUME ReloadConstants ==
    /\ Config \subseteq Watchers
    /\ Declared \subseteq Chats \X Config
    /\ Versions \subseteq Nat \ {0}
    /\ 1 \in Versions
    /\ Unusable \subseteq Versions \ {1}
    /\ NoOne \notin Chats \cup Watchers
    /\ {MaxWrites, MaxJoins, MaxFaults, MaxStops} \subseteq Nat

VARIABLES
    \* SQLite
    def,        \* def[w]: active definition in agent_watchers, or Absent
    bound,      \* bound[c, w]: source of the chat_policy_bindings row, or "none"
    mode,       \* mode[c]: observed_chats.mode, or "none"
    generation, \* agent_watchers_meta.generation
    \* Chroma
    index,      \* index[w]: definition whose references fill the collection
    \* The daemon
    phase,      \* "down", "routing", "seeding", "up" or "fatal"
    live,       \* watchers_by_name, watcher_fingerprints and _agent_watchers
    routes,     \* chat_watchers
    observed,   \* observed_chats: the modes of the last snapshot
    filters,    \* filters: the rule filters handed to the processor
    handle,     \* handle[w]: definition of the collection check() would query
    seen,       \* AgentWatcherSync._seen_generation
    sync,       \* the tick in progress
    joiner,     \* the activation in progress
    reloads,    \* snapshots read and not yet swapped in, oldest first
    \* History
    unannounced,\* chats activated by a joiner that failed before its reload
    joins, faults, stops

tableVars == <<def, bound, mode, generation>>
routeVars == <<routes, observed, filters>>
taskVars == <<seen, sync, joiner, reloads>>
bounds == <<joins, faults, stops>>
reloadVars == <<tableVars, index, phase, live, routeVars, handle, taskVars,
                unannounced, bounds>>

Absent == 0
Unread == -1
NoTick == [pc |-> "idle", gen |-> Unread, todo |-> {}, building |-> NoOne]
NoJoin == [pc |-> "idle", chat |-> NoOne, watcher |-> NoOne]

ReloadInit ==
    /\ def = [w \in Watchers |-> Absent]
    /\ bound = [p \in Chats \X Watchers |-> "none"]
    /\ mode = [c \in Chats |-> "none"]
    /\ generation = 0
    /\ index = [w \in Watchers |-> Absent]
    /\ phase = "down"
    /\ live = [w \in Watchers |-> Absent]
    /\ routes = [c \in Chats |-> {}]
    /\ observed = [c \in Chats |-> "none"]
    /\ filters = [w \in Watchers |-> Absent]
    /\ handle = [w \in Watchers |-> Absent]
    /\ seen = Unread
    /\ sync = NoTick
    /\ joiner = NoJoin
    /\ reloads = <<>>
    /\ unannounced = {}
    /\ joins = 0 /\ faults = 0 /\ stops = 0

(***************************************************************************)
(* The MCP bridge.  Every write bumps the generation in its transaction.   *)
(***************************************************************************)
Announce == generation < MaxWrites /\ generation' = generation + 1

MonitoredIn(cs) == {c \in cs : mode[c] = "monitor"}

\* cs is the chat list of the caller, or every chat for None.
SaveAgentWatcher(w, v, cs) ==
    /\ Announce
    /\ w \notin Config
    /\ def' = [def EXCEPT ![w] = v]
    /\ bound' = [p \in Chats \X Watchers |->
            CASE p[2] = w /\ p[1] \in MonitoredIn(cs) /\ bound[p] = "none" -> "manual"
              [] p[2] = w /\ p[1] \notin MonitoredIn(cs) /\ bound[p] = "manual" -> "none"
              [] OTHER -> bound[p]]
    /\ UNCHANGED <<mode, index, phase, live, routeVars, handle, taskVars, unannounced, bounds>>

\* Mutant: a revocation that does not bump the generation.
RevokeUnannounced(w) ==
    /\ def[w] # Absent
    /\ def' = [def EXCEPT ![w] = Absent]
    /\ bound' = [p \in Chats \X Watchers |-> IF p[2] = w THEN "none" ELSE bound[p]]
    /\ UNCHANGED <<mode, generation, index, phase, live, routeVars, handle, taskVars,
                   unannounced, bounds>>

RevokeAgentWatcher(w) ==
    /\ Announce
    /\ def[w] # Absent
    /\ def' = [def EXCEPT ![w] = Absent]
    /\ bound' = [p \in Chats \X Watchers |-> IF p[2] = w THEN "none" ELSE bound[p]]
    /\ UNCHANGED <<mode, index, phase, live, routeVars, handle, taskVars, unannounced, bounds>>

BoundAnywhere == {w \in Watchers : \E c \in Chats : bound[<<c, w>>] # "none"}

\* resume_chat: monitor with one policy, or with all the chats around it have.
ResumeChat(c, m, ws) ==
    /\ Announce
    /\ mode' = [mode EXCEPT ![c] = m]
    /\ bound' = [p \in Chats \X Watchers |->
            IF m = "monitor" /\ p[1] = c /\ p[2] \in ws /\ bound[p] = "none"
            THEN "manual" ELSE bound[p]]
    /\ UNCHANGED <<def, index, phase, live, routeVars, handle, taskVars, unannounced, bounds>>

ResumeChoices(m) ==
    IF m = "monitor"
    THEN {BoundAnywhere} \cup {{w} : w \in {x \in Watchers : x \in Config \/ def[x] # Absent}}
    ELSE {{}}

(***************************************************************************)
(* reload_observation                                                      *)
(***************************************************************************)

\* merge_agent_watchers: the definitions the daemon would load now.
Merged ==
    [w \in Watchers |->
        IF w \in Config THEN 1
        ELSE IF def[w] \in Unusable THEN Absent ELSE def[w]]

SyncConfigBindings ==
    /\ bound' = [p \in Chats \X Watchers |->
            IF p \in Declared /\ bound[p] = "none" THEN "config" ELSE bound[p]]
    /\ mode' = [c \in Chats |->
            IF mode[c] = "none" /\ \E w \in Config : <<c, w>> \in Declared
            THEN "monitor" ELSE mode[c]]

\* observation_snapshot, read right after SyncConfigBindings.
Snapshot == [mode |-> mode', pairs |-> {p \in Chats \X Watchers : bound'[p] # "none"}]

\* Mutant: bindings to watchers that are not loaded are routed, too.
SwapUnloaded(s, lv) ==
    /\ observed' = s.mode
    /\ routes' = [c \in Chats |-> {w \in Watchers : s.mode[c] = "monitor" /\ <<c, w>> \in s.pairs}]
    /\ filters' = lv

\* Routing is built from a snapshot and from the watchers loaded at that moment.
Swap(s, lv) ==
    /\ observed' = s.mode
    /\ routes' = [c \in Chats |->
            {w \in Watchers : s.mode[c] = "monitor" /\ <<c, w>> \in s.pairs /\ lv[w] # Absent}]
    /\ filters' = lv

\* One connection thread answers in order, so snapshots are swapped in order.
ReadSnapshot(who) ==
    /\ SyncConfigBindings
    /\ reloads' = Append(reloads, [by |-> who, snap |-> Snapshot])
    /\ unannounced' = {}
    /\ UNCHANGED <<def, generation>>

SwapSnapshot(who) ==
    /\ reloads # <<>>
    /\ Head(reloads).by = who
    /\ Swap(Head(reloads).snap, live)
    /\ reloads' = Tail(reloads)

(***************************************************************************)
(* Start and stop of the daemon                                            *)
(***************************************************************************)

\* reconcile_agent_watchers(apply=False)
Start ==
    /\ phase = "down"
    /\ phase' = "routing"
    /\ live' = Merged
    /\ UNCHANGED <<tableVars, index, routeVars, handle, taskVars, unannounced, bounds>>

\* No task of this process runs yet, so the reload is one step.
StartRoutes ==
    /\ phase = "routing"
    /\ phase' = "seeding"
    /\ SyncConfigBindings
    /\ Swap(Snapshot, live)
    /\ unannounced' = {}
    /\ UNCHANGED <<def, generation, index, live, handle, taskVars, bounds>>

\* embedding_filter.start for every loaded watcher; then the tasks start.
StartSeeds ==
    /\ phase = "seeding"
    /\ phase' = "up"
    /\ index' = [w \in Watchers |-> IF live[w] # Absent THEN live[w] ELSE index[w]]
    /\ handle' = live
    /\ UNCHANGED <<tableVars, live, routeVars, taskVars, unannounced, bounds>>

Forgets ==
    /\ phase' = "down"
    /\ live' = [w \in Watchers |-> Absent]
    /\ routes' = [c \in Chats |-> {}]
    /\ observed' = [c \in Chats |-> "none"]
    /\ filters' = [w \in Watchers |-> Absent]
    /\ handle' = [w \in Watchers |-> Absent]
    /\ seen' = Unread
    /\ sync' = NoTick
    /\ joiner' = NoJoin
    /\ reloads' = <<>>
    /\ unannounced' = {}

Stop ==
    /\ phase # "down"
    /\ \/ phase = "fatal" /\ UNCHANGED stops
       \/ phase # "fatal" /\ stops < MaxStops /\ stops' = stops + 1
    /\ Forgets
    /\ UNCHANGED <<tableVars, index, joins, faults>>

Fault == faults < MaxFaults /\ faults' = faults + 1

\* A provider that fails at start ends the process; collections filled or
\* emptied by then stay on disk.
StartFails ==
    /\ phase = "seeding"
    /\ Fault
    /\ index' \in {i \in [Watchers -> Versions \cup {Absent}] : \A w \in Watchers :
            i[w] = index[w] \/ (live[w] # Absent /\ i[w] \in {live[w], Absent})}
    /\ Forgets
    /\ UNCHANGED <<tableVars, joins, stops>>

\* _ingest_update on a monitored chat looks up the fingerprint of every routed
\* watcher; a missing one is a KeyError, and on_new_message stops the daemon.
IngestLosesWatcher(c) ==
    /\ phase = "up"
    /\ observed[c] = "monitor"
    /\ \E w \in routes[c] : live[w] = Absent
    /\ phase' = "fatal"
    /\ UNCHANGED <<tableVars, index, live, routeVars, handle, taskVars, unannounced, bounds>>

(***************************************************************************)
(* AgentWatcherSync.run_once                                               *)
(***************************************************************************)

Running == phase \in {"up", "fatal"}

ReadGeneration ==
    /\ Running
    /\ sync.pc = "idle"
    /\ seen # generation
    /\ sync' = [NoTick EXCEPT !.pc = "reading", !.gen = generation]
    /\ UNCHANGED <<tableVars, index, phase, live, routeVars, handle, seen, joiner, reloads,
                   unannounced, bounds>>

\* Names, definitions and fingerprints change here; routing changes later.  An
\* unchanged set of definitions skips the seeding.
ReadDefinitions ==
    /\ Running
    /\ sync.pc = "reading"
    /\ live' = Merged
    /\ sync' = IF Merged = live
               THEN [sync EXCEPT !.pc = "reload"]
               ELSE [sync EXCEPT !.pc = "seeding",
                                 !.todo = {w \in Watchers : Merged[w] # Absent}]
    /\ UNCHANGED <<tableVars, index, phase, routeVars, handle, seen, joiner, reloads,
                   unannounced, bounds>>

\* The collection on disk carries the fingerprint of this definition already.
ReuseIndex(w) ==
    /\ Running
    /\ sync.pc = "seeding"
    /\ sync.building = NoOne
    /\ w \in sync.todo
    /\ index[w] = live[w]
    /\ handle' = [handle EXCEPT ![w] = live[w]]
    /\ sync' = [sync EXCEPT !.todo = @ \ {w}]
    /\ UNCHANGED <<tableVars, index, phase, live, routeVars, seen, joiner, reloads,
                   unannounced, bounds>>

\* A stale collection is deleted, an empty one made; embedding takes awaits.
DropIndex(w) ==
    /\ Running
    /\ sync.pc = "seeding"
    /\ sync.building = NoOne
    /\ w \in sync.todo
    /\ index[w] # live[w]
    /\ index' = [index EXCEPT ![w] = Absent]
    /\ sync' = [sync EXCEPT !.building = w]
    /\ UNCHANGED <<tableVars, phase, live, routeVars, handle, seen, joiner, reloads,
                   unannounced, bounds>>

FillIndex ==
    LET w == sync.building IN
    /\ Running
    /\ w # NoOne
    /\ index' = [index EXCEPT ![w] = live[w]]
    /\ handle' = [handle EXCEPT ![w] = live[w]]
    /\ sync' = [sync EXCEPT !.building = NoOne, !.todo = @ \ {w}]
    /\ UNCHANGED <<tableVars, phase, live, routeVars, seen, joiner, reloads, unannounced, bounds>>

SyncReads ==
    /\ Running
    /\ \/ sync.pc = "reload"
       \/ sync.pc = "seeding" /\ sync.todo = {}
    /\ ReadSnapshot("sync")
    /\ sync' = [sync EXCEPT !.pc = "swapping"]
    /\ UNCHANGED <<index, phase, live, routeVars, handle, seen, joiner, bounds>>

\* Mutant: the generation of the end of the tick is marked as seen.
SyncSwapsLatest ==
    /\ Running
    /\ SwapSnapshot("sync")
    /\ seen' = generation
    /\ sync' = NoTick
    /\ UNCHANGED <<tableVars, index, phase, live, handle, joiner, unannounced, bounds>>

SyncSwaps ==
    /\ Running
    /\ SwapSnapshot("sync")
    /\ seen' = sync.gen
    /\ sync' = NoTick
    /\ UNCHANGED <<tableVars, index, phase, live, handle, joiner, unannounced, bounds>>

\* Any exception of the tick is logged; the generation is not marked as seen.
SyncFails ==
    /\ Running
    /\ sync.pc \in {"reading", "seeding", "reload"}
    /\ Fault
    /\ sync' = NoTick
    /\ UNCHANGED <<tableVars, index, phase, live, routeVars, handle, seen, joiner, reloads,
                   unannounced, joins, stops>>

(***************************************************************************)
(* JoinWorker._activate                                                    *)
(***************************************************************************)

JoinObserves(c, w) ==
    /\ Running
    /\ joiner.pc = "idle"
    /\ joins < MaxJoins
    /\ joins' = joins + 1
    /\ mode' = [mode EXCEPT ![c] = IF w = NoOne THEN "recon" ELSE "monitor"]
    /\ joiner' = [pc |-> IF w = NoOne THEN "settled" ELSE "binding", chat |-> c, watcher |-> w]
    /\ UNCHANGED <<def, bound, generation, index, phase, live, routeVars, handle, seen, sync,
                   reloads, unannounced, faults, stops>>

JoinBinds ==
    LET p == <<joiner.chat, joiner.watcher>> IN
    /\ Running
    /\ joiner.pc = "binding"
    /\ bound' = [bound EXCEPT ![p] = IF @ = "none" THEN "recon" ELSE @]
    /\ joiner' = [joiner EXCEPT !.pc = "settled"]
    /\ UNCHANGED <<def, mode, generation, index, phase, live, routeVars, handle, seen, sync,
                   reloads, unannounced, bounds>>

JoinReads ==
    /\ Running
    /\ joiner.pc = "settled"
    /\ ReadSnapshot("joiner")
    /\ joiner' = [joiner EXCEPT !.pc = "swapping"]
    /\ UNCHANGED <<index, phase, live, routeVars, handle, seen, sync, bounds>>

JoinSwaps ==
    /\ Running
    /\ SwapSnapshot("joiner")
    /\ joiner' = NoJoin
    /\ UNCHANGED <<tableVars, index, phase, live, handle, seen, sync, unannounced, bounds>>

JoinFails ==
    /\ Running
    /\ joiner.pc \in {"binding", "settled"}
    /\ Fault
    /\ unannounced' = unannounced \cup {joiner.chat}
    /\ joiner' = NoJoin
    /\ UNCHANGED <<tableVars, index, phase, live, routeVars, handle, seen, sync, reloads,
                   joins, stops>>

ReloadNext ==
    \/ \E w \in Watchers :
        \/ \E v \in Versions, cs \in SUBSET Chats : SaveAgentWatcher(w, v, cs)
        \/ RevokeAgentWatcher(w)
        \/ ReuseIndex(w) \/ DropIndex(w)
    \/ \E c \in Chats :
        \/ \E m \in {"monitor", "recon", "paused"} :
            \E ws \in ResumeChoices(m) : ResumeChat(c, m, ws)
        \/ IngestLosesWatcher(c)
        \/ \E w \in Watchers \cup {NoOne} : JoinObserves(c, w)
    \/ Start \/ StartRoutes \/ StartSeeds \/ StartFails \/ Stop
    \/ ReadGeneration \/ ReadDefinitions \/ FillIndex \/ SyncReads \/ SyncSwaps \/ SyncFails
    \/ JoinBinds \/ JoinReads \/ JoinSwaps \/ JoinFails

ReloadSpec == ReloadInit /\ [][ReloadNext]_reloadVars

\* Supervision restarts the daemon, the poll ticks forever, and the event loop
\* resumes whoever is ready.
ReloadFairness ==
    /\ WF_reloadVars(Start)
    /\ WF_reloadVars(StartRoutes)
    /\ WF_reloadVars(StartSeeds)
    /\ WF_reloadVars(phase = "fatal" /\ Stop)
    /\ WF_reloadVars(ReadGeneration \/ ReadDefinitions \/ SyncReads \/ SyncSwaps)
    /\ WF_reloadVars(FillIndex \/ \E w \in Watchers : ReuseIndex(w) \/ DropIndex(w))
    /\ WF_reloadVars(JoinBinds \/ JoinReads \/ JoinSwaps)

ReloadFairSpec == ReloadSpec /\ ReloadFairness

-----------------------------------------------------------------------------
(***************************************************************************)
(* Correctness                                                             *)
(***************************************************************************)

Modes == {"none", "monitor", "recon", "paused"}
Snapshots == [mode : [Chats -> Modes], pairs : SUBSET (Chats \X Watchers)]
Loaded == [Watchers -> Versions \cup {Absent}]

\* Every variable has its type, and each task has at most one snapshot pending.
ReloadTypeOK ==
    /\ def \in Loaded
    /\ bound \in [Chats \X Watchers -> {"none", "config", "manual", "recon"}]
    /\ mode \in [Chats -> Modes]
    /\ generation \in 0..MaxWrites
    /\ index \in Loaded
    /\ phase \in {"down", "routing", "seeding", "up", "fatal"}
    /\ live \in Loaded
    /\ routes \in [Chats -> SUBSET Watchers]
    /\ observed \in [Chats -> Modes]
    /\ filters \in Loaded
    /\ handle \in Loaded
    /\ seen \in (0..MaxWrites) \cup {Unread}
    /\ sync \in [pc : {"idle", "reading", "seeding", "reload", "swapping"},
                 gen : (0..MaxWrites) \cup {Unread}, todo : SUBSET Watchers,
                 building : Watchers \cup {NoOne}]
    /\ joiner \in [pc : {"idle", "binding", "settled", "swapping"},
                   chat : Chats \cup {NoOne}, watcher : Watchers \cup {NoOne}]
    /\ reloads \in Seq([by : {"sync", "joiner"}, snap : Snapshots])
    /\ \A i, j \in 1..Len(reloads) : reloads[i].by = reloads[j].by => i = j
    /\ unannounced \in SUBSET Chats
    /\ joins \in 0..MaxJoins /\ faults \in 0..MaxFaults /\ stops \in 0..MaxStops

\* "A newly promoted chat would raise KeyError on its first message": whoever
\* is routed has a rule filter, through reloads of two tasks and restarts.
RoutedHasFilter == \A c \in Chats : \A w \in routes[c] : filters[w] # Absent

Wanted(c) ==
    {w \in Watchers : mode[c] = "monitor" /\ bound[<<c, w>>] # "none" /\ Merged[w] # Absent}

Settled == phase = "up" /\ sync.pc = "idle" /\ joiner.pc = "idle" /\ seen = generation

\* A generation marked as seen means that the tables of that generation are what
\* the daemon runs: writes between the reads of a tick, a failed tick and the
\* reloads of the join worker never leave an announced change unapplied.
NoChangeMissed ==
    Settled =>
        /\ live = Merged
        /\ \A c \in Chats \ unannounced : routes[c] = Wanted(c) /\ observed[c] = mode[c]

\* Once the writes stop, the routing is that of the tables, for good: a watcher
\* is never enabled on paper and blind in fact.
ChangesReachRouting ==
    <>[](\A c \in Chats \ unannounced : routes[c] = Wanted(c))

\* A watcher starts to see the messages of a chat only with the references of
\* its own definition in the index ("that ordering is the whole point").
SeededBeforeRouted ==
    [][phase = "up" =>
        \A c \in Chats : \A w \in routes'[c] \ routes[c] :
            index'[w] = live'[w] /\ handle'[w] = live'[w]]_reloadVars

\* "A bug here costs a stale watcher set until the next tick and never the
\* process": applying a change does not stop the daemon.
ReloadSparesProcess == phase # "fatal"
=============================================================================
