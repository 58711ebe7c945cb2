------------------------ MODULE WatcherReloadProofs ------------------------
(***************************************************************************)
(* Theorems about WatcherReload, for any chats, watchers, definitions and   *)
(* bounds that meet its assumptions.                                       *)
(***************************************************************************)
EXTENDS WatcherReload, SequenceTheorems, TLAPS

-----------------------------------------------------------------------------
(***************************************************************************)
(* The inductive invariant.                                                *)
(***************************************************************************)

\* A snapshot on its way belongs to a task that waits to swap it in, an activation
\* is of a chat, and a daemon that does not run yet has no task under way.
EntriesAreOfTasks ==
    /\ \A i \in 1..Len(reloads) :
        /\ reloads[i].by = "sync" => sync.pc = "swapping"
        /\ reloads[i].by = "joiner" => joiner.pc = "swapping"
    /\ joiner.pc # "idle" => joiner.chat \in Chats
    /\ ~Running => sync = NoTick /\ joiner = NoJoin /\ reloads = <<>> /\ seen = Unread

\* A tick that runs has a generation to apply.
NeverAhead ==
    /\ seen <= generation /\ sync.gen <= generation
    /\ sync.pc # "idle" => seen # generation

\* Nothing was written since the tick, or the last one, read the generation.
DefinitionsCurrent ==
    \/ seen = generation
    \/ sync.pc \in {"seeding", "reload", "swapping"} /\ sync.gen = generation
ReadCurrent == seen = generation \/ (sync.pc = "swapping" /\ sync.gen = generation)

\* The chat of an activation that has not read its snapshot yet.
InProgress == IF joiner.pc \in {"binding", "settled"} THEN {joiner.chat} ELSE {}

\* The routing of the chat is, or is about to be, that of the tables.
LastReadAgrees(c) ==
    IF reloads = <<>>
    THEN /\ observed[c] = mode[c]
         /\ routes[c] = {w \in Watchers :
                mode[c] = "monitor" /\ bound[<<c, w>>] # "none" /\ live[w] # Absent}
    ELSE /\ reloads[Len(reloads)].snap.mode[c] = mode[c]
         /\ \A w \in Watchers :
                <<c, w>> \in reloads[Len(reloads)].snap.pairs <=> bound[<<c, w>>] # "none"

DefinitionsAreLive == DefinitionsCurrent => live = Merged
ReadsAgree == ReadCurrent => \A c \in Chats \ (unannounced \cup InProgress) : LastReadAgrees(c)

ReloadInv ==
    /\ ReloadTypeOK
    /\ EntriesAreOfTasks
    /\ NeverAhead
    /\ DefinitionsAreLive
    /\ ReadsAgree
    /\ RoutedHasFilter

-----------------------------------------------------------------------------
(***************************************************************************)
(* The queue of snapshots.                                                 *)
(***************************************************************************)

Entries == [by : {"sync", "joiner"}, snap : Snapshots]

OnePerTask(q) == \A i, j \in 1..Len(q) : q[i].by = q[j].by => i = j

LEMMA Appended ==
    ASSUME NEW q \in Seq(Entries), OnePerTask(q), NEW e \in Entries,
           \A i \in 1..Len(q) : q[i].by # e.by
    PROVE  /\ Append(q, e) \in Seq(Entries) /\ OnePerTask(Append(q, e))
           /\ Append(q, e) # <<>> /\ Append(q, e)[Len(Append(q, e))] = e
           /\ \A i \in 1..Len(Append(q, e)) :
                Append(q, e)[i] = e \/ \E j \in 1..Len(q) : Append(q, e)[i] = q[j]
<1>1. /\ Append(q, e) \in Seq(Entries) /\ Len(Append(q, e)) = Len(q) + 1
      /\ Append(q, e)[Len(q) + 1] = e
      /\ \A i \in 1..Len(q) : Append(q, e)[i] = q[i]
    BY AppendProperties
<1>2. Len(q) \in Nat
    BY LenProperties
<1>3. ASSUME NEW i \in 1..Len(q) + 1
      PROVE  i = Len(q) + 1 \/ i \in 1..Len(q)
    BY <1>2
<1>4. OnePerTask(Append(q, e))
    BY <1>1, <1>3 DEF OnePerTask
<1>5. Append(q, e) # <<>>
    BY <1>1, <1>2
<1>6. QED
    BY <1>1, <1>3, <1>4, <1>5

LEMMA Popped ==
    ASSUME NEW q \in Seq(Entries), OnePerTask(q), q # <<>>
    PROVE  /\ Head(q) \in Entries /\ Tail(q) \in Seq(Entries) /\ OnePerTask(Tail(q))
           /\ \A i \in 1..Len(Tail(q)) :
                Tail(q)[i].by # Head(q).by /\ \E j \in 1..Len(q) : Tail(q)[i] = q[j]
           /\ Tail(q) # <<>> => Tail(q)[Len(Tail(q))] = q[Len(q)]
           /\ Tail(q) = <<>> => Head(q) = q[Len(q)]
           /\ \E j \in 1..Len(q) : Head(q) = q[j]
<1>1. /\ Head(q) \in Entries /\ Tail(q) \in Seq(Entries) /\ Len(Tail(q)) = Len(q) - 1
      /\ \A i \in 1..Len(Tail(q)) : Tail(q)[i] = q[i + 1]
    BY HeadTailProperties
<1>2. Len(q) \in Nat /\ Len(q) # 0 /\ Head(q) = q[1]
    BY LenProperties, EmptySeq
<1>3. \A i \in 1..Len(Tail(q)) : i + 1 \in 1..Len(q) /\ i + 1 # 1
    BY <1>1, <1>2
<1>4. OnePerTask(Tail(q))
    <2> SUFFICES ASSUME NEW i \in 1..Len(Tail(q)), NEW j \in 1..Len(Tail(q)),
                        Tail(q)[i].by = Tail(q)[j].by
                 PROVE  i = j
        BY DEF OnePerTask
    <2>1. i + 1 = j + 1
        BY <1>1, <1>3 DEF OnePerTask
    <2>2. QED
        BY <2>1
<1>5. \A i \in 1..Len(Tail(q)) :
        Tail(q)[i].by # Head(q).by /\ \E j \in 1..Len(q) : Tail(q)[i] = q[j]
    BY <1>1, <1>2, <1>3 DEF OnePerTask
<1>6. Tail(q) # <<>> => Tail(q)[Len(Tail(q))] = q[Len(q)]
    <2>1. Tail(q) # <<>> => Len(Tail(q)) \in 1..Len(Tail(q))
        BY <1>1, LenProperties, EmptySeq
    <2>2. QED
        BY <1>1, <1>2, <2>1
<1>7. Tail(q) = <<>> => Len(q) = 1
    <2>1. Tail(q) = <<>> => Len(Tail(q)) = 0
        BY EmptySeq
    <2>2. Len(Tail(q)) = Len(q) - 1 /\ Len(q) \in Nat
        BY <1>1, <1>2
    <2>3. ASSUME NEW m \in Int, NEW n \in Nat, m = n - 1, m = 0
          PROVE  n = 1
        BY <2>3
    <2>4. QED
        BY <2>1, <2>2, <2>3
<1>8. QED
    BY <1>1, <1>2, <1>4, <1>5, <1>6, <1>7

-----------------------------------------------------------------------------
(***************************************************************************)
(* What is loaded, read and swapped in.                                    *)
(***************************************************************************)

LEMMA MergedLoaded ==
    ASSUME ReloadTypeOK
    PROVE  Merged \in Loaded
BY ReloadConstants DEF ReloadTypeOK, Merged, Loaded

LEMMA SnapshotTyped ==
    ASSUME ReloadTypeOK, SyncConfigBindings
    PROVE  /\ bound' \in [Chats \X Watchers -> {"none", "config", "manual", "recon"}]
           /\ mode' \in [Chats -> Modes]
           /\ Snapshot \in Snapshots
<1>1. bound' \in [Chats \X Watchers -> {"none", "config", "manual", "recon"}]
    BY DEF ReloadTypeOK, SyncConfigBindings
<1>2. mode' \in [Chats -> Modes]
    BY DEF ReloadTypeOK, SyncConfigBindings, Modes
<1>3. QED
    BY <1>1, <1>2 DEF Snapshot, Snapshots

LEMMA SwapTyped ==
    ASSUME NEW s \in Snapshots, NEW lv \in Loaded, Swap(s, lv)
    PROVE  /\ routes' \in [Chats -> SUBSET Watchers] /\ observed' \in [Chats -> Modes]
           /\ filters' \in Loaded /\ RoutedHasFilter'
<1>1. routes' \in [Chats -> SUBSET Watchers]
    BY DEF Swap
<1>2. observed' \in [Chats -> Modes] /\ filters' \in Loaded
    BY DEF Swap, Snapshots
<1>3. \A c \in Chats : \A w \in routes'[c] : filters'[w] # Absent
    BY DEF Swap
<1>4. QED
    BY <1>1, <1>2, <1>3 DEF RoutedHasFilter

\* The routing of a chat after its snapshot is swapped in.
LEMMA SwapRoutes ==
    ASSUME NEW s \in Snapshots, NEW lv \in Loaded, Swap(s, lv), NEW c \in Chats
    PROVE  /\ observed'[c] = s.mode[c]
           /\ routes'[c] = {w \in Watchers : s.mode[c] = "monitor" /\ <<c, w>> \in s.pairs
                                                /\ lv[w] # Absent}
BY DEF Swap

\* A snapshot that is read in this step is what the tables say after it.
LEMMA SnapshotAgrees ==
    ASSUME ReloadTypeOK, SyncConfigBindings, NEW c \in Chats
    PROVE  /\ Snapshot.mode[c] = mode'[c]
           /\ \A w \in Watchers : <<c, w>> \in Snapshot.pairs <=> bound'[<<c, w>>] # "none"
BY DEF Snapshot

-----------------------------------------------------------------------------
(***************************************************************************)
(* Steps that touch neither a task nor what it has read.                   *)
(***************************************************************************)

\* A write of the bridge: whatever a tick has read of the generation is behind.
LEMMA BridgeKeeps ==
    ASSUME ReloadInv, Announce, def' \in Loaded, mode' \in [Chats -> Modes],
           bound' \in [Chats \X Watchers -> {"none", "config", "manual", "recon"}],
           UNCHANGED <<index, phase, live, routeVars, handle, taskVars, unannounced, bounds>>
    PROVE  ReloadInv'
<1> USE DEF ReloadInv
<1>1. generation' = generation + 1 /\ generation' \in 0..MaxWrites
    BY ReloadConstants DEF Announce, ReloadTypeOK
<1>2. ReloadTypeOK'
    BY <1>1 DEF ReloadTypeOK, routeVars, taskVars, bounds
<1>3. EntriesAreOfTasks'
    BY DEF EntriesAreOfTasks, Running, taskVars
<1>4. seen # generation' /\ sync.gen # generation' /\ seen <= generation' /\ sync.gen <= generation'
    BY <1>1 DEF NeverAhead, ReloadTypeOK, Unread
<1>5. NeverAhead' /\ DefinitionsAreLive' /\ ReadsAgree'
    BY <1>4 DEF NeverAhead, DefinitionsAreLive, DefinitionsCurrent, ReadsAgree, ReadCurrent, taskVars
<1>6. RoutedHasFilter'
    BY DEF RoutedHasFilter, routeVars
<1>7. QED
    BY <1>2, <1>3, <1>5, <1>6

LEMMA WritesKeep ==
    ASSUME ReloadInv,
           \/ \E w \in Watchers, v \in Versions, cs \in SUBSET Chats : SaveAgentWatcher(w, v, cs)
           \/ \E w \in Watchers : RevokeAgentWatcher(w)
           \/ \E c \in Chats, m \in {"monitor", "recon", "paused"} :
                \E ws \in ResumeChoices(m) : ResumeChat(c, m, ws)
    PROVE  ReloadInv'
<1>1. /\ def \in [Watchers -> Versions \cup {Absent}] /\ mode \in [Chats -> Modes]
      /\ bound \in [Chats \X Watchers -> {"none", "config", "manual", "recon"}]
    BY DEF ReloadInv, ReloadTypeOK, Loaded
<1>2. CASE \E w \in Watchers, v \in Versions, cs \in SUBSET Chats : SaveAgentWatcher(w, v, cs)
    <2>1. /\ def' \in Loaded /\ mode' \in [Chats -> Modes]
          /\ bound' \in [Chats \X Watchers -> {"none", "config", "manual", "recon"}]
        BY <1>1, <1>2 DEF SaveAgentWatcher, Loaded
    <2>2. QED
        BY <1>2, <2>1, BridgeKeeps DEF SaveAgentWatcher
<1>3. CASE \E w \in Watchers : RevokeAgentWatcher(w)
    <2>1. /\ def' \in Loaded /\ mode' \in [Chats -> Modes]
          /\ bound' \in [Chats \X Watchers -> {"none", "config", "manual", "recon"}]
        BY <1>1, <1>3 DEF RevokeAgentWatcher, Loaded
    <2>2. QED
        BY <1>3, <2>1, BridgeKeeps DEF RevokeAgentWatcher
<1>4. ASSUME NEW c \in Chats, NEW m \in {"monitor", "recon", "paused"}, NEW ws \in ResumeChoices(m),
             ResumeChat(c, m, ws)
      PROVE  ReloadInv'
    <2>1. /\ def' \in Loaded /\ mode' \in [Chats -> Modes]
          /\ bound' \in [Chats \X Watchers -> {"none", "config", "manual", "recon"}]
        BY <1>1, <1>4 DEF ResumeChat, Loaded, Modes
    <2>2. QED
        BY <1>4, <2>1, BridgeKeeps DEF ResumeChat
<1>5. QED
    BY <1>2, <1>3, <1>4

\* The seeding works on the index alone.
LEMMA SeedingKeeps ==
    ASSUME ReloadInv, (\E w \in Watchers : ReuseIndex(w) \/ DropIndex(w)) \/ FillIndex
    PROVE  ReloadInv'
<1> USE DEF ReloadInv
<1>1. /\ Running
      /\ UNCHANGED <<tableVars, phase, live, routeVars, seen, joiner, reloads, unannounced, bounds>>
    BY DEF ReuseIndex, DropIndex, FillIndex
<1>2. /\ index' \in Loaded /\ handle' \in Loaded
      /\ sync' \in [pc : {"idle", "reading", "seeding", "reload", "swapping"},
                    gen : (0..MaxWrites) \cup {Unread}, todo : SUBSET Watchers,
                    building : Watchers \cup {NoOne}]
      /\ sync'.pc = sync.pc /\ sync'.gen = sync.gen
    <2>1. CASE \E w \in Watchers : ReuseIndex(w)
        <3>1. PICK w \in Watchers : ReuseIndex(w)
            BY <2>1
        <3>2. index' = index /\ handle' = [handle EXCEPT ![w] = live[w]]
            BY <3>1 DEF ReuseIndex
        <3>3. index' \in Loaded /\ handle' \in Loaded
            BY <3>2 DEF ReloadTypeOK, Loaded
        <3>4. QED
            BY <3>1, <3>3 DEF ReuseIndex, ReloadTypeOK
    <2>2. CASE \E w \in Watchers : DropIndex(w)
        BY <2>2 DEF DropIndex, ReloadTypeOK, Loaded
    <2>3. CASE FillIndex
        <3>1. sync.building \in Watchers
            BY <2>3 DEF FillIndex, ReloadTypeOK
        <3>2. QED
            BY <2>3, <3>1 DEF FillIndex, ReloadTypeOK, Loaded
    <2>4. QED
        BY <2>1, <2>2, <2>3
<1>3. ReloadTypeOK'
    BY <1>1, <1>2 DEF ReloadTypeOK, tableVars, routeVars, bounds
<1>4. EntriesAreOfTasks'
    BY <1>1, <1>2 DEF EntriesAreOfTasks, Running
<1>5. NeverAhead'
    BY <1>1, <1>2 DEF NeverAhead, tableVars
<1>6. DefinitionsAreLive'
    BY <1>1, <1>2 DEF DefinitionsAreLive, DefinitionsCurrent, Merged, tableVars
<1>7. ReadsAgree' /\ RoutedHasFilter'
    BY <1>1, <1>2 DEF ReadsAgree, ReadCurrent, InProgress, LastReadAgrees, RoutedHasFilter,
        tableVars, routeVars
<1>8. QED
    BY <1>3, <1>4, <1>5, <1>6, <1>7

\* A daemon that does not run its tasks yet has seen no generation.
LEMMA StartingKeeps ==
    ASSUME ReloadInv, ~Running, UNCHANGED <<generation, taskVars>>, ReloadTypeOK', RoutedHasFilter'
    PROVE  ReloadInv'
<1>1. seen = Unread /\ sync = NoTick /\ joiner = NoJoin /\ reloads = <<>>
    BY DEF ReloadInv, EntriesAreOfTasks
<1>2. seen # generation /\ generation \in Nat
    BY <1>1 DEF ReloadInv, ReloadTypeOK, Unread
<1>3. EntriesAreOfTasks'
    BY <1>1, EmptySeq DEF EntriesAreOfTasks, taskVars, NoJoin
<1>4. NeverAhead'
    BY <1>1, <1>2 DEF NeverAhead, taskVars, NoTick, Unread
<1>5. DefinitionsAreLive' /\ ReadsAgree'
    BY <1>1, <1>2 DEF DefinitionsAreLive, DefinitionsCurrent, ReadsAgree, ReadCurrent, taskVars, NoTick
<1>6. QED
    BY <1>3, <1>4, <1>5 DEF ReloadInv

LEMMA StartKeeps ==
    ASSUME ReloadInv, Start \/ StartRoutes \/ StartSeeds
    PROVE  ReloadInv'
<1> USE DEF ReloadInv
<1>1. ~Running /\ UNCHANGED <<generation, taskVars>>
    BY DEF Start, StartRoutes, StartSeeds, Running, tableVars
<1>2. CASE Start
    <2>1. ReloadTypeOK'
        BY <1>2, MergedLoaded DEF Start, ReloadTypeOK, tableVars, routeVars, taskVars, bounds
    <2>2. RoutedHasFilter'
        BY <1>2 DEF Start, RoutedHasFilter, routeVars
    <2>3. QED
        BY <1>1, <2>1, <2>2, StartingKeeps
<1>3. CASE StartRoutes
    <2>1. /\ SyncConfigBindings /\ Swap(Snapshot, live) /\ live \in Loaded /\ phase' = "seeding"
          /\ unannounced' = {}
          /\ UNCHANGED <<def, generation, index, live, handle, taskVars, bounds>>
        BY <1>3 DEF StartRoutes, ReloadTypeOK
    <2>2. /\ bound' \in [Chats \X Watchers -> {"none", "config", "manual", "recon"}]
          /\ mode' \in [Chats -> Modes] /\ Snapshot \in Snapshots
        BY <2>1, SnapshotTyped
    <2>3. PICK s \in Snapshots : Swap(s, live)
        BY <2>1, <2>2
    <2>4. /\ routes' \in [Chats -> SUBSET Watchers] /\ observed' \in [Chats -> Modes]
          /\ filters' \in Loaded /\ RoutedHasFilter'
        BY <2>1, <2>3, SwapTyped
    <2>5. ReloadTypeOK'
        BY <2>1, <2>2, <2>4 DEF ReloadTypeOK, taskVars, bounds
    <2>6. QED
        BY <1>1, <2>4, <2>5, StartingKeeps
<1>4. CASE StartSeeds
    <2>1. /\ index' \in Loaded /\ handle' \in Loaded /\ phase' = "up"
          /\ UNCHANGED <<tableVars, live, routeVars, taskVars, unannounced, bounds>>
        BY <1>4 DEF StartSeeds, ReloadTypeOK, Loaded
    <2>2. ReloadTypeOK'
        BY <2>1 DEF ReloadTypeOK, tableVars, routeVars, taskVars, bounds
    <2>3. RoutedHasFilter'
        BY <2>1 DEF RoutedHasFilter, routeVars
    <2>4. QED
        BY <1>1, <2>2, <2>3, StartingKeeps
<1>5. QED
    BY <1>2, <1>3, <1>4

\* A daemon that ends forgets everything but the tables and the index.
LEMMA ForgetsKeeps ==
    ASSUME ReloadInv, Forgets, UNCHANGED tableVars, index' \in Loaded,
           joins' \in 0..MaxJoins, faults' \in 0..MaxFaults, stops' \in 0..MaxStops
    PROVE  ReloadInv'
<1> USE DEF ReloadInv
<1>1. /\ phase' = "down" /\ seen' = Unread /\ sync' = NoTick /\ joiner' = NoJoin /\ reloads' = <<>>
      /\ unannounced' = {} /\ routes' = [c \in Chats |-> {}]
    BY DEF Forgets
<1>2. ReloadTypeOK'
    <2>1. /\ live' \in Loaded /\ filters' \in Loaded /\ handle' \in Loaded
          /\ routes' \in [Chats -> SUBSET Watchers] /\ observed' \in [Chats -> Modes]
        BY DEF Forgets, Loaded, Modes
    <2>2. /\ sync' \in [pc : {"idle", "reading", "seeding", "reload", "swapping"},
                        gen : (0..MaxWrites) \cup {Unread}, todo : SUBSET Watchers,
                        building : Watchers \cup {NoOne}]
          /\ joiner' \in [pc : {"idle", "binding", "settled", "swapping"},
                          chat : Chats \cup {NoOne}, watcher : Watchers \cup {NoOne}]
        BY <1>1 DEF NoTick, NoJoin
    <2>3. reloads' \in Seq(Entries) /\ Len(reloads') = 0
        BY <1>1, EmptySeq
    <2>4. QED
        BY <1>1, <2>1, <2>2, <2>3 DEF ReloadTypeOK, tableVars, Entries
<1>3. EntriesAreOfTasks'
    BY <1>1, EmptySeq DEF EntriesAreOfTasks, NoJoin
<1>4. generation' = generation /\ generation \in Nat /\ generation # Unread /\ NoTick.gen = Unread
    BY DEF ReloadTypeOK, tableVars, Unread, NoTick
<1>5. NeverAhead' /\ DefinitionsAreLive' /\ ReadsAgree'
    BY <1>1, <1>4 DEF NeverAhead, DefinitionsAreLive, DefinitionsCurrent, ReadsAgree, ReadCurrent,
        NoTick, Unread
<1>6. RoutedHasFilter'
    BY <1>1 DEF RoutedHasFilter
<1>7. QED
    BY <1>2, <1>3, <1>5, <1>6

LEMMA EndKeeps ==
    ASSUME ReloadInv, StartFails \/ Stop
    PROVE  ReloadInv'
<1>1. Forgets /\ UNCHANGED <<tableVars, joins>> /\ ReloadTypeOK
    BY DEF StartFails, Stop, ReloadInv
<1>2. index' \in Loaded
    BY <1>1 DEF StartFails, Stop, ReloadTypeOK, Loaded
<1>3. faults' \in 0..MaxFaults /\ stops' \in 0..MaxStops
    BY <1>1, ReloadConstants DEF StartFails, Stop, Fault, ReloadTypeOK
<1>4. QED
    BY <1>1, <1>2, <1>3, ForgetsKeeps DEF ReloadTypeOK

LEMMA IngestKeeps ==
    ASSUME ReloadInv, NEW c \in Chats, IngestLosesWatcher(c)
    PROVE  ReloadInv'
<1> USE DEF ReloadInv
<1>1. /\ Running /\ phase' = "fatal"
      /\ UNCHANGED <<tableVars, index, live, routeVars, handle, taskVars, unannounced, bounds>>
    BY DEF IngestLosesWatcher, Running
<1>2. ReloadTypeOK'
    BY <1>1 DEF ReloadTypeOK, tableVars, routeVars, taskVars, bounds
<1>3. EntriesAreOfTasks' /\ NeverAhead'
    BY <1>1 DEF EntriesAreOfTasks, NeverAhead, Running, taskVars, tableVars
<1>4. DefinitionsAreLive' /\ ReadsAgree' /\ RoutedHasFilter'
    BY <1>1 DEF DefinitionsAreLive, DefinitionsCurrent, ReadsAgree, ReadCurrent, Merged,
        InProgress, LastReadAgrees, RoutedHasFilter, taskVars, tableVars, routeVars
<1>5. QED
    BY <1>2, <1>3, <1>4

-----------------------------------------------------------------------------
(***************************************************************************)
(* The tick.                                                               *)
(***************************************************************************)

\* Nothing is current while a tick has not read what it will swap in.
LEMMA TickBegins ==
    ASSUME ReloadInv, ReadGeneration \/ SyncFails
    PROVE  ReloadInv'
<1> USE DEF ReloadInv
<1>1. /\ Running /\ sync.pc # "swapping" /\ seen # generation
      /\ sync' = NoTick \/ sync' = [NoTick EXCEPT !.pc = "reading", !.gen = generation]
      /\ UNCHANGED <<tableVars, index, phase, live, routeVars, handle, seen, joiner, reloads,
                     unannounced, joins, stops>>
    BY DEF ReadGeneration, SyncFails, NeverAhead, bounds
<1>2. faults' \in 0..MaxFaults
    BY ReloadConstants DEF ReadGeneration, SyncFails, Fault, ReloadTypeOK, bounds
<1>3. /\ sync'.pc \in {"idle", "reading"} /\ sync'.gen \in {Unread, generation}
      /\ sync' \in [pc : {"idle", "reading", "seeding", "reload", "swapping"},
                    gen : (0..MaxWrites) \cup {Unread}, todo : SUBSET Watchers,
                    building : Watchers \cup {NoOne}]
    <2>1. NoTick = [pc |-> "idle", gen |-> Unread, todo |-> {}, building |-> NoOne]
        BY DEF NoTick
    <2>2. generation \in 0..MaxWrites
        BY DEF ReloadTypeOK
    <2>3. CASE sync' = NoTick
        BY <2>1, <2>3
    <2>4. CASE sync' = [NoTick EXCEPT !.pc = "reading", !.gen = generation]
        <3>1. sync' = [pc |-> "reading", gen |-> generation, todo |-> {}, building |-> NoOne]
            BY <2>1, <2>4
        <3>2. QED
            BY <2>2, <3>1
    <2>5. QED
        BY <1>1, <2>3, <2>4
<1>4. ReloadTypeOK'
    BY <1>1, <1>2, <1>3 DEF ReloadTypeOK, tableVars, routeVars
<1>5. EntriesAreOfTasks'
    BY <1>1 DEF EntriesAreOfTasks, Running
<1>6. NeverAhead'
    BY <1>1, <1>3 DEF NeverAhead, tableVars, ReloadTypeOK, Unread
<1>7. ~DefinitionsCurrent' /\ ~ReadCurrent'
    BY <1>1, <1>3 DEF DefinitionsCurrent, ReadCurrent, tableVars
<1>8. RoutedHasFilter'
    BY <1>1 DEF RoutedHasFilter, routeVars
<1>9. QED
    BY <1>4, <1>5, <1>6, <1>7, <1>8 DEF DefinitionsAreLive, ReadsAgree

\* The definitions that are loaded are those of the tables as they are now.
LEMMA DefinitionsKeep ==
    ASSUME ReloadInv, ReadDefinitions
    PROVE  ReloadInv'
<1> USE DEF ReloadInv
<1>1. /\ Running /\ sync.pc = "reading" /\ live' = Merged
      /\ UNCHANGED <<tableVars, index, phase, routeVars, handle, seen, joiner, reloads,
                     unannounced, bounds>>
    BY DEF ReadDefinitions
<1>2. /\ sync'.pc \in {"seeding", "reload"} /\ sync'.gen = sync.gen
      /\ sync' \in [pc : {"idle", "reading", "seeding", "reload", "swapping"},
                    gen : (0..MaxWrites) \cup {Unread}, todo : SUBSET Watchers,
                    building : Watchers \cup {NoOne}]
    <2>1. CASE Merged = live
        BY <2>1 DEF ReadDefinitions, ReloadTypeOK
    <2>2. CASE Merged # live
        <3>1. sync' = [sync EXCEPT !.pc = "seeding", !.todo = {w \in Watchers : Merged[w] # Absent}]
            BY <2>2 DEF ReadDefinitions
        <3>2. {w \in Watchers : Merged[w] # Absent} \in SUBSET Watchers
            OBVIOUS
        <3>3. PICK ws \in SUBSET Watchers : ws = {w \in Watchers : Merged[w] # Absent}
            BY <3>2
        <3>4. sync' = [sync EXCEPT !.pc = "seeding", !.todo = ws]
            BY <3>1, <3>3
        <3>5. QED
            BY <3>4 DEF ReloadTypeOK
    <2>3. QED
        BY <2>1, <2>2
<1>3. seen' # generation'
    BY <1>1 DEF NeverAhead, tableVars
<1>4. ReloadTypeOK'
    BY <1>1, <1>2, MergedLoaded DEF ReloadTypeOK, tableVars, routeVars, bounds
<1>5. EntriesAreOfTasks'
    BY <1>1 DEF EntriesAreOfTasks, Running
<1>6. NeverAhead'
    BY <1>1, <1>2, <1>3 DEF NeverAhead, tableVars
<1>7. DefinitionsAreLive' /\ ~ReadCurrent'
    BY <1>1, <1>2, <1>3 DEF DefinitionsAreLive, ReadCurrent, Merged, tableVars
<1>8. RoutedHasFilter'
    BY <1>1 DEF RoutedHasFilter, routeVars
<1>9. QED
    BY <1>4, <1>5, <1>6, <1>7, <1>8 DEF ReadsAgree

-----------------------------------------------------------------------------
(***************************************************************************)
(* Reading a snapshot and swapping it in, by either task.                  *)
(***************************************************************************)

\* The task that reads waits for nothing else; what it reads goes last.
LEMMA ReadTyped ==
    ASSUME ReloadInv, NEW who \in {"sync", "joiner"}, ReadSnapshot(who),
           \A i \in 1..Len(reloads) : reloads[i].by # who
    PROVE  /\ bound' \in [Chats \X Watchers -> {"none", "config", "manual", "recon"}]
           /\ mode' \in [Chats -> Modes] /\ unannounced' \in SUBSET Chats
           /\ UNCHANGED <<def, generation>>
           /\ reloads' \in Seq(Entries) /\ OnePerTask(reloads')
           /\ \A i \in 1..Len(reloads') :
                reloads'[i].by = who \/ \E j \in 1..Len(reloads) : reloads'[i] = reloads[j]
<1>1. SyncConfigBindings /\ reloads' = Append(reloads, [by |-> who, snap |-> Snapshot])
      /\ unannounced' = {} /\ UNCHANGED <<def, generation>>
    BY DEF ReadSnapshot
<1>2. /\ bound' \in [Chats \X Watchers -> {"none", "config", "manual", "recon"}]
      /\ mode' \in [Chats -> Modes] /\ Snapshot \in Snapshots
    BY <1>1, SnapshotTyped DEF ReloadInv
<1>3. PICK e \in Entries : e = [by |-> who, snap |-> Snapshot]
    BY <1>2 DEF Entries
<1>4. e.by = who
    BY <1>3
<1>5. reloads \in Seq(Entries) /\ OnePerTask(reloads)
    BY DEF ReloadInv, ReloadTypeOK, Entries, OnePerTask
<1>6. /\ Append(reloads, e) \in Seq(Entries) /\ OnePerTask(Append(reloads, e))
      /\ \A i \in 1..Len(Append(reloads, e)) :
            Append(reloads, e)[i] = e \/ \E j \in 1..Len(reloads) : Append(reloads, e)[i] = reloads[j]
    BY <1>4, <1>5, Appended
<1>7. reloads' = Append(reloads, e)
    BY <1>1, <1>3
<1>8. QED
    BY <1>1, <1>2, <1>4, <1>6, <1>7

\* After it, every chat is about to be routed as the tables say.
LEMMA ReadAgrees ==
    ASSUME ReloadInv, NEW who \in {"sync", "joiner"}, ReadSnapshot(who),
           \A i \in 1..Len(reloads) : reloads[i].by # who, NEW c \in Chats
    PROVE  LastReadAgrees(c)'
<1>1. SyncConfigBindings /\ reloads' = Append(reloads, [by |-> who, snap |-> Snapshot])
    BY DEF ReadSnapshot
<1>2. Snapshot \in Snapshots
    BY <1>1, SnapshotTyped DEF ReloadInv
<1>3. PICK e \in Entries : e = [by |-> who, snap |-> Snapshot]
    BY <1>2 DEF Entries
<1>4. e.by = who /\ e.snap = Snapshot
    BY <1>3
<1>5. reloads \in Seq(Entries) /\ OnePerTask(reloads)
    BY DEF ReloadInv, ReloadTypeOK, Entries, OnePerTask
<1>6. Append(reloads, e) # <<>> /\ Append(reloads, e)[Len(Append(reloads, e))] = e
    BY <1>4, <1>5, Appended
<1>7. reloads' # <<>> /\ reloads'[Len(reloads')].snap = Snapshot
    BY <1>1, <1>3, <1>4, <1>6
<1>8. /\ Snapshot.mode[c] = mode'[c]
      /\ \A w \in Watchers : <<c, w>> \in Snapshot.pairs <=> bound'[<<c, w>>] # "none"
    BY <1>1, SnapshotAgrees DEF ReloadInv
<1>9. QED
    BY <1>7, <1>8 DEF LastReadAgrees

\* A swap takes one entry, of its own task, and routes as that entry says.
LEMMA SwapKeeps ==
    ASSUME ReloadInv, NEW who \in {"sync", "joiner"}, SwapSnapshot(who)
    PROVE  /\ routes' \in [Chats -> SUBSET Watchers] /\ observed' \in [Chats -> Modes]
           /\ filters' \in Loaded /\ RoutedHasFilter'
           /\ reloads' \in Seq(Entries) /\ OnePerTask(reloads')
           /\ \E j \in 1..Len(reloads) : reloads[j].by = who
           /\ \A i \in 1..Len(reloads') :
                reloads'[i].by # who /\ \E j \in 1..Len(reloads) : reloads'[i] = reloads[j]
<1>1. reloads # <<>> /\ Head(reloads).by = who /\ Swap(Head(reloads).snap, live)
      /\ reloads' = Tail(reloads)
    BY DEF SwapSnapshot
<1>2. reloads \in Seq(Entries) /\ OnePerTask(reloads) /\ live \in Loaded
    BY DEF ReloadInv, ReloadTypeOK, Entries, OnePerTask
<1>3. /\ Head(reloads) \in Entries /\ Tail(reloads) \in Seq(Entries) /\ OnePerTask(Tail(reloads))
      /\ \A i \in 1..Len(Tail(reloads)) :
            Tail(reloads)[i].by # Head(reloads).by
            /\ \E j \in 1..Len(reloads) : Tail(reloads)[i] = reloads[j]
      /\ \E j \in 1..Len(reloads) : Head(reloads) = reloads[j]
    BY <1>1, <1>2, Popped
<1>4. PICK s \in Snapshots : s = Head(reloads).snap
    BY <1>3 DEF Entries
<1>5. /\ routes' \in [Chats -> SUBSET Watchers] /\ observed' \in [Chats -> Modes]
      /\ filters' \in Loaded /\ RoutedHasFilter'
    BY <1>1, <1>2, <1>4, SwapTyped
<1>6. QED
    BY <1>1, <1>3, <1>5

LEMMA SwapAgrees ==
    ASSUME ReloadInv, NEW who \in {"sync", "joiner"}, SwapSnapshot(who),
           UNCHANGED <<tableVars, live>>, NEW c \in Chats, LastReadAgrees(c)
    PROVE  LastReadAgrees(c)'
<1>1. reloads # <<>> /\ Swap(Head(reloads).snap, live) /\ reloads' = Tail(reloads)
    BY DEF SwapSnapshot
<1>2. reloads \in Seq(Entries) /\ OnePerTask(reloads) /\ live \in Loaded
    BY DEF ReloadInv, ReloadTypeOK, Entries, OnePerTask
<1>3. /\ Head(reloads) \in Entries
      /\ Tail(reloads) # <<>> => Tail(reloads)[Len(Tail(reloads))] = reloads[Len(reloads)]
      /\ Tail(reloads) = <<>> => Head(reloads) = reloads[Len(reloads)]
    BY <1>1, <1>2, Popped
<1>4. /\ reloads[Len(reloads)].snap.mode[c] = mode[c]
      /\ \A w \in Watchers :
            <<c, w>> \in reloads[Len(reloads)].snap.pairs <=> bound[<<c, w>>] # "none"
    BY <1>1 DEF LastReadAgrees
<1>5. CASE Tail(reloads) # <<>>
    BY <1>1, <1>3, <1>4, <1>5 DEF LastReadAgrees, tableVars
<1>6. CASE Tail(reloads) = <<>>
    <2>1. PICK s \in Snapshots : s = Head(reloads).snap
        BY <1>3 DEF Entries
    <2>2. /\ observed'[c] = s.mode[c]
          /\ routes'[c] = {w \in Watchers : s.mode[c] = "monitor" /\ <<c, w>> \in s.pairs
                                               /\ live[w] # Absent}
        BY <1>1, <1>2, <2>1, SwapRoutes
    <2>3. s.mode[c] = mode[c] /\ \A w \in Watchers : <<c, w>> \in s.pairs <=> bound[<<c, w>>] # "none"
        BY <1>3, <1>4, <1>6, <2>1
    <2>4. routes'[c] = {w \in Watchers :
                mode[c] = "monitor" /\ bound[<<c, w>>] # "none" /\ live[w] # Absent}
        BY <2>2, <2>3
    <2>5. QED
        BY <1>1, <1>6, <2>2, <2>3, <2>4 DEF LastReadAgrees, tableVars
<1>7. QED
    BY <1>5, <1>6

LEMMA SyncReadsKeeps ==
    ASSUME ReloadInv, SyncReads
    PROVE  ReloadInv'
<1> USE DEF ReloadInv
<1>1. /\ Running /\ sync.pc \in {"reload", "seeding"} /\ ReadSnapshot("sync")
      /\ sync' = [sync EXCEPT !.pc = "swapping"]
      /\ UNCHANGED <<index, phase, live, routeVars, handle, seen, joiner, bounds>>
    BY DEF SyncReads
<1>2. \A i \in 1..Len(reloads) : reloads[i].by # "sync"
    BY <1>1 DEF EntriesAreOfTasks
<1>3. /\ bound' \in [Chats \X Watchers -> {"none", "config", "manual", "recon"}]
      /\ mode' \in [Chats -> Modes] /\ unannounced' \in SUBSET Chats
      /\ UNCHANGED <<def, generation>>
      /\ reloads' \in Seq(Entries) /\ OnePerTask(reloads')
      /\ \A i \in 1..Len(reloads') :
            reloads'[i].by = "sync" \/ \E j \in 1..Len(reloads) : reloads'[i] = reloads[j]
    BY <1>1, <1>2, ReadTyped
<1>4. /\ sync'.pc = "swapping" /\ sync'.gen = sync.gen
      /\ sync' \in [pc : {"idle", "reading", "seeding", "reload", "swapping"},
                    gen : (0..MaxWrites) \cup {Unread}, todo : SUBSET Watchers,
                    building : Watchers \cup {NoOne}]
    BY <1>1 DEF ReloadTypeOK
<1>5. ReloadTypeOK'
    BY <1>1, <1>3, <1>4 DEF ReloadTypeOK, routeVars, bounds, Entries, OnePerTask
<1>6. EntriesAreOfTasks'
    BY <1>1, <1>3, <1>4 DEF EntriesAreOfTasks, Running
<1>7. NeverAhead'
    BY <1>1, <1>3, <1>4 DEF NeverAhead
<1>8. DefinitionsAreLive'
    BY <1>1, <1>3, <1>4 DEF DefinitionsAreLive, DefinitionsCurrent, Merged
<1>9. \A c \in Chats : LastReadAgrees(c)'
    BY <1>1, <1>2, ReadAgrees
<1>10. RoutedHasFilter'
    BY <1>1 DEF RoutedHasFilter, routeVars
<1>11. QED
    BY <1>5, <1>6, <1>7, <1>8, <1>9, <1>10 DEF ReadsAgree

LEMMA SyncSwapsKeeps ==
    ASSUME ReloadInv, SyncSwaps
    PROVE  ReloadInv'
<1> USE DEF ReloadInv
<1>1. /\ Running /\ SwapSnapshot("sync") /\ seen' = sync.gen /\ sync' = NoTick
      /\ UNCHANGED <<tableVars, index, phase, live, handle, joiner, unannounced, bounds>>
    BY DEF SyncSwaps
<1>2. /\ routes' \in [Chats -> SUBSET Watchers] /\ observed' \in [Chats -> Modes]
      /\ filters' \in Loaded /\ RoutedHasFilter'
      /\ reloads' \in Seq(Entries) /\ OnePerTask(reloads')
      /\ \E j \in 1..Len(reloads) : reloads[j].by = "sync"
      /\ \A i \in 1..Len(reloads') :
            reloads'[i].by # "sync" /\ \E j \in 1..Len(reloads) : reloads'[i] = reloads[j]
    BY <1>1, SwapKeeps
<1>3. sync.pc = "swapping"
    BY <1>2 DEF EntriesAreOfTasks
<1>4. NoTick.pc = "idle" /\ NoTick.gen = Unread
      /\ NoTick \in [pc : {"idle", "reading", "seeding", "reload", "swapping"},
                     gen : (0..MaxWrites) \cup {Unread}, todo : SUBSET Watchers,
                     building : Watchers \cup {NoOne}]
    BY DEF NoTick
<1>5. sync.gen \in (0..MaxWrites) \cup {Unread}
    BY DEF ReloadTypeOK
<1>6. ReloadTypeOK'
    BY <1>1, <1>2, <1>4, <1>5 DEF ReloadTypeOK, tableVars, bounds, Entries, OnePerTask
<1>7. EntriesAreOfTasks'
    BY <1>1, <1>2 DEF EntriesAreOfTasks, Running
<1>8. NeverAhead'
    BY <1>1, <1>4 DEF NeverAhead, tableVars, Unread, ReloadTypeOK
<1>9. DefinitionsCurrent' => DefinitionsCurrent
    BY <1>1, <1>3, <1>4 DEF DefinitionsCurrent, tableVars
<1>10. DefinitionsAreLive'
    BY <1>1, <1>9 DEF DefinitionsAreLive, Merged, tableVars
<1>11. ReadCurrent' => ReadCurrent
    BY <1>1, <1>3, <1>4 DEF ReadCurrent, tableVars
<1>12. unannounced' = unannounced /\ InProgress' = InProgress /\ UNCHANGED <<tableVars, live>>
    BY <1>1 DEF InProgress
<1>13. ReadsAgree'
    BY <1>1, <1>11, <1>12, SwapAgrees DEF ReadsAgree
<1>14. QED
    BY <1>2, <1>6, <1>7, <1>8, <1>10, <1>13

-----------------------------------------------------------------------------
(***************************************************************************)
(* The activation.  It bumps no generation: its chat is an exception until *)
(* its own reload, or the next one after it failed.                        *)
(***************************************************************************)

LEMMA JoinObservesKeeps ==
    ASSUME ReloadInv, NEW c \in Chats, NEW w \in Watchers \cup {NoOne}, JoinObserves(c, w)
    PROVE  ReloadInv'
<1> USE DEF ReloadInv
<1>1. /\ Running /\ joiner.pc = "idle" /\ joins < MaxJoins /\ joins' = joins + 1
      /\ UNCHANGED <<def, bound, generation, index, phase, live, routeVars, handle, seen, sync,
                     reloads, unannounced, faults, stops>>
    BY DEF JoinObserves
<1>2. PICK m \in {"recon", "monitor"} : mode' = [mode EXCEPT ![c] = m]
    BY DEF JoinObserves
<1>3. PICK p \in {"settled", "binding"} : joiner' = [pc |-> p, chat |-> c, watcher |-> w]
    BY DEF JoinObserves
<1>4. mode' \in [Chats -> Modes] /\ \A d \in Chats \ {c} : mode'[d] = mode[d]
    BY <1>2 DEF ReloadTypeOK, Modes
<1>5. /\ joiner'.pc \in {"settled", "binding"} /\ joiner'.chat = c
      /\ joiner' \in [pc : {"idle", "binding", "settled", "swapping"},
                      chat : Chats \cup {NoOne}, watcher : Watchers \cup {NoOne}]
    BY <1>3
<1>6. joins' \in 0..MaxJoins
    BY <1>1, ReloadConstants DEF ReloadTypeOK
<1>7. ReloadTypeOK'
    BY <1>1, <1>4, <1>5, <1>6 DEF ReloadTypeOK, routeVars
<1>8. EntriesAreOfTasks'
    BY <1>1, <1>5 DEF EntriesAreOfTasks, Running
<1>9. NeverAhead' /\ DefinitionsAreLive' /\ RoutedHasFilter'
    BY <1>1 DEF NeverAhead, DefinitionsAreLive, DefinitionsCurrent, Merged, RoutedHasFilter, routeVars
<1>10. InProgress' = {c} /\ InProgress = {}
    BY <1>1, <1>5 DEF InProgress
<1>11. ASSUME NEW d \in Chats \ {c}, LastReadAgrees(d)
       PROVE  LastReadAgrees(d)'
    BY <1>1, <1>4, <1>11 DEF LastReadAgrees, routeVars
<1>12. ReadCurrent' <=> ReadCurrent
    BY <1>1 DEF ReadCurrent
<1>13. ReadsAgree'
    BY <1>1, <1>10, <1>11, <1>12 DEF ReadsAgree
<1>14. QED
    BY <1>7, <1>8, <1>9, <1>13

LEMMA JoinBindsKeeps ==
    ASSUME ReloadInv, JoinBinds
    PROVE  ReloadInv'
<1> USE DEF ReloadInv
<1>1. /\ Running /\ joiner.pc = "binding" /\ joiner' = [joiner EXCEPT !.pc = "settled"]
      /\ bound' = [bound EXCEPT ![<<joiner.chat, joiner.watcher>>] =
                        IF @ = "none" THEN "recon" ELSE @]
      /\ UNCHANGED <<def, mode, generation, index, phase, live, routeVars, handle, seen, sync,
                     reloads, unannounced, bounds>>
    BY DEF JoinBinds
<1>2. /\ joiner.chat \in Chats /\ joiner'.pc = "settled" /\ joiner'.chat = joiner.chat
      /\ joiner' \in [pc : {"idle", "binding", "settled", "swapping"},
                      chat : Chats \cup {NoOne}, watcher : Watchers \cup {NoOne}]
    BY <1>1 DEF EntriesAreOfTasks, ReloadTypeOK
<1>3. /\ bound' \in [Chats \X Watchers -> {"none", "config", "manual", "recon"}]
      /\ \A d \in Chats \ {joiner.chat} : \A w \in Watchers : bound'[<<d, w>>] = bound[<<d, w>>]
    <2>1. bound \in [Chats \X Watchers -> {"none", "config", "manual", "recon"}]
        BY DEF ReloadTypeOK
    <2>2. PICK x : bound' = [bound EXCEPT ![<<joiner.chat, joiner.watcher>>] = x]
                   /\ x = IF bound[<<joiner.chat, joiner.watcher>>] = "none" THEN "recon"
                          ELSE bound[<<joiner.chat, joiner.watcher>>]
        BY <1>1
    <2>3. \A q \in Chats \X Watchers :
            bound'[q] = IF q = <<joiner.chat, joiner.watcher>> THEN x ELSE bound[q]
        BY <2>1, <2>2
    <2>4. \A q \in Chats \X Watchers : bound'[q] \in {"none", "config", "manual", "recon"}
        BY <2>1, <2>2, <2>3
    <2>5. \A d \in Chats \ {joiner.chat}, w \in Watchers :
            <<d, w>> \in Chats \X Watchers /\ <<d, w>> # <<joiner.chat, joiner.watcher>>
        OBVIOUS
    <2>6. bound' \in [Chats \X Watchers -> {"none", "config", "manual", "recon"}]
        BY <2>1, <2>2, <2>4
    <2>7. QED
        BY <2>3, <2>5, <2>6
<1>4. ReloadTypeOK'
    BY <1>1, <1>2, <1>3 DEF ReloadTypeOK, routeVars, bounds
<1>5. EntriesAreOfTasks'
    BY <1>1, <1>2 DEF EntriesAreOfTasks, Running
<1>6. NeverAhead' /\ DefinitionsAreLive' /\ RoutedHasFilter'
    BY <1>1 DEF NeverAhead, DefinitionsAreLive, DefinitionsCurrent, Merged, RoutedHasFilter, routeVars
<1>7. InProgress' = {joiner.chat} /\ InProgress = {joiner.chat}
    BY <1>1, <1>2 DEF InProgress
<1>8. ASSUME NEW d \in Chats \ {joiner.chat}, LastReadAgrees(d)
      PROVE  LastReadAgrees(d)'
    BY <1>1, <1>3, <1>8 DEF LastReadAgrees, routeVars
<1>9. ReadCurrent' <=> ReadCurrent
    BY <1>1 DEF ReadCurrent
<1>10. ReadsAgree'
    BY <1>1, <1>7, <1>8, <1>9 DEF ReadsAgree
<1>11. QED
    BY <1>4, <1>5, <1>6, <1>10

LEMMA JoinReadsKeeps ==
    ASSUME ReloadInv, JoinReads
    PROVE  ReloadInv'
<1> USE DEF ReloadInv
<1>1. /\ Running /\ joiner.pc = "settled" /\ ReadSnapshot("joiner")
      /\ joiner' = [joiner EXCEPT !.pc = "swapping"]
      /\ UNCHANGED <<index, phase, live, routeVars, handle, seen, sync, bounds>>
    BY DEF JoinReads
<1>2. \A i \in 1..Len(reloads) : reloads[i].by # "joiner"
    BY <1>1 DEF EntriesAreOfTasks
<1>3. /\ bound' \in [Chats \X Watchers -> {"none", "config", "manual", "recon"}]
      /\ mode' \in [Chats -> Modes] /\ unannounced' \in SUBSET Chats
      /\ UNCHANGED <<def, generation>>
      /\ reloads' \in Seq(Entries) /\ OnePerTask(reloads')
      /\ \A i \in 1..Len(reloads') :
            reloads'[i].by = "joiner" \/ \E j \in 1..Len(reloads) : reloads'[i] = reloads[j]
    BY <1>1, <1>2, ReadTyped
<1>4. /\ joiner'.pc = "swapping" /\ joiner'.chat = joiner.chat
      /\ joiner' \in [pc : {"idle", "binding", "settled", "swapping"},
                      chat : Chats \cup {NoOne}, watcher : Watchers \cup {NoOne}]
    BY <1>1 DEF ReloadTypeOK
<1>5. ReloadTypeOK'
    BY <1>1, <1>3, <1>4 DEF ReloadTypeOK, routeVars, bounds, Entries, OnePerTask
<1>6. EntriesAreOfTasks'
    BY <1>1, <1>3, <1>4 DEF EntriesAreOfTasks, Running
<1>7. NeverAhead' /\ DefinitionsAreLive' /\ RoutedHasFilter'
    BY <1>1, <1>3 DEF NeverAhead, DefinitionsAreLive, DefinitionsCurrent, Merged, RoutedHasFilter,
        routeVars
<1>8. \A c \in Chats : LastReadAgrees(c)'
    BY <1>1, <1>2, ReadAgrees
<1>9. QED
    BY <1>5, <1>6, <1>7, <1>8 DEF ReadsAgree

LEMMA JoinSwapsKeeps ==
    ASSUME ReloadInv, JoinSwaps
    PROVE  ReloadInv'
<1> USE DEF ReloadInv
<1>1. /\ Running /\ SwapSnapshot("joiner") /\ joiner' = NoJoin
      /\ UNCHANGED <<tableVars, index, phase, live, handle, seen, sync, unannounced, bounds>>
    BY DEF JoinSwaps
<1>2. /\ routes' \in [Chats -> SUBSET Watchers] /\ observed' \in [Chats -> Modes]
      /\ filters' \in Loaded /\ RoutedHasFilter'
      /\ reloads' \in Seq(Entries) /\ OnePerTask(reloads')
      /\ \E j \in 1..Len(reloads) : reloads[j].by = "joiner"
      /\ \A i \in 1..Len(reloads') :
            reloads'[i].by # "joiner" /\ \E j \in 1..Len(reloads) : reloads'[i] = reloads[j]
    BY <1>1, SwapKeeps
<1>3. joiner.pc = "swapping"
    BY <1>2 DEF EntriesAreOfTasks
<1>4. NoJoin.pc = "idle"
      /\ NoJoin \in [pc : {"idle", "binding", "settled", "swapping"},
                     chat : Chats \cup {NoOne}, watcher : Watchers \cup {NoOne}]
    BY DEF NoJoin
<1>5. ReloadTypeOK'
    BY <1>1, <1>2, <1>4 DEF ReloadTypeOK, tableVars, bounds, Entries, OnePerTask
<1>6. EntriesAreOfTasks'
    BY <1>1, <1>2, <1>4 DEF EntriesAreOfTasks, Running
<1>7. NeverAhead' /\ DefinitionsAreLive'
    BY <1>1 DEF NeverAhead, DefinitionsAreLive, DefinitionsCurrent, Merged, tableVars
<1>8. InProgress' = {} /\ InProgress = {} /\ unannounced' = unannounced /\ UNCHANGED <<tableVars, live>>
    BY <1>1, <1>3, <1>4 DEF InProgress
<1>9. ReadCurrent' <=> ReadCurrent
    BY <1>1 DEF ReadCurrent, tableVars
<1>10. ReadsAgree'
    BY <1>1, <1>8, <1>9, SwapAgrees DEF ReadsAgree
<1>11. QED
    BY <1>2, <1>5, <1>6, <1>7, <1>10

LEMMA JoinFailsKeeps ==
    ASSUME ReloadInv, JoinFails
    PROVE  ReloadInv'
<1> USE DEF ReloadInv
<1>1. /\ Running /\ joiner.pc \in {"binding", "settled"} /\ Fault /\ joiner' = NoJoin
      /\ unannounced' = unannounced \cup {joiner.chat}
      /\ UNCHANGED <<tableVars, index, phase, live, routeVars, handle, seen, sync, reloads,
                     joins, stops>>
    BY DEF JoinFails
<1>2. joiner.chat \in Chats
    BY <1>1 DEF EntriesAreOfTasks
<1>3. faults' \in 0..MaxFaults
    BY <1>1, ReloadConstants DEF Fault, ReloadTypeOK
<1>4. NoJoin.pc = "idle"
      /\ NoJoin \in [pc : {"idle", "binding", "settled", "swapping"},
                     chat : Chats \cup {NoOne}, watcher : Watchers \cup {NoOne}]
    BY DEF NoJoin
<1>5. ReloadTypeOK'
    BY <1>1, <1>2, <1>3, <1>4 DEF ReloadTypeOK, tableVars, routeVars
<1>6. EntriesAreOfTasks'
    BY <1>1, <1>4 DEF EntriesAreOfTasks, Running
<1>7. NeverAhead' /\ DefinitionsAreLive' /\ RoutedHasFilter'
    BY <1>1 DEF NeverAhead, DefinitionsAreLive, DefinitionsCurrent, Merged, RoutedHasFilter,
        tableVars, routeVars
<1>8. unannounced' \cup InProgress' = unannounced \cup InProgress
    BY <1>1, <1>4 DEF InProgress
<1>9. ASSUME NEW d \in Chats, LastReadAgrees(d)
      PROVE  LastReadAgrees(d)'
    BY <1>1, <1>9 DEF LastReadAgrees, tableVars, routeVars
<1>10. ReadCurrent' <=> ReadCurrent
    BY <1>1 DEF ReadCurrent, tableVars
<1>11. ReadsAgree'
    BY <1>8, <1>9, <1>10 DEF ReadsAgree
<1>12. QED
    BY <1>5, <1>6, <1>7, <1>11

-----------------------------------------------------------------------------
(***************************************************************************)
(* The invariant holds of every behaviour.                                 *)
(***************************************************************************)

LEMMA ReloadStart ==
    ASSUME ReloadInit
    PROVE  ReloadInv
<1>1. /\ def = [w \in Watchers |-> Absent] /\ bound = [p \in Chats \X Watchers |-> "none"]
      /\ mode = [c \in Chats |-> "none"] /\ generation = 0
      /\ index = [w \in Watchers |-> Absent] /\ phase = "down"
      /\ live = [w \in Watchers |-> Absent] /\ routes = [c \in Chats |-> {}]
      /\ observed = [c \in Chats |-> "none"] /\ filters = [w \in Watchers |-> Absent]
      /\ handle = [w \in Watchers |-> Absent] /\ seen = Unread /\ sync = NoTick
      /\ joiner = NoJoin /\ reloads = <<>> /\ unannounced = {}
      /\ joins = 0 /\ faults = 0 /\ stops = 0
    BY DEF ReloadInit
<1>2. ReloadTypeOK
    <2>1. /\ def \in Loaded /\ index \in Loaded /\ live \in Loaded /\ filters \in Loaded
          /\ handle \in Loaded
        BY <1>1 DEF Loaded
    <2>2. /\ bound \in [Chats \X Watchers -> {"none", "config", "manual", "recon"}]
          /\ mode \in [Chats -> Modes] /\ observed \in [Chats -> Modes]
          /\ routes \in [Chats -> SUBSET Watchers]
        BY <1>1 DEF Modes
    <2>3. /\ sync \in [pc : {"idle", "reading", "seeding", "reload", "swapping"},
                       gen : (0..MaxWrites) \cup {Unread}, todo : SUBSET Watchers,
                       building : Watchers \cup {NoOne}]
          /\ joiner \in [pc : {"idle", "binding", "settled", "swapping"},
                         chat : Chats \cup {NoOne}, watcher : Watchers \cup {NoOne}]
        BY <1>1 DEF NoTick, NoJoin
    <2>4. reloads \in Seq(Entries) /\ Len(reloads) = 0
        BY <1>1, EmptySeq
    <2>5. QED
        BY <1>1, <2>1, <2>2, <2>3, <2>4, ReloadConstants DEF ReloadTypeOK, Entries
<1>3. EntriesAreOfTasks
    BY <1>1, EmptySeq DEF EntriesAreOfTasks, NoJoin
<1>4. NeverAhead /\ DefinitionsAreLive /\ ReadsAgree
    BY <1>1 DEF NeverAhead, DefinitionsAreLive, DefinitionsCurrent, ReadsAgree, ReadCurrent, NoTick,
        Unread
<1>5. RoutedHasFilter
    BY <1>1 DEF RoutedHasFilter
<1>6. QED
    BY <1>2, <1>3, <1>4, <1>5 DEF ReloadInv

LEMMA ReloadStep ==
    ASSUME ReloadInv, [ReloadNext]_reloadVars
    PROVE  ReloadInv'
<1>1. CASE UNCHANGED reloadVars
    BY <1>1 DEF reloadVars, tableVars, routeVars, taskVars, bounds, ReloadInv, ReloadTypeOK,
        EntriesAreOfTasks, Running, NeverAhead, DefinitionsAreLive, DefinitionsCurrent, ReadsAgree,
        ReadCurrent, InProgress, LastReadAgrees, Merged, RoutedHasFilter
<1>2. CASE \/ \E w \in Watchers, v \in Versions, cs \in SUBSET Chats : SaveAgentWatcher(w, v, cs)
           \/ \E w \in Watchers : RevokeAgentWatcher(w)
           \/ \E c \in Chats, m \in {"monitor", "recon", "paused"} :
                \E ws \in ResumeChoices(m) : ResumeChat(c, m, ws)
    BY <1>2, WritesKeep
<1>3. CASE (\E w \in Watchers : ReuseIndex(w) \/ DropIndex(w)) \/ FillIndex
    BY <1>3, SeedingKeeps
<1>4. CASE \E c \in Chats : IngestLosesWatcher(c)
    BY <1>4, IngestKeeps
<1>5. CASE \E c \in Chats : \E w \in Watchers \cup {NoOne} : JoinObserves(c, w)
    BY <1>5, JoinObservesKeeps
<1>6. CASE Start \/ StartRoutes \/ StartSeeds
    BY <1>6, StartKeeps
<1>7. CASE StartFails \/ Stop
    BY <1>7, EndKeeps
<1>8. CASE ReadGeneration \/ SyncFails
    BY <1>8, TickBegins
<1>9. CASE ReadDefinitions
    BY <1>9, DefinitionsKeep
<1>10. CASE SyncReads
    BY <1>10, SyncReadsKeeps
<1>11. CASE SyncSwaps
    BY <1>11, SyncSwapsKeeps
<1>12. CASE JoinBinds
    BY <1>12, JoinBindsKeeps
<1>13. CASE JoinReads
    BY <1>13, JoinReadsKeeps
<1>14. CASE JoinSwaps
    BY <1>14, JoinSwapsKeeps
<1>15. CASE JoinFails
    BY <1>15, JoinFailsKeeps
<1>16. QED
    BY <1>1, <1>2, <1>3, <1>4, <1>5, <1>6, <1>7, <1>8, <1>9, <1>10, <1>11, <1>12, <1>13, <1>14,
        <1>15 DEF ReloadNext

THEOREM ReloadInvariant == ReloadSpec => []ReloadInv
<1>1. ReloadInit => ReloadInv
    BY ReloadStart
<1>2. ReloadInv /\ [ReloadNext]_reloadVars => ReloadInv'
    BY ReloadStep
<1>3. QED
    BY <1>1, <1>2, PTL DEF ReloadSpec

\* Every variable keeps its type, and each task has at most one snapshot
\* pending, for any number of chats and watchers and any bounds.
THEOREM ReloadTypes == ReloadSpec => []ReloadTypeOK
<1>1. ReloadInv => ReloadTypeOK
    BY DEF ReloadInv
<1>2. QED
    BY <1>1, ReloadInvariant, PTL

\* Whoever is routed has a rule filter, whichever of the two tasks reloaded
\* last and whatever definitions went away in between.
THEOREM RoutedAreFiltered == ReloadSpec => []RoutedHasFilter
<1>1. ReloadInv => RoutedHasFilter
    BY DEF ReloadInv
<1>2. QED
    BY <1>1, ReloadInvariant, PTL

\* A generation that is marked as seen is applied: definitions, modes and
\* routing are those of the tables once both tasks are idle.
THEOREM ChangesAreApplied == ReloadSpec => []NoChangeMissed
<1>1. ASSUME ReloadInv, Settled
      PROVE  /\ live = Merged
             /\ \A c \in Chats \ unannounced : routes[c] = Wanted(c) /\ observed[c] = mode[c]
    <2>1. seen = generation /\ sync.pc = "idle" /\ joiner.pc = "idle"
        BY <1>1 DEF Settled
    <2>2. live = Merged
        BY <1>1, <2>1 DEF ReloadInv, DefinitionsAreLive, DefinitionsCurrent
    <2>3. reloads = <<>>
        <3>1. reloads \in Seq(Entries) /\ \A i \in 1..Len(reloads) : reloads[i] \in Entries
            BY <1>1, ElementOfSeq DEF ReloadInv, ReloadTypeOK, Entries
        <3>2. \A i \in 1..Len(reloads) : reloads[i].by \in {"sync", "joiner"}
            BY <3>1 DEF Entries
        <3>3. ~\E i \in 1..Len(reloads) : TRUE
            BY <1>1, <2>1, <3>2 DEF ReloadInv, EntriesAreOfTasks
        <3>4. Len(reloads) \in Nat
            BY <3>1, LenProperties
        <3>5. Len(reloads) = 0
            BY <3>3, <3>4
        <3>6. QED
            BY <3>1, <3>5, EmptySeq
    <2>4. InProgress = {} /\ ReadCurrent
        BY <2>1 DEF InProgress, ReadCurrent
    <2>5. \A c \in Chats \ unannounced : LastReadAgrees(c)
        BY <1>1, <2>4 DEF ReloadInv, ReadsAgree
    <2>6. ASSUME NEW c \in Chats \ unannounced
          PROVE  routes[c] = Wanted(c) /\ observed[c] = mode[c]
        <3>1. /\ observed[c] = mode[c]
              /\ routes[c] = {w \in Watchers :
                    mode[c] = "monitor" /\ bound[<<c, w>>] # "none" /\ live[w] # Absent}
            BY <2>3, <2>5, <2>6 DEF LastReadAgrees
        <3>2. QED
            BY <2>2, <3>1 DEF Wanted
    <2>7. QED
        BY <2>2, <2>6
<1>2. ReloadInv => NoChangeMissed
    BY <1>1 DEF NoChangeMissed
<1>3. QED
    BY <1>2, ReloadInvariant, PTL

=============================================================================
