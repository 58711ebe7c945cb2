---------------------------- MODULE EntityIndexProofs ----------------------------
(***************************************************************************)
(* Theorems about EntityIndex, for any messages, texts, answers, processes *)
(* and bounds: the counts of the index are those of its mentions, one copy *)
(* of a text is sent and paid for, and its settled copies agree.           *)
(***************************************************************************)
EXTENDS EntityIndex, FiniteSetTheorems, SequenceTheorems, TLAPS

\* The one copy of a text that is ever sent: the earliest in the corpus.
Original(m) == m \in Indexed /\ \A e \in Indexed : Copies(e, m) => ~Earlier(e, m)

\* A message has a state once the corpus was seeded with it, and its seniors
\* with it; a job once it has a state; a settled job has the answer of now.
SeededInOrder ==
    /\ \A m \in Messages : state[m].status # "absent" =>
        /\ m \in Indexed
        /\ \A e \in Indexed : Earlier(e, m) => state[e].status # "absent"
    /\ \A m \in Messages : state[m].active = version => job[m].status # "absent"
    /\ \A m \in Messages : job[m].status # "absent" => state[m].status # "absent" /\ IsCandidate(m)
    /\ \A m \in Messages : job[m].status = "succeeded" => state[m].active = version

Open == {"pending", "error", "running"}

\* A run holds originals that have no answer, or copies of what is answered.
RunFacts(p) ==
    /\ \A m \in p.rows : Original(m) /\ job[m].status \in Open
    /\ \A t \in p.twins :
        /\ Copies(t.copy, t.source) /\ state[t.source].active = version
        /\ job[t.copy].status # "absent"
    /\ p.rows # {} => p.pc \in {"lease", "answers"}
    /\ p.twins # {} => p.pc = "settle"

\* The lock lets one run go on at a time.
RunsHold ==
    /\ \A k \in Processes : RunFacts(proc[k])
    /\ \A j, k \in Processes : proc[j].pc # "idle" /\ proc[k].pc # "idle" => j = k

OriginalsAreSent == \A m \in sent : Original(m)

\* An answer of now is that of the original, which is settled, and every copy
\* that has one has the same.
AnswersAgree ==
    /\ \A m \in Messages : state[m].active = version =>
        \E a \in Messages : Original(a) /\ Copies(a, m) /\ job[a].status = "succeeded"
    /\ \A m, n \in Messages :
        state[m].active = version /\ state[n].active = version /\ Copies(m, n) =>
            mentions[m] = mentions[n]

CountsMatch ==
    /\ placeCount = [p \in Places |-> PlaceTotal(mentions, p)]
    /\ descriptorCount = [d \in Descriptors |-> DescriptorTotal(mentions, d)]

IndexInv ==
    IndexTypeOK /\ SeededInOrder /\ RunsHold /\ OriginalsAreSent /\ AnswersAgree /\ CountsMatch

-----------------------------------------------------------------------------
(***************************************************************************)
(* The corpus and its order.                                               *)
(***************************************************************************)

LEMMA IdOfPlace ==
    ASSUME IndexTypeOK
    PROVE  /\ \A i \in 1..Len(corpus) : corpus[i] \in Messages /\ IdOf(corpus[i]) = i
           /\ \A m \in Indexed : /\ m \in Messages /\ IdOf(m) \in 1..Len(corpus)
                                 /\ corpus[IdOf(m)] = m
<1>1. corpus \in Seq(Messages) /\ \A i, j \in 1..Len(corpus) : corpus[i] = corpus[j] => i = j
    BY DEF IndexTypeOK
<1>2. ASSUME NEW i \in 1..Len(corpus)
      PROVE  corpus[i] \in Messages /\ IdOf(corpus[i]) = i
    <2>1. corpus[i] \in Messages
        BY <1>1, ElementOfSeq
    <2>2. \A j \in 1..Len(corpus) : corpus[j] = corpus[i] => j = i
        BY <1>1
    <2>3. (CHOOSE j \in 1..Len(corpus) : corpus[j] = corpus[i]) = i
        BY <2>2
    <2>4. QED
        BY <2>1, <2>3 DEF IdOf
<1>3. ASSUME NEW m \in Indexed
      PROVE  m \in Messages /\ IdOf(m) \in 1..Len(corpus) /\ corpus[IdOf(m)] = m
    <2>1. PICK i \in 1..Len(corpus) : corpus[i] = m
        BY DEF Indexed
    <2>2. QED
        BY <1>2, <2>1
<1>4. QED
    BY <1>2, <1>3

LEMMA OriginalIsUnique ==
    ASSUME IndexTypeOK, NEW a, NEW b, Original(a), Original(b), Copies(a, b)
    PROVE  a = b
<1>1. a \in Indexed /\ b \in Indexed /\ ~Earlier(a, b) /\ ~Earlier(b, a)
    BY DEF Original, Copies
<1>2. IdOf(a) \in Nat /\ IdOf(b) \in Nat /\ corpus[IdOf(a)] = a /\ corpus[IdOf(b)] = b
    BY <1>1, IdOfPlace
<1>3. ~(IdOf(a) < IdOf(b)) /\ ~(IdOf(b) < IdOf(a))
    BY <1>1 DEF Earlier
<1>4. QED
    BY <1>2, <1>3

\* A row that is appended is earlier than none.
LEMMA CorpusGrows ==
    ASSUME IndexTypeOK, NEW m \in Messages, corpus' = Inserted(m)
    PROVE  /\ corpus' \in Seq(Messages)
           /\ \A i, j \in 1..Len(corpus') : corpus'[i] = corpus'[j] => i = j
           /\ Indexed' = Indexed \cup {m}
           /\ \A e \in Indexed', x \in Indexed : Earlier(e, x)' <=> Earlier(e, x)
<1>1. /\ corpus \in Seq(Messages) /\ \A i, j \in 1..Len(corpus) : corpus[i] = corpus[j] => i = j
      /\ Len(corpus) \in Nat
    BY DEF IndexTypeOK
<1>2. CASE m \in Indexed
    <2>1. corpus' = corpus
        BY <1>2 DEF Inserted
    <2>2. QED
        BY <1>1, <1>2, <2>1 DEF Indexed, Earlier, IdOf
<1>3. CASE m \notin Indexed
    <2> DEFINE n == Len(corpus)
    <2>1. /\ corpus' \in Seq(Messages) /\ Len(corpus') = n + 1 /\ corpus'[n + 1] = m
          /\ \A i \in 1..n : corpus'[i] = corpus[i]
        BY <1>1, <1>3, AppendProperties DEF Inserted
    <2>2. \A i \in 1..n : corpus[i] # m
        BY <1>3 DEF Indexed
    <2>3. \A i \in 1..(n + 1) : i \in 1..n \/ i = n + 1
        BY <1>1
    <2>4. \A i, j \in 1..Len(corpus') : corpus'[i] = corpus'[j] => i = j
        BY <1>1, <2>1, <2>2, <2>3
    <2>5. n + 1 \in 1..(n + 1) /\ \A i \in 1..n : i \in 1..(n + 1)
        BY <1>1
    <2>6. Indexed' = Indexed \cup {m}
        BY <2>1, <2>3, <2>5 DEF Indexed
    <2>7. ASSUME NEW x \in Indexed
          PROVE  IdOf(x)' = IdOf(x) /\ IdOf(x) \in 1..n
        <3>1. PICK i \in 1..n : i = IdOf(x) /\ corpus[i] = x
            BY IdOfPlace
        <3>2. i \in 1..Len(corpus') /\ corpus'[i] = x
            BY <2>1, <2>5, <3>1
        <3>3. \A j \in 1..Len(corpus') : corpus'[j] = x => j = i
            BY <2>4, <3>2
        <3>4. (CHOOSE j \in 1..Len(corpus') : corpus'[j] = x) = i
            BY <3>2, <3>3
        <3>5. QED
            BY <3>1, <3>4 DEF IdOf
    <2>8. IdOf(m)' = n + 1
        <3>1. n + 1 \in 1..Len(corpus') /\ corpus'[n + 1] = m
            BY <2>1, <2>5
        <3>2. \A j \in 1..Len(corpus') : corpus'[j] = m => j = n + 1
            BY <2>4, <3>1
        <3>3. (CHOOSE j \in 1..Len(corpus') : corpus'[j] = m) = n + 1
            BY <3>1, <3>2
        <3>4. QED
            BY <3>3 DEF IdOf
    <2>9. ASSUME NEW e \in Indexed', NEW x \in Indexed
          PROVE  Earlier(e, x)' <=> Earlier(e, x)
        <3>1. CASE e \in Indexed
            BY <2>6, <2>7, <3>1 DEF Earlier
        <3>2. CASE e = m
            <4>1. ~Earlier(e, x)
                BY <1>3, <3>2 DEF Earlier
            <4>2. ~(n + 1 < IdOf(x))
                BY <1>1, <2>7
            <4>3. ~Earlier(e, x)'
                BY <2>7, <2>8, <3>2, <4>2 DEF Earlier
            <4>4. QED
                BY <4>1, <4>3
        <3>3. QED
            BY <2>6, <3>1, <3>2
    <2>10. QED
        BY <2>1, <2>4, <2>6, <2>9
<1>4. QED
    BY <1>2, <1>3

LEMMA OriginalsStay ==
    ASSUME IndexTypeOK, NEW m \in Messages, corpus' = Inserted(m)
    PROVE  \A x : Original(x) => Original(x)'
<1>1. /\ Indexed' = Indexed \cup {m}
      /\ \A e \in Indexed', x \in Indexed : Earlier(e, x)' <=> Earlier(e, x)
    BY CorpusGrows
<1>2. \A e \in Indexed', x \in Indexed : Earlier(e, x) => e \in Indexed
    BY DEF Earlier
<1>3. QED
    BY <1>1, <1>2 DEF Original, Copies

\* A set of places has a first.
LEMMA FirstPlace ==
    ASSUME NEW n \in Nat, NEW S \in SUBSET (1..n), S # {}
    PROVE  \E i \in S : \A j \in S : i <= j
<1> DEFINE R == StrictSubsetOrdering(1..n)
           T == {1..i : i \in S}
<1>1. IsFiniteSet(1..n)
    BY FS_Interval
<1>2. FiniteSubsetsOf(1..n) = SUBSET (1..n)
    BY <1>1, FS_FiniteSubsetsOfFinite
<1>3. IsWellFoundedOn(R, SUBSET (1..n))
    BY <1>2, FS_StrictSubsetOrderingWellFounded
<1>4. \A i \in S : 1..i \in SUBSET (1..n)
    <2>1. ASSUME NEW i \in S
          PROVE  \A j \in 1..i : j \in 1..n
        OBVIOUS
    <2>2. QED
        BY <2>1
<1>5. T \subseteq SUBSET (1..n) /\ T # {}
    BY <1>4
<1>6. \E x \in T : \A y \in T : ~(<<y, x>> \in R)
    <2> HIDE DEF R, T
    <2>1. QED
        BY <1>3, <1>5, WFMin
<1>7. PICK i \in S : \A j \in S : ~(<<1..j, 1..i>> \in R)
    BY <1>6
<1>8. ASSUME NEW j \in S, ~(i <= j)
      PROVE  FALSE
    <2>1. i \in Nat /\ j \in Nat /\ j < i /\ 1 <= i
        BY <1>8
    <2>2. i \in 1..i /\ i \notin 1..j /\ 1..j \subseteq 1..i
        BY <2>1
    <2>3. PICK a, b : a = 1..j /\ b = 1..i
        OBVIOUS
    <2>4. a \in SUBSET (1..n) /\ b \in SUBSET (1..n) /\ a \subseteq b /\ a # b
        BY <1>4, <2>2, <2>3
    <2>5. <<a, b>> \in R
        BY <2>4 DEF StrictSubsetOrdering
    <2>6. QED
        BY <1>7, <2>3, <2>5
<1>9. QED
    BY <1>8

\* Of the messages of the corpus one is the first of any some.
LEMMA FirstMessage ==
    ASSUME IndexTypeOK, NEW S \in SUBSET Indexed, S # {}
    PROVE  \E e \in S : \A f \in S : e = f \/ Earlier(e, f)
<1> DEFINE ids == {i \in 1..Len(corpus) : corpus[i] \in S}
<1>1. Len(corpus) \in Nat
    BY DEF IndexTypeOK
<1>2. \A e \in S : IdOf(e) \in ids /\ corpus[IdOf(e)] = e
    BY IdOfPlace
<1>3. ids # {} /\ ids \in SUBSET (1..Len(corpus))
    BY <1>2
<1>4. PICK i \in ids : \A j \in ids : i <= j
    <2> HIDE DEF ids
    <2>1. QED
        BY <1>1, <1>3, FirstPlace
<1>5. corpus[i] \in S /\ IdOf(corpus[i]) = i
    BY IdOfPlace
<1>6. ASSUME NEW f \in S
      PROVE  corpus[i] = f \/ Earlier(corpus[i], f)
    <2>1. IdOf(f) \in ids /\ corpus[IdOf(f)] = f /\ i <= IdOf(f)
        BY <1>2, <1>4
    <2>2. CASE i = IdOf(f)
        BY <2>1, <2>2
    <2>3. CASE i # IdOf(f)
        BY <1>5, <2>1, <2>3 DEF Earlier
    <2>4. QED
        BY <2>2, <2>3
<1>7. QED
    BY <1>5, <1>6

\* The highest rowid of a source.
LEMMA HighestRow ==
    ASSUME IndexTypeOK, NEW s \in Streams
    PROVE  Highest({rowid[n] : n \in RowsOf(s)}) \in Nat
<1> DEFINE M == RowsOf(s)
           S == {rowid[n] : n \in M}
<1>1. M \subseteq Messages /\ \A n \in M : rowid[n] \in Nat
    BY DEF RowsOf, IndexTypeOK
<1>2. \E h \in S \cup {0} : \A i \in S : i <= h
    <2>1. CASE M = {}
        BY <2>1
    <2>2. CASE M # {}
        <3> DEFINE R == StrictSubsetOrdering(Messages)
                   Above(n) == {x \in M : rowid[n] <= rowid[x]}
                   T == {Above(n) : n \in M}
        <3>1. FiniteSubsetsOf(Messages) = SUBSET Messages
            BY IndexConstants, FS_FiniteSubsetsOfFinite
        <3>2. IsWellFoundedOn(R, SUBSET Messages)
            BY <3>1, FS_StrictSubsetOrderingWellFounded
        <3>3. T \subseteq SUBSET Messages /\ T # {}
            BY <1>1, <2>2
        <3>4. \E x \in T : \A y \in T : ~(<<y, x>> \in R)
            <4> HIDE DEF R, T
            <4>1. QED
                BY <3>2, <3>3, WFMin
        <3>5. PICK n \in M : \A x \in M : ~(<<Above(x), Above(n)>> \in R)
            BY <3>4
        <3>6. ASSUME NEW x \in M, ~(rowid[x] <= rowid[n])
              PROVE  FALSE
            <4>1. PICK a, b : a = Above(x) /\ b = Above(n)
                OBVIOUS
            <4>2. \A y \in M : rowid[x] <= rowid[y] => rowid[n] <= rowid[y]
                BY <1>1, <3>6
            <4>3. a \subseteq b /\ n \in b /\ n \notin a /\ a \subseteq Messages /\ b \subseteq Messages
                BY <1>1, <3>6, <4>1, <4>2
            <4>4. <<a, b>> \in R
                BY <4>3 DEF StrictSubsetOrdering
            <4>5. QED
                BY <3>5, <4>1, <4>4
        <3>7. QED
            BY <3>6
    <2>3. QED
        BY <2>1, <2>2
<1>3. Highest(S) \in S \cup {0}
    BY <1>2 DEF Highest
<1>4. QED
    BY <1>1, <1>3

-----------------------------------------------------------------------------
(***************************************************************************)
(* The runs.                                                               *)
(***************************************************************************)

LEMMA RunMoves ==
    ASSUME IndexTypeOK, NEW k \in Processes, NEW p \in Runs, Step(k, p)
    PROVE  /\ proc' \in [Processes -> Runs] /\ proc'[k] = p
           /\ \A j \in Processes \ {k} : proc'[j] = proc[j]
BY DEF IndexTypeOK, Step

\* While one run moves the others are idle: they wait for the lock.
LEMMA OneRunMoves ==
    ASSUME IndexTypeOK, RunsHold, NEW k \in Processes, NEW p \in Runs, Step(k, p), RunFacts(p)',
           proc[k].pc # "idle" \/ LockFree(k)
    PROVE  RunsHold'
<1>1. /\ proc' \in [Processes -> Runs] /\ proc'[k] = p
      /\ \A j \in Processes \ {k} : proc'[j] = proc[j]
    BY RunMoves
<1>2. \A j \in Processes \ {k} : proc[j].pc = "idle"
    BY DEF RunsHold, LockFree
<1>3. ASSUME NEW j \in Processes \ {k}
      PROVE  RunFacts(proc[j])' /\ proc'[j].pc = "idle"
    <2>1. proc[j].rows = {} /\ proc[j].twins = {}
        BY <1>2 DEF RunsHold, RunFacts
    <2>2. QED
        BY <1>1, <1>2, <2>1 DEF RunFacts
<1>4. RunFacts(proc[k])'
    BY <1>1
<1>5. QED
    BY <1>3, <1>4 DEF RunsHold

\* A step of a run's own memory.
LEMMA QuietKeeps ==
    ASSUME IndexInv, NEW k \in Processes, NEW p \in Runs, Step(k, p), RunFacts(p),
           proc[k].pc # "idle" \/ LockFree(k),
           UNCHANGED <<sources, corpus, state, job, mentions, placeCount, descriptorCount, version,
                       sent>>,
           embedded' \subseteq Indexed,
           saved' \in [Streams -> [cursor : Nat, ticks : 0..RescanEvery]]
    PROVE  IndexInv'
<1> USE DEF IndexInv
<1>1. Indexed' = Indexed /\ \A e, m : Earlier(e, m)' <=> Earlier(e, m)
    BY DEF Indexed, Earlier, IdOf
<1>2. \A x : Original(x)' <=> Original(x)
    BY <1>1 DEF Original, Copies
<1>3. RunFacts(p)'
    BY <1>2 DEF RunFacts, Copies
<1>4. RunsHold'
    BY <1>3, OneRunMoves
<1>5. IndexTypeOK'
    BY <1>1, RunMoves DEF IndexTypeOK, sources
<1>6. SeededInOrder'
    BY <1>1 DEF SeededInOrder, IsCandidate
<1>7. OriginalsAreSent' /\ AnswersAgree' /\ CountsMatch'
    BY <1>2 DEF OriginalsAreSent, AnswersAgree, Copies, CountsMatch, PlaceTotal, DescriptorTotal
<1>8. QED
    BY <1>4, <1>5, <1>6, <1>7

LEMMA EmptyHanded ==
    ASSUME NEW p, p.rows = {}, p.twins = {}
    PROVE  RunFacts(p)
BY DEF RunFacts

LEMMA IdleIsRun ==
    /\ Idle \in Runs /\ Idle.rows = {} /\ Idle.twins = {} /\ Idle.pc = "idle"
    /\ Build \in Runs /\ Build.rows = {} /\ Build.twins = {} /\ Build.pc = "idle"
<1>1. 0 \in 0..RescanEvery
    BY IndexConstants
<1>2. Idle \in Runs /\ Idle.rows = {} /\ Idle.twins = {} /\ Idle.pc = "idle"
    BY <1>1 DEF Idle, Runs
<1>3. Build \in Runs
    BY <1>2 DEF Build, Runs
<1>4. Build.rows = Idle.rows /\ Build.twins = Idle.twins /\ Build.pc = Idle.pc
    BY <1>2 DEF Build, Runs
<1>5. QED
    BY <1>2, <1>3, <1>4

LEMMA BeginBuildKeeps ==
    ASSUME IndexInv, NEW k \in Processes, BeginBuild(k)
    PROVE  IndexInv'
<1>1. PICK c \in Nat, n \in 0..RescanEvery : c = saved["live"].cursor /\ n = saved["live"].ticks
    BY DEF IndexInv, IndexTypeOK, Streams
<1>2. PICK p : p = [Build EXCEPT !.pc = "live", !.cursor = c, !.ticks = n]
    OBVIOUS
<1>3. p \in Runs /\ p.rows = {} /\ p.twins = {}
    BY <1>2, IdleIsRun DEF Runs
<1>4. Step(k, p) /\ LockFree(k) /\ UNCHANGED <<sources, tables, version, sent>>
    BY <1>1, <1>2 DEF BeginBuild
<1>5. QED
    BY <1>3, <1>4, EmptyHanded, QuietKeeps DEF tables, IndexInv, IndexTypeOK

LEMMA EndStreamKeeps ==
    ASSUME IndexInv, NEW k \in Processes, EndStream(k)
    PROVE  IndexInv'
<1>1. PICK r \in Runs : r = proc[k]
    BY DEF IndexInv, IndexTypeOK
<1>2. /\ r.pc \in Streams /\ r.cursor \in Nat /\ r.ticks \in 0..RescanEvery
      /\ saved["scout"].cursor \in Nat /\ saved["scout"].ticks \in 0..RescanEvery
    BY <1>1 DEF EndStream, Runs, IndexInv, IndexTypeOK, Streams
<1>3. PICK n \in 0..RescanEvery :
        n = IF r.pc = "scout" /\ r.ticks < RescanEvery THEN r.ticks + 1 ELSE r.ticks
    BY <1>2, IndexConstants
<1>4. saved' = [saved EXCEPT ![r.pc] = [cursor |-> r.cursor, ticks |-> n]]
    BY <1>1, <1>3 DEF EndStream
<1>5. saved' \in [Streams -> [cursor : Nat, ticks : 0..RescanEvery]]
    BY <1>2, <1>4 DEF IndexInv, IndexTypeOK
<1>6. PICK p : p = (IF r.pc = "scout" THEN [Build EXCEPT !.pc = "seed"]
                    ELSE IF RescanDue(saved["scout"].ticks) THEN [Build EXCEPT !.pc = "scout"]
                    ELSE [Build EXCEPT !.pc = "scout", !.cursor = saved["scout"].cursor,
                                      !.ticks = saved["scout"].ticks])
    OBVIOUS
<1>7. p \in Runs /\ p.rows = {} /\ p.twins = {}
    BY <1>2, <1>6, IdleIsRun DEF Runs
<1>8. Step(k, p) /\ UNCHANGED <<sources, corpus, embedded, state, job, mentions, placeCount,
                                descriptorCount, version, sent>>
    BY <1>1, <1>6 DEF EndStream
<1>9. proc[k].pc # "idle"
    BY <1>1, <1>2 DEF Streams
<1>10. QED
    BY <1>5, <1>7, <1>8, <1>9, EmptyHanded, QuietKeeps DEF IndexInv, IndexTypeOK

LEMMA EmbedKeeps ==
    ASSUME IndexInv, NEW k \in Processes, Embed(k) \/ EmbedFails(k)
    PROVE  IndexInv'
<1>1. PICK p : p = IF Embed(k) THEN [Build EXCEPT !.pc = "pending"] ELSE Idle
    OBVIOUS
<1>2. p \in Runs /\ p.rows = {} /\ p.twins = {}
    BY <1>1, IdleIsRun DEF Runs
<1>3. /\ Step(k, p) /\ proc[k].pc # "idle" /\ (embedded' = Indexed \/ embedded' = embedded)
      /\ UNCHANGED <<sources, corpus, saved, state, job, mentions, placeCount, descriptorCount,
                     version, sent>>
    BY <1>1 DEF Embed, EmbedFails, tables
<1>4. embedded \subseteq Indexed
    BY DEF IndexInv, IndexTypeOK
<1>5. QED
    BY <1>2, <1>3, <1>4, EmptyHanded, QuietKeeps DEF IndexInv, IndexTypeOK

LEMMA EndsKeep ==
    ASSUME IndexInv, NEW k \in Processes, BeginExtract(k) \/ Die(k)
    PROVE  IndexInv'
<1>1. PICK p : p = IF Die(k) THEN Idle ELSE [Idle EXCEPT !.pc = "pending"]
    OBVIOUS
<1>2. p \in Runs /\ p.rows = {} /\ p.twins = {}
    BY <1>1, IdleIsRun DEF Runs
<1>3. /\ Step(k, p) /\ (proc[k].pc # "idle" \/ LockFree(k))
      /\ UNCHANGED <<sources, tables, version, sent>>
    BY <1>1 DEF BeginExtract, Die
<1>4. QED
    BY <1>2, <1>3, EmptyHanded, QuietKeeps DEF tables, IndexInv, IndexTypeOK

\* A copy that is open waits for the first that is settled.
LEMMA ReadTwinsKeeps ==
    ASSUME IndexInv, NEW k \in Processes, ReadTwins(k)
    PROVE  IndexInv'
<1> DEFINE open == {m \in Indexed : job[m].status \in {"pending", "error"} /\ Sources(m) # {}}
           First(S) == CHOOSE e \in S : \A f \in S : e = f \/ Earlier(e, f)
           twins == {[copy |-> m, source |-> First(Sources(m)),
                      status |-> state[First(Sources(m))].status] : m \in open}
<1>1. PICK p : p = IF open = {} THEN Idle ELSE [Idle EXCEPT !.pc = "settle", !.twins = twins]
    OBVIOUS
<1>2. Step(k, p) /\ proc[k].pc # "idle" /\ UNCHANGED <<sources, tables, version, sent>>
    BY <1>1 DEF ReadTwins
<1>3. ASSUME NEW m \in open
      PROVE  /\ m \in Messages /\ First(Sources(m)) \in Messages
             /\ state[First(Sources(m))].status \in Statuses \ {"absent"}
             /\ Copies(m, First(Sources(m))) /\ state[First(Sources(m))].active = version
    <2>1. Sources(m) \in SUBSET Indexed /\ Sources(m) # {}
        BY DEF Sources
    <2>2. \E e \in Sources(m) : \A f \in Sources(m) : e = f \/ Earlier(e, f)
        BY <2>1, FirstMessage DEF IndexInv
    <2>3. First(Sources(m)) \in Sources(m)
        BY <2>2
    <2>4. PICK e \in Sources(m) : e = First(Sources(m))
        BY <2>3
    <2>5. e \in Indexed /\ Copies(m, e) /\ job[e].status = "succeeded"
        BY DEF Sources, Copies
    <2>6. e \in Messages /\ m \in Messages
        BY <2>5, IdOfPlace DEF IndexInv
    <2>7. state[e].active = version /\ state[e].status # "absent"
        BY <2>5, <2>6 DEF IndexInv, SeededInOrder
    <2>8. state[e].status \in Statuses
        BY <2>6 DEF IndexInv, IndexTypeOK
    <2>9. QED
        BY <2>4, <2>5, <2>6, <2>7, <2>8
<1>4. \A m \in open : job[m].status # "absent"
    OBVIOUS
<1>5. /\ twins \in SUBSET [copy : Messages, source : Messages, status : Statuses \ {"absent"}]
      /\ \A t \in twins : /\ Copies(t.copy, t.source) /\ state[t.source].active = version
                          /\ job[t.copy].status # "absent"
    <2> HIDE DEF open, First
    <2>1. QED
        BY <1>3, <1>4
<1>6. p \in Runs /\ RunFacts(p)
    <2> HIDE DEF open, twins
    <2>1. CASE open = {}
        BY <1>1, <2>1, IdleIsRun, EmptyHanded
    <2>2. CASE open # {}
        <3>1. p \in Runs /\ p.rows = {} /\ p.twins = twins /\ p.pc = "settle"
            BY <1>1, <1>5, <2>2, IdleIsRun DEF Runs
        <3>2. QED
            BY <1>5, <3>1 DEF RunFacts
    <2>3. QED
        BY <2>1, <2>2
<1>7. QED
    BY <1>2, <1>6, QuietKeeps DEF tables, IndexInv, IndexTypeOK

-----------------------------------------------------------------------------
(***************************************************************************)
(* The sources and the copy of them.                                       *)
(***************************************************************************)

LEMMA SourcesMove ==
    ASSUME IndexInv, rowid' \in [Messages -> Nat], autoinc' \in Nat,
           UNCHANGED <<tables, proc, version, sent>>
    PROVE  IndexInv'
<1> USE DEF IndexInv
<1>1. Indexed' = Indexed /\ \A e, m : Earlier(e, m)' <=> Earlier(e, m)
    BY DEF Indexed, Earlier, IdOf, tables
<1>2. \A x : Original(x)' <=> Original(x)
    BY <1>1 DEF Original, Copies
<1>3. IndexTypeOK'
    BY <1>1 DEF IndexTypeOK, tables
<1>4. SeededInOrder'
    BY <1>1 DEF SeededInOrder, IsCandidate, tables
<1>5. RunsHold' /\ OriginalsAreSent' /\ AnswersAgree' /\ CountsMatch'
    BY <1>2 DEF RunsHold, RunFacts, OriginalsAreSent, AnswersAgree, Copies, CountsMatch,
        PlaceTotal, DescriptorTotal, tables
<1>6. QED
    BY <1>3, <1>4, <1>5

LEMMA ArriveKeeps ==
    ASSUME IndexInv, NEW m \in Messages, Arrive(m)
    PROVE  IndexInv'
<1>1. StreamOf[m] \in Streams /\ rowid \in [Messages -> Nat] /\ autoinc \in Nat
    BY IndexConstants DEF IndexInv, IndexTypeOK, Streams
<1>2. PICK h \in Nat : h = Highest({rowid[n] : n \in RowsOf(StreamOf[m])})
    BY <1>1, HighestRow DEF IndexInv
<1>3. PICK n \in Nat : n = IF StreamOf[m] = "live" THEN autoinc + 1 ELSE h + 1
    BY <1>1
<1>4. rowid' = [rowid EXCEPT ![m] = n] /\ UNCHANGED <<tables, proc, version, sent>>
    BY <1>2, <1>3 DEF Arrive
<1>5. autoinc' \in Nat
    BY <1>1 DEF Arrive
<1>6. rowid' \in [Messages -> Nat]
    BY <1>1, <1>4
<1>7. QED
    BY <1>4, <1>5, <1>6, SourcesMove

LEMMA RemoveKeeps ==
    ASSUME IndexInv, NEW m \in Messages, Remove(m)
    PROVE  IndexInv'
<1>1. rowid' = [rowid EXCEPT ![m] = 0] /\ UNCHANGED <<autoinc, tables, proc, version, sent>>
    BY DEF Remove
<1>2. rowid' \in [Messages -> Nat] /\ autoinc' \in Nat
    BY <1>1 DEF IndexInv, IndexTypeOK
<1>3. QED
    BY <1>1, <1>2, SourcesMove

LEMMA CopyRowKeeps ==
    ASSUME IndexInv, NEW k \in Processes, NEW m \in Messages, CopyRow(k, m)
    PROVE  IndexInv'
<1> USE DEF IndexInv
<1>1. PICK r \in Runs : r = proc[k]
    BY DEF IndexTypeOK
<1>2. /\ r.pc \in Streams /\ corpus' = Inserted(m)
      /\ UNCHANGED <<sources, embedded, state, job, mentions, placeCount, descriptorCount,
                     version, sent>>
    BY <1>1 DEF CopyRow
<1>3. PICK n \in Nat, i \in 0..RescanEvery : n = rowid[m] /\ i = r.ticks
    BY DEF IndexTypeOK, Runs
<1>4. saved' = [saved EXCEPT ![r.pc] = [cursor |-> n, ticks |-> i]]
    BY <1>1, <1>3 DEF CopyRow
<1>5. PICK p : p = [r EXCEPT !.cursor = n]
    OBVIOUS
<1>6. p \in Runs /\ p.rows = r.rows /\ p.twins = r.twins /\ p.pc = r.pc
    BY <1>5 DEF Runs
<1>7. Step(k, p)
    BY <1>1, <1>3, <1>5 DEF CopyRow
<1>8. /\ corpus' \in Seq(Messages)
      /\ \A a, j \in 1..Len(corpus') : corpus'[a] = corpus'[j] => a = j
      /\ Indexed' = Indexed \cup {m}
      /\ \A e \in Indexed', x \in Indexed : Earlier(e, x)' <=> Earlier(e, x)
    BY <1>2, CorpusGrows
<1>9. \A x : Original(x) => Original(x)'
    BY <1>2, OriginalsStay
<1>10. IndexTypeOK'
    <2>1. saved' \in [Streams -> [cursor : Nat, ticks : 0..RescanEvery]]
        BY <1>2, <1>4 DEF IndexTypeOK
    <2>2. proc' \in [Processes -> Runs]
        BY <1>6, <1>7, RunMoves
    <2>3. QED
        BY <1>2, <1>8, <2>1, <2>2 DEF IndexTypeOK, sources
<1>11. SeededInOrder'
    <2>1. \A e \in Indexed', x \in Indexed : Earlier(e, x)' => e \in Indexed /\ Earlier(e, x)
        BY <1>8 DEF Earlier
    <2>2. QED
        BY <1>2, <1>8, <2>1 DEF SeededInOrder, IsCandidate
<1>12. RunsHold'
    <2>1. RunFacts(r)
        BY <1>1 DEF RunsHold
    <2>2. RunFacts(p)'
        BY <1>2, <1>6, <1>9, <2>1 DEF RunFacts, Copies
    <2>3. proc[k].pc # "idle"
        BY <1>1, <1>2 DEF Streams
    <2>4. QED
        BY <1>6, <1>7, <2>2, <2>3, OneRunMoves
<1>13. OriginalsAreSent' /\ AnswersAgree' /\ CountsMatch'
    BY <1>2, <1>9 DEF OriginalsAreSent, AnswersAgree, Copies, CountsMatch, PlaceTotal,
        DescriptorTotal
<1>14. QED
    BY <1>10, <1>11, <1>12, <1>13

-----------------------------------------------------------------------------
(***************************************************************************)
(* Extraction jobs.                                                        *)
(***************************************************************************)

JobRows ==
    [status : {"absent", "pending", "running", "succeeded", "error"}, attempts : 0..MaxAttempts]

LEMMA JobsSeeded ==
    ASSUME IndexTypeOK, NEW st
    PROVE  /\ JobsFor(st) \in [Messages -> JobRows]
           /\ \A m \in Messages :
                /\ job[m].status # "absent" => JobsFor(st)[m] = job[m]
                /\ job[m].status = "absent" /\ JobsFor(st)[m].status # "absent" =>
                    /\ JobsFor(st)[m].status = "pending"
                    /\ st[m].status # "absent" /\ IsCandidate(m)
                /\ st[m].status # "absent" /\ st[m].active # version /\ IsCandidate(m) =>
                    JobsFor(st)[m].status # "absent"
<1>1. [status |-> "pending", attempts |-> 0] \in JobRows
    BY IndexConstants DEF JobRows
<1>2. job \in [Messages -> JobRows]
    BY DEF IndexTypeOK, JobRows
<1>3. ASSUME NEW m \in Messages
      PROVE  JobsFor(st)[m] = IF /\ st[m].status # "absent"
                                 /\ st[m].active # version
                                 /\ job[m].status = "absent"
                                 /\ IsCandidate(m)
                              THEN [status |-> "pending", attempts |-> 0] ELSE job[m]
    BY DEF JobsFor
<1>4. JobsFor(st) \in [Messages -> JobRows]
    BY <1>1, <1>2 DEF JobsFor
<1>5. QED
    BY <1>3, <1>4

\* Whatever stands for its text and has a job is the original: a senior copy
\* would have been seeded with it.
LEMMA QueueOfOriginals ==
    ASSUME IndexInv, NEW m \in Messages, JobsFor(state)[m].status # "absent",
           StandsForItsText(m, JobsFor(state))
    PROVE  Original(m)
<1> USE DEF IndexInv
<1>1. state[m].status # "absent" /\ IsCandidate(m)
    BY JobsSeeded DEF SeededInOrder
<1>2. m \in Indexed
    BY <1>1 DEF SeededInOrder
<1>3. ASSUME NEW e \in Indexed, Copies(e, m), Earlier(e, m)
      PROVE  FALSE
    <2>1. e \in Messages /\ JobsFor(state)[e].status = "absent"
        BY <1>3, IdOfPlace DEF StandsForItsText
    <2>2. job[e].status = "absent" /\ state[e].status # "absent" /\ IsCandidate(e)
        BY <1>1, <1>3, <2>1, JobsSeeded DEF SeededInOrder, IsCandidate, Copies
    <2>3. state[e].active # version
        BY <2>1, <2>2 DEF SeededInOrder
    <2>4. QED
        BY <2>1, <2>2, <2>3, JobsSeeded
<1>4. QED
    BY <1>2, <1>3 DEF Original

\* A step that settles nothing.
LEMMA JobsMove ==
    ASSUME IndexInv, NEW k \in Processes, NEW p \in Runs, Step(k, p),
           proc[k].pc # "idle" \/ LockFree(k),
           p.twins = {}, p.rows # {} => p.pc \in {"lease", "answers"},
           \A m \in p.rows : Original(m) /\ job'[m].status \in Open,
           job' \in [Messages -> JobRows],
           \A m \in Messages :
             /\ job[m].status # "absent" => job'[m].status # "absent"
             /\ job'[m].status # "absent" => state[m].status # "absent" /\ IsCandidate(m)
             /\ job'[m].status = "succeeded" => job[m].status = "succeeded"
             /\ Original(m) /\ job[m].status = "succeeded" => job'[m].status = "succeeded",
           sent' \subseteq sent \cup p.rows,
           UNCHANGED <<sources, corpus, saved, embedded, state, mentions, placeCount,
                       descriptorCount, version>>
    PROVE  IndexInv'
<1> USE DEF IndexInv
<1>1. Indexed' = Indexed /\ \A e, m : Earlier(e, m)' <=> Earlier(e, m)
    BY DEF Indexed, Earlier, IdOf
<1>2. \A x : Original(x)' <=> Original(x)
    BY <1>1 DEF Original, Copies
<1>3. p.rows \subseteq Messages
    BY DEF Runs
<1>4. IndexTypeOK'
    <2>1. sent' \subseteq Messages
        BY <1>3 DEF IndexTypeOK
    <2>2. QED
        BY <1>1, <2>1, RunMoves DEF IndexTypeOK, sources, JobRows
<1>5. SeededInOrder'
    BY <1>1 DEF SeededInOrder, IsCandidate
<1>6. RunsHold'
    <2>1. RunFacts(p)'
        BY <1>2 DEF RunFacts
    <2>2. QED
        BY <2>1, OneRunMoves
<1>7. OriginalsAreSent'
    BY <1>2 DEF OriginalsAreSent
<1>8. AnswersAgree' /\ CountsMatch'
    BY <1>2 DEF AnswersAgree, Copies, CountsMatch, PlaceTotal, DescriptorTotal
<1>9. QED
    BY <1>4, <1>5, <1>6, <1>7, <1>8

LEMMA ReadPendingKeeps ==
    ASSUME IndexInv, NEW k \in Processes, ReadPending(k)
    PROVE  IndexInv'
<1> DEFINE jobs == JobsFor(state)
           due == {m \in Messages : Due(m, jobs)}
<1>1. /\ job' = jobs /\ proc[k].pc = "pending"
      /\ UNCHANGED <<sources, corpus, saved, embedded, state, mentions, placeCount,
                     descriptorCount, version, sent, bounds>>
    BY DEF ReadPending
<1>2. PICK r \in Runs : r = proc[k] /\ r.twins = {}
    BY <1>1 DEF IndexInv, IndexTypeOK, RunsHold, RunFacts
<1>3. ASSUME NEW m \in due
      PROVE  Original(m) /\ jobs[m].status \in Open
    <2>1. m \in Messages /\ Due(m, jobs)
        OBVIOUS
    <2>2. jobs[m].status \in Open /\ StandsForItsText(m, jobs)
        BY <2>1 DEF Due, Open
    <2>3. QED
        BY <2>1, <2>2, QueueOfOriginals DEF Open
<1>4. PICK p \in Runs, rows \in SUBSET due :
        /\ Step(k, p) /\ p.rows = rows /\ p.twins = {}
        /\ p.rows # {} => p.pc \in {"lease", "answers"}
    <2>1. CASE due = {} \/ proc[k].done >= Limit
        <3>1. PICK p : p = AfterExtraction(k)
            OBVIOUS
        <3>2. Step(k, p)
            BY <2>1, <3>1 DEF ReadPending
        <3>3. p \in Runs /\ p.rows = {} /\ p.twins = {}
            BY <3>1, IdleIsRun DEF AfterExtraction, Runs
        <3>4. {} \in SUBSET due
            OBVIOUS
        <3>5. QED
            BY <3>2, <3>3, <3>4
    <2>2. CASE ~(due = {} \/ proc[k].done >= Limit)
        <3>1. PICK rows \in Chunks(due) : Step(k, [proc[k] EXCEPT !.pc = "lease", !.rows = rows])
            BY <2>2 DEF ReadPending
        <3>2. rows \in SUBSET due /\ rows \in SUBSET Messages
            BY <3>1 DEF Chunks
        <3>3. PICK p : p = [r EXCEPT !.pc = "lease", !.rows = rows]
            OBVIOUS
        <3>4. p \in Runs /\ p.rows = rows /\ p.twins = {} /\ p.pc = "lease"
            BY <1>2, <3>2, <3>3 DEF Runs
        <3>5. Step(k, p)
            BY <1>2, <3>1, <3>3
        <3>6. QED
            BY <3>2, <3>4, <3>5
    <2>3. QED
        BY <2>1, <2>2
<1>5. \A m \in p.rows : Original(m) /\ job'[m].status \in Open
    BY <1>1, <1>3, <1>4
<1>6. /\ job' \in [Messages -> JobRows]
      /\ \A m \in Messages :
           /\ job[m].status # "absent" => job'[m].status # "absent"
           /\ job'[m].status # "absent" => state[m].status # "absent" /\ IsCandidate(m)
           /\ job'[m].status = "succeeded" => job[m].status = "succeeded"
           /\ Original(m) /\ job[m].status = "succeeded" => job'[m].status = "succeeded"
    BY <1>1, JobsSeeded DEF IndexInv, SeededInOrder
<1>7. QED
    BY <1>1, <1>2, <1>4, <1>5, <1>6, JobsMove

LEMMA BeginReextractKeeps ==
    ASSUME IndexInv, NEW k \in Processes, NEW statuses, BeginReextract(k, statuses)
    PROVE  IndexInv'
<1> DEFINE jobs == JobsFor(state)
           chosen == {m \in Messages : /\ jobs[m].status \in {"pending", "error"}
                                       /\ state[m].status \in statuses
                                       /\ StandsForItsText(m, jobs)}
<1>1. /\ job' = jobs /\ LockFree(k)
      /\ UNCHANGED <<sources, corpus, saved, embedded, state, mentions, placeCount,
                     descriptorCount, version, sent, troubles>>
    BY DEF BeginReextract
<1>2. PICK rows \in Chunks(chosen) :
        Step(k, [Idle EXCEPT !.pc = "lease", !.rows = rows, !.done = Limit])
    BY DEF BeginReextract
<1>3. rows \in SUBSET chosen /\ rows \in SUBSET Messages
    BY <1>2 DEF Chunks
<1>4. PICK p : p = [Idle EXCEPT !.pc = "lease", !.rows = rows, !.done = Limit]
    OBVIOUS
<1>5. p \in Runs /\ p.rows = rows /\ p.twins = {} /\ p.pc = "lease" /\ Step(k, p)
    BY <1>2, <1>3, <1>4, IdleIsRun, IndexConstants DEF Runs
<1>6. ASSUME NEW m \in p.rows
      PROVE  Original(m) /\ job'[m].status \in Open
    <2>1. m \in Messages /\ jobs[m].status \in Open /\ StandsForItsText(m, jobs)
        BY <1>3, <1>5 DEF Open
    <2>2. QED
        BY <1>1, <2>1, QueueOfOriginals DEF Open
<1>7. /\ job' \in [Messages -> JobRows]
      /\ \A m \in Messages :
           /\ job[m].status # "absent" => job'[m].status # "absent"
           /\ job'[m].status # "absent" => state[m].status # "absent" /\ IsCandidate(m)
           /\ job'[m].status = "succeeded" => job[m].status = "succeeded"
           /\ Original(m) /\ job[m].status = "succeeded" => job'[m].status = "succeeded"
    BY <1>1, JobsSeeded DEF IndexInv, SeededInOrder
<1>8. QED
    BY <1>1, <1>5, <1>6, <1>7, JobsMove

LEMMA MarkRunningKeeps ==
    ASSUME IndexInv, NEW k \in Processes, MarkRunning(k)
    PROVE  IndexInv'
<1> USE DEF IndexInv
<1>1. PICK r \in Runs : r = proc[k] /\ r.pc = "lease" /\ r.twins = {}
    BY DEF IndexTypeOK, MarkRunning, RunsHold, RunFacts
<1>2. /\ sent' = sent \cup r.rows
      /\ UNCHANGED <<sources, corpus, saved, embedded, state, mentions, placeCount,
                     descriptorCount, version, bounds>>
    BY <1>1 DEF MarkRunning
<1>3. PICK n \in Nat : n = r.done + Cardinality(r.rows)
    <2>1. IsFiniteSet(r.rows)
        BY IndexConstants, FS_Subset DEF Runs
    <2>2. Cardinality(r.rows) \in Nat
        BY <2>1, FS_CardinalityType
    <2>3. QED
        BY <2>2 DEF Runs
<1>4. PICK p : p = [r EXCEPT !.pc = "answers", !.done = n]
    OBVIOUS
<1>5. p \in Runs /\ p.rows = r.rows /\ p.twins = {} /\ p.pc = "answers"
    BY <1>1, <1>4 DEF Runs
<1>6. Step(k, p)
    BY <1>1, <1>3, <1>4 DEF MarkRunning
<1>7. job \in [Messages -> JobRows]
    BY DEF IndexTypeOK, JobRows
<1>8. ASSUME NEW m \in Messages
      PROVE  /\ job'[m] \in JobRows
             /\ job[m].status # "absent" <=> job'[m].status # "absent"
             /\ job'[m].status = "succeeded" <=> job[m].status = "succeeded"
             /\ job[m].status \in Open => job'[m].status \in Open
    <2>1. job'[m] = IF m \in r.rows /\ job[m].status \in {"pending", "error", "running"}
                    THEN [job[m] EXCEPT !.status = "running"] ELSE job[m]
        BY <1>1 DEF MarkRunning
    <2>2. QED
        BY <1>7, <2>1 DEF JobRows, Open
<1>9. job' \in [Messages -> JobRows]
    <2>1. job' = [m \in Messages |-> job'[m]]
        BY DEF MarkRunning
    <2>2. QED
        BY <1>8, <2>1
<1>10. \A m \in p.rows : Original(m) /\ job'[m].status \in Open
    <2>1. p.rows \subseteq Messages
        BY <1>5 DEF Runs
    <2>2. QED
        BY <1>1, <1>5, <1>8, <2>1 DEF RunsHold, RunFacts
<1>11. \A m \in Messages :
          /\ job[m].status # "absent" => job'[m].status # "absent"
          /\ job'[m].status # "absent" => state[m].status # "absent" /\ IsCandidate(m)
          /\ job'[m].status = "succeeded" => job[m].status = "succeeded"
          /\ Original(m) /\ job[m].status = "succeeded" => job'[m].status = "succeeded"
    BY <1>8 DEF SeededInOrder
<1>12. proc[k].pc # "idle" /\ sent' \subseteq sent \cup p.rows
    BY <1>1, <1>2, <1>5
<1>13. QED
    BY <1>2, <1>5, <1>6, <1>9, <1>10, <1>11, <1>12, JobsMove

\* A row leaves the chunk in hand.
LEMMA RowRecorded ==
    ASSUME IndexInv, NEW k \in Processes, proc[k].pc = "answers", NEW m \in proc[k].rows,
           Recorded(k, m)
    PROVE  \E p \in Runs :
             /\ Step(k, p) /\ p.rows = proc[k].rows \ {m} /\ p.twins = {}
             /\ p.rows # {} => p.pc \in {"lease", "answers"}
<1>1. PICK r \in Runs : r = proc[k] /\ r.twins = {}
    BY DEF IndexInv, IndexTypeOK, RunsHold, RunFacts
<1>2. PICK rest \in SUBSET Messages : rest = r.rows \ {m}
    BY DEF Runs
<1>3. PICK c \in {"pending", "answers"} : c = IF rest = {} THEN "pending" ELSE "answers"
    OBVIOUS
<1>4. PICK p : p = [r EXCEPT !.rows = rest, !.pc = c]
    OBVIOUS
<1>5. p \in Runs /\ p.rows = rest /\ p.twins = r.twins /\ p.pc = c
    BY <1>4 DEF Runs
<1>6. Step(k, p)
    BY <1>1, <1>2, <1>3, <1>4 DEF Recorded
<1>7. QED
    BY <1>1, <1>2, <1>3, <1>5, <1>6

LEMMA RecordErrorKeeps ==
    ASSUME IndexInv, NEW k \in Processes, NEW m \in Messages, NEW transient \in BOOLEAN,
           RecordError(k, m, transient)
    PROVE  IndexInv'
<1> USE DEF IndexInv
<1>1. /\ proc[k].pc = "answers" /\ m \in proc[k].rows
      /\ job' = Failed(m, transient) /\ Recorded(k, m)
      /\ UNCHANGED <<sources, corpus, saved, embedded, state, mentions, placeCount,
                     descriptorCount, version, sent, bounds>>
    BY DEF RecordError
<1>2. PICK p \in Runs : /\ Step(k, p) /\ p.rows = proc[k].rows \ {m} /\ p.twins = {}
                        /\ p.rows # {} => p.pc \in {"lease", "answers"}
    BY <1>1, RowRecorded
<1>3. job \in [Messages -> JobRows] /\ job[m].status \in Open /\ Original(m)
    BY <1>1 DEF IndexTypeOK, JobRows, RunsHold, RunFacts
<1>4. PICK a \in 0..MaxAttempts : a = AttemptsAfter(m, transient)
    <2>1. job[m].attempts \in 0..MaxAttempts /\ MaxAttempts \in Nat
        BY <1>3, IndexConstants DEF JobRows
    <2>2. PICK n \in Nat : n = job[m].attempts + 1
        BY <2>1
    <2>3. Saturated(n) \in 0..MaxAttempts
        BY <2>1 DEF Saturated
    <2>4. AttemptsAfter(m, transient) \in 0..MaxAttempts
        BY <2>1, <2>2, <2>3 DEF AttemptsAfter
    <2>5. QED
        BY <2>4
<1>5. PICK failed \in JobRows : failed = [status |-> "error", attempts |-> a]
    BY DEF JobRows
<1>6. ASSUME NEW n \in Messages
      PROVE  /\ job'[n] \in JobRows
             /\ job[n].status # "absent" <=> job'[n].status # "absent"
             /\ job'[n].status = "succeeded" => job[n].status = "succeeded"
             /\ Original(n) /\ n # m => job'[n] = job[n]
    <2>1. job'[n] = IF \/ n = m
                       \/ a >= MaxAttempts /\ Copies(n, m) /\ job[n].status # "absent"
                    THEN failed ELSE job[n]
        BY <1>1, <1>4, <1>5 DEF Failed
    <2>2. failed.status = "error"
        BY <1>5
    <2>3. Original(n) /\ n # m => ~Copies(n, m)
        BY <1>3, OriginalIsUnique
    <2>4. QED
        BY <1>3, <1>5, <2>1, <2>2, <2>3 DEF Open
<1>7. job' \in [Messages -> JobRows]
    <2>1. job' = [n \in Messages |-> job'[n]]
        BY <1>1 DEF Failed
    <2>2. QED
        BY <1>6, <2>1
<1>8. \A n \in p.rows : Original(n) /\ job'[n].status \in Open
    <2>1. p.rows \subseteq Messages
        BY DEF Runs
    <2>2. QED
        BY <1>2, <1>6, <2>1 DEF RunsHold, RunFacts
<1>9. \A n \in Messages :
         /\ job[n].status # "absent" => job'[n].status # "absent"
         /\ job'[n].status # "absent" => state[n].status # "absent" /\ IsCandidate(n)
         /\ job'[n].status = "succeeded" => job[n].status = "succeeded"
         /\ Original(n) /\ job[n].status = "succeeded" => job'[n].status = "succeeded"
    BY <1>3, <1>6 DEF SeededInOrder, Open
<1>10. proc[k].pc # "idle" /\ sent' \subseteq sent \cup p.rows
       /\ UNCHANGED <<sources, corpus, saved, embedded, state, mentions, placeCount,
                      descriptorCount, version>>
    BY <1>1, <1>2
<1>11. QED
    BY <1>2, <1>7, <1>8, <1>9, <1>10, JobsMove

-----------------------------------------------------------------------------
(***************************************************************************)
(* Answers, and the counts of what they mention.                           *)
(***************************************************************************)

\* Nothing is counted that is not touched.
LEMMA ReplaceCounts ==
    ASSUME IndexInv, NEW m \in Messages, NEW found \in Answers \cup {{}}, Replace(m, found)
    PROVE  /\ mentions' = [mentions EXCEPT ![m] = found]
           /\ CountsMatch'
<1> USE DEF IndexInv
<1>1. PICK ms : ms = [mentions EXCEPT ![m] = found]
    OBVIOUS
<1>2. PICK places : places = PlacesIn(mentions[m]) \cup PlacesIn(found)
    OBVIOUS
<1>3. PICK touched : touched = Touched(ms, mentions[m], places)
    OBVIOUS
<1>4. /\ mentions' = ms
      /\ placeCount' = [p \in Places |->
                          IF p \in places THEN PlaceTotal(ms, p) ELSE placeCount[p]]
      /\ descriptorCount' = [d \in Descriptors |->
                               IF d \in touched THEN DescriptorTotal(ms, d)
                               ELSE descriptorCount[d]]
    BY <1>1, <1>2, <1>3 DEF Replace
<1>5. mentions \in [Messages -> Answers \cup {{}}]
    BY DEF IndexTypeOK
<1>6. ms[m] = found /\ \A n \in Messages \ {m} : ms[n] = mentions[n]
    BY <1>1, <1>5
<1>7. ASSUME NEW p \in Places, p \notin places
      PROVE  placeCount[p] = PlaceTotal(ms, p)
    <2>1. \A n \in Messages : p \in PlacesIn(ms[n]) <=> p \in PlacesIn(mentions[n])
        BY <1>2, <1>6, <1>7
    <2>2. {n \in Messages : p \in PlacesIn(ms[n])} = {n \in Messages : p \in PlacesIn(mentions[n])}
        BY <2>1
    <2>3. PlaceTotal(ms, p) = PlaceTotal(mentions, p)
        BY <2>2 DEF PlaceTotal
    <2>4. QED
        BY <2>3 DEF CountsMatch
<1>8. ASSUME NEW d \in Descriptors, d \notin touched
      PROVE  descriptorCount[d] = DescriptorTotal(ms, d)
    <2>1. ASSUME NEW n \in Messages, NEW p \in Places, <<p, d>> \in ms[n]
          PROVE  <<p, d>> \in mentions[n]
        <3>1. CASE n = m
            <4>1. <<p, d>> \in found /\ <<p, d>>[1] = p /\ <<p, d>>[2] = d
                BY <1>6, <2>1, <3>1
            <4>2. p \in places
                BY <1>2, <4>1 DEF PlacesIn
            <4>3. <<p, d>> \in {y \in UNION {ms[x] : x \in Messages} : y[1] \in places}
                BY <2>1, <4>1, <4>2
            <4>4. d \in touched
                BY <1>3, <4>1, <4>3 DEF Touched
            <4>5. QED
                BY <1>8, <4>4
        <3>2. CASE n # m
            BY <1>6, <2>1, <3>2
        <3>3. QED
            BY <3>1, <3>2
    <2>2. ASSUME NEW n \in Messages, NEW p \in Places, <<p, d>> \in mentions[n]
          PROVE  <<p, d>> \in ms[n]
        <3>1. CASE n = m
            <4>1. <<p, d>>[2] = d
                OBVIOUS
            <4>2. d \in DescriptorsIn(mentions[m])
                BY <2>2, <3>1, <4>1 DEF DescriptorsIn
            <4>3. d \in touched
                BY <1>3, <4>2 DEF Touched
            <4>4. QED
                BY <1>8, <4>3
        <3>2. CASE n # m
            BY <1>6, <2>2, <3>2
        <3>3. QED
            BY <3>1, <3>2
    <2>3. \A u \in Messages \X Places : <<u[2], d>> \in ms[u[1]] <=> <<u[2], d>> \in mentions[u[1]]
        BY <2>1, <2>2
    <2>4. {u \in Messages \X Places : <<u[2], d>> \in ms[u[1]]}
            = {u \in Messages \X Places : <<u[2], d>> \in mentions[u[1]]}
        BY <2>3
    <2>5. DescriptorTotal(ms, d) = DescriptorTotal(mentions, d)
        BY <2>4 DEF DescriptorTotal
    <2>6. QED
        BY <2>5 DEF CountsMatch
<1>9. placeCount' = [p \in Places |-> PlaceTotal(ms, p)]
    BY <1>4, <1>7
<1>10. descriptorCount' = [d \in Descriptors |-> DescriptorTotal(ms, d)]
    BY <1>4, <1>8
<1>11. QED
    BY <1>1, <1>4, <1>9, <1>10 DEF CountsMatch, PlaceTotal, DescriptorTotal

\* A message is settled with what every settled copy of it carries.
LEMMA Settles ==
    ASSUME IndexInv, NEW k \in Processes, NEW p \in Runs, Step(k, p),
           p.rows # {} => p.pc \in {"lease", "answers"}, p.twins # {} => p.pc = "settle",
           NEW m \in Messages, job[m].status # "absent",
           NEW s \in Statuses \ {"absent"}, NEW n \in 0..MaxAttempts,
           NEW found \in Answers \cup {{}}, Replace(m, found),
           state' = [state EXCEPT ![m] = [status |-> s, active |-> version]],
           job' = [job EXCEPT ![m] = [status |-> "succeeded", attempts |-> n]],
           proc[k].pc # "idle", p.rows \subseteq proc[k].rows \ {m}, p.twins \subseteq proc[k].twins,
           \E a \in Messages : Original(a) /\ Copies(a, m) /\ job'[a].status = "succeeded",
           \A x \in Messages \ {m} :
             state[x].active = version /\ Copies(m, x) => mentions[x] = found,
           UNCHANGED <<sources, corpus, saved, embedded, version, sent>>
    PROVE  IndexInv'
<1> USE DEF IndexInv
<1>1. Indexed' = Indexed /\ \A e, x : Earlier(e, x)' <=> Earlier(e, x)
    BY DEF Indexed, Earlier, IdOf
<1>2. \A x : Original(x)' <=> Original(x)
    BY <1>1 DEF Original, Copies
<1>3. /\ mentions' = [mentions EXCEPT ![m] = found] /\ CountsMatch'
      /\ mentions' \in [Messages -> Answers \cup {{}}] /\ mentions'[m] = found
      /\ \A x \in Messages \ {m} : mentions'[x] = mentions[x]
    <2>1. mentions' = [mentions EXCEPT ![m] = found] /\ CountsMatch'
        BY ReplaceCounts
    <2>2. mentions \in [Messages -> Answers \cup {{}}]
        BY DEF IndexTypeOK
    <2>3. QED
        BY <2>1, <2>2
<1>4. /\ state' \in [Messages -> [status : Statuses, active : 0..version]]
      /\ state'[m].status # "absent" /\ state'[m].active = version
      /\ \A x \in Messages \ {m} : state'[x] = state[x]
    <2>1. /\ state \in [Messages -> [status : Statuses, active : 0..version]]
          /\ version \in 0..version
        BY DEF IndexTypeOK
    <2>2. [status |-> s, active |-> version] \in [status : Statuses, active : 0..version]
        BY <2>1
    <2>3. QED
        BY <2>1, <2>2
<1>5. /\ job' \in [Messages -> JobRows] /\ job'[m].status = "succeeded"
      /\ \A x \in Messages \ {m} : job'[x] = job[x]
    <2>1. job \in [Messages -> JobRows]
        BY DEF IndexTypeOK, JobRows
    <2>2. [status |-> "succeeded", attempts |-> n] \in JobRows
        BY DEF JobRows
    <2>3. QED
        BY <2>1, <2>2
<1>6. IndexTypeOK'
    <2>2. sent' \subseteq Messages
        BY DEF IndexTypeOK
    <2>3. proc' \in [Processes -> Runs]
        BY RunMoves
    <2>4. job' \in [Messages -> [status : {"absent", "pending", "running", "succeeded", "error"},
                               attempts : 0..MaxAttempts]]
        BY <1>5 DEF JobRows
    <2>5. /\ rowid' \in [Messages -> Nat] /\ autoinc' \in Nat
          /\ corpus' \in Seq(Messages)
          /\ \A i, j \in 1..Len(corpus') : corpus'[i] = corpus'[j] => i = j
          /\ saved' \in [Streams -> [cursor : Nat, ticks : 0..RescanEvery]]
          /\ embedded' \subseteq Indexed' /\ version' \in Nat \ {0}
        BY <1>1 DEF IndexTypeOK, sources
    <2>6. state' \in [Messages -> [status : Statuses, active : 0..version']]
        BY <1>4
    <2>7. QED
        BY <1>3, <2>2, <2>3, <2>4, <2>5, <2>6 DEF IndexTypeOK
<1>7. SeededInOrder'
    <2>1. ASSUME NEW x \in Messages, state'[x].status # "absent"
          PROVE  /\ x \in Indexed
                 /\ \A e \in Indexed : Earlier(e, x) => state'[e].status # "absent"
        <3>1. state[m].status # "absent"
            BY DEF SeededInOrder
        <3>2. state[x].status # "absent"
            BY <1>4, <2>1, <3>1
        <3>3. \A e \in Indexed : e \in Messages
            BY IdOfPlace
        <3>4. QED
            BY <1>4, <3>2, <3>3 DEF SeededInOrder
    <2>2. ASSUME NEW x \in Messages
          PROVE  /\ state'[x].active = version => job'[x].status # "absent"
                 /\ job'[x].status # "absent" => state'[x].status # "absent" /\ IsCandidate(x)
                 /\ job'[x].status = "succeeded" => state'[x].active = version
        <3>1. CASE x = m
            BY <1>4, <1>5, <3>1 DEF SeededInOrder
        <3>2. CASE x # m
            BY <1>4, <1>5, <3>2 DEF SeededInOrder
        <3>3. QED
            BY <3>1, <3>2
    <2>3. QED
        BY <1>1, <2>1, <2>2 DEF SeededInOrder, IsCandidate
<1>8. /\ \A x \in Messages : job[x].status # "absent" => job'[x].status # "absent"
      /\ \A x \in Messages : state[x].active = version => state'[x].active = version
    BY <1>4, <1>5
<1>9. RunsHold'
    <2>1. PICK r \in Runs : r = proc[k]
        BY DEF IndexTypeOK
    <2>2. p.rows \subseteq Messages
        BY DEF Runs
    <2>3. \A x \in p.rows : Original(x) /\ x # m /\ job[x].status \in Open
        BY DEF RunsHold, RunFacts
    <2>4. \A t \in p.twins : t.copy \in Messages /\ t.source \in Messages
        BY DEF Runs
    <2>5. \A t \in p.twins : /\ Copies(t.copy, t.source) /\ state[t.source].active = version
                             /\ job[t.copy].status # "absent"
        BY DEF RunsHold, RunFacts
    <2>6. RunFacts(p)'
        BY <1>2, <1>5, <1>8, <2>2, <2>3, <2>4, <2>5 DEF RunFacts, Copies
    <2>7. QED
        BY <2>6, OneRunMoves
<1>10. OriginalsAreSent'
    BY <1>2 DEF OriginalsAreSent
<1>11. AnswersAgree'
    <2>1. ASSUME NEW x \in Messages, state'[x].active = version
          PROVE  \E a \in Messages : Original(a) /\ Copies(a, x) /\ job'[a].status = "succeeded"
        <3>1. CASE x = m
            BY <3>1
        <3>2. CASE x # m
            <4>1. PICK a \in Messages : Original(a) /\ Copies(a, x) /\ job[a].status = "succeeded"
                BY <1>4, <2>1, <3>2 DEF AnswersAgree
            <4>2. job'[a].status = "succeeded"
                BY <1>5, <4>1
            <4>3. QED
                BY <4>1, <4>2
        <3>3. QED
            BY <3>1, <3>2
    <2>2. ASSUME NEW x \in Messages, NEW y \in Messages, Copies(x, y),
                 state'[x].active = version, state'[y].active = version
          PROVE  mentions'[x] = mentions'[y]
        <3>1. CASE x = m /\ y = m
            BY <3>1
        <3>2. CASE x = m /\ y # m
            BY <1>3, <1>4, <2>2, <3>2
        <3>3. CASE x # m /\ y = m
            <4>1. Copies(m, x)
                BY <2>2, <3>3 DEF Copies
            <4>2. QED
                BY <1>3, <1>4, <2>2, <3>3, <4>1
        <3>4. CASE x # m /\ y # m
            BY <1>3, <1>4, <2>2, <3>4 DEF AnswersAgree
        <3>5. QED
            BY <3>1, <3>2, <3>3, <3>4
    <2>3. QED
        BY <1>2, <2>1, <2>2 DEF AnswersAgree, Copies
<1>12. QED
    BY <1>3, <1>6, <1>7, <1>9, <1>10, <1>11

LEMMA RecordAnswerKeeps ==
    ASSUME IndexInv, NEW k \in Processes, NEW m \in Messages, NEW found \in Answers,
           RecordAnswer(k, m, found)
    PROVE  IndexInv'
<1> USE DEF IndexInv
<1>1. /\ proc[k].pc = "answers" /\ m \in proc[k].rows /\ Recorded(k, m) /\ Replace(m, found)
      /\ UNCHANGED <<sources, corpus, saved, embedded, version, sent, bounds>>
    BY DEF RecordAnswer
<1>2. PICK p \in Runs : /\ Step(k, p) /\ p.rows = proc[k].rows \ {m} /\ p.twins = {}
                        /\ p.rows # {} => p.pc \in {"lease", "answers"}
    BY <1>1, RowRecorded
<1>3. Original(m) /\ job[m].status \in Open
    BY <1>1 DEF RunsHold, RunFacts
<1>4. PICK s \in Statuses \ {"absent"} : s = IF found = {} THEN "no_venue" ELSE "extracted"
    BY DEF Statuses
<1>5. state' = [state EXCEPT ![m] = [status |-> s, active |-> version]]
    BY <1>4 DEF RecordAnswer
<1>6. PICK n \in 0..MaxAttempts : n = Saturated(job[m].attempts + 1)
    <2>1. job[m].attempts \in 0..MaxAttempts /\ MaxAttempts \in Nat
        BY IndexConstants DEF IndexTypeOK
    <2>2. PICK i \in Nat : i = job[m].attempts + 1
        BY <2>1
    <2>3. Saturated(i) \in 0..MaxAttempts
        BY <2>1 DEF Saturated
    <2>4. QED
        BY <2>2, <2>3
<1>7. job' = [job EXCEPT ![m] = [status |-> "succeeded", attempts |-> n]]
    BY <1>6 DEF RecordAnswer, IndexTypeOK
<1>8. ASSUME NEW x \in Messages \ {m}, state[x].active = version, Copies(m, x)
      PROVE  FALSE
    <2>1. PICK a \in Messages : Original(a) /\ Copies(a, x) /\ job[a].status = "succeeded"
        BY <1>8 DEF AnswersAgree
    <2>2. a = m
        BY <1>3, <1>8, <2>1, OriginalIsUnique DEF Copies
    <2>3. QED
        BY <1>3, <2>1, <2>2 DEF Open
<1>9. job'[m].status = "succeeded" /\ Copies(m, m)
    BY <1>7 DEF IndexTypeOK, Copies
<1>10. /\ p.twins \subseteq proc[k].twins /\ p.rows \subseteq proc[k].rows \ {m}
       /\ p.twins # {} => p.pc = "settle"
       /\ proc[k].pc # "idle" /\ job[m].status # "absent" /\ found \in Answers \cup {{}}
    BY <1>1, <1>2, <1>3 DEF Open
<1>11. QED
    BY <1>1, <1>2, <1>3, <1>5, <1>7, <1>8, <1>9, <1>10, Settles

LEMMA SettleTwinKeeps ==
    ASSUME IndexInv, NEW k \in Processes, NEW t \in proc[k].twins, SettleTwin(k, t)
    PROVE  IndexInv'
<1> USE DEF IndexInv
<1>1. PICK r \in Runs : r = proc[k] /\ r.pc = "settle" /\ r.rows = {}
    BY DEF IndexTypeOK, SettleTwin, RunsHold, RunFacts
<1>2. PICK m \in Messages, source \in Messages, s \in Statuses \ {"absent"} :
        m = t.copy /\ source = t.source /\ s = t.status
    BY <1>1 DEF Runs
<1>3. Copies(m, source) /\ state[source].active = version /\ job[m].status # "absent"
    BY <1>2 DEF RunsHold, RunFacts
<1>4. PICK found \in Answers \cup {{}} : found = mentions[source]
    BY DEF IndexTypeOK
<1>5. /\ Replace(m, found)
      /\ state' = [state EXCEPT ![m] = [status |-> s, active |-> version]]
      /\ UNCHANGED <<sources, corpus, saved, embedded, version, sent, bounds>>
    BY <1>2, <1>4 DEF SettleTwin
<1>6. PICK n \in 0..MaxAttempts : n = job[m].attempts
    BY DEF IndexTypeOK
<1>7. job' = [job EXCEPT ![m] = [status |-> "succeeded", attempts |-> n]]
    <2>1. job' = [job EXCEPT ![m].status = "succeeded"]
        BY <1>2 DEF SettleTwin
    <2>2. job[m] \in JobRows
        BY DEF IndexTypeOK, JobRows
    <2>3. [job[m] EXCEPT !.status = "succeeded"] = [status |-> "succeeded", attempts |-> n]
        BY <1>6, <2>2 DEF JobRows
    <2>4. QED
        BY <2>1, <2>3
<1>8. PICK rest \in SUBSET [copy : Messages, source : Messages, status : Statuses \ {"absent"}] :
        rest = r.twins \ {t}
    BY DEF Runs
<1>9. PICK p : p = IF rest = {} THEN Idle ELSE [r EXCEPT !.twins = rest]
    OBVIOUS
<1>10. Step(k, p)
    BY <1>1, <1>8, <1>9 DEF SettleTwin
<1>11. /\ p \in Runs /\ p.rows = {} /\ p.twins \subseteq r.twins
       /\ p.twins # {} => p.pc = "settle"
    <2>1. CASE rest = {}
        BY <1>9, <2>1, IdleIsRun
    <2>2. CASE rest # {}
        <3>1. p \in Runs /\ p.rows = {} /\ p.twins = rest /\ p.pc = "settle"
            BY <1>1, <1>9, <2>2 DEF Runs
        <3>2. QED
            BY <1>8, <3>1
    <2>3. QED
        BY <2>1, <2>2
<1>12. \E a \in Messages : Original(a) /\ Copies(a, m) /\ job'[a].status = "succeeded"
    <2>1. PICK a \in Messages : Original(a) /\ Copies(a, source) /\ job[a].status = "succeeded"
        BY <1>3 DEF AnswersAgree
    <2>2. job'[a].status = "succeeded"
        BY <1>7, <2>1 DEF IndexTypeOK
    <2>3. QED
        BY <1>3, <2>1, <2>2 DEF Copies
<1>13. ASSUME NEW x \in Messages \ {m}, state[x].active = version, Copies(m, x)
       PROVE  mentions[x] = found
    BY <1>3, <1>4, <1>13 DEF AnswersAgree, Copies
<1>14. p.rows \subseteq proc[k].rows \ {m} /\ p.twins \subseteq proc[k].twins /\ proc[k].pc # "idle"
    BY <1>1, <1>11
<1>15. QED
    BY <1>3, <1>5, <1>7, <1>10, <1>11, <1>12, <1>13, <1>14, Settles

-----------------------------------------------------------------------------
(***************************************************************************)
(* Seeding, and a new prompt version.                                      *)
(***************************************************************************)

LEMMA StateSeeded ==
    ASSUME IndexInv, state' = Marked(Seeded)
    PROVE  /\ state' \in [Messages -> [status : Statuses, active : 0..version]]
           /\ \A m \in Messages :
                /\ state[m].status # "absent" =>
                    state'[m].status # "absent" /\ state'[m].active = state[m].active
                /\ m \in Indexed /\ state[m].status = "absent" =>
                    state'[m].status # "absent" /\ state'[m].active = 0
                /\ m \notin Indexed => state'[m] = state[m]
<1> USE DEF IndexInv
<1>1. state \in [Messages -> [status : Statuses, active : 0..version]] /\ 0 \in 0..version
    BY DEF IndexTypeOK
<1>2. PICK st \in [Messages -> [status : Statuses, active : 0..version]] :
        /\ st = Seeded
        /\ \A m \in Messages :
             IF m \in Indexed /\ state[m].status = "absent"
             THEN st[m].status \in {"pending", "skipped"} /\ st[m].active = 0
             ELSE st[m] = state[m]
    <2>1. ASSUME NEW m \in Messages
          PROVE  [status |-> IF IsCandidate(m) THEN "pending" ELSE "skipped", active |-> 0]
                   \in [status : {"pending", "skipped"}, active : {0}]
        OBVIOUS
    <2>2. [status : {"pending", "skipped"}, active : {0}] \subseteq [status : Statuses, active : 0..version]
        BY <1>1 DEF Statuses
    <2>3. \A m \in Messages : Seeded[m] =
            IF m \in Indexed /\ state[m].status = "absent"
            THEN [status |-> IF IsCandidate(m) THEN "pending" ELSE "skipped", active |-> 0]
            ELSE state[m]
        BY DEF Seeded
    <2>4. Seeded \in [Messages -> [status : Statuses, active : 0..version]]
        BY <1>1, <2>1, <2>2 DEF Seeded
    <2>5. QED
        BY <2>1, <2>3, <2>4
<1>3. ASSUME NEW m \in Messages
      PROVE  /\ state'[m] = st[m] \/ (st[m].status = "pending" /\ state'[m] = [st[m] EXCEPT !.status = "duplicate"])
             /\ state'[m] \in [status : Statuses, active : 0..version]
             /\ state'[m].active = st[m].active
             /\ st[m].status # "absent" <=> state'[m].status # "absent"
    <2>1. state'[m] = st[m] \/ (st[m].status = "pending" /\ state'[m] = [st[m] EXCEPT !.status = "duplicate"])
        BY <1>2 DEF Marked
    <2>2. QED
        BY <2>1 DEF Statuses
<1>4. state' = [m \in Messages |-> state'[m]]
    BY DEF Marked
<1>5. state' \in [Messages -> [status : Statuses, active : 0..version]]
    BY <1>3, <1>4
<1>6. ASSUME NEW m \in Messages, state[m].status # "absent"
      PROVE  state'[m].status # "absent" /\ state'[m].active = state[m].active
    BY <1>2, <1>3, <1>6
<1>7. ASSUME NEW m \in Messages, m \in Indexed, state[m].status = "absent"
      PROVE  state'[m].status # "absent" /\ state'[m].active = 0
    <2>1. st[m].status \in {"pending", "skipped"} /\ st[m].active = 0
        BY <1>2, <1>7
    <2>2. QED
        BY <1>3, <2>1
<1>8. ASSUME NEW m \in Messages, m \notin Indexed
      PROVE  state'[m] = state[m]
    <2>1. st[m] = state[m] /\ state[m].status = "absent"
        BY <1>2, <1>8 DEF SeededInOrder
    <2>2. QED
        BY <1>3, <2>1
<1>9. QED
    BY <1>5, <1>6, <1>7, <1>8

LEMMA SeedStateKeeps ==
    ASSUME IndexInv, NEW k \in Processes, SeedState(k)
    PROVE  IndexInv'
<1> USE DEF IndexInv
<1>1. /\ state' = Marked(Seeded) /\ job' = JobsFor(state')
      /\ UNCHANGED <<sources, corpus, saved, embedded, mentions, placeCount, descriptorCount,
                     version, sent, bounds>>
    BY DEF SeedState
<1>2. PICK p : p = [Build EXCEPT !.pc = "embed"]
    OBVIOUS
<1>3. p \in Runs /\ p.rows = {} /\ p.twins = {} /\ p.pc = "embed" /\ Step(k, p)
    BY <1>2, IdleIsRun DEF Runs, SeedState
<1>4. Indexed' = Indexed /\ \A e, m : Earlier(e, m)' <=> Earlier(e, m)
    BY <1>1 DEF Indexed, Earlier, IdOf
<1>5. \A x : Original(x)' <=> Original(x)
    BY <1>4 DEF Original, Copies
<1>6. /\ state' \in [Messages -> [status : Statuses, active : 0..version]]
      /\ \A m \in Messages :
           /\ state[m].status # "absent" =>
               state'[m].status # "absent" /\ state'[m].active = state[m].active
           /\ m \in Indexed /\ state[m].status = "absent" =>
               state'[m].status # "absent" /\ state'[m].active = 0
           /\ m \notin Indexed => state'[m] = state[m]
    BY <1>1, StateSeeded
<1>7. version \in Nat \ {0} /\ version' = version
    BY <1>1 DEF IndexTypeOK
<1>8. \A m \in Messages : state[m].active = version => state[m].status # "absent"
    BY DEF SeededInOrder
<1>9. \A m \in Messages : state'[m].active = version <=> state[m].active = version
    <2>1. ASSUME NEW m \in Messages
          PROVE  state'[m].active = version <=> state[m].active = version
        <3>1. CASE state[m].status # "absent"
            BY <1>6, <3>1
        <3>2. CASE state[m].status = "absent" /\ m \in Indexed
            BY <1>6, <1>7, <1>8, <3>2
        <3>3. CASE m \notin Indexed
            BY <1>6, <3>3
        <3>4. QED
            BY <3>1, <3>2, <3>3
    <2>2. QED
        BY <2>1
<1>10. PICK st : st = state'
    OBVIOUS
<1>11. job' = JobsFor(st)
    BY <1>1, <1>10
<1>12. /\ job' \in [Messages -> JobRows]
       /\ \A m \in Messages :
            /\ job[m].status # "absent" => job'[m] = job[m]
            /\ job[m].status = "absent" /\ job'[m].status # "absent" =>
                 job'[m].status = "pending" /\ state'[m].status # "absent" /\ IsCandidate(m)
    BY <1>10, <1>11, JobsSeeded
<1>13. IndexTypeOK'
    BY <1>1, <1>3, <1>4, <1>6, <1>12, RunMoves DEF IndexTypeOK, sources, JobRows
<1>14. SeededInOrder'
    <2>1. ASSUME NEW m \in Messages, state'[m].status # "absent"
          PROVE  m \in Indexed /\ \A e \in Indexed : state'[e].status # "absent"
        <3>1. m \in Indexed
            BY <1>6, <2>1 DEF SeededInOrder
        <3>2. \A e \in Indexed : e \in Messages
            BY IdOfPlace
        <3>3. QED
            BY <1>6, <3>1, <3>2
    <2>2. ASSUME NEW m \in Messages
          PROVE  /\ state'[m].active = version => job'[m].status # "absent"
                 /\ job'[m].status # "absent" => state'[m].status # "absent" /\ IsCandidate(m)
                 /\ job'[m].status = "succeeded" => state'[m].active = version
        <3>1. CASE job[m].status # "absent"
            BY <1>6, <1>9, <1>12, <3>1 DEF SeededInOrder
        <3>2. CASE job[m].status = "absent"
            BY <1>9, <1>12, <3>2 DEF SeededInOrder
        <3>3. QED
            BY <3>1, <3>2
    <2>3. QED
        BY <1>4, <1>7, <2>1, <2>2 DEF SeededInOrder, IsCandidate
<1>15. RunsHold'
    <2>1. RunFacts(p)'
        BY <1>3 DEF RunFacts
    <2>2. proc[k].pc # "idle"
        BY DEF SeedState
    <2>3. QED
        BY <1>3, <2>1, <2>2, OneRunMoves
<1>16. OriginalsAreSent' /\ CountsMatch'
    BY <1>1, <1>5 DEF OriginalsAreSent, CountsMatch, PlaceTotal, DescriptorTotal
<1>17. AnswersAgree'
    <2>1. ASSUME NEW a \in Messages, job[a].status = "succeeded"
          PROVE  job'[a].status = "succeeded"
        BY <1>12, <2>1
    <2>2. QED
        BY <1>1, <1>5, <1>7, <1>9, <2>1 DEF AnswersAgree, Copies
<1>18. QED
    BY <1>13, <1>14, <1>15, <1>16, <1>17

LEMMA UpgradeKeeps ==
    ASSUME IndexInv, Upgrade
    PROVE  IndexInv'
<1> USE DEF IndexInv
<1>1. /\ \A k \in Processes : proc[k].pc = "idle"
      /\ version' = version + 1 /\ job' = [m \in Messages |-> NoJob]
      /\ sent' = {}
      /\ UNCHANGED <<sources, corpus, saved, embedded, state, mentions, placeCount,
                     descriptorCount, proc, bounds>>
    BY DEF Upgrade
<1>2. NoJob \in JobRows /\ NoJob.status = "absent"
    BY IndexConstants DEF NoJob, JobRows
<1>3. job' \in [Messages -> JobRows] /\ \A m \in Messages : job'[m].status = "absent"
    BY <1>1, <1>2
<1>4. /\ state \in [Messages -> [status : Statuses, active : 0..version]] /\ version \in Nat \ {0}
      /\ version' \in Nat \ {0}
    BY <1>1 DEF IndexTypeOK
<1>5. \A m \in Messages : state[m].active # version' /\ state[m].active \in 0..version'
    BY <1>1, <1>4
<1>6. state' \in [Messages -> [status : Statuses, active : 0..version']]
    <2>1. \A m \in Messages : state[m] \in [status : Statuses, active : 0..version']
        BY <1>4, <1>5
    <2>2. QED
        BY <1>1, <1>4, <2>1
<1>7. Indexed' = Indexed /\ \A e, m : Earlier(e, m)' <=> Earlier(e, m)
    BY <1>1 DEF Indexed, Earlier, IdOf
<1>8. IndexTypeOK'
    BY <1>1, <1>3, <1>4, <1>6, <1>7 DEF IndexTypeOK, sources, JobRows
<1>9. SeededInOrder'
    BY <1>1, <1>3, <1>5, <1>7 DEF SeededInOrder
<1>10. RunsHold'
    <2>1. \A k \in Processes : proc'[k].rows = {} /\ proc'[k].twins = {}
        BY <1>1 DEF RunsHold, RunFacts
    <2>2. \A k \in Processes : proc'[k].pc = "idle"
        BY <1>1
    <2>3. QED
        BY <2>1, <2>2 DEF RunsHold, RunFacts
<1>11. OriginalsAreSent' /\ AnswersAgree' /\ CountsMatch'
    BY <1>1, <1>5 DEF OriginalsAreSent, AnswersAgree, CountsMatch, PlaceTotal, DescriptorTotal
<1>12. QED
    BY <1>8, <1>9, <1>10, <1>11

-----------------------------------------------------------------------------
(***************************************************************************)
(* The invariant, and what it shows.                                       *)
(***************************************************************************)

LEMMA IndexStart == IndexInit => IndexInv
<1> SUFFICES ASSUME IndexInit
             PROVE  IndexInv
    OBVIOUS
<1> USE DEF IndexInit
<1>1. /\ Indexed = {} /\ corpus \in Seq(Messages)
      /\ \A i, j \in 1..Len(corpus) : corpus[i] = corpus[j] => i = j
    BY DEF Indexed
<1>2. /\ NoJob \in JobRows /\ NoJob.status = "absent" /\ NoState.status = "absent"
      /\ NoState.active = 0 /\ NoState \in [status : Statuses, active : 0..1]
    BY IndexConstants DEF NoJob, JobRows, NoState, Statuses
<1>3. IndexTypeOK
    <2>1. 0 \in 0..RescanEvery
        BY IndexConstants
    <2>2. saved \in [Streams -> [cursor : Nat, ticks : 0..RescanEvery]]
        BY <2>1
    <2>3. QED
        BY <1>1, <1>2, <2>2, IdleIsRun DEF IndexTypeOK, JobRows
<1>4. SeededInOrder /\ RunsHold /\ OriginalsAreSent /\ AnswersAgree
    BY <1>2, IdleIsRun DEF SeededInOrder, RunsHold, RunFacts, OriginalsAreSent, AnswersAgree
<1>5. CountsMatch
    <2>1. \A m \in Messages : mentions[m] = {}
        OBVIOUS
    <2>2. ASSUME NEW p
          PROVE  PlaceTotal(mentions, p) = 0
        <3>1. {n \in Messages : p \in PlacesIn(mentions[n])} = {}
            BY <2>1 DEF PlacesIn
        <3>2. QED
            BY <3>1, FS_EmptySet DEF PlaceTotal
    <2>3. ASSUME NEW d
          PROVE  DescriptorTotal(mentions, d) = 0
        <3>1. {u \in Messages \X Places : <<u[2], d>> \in mentions[u[1]]} = {}
            BY <2>1
        <3>2. QED
            BY <3>1, FS_EmptySet DEF DescriptorTotal
    <2>4. QED
        BY <2>2, <2>3 DEF CountsMatch
<1>6. QED
    BY <1>3, <1>4, <1>5 DEF IndexInv

LEMMA IndexStep ==
    ASSUME IndexInv, [IndexNext]_indexVars
    PROVE  IndexInv'
<1>1. CASE \E m \in Messages : Arrive(m) \/ Remove(m)
    BY <1>1, ArriveKeeps, RemoveKeeps
<1>2. ASSUME NEW k \in Processes, Sync(k) \/ Propagate(k)
      PROVE  IndexInv'
    BY <1>2, BeginBuildKeeps, CopyRowKeeps, EndStreamKeeps, SeedStateKeeps, ReadTwinsKeeps,
        SettleTwinKeeps DEF Sync, Propagate
<1>3. ASSUME NEW k \in Processes, Embed(k) \/ EmbedFails(k)
      PROVE  IndexInv'
    BY <1>3, EmbedKeeps
<1>4. ASSUME NEW k \in Processes, Extract(k) \/ Die(k)
      PROVE  IndexInv'
    BY <1>4, ReadPendingKeeps, MarkRunningKeeps, RecordAnswerKeeps, RecordErrorKeeps, EndsKeep
        DEF Extract
<1>5. ASSUME NEW k \in Processes, Command(k)
      PROVE  IndexInv'
    BY <1>5, EndsKeep, BeginReextractKeeps DEF Command
<1>6. CASE Upgrade
    BY <1>6, UpgradeKeeps
<1>7. CASE UNCHANGED indexVars
    <2>1. /\ UNCHANGED <<tables, proc, version, sent>>
          /\ rowid' = rowid /\ autoinc' = autoinc
        BY <1>7 DEF indexVars, sources
    <2>2. rowid' \in [Messages -> Nat] /\ autoinc' \in Nat
        BY <2>1 DEF IndexInv, IndexTypeOK
    <2>3. QED
        BY <2>1, <2>2, SourcesMove
<1>8. QED
    BY <1>1, <1>2, <1>3, <1>4, <1>5, <1>6, <1>7, IndexConstants DEF IndexNext

-----------------------------------------------------------------------------
(***************************************************************************)
(* The theorems.                                                           *)
(***************************************************************************)

LEMMA IndexInvariant == IndexSpec => []IndexInv
<1>1. IndexInit => IndexInv
    BY IndexStart
<1>2. IndexInv /\ [IndexNext]_indexVars => IndexInv'
    BY IndexStep
<1>3. QED
    BY <1>1, <1>2, PTL DEF IndexSpec

\* Every table of the index and every run over it stays in its domain: rows of
\* the corpus are distinct, attempts stay within their cap, a job's state and a
\* run's place are those the code knows (SearchIndex in storage/search.py).
THEOREM IndexTypes == IndexSpec => []IndexTypeOK
<1>1. IndexInv => IndexTypeOK
    BY DEF IndexInv
<1>2. QED
    BY <1>1, IndexInvariant, PTL

\* The counts kept beside the places and descriptors are those of the mentions,
\* although each answer recomputes only what its message touched
\* (_replace_mentions and _recompute_counts in storage/search.py).
THEOREM CountsAreTrue == IndexSpec => []AggregatesMatchMentions
<1>1. IndexInv => AggregatesMatchMentions
    BY DEF IndexInv, CountsMatch, AggregatesMatchMentions
<1>2. QED
    BY <1>1, IndexInvariant, PTL

\* What is sent is the earliest of its copies in the corpus, so of identical
\* texts by one author one at most is ever paid for under any prompt version,
\* whichever runs die or fail (_mark_crosspost_duplicates).
THEOREM OriginalsOnly == IndexSpec => []OneCopyIsSent
<1>1. ASSUME IndexInv
      PROVE  OneCopyIsSent
    <2>1. \A m \in sent : Original(m)
        BY <1>1 DEF IndexInv, OriginalsAreSent
    <2>2. QED
        BY <1>1, <2>1, OriginalIsUnique DEF IndexInv, OneCopyIsSent
<1>2. QED
    BY <1>1, IndexInvariant, PTL

\* A settled copy carries the mentions of its settled original, through new
\* prompt versions, killed runs and copies that arrive later: the original is
\* answered once, and no failure takes its answer back (propagate_duplicates).
THEOREM CopiesCarryOneAnswer == IndexSpec => []CopiesAgree
<1>1. ASSUME IndexInv
      PROVE  CopiesAgree
    <2>1. SUFFICES ASSUME NEW m \in Indexed, NEW n \in Indexed, Copies(m, n),
                          job[m].status = "succeeded", job[n].status = "succeeded"
                   PROVE  mentions[m] = mentions[n]
        BY DEF CopiesAgree
    <2>2. m \in Messages /\ n \in Messages
        BY <1>1, IdOfPlace DEF IndexInv
    <2>3. state[m].active = version /\ state[n].active = version
        BY <1>1, <2>1, <2>2 DEF IndexInv, SeededInOrder
    <2>4. QED
        BY <1>1, <2>1, <2>2, <2>3 DEF IndexInv, AnswersAgree
<1>2. QED
    BY <1>1, IndexInvariant, PTL

\* Under the lock a run never holds, from its read to its record, a text of which
\* some copy has its answer: nothing is paid for again (_EXCLUSIVE in
\* index_cli.py, "the billing is not" idempotent).
THEOREM NothingIsPaidAgain == IndexSpec => []AnswersAreNotPaidAgain
<1>1. ASSUME IndexInv
      PROVE  AnswersAreNotPaidAgain
    <2>1. SUFFICES ASSUME NEW k \in Processes, NEW m \in proc[k].rows, NEW n \in Messages,
                          Copies(n, m), job[n].status = "succeeded"
                   PROVE  FALSE
        BY DEF AnswersAreNotPaidAgain
    <2>2. Original(m) /\ job[m].status # "succeeded"
        BY <1>1 DEF IndexInv, RunsHold, RunFacts, Open
    <2>3. PICK a \in Messages : Original(a) /\ Copies(a, n) /\ job[a].status = "succeeded"
        BY <1>1, <2>1 DEF IndexInv, SeededInOrder, AnswersAgree
    <2>4. a = m
        BY <1>1, <2>1, <2>2, <2>3, OriginalIsUnique DEF IndexInv, Copies
    <2>5. QED
        BY <2>2, <2>3, <2>4
<1>2. QED
    BY <1>1, IndexInvariant, PTL

=============================================================================
