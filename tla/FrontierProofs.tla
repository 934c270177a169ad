--------------------------- MODULE FrontierProofs ---------------------------
(***************************************************************************)
(* Theorems about the frontier, for any number of threads, ranks, URLs and *)
(* crashes.                                                                *)
(***************************************************************************)
EXTENDS Frontier, SequenceTheorems, FiniteSetTheorems, TLAPS

\* What the vectors and files are made of keeps its type: one step of a push, of a
\* pop and of a partial write.
LEMMA SeqTyping ==
    ASSUME NEW S, NEW s \in Seq(S)
    PROVE  /\ \A e \in S : Append(s, e) \in Seq(S) /\ Len(Append(s, e)) = Len(s) + 1
           /\ s # <<>> => Head(s) \in S /\ Tail(s) \in Seq(S)
           /\ \A k \in 0 .. Len(s) : SubSeq(s, 1, k) \in Seq(S)
           /\ Range(s) \subseteq S
<1>1. \A e \in S : Append(s, e) \in Seq(S) /\ Len(Append(s, e)) = Len(s) + 1
  BY AppendProperties
<1>2. s # <<>> => Head(s) \in S /\ Tail(s) \in Seq(S)
  BY HeadTailProperties
<1>3. \A k \in 0 .. Len(s) : SubSeq(s, 1, k) \in Seq(S)
  OBVIOUS
<1>4. Range(s) \subseteq S
  BY DEF Range
<1>5. QED
  BY <1>1, <1>2, <1>3, <1>4

\* A function updated at one argument.
LEMMA UpdatedTyping ==
    ASSUME NEW D, NEW R, NEW g \in [D -> R], NEW d \in D, NEW v \in R
    PROVE  /\ [g EXCEPT ![d] = v] \in [D -> R]
           /\ [g EXCEPT ![d] = v][d] = v
           /\ \A x \in D \ {d} : [g EXCEPT ![d] = v][x] = g[x]
OBVIOUS

\* The ranks are natural numbers, rank 0 exists, and a sample picks a rank.
LEMMA RankFacts ==
    /\ Ranks \subseteq Nat
    /\ 0 \in Ranks
    /\ \A k \in Samples : QueueOf(k) \in Ranks
BY FrontierAssumption DEF Ranks, Samples, QueueOf

LEMMA NoEntryTyping == NoEntry \in Entry
BY FrontierAssumption, RankFacts DEF NoEntry, Entry

LEMMA WholeFileEntriesTyping ==
    ASSUME TypeOK PROVE WholeFileEntries \subseteq Entry
<1>1. \A f \in DOMAIN disk : disk[f].urls \in Seq(Entry)
  BY DEF TypeOK, File
<1>2. \A f \in DOMAIN disk : Range(disk[f].urls) \subseteq Entry
  BY <1>1, SeqTyping
<1>3. QED
  BY <1>2 DEF WholeFileEntries

-----------------------------------------------------------------------------
(* Type correctness: one lemma for each operation of the frontier.         *)

LEMMA ClearedTyping ==
    ASSUME ClearMemory
    PROVE  /\ seen' \in SUBSET Nat
           /\ banned' \in SUBSET Nat
           /\ staging' \in [Ranks -> Seq(Entry)]
           /\ numWritten' \in [Ranks -> Nat]
           /\ fileQueue' \in [Ranks -> Seq(Nat)]
           /\ queue' \in [Ranks -> Seq(Entry)]
           /\ holder' \in [Ranks -> Threads \cup {NoThread}]
           /\ pc' \in [Threads -> {"idle"}]
           /\ refused' = {}
BY DEF ClearMemory

LEMMA InitTypeOK == Init => TypeOK
<1> SUFFICES ASSUME Init PROVE TypeOK
  OBVIOUS
<1> USE RankFacts, FrontierAssumption
<1>1. NoEntry \in Entry
  BY NoEntryTyping
<1>2. disk \in [DOMAIN disk -> File] /\ DOMAIN disk \in SUBSET FileName
  BY DEF Init
<1>3. seedsLeft \in Seq(Urls)
  BY DEF Init
<1>4. QED
  BY <1>1, <1>2, <1>3 DEF Init, TypeOK

LEMMA BootTyping ==
    ASSUME TypeOK, Boot
    PROVE  TypeOK'
<1> USE DEF boot, filters, stage, queues, locals, history
<1>1. CASE Start
  <2>1. seedsLeft' \in Seq(Urls)
    <3>1. Seeds \in Seq(Urls)
      BY FrontierAssumption
    <3>2. <<>> \in Seq(Urls)
      OBVIOUS
    <3>3. QED
      BY <1>1, <3>1, <3>2 DEF Start
  <2>2. stock' \in SUBSET Entry
    BY <1>1, WholeFileEntriesTyping DEF Start
  <2>3. unlisted' \in SUBSET FileName
    BY <1>1 DEF Start, TypeOK
  <2>4. phase' \in {"seed", "scan"}
    BY <1>1 DEF Start
  <2>5. QED
    BY <1>1, <2>1, <2>2, <2>3, <2>4 DEF Start, TypeOK
<1>2. CASE IngestSeed
  <2>1. PICK r \in RanksOf[Head(seedsLeft)] :
          LET e == [url |-> Head(seedsLeft), rank |-> r, id |-> nextId]
          IN  /\ queue' = [queue EXCEPT ![r] = Append(@, e)]
              /\ stock' = stock \cup {e}
    BY <1>2 DEF IngestSeed
  <2> DEFINE e == [url |-> Head(seedsLeft), rank |-> r, id |-> nextId]
  <2>2. Head(seedsLeft) \in Urls /\ Tail(seedsLeft) \in Seq(Urls)
    BY <1>2, SeqTyping DEF IngestSeed, TypeOK
  <2>3. r \in Ranks
    BY <2>2, FrontierAssumption DEF Ranks
  <2>4. e \in Entry
    BY <2>2, <2>3 DEF Entry, TypeOK
  <2>5. queue' \in [Ranks -> Seq(Entry)]
    BY <2>1, <2>3, <2>4, SeqTyping DEF TypeOK
  <2>6. stock' \in SUBSET Entry
    BY <2>1, <2>4 DEF TypeOK
  <2>7. seen' \in SUBSET Nat
    BY <1>2, <2>2, FrontierAssumption DEF IngestSeed, WithString, TypeOK
  <2>8. seedsLeft' \in Seq(Urls) /\ nextId' \in Nat
    BY <1>2, <2>2 DEF IngestSeed, TypeOK
  <2>9. UNCHANGED <<phase, unlisted, banned, staging, numWritten, fileQueue, holder, pc, held,
                    sel, num, disk, delivered, dropped, refused, crashes, faults>>
    BY <1>2 DEF IngestSeed
  <2>10. QED
    BY <2>5, <2>6, <2>7, <2>8, <2>9 DEF TypeOK
<1>3. CASE SeedsIngested
  BY <1>3 DEF SeedsIngested, TypeOK
<1>4. ASSUME NEW f \in unlisted, ScanFile(f) PROVE TypeOK'
  <2>1. f[1] \in Ranks /\ f[2] \in Nat
    BY <1>4 DEF TypeOK, FileName
  <2>2. numWritten' \in [Ranks -> Nat]
    <3>1. /\ numWritten \in [Ranks -> Nat]
          /\ numWritten' = [numWritten EXCEPT ![f[1]] = NextNumber(f[2], numWritten[f[1]])]
      BY <1>4 DEF ScanFile, TypeOK
    <3>2. NextNumber(f[2], numWritten[f[1]]) \in Nat
      BY <2>1, <3>1 DEF NextNumber
    <3>3. QED
      BY <2>1, <3>1, <3>2, UpdatedTyping
  <2>3. fileQueue' \in [Ranks -> Seq(Nat)]
    BY <1>4, <2>1, SeqTyping DEF ScanFile, TypeOK
  <2>4. QED
    BY <1>4, <2>2, <2>3 DEF ScanFile, TypeOK
<1>5. CASE StartThreads
  BY <1>5 DEF StartThreads, TypeOK
<1>6. QED
  BY <1>1, <1>2, <1>3, <1>4, <1>5 DEF Boot

LEMMA CrashTyping ==
    ASSUME TypeOK, ClearMemory, phase' = "down",
           DOMAIN disk' \in SUBSET FileName, disk' \in [DOMAIN disk' -> File],
           crashes' \in Nat,
           UNCHANGED <<seedsLeft, unlisted, held, sel, num, stock, delivered, dropped,
                       nextId, faults>>
    PROVE  TypeOK'
BY ClearedTyping DEF TypeOK

\* What a full staging vector leaves on the disk, whole or not, is well typed.
LEMMA BatchTyping ==
    ASSUME TypeOK, NEW t \in Threads
    PROVE  /\ held[t] \in Entry
           /\ held[t].rank \in Ranks
           /\ Batch(t) \in Seq(Entry)
           /\ \A k \in 0 .. Len(Batch(t)) - 1 : TornBatch(t, k) \in File
           /\ [urls |-> Batch(t), whole |-> TRUE] \in File
           /\ BatchFile(t) \in FileName
<1>1. held[t] \in Entry /\ held[t].rank \in Ranks
  BY DEF TypeOK, Entry
<1>2. staging[held[t].rank] \in Seq(Entry) /\ numWritten[held[t].rank] \in Nat
  BY <1>1 DEF TypeOK
<1>3. Batch(t) \in Seq(Entry) /\ Len(Batch(t)) \in Nat
  BY <1>1, <1>2, SeqTyping DEF Batch
<1>4. \A k \in 0 .. Len(Batch(t)) : SubSeq(Batch(t), 1, k) \in Seq(Entry)
  BY <1>3, SeqTyping
<1>5. \A k \in 0 .. Len(Batch(t)) - 1 : TornBatch(t, k) \in File
  BY <1>3, <1>4 DEF TornBatch, File
<1>6. BatchFile(t) \in FileName
  BY <1>1, <1>2 DEF BatchFile, FileName
<1>7. QED
  BY <1>1, <1>3, <1>5, <1>6 DEF File

LEMMA WithFileTyping ==
    ASSUME TypeOK, NEW f \in FileName, NEW c \in File, disk' = WithFile(f, c)
    PROVE  /\ DOMAIN disk' \in SUBSET FileName
           /\ disk' \in [DOMAIN disk' -> File]
BY DEF WithFile, TypeOK

LEMMA InsertTyping ==
    ASSUME TypeOK, NEW t \in Threads, Insert(t)
    PROVE  TypeOK'
<1> USE DEF boot, filters, stage, queues, locals, history
<1>0. held[t].rank \in Ranks /\ numWritten[held[t].rank] \in Nat
  BY BatchTyping DEF TypeOK
<1>1. ASSUME NEW u \in Urls, InsertCheckSeen(t, u) PROVE TypeOK'
  <2>1. PICK r \in RanksOf[Https[u]] :
          held' = [held EXCEPT ![t] = [url |-> Https[u], rank |-> r, id |-> nextId]]
    BY <1>1 DEF InsertCheckSeen
  <2>2. Https[u] \in Urls /\ r \in Ranks
    BY <2>1, FrontierAssumption DEF Ranks
  <2>3. held' \in [Threads -> Entry]
    BY <2>1, <2>2 DEF TypeOK, Entry
  <2>4. /\ pc' \in [Threads -> {"idle", "unseen", "allowed", "stage", "again", "take", "load",
                                "unlink", "check"}]
        /\ nextId' \in Nat
    BY <1>1 DEF InsertCheckSeen, TypeOK
  <2>5. QED
    BY <1>1, <2>3, <2>4 DEF InsertCheckSeen, TypeOK
<1>2. CASE InsertCheckBlacklist(t)
  BY <1>2 DEF InsertCheckBlacklist, Idle, TypeOK
<1>3. CASE InsertMarkSeen(t)
  <2>1. held[t].url \in Strings
    BY FrontierAssumption DEF TypeOK, Entry
  <2>2. seen' \in SUBSET Nat
    BY <1>3, <2>1, FrontierAssumption DEF InsertMarkSeen, WithString, TypeOK
  <2>3. QED
    BY <1>3, <2>2 DEF InsertMarkSeen, TypeOK
<1>4. CASE InsertKeep(t)
  <2>1. staging' \in [Ranks -> Seq(Entry)] /\ stock' \in SUBSET Entry
    BY <1>4, BatchTyping DEF InsertKeep, TypeOK
  <2>2. QED
    BY <1>4, <2>1 DEF InsertKeep, Idle, TypeOK
<1>5. CASE InsertFlush(t)
  <2>1. staging' \in [Ranks -> Seq(Entry)] /\ stock' \in SUBSET Entry
    <3>1. /\ staging \in [Ranks -> Seq(Entry)] /\ stock \in SUBSET Entry
          /\ staging' = [staging EXCEPT ![held[t].rank] = <<>>] /\ stock' = stock \cup {held[t]}
      BY <1>5 DEF InsertFlush, TypeOK
    <3>2. <<>> \in Seq(Entry)
      OBVIOUS
    <3>3. staging' \in [Ranks -> Seq(Entry)]
      BY <1>0, <3>1, <3>2, UpdatedTyping
    <3>4. QED
      BY <3>1, <3>3, BatchTyping
  <2>2. fileQueue' \in [Ranks -> Seq(Nat)]
    <3>1. /\ fileQueue \in [Ranks -> Seq(Nat)]
          /\ fileQueue' = [fileQueue EXCEPT ![held[t].rank] = Append(@, numWritten[held[t].rank])]
      BY <1>5 DEF InsertFlush, TypeOK
    <3>2. Append(fileQueue[held[t].rank], numWritten[held[t].rank]) \in Seq(Nat)
      BY <1>0, <3>1, SeqTyping
    <3>3. QED
      BY <1>0, <3>1, <3>2, UpdatedTyping
  <2>3. numWritten' \in [Ranks -> Nat]
    <3>1. /\ numWritten \in [Ranks -> Nat]
          /\ numWritten' = [numWritten EXCEPT ![held[t].rank] = numWritten[held[t].rank] + 1]
      BY <1>5 DEF InsertFlush, TypeOK
    <3>2. QED
      BY <1>0, <3>1, UpdatedTyping
  <2>4. DOMAIN disk' \in SUBSET FileName /\ disk' \in [DOMAIN disk' -> File]
    BY <1>5, BatchTyping, WithFileTyping DEF InsertFlush
  <2>5. QED
    BY <1>5, <2>1, <2>2, <2>3, <2>4 DEF InsertFlush, Idle, TypeOK
<1>6. CASE InsertFlushFails(t)
  <2>1. staging' \in [Ranks -> Seq(Entry)] /\ stock' \in SUBSET Entry
    BY <1>6, BatchTyping DEF InsertFlushFails, TypeOK
  <2>2. numWritten' \in [Ranks -> Nat]
    <3>1. /\ numWritten \in [Ranks -> Nat]
          /\ numWritten' = [numWritten EXCEPT ![held[t].rank] = numWritten[held[t].rank] + 1]
      BY <1>6 DEF InsertFlushFails, TypeOK
    <3>2. QED
      BY <1>0, <3>1, UpdatedTyping
  <2>3. DOMAIN disk' \in SUBSET FileName /\ disk' \in [DOMAIN disk' -> File]
    <3>1. CASE disk' = disk
      BY <3>1 DEF TypeOK
    <3>2. ASSUME NEW k \in 0 .. Len(Batch(t)) - 1,
                 disk' = WithFile(BatchFile(t), TornBatch(t, k))
          PROVE  DOMAIN disk' \in SUBSET FileName /\ disk' \in [DOMAIN disk' -> File]
      BY <3>2, BatchTyping, WithFileTyping
    <3>3. QED
      BY <1>6, <3>1, <3>2 DEF InsertFlushFails
  <2>4. faults' \in Nat
    BY <1>6 DEF InsertFlushFails, Fails, TypeOK
  <2>5. QED
    BY <1>6, <2>1, <2>2, <2>3, <2>4 DEF InsertFlushFails, Idle, TypeOK
<1>7. QED
  BY <1>1, <1>2, <1>3, <1>4, <1>5, <1>6 DEF Insert

LEMMA GetTyping ==
    ASSUME TypeOK, MutexInv, NEW t \in Threads, Get(t)
    PROVE  TypeOK'
<1> USE DEF boot, filters, stage, queues, locals, history
<1>0. /\ sel[t] \in Ranks
      /\ queue[sel[t]] \in Seq(Entry)
      /\ fileQueue[sel[t]] \in Seq(Nat)
  BY DEF TypeOK
<1>1. ASSUME NEW k \in Samples, GetPickQueue(t, k) PROVE TypeOK'
  <2>1. QueueOf(k) \in Ranks
    BY RankFacts
  <2>2. QED
    BY <1>1, <2>1 DEF GetPickQueue, TypeOK
<1>2. CASE GetPop(t)
  <2>1. Head(queue[sel[t]]) \in Entry /\ Tail(queue[sel[t]]) \in Seq(Entry)
    BY <1>2, <1>0, SeqTyping DEF GetPop
  <2>2. queue' \in [Ranks -> Seq(Entry)]
    BY <1>2, <2>1 DEF GetPop, TypeOK
  <2>3. held' \in [Threads -> Entry]
    BY <1>2, <2>1 DEF GetPop, TypeOK
  <2>4. pc' \in [Threads -> {"idle", "unseen", "allowed", "stage", "again", "take", "load",
                             "unlink", "check"}]
    BY <1>2 DEF GetPop, TypeOK
  <2>5. QED
    BY <1>2, <2>2, <2>3, <2>4 DEF GetPop, TypeOK
<1>3. CASE GetGiveUp(t)
  BY <1>3 DEF GetGiveUp, TypeOK
<1>4. CASE GetTakeFile(t)
  <2>1. Head(fileQueue[sel[t]]) \in Nat /\ Tail(fileQueue[sel[t]]) \in Seq(Nat)
    BY <1>4, <1>0, SeqTyping DEF GetTakeFile
  <2>2. fileQueue' \in [Ranks -> Seq(Nat)] /\ num' \in [Threads -> Nat]
    BY <1>4, <2>1 DEF GetTakeFile, TypeOK
  <2>3. holder' \in [Ranks -> Threads \cup {NoThread}]
    BY <1>4 DEF GetTakeFile, TypeOK
  <2>4. QED
    BY <1>4, <2>2, <2>3 DEF GetTakeFile, TypeOK
<1>5. CASE GetLoadFails(t)
  <2>1. pc' \in [Threads -> {"idle", "unseen", "allowed", "stage", "again", "take", "load",
                             "unlink", "check"}]
    BY <1>5 DEF GetLoadFails, TypeOK
  <2>2. holder' \in [Ranks -> Threads \cup {NoThread}] /\ faults' \in Nat
    BY <1>5 DEF GetLoadFails, Fails, TypeOK
  <2>3. QED
    BY <1>5, <2>1, <2>2 DEF GetLoadFails, TypeOK
<1>6. CASE GetLoad(t)
  <2>1. UrlsOf(<<sel[t], num[t]>>) \in Seq(Entry)
    BY <1>6 DEF GetLoad, UrlsOf, File, TypeOK
  <2>2. queue' \in [Ranks -> Seq(Entry)]
    BY <1>6, <2>1 DEF GetLoad, TypeOK
  <2>3. QED
    BY <1>6, <2>2 DEF GetLoad, TypeOK
<1>7. CASE GetUnlink(t)
  <2>1. queue[sel[t]] # <<>>
    BY <1>7 DEF GetUnlink, At, MutexInv
  <2>2. Head(queue[sel[t]]) \in Entry /\ Tail(queue[sel[t]]) \in Seq(Entry)
    BY <2>1, <1>0, SeqTyping
  <2>3. queue' \in [Ranks -> Seq(Entry)] /\ held' \in [Threads -> Entry]
    BY <1>7, <2>2 DEF GetUnlink, TypeOK
  <2>4. DOMAIN disk' \in SUBSET FileName /\ disk' \in [DOMAIN disk' -> File]
    BY <1>7 DEF GetUnlink, WithoutFile, Restrict, TypeOK
  <2>5. holder' \in [Ranks -> Threads \cup {NoThread}] /\ faults' \in Nat
    BY <1>7 DEF GetUnlink, Fails, TypeOK
  <2>6. QED
    BY <1>7, <2>3, <2>4, <2>5 DEF GetUnlink, TypeOK
<1>8. CASE GetCheckBlacklist(t)
  <2>1. delivered' \in SUBSET Entry /\ dropped' \in SUBSET Entry
    BY <1>8 DEF GetCheckBlacklist, TypeOK
  <2>2. pc' \in [Threads -> {"idle", "unseen", "allowed", "stage", "again", "take", "load",
                             "unlink", "check"}]
    BY <1>8 DEF GetCheckBlacklist, Idle, TypeOK
  <2>3. QED
    BY <1>8, <2>1, <2>2 DEF GetCheckBlacklist, TypeOK
<1>9. QED
  BY <1>1, <1>2, <1>3, <1>4, <1>5, <1>6, <1>7, <1>8 DEF Get

\* The remaining steps of a thread: it kills the process, or blacklists a URL.
LEMMA OtherTyping ==
    ASSUME TypeOK, NEW t \in Threads,
           \/ CrashInWrite(t)
           \/ CrashInLoad(t)
           \/ \E u \in Urls : BlacklistUrl(t, u)
    PROVE  TypeOK'
<1>1. CASE CrashInWrite(t)
  <2>1. PICK k \in 0 .. Len(Batch(t)) - 1 : disk' = WithFile(BatchFile(t), TornBatch(t, k))
    BY <1>1 DEF CrashInWrite
  <2>2. DOMAIN disk' \in SUBSET FileName /\ disk' \in [DOMAIN disk' -> File]
    BY <2>1, BatchTyping, WithFileTyping
  <2>3. crashes' \in Nat
    BY <1>1 DEF CrashInWrite, TypeOK
  <2>4. QED
    BY <1>1, <2>2, <2>3, CrashTyping DEF CrashInWrite
<1>2. CASE CrashInLoad(t)
  <2>1. DOMAIN disk' \in SUBSET FileName /\ disk' \in [DOMAIN disk' -> File]
    BY <1>2 DEF CrashInLoad, TypeOK
  <2>2. crashes' \in Nat
    BY <1>2 DEF CrashInLoad, TypeOK
  <2>3. QED
    BY <1>2, <2>1, <2>2, CrashTyping DEF CrashInLoad
<1>3. ASSUME NEW u \in Urls, BlacklistUrl(t, u) PROVE TypeOK'
  <2>1. banned' \in SUBSET Nat
    BY <1>3, FrontierAssumption DEF BlacklistUrl, WithString, TypeOK
  <2>2. refused' \in SUBSET Urls
    BY <1>3 DEF BlacklistUrl, TypeOK
  <2>3. QED
    BY <1>3, <2>1, <2>2 DEF BlacklistUrl, TypeOK, boot, stage, queues, locals
<1>4. QED
  BY <1>1, <1>2, <1>3

-----------------------------------------------------------------------------
(* The mutex of a queue: one lemma for each kind of step.                  *)

\* A thread that is not inside the mutex of a queue, and does not enter it.
LEMMA OutsideMutex ==
    ASSUME TypeOK, MutexInv, NEW t \in Threads, NEW where,
           phase = "run", UNCHANGED <<phase, holder, sel, queue>>,
           pc[t] \notin {"load", "unlink"}, where \notin {"load", "unlink"},
           pc' = [pc EXCEPT ![t] = where]
    PROVE  MutexInv'
<1>1. \A x \in Threads : pc'[x] \in {"load", "unlink"} <=> pc[x] \in {"load", "unlink"}
  BY DEF TypeOK
<1>2. \A x \in Threads : pc'[x] \in {"load", "unlink"} => pc'[x] = pc[x]
  BY DEF TypeOK
<1>3. QED
  BY <1>1, <1>2 DEF MutexInv

LEMMA BootMutex ==
    ASSUME TypeOK, MutexInv, Boot
    PROVE  MutexInv'
<1> USE DEF boot, filters, stage, queues, locals, history
<1>1. phase \in {"down", "seed", "scan"} /\ UNCHANGED <<pc, holder, sel>>
  BY DEF Boot, Start, IngestSeed, SeedsIngested, ScanFile, StartThreads
<1>2. \A t \in Threads : pc[t] = "idle"
  BY <1>1 DEF MutexInv
<1>3. QED
  BY <1>1, <1>2 DEF MutexInv

LEMMA CrashMutex ==
    ASSUME TypeOK, ClearMemory, phase' = "down", UNCHANGED sel
    PROVE  MutexInv'
<1>1. \A t \in Threads : pc'[t] = "idle" /\ sel'[t] \in Ranks
  BY DEF ClearMemory, TypeOK
<1>2. \A r \in Ranks : holder'[r] = NoThread
  BY DEF ClearMemory
<1>3. QED
  BY <1>1, <1>2, FrontierAssumption DEF MutexInv

LEMMA InsertMutex ==
    ASSUME TypeOK, MutexInv, NEW t \in Threads, Insert(t)
    PROVE  MutexInv'
<1>1. /\ phase = "run" /\ UNCHANGED <<phase, holder, sel, queue>>
      /\ pc[t] \notin {"load", "unlink"}
      /\ \E where \in {"idle", "unseen", "allowed", "stage"} : pc' = [pc EXCEPT ![t] = where]
  BY DEF Insert, InsertCheckSeen, InsertCheckBlacklist, InsertMarkSeen, InsertKeep,
         InsertFlush, InsertFlushFails, Idle, At, boot, stage, queues, locals
<1>2. PICK where \in {"idle", "unseen", "allowed", "stage"} : pc' = [pc EXCEPT ![t] = where]
  BY <1>1
<1>3. QED
  BY <1>1, <1>2, OutsideMutex

LEMMA GetMutex ==
    ASSUME TypeOK, MutexInv, NEW t \in Threads, Get(t)
    PROVE  MutexInv'
<1> USE DEF boot, stage, queues, locals, At
<1>0. /\ phase = "run" /\ UNCHANGED phase
      /\ sel[t] \in Ranks /\ holder[sel[t]] \in Threads \cup {NoThread}
  BY DEF Get, GetPickQueue, GetPop, GetGiveUp, GetTakeFile, GetLoadFails, GetLoad,
         GetUnlink, GetCheckBlacklist, TypeOK
<1>1. ASSUME NEW k \in Samples, GetPickQueue(t, k) PROVE MutexInv'
  <2>1. /\ pc[t] \notin {"load", "unlink"}
        /\ pc' = [pc EXCEPT ![t] = "take"]
        /\ sel' = [sel EXCEPT ![t] = QueueOf(k)]
        /\ UNCHANGED <<holder, queue>>
    BY <1>1 DEF GetPickQueue
  <2>2. QueueOf(k) \in Ranks
    BY RankFacts
  <2>3. \A r \in Ranks : holder[r] # t
    BY <2>1, FrontierAssumption DEF MutexInv
  <2>4. \A x \in Threads \ {t} : pc'[x] = pc[x] /\ sel'[x] = sel[x]
    BY <2>1 DEF TypeOK
  <2>5. pc'[t] = "take" /\ sel'[t] = QueueOf(k)
    BY <2>1 DEF TypeOK
  <2>6. \A r \in Ranks : holder[r] # NoThread => sel'[holder[r]] = r
    BY <2>3, <2>4 DEF MutexInv, TypeOK
  <2>7. QED
    BY <1>0, <2>1, <2>2, <2>3, <2>4, <2>5, <2>6 DEF MutexInv
<1>2. CASE GetPop(t)
  <2>1. /\ pc[t] = "take" /\ pc' = [pc EXCEPT ![t] = "check"]
        /\ holder[sel[t]] = NoThread /\ UNCHANGED <<holder, sel>>
        /\ queue' = [queue EXCEPT ![sel[t]] = Tail(@)]
    BY <1>2 DEF GetPop
  <2>2. \A x \in Threads \ {t} : pc'[x] = pc[x]
    BY <2>1 DEF TypeOK
  <2>3. pc'[t] = "check"
    BY <2>1 DEF TypeOK
  <2>4. \A x \in Threads : pc[x] \in {"load", "unlink"} => sel[x] # sel[t]
    BY <2>1, FrontierAssumption DEF MutexInv
  <2>5. \A x \in Threads : pc[x] \in {"load", "unlink"} => queue'[sel[x]] = queue[sel[x]]
    BY <2>1, <2>4 DEF TypeOK
  <2>6. QED
    BY <1>0, <2>1, <2>2, <2>3, <2>5, FrontierAssumption DEF MutexInv
<1>3. CASE GetGiveUp(t)
  <2>1. /\ pc[t] = "take" /\ pc' = [pc EXCEPT ![t] = "again"]
        /\ UNCHANGED <<holder, sel, queue>>
    BY <1>3 DEF GetGiveUp
  <2>2. QED
    BY <1>0, <2>1, OutsideMutex
<1>4. CASE GetTakeFile(t)
  <2>1. /\ pc[t] = "take" /\ pc' = [pc EXCEPT ![t] = "load"]
        /\ holder[sel[t]] = NoThread /\ holder' = [holder EXCEPT ![sel[t]] = t]
        /\ queue[sel[t]] = <<>> /\ UNCHANGED <<sel, queue>>
    BY <1>4 DEF GetTakeFile
  <2>2. \A x \in Threads \ {t} : pc'[x] = pc[x]
    BY <2>1 DEF TypeOK
  <2>3. pc'[t] = "load" /\ holder'[sel[t]] = t
    BY <1>0, <2>1 DEF TypeOK
  <2>4. \A r \in Ranks \ {sel[t]} : holder'[r] = holder[r]
    BY <2>1 DEF TypeOK
  <2>5. \A x \in Threads \ {t} : pc[x] \in {"load", "unlink"} <=> holder'[sel[x]] = x
    <3>1. TAKE x \in Threads \ {t}
    <3>2. sel[x] \in Ranks
      BY DEF TypeOK
    <3>3. CASE sel[x] = sel[t]
      BY <3>3, <2>1, <2>3, FrontierAssumption DEF MutexInv
    <3>4. CASE sel[x] # sel[t]
      BY <3>2, <3>4, <2>4 DEF MutexInv
    <3>5. QED
      BY <3>3, <3>4
  <2>6. \A r \in Ranks : holder'[r] # NoThread => sel[holder'[r]] = r
    BY <2>3, <2>4 DEF MutexInv
  <2>7. QED
    BY <1>0, <2>1, <2>2, <2>3, <2>5, <2>6 DEF MutexInv
<1>5. ASSUME pc[t] \in {"load", "unlink"}, NEW where, where \notin {"load", "unlink"},
             pc' = [pc EXCEPT ![t] = where],
             holder' = [holder EXCEPT ![sel[t]] = NoThread], UNCHANGED sel,
             \A r \in Ranks \ {sel[t]} : queue'[r] = queue[r]
      PROVE  MutexInv'
  <2>1. \A x \in Threads \ {t} : pc'[x] = pc[x]
    BY <1>5 DEF TypeOK
  <2>2. pc'[t] = where /\ holder'[sel[t]] = NoThread
    BY <1>0, <1>5 DEF TypeOK
  <2>3. \A r \in Ranks \ {sel[t]} : holder'[r] = holder[r]
    BY <1>5 DEF TypeOK
  <2>4. holder[sel[t]] = t
    BY <1>5 DEF MutexInv
  <2>5. \A x \in Threads \ {t} : pc[x] \in {"load", "unlink"} => sel[x] # sel[t]
    BY <2>4 DEF MutexInv
  <2>6. ASSUME NEW x \in Threads \ {t}
        PROVE  pc[x] \in {"load", "unlink"} <=> holder'[sel[x]] = x
    <3>1. sel[x] \in Ranks /\ x # NoThread
      BY FrontierAssumption DEF TypeOK
    <3>2. CASE sel[x] = sel[t]
      BY <2>2, <2>5, <3>1, <3>2
    <3>3. CASE sel[x] # sel[t]
      BY <2>3, <3>1, <3>3 DEF MutexInv
    <3>4. QED
      BY <3>2, <3>3
  <2>7. \A r \in Ranks : holder'[r] # NoThread => sel[holder'[r]] = r
    BY <2>2, <2>3 DEF MutexInv
  <2>8. \A x \in Threads \ {t} : pc[x] \in {"load", "unlink"} => queue'[sel[x]] = queue[sel[x]]
    BY <1>5, <2>5 DEF TypeOK
  <2>9. t # NoThread
    BY FrontierAssumption
  <2>10. pc'[t] \in {"load", "unlink"} <=> holder'[sel[t]] = t
    BY <1>5, <2>2, <2>9
  <2>11. QED
    BY <1>0, <1>5, <2>1, <2>2, <2>6, <2>7, <2>8, <2>10 DEF MutexInv
<1>6. CASE GetLoadFails(t)
  BY <1>5, <1>6 DEF GetLoadFails
<1>7. CASE GetLoad(t)
  <2>1. /\ pc[t] = "load" /\ pc' = [pc EXCEPT ![t] = "unlink"]
        /\ UNCHANGED <<holder, sel>>
        /\ UrlsOf(<<sel[t], num[t]>>) # <<>>
        /\ queue' = [queue EXCEPT ![sel[t]] = UrlsOf(<<sel[t], num[t]>>)]
    BY <1>7 DEF GetLoad
  <2>2. \A x \in Threads \ {t} : pc'[x] = pc[x]
    BY <2>1 DEF TypeOK
  <2>3. pc'[t] = "unlink" /\ queue'[sel[t]] # <<>>
    BY <1>0, <2>1 DEF TypeOK
  <2>4. holder[sel[t]] = t
    BY <2>1 DEF MutexInv
  <2>5. \A x \in Threads \ {t} : pc[x] \in {"load", "unlink"} => sel[x] # sel[t]
    BY <2>4 DEF MutexInv
  <2>6. \A x \in Threads \ {t} : pc[x] \in {"load", "unlink"} => queue'[sel[x]] = queue[sel[x]]
    BY <2>1, <2>5 DEF TypeOK
  <2>7. QED
    BY <1>0, <2>1, <2>2, <2>3, <2>4, <2>6 DEF MutexInv
<1>8. CASE GetUnlink(t)
  <2>1. \A r \in Ranks \ {sel[t]} : queue'[r] = queue[r]
    BY <1>8 DEF GetUnlink, TypeOK
  <2>2. QED
    BY <1>5, <1>8, <2>1 DEF GetUnlink
<1>9. CASE GetCheckBlacklist(t)
  <2>1. /\ pc[t] = "check" /\ UNCHANGED <<holder, sel, queue>>
        /\ \E where \in {"idle", "again"} : pc' = [pc EXCEPT ![t] = where]
    BY <1>9 DEF GetCheckBlacklist, Idle
  <2>2. QED
    BY <1>0, <2>1, OutsideMutex
<1>10. QED
  BY <1>1, <1>2, <1>3, <1>4, <1>6, <1>7, <1>8, <1>9 DEF Get

LEMMA OtherMutex ==
    ASSUME TypeOK, MutexInv, NEW t \in Threads,
           \/ CrashInWrite(t)
           \/ CrashInLoad(t)
           \/ \E u \in Urls : BlacklistUrl(t, u)
    PROVE  MutexInv'
<1>1. CASE CrashInWrite(t) \/ CrashInLoad(t)
  BY <1>1, CrashMutex DEF CrashInWrite, CrashInLoad
<1>2. ASSUME NEW u \in Urls, BlacklistUrl(t, u) PROVE MutexInv'
  BY <1>2 DEF BlacklistUrl, MutexInv, boot, queues, locals
<1>3. QED
  BY <1>1, <1>2

\* The types and the mutexes are right in every reachable state.
THEOREM TypeAndMutex == Spec => [](TypeOK /\ MutexInv)
<1>1. Init => TypeOK /\ MutexInv
  BY InitTypeOK, RankFacts, FrontierAssumption DEF Init, MutexInv
<1>2. TypeOK /\ MutexInv /\ [Next]_vars => TypeOK' /\ MutexInv'
  <2> SUFFICES ASSUME TypeOK, MutexInv, [Next]_vars PROVE TypeOK' /\ MutexInv'
    OBVIOUS
  <2>1. CASE Boot
    BY <2>1, BootTyping, BootMutex
  <2>2. CASE Crash
    <3>1. DOMAIN disk' \in SUBSET FileName /\ disk' \in [DOMAIN disk' -> File]
      BY <2>2 DEF Crash, TypeOK
    <3>2. crashes' \in Nat
      BY <2>2 DEF Crash, TypeOK
    <3>3. QED
      BY <2>2, <3>1, <3>2, CrashTyping, CrashMutex DEF Crash
  <2>3. ASSUME NEW t \in Threads, Insert(t) PROVE TypeOK' /\ MutexInv'
    BY <2>3, InsertTyping, InsertMutex
  <2>4. ASSUME NEW t \in Threads, Get(t) PROVE TypeOK' /\ MutexInv'
    BY <2>4, GetTyping, GetMutex
  <2>5. ASSUME NEW t \in Threads,
               \/ CrashInWrite(t) \/ CrashInLoad(t)
               \/ \E u \in Urls : BlacklistUrl(t, u)
        PROVE  TypeOK' /\ MutexInv'
    BY <2>5, OtherTyping, OtherMutex
  <2>6. CASE UNCHANGED vars
    <3>1. TypeOK'
      BY <2>6 DEF TypeOK, vars, boot, filters, stage, queues, locals, history
    <3>2. MutexInv'
      BY <2>6 DEF MutexInv, vars, boot, queues, locals
    <3>3. QED
      BY <3>1, <3>2
  <2>7. QED
    BY <2>1, <2>2, <2>3, <2>4, <2>5, <2>6 DEF Next
<1>3. QED
  BY <1>1, <1>2, PTL DEF Spec

-----------------------------------------------------------------------------
(* The numbering of the files.                                             *)

\* While the directory is scanned the bound holds of the files met so far.
NumberingInv ==
    /\ phase = "run" => unlisted = {}
    /\ phase # "down" => \A f \in DOMAIN disk \ unlisted : f[2] <= numWritten[f[1]]

\* The scan never lowers a number and passes every number it meets.
LEMMA NextNumberBounds ==
    ASSUME NEW n \in Nat, NEW written \in Nat
    PROVE  NextNumber(n, written) >= n /\ NextNumber(n, written) >= written
BY DEF NextNumber

LEMMA BootNumbering ==
    ASSUME TypeOK, NumberingInv, Boot
    PROVE  NumberingInv'
<1> USE DEF boot, stage, history
<1>1. CASE Start
  BY <1>1 DEF Start, NumberingInv
<1>2. CASE IngestSeed
  BY <1>2 DEF IngestSeed, NumberingInv
<1>3. CASE SeedsIngested
  BY <1>3 DEF SeedsIngested, NumberingInv
<1>4. ASSUME NEW f \in unlisted, ScanFile(f) PROVE NumberingInv'
  <2>1. /\ phase' = "scan" /\ phase = "scan" /\ disk' = disk
        /\ unlisted' = unlisted \ {f}
        /\ numWritten' = [numWritten EXCEPT ![f[1]] = NextNumber(f[2], numWritten[f[1]])]
    BY <1>4 DEF ScanFile
  <2>2. f[1] \in Ranks /\ f[2] \in Nat /\ numWritten[f[1]] \in Nat
    BY DEF TypeOK, FileName
  <2>3. numWritten'[f[1]] >= f[2] /\ numWritten'[f[1]] >= numWritten[f[1]]
    BY <2>1, <2>2, NextNumberBounds DEF TypeOK
  <2>4. ASSUME NEW r \in Ranks PROVE numWritten'[r] \in Nat /\ numWritten'[r] >= numWritten[r]
    <3>1. numWritten[r] \in Nat
      BY DEF TypeOK
    <3>2. CASE r = f[1]
      <4>1. numWritten'[r] = NextNumber(f[2], numWritten[r])
        BY <2>1, <2>2, <3>2 DEF TypeOK
      <4>2. QED
        BY <2>2, <3>1, <4>1 DEF NextNumber
    <3>3. CASE r # f[1]
      <4>1. numWritten'[r] = numWritten[r]
        BY <2>1, <3>3 DEF TypeOK
      <4>2. QED
        BY <3>1, <4>1
    <3>4. QED
      BY <3>2, <3>3
  <2>5. ASSUME NEW g \in DOMAIN disk \ unlisted' PROVE g[2] <= numWritten'[g[1]]
    <3>1. g[1] \in Ranks /\ g[2] \in Nat /\ numWritten[g[1]] \in Nat
      BY DEF TypeOK, FileName
    <3>2. CASE g = f
      BY <3>1, <3>2, <2>2, <2>3, <2>4
    <3>3. CASE g # f
      <4>1. g[2] <= numWritten[g[1]]
        BY <3>3, <2>1 DEF NumberingInv
      <4>2. QED
        BY <4>1, <3>1, <2>4
    <3>4. QED
      BY <3>2, <3>3
  <2>6. QED
    BY <2>1, <2>5 DEF NumberingInv
<1>5. CASE StartThreads
  BY <1>5 DEF StartThreads, NumberingInv
<1>6. QED
  BY <1>1, <1>2, <1>3, <1>4, <1>5 DEF Boot

\* A vector is written out, whole or in part, and its number is used up.
LEMMA FlushNumbering ==
    ASSUME TypeOK, NumberingInv, NEW t \in Threads, phase = "run", UNCHANGED boot,
           numWritten' = [numWritten EXCEPT ![held[t].rank] = @ + 1],
           disk' = disk \/ \E c \in File : disk' = WithFile(BatchFile(t), c)
    PROVE  NumberingInv'
<1> DEFINE r == held[t].rank
<1>1. r \in Ranks /\ numWritten[r] \in Nat
  BY BatchTyping DEF TypeOK
<1>2. \A x \in Ranks : /\ numWritten[x] \in Nat /\ numWritten'[x] \in Nat
                       /\ numWritten'[x] >= numWritten[x]
  <2>1. numWritten \in [Ranks -> Nat] /\ numWritten' = [numWritten EXCEPT ![r] = numWritten[r] + 1]
    BY DEF TypeOK
  <2>2. numWritten'[r] = numWritten[r] + 1 /\ \A x \in Ranks \ {r} : numWritten'[x] = numWritten[x]
    BY <1>1, <2>1, UpdatedTyping
  <2>3. QED
    BY <1>1, <2>1, <2>2
<1>3. ASSUME NEW f \in DOMAIN disk' PROVE f[2] <= numWritten'[f[1]]
  <2>1. f \in DOMAIN disk \/ f = BatchFile(t)
    BY DEF WithFile
  <2>2. CASE f \in DOMAIN disk
    <3>1. f[2] <= numWritten[f[1]]
      BY <2>2 DEF NumberingInv
    <3>2. f[1] \in Ranks /\ f[2] \in Nat
      BY <2>2 DEF TypeOK, FileName
    <3>3. QED
      BY <3>1, <3>2, <1>2
  <2>3. CASE f = BatchFile(t)
    BY <2>3, <1>1, <1>2 DEF BatchFile
  <2>4. QED
    BY <2>1, <2>2, <2>3
<1>4. QED
  BY <1>3 DEF NumberingInv, boot

LEMMA InsertNumbering ==
    ASSUME TypeOK, NumberingInv, NEW t \in Threads, Insert(t)
    PROVE  NumberingInv'
<1>1. CASE InsertFlush(t)
  BY <1>1, BatchTyping, FlushNumbering DEF InsertFlush, At
<1>2. CASE InsertFlushFails(t)
  BY <1>2, BatchTyping, FlushNumbering DEF InsertFlushFails, At
<1>3. CASE UNCHANGED <<phase, unlisted, numWritten, disk>>
  BY <1>3 DEF NumberingInv
<1>4. QED
  BY <1>1, <1>2, <1>3 DEF Insert, InsertCheckSeen, InsertCheckBlacklist, InsertMarkSeen,
                          InsertKeep, boot, stage

LEMMA GetNumbering ==
    ASSUME TypeOK, NumberingInv, NEW t \in Threads, Get(t)
    PROVE  NumberingInv'
<1>1. UNCHANGED <<phase, unlisted, numWritten>>
  BY DEF Get, GetPickQueue, GetPop, GetGiveUp, GetTakeFile, GetLoadFails, GetLoad,
         GetUnlink, GetCheckBlacklist, boot, stage
<1>2. DOMAIN disk' \subseteq DOMAIN disk
  BY DEF Get, GetPickQueue, GetPop, GetGiveUp, GetTakeFile, GetLoadFails, GetLoad,
         GetUnlink, GetCheckBlacklist, WithoutFile, Restrict
<1>3. QED
  BY <1>1, <1>2 DEF NumberingInv

LEMMA NumberingInvariant == Spec => []NumberingInv
<1>1. Init => NumberingInv
  BY DEF Init, NumberingInv
<1>2. TypeOK /\ NumberingInv /\ [Next]_vars => NumberingInv'
  <2> SUFFICES ASSUME TypeOK, NumberingInv, [Next]_vars PROVE NumberingInv'
    OBVIOUS
  <2>1. CASE Boot
    BY <2>1, BootNumbering
  <2>2. CASE Crash
    BY <2>2 DEF Crash, NumberingInv
  <2>3. ASSUME NEW t \in Threads, Insert(t) PROVE NumberingInv'
    BY <2>3, InsertNumbering
  <2>4. ASSUME NEW t \in Threads, Get(t) PROVE NumberingInv'
    BY <2>4, GetNumbering
  <2>5. ASSUME NEW t \in Threads, CrashInWrite(t) \/ CrashInLoad(t) PROVE NumberingInv'
    BY <2>5 DEF CrashInWrite, CrashInLoad, NumberingInv
  <2>6. ASSUME NEW t \in Threads, NEW u \in Urls, BlacklistUrl(t, u) PROVE NumberingInv'
    BY <2>6 DEF BlacklistUrl, NumberingInv, boot, stage
  <2>7. CASE UNCHANGED vars
    BY <2>7 DEF NumberingInv, vars, boot, stage
  <2>8. QED
    BY <2>1, <2>2, <2>3, <2>4, <2>5, <2>6, <2>7 DEF Next
<1>3. QED
  BY <1>1, <1>2, TypeAndMutex, PTL DEF Spec

\* The numbering resumes no lower than the highest number in the directory, in
\* whatever order readdir lists the files, however many crashes came before and
\* whichever system calls failed.
THEOREM NumberingSafe == Spec => []NumberingNotBehind
<1>1. NumberingInv => NumberingNotBehind
  BY DEF NumberingInv, NumberingNotBehind
<1>2. QED
  BY <1>1, NumberingInvariant, PTL

-----------------------------------------------------------------------------
(* No file is stranded.                                                    *)

Queued(f) == f[2] \in Range(fileQueue[f[1]])

InTheHandsOf(t, f) == pc[t] \in {"load", "unlink"} /\ f = <<sel[t], num[t]>>

\* The whole files of the directory, also while it is scanned.
ServiceInv ==
    (phase # "down" /\ faults = 0) =>
        \A f \in DOMAIN disk : disk[f].whole =>
            f \in unlisted \/ Queued(f) \/ \E t \in Threads : InTheHandsOf(t, f)

\* The members of a queue that is appended to, and that loses its head.
LEMMA RangeAppend ==
    ASSUME NEW S, NEW s \in Seq(S), NEW n \in S
    PROVE  Range(Append(s, n)) = Range(s) \cup {n}
<1>1. DOMAIN Append(s, n) = DOMAIN s \cup {Len(s) + 1}
  OBVIOUS
<1>2. \A i \in DOMAIN s : Append(s, n)[i] = s[i]
  OBVIOUS
<1>3. Append(s, n)[Len(s) + 1] = n /\ Len(s) + 1 \notin DOMAIN s
  OBVIOUS
<1>4. QED
  BY <1>1, <1>2, <1>3 DEF Range

LEMMA TailRange ==
    ASSUME NEW S, NEW s \in Seq(S), s # <<>>
    PROVE  Range(Tail(s)) \subseteq Range(s)
<1>1. \A i \in DOMAIN Tail(s) : i + 1 \in DOMAIN s /\ Tail(s)[i] = s[i + 1]
  OBVIOUS
<1>2. QED
  BY <1>1 DEF Range

LEMMA RangeTail ==
    ASSUME NEW S, NEW s \in Seq(S), s # <<>>
    PROVE  Range(s) \subseteq Range(Tail(s)) \cup {Head(s)}
<1>1. ASSUME NEW i \in DOMAIN s, i # 1 PROVE s[i] \in Range(Tail(s))
  <2>1. i - 1 \in DOMAIN Tail(s) /\ Tail(s)[i - 1] = s[i]
    BY <1>1
  <2>2. QED
    BY <2>1 DEF Range
<1>2. QED
  BY <1>1 DEF Range

LEMMA BootService ==
    ASSUME TypeOK, ServiceInv, Boot
    PROVE  ServiceInv'
<1> USE DEF boot, filters, stage, queues, locals, history, ServiceInv, Queued, InTheHandsOf
<1>1. CASE Start
  BY <1>1 DEF Start
<1>2. CASE IngestSeed
  BY <1>2 DEF IngestSeed
<1>3. CASE SeedsIngested
  BY <1>3 DEF SeedsIngested
<1>4. ASSUME NEW f \in unlisted, ScanFile(f) PROVE ServiceInv'
  <2>1. /\ phase = "scan" /\ phase' = "scan" /\ unlisted' = unlisted \ {f}
        /\ fileQueue' = [fileQueue EXCEPT ![f[1]] = Append(fileQueue[f[1]], f[2])]
        /\ UNCHANGED <<disk, faults, pc, sel, num>>
    BY <1>4 DEF ScanFile
  <2>2. f[1] \in Ranks /\ f[2] \in Nat /\ f = <<f[1], f[2]>> /\ fileQueue[f[1]] \in Seq(Nat)
    BY DEF TypeOK, FileName
  <2>3. Range(fileQueue'[f[1]]) = Range(fileQueue[f[1]]) \cup {f[2]}
    <3>1. fileQueue'[f[1]] = Append(fileQueue[f[1]], f[2])
      BY <2>1, <2>2 DEF TypeOK
    <3>2. QED
      BY <2>2, <3>1, RangeAppend
  <2>4. \A r \in Ranks \ {f[1]} : fileQueue'[r] = fileQueue[r]
    BY <2>1 DEF TypeOK
  <2>5. \A g \in DOMAIN disk : g[1] \in Ranks
    BY DEF TypeOK, FileName
  <2>6. Queued(f)' /\ \A g \in DOMAIN disk : Queued(g) => Queued(g)'
    <3>1. Queued(f)'
      BY <2>3
    <3>2. ASSUME NEW g \in DOMAIN disk, Queued(g) PROVE Queued(g)'
      <4>1. CASE g[1] = f[1]
        BY <2>3, <3>2, <4>1
      <4>2. CASE g[1] # f[1]
        BY <2>4, <2>5, <3>2, <4>2
      <4>3. QED
        BY <4>1, <4>2
    <3>3. QED
      BY <3>1, <3>2
  <2>7. \A x, g : InTheHandsOf(x, g) => InTheHandsOf(x, g)'
    BY <2>1
  <2>8. ASSUME phase # "down", faults = 0, NEW g \in DOMAIN disk, disk[g].whole
        PROVE  g \in unlisted' \/ Queued(g)' \/ \E x \in Threads : InTheHandsOf(x, g)'
    <3>1. g \in unlisted \/ Queued(g) \/ \E x \in Threads : InTheHandsOf(x, g)
      BY <2>8, Zenon DEF ServiceInv
    <3> HIDE DEF ServiceInv, Queued, InTheHandsOf
    <3>2. QED
      BY <2>1, <2>6, <2>7, <3>1
  <2>9. QED
    <3> HIDE DEF Queued, InTheHandsOf
    <3>1. QED
      BY <2>1, <2>8
<1>5. CASE StartThreads
  BY <1>5 DEF StartThreads
<1>6. QED
  BY <1>1, <1>2, <1>3, <1>4, <1>5 DEF Boot

LEMMA InsertService ==
    ASSUME TypeOK, ServiceInv, NEW t \in Threads, Insert(t)
    PROVE  ServiceInv'
<1> USE DEF boot, filters, stage, queues, locals, history, At, Idle
<1>1. CASE InsertFlush(t)
  <2> DEFINE r == held[t].rank
             n == numWritten[r]
             f == BatchFile(t)
  <2>1. /\ phase = "run" /\ UNCHANGED <<phase, unlisted, faults, sel, num>>
        /\ disk' = WithFile(f, [urls |-> Batch(t), whole |-> TRUE])
        /\ fileQueue' = [fileQueue EXCEPT ![r] = Append(fileQueue[r], n)]
        /\ pc[t] = "stage" /\ pc' = [pc EXCEPT ![t] = "idle"]
    BY <1>1 DEF InsertFlush
  <2>2. r \in Ranks /\ n \in Nat /\ f[1] = r /\ f[2] = n /\ fileQueue[r] \in Seq(Nat)
    BY BatchTyping DEF TypeOK, BatchFile
  <2>3. Range(fileQueue'[r]) = Range(fileQueue[r]) \cup {n}
    <3>1. fileQueue'[r] = Append(fileQueue[r], n)
      BY <2>1, <2>2 DEF TypeOK
    <3>2. QED
      BY <2>2, <3>1, RangeAppend
  <2>4. \A x \in Ranks \ {r} : fileQueue'[x] = fileQueue[x]
    BY <2>1 DEF TypeOK
  <2>5. \A g : \A x \in Threads : InTheHandsOf(x, g) => InTheHandsOf(x, g)'
    BY <2>1 DEF InTheHandsOf, TypeOK
  <2>6. \A g \in DOMAIN disk : g[1] \in Ranks
    BY DEF TypeOK, FileName
  <2>7. \A g \in DOMAIN disk' : g = f \/ (g \in DOMAIN disk /\ disk'[g] = disk[g])
    BY <2>1 DEF WithFile
  <2> HIDE DEF r, n, f
  <2>8. ASSUME faults' = 0, NEW g \in DOMAIN disk', disk'[g].whole
        PROVE  g \in unlisted \/ Queued(g)' \/ \E x \in Threads : InTheHandsOf(x, g)'
    <3>1. CASE g = f
      BY <2>2, <2>3, <3>1 DEF Queued
    <3>2. CASE g # f
      <4>1. g \in unlisted \/ Queued(g) \/ \E x \in Threads : InTheHandsOf(x, g)
        BY <2>1, <2>7, <2>8, <3>2 DEF ServiceInv
      <4>2. Queued(g) => Queued(g)'
        BY <2>3, <2>4, <2>6, <2>7, <3>2 DEF Queued
      <4>3. QED
        BY <2>5, <4>1, <4>2
    <3>3. QED
      BY <3>1, <3>2
  <2>9. QED
    BY <2>1, <2>8 DEF ServiceInv
<1>2. CASE InsertFlushFails(t)
  BY <1>2 DEF InsertFlushFails, Fails, ServiceInv, TypeOK
<1>3. ASSUME ~InsertFlush(t), ~InsertFlushFails(t) PROVE ServiceInv'
  <2>1. /\ UNCHANGED <<phase, unlisted, fileQueue, disk, faults, sel, num>>
        /\ pc[t] \notin {"load", "unlink"}
        /\ \E where : pc' = [pc EXCEPT ![t] = where]
    BY <1>3 DEF Insert, InsertCheckSeen, InsertCheckBlacklist, InsertMarkSeen, InsertKeep
  <2>2. \A g : \A x \in Threads : InTheHandsOf(x, g) => InTheHandsOf(x, g)'
    BY <2>1 DEF InTheHandsOf, TypeOK
  <2>3. \A g : Queued(g)' <=> Queued(g)
    BY <2>1 DEF Queued
  <2>4. QED
    BY <2>1, <2>2, <2>3 DEF ServiceInv
<1>4. QED
  BY <1>1, <1>2, <1>3

LEMMA GetService ==
    ASSUME TypeOK, NumberingInv, ServiceInv, NEW t \in Threads, Get(t)
    PROVE  ServiceInv'
<1> USE DEF boot, filters, stage, queues, locals, history, At, Idle
<1>0. /\ phase = "run" /\ UNCHANGED <<phase, unlisted>> /\ unlisted = {}
      /\ sel[t] \in Ranks /\ num[t] \in Nat
  BY DEF Get, GetPickQueue, GetPop, GetGiveUp, GetTakeFile, GetLoadFails, GetLoad,
         GetUnlink, GetCheckBlacklist, NumberingInv, TypeOK
<1>1. ASSUME UNCHANGED <<fileQueue, disk, faults>>,
             \A g : \A x \in Threads : InTheHandsOf(x, g) => InTheHandsOf(x, g)'
      PROVE  ServiceInv'
  <2>1. \A g : Queued(g)' <=> Queued(g)
    BY <1>1 DEF Queued
  <2>2. QED
    BY <1>0, <1>1, <2>1 DEF ServiceInv
<1>2. ASSUME NEW k \in Samples, GetPickQueue(t, k) PROVE ServiceInv'
  <2>1. \A g : \A x \in Threads : InTheHandsOf(x, g) => InTheHandsOf(x, g)'
    BY <1>2 DEF GetPickQueue, InTheHandsOf, TypeOK
  <2>2. QED
    BY <1>1, <1>2, <2>1 DEF GetPickQueue
<1>3. CASE GetPop(t) \/ GetGiveUp(t) \/ GetLoad(t) \/ GetCheckBlacklist(t)
  <2>1. /\ UNCHANGED <<fileQueue, disk, faults, sel, num>>
        /\ \/ pc[t] \notin {"load", "unlink"} /\ \E where : pc' = [pc EXCEPT ![t] = where]
           \/ pc' = [pc EXCEPT ![t] = "unlink"]
    BY <1>3 DEF GetPop, GetGiveUp, GetLoad, GetCheckBlacklist
  <2>2. \A g : \A x \in Threads : InTheHandsOf(x, g) => InTheHandsOf(x, g)'
    BY <2>1 DEF InTheHandsOf, TypeOK
  <2>3. QED
    BY <1>1, <2>1, <2>2
<1>4. CASE GetTakeFile(t)
  <2> DEFINE s == sel[t]
  <2>1. /\ pc[t] = "take" /\ pc' = [pc EXCEPT ![t] = "load"]
        /\ fileQueue[s] # <<>> /\ fileQueue' = [fileQueue EXCEPT ![s] = Tail(fileQueue[s])]
        /\ num' = [num EXCEPT ![t] = Head(fileQueue[s])]
        /\ UNCHANGED <<sel, disk, faults>>
    BY <1>4 DEF GetTakeFile
  <2>2. fileQueue[s] \in Seq(Nat) /\ fileQueue'[s] = Tail(fileQueue[s])
    BY <1>0, <2>1 DEF TypeOK
  <2>3. Range(fileQueue[s]) \subseteq Range(fileQueue'[s]) \cup {num'[t]}
    BY <2>1, <2>2, RangeTail DEF TypeOK
  <2>4. pc'[t] = "load" /\ sel'[t] = s
    BY <2>1 DEF TypeOK
  <2>5. \A x \in Ranks \ {s} : fileQueue'[x] = fileQueue[x]
    BY <2>1 DEF TypeOK
  <2>6. \A g : \A x \in Threads : InTheHandsOf(x, g) => InTheHandsOf(x, g)'
    BY <2>1 DEF InTheHandsOf, TypeOK
  <2>7. \A g \in DOMAIN disk : g = <<g[1], g[2]>> /\ g[1] \in Ranks
    BY DEF TypeOK, FileName
  <2> HIDE DEF s
  <2>8. ASSUME NEW g \in DOMAIN disk, Queued(g) PROVE Queued(g)' \/ InTheHandsOf(t, g)'
    <3>1. CASE g[1] = s /\ g[2] = num'[t]
      BY <2>4, <2>7, <3>1 DEF InTheHandsOf
    <3>2. CASE g[1] = s /\ g[2] # num'[t]
      BY <2>3, <2>8, <3>2 DEF Queued
    <3>3. CASE g[1] # s
      BY <2>5, <2>7, <2>8, <3>3 DEF Queued
    <3>4. QED
      BY <3>1, <3>2, <3>3
  <2>9. QED
    BY <1>0, <2>1, <2>6, <2>8 DEF ServiceInv
<1>5. CASE GetLoadFails(t) \/ GetUnlink(t)
  <2> DEFINE f == <<sel[t], num[t]>>
  <2>1. /\ UNCHANGED <<fileQueue, sel, num>>
        /\ \E where : pc' = [pc EXCEPT ![t] = where]
        /\ \/ faults' = faults + 1
           \/ faults' = faults /\ f \notin DOMAIN disk'
        /\ DOMAIN disk' \subseteq DOMAIN disk
        /\ \A g \in DOMAIN disk' : disk'[g] = disk[g]
    BY <1>5 DEF GetLoadFails, GetUnlink, Fails, WithoutFile, Restrict
  <2>2. \A g : g # f => \A x \in Threads : InTheHandsOf(x, g) => InTheHandsOf(x, g)'
    BY <2>1 DEF InTheHandsOf, TypeOK
  <2>3. \A g : Queued(g)' <=> Queued(g)
    BY <2>1 DEF Queued
  <2> HIDE DEF f
  <2>4. CASE faults' = 0
    <3>1. faults = 0 /\ f \notin DOMAIN disk'
      BY <2>1, <2>4 DEF TypeOK
    <3>2. QED
      BY <1>0, <2>1, <2>2, <2>3, <3>1 DEF ServiceInv
  <2>5. QED
    BY <2>4 DEF ServiceInv
<1>6. QED
  BY <1>2, <1>3, <1>4, <1>5 DEF Get

\* While no system call has failed, every whole file of the directory waits in the
\* queue of its rank or is in the hands of a thread that loads it, however often the
\* process died before and in whatever order readdir lists the files.
THEOREM NoFileStranded == Spec => []NoStrandedFile
<1>1. Init => ServiceInv
  BY DEF Init, ServiceInv
<1>2. TypeOK /\ NumberingInv /\ ServiceInv /\ [Next]_vars => ServiceInv'
  <2> SUFFICES ASSUME TypeOK, NumberingInv, ServiceInv, [Next]_vars PROVE ServiceInv'
    OBVIOUS
  <2>1. CASE phase' = "down"
    BY <2>1 DEF ServiceInv
  <2>2. CASE Boot
    BY <2>2, BootService
  <2>3. ASSUME NEW t \in Threads, Insert(t) \/ Get(t) PROVE ServiceInv'
    BY <2>3, InsertService, GetService
  <2>4. CASE UNCHANGED <<phase, faults, disk, unlisted, fileQueue, pc, sel, num>>
    BY <2>4 DEF ServiceInv, Queued, InTheHandsOf
  <2>5. QED
    BY <2>1, <2>2, <2>3, <2>4
       DEF Next, Crash, CrashInWrite, CrashInLoad, BlacklistUrl, vars, boot, filters, stage,
           queues, locals, history
<1>3. NumberingInv /\ ServiceInv => NoStrandedFile
  BY DEF NumberingInv, ServiceInv, NoStrandedFile, Queued, InTheHandsOf
<1>4. QED
  BY <1>1, <1>2, <1>3, TypeAndMutex, NumberingInvariant, PTL DEF Spec
-----------------------------------------------------------------------------
(* What was blacklisted stays away.                                        *)

\* The filter has what was passed to blacklist_url, cut at a special character.
RefusedInv == \A u \in refused : Contains(banned, Stem[u])

\* If no URL with a special character is blacklisted under a name it is not looked
\* up by, no URL passed to blacklist_url is returned by a later step of get_url,
\* whichever thread had it in hand by then.
THEOREM BlacklistedStaysAway ==
    (\A u \in Urls : Stem[u] \in Lookups[u]) => (Spec => RefusedNeverReturned)
<1> SUFFICES ASSUME \A u \in Urls : Stem[u] \in Lookups[u] PROVE Spec => RefusedNeverReturned
  OBVIOUS
<1> USE DEF boot, filters, stage, queues, locals, history
<1>1. Init => RefusedInv
  BY DEF Init, RefusedInv
<1>2. RefusedInv /\ [Next]_vars => RefusedInv'
  <2> SUFFICES ASSUME RefusedInv, [Next]_vars PROVE RefusedInv'
    OBVIOUS
  <2>1. CASE ClearMemory
    BY <2>1 DEF ClearMemory, RefusedInv
  <2>2. ASSUME NEW t \in Threads, NEW u \in Urls, BlacklistUrl(t, u) PROVE RefusedInv'
    BY <2>2 DEF BlacklistUrl, RefusedInv, Contains, WithString
  <2>3. CASE UNCHANGED <<refused, banned>>
    BY <2>3 DEF RefusedInv, Contains
  <2>4. ASSUME NEW t \in Threads, Insert(t) PROVE UNCHANGED <<refused, banned>>
    BY <2>4 DEF Insert, InsertCheckSeen, InsertCheckBlacklist, InsertMarkSeen, InsertKeep,
                InsertFlush, InsertFlushFails
  <2>5. ASSUME NEW t \in Threads, Get(t) PROVE UNCHANGED <<refused, banned>>
    BY <2>5 DEF Get, GetPickQueue, GetPop, GetGiveUp, GetTakeFile, GetLoadFails, GetLoad,
                GetUnlink, GetCheckBlacklist
  <2>6. Boot => UNCHANGED <<refused, banned>>
    BY DEF Boot, Start, IngestSeed, SeedsIngested, ScanFile, StartThreads
  <2>7. QED
    BY <2>1, <2>2, <2>3, <2>4, <2>5, <2>6 DEF Next, Crash, CrashInWrite, CrashInLoad, vars
<1>3. TypeOK /\ RefusedInv /\ [Next]_vars
        => [\A e \in delivered' \ delivered : e.url \notin refused]_vars
  <2> SUFFICES ASSUME TypeOK, RefusedInv, [Next]_vars, NEW e \in delivered' \ delivered
               PROVE  e.url \notin refused
    OBVIOUS
  <2>1. ASSUME NEW t \in Threads, GetCheckBlacklist(t) PROVE e.url \notin refused
    <3>1. e = held[t] /\ ~InBlacklist(held[t].url)
      BY <2>1 DEF GetCheckBlacklist
    <3>2. held[t].url \in Urls
      BY DEF TypeOK, Entry
    <3>3. QED
      BY <3>1, <3>2 DEF InBlacklist, RefusedInv
  <2>2. ASSUME NEW t \in Threads, Get(t), ~GetCheckBlacklist(t) PROVE delivered' = delivered
    BY <2>2 DEF Get, GetPickQueue, GetPop, GetGiveUp, GetTakeFile, GetLoadFails, GetLoad,
                GetUnlink
  <2>3. ASSUME NEW t \in Threads, Insert(t) PROVE delivered' = delivered
    BY <2>3 DEF Insert, InsertCheckSeen, InsertCheckBlacklist, InsertMarkSeen, InsertKeep,
                InsertFlush, InsertFlushFails
  <2>4. Boot => delivered' = delivered
    BY DEF Boot, Start, IngestSeed, SeedsIngested, ScanFile, StartThreads
  <2>5. QED
    BY <2>1, <2>2, <2>3, <2>4 DEF Next, Crash, CrashInWrite, CrashInLoad, BlacklistUrl, vars
<1>4. QED
  BY <1>1, <1>2, <1>3, TypeAndMutex, PTL DEF Spec, RefusedNeverReturned

-----------------------------------------------------------------------------
(* The first run: until the process dies, no number is used twice and what  *)
(* is queued or loaded is whole.                                           *)

\* The file of rank r and number n was written before, and is whole or gone.
Written(r, n) ==
    /\ n < numWritten[r]
    /\ <<r, n>> \in DOMAIN disk => disk[<<r, n>>].whole

FilesInv ==
    /\ phase # "run" => DOMAIN disk = {} /\ unlisted = {} /\ \A r \in Ranks : fileQueue[r] = <<>>
    /\ \A f \in DOMAIN disk : f[2] < numWritten[f[1]]
    /\ \A r \in Ranks : \A n \in Range(fileQueue[r]) : Written(r, n)
    /\ \A t \in Threads : pc[t] \in {"load", "unlink"} => Written(sel[t], num[t])

\* Until the loaded file is unlinked, its URLs are all in the queue.
LoadedInv ==
    \A t \in Threads : pc[t] = "unlink" /\ <<sel[t], num[t]>> \in DOMAIN disk =>
        Range(disk[<<sel[t], num[t]>>].urls) \subseteq Range(queue[sel[t]])

FirstRun == crashes = 0 => FilesInv /\ LoadedInv

\* A file is written under the next number, or one is removed, or neither.
Writes(t) ==
    /\ pc[t] = "stage"
    /\ numWritten' = [numWritten EXCEPT ![held[t].rank] = @ + 1]
    /\ disk' = disk \/ \E c \in File : disk' = WithFile(BatchFile(t), c)

LEMMA WrittenStays ==
    ASSUME TypeOK, FilesInv, NEW r \in Ranks, NEW n \in Nat, Written(r, n),
           \/ UNCHANGED numWritten /\ DOMAIN disk' \subseteq DOMAIN disk
                                   /\ \A f \in DOMAIN disk' : disk'[f] = disk[f]
           \/ \E t \in Threads : Writes(t)
    PROVE  Written(r, n)'
<1>1. CASE UNCHANGED numWritten /\ DOMAIN disk' \subseteq DOMAIN disk
           /\ \A f \in DOMAIN disk' : disk'[f] = disk[f]
  BY <1>1 DEF Written
<1>2. ASSUME NEW t \in Threads, Writes(t) PROVE Written(r, n)'
  <2> DEFINE q == held[t].rank
  <2>1. q \in Ranks /\ numWritten[q] \in Nat /\ numWritten[r] \in Nat
    BY BatchTyping DEF TypeOK
  <2>2. numWritten'[r] \in Nat /\ numWritten'[r] >= numWritten[r]
    <3>1. numWritten'[r] = IF r = q THEN numWritten[r] + 1 ELSE numWritten[r]
      BY <1>2, <2>1 DEF Writes, TypeOK
    <3>2. QED
      BY <2>1, <3>1
  <2>3. n < numWritten'[r]
    BY <2>1, <2>2 DEF Written
  <2>4. <<r, n>> # BatchFile(t)
    BY <2>1 DEF Written, BatchFile
  <2>5. <<r, n>> \in DOMAIN disk' => <<r, n>> \in DOMAIN disk /\ disk'[<<r, n>>] = disk[<<r, n>>]
    BY <1>2, <2>4 DEF Writes, WithFile
  <2>6. QED
    BY <2>3, <2>5 DEF Written
<1>3. QED
  BY <1>1, <1>2

\* A step of a thread that goes on, in terms of FilesInv.
LEMMA ThreadFiles ==
    ASSUME TypeOK, FilesInv, NEW t \in Threads, phase = "run", UNCHANGED boot,
           \/ UNCHANGED numWritten /\ DOMAIN disk' \subseteq DOMAIN disk
                                   /\ \A f \in DOMAIN disk' : disk'[f] = disk[f]
           \/ Writes(t),
           \A r \in Ranks : \A n \in Range(fileQueue'[r]) :
               n \in Range(fileQueue[r]) \/ (n \in Nat /\ Written(r, n)'),
           \A x \in Threads : pc'[x] \in {"load", "unlink"} =>
               \/ pc[x] \in {"load", "unlink"} /\ sel'[x] = sel[x] /\ num'[x] = num[x]
               \/ num'[x] \in Range(fileQueue[sel'[x]]) /\ sel'[x] \in Ranks
    PROVE  FilesInv'
<1>1. \A r \in Ranks : fileQueue[r] \in Seq(Nat) /\ Range(fileQueue[r]) \subseteq Nat
  BY SeqTyping DEF TypeOK
<1>2. \A r \in Ranks, n \in Nat : Written(r, n) => Written(r, n)'
  BY WrittenStays
<1>3. \A f \in DOMAIN disk' : f[2] < numWritten'[f[1]]
  <2>1. CASE UNCHANGED numWritten /\ DOMAIN disk' \subseteq DOMAIN disk
    BY <2>1 DEF FilesInv
  <2>2. CASE Writes(t)
    <3>1. held[t].rank \in Ranks /\ numWritten[held[t].rank] \in Nat
      BY BatchTyping DEF TypeOK
    <3>2. TAKE f \in DOMAIN disk'
    <3>3. CASE f \in DOMAIN disk
      <4>1. f[1] \in Ranks /\ f[2] \in Nat /\ numWritten[f[1]] \in Nat /\ f[2] < numWritten[f[1]]
        BY <3>3 DEF FilesInv, TypeOK, FileName
      <4>2. numWritten \in [Ranks -> Nat]
            /\ numWritten' = [numWritten EXCEPT ![held[t].rank] = numWritten[held[t].rank] + 1]
        BY <2>2 DEF Writes, TypeOK
      <4>3. numWritten'[f[1]] >= numWritten[f[1]] /\ numWritten'[f[1]] \in Nat
        <5>1. CASE f[1] = held[t].rank
          BY <3>1, <4>2, <5>1, UpdatedTyping
        <5>2. CASE f[1] # held[t].rank
          BY <3>1, <4>1, <4>2, <5>2, UpdatedTyping
        <5>3. QED
          BY <5>1, <5>2
      <4>4. QED
        BY <4>1, <4>3
    <3>4. CASE f = BatchFile(t)
      BY <2>2, <3>1, <3>4 DEF Writes, BatchFile, TypeOK
    <3>5. QED
      BY <2>2, <3>3, <3>4 DEF Writes, WithFile
  <2>3. QED
    BY <2>1, <2>2
<1>4. \A r \in Ranks : \A n \in Range(fileQueue'[r]) : Written(r, n)'
  BY <1>1, <1>2 DEF FilesInv
<1>5. \A x \in Threads : pc'[x] \in {"load", "unlink"} => Written(sel[x], num[x])'
  <2>1. SUFFICES ASSUME NEW x \in Threads, pc'[x] \in {"load", "unlink"}
                 PROVE  Written(sel[x], num[x])'
    OBVIOUS
  <2>2. \A r \in Ranks, n \in Nat :
          r = sel'[x] /\ n = num'[x] /\ Written(r, n)' => Written(sel[x], num[x])'
    BY DEF Written
  <2>3. sel[x] \in Ranks /\ num[x] \in Nat
    BY DEF TypeOK
  <2>4. CASE pc[x] \in {"load", "unlink"} /\ sel'[x] = sel[x] /\ num'[x] = num[x]
    BY <2>2, <2>3, <2>4, <1>2 DEF FilesInv
  <2>5. CASE num'[x] \in Range(fileQueue[sel'[x]]) /\ sel'[x] \in Ranks
    <3>1. num'[x] \in Nat /\ Written(sel'[x], num'[x])
      BY <2>5, <1>1 DEF FilesInv
    <3>2. QED
      BY <2>2, <2>5, <3>1, <1>2
  <2>6. QED
    BY <2>1, <2>4, <2>5
<1>6. phase' = "run"
  BY DEF boot
<1>7. QED
  BY <1>3, <1>4, <1>5, <1>6 DEF FilesInv

LEMMA BootFirst ==
    ASSUME TypeOK, MutexInv, FilesInv, Boot
    PROVE  FilesInv' /\ LoadedInv'
<1> USE DEF boot, filters, stage, queues, locals, history
<1>1. /\ phase # "run" /\ DOMAIN disk = {} /\ unlisted = {}
      /\ UNCHANGED <<disk, fileQueue, pc, sel, num>>
      /\ unlisted' = {}
  BY DEF FilesInv, Boot, Start, IngestSeed, SeedsIngested, ScanFile, StartThreads
<1>2. \A t \in Threads : pc[t] = "idle"
  BY <1>1 DEF MutexInv
<1>3. \A r \in Ranks : fileQueue[r] = <<>> /\ Range(fileQueue[r]) = {}
  BY <1>1 DEF FilesInv, Range
<1>4. FilesInv'
  BY <1>1, <1>2, <1>3 DEF FilesInv
<1>5. QED
  BY <1>1, <1>2, <1>4 DEF LoadedInv

\* What insert_url does to files and queues.
LEMMA InsertFirst ==
    ASSUME TypeOK, MutexInv, FilesInv, LoadedInv, NEW t \in Threads, Insert(t)
    PROVE  FilesInv' /\ LoadedInv'
<1> USE DEF boot, filters, stage, queues, locals, history, At, Idle
<1>0. held[t].rank \in Ranks /\ numWritten[held[t].rank] \in Nat
  BY BatchTyping DEF TypeOK
<1>1. /\ phase = "run" /\ UNCHANGED <<phase, seedsLeft, unlisted, queue, sel, num>>
      /\ pc[t] \notin {"load", "unlink"} /\ \E where : pc' = [pc EXCEPT ![t] = where]
      /\ pc'[t] \notin {"load", "unlink"}
  BY DEF Insert, InsertCheckSeen, InsertCheckBlacklist, InsertMarkSeen, InsertKeep,
         InsertFlush, InsertFlushFails, TypeOK
<1>2. UNCHANGED <<numWritten, disk>> \/ Writes(t)
  <2>1. CASE InsertFlush(t)
    BY <2>1, BatchTyping DEF InsertFlush, Writes
  <2>2. CASE InsertFlushFails(t)
    BY <2>2, BatchTyping DEF InsertFlushFails, Writes
  <2>3. QED
    BY <2>1, <2>2 DEF Insert, InsertCheckSeen, InsertCheckBlacklist, InsertMarkSeen, InsertKeep
<1>3. \A r \in Ranks : \A n \in Range(fileQueue'[r]) :
         n \in Range(fileQueue[r]) \/ (n \in Nat /\ Written(r, n)')
  <2>1. CASE InsertFlush(t)
    <3>1. PICK q \in Ranks, n \in Nat : q = held[t].rank /\ n = numWritten[q]
      BY <1>0
    <3>2. /\ fileQueue' = [fileQueue EXCEPT ![q] = Append(fileQueue[q], n)]
          /\ numWritten' = [numWritten EXCEPT ![q] = n + 1]
          /\ disk' = WithFile(<<q, n>>, [urls |-> Batch(t), whole |-> TRUE])
      BY <2>1, <3>1 DEF InsertFlush, BatchFile
    <3>3. n < numWritten'[q] /\ disk'[<<q, n>>].whole
      <4>1. numWritten'[q] = n + 1
        BY <3>1, <3>2 DEF TypeOK
      <4>2. disk'[<<q, n>>].whole
        BY <3>2 DEF WithFile
      <4>3. QED
        BY <3>1, <4>1, <4>2
    <3>4. Written(q, n)'
      BY <3>3 DEF Written
    <3>5. fileQueue[q] \in Seq(Nat) /\ fileQueue'[q] = Append(fileQueue[q], n)
      BY <3>1, <3>2 DEF TypeOK
    <3>6. Range(fileQueue'[q]) = Range(fileQueue[q]) \cup {n}
      BY <3>5, RangeAppend
    <3>7. \A r \in Ranks \ {q} : fileQueue'[r] = fileQueue[r]
      BY <3>2 DEF TypeOK
    <3>8. QED
      BY <3>4, <3>6, <3>7
  <2>2. CASE ~InsertFlush(t)
    BY <2>2 DEF Insert, InsertCheckSeen, InsertCheckBlacklist, InsertMarkSeen, InsertKeep,
                InsertFlushFails
  <2>3. QED
    BY <2>1, <2>2
<1>4. \A x \in Threads : pc'[x] \in {"load", "unlink"} => pc[x] = pc'[x]
  BY <1>1 DEF TypeOK
<1>5. FilesInv'
  BY <1>1, <1>2, <1>3, <1>4, ThreadFiles
<1>6. LoadedInv'
  <2>1. SUFFICES ASSUME NEW x \in Threads, pc'[x] = "unlink", <<sel[x], num[x]>> \in DOMAIN disk'
                 PROVE  Range(disk'[<<sel[x], num[x]>>].urls) \subseteq Range(queue[sel[x]])
    BY <1>1 DEF LoadedInv
  <2>2. pc[x] = "unlink" /\ num[x] < numWritten[sel[x]] /\ sel[x] \in Ranks /\ num[x] \in Nat
    BY <2>1, <1>4 DEF FilesInv, Written, TypeOK
  <2>3. <<sel[x], num[x]>> # BatchFile(t)
    BY <2>2, <1>0 DEF BatchFile
  <2>4. <<sel[x], num[x]>> \in DOMAIN disk /\ disk'[<<sel[x], num[x]>>] = disk[<<sel[x], num[x]>>]
    BY <2>1, <2>3, <1>2 DEF Writes, WithFile
  <2>5. QED
    BY <2>2, <2>4 DEF LoadedInv
<1>7. QED
  BY <1>5, <1>6

LEMMA GetFirst ==
    ASSUME TypeOK, MutexInv, FilesInv, LoadedInv, NEW t \in Threads, Get(t)
    PROVE  FilesInv' /\ LoadedInv'
<1> USE DEF boot, filters, stage, queues, locals, history, At, Idle
<1>0. /\ phase = "run" /\ UNCHANGED <<phase, seedsLeft, unlisted, numWritten>>
      /\ sel[t] \in Ranks /\ num[t] \in Nat /\ fileQueue[sel[t]] \in Seq(Nat)
      /\ DOMAIN disk' \subseteq DOMAIN disk /\ \A f \in DOMAIN disk' : disk'[f] = disk[f]
  <2>1. phase = "run" /\ UNCHANGED <<phase, seedsLeft, unlisted, numWritten>>
    BY DEF Get, GetPickQueue, GetPop, GetGiveUp, GetTakeFile, GetLoadFails, GetLoad,
           GetUnlink, GetCheckBlacklist
  <2>2. sel[t] \in Ranks /\ num[t] \in Nat /\ fileQueue[sel[t]] \in Seq(Nat)
    BY DEF TypeOK
  <2>3. disk' = disk \/ disk' = WithoutFile(<<sel[t], num[t]>>)
    BY DEF Get, GetPickQueue, GetPop, GetGiveUp, GetTakeFile, GetLoadFails, GetLoad,
           GetUnlink, GetCheckBlacklist
  <2>4. DOMAIN disk' \subseteq DOMAIN disk /\ \A f \in DOMAIN disk' : disk'[f] = disk[f]
    BY <2>3 DEF WithoutFile, Restrict
  <2>5. QED
    BY <2>1, <2>2, <2>4
<1>1. \A x \in Threads \ {t} : pc'[x] = pc[x] /\ sel'[x] = sel[x] /\ num'[x] = num[x]
  BY DEF Get, GetPickQueue, GetPop, GetGiveUp, GetTakeFile, GetLoadFails, GetLoad,
         GetUnlink, GetCheckBlacklist, TypeOK
<1>2. pc'[t] \in {"load", "unlink"} =>
         \/ pc[t] \in {"load", "unlink"} /\ sel'[t] = sel[t] /\ num'[t] = num[t]
         \/ num'[t] \in Range(fileQueue[sel'[t]]) /\ sel'[t] \in Ranks
  <2>1. CASE GetTakeFile(t)
    <3>1. fileQueue[sel[t]] # <<>> /\ sel' = sel /\ num'[t] = Head(fileQueue[sel[t]])
      BY <2>1 DEF GetTakeFile, TypeOK
    <3>2. Head(fileQueue[sel[t]]) \in Range(fileQueue[sel[t]])
      BY <1>0, <3>1, SMTT(20) DEF Range
    <3>3. QED
      BY <1>0, <3>1, <3>2
  <2>2. CASE ~GetTakeFile(t)
    BY <2>2 DEF Get, GetPickQueue, GetPop, GetGiveUp, GetLoadFails, GetLoad,
                GetUnlink, GetCheckBlacklist, TypeOK
  <2>3. QED
    BY <2>1, <2>2
<1>3. \A r \in Ranks : Range(fileQueue'[r]) \subseteq Range(fileQueue[r])
  <2>1. CASE GetTakeFile(t)
    <3>1. /\ fileQueue[sel[t]] # <<>>
          /\ fileQueue' = [fileQueue EXCEPT ![sel[t]] = Tail(fileQueue[sel[t]])]
      BY <2>1 DEF GetTakeFile
    <3>2. Range(Tail(fileQueue[sel[t]])) \subseteq Range(fileQueue[sel[t]])
      BY <1>0, <3>1, TailRange
    <3>3. QED
      BY <1>0, <3>1, <3>2 DEF TypeOK
  <2>2. CASE ~GetTakeFile(t)
    BY <2>2 DEF Get, GetPickQueue, GetPop, GetGiveUp, GetLoadFails, GetLoad,
                GetUnlink, GetCheckBlacklist
  <2>3. QED
    BY <2>1, <2>2
<1>4. FilesInv'
  BY <1>0, <1>1, <1>2, <1>3, ThreadFiles
<1>5. LoadedInv'
  <2>1. SUFFICES ASSUME NEW x \in Threads, pc'[x] = "unlink", <<sel'[x], num'[x]>> \in DOMAIN disk'
                 PROVE  Range(disk'[<<sel'[x], num'[x]>>].urls) \subseteq Range(queue'[sel'[x]])
    BY DEF LoadedInv
  <2>2. CASE x = t
    <3>1. GetLoad(t)
      BY <2>1, <2>2 DEF Get, GetPickQueue, GetPop, GetGiveUp, GetTakeFile, GetLoadFails,
                        GetUnlink, GetCheckBlacklist, TypeOK
    <3>2. /\ sel' = sel /\ num' = num /\ disk' = disk
          /\ queue'[sel[t]] = disk[<<sel[t], num[t]>>].urls
      BY <1>0, <3>1 DEF GetLoad, UrlsOf, TypeOK
    <3>3. QED
      BY <2>2, <3>2
  <2>3. CASE x # t
    <3>1. pc[x] = "unlink" /\ sel'[x] = sel[x] /\ num'[x] = num[x] /\ sel[x] \in Ranks
      BY <1>1, <2>1, <2>3 DEF TypeOK
    <3>2. holder[sel[x]] = x
      BY <3>1 DEF MutexInv
    <3>3. queue'[sel[x]] = queue[sel[x]]
      <4>1. sel[x] # sel[t] \/ queue' = queue
        BY <2>3, <3>2, FrontierAssumption
           DEF Get, GetPickQueue, GetPop, GetGiveUp, GetTakeFile, GetLoadFails, GetLoad,
               GetUnlink, GetCheckBlacklist, MutexInv
      <4>2. \A r \in Ranks \ {sel[t]} : queue'[r] = queue[r]
        BY DEF Get, GetPickQueue, GetPop, GetGiveUp, GetTakeFile, GetLoadFails, GetLoad,
               GetUnlink, GetCheckBlacklist, TypeOK
      <4>3. QED
        BY <3>1, <4>1, <4>2
    <3>4. QED
      BY <1>0, <2>1, <3>1, <3>3 DEF LoadedInv
  <2>4. QED
    BY <2>2, <2>3
<1>6. QED
  BY <1>4, <1>5

\* The count of crashes tells the first run.
LEMMA CrashesCount ==
    ASSUME TypeOK, [Next]_vars, crashes' = 0
    PROVE  crashes = 0 /\ ~Crash /\ \A t \in Threads : ~CrashInWrite(t)
<1>1. ASSUME NEW t \in Threads, Insert(t) PROVE crashes' = crashes
  BY <1>1 DEF Insert, InsertCheckSeen, InsertCheckBlacklist, InsertMarkSeen, InsertKeep,
              InsertFlush, InsertFlushFails, history
<1>2. ASSUME NEW t \in Threads, Get(t) PROVE crashes' = crashes
  BY <1>2 DEF Get, GetPickQueue, GetPop, GetGiveUp, GetTakeFile, GetLoadFails, GetLoad,
              GetUnlink, GetCheckBlacklist, history
<1>3. Boot => crashes' = crashes
  BY DEF Boot, Start, IngestSeed, SeedsIngested, ScanFile, StartThreads, history
<1>4. ~Crash /\ \A t \in Threads : ~CrashInWrite(t)
  BY DEF Crash, CrashInWrite, TypeOK
<1>5. ASSUME NEW t \in Threads, CrashInLoad(t) \/ \E u \in Urls : BlacklistUrl(t, u)
      PROVE  crashes' = crashes
  BY <1>5 DEF CrashInLoad, BlacklistUrl
<1>6. QED
  BY <1>1, <1>2, <1>3, <1>4, <1>5 DEF Next, vars, history

\* Until the process dies, no number is used twice, and what is in line to be loaded
\* is whole.
LEMMA FirstRunInvariant == Spec => []FirstRun
<1>1. Init => FirstRun
  <2> SUFFICES ASSUME Init PROVE FilesInv /\ LoadedInv
    BY DEF FirstRun
  <2>1. \A r \in Ranks : fileQueue[r] = <<>> /\ Range(fileQueue[r]) = {}
    BY DEF Init, Range
  <2>2. QED
    BY <2>1 DEF Init, FilesInv, LoadedInv
<1>2. TypeOK /\ MutexInv /\ FirstRun /\ [Next]_vars => FirstRun'
  <2> SUFFICES ASSUME TypeOK, MutexInv, FirstRun, [Next]_vars, crashes' = 0
               PROVE  FilesInv' /\ LoadedInv'
    BY DEF FirstRun
  <2>1. crashes = 0 /\ ~Crash /\ \A t \in Threads : ~CrashInWrite(t)
    BY CrashesCount
  <2>2. FilesInv /\ LoadedInv
    BY <2>1 DEF FirstRun
  <2>3. CASE Boot
    BY <2>2, <2>3, BootFirst
  <2>4. ASSUME NEW t \in Threads, Insert(t) \/ Get(t) PROVE FilesInv' /\ LoadedInv'
    BY <2>2, <2>4, InsertFirst, GetFirst
  <2>5. ASSUME NEW t \in Threads PROVE ~CrashInLoad(t)
    BY <2>2 DEF CrashInLoad, At, FilesInv, Written
  <2>6. CASE UNCHANGED <<phase, unlisted, numWritten, fileQueue, disk, queue, pc, sel, num>>
    BY <2>2, <2>6 DEF FilesInv, LoadedInv, Written
  <2>7. QED
    BY <2>1, <2>3, <2>4, <2>5, <2>6 DEF Next, BlacklistUrl, vars, boot, stage, queues, locals
<1>3. QED
  BY <1>1, <1>2, TypeAndMutex, PTL DEF Spec

-----------------------------------------------------------------------------
(* Nothing is lost in the first run.                                       *)

\* Where an entry may be.
Kept == InMemory \cup WholeFileEntries \cup InHand({"check"}) \cup delivered \cup dropped

LEMMA KeptBy ==
    ASSUME NEW e,
           \/ \E r \in Ranks : e \in Range(staging[r])
           \/ \E r \in Ranks : e \in Range(queue[r])
           \/ \E f \in DOMAIN disk : disk[f].whole /\ e \in Range(disk[f].urls)
           \/ \E x \in Threads : pc[x] = "check" /\ e = held[x]
           \/ e \in delivered \/ e \in dropped
    PROVE  e \in Kept
<1>1. CASE \E r \in Ranks : e \in Range(staging[r])
  BY <1>1 DEF Kept, InMemory
<1>2. CASE \E r \in Ranks : e \in Range(queue[r])
  BY <1>2 DEF Kept, InMemory
<1>3. CASE \E f \in DOMAIN disk : disk[f].whole /\ e \in Range(disk[f].urls)
  BY <1>3 DEF Kept, WholeFileEntries
<1>4. CASE \E x \in Threads : pc[x] = "check" /\ e = held[x]
  BY <1>4 DEF Kept, InHand
<1>5. CASE e \in delivered \/ e \in dropped
  BY <1>5 DEF Kept
<1>6. QED
  BY <1>1, <1>2, <1>3, <1>4, <1>5

LEMMA KeptCases ==
    ASSUME NEW e \in Kept
    PROVE  \/ \E r \in Ranks : e \in Range(staging[r])
           \/ \E r \in Ranks : e \in Range(queue[r])
           \/ \E f \in DOMAIN disk : disk[f].whole /\ e \in Range(disk[f].urls)
           \/ \E x \in Threads : pc[x] = "check" /\ e = held[x]
           \/ e \in delivered \/ e \in dropped
BY DEF Kept, InMemory, WholeFileEntries, InHand

\* What a step leaves in its place is kept; the rest is for the step to show.
LEMMA KeptStep ==
    ASSUME \A r \in Ranks : Range(staging[r]) \subseteq Range(staging'[r]) \cup Kept',
           \A r \in Ranks : Range(queue[r]) \subseteq Range(queue'[r]) \cup Kept',
           \A f \in DOMAIN disk : disk[f].whole =>
               \/ f \in DOMAIN disk' /\ disk'[f] = disk[f]
               \/ Range(disk[f].urls) \subseteq Kept',
           \A x \in Threads : pc[x] = "check" =>
               (pc'[x] = "check" /\ held'[x] = held[x]) \/ held[x] \in Kept',
           delivered \subseteq delivered', dropped \subseteq dropped'
    PROVE  Kept \subseteq Kept'
<1> SUFFICES ASSUME NEW e \in Kept, e \notin Kept' PROVE FALSE
  OBVIOUS
<1>1. /\ \A r \in Ranks : e \notin Range(staging'[r])
      /\ \A r \in Ranks : e \notin Range(queue'[r])
      /\ \A f \in DOMAIN disk' : disk'[f].whole => e \notin Range(disk'[f].urls)
      /\ \A x \in Threads : pc'[x] = "check" => e # held'[x]
      /\ e \notin delivered' /\ e \notin dropped'
  BY DEF Kept, InMemory, WholeFileEntries, InHand
<1>2. /\ \A r \in Ranks : e \notin Range(staging[r])
      /\ \A r \in Ranks : e \notin Range(queue[r])
      /\ \A f \in DOMAIN disk : disk[f].whole => e \notin Range(disk[f].urls)
      /\ \A x \in Threads : pc[x] = "check" => e # held[x]
      /\ e \notin delivered /\ e \notin dropped
  BY <1>1
<1>3. QED
  BY <1>2, KeptCases

LEMMA InsertKeeps ==
    ASSUME TypeOK, FilesInv, NEW t \in Threads, Insert(t), stock \subseteq Kept
    PROVE  stock' \subseteq Kept'
<1> USE DEF boot, filters, stage, queues, locals, history, At, Idle
<1> DEFINE q == held[t].rank
<1>0. /\ held[t] \in Entry /\ q \in Ranks /\ numWritten[q] \in Nat
      /\ staging[q] \in Seq(Entry) /\ Batch(t) \in Seq(Entry)
  BY BatchTyping DEF TypeOK
<1>1. Range(Batch(t)) = Range(staging[q]) \cup {held[t]}
  BY <1>0, RangeAppend DEF Batch
<1>2. UNCHANGED <<queue, delivered, dropped>>
  BY DEF Insert, InsertCheckSeen, InsertCheckBlacklist, InsertMarkSeen, InsertKeep,
         InsertFlush, InsertFlushFails
<1>3. \A x \in Threads : pc[x] = "check" => pc'[x] = "check" /\ held'[x] = held[x]
  BY DEF Insert, InsertCheckSeen, InsertCheckBlacklist, InsertMarkSeen, InsertKeep,
         InsertFlush, InsertFlushFails, TypeOK
<1>4. BatchFile(t) \notin DOMAIN disk
  BY <1>0 DEF FilesInv, BatchFile
<1>5. CASE InsertKeep(t) \/ InsertFlushFails(t)
  <2>1. /\ staging' = [staging EXCEPT ![q] = Batch(t)]
        /\ stock' = stock \cup {held[t]}
        /\ disk' = disk \/ \E c : disk' = WithFile(BatchFile(t), c)
    BY <1>5 DEF InsertKeep, InsertFlushFails
  <2>2. Range(staging'[q]) = Range(staging[q]) \cup {held[t]}
    BY <1>0, <1>1, <2>1 DEF TypeOK
  <2>3. \A r \in Ranks : Range(staging[r]) \subseteq Range(staging'[r])
    BY <1>0, <2>1, <2>2 DEF TypeOK
  <2>4. \A f \in DOMAIN disk : f \in DOMAIN disk' /\ disk'[f] = disk[f]
    BY <1>4, <2>1 DEF WithFile
  <2>5. Kept \subseteq Kept'
    BY <1>2, <1>3, <2>3, <2>4, KeptStep
  <2>6. held[t] \in Kept'
    <3>1. \E r \in Ranks : held[t] \in Range(staging'[r])
      BY <1>0, <2>2
    <3>2. QED
      BY <3>1 DEF Kept, InMemory
  <2>7. QED
    BY <2>1, <2>5, <2>6
<1>6. CASE InsertFlush(t)
  <2>1. /\ staging' = [staging EXCEPT ![q] = <<>>]
        /\ stock' = stock \cup {held[t]}
        /\ disk' = WithFile(BatchFile(t), [urls |-> Batch(t), whole |-> TRUE])
    BY <1>6 DEF InsertFlush
  <2>2. \E f \in DOMAIN disk' : disk'[f].whole /\ disk'[f].urls = Batch(t)
    BY <2>1 DEF WithFile
  <2>3. Range(staging[q]) \cup {held[t]} \subseteq Kept'
    BY <1>1, <2>2 DEF Kept, WholeFileEntries
  <2>4. \A r \in Ranks : r # q => staging'[r] = staging[r]
    BY <2>1 DEF TypeOK
  <2>5. \A f \in DOMAIN disk : f \in DOMAIN disk' /\ disk'[f] = disk[f]
    BY <1>4, <2>1 DEF WithFile
  <2>6. \A r \in Ranks : Range(staging[r]) \subseteq Range(staging'[r]) \cup Kept'
    BY <2>3, <2>4
  <2>7. Kept \subseteq Kept'
    BY <1>2, <1>3, <2>5, <2>6, KeptStep
  <2>8. QED
    BY <2>1, <2>3, <2>7
<1>7. CASE UNCHANGED <<staging, disk, stock>>
  <2>1. Kept \subseteq Kept'
    BY <1>2, <1>3, <1>7, KeptStep
  <2>2. QED
    BY <1>7, <2>1
<1>8. QED
  BY <1>5, <1>6, <1>7 DEF Insert, InsertCheckSeen, InsertCheckBlacklist, InsertMarkSeen

LEMMA GetKeeps ==
    ASSUME TypeOK, MutexInv, LoadedInv, NEW t \in Threads, Get(t), stock \subseteq Kept
    PROVE  stock' \subseteq Kept'
<1> USE DEF boot, filters, stage, queues, locals, history, At, Idle
<1> DEFINE s == sel[t]
           f == <<sel[t], num[t]>>
<1>0. s \in Ranks /\ queue[s] \in Seq(Entry)
  BY DEF TypeOK
<1>1. /\ stock' = stock /\ staging' = staging
      /\ delivered \subseteq delivered' /\ dropped \subseteq dropped'
  BY DEF Get, GetPickQueue, GetPop, GetGiveUp, GetTakeFile, GetLoadFails, GetLoad,
         GetUnlink, GetCheckBlacklist
<1>2. \A x \in Threads \ {t} : pc'[x] = pc[x] /\ held'[x] = held[x]
  BY DEF Get, GetPickQueue, GetPop, GetGiveUp, GetTakeFile, GetLoadFails, GetLoad,
         GetUnlink, GetCheckBlacklist, TypeOK
<1>3. CASE GetPop(t) \/ GetUnlink(t)
  <2>1. /\ pc[t] # "check" /\ pc'[t] = "check" /\ held'[t] = Head(queue[s])
        /\ queue[s] # <<>> /\ queue' = [queue EXCEPT ![s] = Tail(queue[s])]
    BY <1>3 DEF GetPop, GetUnlink, MutexInv, TypeOK
  <2>2. held'[t] \in Kept'
    BY <2>1 DEF Kept, InHand
  <2>3. Range(queue[s]) \subseteq Range(queue'[s]) \cup {held'[t]}
    BY <1>0, <2>1, RangeTail DEF TypeOK
  <2>4. Range(queue[s]) \subseteq Kept'
    BY <1>0, <2>2, <2>3 DEF Kept, InMemory
  <2>5. \A r \in Ranks : Range(queue[r]) \subseteq Range(queue'[r]) \cup Kept'
    BY <2>1, <2>4 DEF TypeOK
  <2>6. \A g \in DOMAIN disk :
          \/ g \in DOMAIN disk' /\ disk'[g] = disk[g]
          \/ Range(disk[g].urls) \subseteq Kept'
    <3>1. CASE disk' = disk
      BY <3>1
    <3>2. CASE GetUnlink(t) /\ disk' = WithoutFile(f)
      <4>1. f \in DOMAIN disk => Range(disk[f].urls) \subseteq Range(queue[s])
        BY <3>2 DEF GetUnlink, LoadedInv
      <4>2. QED
        BY <2>4, <3>2, <4>1 DEF WithoutFile, Restrict
    <3>3. QED
      BY <1>3, <3>1, <3>2 DEF GetPop, GetUnlink
  <2>7. Kept \subseteq Kept'
    BY <1>1, <1>2, <2>1, <2>5, <2>6, KeptStep
  <2>8. QED
    BY <1>1, <2>7
<1>4. CASE GetLoad(t)
  <2>1. /\ pc[t] # "check" /\ disk' = disk
        /\ queue[s] = <<>> /\ \A r \in Ranks \ {s} : queue'[r] = queue[r]
    BY <1>4 DEF GetLoad, MutexInv, TypeOK
  <2>2. Range(queue[s]) = {}
    BY <2>1 DEF Range
  <2>3. \A r \in Ranks : Range(queue[r]) \subseteq Range(queue'[r]) \cup Kept'
    BY <2>1, <2>2
  <2>4. Kept \subseteq Kept'
    BY <1>1, <1>2, <2>1, <2>3, KeptStep
  <2>5. QED
    BY <1>1, <2>4
<1>5. CASE GetCheckBlacklist(t)
  <2>1. /\ UNCHANGED <<queue, disk>> /\ held[t] \in delivered' \cup dropped'
    BY <1>5 DEF GetCheckBlacklist
  <2>2. held[t] \in Kept'
    BY <2>1 DEF Kept
  <2>3. Kept \subseteq Kept'
    BY <1>1, <1>2, <2>1, <2>2, KeptStep
  <2>4. QED
    BY <1>1, <2>3
<1>6. CASE UNCHANGED <<queue, disk>> /\ pc[t] # "check"
  <2>1. Kept \subseteq Kept'
    BY <1>1, <1>2, <1>6, KeptStep
  <2>2. QED
    BY <1>1, <2>1
<1>7. QED
  BY <1>3, <1>4, <1>5, <1>6 DEF Get, GetPickQueue, GetGiveUp, GetTakeFile, GetLoadFails

LEMMA BootKeeps ==
    ASSUME TypeOK, MutexInv, Boot, phase # "down" => stock \subseteq Kept
    PROVE  stock' \subseteq Kept'
<1> USE DEF boot, filters, stage, queues, locals, history
<1>1. CASE Start
  <2>1. stock' = WholeFileEntries'
    BY <1>1 DEF Start, WholeFileEntries
  <2>2. QED
    BY <2>1 DEF Kept
<1>2. CASE IngestSeed
  <2> PICK r \in RanksOf[Head(seedsLeft)] :
        LET e == [url |-> Head(seedsLeft), rank |-> r, id |-> nextId]
        IN  /\ queue' = [queue EXCEPT ![r] = Append(queue[r], e)]
            /\ stock' = stock \cup {e}
    BY <1>2 DEF IngestSeed
  <2> DEFINE e == [url |-> Head(seedsLeft), rank |-> r, id |-> nextId]
  <2>1. /\ e = [url |-> Head(seedsLeft), rank |-> r, id |-> nextId]
        /\ queue' = [queue EXCEPT ![r] = Append(queue[r], e)]
        /\ stock' = stock \cup {e}
    OBVIOUS
  <2> HIDE DEF e
  <2>2. Head(seedsLeft) \in Urls /\ r \in Ranks
    <3>1. Head(seedsLeft) \in Urls
      BY <1>2, SeqTyping DEF IngestSeed, TypeOK
    <3>2. QED
      BY <3>1, FrontierAssumption DEF Ranks
  <2>3. e \in Entry /\ queue[r] \in Seq(Entry) /\ queue'[r] = Append(queue[r], e)
    BY <2>1, <2>2 DEF Entry, TypeOK
  <2>4. Range(queue'[r]) = Range(queue[r]) \cup {e}
    BY <2>3, RangeAppend
  <2>5. \A x \in Ranks : Range(queue[x]) \subseteq Range(queue'[x])
    BY <2>1, <2>4 DEF TypeOK
  <2>6. e \in Kept'
    BY <2>2, <2>4 DEF Kept, InMemory
  <2>7. UNCHANGED <<staging, disk, pc, held, delivered, dropped>> /\ phase # "down"
    BY <1>2 DEF IngestSeed
  <2>8. Kept \subseteq Kept'
    BY <2>5, <2>7, KeptStep
  <2>9. QED
    BY <2>1, <2>6, <2>7, <2>8
<1>3. CASE SeedsIngested \/ StartThreads \/ \E f \in unlisted : ScanFile(f)
  <2>1. UNCHANGED <<staging, queue, disk, pc, held, delivered, dropped, stock>> /\ phase # "down"
    BY <1>3 DEF SeedsIngested, StartThreads, ScanFile
  <2>2. Kept \subseteq Kept'
    BY <2>1, KeptStep
  <2>3. QED
    BY <2>1, <2>2
<1>4. QED
  BY <1>1, <1>2, <1>3 DEF Boot

\* If the process does not die, every URL that insert_url took is in a vector, a
\* queue, a whole file or a thread's hands until get_url returns or drops it,
\* whichever calls of open, write, read and remove fail.
THEOREM AcceptedStays == MaxCrashes = 0 => (Spec => []NothingLost)
<1> SUFFICES ASSUME MaxCrashes = 0 PROVE Spec => []NothingLost
  OBVIOUS
<1> DEFINE Inv == crashes = 0 /\ NothingLost
<1>1. Init => Inv
  BY DEF Init, NothingLost
<1>2. TypeOK /\ MutexInv /\ FirstRun /\ Inv /\ [Next]_vars => Inv'
  <2> SUFFICES ASSUME TypeOK, MutexInv, FirstRun, Inv, [Next]_vars PROVE Inv'
    OBVIOUS
  <2>1. FilesInv /\ LoadedInv /\ (phase # "down" => stock \subseteq Kept)
    BY DEF FirstRun, NothingLost, Kept
  <2>2. SUFFICES crashes' = crashes /\ (phase' # "down" => stock' \subseteq Kept')
    BY DEF NothingLost, Kept
  <2>3. ~Crash /\ \A t \in Threads : ~CrashInWrite(t)
    BY DEF Crash, CrashInWrite, TypeOK
  <2>4. CASE Boot
    <3>1. crashes' = crashes
      BY <2>4 DEF Boot, Start, IngestSeed, SeedsIngested, ScanFile, StartThreads, history
    <3>2. QED
      BY <2>1, <2>4, <3>1, BootKeeps
  <2>5. ASSUME NEW t \in Threads, Insert(t)
        PROVE  crashes' = crashes /\ stock' \subseteq Kept'
    <3>1. crashes' = crashes /\ phase = "run"
      BY <2>5 DEF Insert, InsertCheckSeen, InsertCheckBlacklist, InsertMarkSeen, InsertKeep,
                  InsertFlush, InsertFlushFails, history, At
    <3>2. QED
      BY <2>1, <2>5, <3>1, InsertKeeps
  <2>6. ASSUME NEW t \in Threads, Get(t)
        PROVE  crashes' = crashes /\ stock' \subseteq Kept'
    <3>1. crashes' = crashes /\ phase = "run"
      BY <2>6 DEF Get, GetPickQueue, GetPop, GetGiveUp, GetTakeFile, GetLoadFails, GetLoad,
                  GetUnlink, GetCheckBlacklist, history, At
    <3>2. QED
      BY <2>1, <2>6, <3>1, GetKeeps
  <2>7. CASE UNCHANGED <<phase, staging, queue, disk, pc, held, stock, delivered, dropped, crashes>>
    <3>1. Kept \subseteq Kept'
      BY <2>7, KeptStep
    <3>2. QED
      BY <2>1, <2>7, <3>1
  <2>8. ASSUME NEW t \in Threads, CrashInLoad(t) PROVE crashes' = crashes /\ phase' = "down"
    BY <2>8 DEF CrashInLoad
  <2>9. QED
    BY <2>3, <2>4, <2>5, <2>6, <2>7, <2>8
       DEF Next, BlacklistUrl, vars, boot, stage, queues, locals, history
<1>3. Inv => NothingLost
  OBVIOUS
<1>4. QED
  BY <1>1, <1>2, <1>3, TypeAndMutex, FirstRunInvariant, PTL DEF Spec

-----------------------------------------------------------------------------
(* One URL is accepted at most once by each thread.                        *)

StockOf(u) == {e \in stock : e.url = u}

\* The threads that insert u and have found it unseen.
Inserters(u) ==
    {t \in Threads : pc[t] \in {"unseen", "allowed", "stage"} /\ held[t].url = u}

\* The entries of u that are accepted or may yet be.
Taken(u) == StockOf(u) \cup {held[t] : t \in Inserters(u)}

AtMostThreads(S) == IsFiniteSet(S) /\ Cardinality(S) <= Cardinality(Threads)

AcceptInv ==
    /\ \A u \in Urls : ~Contains(seen, u) => StockOf(u) = {}
    /\ \A u \in Urls : AtMostThreads(Taken(u))
    /\ \A t \in Threads : pc[t] = "stage" => Contains(seen, held[t].url)
    /\ phase = "seed" =>
        IsInjective(seedsLeft) /\ \A i \in DOMAIN seedsLeft : StockOf(seedsLeft[i]) = {}

\* There are no more things in the threads' hands than threads.
LEMMA HandsBounded ==
    ASSUME IsFiniteSet(Threads), NEW h, NEW W \in SUBSET Threads
    PROVE  AtMostThreads({h[t] : t \in W})
<1> DEFINE S == {h[t] : t \in W}
           f == [t \in W |-> h[t]]
<1>1. IsFiniteSet(W) /\ Cardinality(W) <= Cardinality(Threads)
  BY FS_Subset
<1>2. f \in Surjection(W, S)
  BY DEF Surjection
<1>3. IsFiniteSet(S) /\ Cardinality(S) <= Cardinality(W)
  BY <1>1, <1>2, FS_Surjection
<1>4. Cardinality(S) \in Nat /\ Cardinality(W) \in Nat /\ Cardinality(Threads) \in Nat
  BY <1>1, <1>3, FS_CardinalityType
<1>5. QED
  BY <1>1, <1>3, <1>4 DEF AtMostThreads

LEMMA FewerBounded ==
    ASSUME IsFiniteSet(Threads), NEW S, AtMostThreads(S), NEW T \in SUBSET S
    PROVE  AtMostThreads(T)
<1>1. IsFiniteSet(T) /\ Cardinality(T) <= Cardinality(S)
  BY FS_Subset DEF AtMostThreads
<1>2. Cardinality(S) \in Nat /\ Cardinality(T) \in Nat /\ Cardinality(Threads) \in Nat
  BY <1>1, FS_CardinalityType DEF AtMostThreads
<1>3. QED
  BY <1>1, <1>2 DEF AtMostThreads

LEMMA InsertAccepts ==
    ASSUME IsFiniteSet(Threads), TypeOK, AcceptInv, NEW t \in Threads, Insert(t)
    PROVE  AcceptInv'
<1> USE DEF boot, filters, stage, queues, locals, history, At, Idle
<1>0. held[t].url \in Urls /\ phase = "run" /\ phase' = "run"
  BY DEF TypeOK, Entry, Insert, InsertCheckSeen, InsertCheckBlacklist, InsertMarkSeen,
         InsertKeep, InsertFlush, InsertFlushFails
<1>1. ASSUME NEW u \in Urls, InsertCheckSeen(t, u) PROVE AcceptInv'
  <2>1. /\ pc[t] = "idle" /\ pc' = [pc EXCEPT ![t] = "unseen"]
        /\ \A x \in Threads \ {t} : held'[x] = held[x]
        /\ held'[t].url = Https[u] /\ ~Contains(seen, Https[u])
        /\ UNCHANGED <<seen, stock>>
    BY <1>1 DEF InsertCheckSeen, TypeOK
  <2>2. \A v : StockOf(v)' = StockOf(v)
    BY <2>1 DEF StockOf
  <2>3. \A x \in Threads \ {t} : pc'[x] = pc[x]
    BY <2>1 DEF TypeOK
  <2>4. pc'[t] = "unseen"
    BY <2>1 DEF TypeOK
  <2>5. ASSUME NEW v \in Urls PROVE AtMostThreads(Taken(v))'
    <3>1. CASE v = Https[u]
      <4>1. StockOf(v)' = {}
        BY <2>1, <2>2, <3>1 DEF AcceptInv
      <4>2. Taken(v)' = {held'[x] : x \in Inserters(v)'}
        BY <4>1 DEF Taken
      <4>3. Inserters(v)' \in SUBSET Threads
        BY DEF Inserters
      <4>4. AtMostThreads({held'[x] : x \in Inserters(v)'})
        BY <4>3, HandsBounded
      <4>5. QED
        BY <4>2, <4>4 DEF AtMostThreads
    <3>2. CASE v # Https[u]
      <4>1. Inserters(v)' \subseteq Inserters(v) /\ t \notin Inserters(v)'
        BY <2>1, <2>3, <2>4, <3>2 DEF Inserters
      <4>2. {held'[x] : x \in Inserters(v)'} \subseteq {held[x] : x \in Inserters(v)}
        BY <4>1, <2>1 DEF Inserters
      <4>3. Taken(v)' \in SUBSET Taken(v)
        BY <2>2, <4>2 DEF Taken
      <4>4. QED
        BY <4>3, FewerBounded DEF AcceptInv, AtMostThreads
    <3>3. QED
      BY <3>1, <3>2
  <2>6. QED
    BY <1>0, <2>1, <2>2, <2>3, <2>4, <2>5 DEF AcceptInv, Contains
<1>2. CASE InsertCheckBlacklist(t) \/ InsertMarkSeen(t)
  <2>1. /\ pc[t] \in {"unseen", "allowed"} /\ UNCHANGED <<held, stock>>
        /\ \A x \in Threads \ {t} : pc'[x] = pc[x]
        /\ seen \subseteq seen'
        /\ pc'[t] = "stage" => Bits[held[t].url] \subseteq seen'
    BY <1>2 DEF InsertCheckBlacklist, InsertMarkSeen, WithString, TypeOK
  <2>2. \A v : StockOf(v)' = StockOf(v)
    BY <2>1 DEF StockOf
  <2>3. \A v : Inserters(v)' \subseteq Inserters(v)
    BY <2>1 DEF Inserters
  <2>4. ASSUME NEW v \in Urls PROVE AtMostThreads(Taken(v))'
    <3>1. Taken(v)' \in SUBSET Taken(v)
      BY <2>1, <2>2, <2>3 DEF Taken
    <3>2. QED
      BY <3>1, FewerBounded DEF AcceptInv, AtMostThreads
  <2>5. \A x \in Threads : pc'[x] = "stage" => Contains(seen, held[x].url)'
    BY <2>1 DEF AcceptInv, Contains
  <2>6. \A v \in Urls : ~Contains(seen, v)' => StockOf(v)' = {}
    BY <2>1, <2>2 DEF AcceptInv, Contains
  <2>7. QED
    BY <1>0, <2>4, <2>5, <2>6 DEF AcceptInv
<1>3. CASE InsertKeep(t) \/ InsertFlush(t) \/ InsertFlushFails(t)
  <2>1. /\ pc[t] = "stage" /\ pc' = [pc EXCEPT ![t] = "idle"]
        /\ stock' = stock \cup {held[t]}
        /\ UNCHANGED <<held, seen>>
    BY <1>3 DEF InsertKeep, InsertFlush, InsertFlushFails
  <2>2. \A x \in Threads \ {t} : pc'[x] = pc[x]
    BY <2>1 DEF TypeOK
  <2>3. pc'[t] = "idle"
    BY <2>1 DEF TypeOK
  <2>4. ASSUME NEW v \in Urls PROVE AtMostThreads(Taken(v))'
    <3>1. Inserters(v)' \subseteq Inserters(v)
      BY <2>1, <2>2, <2>3 DEF Inserters
    <3>2. StockOf(v)' \subseteq Taken(v)
      BY <2>1 DEF StockOf, Taken, Inserters
    <3>3. Taken(v)' \in SUBSET Taken(v)
      BY <2>1, <3>1, <3>2 DEF Taken
    <3>4. QED
      BY <3>3, FewerBounded DEF AcceptInv, AtMostThreads
  <2>5. \A v \in Urls : ~Contains(seen, v)' => StockOf(v)' = {}
    BY <2>1 DEF AcceptInv, Contains, StockOf
  <2>6. QED
    BY <1>0, <2>1, <2>2, <2>3, <2>4, <2>5 DEF AcceptInv, Contains
<1>4. QED
  BY <1>1, <1>2, <1>3 DEF Insert

\* get_url changes what is in the hands of a thread that does not insert.
LEMMA GetAccepts ==
    ASSUME TypeOK, AcceptInv, NEW t \in Threads, Get(t)
    PROVE  AcceptInv'
<1> USE DEF boot, filters, stage, queues, locals, history, At, Idle
<1>1. /\ UNCHANGED <<seen, stock>> /\ phase' = "run"
      /\ pc[t] \notin {"unseen", "allowed", "stage"}
      /\ pc'[t] \notin {"unseen", "allowed", "stage"}
      /\ \A x \in Threads \ {t} : pc'[x] = pc[x] /\ held'[x] = held[x]
  BY DEF Get, GetPickQueue, GetPop, GetGiveUp, GetTakeFile, GetLoadFails, GetLoad,
         GetUnlink, GetCheckBlacklist, TypeOK
<1>2. \A v : StockOf(v)' = StockOf(v)
  BY <1>1 DEF StockOf
<1>3. \A v : Inserters(v)' = Inserters(v) /\ t \notin Inserters(v)
  BY <1>1 DEF Inserters
<1>4. \A v : Taken(v)' = Taken(v)
  <2>1. TAKE v
  <2>2. {held'[x] : x \in Inserters(v)} = {held[x] : x \in Inserters(v)}
    BY <1>1, <1>3 DEF Inserters
  <2>3. QED
    BY <1>2, <1>3, <2>2 DEF Taken
<1>5. \A v \in Urls : AtMostThreads(Taken(v))'
  BY <1>4 DEF AcceptInv, AtMostThreads
<1>6. \A v \in Urls : ~Contains(seen, v)' => StockOf(v)' = {}
  BY <1>1, <1>2 DEF AcceptInv, Contains
<1>7. \A x \in Threads : pc'[x] = "stage" => Contains(seen, held[x].url)'
  BY <1>1 DEF AcceptInv, Contains
<1>8. QED
  BY <1>1, <1>5, <1>6, <1>7 DEF AcceptInv

LEMMA BootAccepts ==
    ASSUME IsFiniteSet(Threads), Threads # {}, IsInjective(Seeds),
           TypeOK, MutexInv, FilesInv, AcceptInv, Boot
    PROVE  AcceptInv'
<1> USE DEF boot, filters, stage, queues, locals, history
<1>1. phase # "run" /\ UNCHANGED <<pc, held>> /\ \A t \in Threads : pc[t] = "idle"
  BY DEF Boot, Start, IngestSeed, SeedsIngested, ScanFile, StartThreads, MutexInv
<1>2. \A v : Taken(v) = StockOf(v) /\ Taken(v)' = StockOf(v)'
  <2>1. \A v : Inserters(v) = {} /\ Inserters(v)' = {}
    BY <1>1 DEF Inserters
  <2>2. QED
    BY <2>1 DEF Taken
<1>3. CASE Start
  <2>1. DOMAIN disk = {} /\ stock' = {}
    BY <1>1, <1>3 DEF Start, FilesInv, WholeFileEntries
  <2>2. \A v : StockOf(v)' = {}
    BY <2>1 DEF StockOf
  <2>3. \A v : AtMostThreads(Taken(v))'
    <3>1. AtMostThreads({})
      BY FS_EmptySet, FS_CardinalityType DEF AtMostThreads
    <3>2. QED
      BY <1>2, <2>2, <3>1 DEF AtMostThreads
  <2>4. phase' = "seed" => IsInjective(seedsLeft)'
    BY <1>3 DEF Start, IsInjective
  <2>5. QED
    BY <1>1, <2>2, <2>3, <2>4 DEF AcceptInv
<1>4. CASE IngestSeed
  <2> PICK r \in RanksOf[Head(seedsLeft)] :
        stock' = stock \cup {[url |-> Head(seedsLeft), rank |-> r, id |-> nextId]}
    BY <1>4 DEF IngestSeed
  <2> DEFINE e == [url |-> Head(seedsLeft), rank |-> r, id |-> nextId]
  <2>1. /\ e = [url |-> Head(seedsLeft), rank |-> r, id |-> nextId]
        /\ stock' = stock \cup {e}
    OBVIOUS
  <2> HIDE DEF e
  <2>2. /\ phase = "seed" /\ phase' = "seed" /\ seedsLeft # <<>> /\ seedsLeft \in Seq(Urls)
        /\ seedsLeft' = Tail(seedsLeft)
        /\ seen \subseteq seen' /\ Bits[e.url] \subseteq seen'
        /\ e.url = seedsLeft[1] /\ 1 \in DOMAIN seedsLeft
    BY <1>4, <2>1 DEF IngestSeed, WithString, TypeOK
  <2>3. \A i \in DOMAIN seedsLeft' :
          i + 1 \in DOMAIN seedsLeft /\ i + 1 # 1 /\ seedsLeft'[i] = seedsLeft[i + 1]
    BY <2>2
  <2>4. \A v : StockOf(v)' = IF v = e.url THEN StockOf(v) \cup {e} ELSE StockOf(v)
    BY <2>1 DEF StockOf
  <2>5. StockOf(e.url) = {} /\ IsInjective(seedsLeft)
    BY <2>2 DEF AcceptInv
  <2>6. ASSUME NEW v \in Urls PROVE AtMostThreads(Taken(v))'
    <3>1. CASE v = e.url
      <4>1. Taken(v)' = {e}
        BY <1>2, <2>4, <2>5, <3>1
      <4>2. Cardinality(Threads) \in Nat /\ Cardinality(Threads) # 0
        BY FS_EmptySet, FS_CardinalityType
      <4>3. IsFiniteSet({e}) /\ Cardinality({e}) = 1
        BY FS_Singleton
      <4>4. QED
        BY <4>1, <4>2, <4>3 DEF AtMostThreads
    <3>2. CASE v # e.url
      <4>1. Taken(v)' = Taken(v)
        BY <1>2, <2>4, <3>2
      <4>2. QED
        BY <4>1 DEF AcceptInv, AtMostThreads
    <3>3. QED
      BY <3>1, <3>2
  <2>7. \A v \in Urls : ~Contains(seen, v)' => StockOf(v)' = {}
    BY <2>2, <2>4 DEF AcceptInv, Contains
  <2>8. IsInjective(seedsLeft')
    <3>1. SUFFICES ASSUME NEW i \in DOMAIN seedsLeft', NEW j \in DOMAIN seedsLeft',
                          seedsLeft'[i] = seedsLeft'[j]
                   PROVE  i = j
      BY DEF IsInjective
    <3>2. i \in Nat /\ j \in Nat
      BY <2>2
    <3>3. i + 1 = j + 1
      BY <2>3, <2>5, <3>1 DEF IsInjective
    <3>4. QED
      BY <3>2, <3>3
  <2>9. \A i \in DOMAIN seedsLeft' : StockOf(seedsLeft[i])' = {}
    <3>1. SUFFICES ASSUME NEW i \in DOMAIN seedsLeft' PROVE StockOf(seedsLeft[i])' = {}
      OBVIOUS
    <3>2. seedsLeft'[i] # e.url
      BY <2>2, <2>3, <2>5 DEF IsInjective
    <3>3. \A v : v = seedsLeft'[i] => StockOf(v)' = {}
      BY <2>2, <2>3, <2>4, <3>2 DEF AcceptInv
    <3>4. QED
      BY <3>3 DEF StockOf
  <2>10. QED
    BY <1>1, <2>6, <2>7, <2>8, <2>9 DEF AcceptInv
<1>5. CASE SeedsIngested \/ StartThreads \/ \E f \in unlisted : ScanFile(f)
  <2>1. UNCHANGED <<seen, stock>> /\ phase' # "seed"
    BY <1>5 DEF SeedsIngested, StartThreads, ScanFile
  <2>2. \A v : StockOf(v)' = StockOf(v)
    BY <2>1 DEF StockOf
  <2>3. \A v \in Urls : AtMostThreads(Taken(v))'
    BY <1>2, <2>2 DEF AcceptInv, AtMostThreads
  <2>4. \A v \in Urls : ~Contains(seen, v)' => StockOf(v)' = {}
    BY <2>1, <2>2 DEF AcceptInv, Contains
  <2>5. QED
    BY <1>1, <2>1, <2>3, <2>4 DEF AcceptInv
<1>6. QED
  BY <1>3, <1>4, <1>5 DEF Boot

\* Until the process dies, no URL is accepted more often than there are threads,
\* however they interleave between the test of the filter and the insertion into it
\* and whatever other URLs share its bits; the lines of the seed list, which are not
\* tested, must differ.
THEOREM AcceptedAtMostOncePerThread ==
    IsFiniteSet(Threads) /\ Threads # {} /\ IsInjective(Seeds) =>
        (Spec => []AcceptedOncePerThread)
<1> SUFFICES ASSUME IsFiniteSet(Threads), Threads # {}, IsInjective(Seeds)
             PROVE  Spec => []AcceptedOncePerThread
  OBVIOUS
<1> DEFINE Inv == crashes = 0 => AcceptInv
<1>1. Init => Inv
  <2> SUFFICES ASSUME Init PROVE AcceptInv
    OBVIOUS
  <2>1. \A v : StockOf(v) = {} /\ Taken(v) = {}
    BY DEF Init, StockOf, Inserters, Taken
  <2>2. AtMostThreads({})
    BY FS_EmptySet, FS_CardinalityType DEF AtMostThreads
  <2>3. QED
    BY <2>1, <2>2 DEF Init, AcceptInv
<1>2. TypeOK /\ MutexInv /\ FirstRun /\ Inv /\ [Next]_vars => Inv'
  <2> SUFFICES ASSUME TypeOK, MutexInv, FirstRun, Inv, [Next]_vars, crashes' = 0 PROVE AcceptInv'
    OBVIOUS
  <2>1. crashes = 0 /\ ~Crash /\ \A t \in Threads : ~CrashInWrite(t)
    BY CrashesCount
  <2>2. FilesInv /\ AcceptInv
    BY <2>1 DEF FirstRun
  <2>3. CASE Boot
    BY <2>2, <2>3, BootAccepts
  <2>4. ASSUME NEW t \in Threads, Insert(t) \/ Get(t) PROVE AcceptInv'
    BY <2>2, <2>4, InsertAccepts, GetAccepts
  <2>5. ASSUME NEW t \in Threads PROVE ~CrashInLoad(t)
    BY <2>2 DEF CrashInLoad, At, FilesInv, Written
  <2>6. CASE UNCHANGED <<phase, seedsLeft, seen, pc, held, stock>>
    BY <2>2, <2>6 DEF AcceptInv, Contains, Taken, StockOf, Inserters, AtMostThreads
  <2>7. QED
    BY <2>1, <2>3, <2>4, <2>5, <2>6
       DEF Next, BlacklistUrl, vars, boot, filters, locals, history
<1>3. Inv => AcceptedOncePerThread
  <2> SUFFICES ASSUME AcceptInv, NEW u \in Urls
               PROVE  Cardinality({e \in stock : e.url = u}) <= Cardinality(Threads)
    BY DEF AcceptedOncePerThread
  <2>1. StockOf(u) \in SUBSET Taken(u)
    BY DEF Taken
  <2>2. AtMostThreads(StockOf(u))
    BY <2>1, FewerBounded DEF AcceptInv
  <2>3. QED
    BY <2>2 DEF AtMostThreads, StockOf
<1>4. QED
  BY <1>1, <1>2, <1>3, TypeAndMutex, FirstRunInvariant, PTL DEF Spec

-----------------------------------------------------------------------------
(* Nothing comes out twice.                                                *)

\* The places an entry may be in: a staging vector, a queue, a file, the hands of a
\* thread that inserts it or is about to return it, and what has come out.
Staged(e) == \E r \in Ranks : e \in Range(staging[r])
Waiting(e) == \E r \in Ranks : e \in Range(queue[r])
Filed(e) == \E f \in DOMAIN disk : e \in Range(disk[f].urls)
Coming(e) == \E t \in Threads : pc[t] \in {"unseen", "allowed", "stage"} /\ held[t] = e
Going(e) == \E t \in Threads : pc[t] = "check" /\ held[t] = e
Gone(e) == e \in delivered \cup dropped

\* An entry is in one kind of place, except that what is loaded is also in the file.
OneKind ==
    \A e \in Entry :
       /\ Coming(e) => ~Staged(e) /\ ~Waiting(e) /\ ~Filed(e) /\ ~Going(e) /\ ~Gone(e)
       /\ Staged(e) => ~Waiting(e) /\ ~Filed(e) /\ ~Going(e) /\ ~Gone(e)
       /\ Waiting(e) \/ Filed(e) => ~Going(e) /\ ~Gone(e)
       /\ Going(e) => ~Gone(e)

\* It is in one position of one vector, queue or file, and in one thread's hands.
OnePosition ==
    /\ \A r \in Ranks : IsInjective(staging[r]) /\ IsInjective(queue[r])
    /\ \A f \in DOMAIN disk : IsInjective(disk[f].urls)
    /\ \A f, g \in DOMAIN disk : Range(disk[f].urls) \cap Range(disk[g].urls) # {} => f = g
    /\ \A t, u \in Threads : pc[t] = pc[u] /\ pc[t] = "check" /\ held[t] = held[u] => t = u
    /\ \A t, u \in Threads :
          /\ pc[t] \in {"unseen", "allowed", "stage"} /\ pc[u] \in {"unseen", "allowed", "stage"}
          /\ held[t] = held[u]
          => t = u

\* Vectors, queues and files keep to their rank.
InRank ==
    \A r \in Ranks : /\ \A e \in Range(staging[r]) : e.rank = r
                     /\ \A e \in Range(queue[r]) : e.rank = r
                     /\ \A f \in DOMAIN disk : f[1] = r => \A e \in Range(disk[f].urls) : e.rank = r

\* A queue shares entries with no file but the one that is being loaded.
OnlyLoading ==
    \A r \in Ranks, f \in DOMAIN disk :
       Range(queue[r]) \cap Range(disk[f].urls) # {} =>
          \E t \in Threads : pc[t] = "unlink" /\ f = <<sel[t], num[t]>>

\* The next id is new.
IdsBelow ==
    \A e \in Entry : Staged(e) \/ Waiting(e) \/ Filed(e) \/ Coming(e) \/ Going(e) \/ Gone(e)
                       => e.id < nextId

OnceInv == OneKind /\ OnePosition /\ InRank /\ OnlyLoading /\ IdsBelow

LEMMA InjectiveAppend ==
    ASSUME NEW S, NEW s \in Seq(S), NEW e \in S, IsInjective(s), e \notin Range(s)
    PROVE  IsInjective(Append(s, e))
<1>1. \A i \in DOMAIN Append(s, e) :
         \/ i \in DOMAIN s /\ Append(s, e)[i] = s[i]
         \/ i = Len(s) + 1 /\ Append(s, e)[i] = e
  OBVIOUS
<1>2. \A i \in DOMAIN s : s[i] # e
  BY DEF Range
<1>3. QED
  BY <1>1, <1>2 DEF IsInjective

LEMMA InjectivePrefix ==
    ASSUME NEW S, NEW s \in Seq(S), IsInjective(s), NEW k \in 0 .. Len(s)
    PROVE  IsInjective(SubSeq(s, 1, k)) /\ Range(SubSeq(s, 1, k)) \subseteq Range(s)
<1>1. \A i \in DOMAIN SubSeq(s, 1, k) : i \in DOMAIN s /\ SubSeq(s, 1, k)[i] = s[i]
  OBVIOUS
<1>2. QED
  BY <1>1 DEF IsInjective, Range

LEMMA InjectiveTail ==
    ASSUME NEW S, NEW s \in Seq(S), IsInjective(s), s # <<>>
    PROVE  /\ IsInjective(Tail(s)) /\ Head(s) \notin Range(Tail(s))
           /\ Head(s) \in Range(s) /\ Range(Tail(s)) \subseteq Range(s)
<1>1. /\ \A i \in DOMAIN Tail(s) : i + 1 \in DOMAIN s /\ i + 1 # 1 /\ Tail(s)[i] = s[i + 1]
      /\ \A i, j \in DOMAIN Tail(s) : i + 1 = j + 1 => i = j
      /\ 1 \in DOMAIN s /\ Head(s) = s[1]
  OBVIOUS
<1>2. IsInjective(Tail(s))
  BY <1>1 DEF IsInjective
<1>3. Head(s) \notin Range(Tail(s))
  BY <1>1 DEF IsInjective, Range
<1>4. Head(s) \in Range(s) /\ Range(Tail(s)) \subseteq Range(s)
  BY <1>1 DEF Range
<1>5. QED
  BY <1>2, <1>3, <1>4

LEMMA EmptyInjective == IsInjective(<<>>) /\ Range(<<>>) = {}
BY DOMAIN <<>> = {} DEF IsInjective, Range

\* What the invariant is about is of type.
LEMMA OnceTyping ==
    ASSUME TypeOK
    PROVE  /\ \A r \in Ranks : /\ staging[r] \in Seq(Entry) /\ Range(staging[r]) \subseteq Entry
                               /\ queue[r] \in Seq(Entry) /\ Range(queue[r]) \subseteq Entry
           /\ \A f \in DOMAIN disk : /\ disk[f].urls \in Seq(Entry) /\ f \in FileName
                                     /\ Range(disk[f].urls) \subseteq Entry
           /\ \A t \in Threads : held[t] \in Entry
           /\ delivered \cup dropped \subseteq Entry
<1>1. \A r \in Ranks : staging[r] \in Seq(Entry) /\ queue[r] \in Seq(Entry)
  BY DEF TypeOK
<1>2. \A f \in DOMAIN disk : disk[f].urls \in Seq(Entry) /\ f \in FileName
  BY DEF TypeOK, File
<1>3. QED
  BY <1>1, <1>2, SeqTyping DEF TypeOK

\* The threads' hands hold what they held, or less.
HandsKept ==
    \A x \in Threads :
       /\ pc'[x] = "check" => pc[x] = "check" /\ held'[x] = held[x]
       /\ pc'[x] \in {"unseen", "allowed", "stage"} =>
             pc[x] \in {"unseen", "allowed", "stage"} /\ held'[x] = held[x]

\* Whoever loads a file goes on.
LoadsKept ==
    \A x \in Threads : pc[x] = "unlink" => pc'[x] = "unlink" /\ sel'[x] = sel[x] /\ num'[x] = num[x]

FilesShrink == \A f \in DOMAIN disk' : f \in DOMAIN disk /\ disk'[f] = disk[f]

\* Vectors or queues may be cleared.
MemoryShrinks ==
    \A r \in Ranks : staging'[r] \in {staging[r], <<>>} /\ queue'[r] \in {queue[r], <<>>}

\* Nothing comes anywhere.
LEMMA NothingMoves ==
    ASSUME TypeOK, OnceInv, MemoryShrinks, FilesShrink, HandsKept,
           delivered' = delivered, dropped' = dropped, nextId' = nextId,
           LoadsKept \/ \A r \in Ranks : queue'[r] = <<>>
    PROVE  OnceInv'
<1>1. /\ \A e : Staged(e)' => Staged(e)
      /\ \A e : Waiting(e)' => Waiting(e)
      /\ \A e : Filed(e)' => Filed(e)
      /\ \A e : Coming(e)' => Coming(e)
      /\ \A e : Going(e)' => Going(e)
      /\ \A e : Gone(e)' => Gone(e)
  BY EmptyInjective DEF MemoryShrinks, FilesShrink, HandsKept, Staged, Waiting, Filed, Coming,
                        Going, Gone
<1>2. OneKind'
  BY <1>1 DEF OnceInv, OneKind
<1>3. IdsBelow'
  BY <1>1 DEF OnceInv, IdsBelow
<1>4. OnePosition'
  <2>1. \A r \in Ranks : IsInjective(staging'[r]) /\ IsInjective(queue'[r])
    BY EmptyInjective DEF MemoryShrinks, OnceInv, OnePosition
  <2>2. /\ \A f \in DOMAIN disk' : IsInjective(disk'[f].urls)
        /\ \A f, g \in DOMAIN disk' :
              Range(disk'[f].urls) \cap Range(disk'[g].urls) # {} => f = g
    BY DEF FilesShrink, OnceInv, OnePosition
  <2>3. /\ \A t, u \in Threads : pc'[t] = pc'[u] /\ pc'[t] = "check" /\ held'[t] = held'[u] => t = u
        /\ \A t, u \in Threads :
              /\ pc'[t] \in {"unseen", "allowed", "stage"} /\ pc'[u] \in {"unseen", "allowed", "stage"}
              /\ held'[t] = held'[u]
              => t = u
    BY DEF HandsKept, OnceInv, OnePosition
  <2>4. QED
    BY <2>1, <2>2, <2>3 DEF OnePosition
<1>5. InRank'
  BY EmptyInjective DEF MemoryShrinks, FilesShrink, OnceInv, InRank
<1>6. OnlyLoading'
  <2>1. CASE \A r \in Ranks : queue'[r] = <<>>
    BY <2>1, EmptyInjective DEF OnlyLoading
  <2>2. CASE LoadsKept
    <3> SUFFICES ASSUME NEW r \in Ranks, NEW f \in DOMAIN disk',
                        Range(queue'[r]) \cap Range(disk'[f].urls) # {}
                 PROVE  \E t \in Threads : pc'[t] = "unlink" /\ f = <<sel'[t], num'[t]>>
      BY DEF OnlyLoading
    <3>1. Range(queue[r]) \cap Range(disk[f].urls) # {} /\ f \in DOMAIN disk
      BY EmptyInjective DEF MemoryShrinks, FilesShrink
    <3>2. PICK t \in Threads : pc[t] = "unlink" /\ f = <<sel[t], num[t]>>
      BY <3>1 DEF OnceInv, OnlyLoading
    <3>3. QED
      BY <2>2, <3>2 DEF LoadsKept
  <2>3. QED
    BY <2>1, <2>2
<1>7. QED
  BY <1>2, <1>3, <1>4, <1>5, <1>6 DEF OnceInv

\* Threads other than t, and the steps of t that move nothing.
LEMMA OthersKept ==
    ASSUME NEW t \in Threads,
           \A x \in Threads \ {t} : pc'[x] = pc[x] /\ held'[x] = held[x] /\ sel'[x] = sel[x]
                                    /\ num'[x] = num[x],
           pc'[t] \notin {"check", "unseen", "allowed", "stage"}
           \/ (pc[t] \in {"unseen", "allowed"} /\ pc'[t] \in {"allowed", "stage"} /\ held'[t] = held[t])
    PROVE  HandsKept /\ (pc[t] # "unlink" => LoadsKept)
BY DEF HandsKept, LoadsKept

LEMMA BootOnce ==
    ASSUME TypeOK, MutexInv, OnceInv, Start \/ SeedsIngested \/ StartThreads \/ \E f \in unlisted : ScanFile(f)
    PROVE  OnceInv'
<1>1. UNCHANGED <<staging, queue, disk, pc, held, sel, num, delivered, dropped, nextId>>
  BY DEF Start, SeedsIngested, StartThreads, ScanFile, filters, stage, queues, locals, history
<1>2. MemoryShrinks /\ FilesShrink /\ HandsKept /\ LoadsKept
  BY <1>1 DEF MemoryShrinks, FilesShrink, HandsKept, LoadsKept
<1>3. QED
  BY <1>1, <1>2, NothingMoves

LEMMA EndOnce ==
    ASSUME TypeOK, OnceInv, Crash \/ \E t \in Threads : CrashInLoad(t)
    PROVE  OnceInv'
<1>1. /\ UNCHANGED <<disk, held, delivered, dropped, nextId>>
      /\ \A r \in Ranks : staging'[r] = <<>> /\ queue'[r] = <<>>
      /\ \A x \in Threads : pc'[x] = "idle"
  BY DEF Crash, CrashInLoad, ClearMemory
<1>2. MemoryShrinks /\ FilesShrink /\ HandsKept
  BY <1>1 DEF MemoryShrinks, FilesShrink, HandsKept
<1>3. QED
  BY <1>1, <1>2, NothingMoves

\* A new entry comes into the hands of a thread.
LEMMA ComesOnce ==
    ASSUME TypeOK, TypeOK', OnceInv, NEW t \in Threads, NEW u \in Urls, InsertCheckSeen(t, u)
    PROVE  OnceInv'
<1>1. PICK r \in RanksOf[Https[u]] :
        held' = [held EXCEPT ![t] = [url |-> Https[u], rank |-> r, id |-> nextId]]
  BY DEF InsertCheckSeen
<1>2. /\ UNCHANGED <<staging, queue, disk, sel, num, delivered, dropped>>
      /\ nextId' = nextId + 1 /\ nextId \in Nat /\ held'[t].id = nextId
      /\ pc[t] = "idle" /\ pc'[t] = "unseen"
      /\ \A x \in Threads \ {t} : pc'[x] = pc[x] /\ held'[x] = held[x]
      /\ held'[t] \in Entry
  BY <1>1 DEF InsertCheckSeen, At, stage, queues, TypeOK
<1>3. /\ \A e : Staged(e)' <=> Staged(e)
      /\ \A e : Waiting(e)' <=> Waiting(e)
      /\ \A e : Filed(e)' <=> Filed(e)
      /\ \A e : Gone(e)' <=> Gone(e)
  BY <1>2 DEF Staged, Waiting, Filed, Gone
<1>4. /\ \A e : Coming(e)' => Coming(e) \/ e = held'[t]
      /\ \A e : Going(e)' => Going(e)
  BY <1>2 DEF Coming, Going
<1>5. /\ ~Staged(held'[t]) /\ ~Waiting(held'[t]) /\ ~Filed(held'[t])
      /\ ~Coming(held'[t]) /\ ~Going(held'[t]) /\ ~Gone(held'[t])
  <2>1. \A e \in Entry : e.id < nextId => e # held'[t]
    BY <1>2
  <2>2. QED
    BY <1>2, <2>1 DEF OnceInv, IdsBelow
<1>6. OneKind'
  BY <1>3, <1>4, <1>5 DEF OnceInv, OneKind
<1>7. IdsBelow'
  <2> SUFFICES ASSUME NEW e \in Entry,
                      (Staged(e) \/ Waiting(e) \/ Filed(e) \/ Coming(e) \/ Going(e) \/ Gone(e))'
               PROVE  e.id < nextId'
    BY DEF IdsBelow
  <2>1. CASE e = held'[t]
    BY <1>2, <2>1
  <2>2. CASE e # held'[t]
    <3>1. e.id < nextId /\ e.id \in Nat
      BY <1>3, <1>4, <2>2 DEF OnceInv, IdsBelow, Entry
    <3>2. QED
      BY <1>2, <3>1
  <2>3. QED
    BY <2>1, <2>2
<1>8. OnePosition'
  <2>1. \A x \in Threads : pc[x] \in {"unseen", "allowed", "stage"} => held[x] # held'[t]
    BY <1>5 DEF Coming
  <2>2. ASSUME NEW x \in Threads, NEW y \in Threads,
               pc'[x] = "check", pc'[y] = "check", held'[x] = held'[y]
        PROVE  x = y
    <3>1. x # t /\ y # t
      BY <1>2, <2>2
    <3>2. QED
      BY <1>2, <2>2, <3>1 DEF OnceInv, OnePosition
  <2>3. ASSUME NEW x \in Threads, NEW y \in Threads, held'[x] = held'[y],
               pc'[x] \in {"unseen", "allowed", "stage"}, pc'[y] \in {"unseen", "allowed", "stage"}
        PROVE  x = y
    <3>1. CASE x # t /\ y # t
      BY <1>2, <2>3, <3>1 DEF OnceInv, OnePosition
    <3>2. CASE x = t \/ y = t
      BY <1>2, <2>1, <2>3, <3>2
    <3>3. QED
      BY <3>1, <3>2
  <2>4. QED
    BY <1>2, <2>2, <2>3 DEF OnceInv, OnePosition
<1>9. InRank' /\ OnlyLoading'
  <2>1. InRank'
    BY <1>2 DEF OnceInv, InRank
  <2>2. \A x \in Threads : pc[x] = "unlink" => pc'[x] = "unlink"
    BY <1>2
  <2>3. QED
    BY <1>2, <2>1, <2>2 DEF OnceInv, OnlyLoading
<1>10. QED
  BY <1>6, <1>7, <1>8, <1>9 DEF OnceInv

\* The vector with the new entry.
LEMMA BatchOnce ==
    ASSUME TypeOK, OnceInv, NEW t \in Threads, pc[t] = "stage"
    PROVE  /\ Batch(t) \in Seq(Entry) /\ IsInjective(Batch(t))
           /\ Range(Batch(t)) = Range(staging[held[t].rank]) \cup {held[t]}
           /\ held[t] \in Entry /\ held[t].rank \in Ranks /\ Coming(held[t])
           /\ \A e \in Range(Batch(t)) : /\ e \in Entry /\ e.rank = held[t].rank
                                         /\ Staged(e) \/ e = held[t]
<1>1. held[t] \in Entry /\ held[t].rank \in Ranks /\ staging[held[t].rank] \in Seq(Entry)
  BY BatchTyping DEF TypeOK
<1>2. Coming(held[t])
  BY DEF Coming
<1>3. held[t] \notin Range(staging[held[t].rank])
  BY <1>1, <1>2 DEF OnceInv, OneKind, Staged
<1>4. IsInjective(Batch(t))
  BY <1>1, <1>3, InjectiveAppend DEF Batch, OnceInv, OnePosition
<1>5. Range(Batch(t)) = Range(staging[held[t].rank]) \cup {held[t]}
  BY <1>1, RangeAppend DEF Batch
<1>6. \A e \in Range(Batch(t)) : e \in Entry /\ e.rank = held[t].rank /\ (Staged(e) \/ e = held[t])
  BY <1>1, <1>5, SeqTyping DEF OnceInv, InRank, Staged
<1>7. QED
  BY <1>1, <1>2, <1>4, <1>5, <1>6, BatchTyping

\* The entry goes from the thread's hands to the vector.
LEMMA StagedOnce ==
    ASSUME TypeOK, OnceInv, NEW t \in Threads, pc[t] = "stage",
           UNCHANGED <<queue, disk, held, sel, num, delivered, dropped, nextId>>,
           staging' = [staging EXCEPT ![held[t].rank] = Batch(t)],
           pc' = [pc EXCEPT ![t] = "idle"]
    PROVE  OnceInv'
<1>1. /\ held[t].rank \in Ranks
      /\ staging'[held[t].rank] = Batch(t)
      /\ \A r \in Ranks \ {held[t].rank} : staging'[r] = staging[r]
      /\ pc'[t] = "idle" /\ \A x \in Threads \ {t} : pc'[x] = pc[x]
  BY BatchOnce DEF TypeOK
<1>2. /\ \A e : Staged(e)' => Staged(e) \/ e = held[t]
      /\ \A e : Waiting(e)' <=> Waiting(e)
      /\ \A e : Filed(e)' <=> Filed(e)
      /\ \A e : Gone(e)' <=> Gone(e)
  BY <1>1, BatchOnce DEF Staged, Waiting, Filed, Gone
<1>3. /\ \A e : Coming(e)' => Coming(e) /\ e # held[t]
      /\ \A e : Going(e)' => Going(e)
  BY <1>1 DEF Coming, Going, OnceInv, OnePosition
<1>4. OneKind'
  BY <1>2, <1>3, BatchOnce DEF OnceInv, OneKind
<1>5. IdsBelow'
  BY <1>2, <1>3, BatchOnce DEF OnceInv, IdsBelow
<1>6. OnePosition'
  <2>1. \A r \in Ranks : IsInjective(staging'[r])
    BY <1>1, BatchOnce DEF OnceInv, OnePosition
  <2>2. QED
    BY <1>1, <2>1 DEF OnceInv, OnePosition
<1>7. InRank' /\ OnlyLoading'
  <2>1. InRank'
    BY <1>1, BatchOnce DEF OnceInv, InRank
  <2>2. \A x \in Threads : pc[x] = "unlink" => pc'[x] = "unlink"
    BY <1>1
  <2>3. QED
    BY <2>1, <2>2 DEF OnceInv, OnlyLoading
<1>8. QED
  BY <1>4, <1>5, <1>6, <1>7 DEF OnceInv

\* The vector goes into a file, whole or in part, and is cleared, alone or with all
\* that is in memory.
LEMMA FiledOnce ==
    ASSUME TypeOK, OnceInv, NEW t \in Threads, pc[t] = "stage",
           NEW c \in File, disk' = WithFile(BatchFile(t), c),
           IsInjective(c.urls), Range(c.urls) \subseteq Range(Batch(t)),
           UNCHANGED <<held, delivered, dropped, nextId>>,
           MemoryShrinks, staging'[held[t].rank] = <<>>,
           HandsKept, pc'[t] = "idle",
           LoadsKept \/ \A r \in Ranks : queue'[r] = <<>>
    PROVE  OnceInv'
<1>1. /\ held[t].rank \in Ranks
      /\ DOMAIN disk' = DOMAIN disk \cup {BatchFile(t)}
      /\ disk'[BatchFile(t)] = c
      /\ \A f \in DOMAIN disk' \ {BatchFile(t)} : f \in DOMAIN disk /\ disk'[f] = disk[f]
      /\ \A e \in Range(c.urls) : e \in Entry /\ e.rank = held[t].rank /\ (Staged(e) \/ e = held[t])
  BY BatchOnce DEF WithFile
<1>2. /\ \A e \in Range(c.urls) : ~Waiting(e) /\ ~Filed(e) /\ ~Going(e) /\ ~Gone(e)
      /\ \A e \in Range(c.urls) : Coming(e) => e = held[t]
  BY <1>1, BatchOnce DEF OnceInv, OneKind
<1>3. /\ \A e : Staged(e)' => Staged(e) /\ e.rank # held[t].rank
      /\ \A e : Waiting(e)' => Waiting(e)
      /\ \A e : Gone(e)' <=> Gone(e)
  BY <1>1, EmptyInjective DEF MemoryShrinks, OnceInv, InRank, Staged, Waiting, Gone
<1>4. \A e : Filed(e)' => Filed(e) \/ e \in Range(c.urls)
  BY <1>1 DEF Filed
<1>5. /\ \A e : Coming(e)' => Coming(e) /\ e # held[t]
      /\ \A e : Going(e)' => Going(e)
  BY DEF HandsKept, Coming, Going, OnceInv, OnePosition
<1>6. OneKind'
  BY <1>1, <1>2, <1>3, <1>4, <1>5 DEF OnceInv, OneKind
<1>7. IdsBelow'
  BY <1>1, <1>3, <1>4, <1>5, BatchOnce DEF OnceInv, IdsBelow
<1>8. OnePosition'
  <2>1. \A r \in Ranks : IsInjective(staging'[r]) /\ IsInjective(queue'[r])
    BY EmptyInjective DEF MemoryShrinks, OnceInv, OnePosition
  <2>2. \A f \in DOMAIN disk' : IsInjective(disk'[f].urls)
    BY <1>1 DEF OnceInv, OnePosition
  <2>3. ASSUME NEW f \in DOMAIN disk', NEW g \in DOMAIN disk',
               Range(disk'[f].urls) \cap Range(disk'[g].urls) # {}
        PROVE  f = g
    <3>1. CASE f # BatchFile(t) /\ g # BatchFile(t)
      BY <1>1, <2>3, <3>1 DEF OnceInv, OnePosition
    <3>2. \A h \in DOMAIN disk' : h # BatchFile(t) => Range(disk'[h].urls) \cap Range(c.urls) = {}
      BY <1>1, <1>2 DEF Filed
    <3>3. QED
      BY <1>1, <2>3, <3>1, <3>2
  <2>4. /\ \A x, y \in Threads : pc'[x] = pc'[y] /\ pc'[x] = "check" /\ held'[x] = held'[y] => x = y
        /\ \A x, y \in Threads :
              /\ pc'[x] \in {"unseen", "allowed", "stage"} /\ pc'[y] \in {"unseen", "allowed", "stage"}
              /\ held'[x] = held'[y]
              => x = y
    BY DEF HandsKept, OnceInv, OnePosition
  <2>5. QED
    BY <2>1, <2>2, <2>3, <2>4 DEF OnePosition
<1>9. InRank'
  <2>1. BatchFile(t)[1] = held[t].rank
    BY DEF BatchFile
  <2>2. \A r \in Ranks, f \in DOMAIN disk' : f[1] = r => \A e \in Range(disk'[f].urls) : e.rank = r
    BY <1>1, <2>1 DEF OnceInv, InRank
  <2>3. QED
    BY <2>2, EmptyInjective DEF MemoryShrinks, OnceInv, InRank
<1>10. OnlyLoading'
  <2>1. CASE \A r \in Ranks : queue'[r] = <<>>
    BY <2>1, EmptyInjective DEF OnlyLoading
  <2>2. CASE LoadsKept
    <3> SUFFICES ASSUME NEW r \in Ranks, NEW f \in DOMAIN disk',
                        Range(queue'[r]) \cap Range(disk'[f].urls) # {}
                 PROVE  \E x \in Threads : pc'[x] = "unlink" /\ f = <<sel'[x], num'[x]>>
      BY DEF OnlyLoading
    <3>1. Range(queue'[r]) \subseteq Range(queue[r])
      BY EmptyInjective DEF MemoryShrinks
    <3>2. f # BatchFile(t)
      BY <1>1, <1>2, <3>1 DEF Waiting
    <3>3. PICK x \in Threads : pc[x] = "unlink" /\ f = <<sel[x], num[x]>>
      BY <1>1, <3>1, <3>2 DEF OnceInv, OnlyLoading
    <3>4. QED
      BY <2>2, <3>3 DEF LoadsKept
  <2>3. QED
    BY <2>1, <2>2
<1>11. QED
  BY <1>6, <1>7, <1>8, <1>9, <1>10 DEF OnceInv

LEMMA InsertOnce ==
    ASSUME TypeOK, TypeOK', OnceInv, "write" \notin Faults, NEW t \in Threads, Insert(t)
    PROVE  OnceInv'
<1> USE DEF boot, filters, stage, queues, locals, history, At, Idle
<1>1. ASSUME NEW u \in Urls, InsertCheckSeen(t, u) PROVE OnceInv'
  BY <1>1, ComesOnce
<1>2. CASE InsertCheckBlacklist(t) \/ InsertMarkSeen(t)
  <2>1. /\ UNCHANGED <<staging, queue, disk, held, sel, num, delivered, dropped, nextId>>
        /\ pc[t] \in {"unseen", "allowed"} /\ pc'[t] \in {"idle", "allowed", "stage"}
        /\ \A x \in Threads \ {t} : pc'[x] = pc[x]
    BY <1>2 DEF InsertCheckBlacklist, InsertMarkSeen, TypeOK
  <2>2. MemoryShrinks /\ FilesShrink /\ HandsKept /\ LoadsKept
    BY <2>1, OthersKept DEF MemoryShrinks, FilesShrink
  <2>3. QED
    BY <2>1, <2>2, NothingMoves
<1>3. CASE InsertKeep(t)
  BY <1>3, StagedOnce DEF InsertKeep
<1>4. CASE InsertFlush(t)
  <2>1. /\ UNCHANGED <<queue, held, sel, num, delivered, dropped, nextId>>
        /\ pc[t] = "stage" /\ pc'[t] = "idle"
        /\ \A x \in Threads \ {t} : pc'[x] = pc[x]
        /\ disk' = WithFile(BatchFile(t), [urls |-> Batch(t), whole |-> TRUE])
        /\ staging' = [staging EXCEPT ![held[t].rank] = <<>>]
    BY <1>4 DEF InsertFlush, TypeOK
  <2>2. HandsKept /\ LoadsKept
    BY <2>1, OthersKept
  <2>3. MemoryShrinks /\ staging'[held[t].rank] = <<>>
    BY <2>1, BatchTyping DEF MemoryShrinks, TypeOK
  <2>4. QED
    BY <2>1, <2>2, <2>3, BatchTyping, BatchOnce, FiledOnce
<1>5. CASE InsertFlushFails(t)
  <2>1. disk' = disk
    BY <1>5 DEF InsertFlushFails, Fails
  <2>2. QED
    BY <1>5, <2>1, StagedOnce DEF InsertFlushFails
<1>6. QED
  BY <1>1, <1>2, <1>3, <1>4, <1>5 DEF Insert

LEMMA CutOnce ==
    ASSUME TypeOK, OnceInv, NEW t \in Threads, CrashInWrite(t)
    PROVE  OnceInv'
<1>1. PICK k \in 0 .. Len(Batch(t)) - 1 : disk' = WithFile(BatchFile(t), TornBatch(t, k))
  BY DEF CrashInWrite
<1>2. /\ UNCHANGED <<held, delivered, dropped, nextId>>
      /\ \A r \in Ranks : staging'[r] = <<>> /\ queue'[r] = <<>>
      /\ \A x \in Threads : pc'[x] = "idle"
      /\ pc[t] = "stage"
  BY DEF CrashInWrite, ClearMemory, At
<1>3. MemoryShrinks /\ HandsKept
  BY <1>2 DEF MemoryShrinks, HandsKept
<1>4. TornBatch(t, k) \in File /\ TornBatch(t, k).urls = SubSeq(Batch(t), 1, k)
  BY BatchTyping DEF TornBatch
<1>5. IsInjective(SubSeq(Batch(t), 1, k)) /\ Range(SubSeq(Batch(t), 1, k)) \subseteq Range(Batch(t))
  <2>1. Batch(t) \in Seq(Entry) /\ IsInjective(Batch(t))
    BY <1>2, BatchOnce
  <2>2. k \in 0 .. Len(Batch(t))
    BY <2>1, LenProperties
  <2>3. QED
    BY <2>1, <2>2, InjectivePrefix
<1>6. staging'[held[t].rank] = <<>>
  BY <1>2, BatchTyping
<1>7. QED
  BY <1>1, <1>2, <1>3, <1>4, <1>5, <1>6, FiledOnce

\* The head of a queue comes into a thread's hands; the file it was loaded from, if
\* there is one, goes.
LEMMA PoppedOnce ==
    ASSUME TypeOK, MutexInv, OnceInv, NEW t \in Threads, queue[sel[t]] # <<>>,
           UNCHANGED <<staging, sel, num, delivered, dropped, nextId>>,
           FilesShrink,
           held' = [held EXCEPT ![t] = Head(queue[sel[t]])],
           queue' = [queue EXCEPT ![sel[t]] = Tail(queue[sel[t]])],
           pc' = [pc EXCEPT ![t] = "check"],
           pc[t] \in {"take", "unlink"},
           \A x \in Threads \ {t} : pc[x] = "unlink" => sel[x] # sel[t],
           pc[t] = "unlink" => <<sel[t], num[t]>> \notin DOMAIN disk'
    PROVE  OnceInv'
<1> DEFINE r == sel[t]
           h == Head(queue[r])
<1>1. /\ r \in Ranks /\ queue[r] \in Seq(Entry)
      /\ \A q \in Ranks \ {r} : queue'[q] = queue[q]
      /\ queue'[r] = Tail(queue[r])
      /\ held'[t] = h /\ pc'[t] = "check"
      /\ \A x \in Threads \ {t} : pc'[x] = pc[x] /\ held'[x] = held[x]
  BY DEF TypeOK
<1>2. /\ IsInjective(Tail(queue[r])) /\ h \notin Range(Tail(queue[r]))
      /\ h \in Range(queue[r]) /\ Range(Tail(queue[r])) \subseteq Range(queue[r])
  BY <1>1, InjectiveTail DEF OnceInv, OnePosition
<1>3. h \in Entry /\ h.rank = r /\ Waiting(h)
  BY <1>1, <1>2, OnceTyping DEF OnceInv, InRank, Waiting
<1> HIDE DEF r, h
<1>4. \A q \in Ranks, f \in DOMAIN disk' :
         Range(queue'[q]) \cap Range(disk'[f].urls) # {} =>
            \E x \in Threads \ {t} : pc[x] = "unlink" /\ f = <<sel[x], num[x]>>
  <2> SUFFICES ASSUME NEW q \in Ranks, NEW f \in DOMAIN disk',
                      Range(queue'[q]) \cap Range(disk'[f].urls) # {}
               PROVE  \E x \in Threads \ {t} : pc[x] = "unlink" /\ f = <<sel[x], num[x]>>
    OBVIOUS
  <2>1. f \in DOMAIN disk /\ Range(queue[q]) \cap Range(disk[f].urls) # {}
    BY <1>1, <1>2 DEF FilesShrink
  <2>2. PICK x \in Threads : pc[x] = "unlink" /\ f = <<sel[x], num[x]>>
    BY <2>1 DEF OnceInv, OnlyLoading
  <2>3. x # t
    BY <2>2
  <2>4. QED
    BY <2>2, <2>3
<1>5. \A f \in DOMAIN disk' : h \notin Range(disk'[f].urls)
  <2> SUFFICES ASSUME NEW f \in DOMAIN disk', h \in Range(disk'[f].urls) PROVE FALSE
    OBVIOUS
  <2>1. f \in DOMAIN disk /\ disk'[f] = disk[f]
    BY DEF FilesShrink
  <2>2. PICK x \in Threads : pc[x] = "unlink" /\ f = <<sel[x], num[x]>>
    BY <1>1, <1>2, <2>1 DEF OnceInv, OnlyLoading
  <2>3. f[1] = r
    BY <1>3, <2>1, OnceTyping DEF OnceInv, InRank, FileName
  <2>4. sel[x] = r
    BY <2>2, <2>3
  <2>5. x = t
    BY <2>2, <2>4 DEF r
  <2>6. QED
    BY <2>2, <2>5
<1>6. /\ \A e : Staged(e)' <=> Staged(e)
      /\ \A e : Gone(e)' <=> Gone(e)
      /\ \A e : Coming(e)' => Coming(e)
      /\ \A e : Going(e)' => Going(e) \/ e = h
  BY <1>1 DEF Staged, Gone, Coming, Going
<1>7. \A e : Waiting(e)' => Waiting(e) /\ e # h
  <2>1. \A q \in Ranks : Range(queue'[q]) \subseteq Range(queue[q]) /\ h \notin Range(queue'[q])
    <3>1. \A q \in Ranks \ {r} : h \notin Range(queue[q])
      BY <1>3 DEF OnceInv, InRank
    <3>2. QED
      BY <1>1, <1>2, <3>1
  <2>2. QED
    BY <2>1 DEF Waiting
<1>8. \A e : Filed(e)' => Filed(e) /\ e # h
  BY <1>5 DEF Filed, FilesShrink
<1>9. OneKind'
  BY <1>3, <1>6, <1>7, <1>8 DEF OnceInv, OneKind
<1>10. IdsBelow'
  BY <1>3, <1>6, <1>7, <1>8 DEF OnceInv, IdsBelow
<1>11. OnePosition'
  <2>1. \A q \in Ranks : IsInjective(queue'[q])
    BY <1>1, <1>2 DEF OnceInv, OnePosition
  <2>2. /\ \A f \in DOMAIN disk' : IsInjective(disk'[f].urls)
        /\ \A f, g \in DOMAIN disk' :
              Range(disk'[f].urls) \cap Range(disk'[g].urls) # {} => f = g
    <3>1. /\ \A f \in DOMAIN disk : IsInjective(disk[f].urls)
          /\ \A f, g \in DOMAIN disk : Range(disk[f].urls) \cap Range(disk[g].urls) # {} => f = g
      BY DEF OnceInv, OnePosition
    <3>2. \A f \in DOMAIN disk' : f \in DOMAIN disk /\ disk'[f] = disk[f]
      BY DEF FilesShrink
    <3>3. ASSUME NEW f \in DOMAIN disk', NEW g \in DOMAIN disk',
                 Range(disk'[f].urls) \cap Range(disk'[g].urls) # {}
          PROVE  f = g
      BY <3>1, <3>2, <3>3
    <3>4. QED
      BY <3>1, <3>2, <3>3
  <2>3. \A x \in Threads : pc[x] = "check" => held[x] # h
    BY <1>3 DEF OnceInv, OneKind, Going
  <2>4. \A x, y \in Threads : pc'[x] = pc'[y] /\ pc'[x] = "check" /\ held'[x] = held'[y] => x = y
    BY <1>1, <2>3 DEF OnceInv, OnePosition
  <2>5. \A x, y \in Threads :
           /\ pc'[x] \in {"unseen", "allowed", "stage"} /\ pc'[y] \in {"unseen", "allowed", "stage"}
           /\ held'[x] = held'[y]
           => x = y
    BY <1>1 DEF OnceInv, OnePosition
  <2>6. QED
    BY <2>1, <2>2, <2>4, <2>5 DEF OnceInv, OnePosition
<1>12. InRank'
  BY <1>1, <1>2 DEF OnceInv, InRank, FilesShrink
<1>13. OnlyLoading'
  <2> SUFFICES ASSUME NEW q \in Ranks, NEW f \in DOMAIN disk',
                      Range(queue'[q]) \cap Range(disk'[f].urls) # {}
               PROVE  \E x \in Threads : pc'[x] = "unlink" /\ f = <<sel'[x], num'[x]>>
    BY DEF OnlyLoading
  <2>1. PICK x \in Threads \ {t} : pc[x] = "unlink" /\ f = <<sel[x], num[x]>>
    BY <1>4
  <2>2. QED
    BY <1>1, <2>1
<1>14. QED
  BY <1>9, <1>10, <1>11, <1>12, <1>13 DEF OnceInv

LEMMA LoadedOnce ==
    ASSUME TypeOK, MutexInv, OnceInv, NEW t \in Threads, GetLoad(t)
    PROVE  OnceInv'
<1> DEFINE f == <<sel[t], num[t]>>
<1>1. /\ UNCHANGED <<staging, disk, held, sel, num, delivered, dropped, nextId>>
      /\ f \in DOMAIN disk /\ sel[t] \in Ranks
      /\ queue'[sel[t]] = disk[f].urls
      /\ \A q \in Ranks \ {sel[t]} : queue'[q] = queue[q]
      /\ pc[t] = "load" /\ pc'[t] = "unlink"
      /\ \A x \in Threads \ {t} : pc'[x] = pc[x]
  BY DEF GetLoad, At, UrlsOf, stage, history, TypeOK
<1>2. /\ \A e : Staged(e)' <=> Staged(e)
      /\ \A e : Waiting(e)' => Waiting(e) \/ Filed(e)
      /\ \A e : Filed(e)' <=> Filed(e)
      /\ \A e : Gone(e)' <=> Gone(e)
      /\ \A e : Coming(e)' => Coming(e)
      /\ \A e : Going(e)' => Going(e)
  BY <1>1 DEF Staged, Waiting, Filed, Gone, Coming, Going
<1>3. OneKind' /\ IdsBelow'
  <2>1. OneKind'
    BY <1>2 DEF OnceInv, OneKind
  <2>2. IdsBelow'
    BY <1>1, <1>2 DEF OnceInv, IdsBelow
  <2>3. QED
    BY <2>1, <2>2
<1>4. OnePosition'
  BY <1>1 DEF OnceInv, OnePosition
<1>5. InRank'
  BY <1>1 DEF OnceInv, InRank
<1>6. OnlyLoading'
  <2> SUFFICES ASSUME NEW r \in Ranks, NEW g \in DOMAIN disk,
                      Range(queue'[r]) \cap Range(disk[g].urls) # {}
               PROVE  \E x \in Threads : pc'[x] = "unlink" /\ g = <<sel[x], num[x]>>
    BY <1>1 DEF OnlyLoading
  <2>1. CASE r = sel[t]
    <3>1. g = f
      BY <1>1, <2>1 DEF OnceInv, OnePosition
    <3>2. QED
      BY <1>1, <3>1
  <2>2. CASE r # sel[t]
    <3>1. PICK x \in Threads : pc[x] = "unlink" /\ g = <<sel[x], num[x]>>
      BY <1>1, <2>2 DEF OnceInv, OnlyLoading
    <3>2. QED
      BY <1>1, <3>1
  <2>3. QED
    BY <2>1, <2>2
<1>7. QED
  BY <1>3, <1>4, <1>5, <1>6 DEF OnceInv

\* The entry in hand comes out, or is dropped.
LEMMA OutOnce ==
    ASSUME TypeOK, OnceInv, NEW t \in Threads, GetCheckBlacklist(t)
    PROVE  OnceInv'
<1>1. /\ UNCHANGED <<staging, queue, disk, held, sel, num, nextId>>
      /\ delivered' \cup dropped' = delivered \cup dropped \cup {held[t]}
      /\ pc[t] = "check" /\ pc'[t] \in {"again", "idle"}
      /\ \A x \in Threads \ {t} : pc'[x] = pc[x]
      /\ held[t] \in Entry
  BY DEF GetCheckBlacklist, At, Idle, stage, queues, TypeOK
<1>2. /\ \A e : Staged(e)' <=> Staged(e)
      /\ \A e : Waiting(e)' <=> Waiting(e)
      /\ \A e : Filed(e)' <=> Filed(e)
      /\ \A e : Gone(e)' => Gone(e) \/ e = held[t]
      /\ \A e : Coming(e)' => Coming(e)
      /\ \A e : Going(e)' => Going(e) /\ e # held[t]
  BY <1>1 DEF Staged, Waiting, Filed, Gone, Coming, Going, OnceInv, OnePosition
<1>3. Going(held[t])
  BY <1>1 DEF Going
<1>4. OneKind' /\ IdsBelow'
  BY <1>1, <1>2, <1>3 DEF OnceInv, OneKind, IdsBelow
<1>5. OnePosition'
  BY <1>1 DEF OnceInv, OnePosition
<1>6. InRank'
  BY <1>1 DEF OnceInv, InRank
<1>7. OnlyLoading'
  <2>1. \A x \in Threads : pc[x] = "unlink" => pc'[x] = "unlink"
    BY <1>1
  <2>2. QED
    BY <1>1, <2>1 DEF OnceInv, OnlyLoading
<1>8. QED
  BY <1>4, <1>5, <1>6, <1>7 DEF OnceInv

LEMMA GetOnce ==
    ASSUME TypeOK, MutexInv, OnceInv, "remove" \notin Faults, NEW t \in Threads, Get(t)
    PROVE  OnceInv'
<1> USE DEF boot, filters, stage, queues, locals, history, At, Idle
<1>1. CASE (\E k \in Samples : GetPickQueue(t, k)) \/ GetGiveUp(t) \/ GetTakeFile(t) \/ GetLoadFails(t)
  <2>1. /\ UNCHANGED <<staging, queue, disk, held, delivered, dropped, nextId>>
        /\ pc[t] # "unlink" /\ pc'[t] \in {"take", "again", "load"}
        /\ \A x \in Threads \ {t} : pc'[x] = pc[x] /\ sel'[x] = sel[x] /\ num'[x] = num[x]
    BY <1>1 DEF GetPickQueue, GetGiveUp, GetTakeFile, GetLoadFails, TypeOK
  <2>2. MemoryShrinks /\ FilesShrink /\ HandsKept /\ LoadsKept
    BY <2>1, OthersKept DEF MemoryShrinks, FilesShrink
  <2>3. QED
    BY <2>1, <2>2, NothingMoves
<1>2. CASE GetPop(t)
  <2>1. \A x \in Threads : pc[x] = "unlink" => sel[x] # sel[t]
    BY <1>2, FrontierAssumption DEF GetPop, MutexInv
  <2>2. FilesShrink
    BY <1>2 DEF GetPop, FilesShrink
  <2>3. QED
    BY <1>2, <2>1, <2>2, PoppedOnce DEF GetPop
<1>3. CASE GetLoad(t)
  BY <1>3, LoadedOnce
<1>4. CASE GetUnlink(t)
  <2>1. pc[t] = "unlink" /\ queue[sel[t]] # <<>>
    BY <1>4 DEF GetUnlink, MutexInv
  <2>2. \A x \in Threads \ {t} : pc[x] = "unlink" => sel[x] # sel[t]
    BY <2>1 DEF MutexInv
  <2>3. disk' = WithoutFile(<<sel[t], num[t]>>)
    BY <1>4 DEF GetUnlink, Fails
  <2>4. FilesShrink /\ <<sel[t], num[t]>> \notin DOMAIN disk'
    BY <2>3 DEF FilesShrink, WithoutFile, Restrict
  <2>5. QED
    BY <1>4, <2>1, <2>2, <2>4, PoppedOnce DEF GetUnlink
<1>5. CASE GetCheckBlacklist(t)
  BY <1>5, OutOnce
<1>6. QED
  BY <1>1, <1>2, <1>3, <1>4, <1>5 DEF Get

\* A line of the seed list goes into a queue.
LEMMA SeedOnce ==
    ASSUME TypeOK, TypeOK', MutexInv, OnceInv, IngestSeed
    PROVE  OnceInv'
<1> PICK r \in RanksOf[Head(seedsLeft)] :
      queue' = [queue EXCEPT ![r] = Append(queue[r], [url |-> Head(seedsLeft), rank |-> r, id |-> nextId])]
  BY DEF IngestSeed
<1> DEFINE e == [url |-> Head(seedsLeft), rank |-> r, id |-> nextId]
<1>1. /\ UNCHANGED <<staging, disk, pc, held, sel, num, delivered, dropped>>
      /\ nextId' = nextId + 1 /\ nextId \in Nat
      /\ phase = "seed" /\ seedsLeft # <<>>
  BY DEF IngestSeed, stage, locals, TypeOK
<1>2. e \in Entry /\ r \in Ranks /\ e.id = nextId /\ e.rank = r
  <2>1. Head(seedsLeft) \in Urls
    BY <1>1, SeqTyping DEF TypeOK
  <2>2. r \in Ranks
    BY <2>1, FrontierAssumption DEF Ranks
  <2>3. QED
    BY <1>1, <2>1, <2>2 DEF Entry
<1>3. /\ queue[r] \in Seq(Entry) /\ queue'[r] = Append(queue[r], e)
      /\ \A q \in Ranks \ {r} : queue'[q] = queue[q]
  BY <1>2 DEF TypeOK
<1> HIDE DEF e
<1>4. ~Staged(e) /\ ~Waiting(e) /\ ~Filed(e) /\ ~Coming(e) /\ ~Going(e) /\ ~Gone(e)
  BY <1>1, <1>2 DEF OnceInv, IdsBelow
<1>5. Range(queue'[r]) = Range(queue[r]) \cup {e}
  BY <1>2, <1>3, RangeAppend
<1>6. /\ \A x : Staged(x)' <=> Staged(x)
      /\ \A x : Waiting(x)' => Waiting(x) \/ x = e
      /\ \A x : Filed(x)' <=> Filed(x)
      /\ \A x : Gone(x)' <=> Gone(x)
      /\ \A x : Coming(x)' <=> Coming(x)
      /\ \A x : Going(x)' <=> Going(x)
  BY <1>1, <1>3, <1>5 DEF Staged, Waiting, Filed, Gone, Coming, Going
<1>7. OneKind'
  BY <1>4, <1>6 DEF OnceInv, OneKind
<1>8. IdsBelow'
  <2> SUFFICES ASSUME NEW x \in Entry,
                      (Staged(x) \/ Waiting(x) \/ Filed(x) \/ Coming(x) \/ Going(x) \/ Gone(x))'
               PROVE  x.id < nextId'
    BY DEF IdsBelow
  <2>1. x = e \/ (x.id < nextId /\ x.id \in Nat)
    BY <1>6 DEF OnceInv, IdsBelow, Entry
  <2>2. QED
    BY <1>1, <1>2, <2>1
<1>9. OnePosition'
  <2>1. e \notin Range(queue[r])
    BY <1>2, <1>4 DEF Waiting
  <2>2. IsInjective(queue'[r])
    BY <1>2, <1>3, <2>1, InjectiveAppend DEF OnceInv, OnePosition
  <2>3. QED
    BY <1>1, <1>3, <2>2 DEF OnceInv, OnePosition
<1>10. InRank'
  BY <1>1, <1>2, <1>3, <1>5 DEF OnceInv, InRank
<1>11. OnlyLoading'
  <2>1. \A q \in Ranks, f \in DOMAIN disk :
           Range(queue'[q]) \cap Range(disk[f].urls) # {} =>
              Range(queue[q]) \cap Range(disk[f].urls) # {}
    BY <1>3, <1>4, <1>5 DEF Filed
  <2>2. QED
    BY <1>1, <2>1 DEF OnceInv, OnlyLoading
<1>12. QED
  BY <1>7, <1>8, <1>9, <1>10, <1>11 DEF OnceInv

\* If no write stops short and no file fails to be removed, what get_url returns was
\* never returned before, is in no other thread's hands and is stored nowhere, for any
\* threads and ranks, in whatever order they run, and through any number of ends of
\* the process, in the middle of a write or between loading and removing a file.
THEOREM NothingTwice == Faults \cap {"write", "remove"} = {} => (Spec => []HandedOutOnce)
<1> SUFFICES ASSUME Faults \cap {"write", "remove"} = {} PROVE Spec => []HandedOutOnce
  OBVIOUS
<1>1. Init => OnceInv
  <2> SUFFICES ASSUME Init PROVE OnceInv
    OBVIOUS
  <2>1. \A e : ~Staged(e) /\ ~Waiting(e) /\ ~Filed(e) /\ ~Coming(e) /\ ~Going(e) /\ ~Gone(e)
    BY EmptyInjective DEF Init, Staged, Waiting, Filed, Coming, Going, Gone
  <2>2. OneKind /\ IdsBelow
    BY <2>1 DEF OneKind, IdsBelow
  <2>3. OnePosition /\ InRank /\ OnlyLoading
    BY EmptyInjective DEF Init, OnePosition, InRank, OnlyLoading
  <2>4. QED
    BY <2>2, <2>3 DEF OnceInv
<1>2. TypeOK /\ TypeOK' /\ MutexInv /\ OnceInv /\ [Next]_vars => OnceInv'
  <2> SUFFICES ASSUME TypeOK, TypeOK', MutexInv, OnceInv, [Next]_vars PROVE OnceInv'
    OBVIOUS
  <2>1. CASE Boot
    BY <2>1, BootOnce, SeedOnce DEF Boot
  <2>2. CASE Crash
    BY <2>2, EndOnce
  <2>3. ASSUME NEW t \in Threads, Insert(t) \/ Get(t) \/ CrashInWrite(t) \/ CrashInLoad(t)
        PROVE  OnceInv'
    BY <2>3, InsertOnce, GetOnce, CutOnce, EndOnce
  <2>4. CASE \/ \E t \in Threads, u \in Urls : BlacklistUrl(t, u)
             \/ UNCHANGED vars
    <3>1. UNCHANGED <<staging, queue, disk, pc, held, sel, num, delivered, dropped, nextId>>
      BY <2>4 DEF BlacklistUrl, vars, boot, filters, stage, queues, locals, history
    <3>2. MemoryShrinks /\ FilesShrink /\ HandsKept /\ LoadsKept
      BY <3>1 DEF MemoryShrinks, FilesShrink, HandsKept, LoadsKept
    <3>3. QED
      BY <3>1, <3>2, NothingMoves
  <2>5. QED
    BY <2>1, <2>2, <2>3, <2>4 DEF Next
<1>3. TypeOK /\ OnceInv => HandedOutOnce
  <2> SUFFICES ASSUME TypeOK, OnceInv PROVE HandedOutOnce
    OBVIOUS
  <2>1. ASSUME NEW t \in Threads, pc[t] = "check"
        PROVE  /\ held[t] \notin delivered
               /\ \A other \in Threads \ {t} : pc[other] = "check" => held[other] # held[t]
    <3>1. held[t] \in Entry /\ Going(held[t])
      BY <2>1 DEF Going, TypeOK
    <3>2. held[t] \notin delivered
      BY <3>1 DEF OnceInv, OneKind, Gone
    <3>3. QED
      BY <2>1, <3>2 DEF OnceInv, OnePosition
  <2>2. ASSUME NEW e \in delivered PROVE e \notin InMemory /\ e \notin WholeFileEntries
    <3>1. e \in Entry /\ Gone(e)
      BY <2>2, OnceTyping DEF Gone
    <3>2. ~Staged(e) /\ ~Waiting(e) /\ ~Filed(e)
      BY <3>1 DEF OnceInv, OneKind
    <3>3. QED
      BY <3>2 DEF Staged, Waiting, Filed, InMemory, WholeFileEntries
  <2>3. QED
    BY <2>1, <2>2 DEF HandedOutOnce
<1>4. QED
  BY <1>1, <1>2, <1>3, TypeAndMutex, PTL DEF Spec
=============================================================================
