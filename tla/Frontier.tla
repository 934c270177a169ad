------------------------------ MODULE Frontier ------------------------------
(***************************************************************************)
(* The crawler's URL frontier (src/crawler/frontier.cpp).                  *)
(*                                                                         *)
(* Worker threads call insert_url, get_url and blacklist_url.  A URL that  *)
(* is accepted goes to the staging vector of its rank; a vector that grows *)
(* past its limit is written to a numbered file, and the name of the file  *)
(* joins the rank's file queue; get_url picks a rank at random and, when   *)
(* the rank's in-memory queue is empty, loads the oldest file and unlinks  *)
(* it.  Only the files survive the process.                                *)
(*                                                                         *)
(* A step of a thread is what the code does between releasing one mutex    *)
(* and acquiring the next, except that get_url's work on a file, which     *)
(* the code does under the mutex of the rank's queue, is cut at the system *)
(* calls, because the writer of that file does not take that mutex.        *)
(***************************************************************************)
EXTENDS Naturals, Sequences, FiniteSets, Functions

CONSTANTS
    Threads,      \* threads that call the frontier
    NoThread,     \* holder of a free mutex
    Urls,         \* URL strings, as found in links and in the seed list
    Strings,      \* every string the blacklist is asked about or told of
    NumQueues,    \* NUM_FRONTIER_QUEUES
    UrlsPerFile,  \* NUM_URLS_PER_FILE
    Https,        \* Https[u]: upgrade_to_https(u)
    RanksOf,      \* RanksOf[u]: the buckets the static ranker may put u in
    Lookups,      \* Lookups[u]: the root paths of u that is_in_blacklist tries
    Stem,         \* Stem[u]: u cut at its first special character
    Bits,         \* Bits[s]: the Bloom filter positions of string s
    Seeds,        \* the lines of the seed list that this machine owns
    Faults,       \* the system calls that may fail
    MaxEntries,   \* bound: URLs that may enter the frontier
    MaxCrashes,   \* bound: times the process may die
    MaxFaults     \* bound: system calls that fail

FaultKinds == {"open", "write", "read", "remove"}

ASSUME FrontierAssumption ==
    /\ NumQueues \in Nat \ {0}
    /\ UrlsPerFile \in Nat
    /\ NoThread \notin Threads
    /\ Urls # {}
    /\ Urls \subseteq Strings
    /\ Https \in [Urls -> Urls]
    /\ RanksOf \in [Urls -> SUBSET (0 .. NumQueues - 1)]
    /\ Lookups \in [Urls -> SUBSET Strings]
    /\ \A u \in Urls : u \in Lookups[u]
    /\ Stem \in [Urls -> Strings]
    /\ Bits \in [Strings -> SUBSET Nat]
    /\ Seeds \in Seq(Urls)
    /\ Faults \subseteq FaultKinds
    /\ MaxEntries \in Nat
    /\ MaxCrashes \in Nat
    /\ MaxFaults \in Nat

Ranks == 0 .. NumQueues - 1

\* A URL on its way through the frontier.  The id is not in the code: it tells
\* two insertions of one URL apart.
Entry == [url : Urls, rank : Ranks, id : Nat]

\* A frontier file: its URLs, and whether all that its header promises is there.
File == [urls : Seq(Entry), whole : BOOLEAN]

\* frontier_file_rank_<r>_num_<n>
FileName == Ranks \X Nat

VARIABLES
    phase,       \* "down", then "seed" and "scan" while main starts, then "run"
    seedsLeft,   \* lines of the seed list still to ingest
    unlisted,    \* directory entries readdir has still to return
    seen,        \* bits set in SEEN
    banned,      \* bits set in BLACKLIST
    staging,     \* STAGING_VECTORS[r].data
    numWritten,  \* STAGING_VECTORS[r].num_written
    fileQueue,   \* STAGING_FILE_QUEUES[r].data, the files' numbers
    queue,       \* FRONTIER_QUEUES[r].data
    holder,      \* who holds FRONTIER_QUEUES[r].mutex between two steps
    pc,          \* where each thread stands
    held,        \* the URL in each thread's hands
    sel,         \* queue_num of each thread in get_url
    num,         \* number of the file each thread loads
    disk         \* the frontier files of the directory

(* History, for the properties and the bounds only. *)
VARIABLES
    stock,       \* entries this process accepted or found in whole files
    delivered,   \* entries get_url has returned
    dropped,     \* entries get_url discarded as blacklisted
    refused,     \* URLs this process passed to blacklist_url
    nextId, crashes, faults

boot == <<phase, seedsLeft, unlisted>>
filters == <<seen, banned>>
stage == <<staging, numWritten>>
queues == <<fileQueue, queue, holder>>
locals == <<pc, held, sel, num>>
history == <<stock, delivered, dropped, refused, nextId, crashes, faults>>
vars == <<boot, filters, stage, queues, locals, disk, history>>

\* Bloomfilter::contains
Contains(filter, s) == Bits[s] \subseteq filter

\* Bloomfilter::insert
WithString(filter, s) == filter \cup Bits[s]

\* Mutant: only the root paths are looked up, not the URL itself.
RootsOnlyInBlacklist(u) == \E s \in Lookups[u] \ {u} : Contains(banned, s)

\* is_in_blacklist: the URL or one of its root paths has been blacklisted.
InBlacklist(u) == \E s \in Lookups[u] : Contains(banned, s)

\* A staging vector is written out when it holds more URLs than this.
StagingLimit(r) == IF r = 0 THEN UrlsPerFile \div 10 ELSE UrlsPerFile

\* Mutant: the last queue can never come up.
LastNeverQueueOf(k) == IF k >= NumQueues - 1 THEN 0 ELSE k

\* Mutant: the clip is off by one.
LooseQueueOf(k) == IF k > NumQueues THEN 0 ELSE k

\* The queue that get_url tries on a geometric sample k.
QueueOf(k) == IF k >= NumQueues THEN 0 ELSE k

\* Samples that tell the queues apart; those past the last one are alike.
Samples == 0 .. NumQueues

\* Mutant: the comparison is the other way round.
SwappedNextNumber(n, written) == IF written > n THEN n + 1 ELSE written

\* num_written once the scan has met file number n.
NextNumber(n, written) == IF n > written THEN n + 1 ELSE written

\* Mutant: the reader skips the first URL.
ShortUrlsOf(f) == SubSeq(disk[f].urls, 2, Len(disk[f].urls))

\* deserialize_frontier_url_vector over the contents of file f.
UrlsOf(f) == disk[f].urls

\* The directory with file name f holding c.
WithFile(f, c) == [g \in DOMAIN disk \cup {f} |-> IF g = f THEN c ELSE disk[g]]

\* Mutant: the file is not removed.
KeptWithoutFile(f) == disk

WithoutFile(f) == Restrict(disk, DOMAIN disk \ {f})

Fails(call) == /\ call \in Faults
               /\ faults < MaxFaults
               /\ faults' = faults + 1

Idle(t) == pc' = [pc EXCEPT ![t] = "idle"]

At(t, where) == phase = "run" /\ pc[t] = where

WholeFileEntries == UNION {Range(disk[f].urls) : f \in {g \in DOMAIN disk : disk[g].whole}}

-----------------------------------------------------------------------------
(* Start of the process: main ingests the seed list (or not), then scans   *)
(* the frontier directory, then starts the threads.  load_frontier_filters *)
(* leaves both filters as they are: Bloomfilter::load_data opens the file  *)
(* write-only and its first read fails.                                    *)

ClearMemory ==
    /\ seen' = {}
    /\ banned' = {}
    /\ staging' = [r \in Ranks |-> <<>>]
    /\ numWritten' = [r \in Ranks |-> 0]
    /\ fileQueue' = [r \in Ranks |-> <<>>]
    /\ queue' = [r \in Ranks |-> <<>>]
    /\ holder' = [r \in Ranks |-> NoThread]
    /\ pc' = [t \in Threads |-> "idle"]
    /\ refused' = {}

Start ==
    /\ phase = "down"
    /\ \/ phase' = "seed" /\ seedsLeft' = Seeds
       \/ phase' = "scan" /\ seedsLeft' = <<>>
    /\ unlisted' = DOMAIN disk
    /\ stock' = WholeFileEntries
    /\ UNCHANGED <<filters, stage, queues, locals, disk, delivered, dropped,
                   refused, nextId, crashes, faults>>

\* insert_seed_list: the URL as written in the list, straight into the queue.
IngestSeed ==
    /\ phase = "seed"
    /\ seedsLeft # <<>>
    /\ nextId < MaxEntries
    /\ \E r \in RanksOf[Head(seedsLeft)] :
         LET e == [url |-> Head(seedsLeft), rank |-> r, id |-> nextId]
         IN  /\ queue' = [queue EXCEPT ![r] = Append(@, e)]
             /\ stock' = stock \cup {e}
    /\ seen' = WithString(seen, Head(seedsLeft))
    /\ seedsLeft' = Tail(seedsLeft)
    /\ nextId' = nextId + 1
    /\ UNCHANGED <<phase, unlisted, banned, stage, fileQueue, holder, locals, disk,
                   delivered, dropped, refused, crashes, faults>>

SeedsIngested ==
    /\ phase = "seed"
    /\ seedsLeft = <<>> \/ nextId >= MaxEntries
    /\ phase' = "scan"
    /\ UNCHANGED <<seedsLeft, unlisted, filters, stage, queues, locals, disk, history>>

\* Mutant: a file is queued only when its number raises num_written.
NewestOnlyScanFile(f) ==
    /\ phase = "scan"
    /\ f \in unlisted
    /\ numWritten' = [numWritten EXCEPT ![f[1]] = NextNumber(f[2], @)]
    /\ fileQueue' = IF f[2] > numWritten[f[1]]
                    THEN [fileQueue EXCEPT ![f[1]] = Append(@, f[2])] ELSE fileQueue
    /\ unlisted' = unlisted \ {f}
    /\ UNCHANGED <<phase, seedsLeft, filters, staging, queue, holder, locals, disk, history>>

\* The loop of initialize_frontier_file_dir: readdir returns names in any order.
ScanFile(f) ==
    /\ phase = "scan"
    /\ f \in unlisted
    /\ numWritten' = [numWritten EXCEPT ![f[1]] = NextNumber(f[2], @)]
    /\ fileQueue' = [fileQueue EXCEPT ![f[1]] = Append(@, f[2])]
    /\ unlisted' = unlisted \ {f}
    /\ UNCHANGED <<phase, seedsLeft, filters, staging, queue, holder, locals, disk, history>>

StartThreads ==
    /\ phase = "scan"
    /\ unlisted = {}
    /\ phase' = "run"
    /\ UNCHANGED <<seedsLeft, unlisted, filters, stage, queues, locals, disk, history>>

\* The process dies, or exits on the operator's command: neither path saves the
\* staging vectors or the queues.
Crash ==
    /\ phase # "down"
    /\ crashes < MaxCrashes
    /\ crashes' = crashes + 1
    /\ phase' = "down"
    /\ ClearMemory
    /\ UNCHANGED <<seedsLeft, unlisted, held, sel, num, disk, stock, delivered, dropped,
                   nextId, faults>>

-----------------------------------------------------------------------------
(* insert_url *)

\* The SEEN test; a URL that is in the filter is turned away and nothing changes.
InsertCheckSeen(t, u) ==
    /\ At(t, "idle")
    /\ nextId < MaxEntries
    /\ ~Contains(seen, Https[u])
    /\ \E r \in RanksOf[Https[u]] :
         held' = [held EXCEPT ![t] = [url |-> Https[u], rank |-> r, id |-> nextId]]
    /\ nextId' = nextId + 1
    /\ pc' = [pc EXCEPT ![t] = "unseen"]
    /\ UNCHANGED <<boot, filters, stage, queues, sel, num, disk, stock, delivered, dropped,
                   refused, crashes, faults>>

\* is_in_blacklist takes and releases the mutex a second time.
InsertCheckBlacklist(t) ==
    /\ At(t, "unseen")
    /\ IF InBlacklist(held[t].url) THEN Idle(t) ELSE pc' = [pc EXCEPT ![t] = "allowed"]
    /\ UNCHANGED <<boot, filters, stage, queues, held, sel, num, disk, history>>

\* Mutant: the URL is not recorded.
ForgetfulMarkSeen(t) ==
    /\ At(t, "allowed")
    /\ pc' = [pc EXCEPT ![t] = "stage"]
    /\ UNCHANGED <<boot, filters, stage, queues, held, sel, num, disk, history>>

InsertMarkSeen(t) ==
    /\ At(t, "allowed")
    /\ seen' = WithString(seen, held[t].url)
    /\ pc' = [pc EXCEPT ![t] = "stage"]
    /\ UNCHANGED <<boot, banned, stage, queues, held, sel, num, disk, history>>

\* The staging vector of the URL's rank once the URL is pushed.
Batch(t) == Append(staging[held[t].rank], held[t])

BatchFull(t) == Len(Batch(t)) > StagingLimit(held[t].rank)

\* The name the vector is written under.
BatchFile(t) == <<held[t].rank, numWritten[held[t].rank]>>

\* The file when the write stops short, after k of the URLs.
TornBatch(t, k) == [urls |-> SubSeq(Batch(t), 1, k), whole |-> FALSE]

\* The push at the end of insert_url, under the staging mutex.
InsertKeep(t) ==
    /\ At(t, "stage")
    /\ ~BatchFull(t)
    /\ staging' = [staging EXCEPT ![held[t].rank] = Batch(t)]
    /\ stock' = stock \cup {held[t]}
    /\ Idle(t)
    /\ UNCHANGED <<boot, filters, numWritten, queues, held, sel, num, disk, delivered,
                   dropped, refused, nextId, crashes, faults>>

\* The push when the vector is full: the vector is written out under the next
\* number, emptied, and only then is the file queued.
InsertFlush(t) ==
    /\ At(t, "stage")
    /\ BatchFull(t)
    /\ numWritten' = [numWritten EXCEPT ![held[t].rank] = @ + 1]
    /\ disk' = WithFile(BatchFile(t), [urls |-> Batch(t), whole |-> TRUE])
    /\ staging' = [staging EXCEPT ![held[t].rank] = <<>>]
    /\ fileQueue' = [fileQueue EXCEPT ![held[t].rank] = Append(@, numWritten[held[t].rank])]
    /\ stock' = stock \cup {held[t]}
    /\ Idle(t)
    /\ UNCHANGED <<boot, filters, queue, holder, held, sel, num, delivered, dropped,
                   refused, nextId, crashes, faults>>

\* The early returns of that path: the number is used up, the vector stays, and a
\* write that stopped short leaves its file behind.
InsertFlushFails(t) ==
    /\ At(t, "stage")
    /\ BatchFull(t)
    /\ \/ Fails("open") /\ UNCHANGED disk
       \/ Fails("write") /\ \E k \in 0 .. Len(Batch(t)) - 1 :
                               disk' = WithFile(BatchFile(t), TornBatch(t, k))
    /\ numWritten' = [numWritten EXCEPT ![held[t].rank] = @ + 1]
    /\ staging' = [staging EXCEPT ![held[t].rank] = Batch(t)]
    /\ stock' = stock \cup {held[t]}
    /\ Idle(t)
    /\ UNCHANGED <<boot, filters, queues, held, sel, num, delivered, dropped,
                   refused, nextId, crashes>>

\* The process dies inside that write: part of the vector is in the file.
CrashInWrite(t) ==
    /\ At(t, "stage")
    /\ BatchFull(t)
    /\ crashes < MaxCrashes
    /\ \E k \in 0 .. Len(Batch(t)) - 1 : disk' = WithFile(BatchFile(t), TornBatch(t, k))
    /\ crashes' = crashes + 1
    /\ phase' = "down"
    /\ ClearMemory
    /\ UNCHANGED <<seedsLeft, unlisted, held, sel, num, stock, delivered, dropped,
                   nextId, faults>>

-----------------------------------------------------------------------------
(* blacklist_url: a worker passes it the URL it was handed and could not crawl. *)

BlacklistUrl(t, u) ==
    /\ At(t, "idle")
    /\ \E e \in delivered \cap stock : e.url = u
    /\ banned' = WithString(banned, Stem[u])
    /\ refused' = refused \cup {u}
    /\ UNCHANGED <<boot, seen, stage, queues, locals, disk, stock, delivered, dropped,
                   nextId, crashes, faults>>

-----------------------------------------------------------------------------
(* get_url.  It calls itself again, which is "again", until it has a URL.  *)

\* geometric_distribution, the tail folded onto queue 0: any rank may come up.
GetPickQueue(t, k) ==
    /\ At(t, "idle") \/ At(t, "again")
    /\ sel' = [sel EXCEPT ![t] = QueueOf(k)]
    /\ pc' = [pc EXCEPT ![t] = "take"]
    /\ UNCHANGED <<boot, filters, stage, queues, held, num, disk, history>>

\* The mutex of the queue is free and a URL is waiting.
GetPop(t) ==
    /\ At(t, "take")
    /\ holder[sel[t]] = NoThread
    /\ queue[sel[t]] # <<>>
    /\ held' = [held EXCEPT ![t] = Head(queue[sel[t]])]
    /\ queue' = [queue EXCEPT ![sel[t]] = Tail(@)]
    /\ pc' = [pc EXCEPT ![t] = "check"]
    /\ UNCHANGED <<boot, filters, stage, fileQueue, holder, sel, num, disk, history>>

\* Neither a URL nor a file: try another queue.
GetGiveUp(t) ==
    /\ At(t, "take")
    /\ holder[sel[t]] = NoThread
    /\ queue[sel[t]] = <<>>
    /\ fileQueue[sel[t]] = <<>>
    /\ pc' = [pc EXCEPT ![t] = "again"]
    /\ UNCHANGED <<boot, filters, stage, queues, held, sel, num, disk, history>>

\* The oldest file's name is popped and the mutex of the queue kept.
GetTakeFile(t) ==
    /\ At(t, "take")
    /\ holder[sel[t]] = NoThread
    /\ queue[sel[t]] = <<>>
    /\ fileQueue[sel[t]] # <<>>
    /\ num' = [num EXCEPT ![t] = Head(fileQueue[sel[t]])]
    /\ fileQueue' = [fileQueue EXCEPT ![sel[t]] = Tail(@)]
    /\ holder' = [holder EXCEPT ![sel[t]] = t]
    /\ pc' = [pc EXCEPT ![t] = "load"]
    /\ UNCHANGED <<boot, filters, stage, queue, held, sel, disk, history>>

\* The name is off the queue and the file cannot be read: it is forgotten.
GetLoadFails(t) ==
    /\ At(t, "load")
    /\ \/ <<sel[t], num[t]>> \notin DOMAIN disk /\ UNCHANGED faults
       \/ <<sel[t], num[t]>> \in DOMAIN disk /\ (Fails("open") \/ Fails("read"))
    /\ holder' = [holder EXCEPT ![sel[t]] = NoThread]
    /\ pc' = [pc EXCEPT ![t] = "again"]
    /\ UNCHANGED <<boot, filters, stage, fileQueue, queue, held, sel, num, disk,
                   stock, delivered, dropped, refused, nextId, crashes>>

\* The file's URLs go to the queue.  Of a file that is cut short the reader gets
\* what is there, and then garbage, which is not tracked.
GetLoad(t) ==
    LET f == <<sel[t], num[t]>>
    IN  /\ At(t, "load")
        /\ f \in DOMAIN disk
        /\ UrlsOf(f) # <<>>
        /\ queue' = [queue EXCEPT ![sel[t]] = UrlsOf(f)]
        /\ pc' = [pc EXCEPT ![t] = "unlink"]
        /\ UNCHANGED <<boot, filters, stage, fileQueue, holder, held, sel, num, disk, history>>

\* Reading past the end of the buffer of a file that is cut short kills the process.
CrashInLoad(t) ==
    LET f == <<sel[t], num[t]>>
    IN  /\ At(t, "load")
        /\ f \in DOMAIN disk
        /\ ~disk[f].whole
        /\ phase' = "down"
        /\ ClearMemory
        /\ UNCHANGED <<seedsLeft, unlisted, held, sel, num, disk, stock, delivered, dropped,
                       nextId, crashes, faults>>

\* Whatever is in the file by now goes; the result of remove is not looked at.
GetUnlink(t) ==
    LET r == sel[t]
    IN  /\ At(t, "unlink")
        /\ \/ disk' = WithoutFile(<<r, num[t]>>) /\ UNCHANGED faults
           \/ Fails("remove") /\ UNCHANGED disk
        /\ held' = [held EXCEPT ![t] = Head(queue[r])]
        /\ queue' = [queue EXCEPT ![r] = Tail(@)]
        /\ holder' = [holder EXCEPT ![r] = NoThread]
        /\ pc' = [pc EXCEPT ![t] = "check"]
        /\ UNCHANGED <<boot, filters, stage, fileQueue, sel, num, stock, delivered, dropped,
                       refused, nextId, crashes>>

\* A URL blacklisted since it was inserted is dropped, any other is returned.
GetCheckBlacklist(t) ==
    /\ At(t, "check")
    /\ IF InBlacklist(held[t].url)
       THEN /\ dropped' = dropped \cup {held[t]}
            /\ pc' = [pc EXCEPT ![t] = "again"]
            /\ UNCHANGED delivered
       ELSE /\ delivered' = delivered \cup {held[t]}
            /\ Idle(t)
            /\ UNCHANGED dropped
    /\ UNCHANGED <<boot, filters, stage, queues, held, sel, num, disk, stock, refused,
                   nextId, crashes, faults>>

-----------------------------------------------------------------------------
NoEntry == [url |-> CHOOSE u \in Urls : TRUE, rank |-> 0, id |-> 0]

Init ==
    /\ phase = "down"
    /\ seedsLeft = <<>>
    /\ unlisted = {}
    /\ seen = {}
    /\ banned = {}
    /\ staging = [r \in Ranks |-> <<>>]
    /\ numWritten = [r \in Ranks |-> 0]
    /\ fileQueue = [r \in Ranks |-> <<>>]
    /\ queue = [r \in Ranks |-> <<>>]
    /\ holder = [r \in Ranks |-> NoThread]
    /\ pc = [t \in Threads |-> "idle"]
    /\ held = [t \in Threads |-> NoEntry]
    /\ sel = [t \in Threads |-> 0]
    /\ num = [t \in Threads |-> 0]
    /\ disk = [f \in {} |-> [urls |-> <<>>, whole |-> TRUE]]
    /\ stock = {}
    /\ delivered = {}
    /\ dropped = {}
    /\ refused = {}
    /\ nextId = 0
    /\ crashes = 0
    /\ faults = 0

Insert(t) ==
    \/ \E u \in Urls : InsertCheckSeen(t, u)
    \/ InsertCheckBlacklist(t)
    \/ InsertMarkSeen(t)
    \/ InsertKeep(t)
    \/ InsertFlush(t)
    \/ InsertFlushFails(t)

Get(t) ==
    \/ \E k \in Samples : GetPickQueue(t, k)
    \/ GetPop(t)
    \/ GetGiveUp(t)
    \/ GetTakeFile(t)
    \/ GetLoadFails(t)
    \/ GetLoad(t)
    \/ GetUnlink(t)
    \/ GetCheckBlacklist(t)

Boot ==
    \/ Start
    \/ IngestSeed
    \/ SeedsIngested
    \/ \E f \in unlisted : ScanFile(f)
    \/ StartThreads

Next ==
    \/ Boot
    \/ Crash
    \/ \E t \in Threads :
         \/ Insert(t)
         \/ Get(t)
         \/ CrashInWrite(t)
         \/ CrashInLoad(t)
         \/ \E u \in Urls : BlacklistUrl(t, u)

Spec == Init /\ [][Next]_vars

\* The scheduler runs every thread, a worker always comes back for another URL,
\* and the random choice of a queue sooner or later falls on each of them.
Fairness ==
    /\ WF_vars(Boot)
    /\ \A t \in Threads :
         /\ WF_vars(Insert(t) /\ pc[t] # "idle")
         /\ WF_vars(Get(t) /\ pc[t] \notin {"idle", "again"})
         /\ \A r \in Ranks :
              SF_vars(\E k \in Samples : QueueOf(k) = r /\ GetPickQueue(t, k))

FairSpec == Spec /\ Fairness

-----------------------------------------------------------------------------
(* Properties *)

TypeOK ==
    /\ phase \in {"down", "seed", "scan", "run"}
    /\ seedsLeft \in Seq(Urls)
    /\ unlisted \in SUBSET FileName
    /\ seen \in SUBSET Nat
    /\ banned \in SUBSET Nat
    /\ staging \in [Ranks -> Seq(Entry)]
    /\ numWritten \in [Ranks -> Nat]
    /\ fileQueue \in [Ranks -> Seq(Nat)]
    /\ queue \in [Ranks -> Seq(Entry)]
    /\ holder \in [Ranks -> Threads \cup {NoThread}]
    /\ pc \in [Threads -> {"idle", "unseen", "allowed", "stage", "again", "take", "load",
                           "unlink", "check"}]
    /\ held \in [Threads -> Entry]
    /\ sel \in [Threads -> Ranks]
    /\ num \in [Threads -> Nat]
    /\ DOMAIN disk \in SUBSET FileName
    /\ disk \in [DOMAIN disk -> File]
    /\ stock \in SUBSET Entry
    /\ delivered \in SUBSET Entry
    /\ dropped \in SUBSET Entry
    /\ refused \in SUBSET Urls
    /\ nextId \in Nat
    /\ crashes \in Nat
    /\ faults \in Nat

\* Who holds the mutex of a queue between two steps is loading one of its files,
\* and finds the queue as the mutex promises.
MutexInv ==
    /\ phase # "run" => \A t \in Threads : pc[t] = "idle"
    /\ \A t \in Threads : pc[t] \in {"load", "unlink"} <=> holder[sel[t]] = t
    /\ \A r \in Ranks : holder[r] # NoThread => sel[holder[r]] = r
    /\ \A t \in Threads : pc[t] = "load" => queue[sel[t]] = <<>>
    /\ \A t \in Threads : pc[t] = "unlink" => queue[sel[t]] # <<>>

InMemory == UNION {Range(staging[r]) \cup Range(queue[r]) : r \in Ranks}

InHand(where) == {held[t] : t \in {x \in Threads : pc[x] \in where}}

\* A URL that get_url is about to return was never returned before, is in no
\* other thread's hands, and what has been returned is stored nowhere: not even
\* a crash between loading and unlinking a file makes a URL come out twice.
\* (get_url, insert_url; holds unless write or remove fails: see the README.)
HandedOutOnce ==
    /\ \A t \in Threads : pc[t] = "check" =>
         /\ held[t] \notin delivered
         /\ \A other \in Threads \ {t} : pc[other] = "check" => held[other] # held[t]
    /\ delivered \cap (InMemory \cup WholeFileEntries) = {}

\* Every URL that insert_url took, or that was in a whole file when the process
\* started, is in a vector, a queue, a file or a thread's hands until get_url
\* returns or drops it: also when open, write, read or remove fails.  (The
\* hand-overs staging vector, file, queue, thread of insert_url and get_url;
\* holds until the first restart: see the README.)
NothingLost ==
    phase # "down" =>
        stock \subseteq InMemory \cup WholeFileEntries \cup InHand({"check"})
                        \cup delivered \cup dropped

\* While no system call has failed, each whole file of the directory is waiting in
\* its rank's file queue or is in the hands of a thread that loads it; so no file
\* is stranded, whatever crashes came before.  (STAGING_FILE_QUEUES against the
\* directory: insert_url, get_url, initialize_frontier_file_dir.)
NoStrandedFile ==
    (phase = "run" /\ faults = 0) =>
        \A f \in DOMAIN disk : disk[f].whole =>
            \/ f[2] \in Range(fileQueue[f[1]])
            \/ \E t \in Threads : /\ pc[t] \in {"load", "unlink"}
                                  /\ f = <<sel[t], num[t]>>

\* In whatever order readdir lists the files, the numbering resumes no lower than
\* the highest number in the directory, so at most that one file can be written
\* over.  (num_written in initialize_frontier_file_dir and insert_url.)
NumberingNotBehind ==
    phase = "run" => \A f \in DOMAIN disk : f[2] <= numWritten[f[1]]

\* The SEEN test and the insertion into SEEN are two critical sections, so one URL
\* can be accepted twice; but never more often than there are threads.
AcceptedOncePerThread ==
    crashes = 0 =>
        \A u \in Urls : Cardinality({e \in stock : e.url = u}) <= Cardinality(Threads)

\* No URL that was passed to blacklist_url is returned by get_url afterwards, even
\* when another thread was already past insert_url's blacklist test at the time.
\* (frontier.h: "preventing it from being inserted or retreived from the frontier".)
RefusedNeverReturned ==
    [][\A e \in delivered' \ delivered : e.url \notin refused]_vars

\* An entry that a get_url call can reach comes out, returned or dropped, while no
\* system call fails: the queues are drained in order and no rank is forgotten.
\* (get_url)
LoadableServed ==
    \A i \in 0 .. MaxEntries - 1 :
        (\E r \in Ranks :
            \/ \E e \in Range(queue[r]) : e.id = i
            \/ \E n \in Range(fileQueue[r]) :
                 <<r, n>> \in DOMAIN disk /\ \E e \in Range(disk[<<r, n>>].urls) : e.id = i)
        ~> (faults > 0 \/ \E e \in delivered \cup dropped : e.id = i)
=============================================================================
