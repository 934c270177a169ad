------------------------------ MODULE Crawler ------------------------------
(***************************************************************************)
(* One crawling machine: its worker threads, the operator's commands and   *)
(* the page files (src/crawler/worker_thread.cpp, crawler.cpp and the      *)
(* writing half of page_data.cpp).                                         *)
(*                                                                         *)
(* A worker takes a URL from the frontier, fetches it and appends the page *)
(* to the vector of its rank; the worker that makes the vector too large   *)
(* writes it to the rank's next numbered file.  On 's' the main thread     *)
(* raises the stop flag, joins the workers and writes what is left.        *)
(*                                                                         *)
(* Of the frontier (a module of its own) only this is kept: get_url hands  *)
(* out a URL or, with none to hand out, does not return.                   *)
(***************************************************************************)
EXTENDS Naturals, Sequences, FiniteSets, SequencesExt

CONSTANTS
    Threads,     \* worker threads
    Pages,       \* what the URLs lead to
    NumRanks,    \* NUM_PAGE_FILE_RANKS
    RankOf,      \* RankOf[p]: rank_bucket_from_double of the static score
    SizeOf,      \* SizeOf[p]: bytes of the page once serialized
    SizeLimit,   \* SizeLimit[r]: MAX_PAGE_FILE_SIZE_BYTES, a tenth of it for rank 0
    Faults,      \* the system calls that may fail
    MaxFaults,   \* bound: system calls that fail
    MaxCrashes,  \* bound: times the process may end
    MaxNumber,   \* bound: no 's' once a file of this number is written
    NoPage

ASSUME CrawlerAssumption ==
    /\ NumRanks \in Nat \ {0}
    /\ RankOf \in [Pages -> 0 .. NumRanks - 1]
    /\ SizeOf \in [Pages -> Nat \ {0}]
    /\ SizeLimit \in [0 .. NumRanks - 1 -> Nat]
    /\ Faults \subseteq {"open", "write"}
    /\ MaxFaults \in Nat
    /\ MaxCrashes \in Nat
    /\ MaxNumber \in Nat
    /\ NoPage \notin Pages

Ranks == 0 .. NumRanks - 1

VARIABLES
    todo,        \* pages whose URLs the frontier has still to hand out
    pc,          \* where each worker stands
    held,        \* the page each worker is busy with
    stop,        \* STOP_CRAWLING
    main,        \* where the main thread stands; "down" with no process
    rest,        \* rank of the next file the main thread writes
    buffer,      \* page_data_entries of each rank
    numWritten,  \* num_files_of_this_rank_written
    disk,        \* disk[r][n]: the file of rank r and number n
    crawled,     \* NUM_CRAWLED_PAGES
    kept,        \* history: stored pages, but for those lost with the memory
    faults,      \* history: calls that have failed, since the process began and ever
    crashes

threads == <<todo, pc, held>>
command == <<stop, main, rest>>
files == <<buffer, numWritten, disk>>
vars == <<threads, command, files, crawled, kept, faults, crashes>>

-----------------------------------------------------------------------------
(* Page files *)

Bytes(pages) == FoldLeft(LAMBDA sum, p : sum + SizeOf[p], 0, pages)

OverLimit(r) == Bytes(buffer[r]) > SizeLimit[r]

\* A file says in its header how many pages it has.  The file is opened without
\* O_TRUNC and without O_EXCL: one of the same name is written over.
File(pages, claims) == [pages |-> pages, claims |-> claims]

WithFile(d, n, f) == [k \in DOMAIN d \cup {n} |-> IF k = n THEN f ELSE d[k]]

WholeFile(r) == File(buffer[r], Len(buffer[r]))

\* The header and some of the pages; what follows cannot be read.
TornFile(r, k) == File(SubSeq(buffer[r], 1, k), Len(buffer[r]))

\* Mutant: a number is used up only by a file that is whole.
LateTakeNumber(r) ==
    numWritten' = [numWritten EXCEPT ![r] = IF buffer[r] = <<>> THEN @ ELSE @ + 1]

\* The number of the file is used up before the file is opened.
TakeNumber(r) == numWritten' = [numWritten EXCEPT ![r] = @ + 1]

PutFile(r, f) == disk' = [disk EXCEPT ![r] = WithFile(@, numWritten[r], f)]

\* Mutant: the pages stay in memory.
KeptInMemory(r) ==
    /\ TakeNumber(r)
    /\ PutFile(r, WholeFile(r))
    /\ UNCHANGED <<buffer, faults>>

WriteSucceeds(r) ==
    /\ TakeNumber(r)
    /\ PutFile(r, WholeFile(r))
    /\ buffer' = [buffer EXCEPT ![r] = <<>>]
    /\ UNCHANGED faults

Fails(kind) ==
    /\ kind \in Faults
    /\ faults.ever < MaxFaults
    /\ faults' = [now |-> faults.now + 1, ever |-> faults.ever + 1]

\* Mutant: the vector is emptied all the same.
LossyWriteFails(r) ==
    /\ TakeNumber(r)
    /\ buffer' = [buffer EXCEPT ![r] = <<>>]
    /\ \/ Fails("open") /\ UNCHANGED disk
       \/ Fails("write") /\ \E k \in 0 .. Len(buffer[r]) : PutFile(r, TornFile(r, k))

\* The vector is kept: its pages go into the next file, too.
WriteFails(r) ==
    /\ TakeNumber(r)
    /\ UNCHANGED buffer
    /\ \/ Fails("open") /\ UNCHANGED disk
       \/ Fails("write") /\ \E k \in 0 .. Len(buffer[r]) : PutFile(r, TornFile(r, k))

\* write_page_file, under the mutex of the rank, once the size is found to call for it.
WritePageFile(r) == WriteSucceeds(r) \/ WriteFails(r)

-----------------------------------------------------------------------------
(* A worker: run_worker_thread. *)

Running == main # "down"

At(t, where) == Running /\ pc[t] = where

Go(t, where) == pc' = [pc EXCEPT ![t] = where]

CheckStop(t) ==
    /\ At(t, "check")
    /\ Go(t, IF stop THEN "exit" ELSE "get")
    /\ held' = [held EXCEPT ![t] = NoPage]
    /\ UNCHANGED <<todo, command, files, crawled, kept, faults, crashes>>

GetUrl(t) ==
    /\ At(t, "get")
    /\ \E p \in todo : todo' = todo \ {p} /\ held' = [held EXCEPT ![t] = p]
    /\ Go(t, "crawl")
    /\ UNCHANGED <<command, files, crawled, kept, faults, crashes>>

\* crawl_page fails or calls for the blacklist, or the page is not worth storing.
DropPage(t) ==
    /\ At(t, "crawl")
    /\ Go(t, "check")
    /\ UNCHANGED <<todo, held, command, files, crawled, kept, faults, crashes>>

\* The links of the page go to the frontier and to the peers; write_page counts the
\* page first.
CountPage(t) ==
    /\ At(t, "crawl")
    /\ crawled' = crawled + 1
    /\ Go(t, "store")
    /\ UNCHANGED <<todo, held, command, files, kept, faults, crashes>>

RankHeld(t) == RankOf[held[t]]

\* write_page appends under the mutex of the rank and tells whether a write is due.
StorePage(t) ==
    /\ At(t, "store")
    /\ buffer' = [buffer EXCEPT ![RankHeld(t)] = Append(@, held[t])]
    /\ kept' = kept \cup {held[t]}
    /\ Go(t, IF Bytes(buffer'[RankHeld(t)]) > SizeLimit[RankHeld(t)] THEN "full" ELSE "check")
    /\ UNCHANGED <<todo, held, command, numWritten, disk, crawled, faults, crashes>>

\* Mutant: the write is left to another worker if there is one at it.
PoliteFlushFull(t) ==
    /\ At(t, "full")
    /\ IF OverLimit(RankHeld(t)) /\ Bytes(buffer[RankHeld(t)]) <= SizeLimit[RankHeld(t)] + 1
       THEN WritePageFile(RankHeld(t))
       ELSE UNCHANGED <<files, faults>>
    /\ Go(t, "check")
    /\ UNCHANGED <<todo, held, command, crawled, kept, crashes>>

\* Another worker may have written the vector by the time this one has the mutex.
FlushFull(t) ==
    /\ At(t, "full")
    /\ IF OverLimit(RankHeld(t)) THEN WritePageFile(RankHeld(t))
       ELSE UNCHANGED <<files, faults>>
    /\ Go(t, "check")
    /\ UNCHANGED <<todo, held, command, crawled, kept, crashes>>

Work(t) == CheckStop(t) \/ GetUrl(t) \/ DropPage(t) \/ CountPage(t) \/ StorePage(t) \/ FlushFull(t)

-----------------------------------------------------------------------------
(* The main thread and the process. *)

\* The operator types 's', perhaps for the second time.
Stop ==
    /\ main \in {"input", "stopped"}
    /\ \A r \in Ranks : numWritten[r] <= MaxNumber
    /\ stop' = TRUE
    /\ main' = "join"
    /\ UNCHANGED <<threads, rest, files, crawled, kept, faults, crashes>>

\* Mutant: the workers are not waited for.
EagerJoin ==
    /\ main = "join"
    /\ main' = "write"
    /\ rest' = 0
    /\ UNCHANGED <<threads, stop, files, crawled, kept, faults, crashes>>

Join ==
    /\ main = "join"
    /\ \A t \in Threads : pc[t] = "exit"
    /\ main' = "write"
    /\ rest' = 0
    /\ UNCHANGED <<threads, stop, files, crawled, kept, faults, crashes>>

\* Mutant: the loop goes one rank too far.
EndlessWriteRest ==
    /\ main = "write"
    /\ IF rest < NumRanks THEN WritePageFile(rest) ELSE UNCHANGED <<files, faults>>
    /\ rest' = rest + 1
    /\ main' = IF rest' = NumRanks + 1 THEN "stopped" ELSE "write"
    /\ UNCHANGED <<threads, stop, crawled, kept, crashes>>

\* write_page_file(i, true) for every rank, empty vectors included.
WriteRest ==
    /\ main = "write"
    /\ WritePageFile(rest)
    /\ rest' = rest + 1
    /\ main' = IF rest' = NumRanks THEN "stopped" ELSE "write"
    /\ UNCHANGED <<threads, stop, crawled, kept, crashes>>

OnDisk == UNION {UNION {Range(disk[r][n].pages) : n \in DOMAIN disk[r]} : r \in Ranks}

\* The process ends: on 'e', which waits for nothing, or because it is killed.
Ends ==
    /\ Running
    /\ crashes < MaxCrashes
    /\ crashes' = crashes + 1
    /\ main' = "down"
    /\ buffer' = [r \in Ranks |-> <<>>]
    /\ UNCHANGED <<threads, stop, rest, numWritten, crawled, faults>>

Crash ==
    /\ Ends
    /\ kept' = kept \cap OnDisk
    /\ UNCHANGED disk

\* It ends in the middle of a write.
CrashInWrite(r) ==
    /\ Ends
    /\ \/ \E t \in Threads : pc[t] = "full" /\ RankHeld(t) = r /\ OverLimit(r)
       \/ main = "write" /\ rest = r
    /\ \E k \in 0 .. Len(buffer[r]) :
         /\ PutFile(r, TornFile(r, k))
         /\ kept' = kept \cap (OnDisk \cup Range(SubSeq(buffer[r], 1, k)))

\* Mutant: numbers begin again at 0.
FromZero(r) == 0

\* initialize_page_file_dir counts the files of the rank.
FirstNumber(r) == Cardinality(DOMAIN disk[r])

Boot ==
    /\ main = "down"
    /\ main' = "input"
    /\ stop' = FALSE
    /\ rest' = 0
    /\ pc' = [t \in Threads |-> "check"]
    /\ held' = [t \in Threads |-> NoPage]
    /\ buffer' = [r \in Ranks |-> <<>>]
    /\ numWritten' = [r \in Ranks |-> FirstNumber(r)]
    /\ crawled' = 0
    /\ faults' = [now |-> 0, ever |-> faults.ever]
    /\ UNCHANGED <<todo, disk, kept, crashes>>

Init ==
    /\ todo = Pages
    /\ pc = [t \in Threads |-> "check"]
    /\ held = [t \in Threads |-> NoPage]
    /\ stop = FALSE
    /\ main = "input"
    /\ rest = 0
    /\ buffer = [r \in Ranks |-> <<>>]
    /\ numWritten = [r \in Ranks |-> 0]
    /\ disk = [r \in Ranks |-> [n \in {} |-> File(<<>>, 0)]]
    /\ crawled = 0
    /\ kept = {}
    /\ faults = [now |-> 0, ever |-> 0]
    /\ crashes = 0

Main == Join \/ WriteRest

Next ==
    \/ \E t \in Threads : Work(t)
    \/ Stop
    \/ Main
    \/ Crash
    \/ \E r \in Ranks : CrashInWrite(r)
    \/ Boot

Spec == Init /\ [][Next]_vars

-----------------------------------------------------------------------------
(* Properties *)

TypeOK ==
    /\ todo \subseteq Pages
    /\ pc \in [Threads -> {"check", "get", "crawl", "store", "full", "exit"}]
    /\ held \in [Threads -> Pages \cup {NoPage}]
    /\ stop \in BOOLEAN
    /\ main \in {"input", "join", "write", "stopped", "down"}
    /\ rest \in 0 .. NumRanks
    /\ buffer \in [Ranks -> Seq(Pages)]
    /\ numWritten \in [Ranks -> Nat]
    /\ DOMAIN disk = Ranks
    /\ \A r \in Ranks : \A n \in DOMAIN disk[r] : disk[r][n] \in [pages : Seq(Pages), claims : Nat]
    /\ crawled \in Nat
    /\ kept \subseteq Pages
    /\ faults \in [now : Nat, ever : 0 .. MaxFaults]
    /\ crashes \in 0 .. MaxCrashes

InBuffers == UNION {Range(buffer[r]) : r \in Ranks}

\* A page that was stored is in its vector or on disk, and what is on disk stays
\* there through failed writes, ends of the process and restarts.  (write_page, 0 on
\* success; write_page_file.)
NothingLost == kept \subseteq OnDisk \cup InBuffers

\* The places a page is in: positions of the vectors (0) and of the files (1).
Places(p) ==
    UNION {{<<r, 0, 0, i>> : i \in {j \in DOMAIN buffer[r] : buffer[r][j] = p}} \cup
           UNION {{<<r, 1, n, i>> : i \in {j \in DOMAIN disk[r][n].pages : disk[r][n].pages[j] = p}} :
                     n \in DOMAIN disk[r]} : r \in Ranks}

\* No page is indexed twice: with no failed write it is in one place only, whichever
\* workers filled and wrote its vector at the same time.  (write_page_file.)
StoredOnce == faults.ever = 0 => \A p \in Pages : Cardinality(Places(p)) <= 1

\* A vector over its limit has a worker on the way to write it, until a write fails:
\* no vector grows without end because everybody left the write to another.
\* (write_page returns 1; write_page_file looks at the size again.)
FullIsOwned ==
    (Running /\ faults.now = 0) =>
        \A r \in Ranks : OverLimit(r) => \E t \in Threads : pc[t] = "full" /\ RankHeld(t) = r

\* When 's' is done and no call has failed, nothing is left in memory, no worker is
\* at work, and as many pages are on disk as were counted.  (crawler.cpp, 's'.)
StopStoresAll ==
    (main = "stopped" /\ faults.now = 0) =>
        /\ InBuffers = {}
        /\ \A t \in Threads : pc[t] = "exit"
        /\ crashes = 0 => crawled = Cardinality(OnDisk)

\* A file once written is never written over.  (initialize_page_file_dir.)
FilesKept == [][\A r \in Ranks : \A n \in DOMAIN disk[r] : disk'[r][n] = disk[r][n]]_vars

\* The files of a rank are numbered without a gap from 0, and a running process goes
\* on after the last: what counting the files at the start relies on.
NoGapInNumbers ==
    \A r \in Ranks : /\ DOMAIN disk[r] = 0 .. FirstNumber(r) - 1
                     /\ Running => numWritten[r] = FirstNumber(r)

=============================================================================
