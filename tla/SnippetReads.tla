---------------------------- MODULE SnippetReads ----------------------------
(***************************************************************************)
(* The way back from a document to its page.  Once build_index has ended   *)
(* the search engine serves its blobs, and threads that answer queries     *)
(* fetch the pages behind the results (get_page_data_from_index of         *)
(* src/index/page_data.cpp, called by fetch_snippet of                     *)
(* src/engine/search_engine.hpp).  The reader is again one set of global   *)
(* variables; PAGE_FILE_INDEXING_MUTEX keeps the threads apart.            *)
(***************************************************************************)
EXTENDS BuildIndex

CONSTANTS
    Threads,
    StaleDocs,     \* documents of older blobs whose pages a file does not have any more
    MaxMappings,   \* bound: mappings left behind with which threads still ask
    NoThread,
    NoDocument

ASSUME SnippetReadsAssumption ==
    /\ NoThread \notin Threads
    /\ StaleDocs \subseteq [file : Files, index : Nat]
    /\ \A d \in StaleDocs : d.index >= Offsets[d.file][Len(Offsets[d.file])]
    /\ NoDocument \notin [file : Files, index : Nat]
    /\ MaxMappings \in Nat

VARIABLES
    documents, \* what the blobs of the engine refer to; none before it starts
    holder,    \* PAGE_FILE_INDEXING_MUTEX
    at,        \* where each thread is
    asked,     \* the document each thread is after
    got,       \* what it has read: the page's file and number, or nothing
    corrupted  \* history: a page that could not be read was come upon

build == <<selected, pc, rank, left, docs, truncated, blobs, opened>>
lookup == <<documents, holder, at, asked, got, corrupted>>

Nothing == <<>>

Return(t, what) ==
    /\ at' = [at EXCEPT ![t] = "idle"]
    /\ got' = [got EXCEPT ![t] = what]

Unlock == holder' = NoThread

Ended == pc \in {"done", "failed"}

Serving == documents # {}

BlobDocuments == UNION {Range(blobs[r]) : r \in Ranks}

\* The build is over, and with it what only its process knew; the engine loads blobs,
\* new ones and older ones.
Serve ==
    /\ Ended /\ ~Serving
    /\ documents' = BlobDocuments \cup StaleDocs
    /\ reader' = NewReader
    /\ faults' = 0
    /\ selected' = {} /\ opened' = {} /\ docs' = <<>> /\ truncated' = {}
    /\ rank' = 0 /\ left' = {} /\ pc' = "done"
    /\ blobs' = [r \in Ranks |-> <<>>]
    /\ UNCHANGED <<holder, at, asked, got, corrupted>>

Ask(t) ==
    /\ at[t] = "idle"
    /\ reader.mappings <= MaxMappings
    /\ \E d \in documents : asked' = [asked EXCEPT ![t] = d]
    /\ at' = [at EXCEPT ![t] = "lock"]
    /\ got' = [got EXCEPT ![t] = Nothing]
    /\ UNCHANGED <<build, documents, reader, holder, corrupted, faults>>

\* Mutant: there is no mutex.
NoLock(t) ==
    /\ at[t] = "lock"
    /\ holder' = t
    /\ at' = [at EXCEPT ![t] = "load"]
    /\ UNCHANGED <<build, documents, reader, asked, got, corrupted, faults>>

Lock(t) ==
    /\ at[t] = "lock"
    /\ holder = NoThread
    /\ holder' = t
    /\ at' = [at EXCEPT ![t] = "load"]
    /\ UNCHANGED <<build, documents, reader, asked, got, corrupted, faults>>

Load(t) ==
    /\ at[t] = "load"
    /\ reader' = Loaded(reader, asked[t].file)
    /\ at' = [at EXCEPT ![t] = "seek"]
    /\ UNCHANGED <<build, documents, holder, asked, got, corrupted, faults>>

LoadFails(t) ==
    /\ at[t] = "load"
    /\ faults < MaxFaults
    /\ faults' = faults + 1
    /\ reader' = Closed(reader)
    /\ Return(t, Nothing)
    /\ Unlock
    /\ UNCHANGED <<build, documents, asked, corrupted>>

\* An index past the end of the file is refused.
Seek(t) ==
    /\ at[t] = "seek"
    /\ IF asked[t].index >= FileSize(reader.file)
       THEN reader' = Closed(reader) /\ Return(t, Nothing) /\ Unlock
       ELSE /\ reader' = Sought(reader, asked[t].index)
            /\ at' = [at EXCEPT ![t] = "read"]
            /\ UNCHANGED <<got, holder>>
    /\ UNCHANGED <<build, documents, asked, corrupted, faults>>

ReadPage(t) ==
    /\ at[t] = "read"
    /\ HasNext(reader)
    /\ reader' = AfterPage(reader)
    /\ got' = [got EXCEPT ![t] = <<reader.file, PageAt(reader)>>]
    /\ at' = [at EXCEPT ![t] = "close"]
    /\ UNCHANGED <<build, documents, holder, asked, corrupted, faults>>

\* Mutant: the mutex is not unlocked on the way out.
LockedReadFails(t) ==
    /\ at[t] = "read"
    /\ ~HasNext(reader)
    /\ reader' = AfterNone(reader)
    /\ corrupted' = TRUE
    /\ Return(t, Nothing)
    /\ UNCHANGED <<build, documents, holder, asked, faults>>

ReadFails(t) ==
    /\ at[t] = "read"
    /\ ~HasNext(reader)
    /\ reader' = AfterNone(reader)
    /\ corrupted' = TRUE
    /\ Return(t, Nothing)
    /\ Unlock
    /\ UNCHANGED <<build, documents, asked, faults>>

\* Mutant: the file stays mapped when the thread goes.
ForgetfulClose(t) ==
    /\ at[t] = "close"
    /\ Return(t, got[t])
    /\ Unlock
    /\ UNCHANGED <<build, documents, reader, asked, corrupted, faults>>

Close(t) ==
    /\ at[t] = "close"
    /\ reader' = Closed(reader)
    /\ Return(t, got[t])
    /\ Unlock
    /\ UNCHANGED <<build, documents, asked, corrupted, faults>>

Step(t) ==
    Lock(t) \/ Load(t) \/ LoadFails(t) \/ Seek(t) \/ ReadPage(t) \/ ReadFails(t) \/ Close(t)

LookupInit ==
    /\ Init
    /\ documents = {}
    /\ holder = NoThread
    /\ at = [t \in Threads |-> "idle"]
    /\ asked = [t \in Threads |-> NoDocument]
    /\ got = [t \in Threads |-> Nothing]
    /\ corrupted = FALSE

LookupNext ==
    \/ ~Serving /\ Next /\ UNCHANGED lookup
    \/ Serve
    \/ \E t \in Threads : Ask(t) \/ Step(t)

\* A thread of the engine goes on, and is not passed over for
\* ever at the mutex; nobody has to ask.
LookupSpec ==
    /\ LookupInit /\ [][LookupNext]_<<vars, lookup>>
    /\ \A t \in Threads : WF_<<vars, lookup>>(Step(t)) /\ SF_<<vars, lookup>>(Lock(t))

-----------------------------------------------------------------------------
(* Properties *)

\* A thread that comes back with a page has the page its document was made from,
\* whatever the others load in the meantime; and a document that build_index has just
\* put in a blob leads to its page each time, unless a page file cannot be loaded.
\* (get_page_data_from_index; the index of the page went through build_index and a
\* blob.)
OwnPage ==
    \A t \in Threads : at[t] = "idle" =>
        /\ got[t] # Nothing =>
            /\ got[t][1] = asked[t].file
            /\ Offsets[got[t][1]][got[t][2]] = asked[t].index
        /\ (asked[t] \in documents \ StaleDocs /\ faults = 0) => got[t] # Nothing

\* With the mutex free nothing is mapped, unless a page could not be read.
\* (close_page_file.)
NothingLeftMapped == (Serving /\ holder = NoThread /\ ~corrupted) => reader.mappings = 0

\* A thread that asks comes back, whichever way the reading goes.
AlwaysReturns == \A t \in Threads : at[t] = "lock" ~> at[t] = "idle"
=============================================================================
