----------------------------- MODULE BuildIndex -----------------------------
(***************************************************************************)
(* The loop of build_index (src/build_index.cpp): for each rank it reads   *)
(* the rank's page files in the order of the directory, adds the pages     *)
(* that are fit to be indexed, gives a file up when it takes too long or   *)
(* turns out to be torn, and writes one blob.                              *)
(***************************************************************************)
EXTENDS PageReader

CONSTANTS
    NumRanks,    \* NUM_PAGE_FILE_RANKS
    FilesOf,     \* FilesOf[r]: page files of rank r
    Unfit,       \* <<file, page>>: too little text, or too much
    Selections,  \* sets of ranks the command line may name; none for all
    MaxFaults    \* bound: files that cannot be opened, and blobs not written

ASSUME BuildIndexAssumption ==
    /\ NumRanks \in Nat \ {0}
    /\ FilesOf \in [0 .. NumRanks - 1 -> SUBSET Files]
    /\ \A r, q \in 0 .. NumRanks - 1 : r # q => FilesOf[r] \cap FilesOf[q] = {}
    /\ IsFiniteSet(Files)
    /\ Selections \subseteq SUBSET (0 .. NumRanks - 1)
    /\ MaxFaults \in Nat

Ranks == 0 .. NumRanks - 1

\* What a document remembers of where it comes from: page_file_num and page_file_index.
Doc(f, index) == [file |-> f, index |-> index]

VARIABLES
    selected,    \* selected_ranks
    reader,      \* the globals of the page reader
    pc,          \* "file", "page", "end", "write", "done" or "failed"
    rank,        \* the rank that is built
    left,        \* its files that are still to be read
    docs,        \* documents of the IndexBuilder
    truncated,   \* truncated_files
    blobs,       \* the documents of each blob that was written
    opened,      \* history: files that could be opened
    faults

vars == <<selected, reader, pc, rank, left, docs, truncated, blobs, opened, faults>>

\* The rank that comes after rank r is "done" with NumRanks.
StartRank(r) ==
    /\ rank' = r
    /\ left' = IF r < NumRanks THEN FilesOf[r] ELSE {}
    /\ docs' = <<>>
    /\ truncated' = {}
    /\ pc' = IF r = NumRanks THEN "done" ELSE "file"

Asked == selected = {} \/ rank \in selected

\* A rank that was not asked for.
SkipRank ==
    /\ pc = "file"
    /\ ~Asked
    /\ StartRank(rank + 1)
    /\ UNCHANGED <<selected, reader, blobs, opened, faults>>

\* The next file of the directory, in no particular order.
OpenFile ==
    /\ pc = "file" /\ Asked
    /\ \E f \in left : /\ left' = left \ {f}
                       /\ reader' = Loaded(reader, f)
                       /\ opened' = opened \cup {f}
    /\ pc' = "page"
    /\ UNCHANGED <<selected, rank, docs, truncated, blobs, faults>>

\* The file cannot be opened, or is no page file.
OpenFails ==
    /\ pc = "file" /\ Asked
    /\ faults < MaxFaults
    /\ faults' = faults + 1
    /\ \E f \in left : left' = left \ {f}
    /\ reader' = Closed(reader)
    /\ UNCHANGED <<selected, pc, rank, docs, truncated, blobs, opened>>

\* A page that is not fit is read and left out.
SkipPage ==
    /\ pc = "page"
    /\ HasNext(reader)
    /\ <<reader.file, PageAt(reader)>> \in Unfit
    /\ reader' = AfterPage(reader)
    /\ UNCHANGED <<selected, pc, rank, left, docs, truncated, blobs, opened, faults>>

\* Mutant: the location after the page is taken for its index.
LateNewDoc == Doc(reader.file, AfterPage(reader).loc)

\* The document that page_index and the name of the file make.
NewDoc == Doc(reader.file, reader.loc)

\* Mutant: a file given up leaves no trace.
SilentGiveUp ==
    /\ reader' = Closed(AfterPage(reader))
    /\ pc' = "file"
    /\ UNCHANGED truncated

\* The time for the file is up.
GiveUp ==
    /\ reader' = Closed(AfterPage(reader))
    /\ truncated' = truncated \cup {reader.file}
    /\ pc' = "file"

\* After every document the clock is looked at.
AddPage ==
    /\ pc = "page"
    /\ HasNext(reader)
    /\ <<reader.file, PageAt(reader)>> \notin Unfit
    /\ docs' = Append(docs, NewDoc)
    /\ \/ reader' = AfterPage(reader) /\ UNCHANGED <<pc, truncated>>
       \/ GiveUp
    /\ UNCHANGED <<selected, rank, left, blobs, opened, faults>>

\* get_next_page returns -1; a torn file is put on record, and close_page_file called.
EndFile ==
    /\ pc = "page"
    /\ ~HasNext(reader)
    /\ reader' = Closed(AfterNone(reader))
    /\ truncated' = IF reader'.corrupt THEN truncated \cup {reader.file} ELSE truncated
    /\ pc' = "file"
    /\ UNCHANGED <<selected, rank, left, docs, blobs, opened, faults>>

\* All files of the rank are read; without documents no blob is written.
WriteBlob ==
    /\ pc = "file" /\ Asked /\ left = {}
    /\ blobs' = IF docs = <<>> THEN blobs ELSE [blobs EXCEPT ![rank] = docs]
    /\ StartRank(rank + 1)
    /\ UNCHANGED <<selected, reader, opened, faults>>

\* The blob cannot be written: the program gives up the ranks that follow.
WriteFails ==
    /\ pc = "file" /\ Asked /\ left = {}
    /\ docs # <<>>
    /\ faults < MaxFaults
    /\ faults' = faults + 1
    /\ pc' = "failed"
    /\ UNCHANGED <<selected, reader, rank, left, docs, truncated, blobs, opened>>

Init ==
    /\ selected \in Selections
    /\ reader = NewReader
    /\ pc = "file"
    /\ rank = 0
    /\ left = FilesOf[0]
    /\ docs = <<>>
    /\ truncated = {}
    /\ blobs = [r \in Ranks |-> <<>>]
    /\ opened = {}
    /\ faults = 0

Next ==
    \/ SkipRank
    \/ OpenFile
    \/ OpenFails
    \/ SkipPage
    \/ AddPage
    \/ EndFile
    \/ WriteBlob
    \/ WriteFails

Spec == Init /\ [][Next]_vars

-----------------------------------------------------------------------------
(* Properties *)

FitPages(f) == {i \in PagesOf(f) : <<f, i>> \notin Unfit}

\* Every document of a blob leads back to a page of its rank that is fit to be
\* indexed, no two to the same one, and only the ranks asked for have one.
\* (page_file_index of build_index.cpp and get_next_page.)
DocsLeadBack ==
    \A r \in Ranks :
        /\ blobs[r] # <<>> => selected = {} \/ r \in selected
        /\ \A k \in DOMAIN blobs[r] :
             /\ blobs[r][k].file \in FilesOf[r]
             /\ \E i \in FitPages(blobs[r][k].file) :
                    Offsets[blobs[r][k].file][i] = blobs[r][k].index
        /\ \A k, l \in DOMAIN blobs[r] : k # l => blobs[r][k] # blobs[r][l]

DocsOf(f) == {d \in Range(docs) : d.file = f}

\* A file that was opened and left has all its fit pages in the index, or it is on the
\* list of truncated files; a torn file is on the list in any case.  (build_index.cpp.)
OmissionsReported ==
    pc = "file" =>
        \A f \in (IF rank = NumRanks THEN {} ELSE FilesOf[rank]) \cap (opened \ left) :
            /\ Cardinality(DocsOf(f)) = Cardinality(FitPages(f)) \/ f \in truncated
            /\ Claims[f] > NumPages(f) => f \in truncated
=============================================================================
