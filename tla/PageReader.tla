----------------------------- MODULE PageReader -----------------------------
(***************************************************************************)
(* The reader of page files (src/index/page_data.cpp): one mapped file at  *)
(* a time, in global variables, and operations that move it.               *)
(*                                                                         *)
(* A file is a header and its pages one after the other.  The header says  *)
(* how many pages there should be; a torn file ends inside one of them.    *)
(***************************************************************************)
EXTENDS Naturals, Sequences, FiniteSets, Functions

CONSTANTS
    Files,       \* names of page files
    Offsets,     \* Offsets[f]: where each whole page of the file begins, and the last ends
    Claims,      \* Claims[f]: num_pages of its header
    TornTail,    \* TornTail[f]: bytes of the page in which a torn file ends
    HeaderSize,  \* sizeof(PageFileHeader)
    NoFile

ASSUME PageReaderAssumption ==
    /\ NoFile \notin Files
    /\ Offsets \in [Files -> Seq(Nat)]
    /\ \A f \in Files :
        /\ Offsets[f] # <<>> /\ Offsets[f][1] = HeaderSize
        /\ \A i, j \in DOMAIN Offsets[f] : i < j => Offsets[f][i] < Offsets[f][j]
    /\ Claims \in [Files -> Nat]
    /\ \A f \in Files : Claims[f] >= Len(Offsets[f]) - 1
    /\ TornTail \in [Files -> Nat]
    /\ HeaderSize \in Nat \ {0}

\* The globals: the mapped file, VALID_PAGE_FILE, CURRENT_PAGE_FILE_LOCATION as an
\* offset, NUM_PAGE_FILE_ENTRIES, PAGE_FILE_CORRUPT, and the mappings that live.
Reader == [file : Files \cup {NoFile}, valid : BOOLEAN, loc : Nat, entries : Nat,
           corrupt : BOOLEAN, mappings : Nat]

Globals(file, valid, loc, entries, corrupt, mappings) ==
    [file |-> file, valid |-> valid, loc |-> loc, entries |-> entries, corrupt |-> corrupt,
     mappings |-> mappings]

NewReader == Globals(NoFile, FALSE, 0, 0, FALSE, 0)

\* The whole pages of a file.
NumPages(f) == Len(Offsets[f]) - 1
PagesOf(f) == 1 .. NumPages(f)

PageSize(f, i) == Offsets[f][i + 1] - Offsets[f][i]

FileSize(f) == Offsets[f][Len(Offsets[f])] + TornTail[f]

PagesAt(f, loc) == {i \in PagesOf(f) : Offsets[f][i] = loc}

\* close_page_file, also the first thing load_page_file does.
Closed(rd) ==
    IF rd.valid THEN Globals(rd.file, FALSE, rd.loc, rd.entries, rd.corrupt, rd.mappings - 1)
    ELSE rd

\* load_page_file with a file that has a header and can be mapped.
Loaded(rd, f) == Globals(f, TRUE, HeaderSize, Claims[f], FALSE, Closed(rd).mappings + 1)

\* get_page_data_from_index points the reader at a page.
Sought(rd, index) == [rd EXCEPT !.loc = index]

\* get_next_page finds a page at its location; outside the pages it runs into the end
\* of the mapping or reads whatever the bytes make.
HasNext(rd) == rd.valid /\ rd.entries > 0 /\ PagesAt(rd.file, rd.loc) # {}

PageAt(rd) == CHOOSE i \in PagesAt(rd.file, rd.loc) : TRUE

AfterPage(rd) ==
    Globals(rd.file, rd.valid, rd.loc + PageSize(rd.file, PageAt(rd)), rd.entries - 1,
            rd.corrupt, rd.mappings)

\* get_next_page returns -1: the file is not valid any more, but stays mapped.
AfterNone(rd) ==
    Globals(rd.file, FALSE, rd.loc, rd.entries,
            rd.corrupt \/ (rd.valid /\ rd.entries > 0), rd.mappings)
=============================================================================
