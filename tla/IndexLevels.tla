---------------------------- MODULE IndexLevels ----------------------------
(***************************************************************************)
(* The levels of an engine (src/engine/search_engine.hpp): the index of    *)
(* each is built from pages, written and loaded before the engine answers, *)
(* and then only read.  What the pages say that an index was built from is *)
(* what it must answer.                                                    *)
(***************************************************************************)
EXTENDS WordReader

CONSTANT Corpora   \* the pages of each level, document 0 first

PageType == [url : Seq(Terms), title : Seq(Terms), words : Seq(Terms), anchor : Seq(Terms)]

ASSUME CorporaAssumption == Corpora \in Seq(Seq(PageType))

VARIABLES
    pc,        \* of a search: "idle", "compiled", "walk", "walked", "searched"
    levels     \* of each level its pages, the extents of its blob and what is read

\* WriteBlobV4 and LoadBlob between building and reading.
Loaded(pages) ==
    LET blob == Blob(Built(pages))
        read == Level(blob)
    IN  [pages |-> pages, extents |-> blob.extents, docs |-> read.docs, lists |-> read.lists]

LoadLevels == levels = [i \in DOMAIN Corpora |-> Loaded(Corpora[i])]

LevelsSpec == LoadLevels /\ [][UNCHANGED levels]_levels

-----------------------------------------------------------------------------
(* What the pages say.  The distances of the posts of a level must fit in their bits; *)
(* a rank with a word that comes up again only after 2^29 others does not.            *)

\* Where the words of a level's pages are, one page after the other.
Occurrences(lv) ==
    UNION {{[pos |-> DocStart(lv, d - 1) + i - 1, term |-> Tokens(lv.pages[d])[i].term,
             dec |-> Tokens(lv.pages[d])[i].dec, doc |-> d - 1] : i \in DOMAIN Tokens(lv.pages[d])} :
              d \in DOMAIN lv.pages}

OccurrencesOf(lv, t) == {o \in Occurrences(lv) : o.term = t}

InRange(lv) ==
    \A t \in Terms :
        LET of == OccurrencesOf(lv, t)
            posts == {o.pos : o \in of} \cup {lv.docs[o.doc + 1].end : o \in of}
        IN  \A p \in posts : p < DeltaLimit \/ \E q \in posts : q < p /\ p - q < DeltaLimit

\* Wherever the reader of a word is told to go, it comes to the first place of the word
\* from there on, past checkpoints and ends of documents.  (ISRWord::Seek.)
SeeksExactlyIn(lv) ==
    \A t \in Terms :
        LET places == {o.pos : o \in OccurrencesOf(lv, t)}
            new == NewWord(lv, t)
            end == Max({0} \cup {doc.end : doc \in Range(lv.docs)})
        IN  \A loc \in 0 .. end + 1 :
                LET it == SeekWord(lv, new, loc)
                    left == {p \in places : p >= loc}
                IN  it.valid = (left # {}) /\ (left # {} => it.start = Min(left))

\* The ranker counts a word in a field of a document just as often as it is there, and
\* the list says in how many documents, and how often, it is.  (GetFieldTermFrequency,
\* GetDocumentFrequency.)
CountsIn(lv) ==
    \A t \in Terms :
        LET here == OccurrencesOf(lv, t)
        IN  /\ \A d \in 0 .. NumDocs(lv) - 1 : \A dec \in {"url", "title", "body", "anchor"} :
                  FieldPositions(lv, d, t, dec) =
                      {o.pos : o \in {p \in here : p.doc = d /\ p.dec = dec}}
            /\ lv.lists[t].numDocs = Cardinality({o.doc : o \in here})
            /\ lv.lists[t].occurrences = Cardinality(here)

\* Looked up in the blob, a word leads to its own list and no other, whatever chains
\* it shares, and a word that is in no page to none.  (WriteBlobV4, find_term_offset.)
LooksUpIn(lv) ==
    LET ib == Built(lv.pages)
    IN  \A t \in Terms : lv.lists[t] = GetPostingList(ib, t)

\* No two things in a blob share a byte, and each begins on a multiple of eight.
\* (blob_format.h; pass 1 measures what pass 2 writes.)
ApartIn(ext) ==
    \A i \in DOMAIN ext : /\ ext[i][1] % 8 = 0
                          /\ \A j \in i + 1 .. Len(ext) : ext[i][1] + ext[i][2] <= ext[j][1]

\* A document has the address, the title and the length of its page.
\* (GetDocumentMetadata.)
DescribesIn(lv) ==
    /\ NumDocs(lv) = Len(lv.pages)
    /\ \A i \in DOMAIN lv.pages :
          /\ lv.docs[i].url = lv.pages[i].url
          /\ lv.docs[i].title = lv.pages[i].title
          /\ lv.docs[i].bodyLength = Len(lv.pages[i].words)

\* The index of a level answers as its pages say.
AnswersIn(lv) ==
    /\ ApartIn(lv.extents)
    /\ DescribesIn(lv)
    /\ LooksUpIn(lv)
    /\ InRange(lv) => SeeksExactlyIn(lv) /\ CountsIn(lv)

\* An index answers every lookup, seek and count as the pages say that it was built
\* from, after it was written and loaded: in all five of these ways, and the last two
\* where distances fit their bits.  (From NewDoc and addToken over the passes of
\* WriteBlobV4 to the readers; each relies on the layout of those before.)
IndexAnswers == pc = "idle" => \A lv \in Range(levels) : AnswersIn(lv)
=============================================================================
