---------------------------- MODULE SnippetProofs ----------------------------
(***************************************************************************)
(* Proofs about the way of a page from its file into a blob and back, for  *)
(* any files, whole, torn or empty, any threads and any number of          *)
(* failures: each document of a blob leads back to a page of its own, what *)
(* was left out is on record, and a thread gets the page it asks for.      *)
(***************************************************************************)
EXTENDS SnippetReads, FiniteSetTheorems, TLAPS

Documents == [file : Files, index : Nat]

allVars == <<vars, lookup>>

-----------------------------------------------------------------------------
(* The invariant of the build *)

BuildTypes ==
    /\ pc \in {"file", "page", "done", "failed"}
    /\ rank \in 0 .. NumRanks
    /\ pc \in {"file", "page", "failed"} => rank \in Ranks
    /\ left \subseteq Files
    /\ rank \in Ranks => left \subseteq FilesOf[rank]
    /\ docs \in Seq(Documents)
    /\ blobs \in [Ranks -> Seq(Documents)]
    /\ truncated \subseteq Files
    /\ opened \subseteq Files
    /\ faults \in Nat

\* What is valid is mapped.
ReaderOK ==
    /\ reader \in Reader
    /\ reader.valid => reader.file \in Files /\ reader.mappings > 0

\* The reader is in front of page k + 1, or at the end of the last whole page.
InFrontOf(f, k) ==
    /\ reader.file = f
    /\ reader.loc = Offsets[f][k + 1]
    /\ reader.entries = Claims[f] - k

\* While pages are read, the file is one of the rank's, no more among those to come.
Reading ==
    pc = "page" =>
        /\ Asked
        /\ reader.valid /\ ~reader.corrupt
        /\ reader.file \in FilesOf[rank] /\ reader.file \in opened /\ reader.file \notin left
        /\ \E k \in 0 .. NumPages(reader.file) : InFrontOf(reader.file, k)

\* Files are opened rank by rank, each once.
OpenedOnce ==
    /\ opened \cap left = {}
    /\ pc \in {"file", "page"} => \A r \in Ranks : r > rank => opened \cap FilesOf[r] = {}

LeadsBack(r, d) ==
    d.file \in FilesOf[r] /\ \E i \in FitPages(d.file) : Offsets[d.file][i] = d.index

\* The documents so far.
DocsOK ==
    /\ docs # <<>> => pc # "done" /\ Asked
    /\ \A k \in DOMAIN docs : LeadsBack(rank, docs[k]) /\ docs[k].file \in opened
    /\ \A k, l \in DOMAIN docs : k # l => docs[k] # docs[l]

\* The documents that the fit pages of a file before an offset make.
DocsBefore(f, loc) ==
    {Doc(f, Offsets[f][i]) : i \in {j \in FitPages(f) : Offsets[f][j] < loc}}

\* All that its whole pages give.
DocsWithin(f) == {Doc(f, Offsets[f][i]) : i \in FitPages(f)}

\* The file that is read has given what lies before the location of the reader, and
\* those that have been read all they have, or they are on the list.
Accounted ==
    /\ pc = "page" => DocsOf(reader.file) = DocsBefore(reader.file, reader.loc)
    /\ pc \in {"file", "page"} =>
        \A f \in FilesOf[rank] \cap opened :
            (pc = "page" => f # reader.file) =>
                /\ DocsOf(f) = DocsWithin(f) \/ f \in truncated
                /\ Claims[f] > NumPages(f) => f \in truncated

BuildInv == BuildTypes /\ ReaderOK /\ Reading /\ OpenedOnce /\ DocsOK /\ DocsLeadBack /\ Accounted

-----------------------------------------------------------------------------
(* Pages and offsets *)

LEMMA RankFacts == 0 \in Ranks /\ Ranks \subseteq Nat /\ \A r \in Ranks : FilesOf[r] \subseteq Files
  BY BuildIndexAssumption DEF Ranks

LEMMA FileFacts ==
    ASSUME NEW f \in Files
    PROVE  /\ Len(Offsets[f]) \in Nat \ {0} /\ Offsets[f] \in Seq(Nat)
           /\ NumPages(f) \in Nat
           /\ PagesOf(f) \subseteq DOMAIN Offsets[f]
           /\ \A k \in 0 .. NumPages(f) : Offsets[f][k + 1] \in Nat
           /\ \A i \in PagesOf(f) : Offsets[f][i] \in Nat
           /\ Claims[f] \in Nat /\ Claims[f] >= NumPages(f)
           /\ \A i, j \in DOMAIN Offsets[f] : i < j => Offsets[f][i] < Offsets[f][j]
           /\ \A i \in PagesOf(f) : PageSize(f, i) \in Nat \ {0}
<1>1. /\ Offsets[f] \in Seq(Nat) /\ Offsets[f] # <<>>
      /\ \A i, j \in DOMAIN Offsets[f] : i < j => Offsets[f][i] < Offsets[f][j]
      /\ Claims[f] \in Nat /\ Claims[f] >= NumPages(f)
  BY PageReaderAssumption DEF NumPages
<1>2. Len(Offsets[f]) \in Nat \ {0} /\ DOMAIN Offsets[f] = 1 .. Len(Offsets[f])
  BY <1>1
<1>3. /\ NumPages(f) \in Nat /\ NumPages(f) + 1 = Len(Offsets[f])
      /\ PagesOf(f) \subseteq DOMAIN Offsets[f]
      /\ \A k \in 0 .. NumPages(f) : k + 1 \in DOMAIN Offsets[f]
      /\ \A i \in PagesOf(f) : i \in Nat /\ i + 1 \in DOMAIN Offsets[f] /\ i < i + 1
  BY <1>2 DEF NumPages, PagesOf
<1>4. \A i \in DOMAIN Offsets[f] : Offsets[f][i] \in Nat
  BY <1>1
<1>5. \A i \in PagesOf(f) : PageSize(f, i) \in Nat \ {0}
  <2> TAKE i \in PagesOf(f)
  <2>1. Offsets[f][i] \in Nat /\ Offsets[f][i + 1] \in Nat /\ Offsets[f][i] < Offsets[f][i + 1]
    BY <1>1, <1>3, <1>4
  <2>2. QED
    BY <2>1 DEF PageSize
<1>6. QED
  BY <1>1, <1>2, <1>3, <1>4, <1>5

\* Where a page and the end of the last one stand among the offsets.
LEMMA PlaceFacts ==
    ASSUME NEW f \in Files
    PROVE  /\ 1 \in DOMAIN Offsets[f] /\ NumPages(f) + 1 \in DOMAIN Offsets[f]
           /\ \A i \in PagesOf(f) : i \in DOMAIN Offsets[f] /\ i \in 1 .. NumPages(f)
<1>1. Len(Offsets[f]) \in Nat \ {0} /\ Offsets[f] \in Seq(Nat)
  BY FileFacts
<1>2. DOMAIN Offsets[f] = 1 .. Len(Offsets[f])
  BY <1>1
<1>3. QED
  BY <1>1, <1>2 DEF NumPages, PagesOf

LEMMA Increasing ==
    ASSUME NEW f \in Files, NEW i \in DOMAIN Offsets[f], NEW j \in DOMAIN Offsets[f], i < j
    PROVE  Offsets[f][i] < Offsets[f][j]
BY PageReaderAssumption, Zenon

\* An offset belongs to one page.
LEMMA OneOffset ==
    ASSUME NEW f \in Files, NEW i \in DOMAIN Offsets[f], NEW j \in DOMAIN Offsets[f],
           Offsets[f][i] = Offsets[f][j]
    PROVE  i = j
<1>1. /\ Offsets[f][i] \in Nat /\ i \in Nat /\ j \in Nat
      /\ i < j => Offsets[f][i] < Offsets[f][j]
      /\ j < i => Offsets[f][j] < Offsets[f][i]
  BY FileFacts
<1>2. QED
  BY <1>1

\* A page begins before the end of its file.
LEMMA WithinFile ==
    ASSUME NEW f \in Files, NEW i \in PagesOf(f)
    PROVE  Offsets[f][i] < FileSize(f) /\ Offsets[f][i] \in Nat /\ FileSize(f) \in Nat
<1> DEFINE last == Len(Offsets[f])
<1>1. /\ last \in Nat \ {0} /\ PagesOf(f) = 1 .. last - 1
      /\ \A j, k \in DOMAIN Offsets[f] : j < k => Offsets[f][j] < Offsets[f][k]
      /\ Offsets[f] \in Seq(Nat)
  BY FileFacts DEF PagesOf, NumPages
<1>2. DOMAIN Offsets[f] = 1 .. last
  BY <1>1
<1>3. i \in 1 .. last /\ last \in 1 .. last /\ i < last
  BY <1>1
<1>4. Offsets[f][i] \in Nat /\ Offsets[f][last] \in Nat
  <2>1. \A j \in DOMAIN Offsets[f] : Offsets[f][j] \in Nat
    BY <1>1
  <2>2. QED
    BY <1>2, <1>3, <2>1
<1>5. Offsets[f][i] < Offsets[f][last]
  BY <1>1, <1>2, <1>3, Zenon
<1>6. TornTail[f] \in Nat
  BY PageReaderAssumption
<1>7. FileSize(f) = Offsets[f][last] + TornTail[f]
  BY DEF FileSize
<1>8. QED
  BY <1>4, <1>5, <1>6, <1>7

\* The reader after page k + 1.
Further(f, k) ==
    Globals(f, reader.valid, Offsets[f][k + 2], Claims[f] - (k + 1), reader.corrupt,
            reader.mappings)

\* The reader in front of page k + 1: whether it has a page, which one, and where the
\* reader goes.
LEMMA InFront ==
    ASSUME ReaderOK, reader.valid, NEW f \in Files, NEW k \in 0 .. NumPages(f), InFrontOf(f, k)
    PROVE  /\ PagesAt(f, reader.loc) = IF k = NumPages(f) THEN {} ELSE {k + 1}
           /\ HasNext(reader) <=> k < NumPages(f)
           /\ HasNext(reader) =>
                 /\ PageAt(reader) = k + 1 /\ k + 1 \in PagesOf(f)
                 /\ AfterPage(reader) = Further(f, k)
<1>1. /\ k \in Nat /\ NumPages(f) \in Nat /\ k + 1 \in DOMAIN Offsets[f]
      /\ reader.file = f /\ reader.loc = Offsets[f][k + 1] /\ reader.entries = Claims[f] - k
  BY FileFacts DEF InFrontOf, NumPages
<1>2. \A i \in PagesOf(f) : Offsets[f][i] = Offsets[f][k + 1] <=> i = k + 1
  BY <1>1, FileFacts, OneOffset
<1>3. k + 1 \in PagesOf(f) <=> k < NumPages(f)
  BY <1>1 DEF PagesOf
<1>4. PagesAt(f, reader.loc) = IF k = NumPages(f) THEN {} ELSE {k + 1}
  BY <1>1, <1>2, <1>3 DEF PagesAt
<1>5. HasNext(reader) <=> k < NumPages(f)
  BY <1>1, <1>4, FileFacts DEF HasNext
<1>6. ASSUME k < NumPages(f)
      PROVE  /\ PageAt(reader) = k + 1
             /\ AfterPage(reader) = Further(f, k)
  <2>1. PageAt(reader) = k + 1
    BY <1>1, <1>4, <1>6 DEF PageAt
  <2>2. reader.loc + PageSize(f, k + 1) = Offsets[f][k + 2]
    <3>1. k + 1 \in 0 .. NumPages(f) /\ (k + 1) + 1 = k + 2
      BY <1>1, <1>6
    <3>2. \A j \in 0 .. NumPages(f) : Offsets[f][j + 1] \in Nat
      BY FileFacts
    <3>3. Offsets[f][k + 1] \in Nat /\ Offsets[f][(k + 1) + 1] \in Nat
      BY <3>1, <3>2
    <3>4. QED
      BY <1>1, <3>1, <3>3 DEF PageSize
  <2>3. reader.entries - 1 = Claims[f] - (k + 1)
    <3>1. Claims[f] \in Nat
      BY FileFacts
    <3>2. QED
      BY <1>1, <3>1
  <2>4. QED
    BY <1>1, <2>1, <2>2, <2>3 DEF AfterPage, Further
<1>7. QED
  BY <1>3, <1>4, <1>5, <1>6

-----------------------------------------------------------------------------
(* The reader stays of type *)

LEMMA ReaderFacts ==
    ASSUME ReaderOK
    PROVE  /\ Closed(reader) \in Reader /\ ~Closed(reader).valid
           /\ \A f \in Files : /\ Loaded(reader, f) \in Reader
                               /\ Loaded(reader, f).valid /\ ~Loaded(reader, f).corrupt
                               /\ Loaded(reader, f).file = f
                               /\ Loaded(reader, f).loc = HeaderSize
                               /\ Loaded(reader, f).entries = Claims[f]
                               /\ Loaded(reader, f).mappings > 0
           /\ NewReader \in Reader /\ ~NewReader.valid
<1>1. HeaderSize \in Nat /\ \A f \in Files : Claims[f] \in Nat
  BY PageReaderAssumption
<1>2. Closed(reader) \in Reader /\ ~Closed(reader).valid
  BY DEF ReaderOK, Reader, Closed, Globals
<1>3. QED
  BY <1>1, <1>2 DEF Reader, Loaded, NewReader, Globals, ReaderOK

-----------------------------------------------------------------------------
(* The steps of the build *)

\* On to the next rank: a blob may have been written, nothing else stays.
LEMMA NextRank ==
    ASSUME BuildInv, pc = "file", StartRank(rank + 1),
           UNCHANGED <<selected, reader, opened, faults>>,
           \/ blobs' = blobs
           \/ Asked /\ blobs' = [blobs EXCEPT ![rank] = docs]
    PROVE  BuildInv'
<1>1. rank \in Ranks /\ rank \in Nat /\ rank + 1 \in 0 .. NumRanks /\ NumRanks \in Nat
  BY BuildIndexAssumption DEF BuildInv, BuildTypes, Ranks
<1>2. /\ rank' = rank + 1 /\ docs' = <<>> /\ truncated' = {}
      /\ pc' = IF rank + 1 = NumRanks THEN "done" ELSE "file"
      /\ left' = IF rank + 1 \in Ranks THEN FilesOf[rank + 1] ELSE {}
      /\ pc' = "file" => rank + 1 \in Ranks
  BY <1>1 DEF StartRank, Ranks
<1>3. blobs' \in [Ranks -> Seq(Documents)]
  BY DEF BuildInv, BuildTypes
<1>4. BuildTypes'
  BY <1>1, <1>2, <1>3, RankFacts DEF BuildInv, BuildTypes
<1>5. OpenedOnce'
  BY <1>1, <1>2 DEF BuildInv, OpenedOnce, Ranks
<1>6. DocsOK' /\ Reading' /\ ReaderOK'
  BY <1>2 DEF BuildInv, DocsOK, Reading, ReaderOK
<1>7. DocsLeadBack'
  <2> SUFFICES ASSUME NEW r \in Ranks
               PROVE  /\ blobs'[r] # <<>> => selected = {} \/ r \in selected
                      /\ \A k \in DOMAIN blobs'[r] : LeadsBack(r, blobs'[r][k])
                      /\ \A k, l \in DOMAIN blobs'[r] : k # l => blobs'[r][k] # blobs'[r][l]
    BY DEF DocsLeadBack, LeadsBack
  <2>1. CASE blobs'[r] = blobs[r]
    BY <2>1 DEF BuildInv, DocsLeadBack, LeadsBack
  <2>2. CASE blobs'[r] # blobs[r]
    <3>1. r = rank /\ blobs'[r] = docs /\ Asked
      BY <2>2 DEF BuildInv, BuildTypes
    <3>2. QED
      BY <3>1 DEF BuildInv, DocsOK, Asked
  <2>3. QED
    BY <2>1, <2>2
<1>8. Accounted'
  <2>1. pc' = "file" => FilesOf[rank'] \cap opened' = {}
    BY <1>1, <1>2 DEF BuildInv, OpenedOnce
  <2>2. QED
    BY <1>2, <2>1 DEF Accounted
<1>9. QED
  BY <1>4, <1>5, <1>6, <1>7, <1>8 DEF BuildInv

\* A file of the rank is opened; it has given no document yet.
LEMMA OpenStep ==
    ASSUME BuildInv, OpenFile
    PROVE  BuildInv'
<1>1. PICK f \in left :
        /\ left' = left \ {f} /\ reader' = Loaded(reader, f) /\ opened' = opened \cup {f}
  BY DEF OpenFile
<1>2. /\ pc = "file" /\ pc' = "page" /\ Asked
      /\ UNCHANGED <<selected, rank, docs, truncated, blobs, faults>>
      /\ f \in Files /\ f \in FilesOf[rank] /\ f \notin opened /\ rank \in Ranks
  BY DEF OpenFile, BuildInv, BuildTypes, OpenedOnce
<1>3. BuildTypes'
  BY <1>1, <1>2 DEF BuildInv, BuildTypes
<1>4. ReaderOK' /\ reader'.valid /\ ~reader'.corrupt /\ reader'.file = f /\ reader'.loc = HeaderSize
      /\ reader'.entries = Claims[f]
  BY <1>1, <1>2, ReaderFacts DEF BuildInv, ReaderOK
<1>5. HeaderSize = Offsets[f][0 + 1] /\ Claims[f] = Claims[f] - 0 /\ 0 \in 0 .. NumPages(f)
  BY <1>2, FileFacts, PageReaderAssumption
<1>6. Reading'
  BY <1>1, <1>2, <1>4, <1>5 DEF Reading, Asked, InFrontOf
<1>7. OpenedOnce'
  <2>1. \A r \in Ranks : r > rank => f \notin FilesOf[r]
    BY <1>2, BuildIndexAssumption DEF Ranks
  <2>2. QED
    BY <1>1, <1>2, <2>1 DEF BuildInv, OpenedOnce
<1>8. DocsOK' /\ DocsLeadBack'
  BY <1>1, <1>2 DEF BuildInv, DocsOK, DocsLeadBack, Asked
<1>9. Accounted'
  <2>1. DocsOf(f)' = {}
    BY <1>2 DEF BuildInv, BuildTypes, DocsOK, DocsOf, Range
  <2>2. DocsBefore(f, HeaderSize) = {}
    <3>1. \A i \in PagesOf(f) : ~(Offsets[f][i] < HeaderSize)
      <4> TAKE i \in PagesOf(f)
      <4>1. i \in DOMAIN Offsets[f] /\ 1 \in DOMAIN Offsets[f] /\ i \in Nat /\ i >= 1
        BY <1>2, PlaceFacts
      <4>2. i = 1 \/ Offsets[f][1] < Offsets[f][i]
        <5>1. i = 1 \/ 1 < i
          BY <4>1
        <5>2. QED
          BY <1>2, <4>1, <5>1, Increasing, Zenon
      <4>3. Offsets[f][i] \in Nat /\ Offsets[f][1] = HeaderSize /\ HeaderSize \in Nat
        BY <1>2, FileFacts, PageReaderAssumption
      <4>4. QED
        BY <4>2, <4>3
    <3>2. QED
      BY <3>1 DEF DocsBefore, FitPages
  <2>3. \A g : DocsOf(g)' = DocsOf(g)
    BY <1>2 DEF DocsOf
  <2>4. QED
    BY <1>1, <1>2, <1>4, <2>1, <2>2, <2>3 DEF BuildInv, Accounted
<1>10. QED
  BY <1>3, <1>4, <1>6, <1>7, <1>8, <1>9 DEF BuildInv

LEMMA OpenFailsStep ==
    ASSUME BuildInv, OpenFails
    PROVE  BuildInv'
<1>1. /\ pc = "file" /\ left' \subseteq left /\ reader' = Closed(reader) /\ faults' = faults + 1
      /\ UNCHANGED <<selected, pc, rank, docs, truncated, blobs, opened>>
  BY DEF OpenFails
<1>2. BuildTypes' /\ ReaderOK'
  BY <1>1, ReaderFacts DEF BuildInv, BuildTypes, ReaderOK
<1>3. Reading' /\ OpenedOnce' /\ DocsOK' /\ DocsLeadBack' /\ Accounted'
  BY <1>1 DEF BuildInv, Reading, OpenedOnce, DocsOK, DocsLeadBack, Accounted, DocsOf, Asked
<1>4. QED
  BY <1>2, <1>3 DEF BuildInv

\* What reading a page does: the reader comes before the next page, and the document
\* of the page, if it is fit, is the one by which the documents before the reader grow.
LEMMA PassPage ==
    ASSUME BuildInv, pc = "page", HasNext(reader)
    PROVE  LET f == reader.file
               after == AfterPage(reader)
           IN  /\ f \in Files /\ after \in Reader
               /\ after.file = f /\ after.valid /\ ~after.corrupt /\ after.mappings = reader.mappings
               /\ \E k \in 0 .. NumPages(f) : after.loc = Offsets[f][k + 1] /\ after.entries = Claims[f] - k
               /\ NewDoc \in Documents /\ NewDoc.file = f /\ NewDoc \notin DocsBefore(f, reader.loc)
               /\ <<f, PageAt(reader)>> \in Unfit => DocsBefore(f, after.loc) = DocsBefore(f, reader.loc)
               /\ <<f, PageAt(reader)>> \notin Unfit =>
                     /\ LeadsBack(rank, NewDoc)
                     /\ DocsBefore(f, after.loc) = DocsBefore(f, reader.loc) \cup {NewDoc}
<1> DEFINE f == reader.file
           after == AfterPage(reader)
<1>1. /\ f \in Files /\ f \in FilesOf[rank] /\ reader.valid /\ ~reader.corrupt
      /\ \E k \in 0 .. NumPages(f) : InFrontOf(f, k)
  BY DEF BuildInv, Reading, ReaderOK
<1>2. PICK k \in 0 .. NumPages(f) : InFrontOf(f, k)
  BY <1>1
<1>3. /\ k < NumPages(f) /\ PageAt(reader) = k + 1 /\ k + 1 \in PagesOf(f)
      /\ after = Further(f, k) /\ k \in Nat /\ NumPages(f) \in Nat
      /\ reader.loc = Offsets[f][k + 1]
  <2>1. NumPages(f) \in Nat /\ k \in Nat /\ ReaderOK
    BY <1>1, FileFacts DEF BuildInv
  <2>2. k < NumPages(f) /\ PageAt(reader) = k + 1 /\ k + 1 \in PagesOf(f) /\ after = Further(f, k)
    BY <1>1, <1>2, <2>1, InFront
  <2>3. QED
    BY <1>2, <2>1, <2>2 DEF InFrontOf
<1>4. /\ k + 1 \in 0 .. NumPages(f) /\ (k + 1) + 1 = k + 2
      /\ k + 1 \in DOMAIN Offsets[f] /\ k + 2 \in DOMAIN Offsets[f]
      /\ Offsets[f][k + 1] \in Nat /\ Offsets[f][k + 2] \in Nat
      /\ Claims[f] - (k + 1) \in Nat
  <2>1. /\ k + 1 \in 0 .. NumPages(f) /\ k \in 0 .. NumPages(f) /\ (k + 1) + 1 = k + 2
        /\ DOMAIN Offsets[f] = 1 .. NumPages(f) + 1
    BY <1>1, <1>3, FileFacts, SMTT(20) DEF NumPages
  <2>2. Offsets[f][k + 1] \in Nat /\ Offsets[f][(k + 1) + 1] \in Nat
    BY <1>1, <2>1, FileFacts
  <2>3. Claims[f] \in Nat /\ Claims[f] >= NumPages(f)
    BY <1>1, FileFacts
  <2>4. QED
    BY <1>3, <2>1, <2>2, <2>3
<1>5. /\ after \in Reader /\ after.file = f /\ after.valid /\ ~after.corrupt
      /\ after.mappings = reader.mappings
      /\ after.loc = Offsets[f][(k + 1) + 1] /\ after.entries = Claims[f] - (k + 1)
  BY <1>1, <1>3, <1>4 DEF Further, Globals, BuildInv, ReaderOK, Reader
<1>6. NewDoc = Doc(f, Offsets[f][k + 1]) /\ NewDoc \in Documents /\ NewDoc.file = f
  BY <1>1, <1>3, <1>4 DEF NewDoc, Doc, Documents
<1>7. \A i \in PagesOf(f) :
        Offsets[f][i] < Offsets[f][k + 2] <=> Offsets[f][i] < Offsets[f][k + 1] \/ i = k + 1
  <2> TAKE i \in PagesOf(f)
  <2>1. i \in DOMAIN Offsets[f] /\ Offsets[f][i] \in Nat /\ i \in Nat
    BY <1>1, FileFacts
  <2>2. i < k + 1 => Offsets[f][i] < Offsets[f][k + 1]
    BY <1>1, <1>4, <2>1, FileFacts
  <2>3. i > k + 2 => Offsets[f][k + 2] < Offsets[f][i]
    BY <1>1, <1>4, <2>1, FileFacts
  <2>4. Offsets[f][k + 1] < Offsets[f][k + 2]
    <3>1. k + 1 < k + 2
      BY <1>3
    <3>2. QED
      BY <1>1, <1>4, <3>1, FileFacts
  <2>5. i < k + 1 \/ i = k + 1 \/ i = k + 2 \/ i > k + 2
    BY <1>3, <2>1
  <2>6. QED
    BY <1>4, <2>1, <2>2, <2>3, <2>4, <2>5
<1>8. NewDoc \notin DocsBefore(f, reader.loc)
  <2>1. ASSUME NEW i \in FitPages(f), Offsets[f][i] < Offsets[f][k + 1]
        PROVE  Doc(f, Offsets[f][i]) # NewDoc
    <3>1. i \in PagesOf(f) /\ Offsets[f][i] \in Nat
      BY <1>1, FileFacts DEF FitPages
    <3>2. Offsets[f][i] # Offsets[f][k + 1]
      BY <1>4, <2>1, <3>1
    <3>3. QED
      BY <1>6, <3>2 DEF Doc
  <2>2. QED
    BY <1>3, <2>1 DEF DocsBefore
<1>9. ASSUME <<f, k + 1>> \in Unfit PROVE DocsBefore(f, after.loc) = DocsBefore(f, reader.loc)
  <2>1. \A i \in FitPages(f) :
          Offsets[f][i] < Offsets[f][k + 2] <=> Offsets[f][i] < Offsets[f][k + 1]
    BY <1>7, <1>9 DEF FitPages
  <2>2. QED
    BY <1>3, <1>4, <1>5, <2>1 DEF DocsBefore
<1>10. ASSUME <<f, k + 1>> \notin Unfit
       PROVE  /\ LeadsBack(rank, NewDoc)
              /\ DocsBefore(f, after.loc) = DocsBefore(f, reader.loc) \cup {NewDoc}
  <2>1. k + 1 \in FitPages(f)
    BY <1>3, <1>10 DEF FitPages
  <2>2. LeadsBack(rank, NewDoc)
    BY <1>1, <1>6, <2>1 DEF LeadsBack, Doc
  <2>3. {j \in FitPages(f) : Offsets[f][j] < Offsets[f][k + 2]} =
            {j \in FitPages(f) : Offsets[f][j] < Offsets[f][k + 1]} \cup {k + 1}
    BY <1>7, <2>1 DEF FitPages
  <2>4. QED
    BY <1>3, <1>4, <1>5, <1>6, <2>2, <2>3 DEF DocsBefore
<1>11. QED
  BY <1>1, <1>3, <1>4, <1>5, <1>6, <1>8, <1>9, <1>10

LEMMA SkipPageStep ==
    ASSUME BuildInv, SkipPage
    PROVE  BuildInv'
<1>1. /\ pc = "page" /\ HasNext(reader) /\ <<reader.file, PageAt(reader)>> \in Unfit
      /\ reader' = AfterPage(reader)
      /\ UNCHANGED <<selected, pc, rank, left, docs, truncated, blobs, opened, faults>>
  BY DEF SkipPage
<1>2. BuildTypes' /\ OpenedOnce' /\ DocsOK' /\ DocsLeadBack'
  BY <1>1 DEF BuildInv, BuildTypes, OpenedOnce, DocsOK, DocsLeadBack, Asked
<1>3. ReaderOK' /\ Reading'
  BY <1>1, PassPage DEF BuildInv, ReaderOK, Reading, InFrontOf, Asked
<1>4. Accounted'
  <2>1. /\ reader'.file = reader.file
        /\ DocsBefore(reader'.file, reader'.loc) = DocsBefore(reader.file, reader.loc)
    BY <1>1, PassPage
  <2>2. QED
    BY <1>1, <2>1 DEF BuildInv, Accounted, DocsOf
<1>5. QED
  BY <1>2, <1>3, <1>4 DEF BuildInv

LEMMA AddPageStep ==
    ASSUME BuildInv, AddPage
    PROVE  BuildInv'
<1> DEFINE f == reader.file
<1>1. /\ pc = "page" /\ HasNext(reader) /\ <<f, PageAt(reader)>> \notin Unfit
      /\ docs' = Append(docs, NewDoc)
      /\ UNCHANGED <<selected, rank, left, blobs, opened, faults>>
      /\ \/ reader' = AfterPage(reader) /\ UNCHANGED <<pc, truncated>>
         \/ reader' = Closed(AfterPage(reader)) /\ truncated' = truncated \cup {f} /\ pc' = "file"
  BY DEF AddPage, GiveUp
<1>2. /\ f \in Files /\ NewDoc \in Documents /\ NewDoc.file = f /\ NewDoc \notin DocsBefore(f, reader.loc)
      /\ LeadsBack(rank, NewDoc) /\ AfterPage(reader) \in Reader /\ AfterPage(reader).file = f
      /\ AfterPage(reader).valid /\ ~AfterPage(reader).corrupt
      /\ AfterPage(reader).mappings = reader.mappings
      /\ \E k \in 0 .. NumPages(f) : /\ AfterPage(reader).loc = Offsets[f][k + 1]
                                     /\ AfterPage(reader).entries = Claims[f] - k
      /\ DocsBefore(f, AfterPage(reader).loc) = DocsBefore(f, reader.loc) \cup {NewDoc}
  BY <1>1, PassPage
<1>3. /\ docs \in Seq(Documents) /\ rank \in Ranks /\ f \in opened /\ f \in FilesOf[rank] /\ Asked
      /\ reader.mappings > 0 /\ DocsOf(f) = DocsBefore(f, reader.loc)
  BY <1>1 DEF BuildInv, BuildTypes, Reading, ReaderOK, Accounted
<1>4. /\ docs' \in Seq(Documents) /\ Len(docs') = Len(docs) + 1 /\ Len(docs) \in Nat
      /\ DOMAIN docs = 1 .. Len(docs) /\ DOMAIN docs' = 1 .. Len(docs) + 1
      /\ \A k \in DOMAIN docs : docs'[k] = docs[k]
      /\ docs'[Len(docs) + 1] = NewDoc
  BY <1>1, <1>2, <1>3
<1>5. BuildTypes'
  BY <1>1, <1>2, <1>4 DEF BuildInv, BuildTypes
<1>6. ReaderOK'
  <2>1. CASE reader' = AfterPage(reader)
    BY <1>2, <1>3, <2>1 DEF ReaderOK
  <2>2. CASE reader' = Closed(AfterPage(reader))
    BY <1>2, <1>3, <2>2 DEF ReaderOK, Reader, Closed, Globals
  <2>3. QED
    BY <1>1, <2>1, <2>2
<1>7. Reading'
  BY <1>1, <1>2 DEF BuildInv, Reading, InFrontOf, Asked
<1>8. OpenedOnce' /\ DocsLeadBack'
  BY <1>1 DEF BuildInv, OpenedOnce, DocsLeadBack
<1>9. \A k \in DOMAIN docs : docs[k] # NewDoc
  <2>1. \A k \in DOMAIN docs : docs[k].file = f => docs[k] \in DocsOf(f)
    BY DEF DocsOf, Range
  <2>2. QED
    BY <1>2, <1>3, <2>1
<1>10. DocsOK'
  <2>1. \A k \in DOMAIN docs' : k \in DOMAIN docs \/ k = Len(docs) + 1
    BY <1>4
  <2>2. \A k \in DOMAIN docs' : LeadsBack(rank, docs'[k]) /\ docs'[k].file \in opened
    BY <1>2, <1>3, <1>4, <2>1 DEF BuildInv, DocsOK
  <2>3. \A k, l \in DOMAIN docs' : k # l => docs'[k] # docs'[l]
    BY <1>4, <1>9, <2>1 DEF BuildInv, DocsOK
  <2>4. QED
    BY <1>1, <1>3, <2>2, <2>3 DEF DocsOK, Asked, LeadsBack
<1>11. Accounted'
  <2>1. Range(docs') = Range(docs) \cup {NewDoc}
    BY <1>4 DEF Range
  <2>2. \A g : g = f => DocsOf(g)' = DocsBefore(f, AfterPage(reader).loc)
    BY <1>2, <1>3, <2>1 DEF DocsOf
  <2>3. \A g : g # f => DocsOf(g)' = DocsOf(g)
    BY <1>2, <2>1 DEF DocsOf
  <2>4. CASE reader' = AfterPage(reader) /\ UNCHANGED <<pc, truncated>>
    BY <1>1, <1>2, <2>2, <2>3, <2>4 DEF BuildInv, Accounted
  <2>5. CASE truncated' = truncated \cup {f} /\ pc' = "file"
    BY <1>1, <2>3, <2>5 DEF BuildInv, Accounted
  <2>6. QED
    BY <1>1, <2>4, <2>5
<1>12. QED
  BY <1>5, <1>6, <1>7, <1>8, <1>10, <1>11 DEF BuildInv

\* The end of a file: either all of its pages have been read, or it goes on the list.
LEMMA EndFileStep ==
    ASSUME BuildInv, EndFile
    PROVE  BuildInv'
<1> DEFINE f == reader.file
<1>1. /\ pc = "page" /\ ~HasNext(reader) /\ pc' = "file"
      /\ reader' = Closed(AfterNone(reader))
      /\ truncated' = IF reader'.corrupt THEN truncated \cup {f} ELSE truncated
      /\ UNCHANGED <<selected, rank, left, docs, blobs, opened, faults>>
  BY DEF EndFile
<1>2. /\ f \in Files /\ reader.valid /\ ~reader.corrupt /\ reader \in Reader
      /\ \E k \in 0 .. NumPages(f) : InFrontOf(f, k)
  BY <1>1 DEF BuildInv, Reading, ReaderOK
<1>3. PICK k \in 0 .. NumPages(f) : InFrontOf(f, k)
  BY <1>2
<1>4. /\ k = NumPages(f) /\ k \in Nat
      /\ reader.loc = Offsets[f][k + 1] /\ reader.entries = Claims[f] - k
  <2>1. NumPages(f) \in Nat /\ k \in Nat /\ ReaderOK
    BY <1>2, FileFacts DEF BuildInv
  <2>2. ~(k < NumPages(f))
    BY <1>1, <1>2, <1>3, <2>1, InFront
  <2>3. QED
    BY <1>3, <2>1, <2>2 DEF InFrontOf
<1>5. /\ reader' \in Reader /\ ~reader'.valid
      /\ reader'.corrupt <=> Claims[f] > NumPages(f)
  <2>1. reader' = Globals(f, FALSE, reader.loc, reader.entries,
                          reader.corrupt \/ (reader.valid /\ reader.entries > 0), reader.mappings)
    BY <1>1 DEF AfterNone, Closed, Globals
  <2>2. /\ reader' \in Reader /\ ~reader'.valid
        /\ reader'.corrupt <=> reader.entries > 0
    BY <1>2, <2>1 DEF Globals, Reader
  <2>3. NumPages(f) \in Nat /\ Claims[f] \in Nat
    BY <1>2, FileFacts
  <2>4. QED
    BY <1>4, <2>2, <2>3
<1>6. BuildTypes' /\ ReaderOK' /\ Reading' /\ OpenedOnce' /\ DocsOK' /\ DocsLeadBack'
  BY <1>1, <1>2, <1>5
  DEF BuildInv, BuildTypes, ReaderOK, Reading, OpenedOnce, DocsOK, DocsLeadBack, Asked
<1>7. DocsOf(f) = DocsWithin(f)
  <2>1. \A i \in PagesOf(f) : Offsets[f][i] < Offsets[f][k + 1]
    <3> TAKE i \in PagesOf(f)
    <3>1. i \in DOMAIN Offsets[f] /\ k + 1 \in DOMAIN Offsets[f] /\ i < k + 1
      BY <1>2, <1>4, PlaceFacts
    <3>2. QED
      BY <1>2, <3>1, Increasing, Zenon
  <2>2. QED
    BY <1>1, <1>4, <2>1 DEF BuildInv, Accounted, DocsBefore, DocsWithin, FitPages
<1>8. Accounted'
  BY <1>1, <1>5, <1>7 DEF BuildInv, Accounted, DocsOf
<1>9. QED
  BY <1>6, <1>8 DEF BuildInv

LEMMA BuildStep ==
    ASSUME BuildInv, Next
    PROVE  BuildInv'
<1>1. CASE SkipRank
  BY <1>1, NextRank DEF SkipRank
<1>2. CASE WriteBlob
  BY <1>2, NextRank DEF WriteBlob
<1>3. CASE WriteFails
  BY <1>3 DEF WriteFails, BuildInv, BuildTypes, ReaderOK, Reading, OpenedOnce, DocsOK, DocsLeadBack,
              Accounted, DocsOf, Asked
<1>4. QED
  BY <1>1, <1>2, <1>3, OpenStep, OpenFailsStep, SkipPageStep, AddPageStep, EndFileStep DEF Next

-----------------------------------------------------------------------------
(* The invariant of the threads *)

Inside == {"load", "seek", "read", "close"}

LookupTypes ==
    /\ at \in [Threads -> {"idle", "lock"} \cup Inside]
    /\ asked \in [Threads -> Documents \cup {NoDocument}]
    /\ got = [t \in Threads |-> got[t]]
    /\ documents \subseteq Documents

\* Who is between locking and unlocking holds the mutex, and nobody else does.
MutexInv == \A t \in Threads : at[t] \in Inside <=> holder = t

\* Before the engine starts nobody has asked; after that the build is over.
Phases ==
    /\ ~Serving => /\ ~corrupted
                   /\ \A t \in Threads : at[t] = "idle" /\ asked[t] = NoDocument /\ got[t] = Nothing
    /\ Serving => pc = "done"

\* What is not stale leads to a page.
Current(d) == \E i \in PagesOf(d.file) : Offsets[d.file][i] = d.index
DocumentsLead == \A d \in documents \ StaleDocs : Current(d)

IsOwn(t) ==
    /\ got[t] # Nothing
    /\ got[t][1] = asked[t].file
    /\ Offsets[got[t][1]][got[t][2]] = asked[t].index

\* The reader is that of the thread inside: it has the file that the thread has loaded,
\* and is where the thread has put it.
ReaderOfHolder ==
    \A t \in Threads :
        /\ at[t] # "idle" => asked[t] \in documents
        /\ at[t] \in {"seek", "read"} => /\ reader.valid /\ reader.file = asked[t].file
                                         /\ reader.entries = Claims[reader.file]
        /\ at[t] = "read" => reader.loc = asked[t].index
        /\ at[t] = "close" => IsOwn(t)

\* What is mapped is valid, until a page cannot be read; and nothing is valid when no
\* thread has loaded a file and not closed it.
MappedIsValid ==
    Serving => /\ ~corrupted => reader.mappings = IF reader.valid THEN 1 ELSE 0
               /\ (\A t \in Threads : at[t] \notin {"seek", "read", "close"}) => ~reader.valid

LookupInv ==
    /\ LookupTypes /\ MutexInv /\ Phases /\ DocumentsLead /\ ReaderOfHolder /\ MappedIsValid
    /\ OwnPage

\* The build says nothing of the reader once it is over.
LEMMA BuildOver ==
    ASSUME BuildInv, pc = "done", UNCHANGED build, ReaderOK', faults' \in Nat
    PROVE  BuildInv'
  BY DEF build, BuildInv, BuildTypes, Reading, OpenedOnce, DocsOK, DocsLeadBack, Accounted,
         DocsOf, Asked

LEMMA AskStep ==
    ASSUME BuildInv, LookupInv, NEW t \in Threads, Ask(t)
    PROVE  BuildInv' /\ LookupInv'
<1>1. PICK d \in documents : asked' = [asked EXCEPT ![t] = d]
  BY DEF Ask
<1>2. /\ at[t] = "idle" /\ at' = [at EXCEPT ![t] = "lock"] /\ got' = [got EXCEPT ![t] = Nothing]
      /\ UNCHANGED <<build, documents, reader, holder, corrupted, faults>>
      /\ Serving /\ pc = "done"
  BY <1>1 DEF Ask, Serving, LookupInv, Phases
<1>3. BuildInv'
  BY <1>2, BuildOver DEF BuildInv, BuildTypes, ReaderOK
<1>4. /\ \A s \in Threads \ {t} : at'[s] = at[s] /\ asked'[s] = asked[s] /\ got'[s] = got[s]
      /\ at'[t] = "lock" /\ asked'[t] = d
  BY <1>1, <1>2 DEF LookupInv, LookupTypes
<1>5. LookupTypes'
  BY <1>1, <1>2 DEF LookupInv, LookupTypes
<1>6. MutexInv' /\ Phases' /\ DocumentsLead'
  BY <1>2, <1>4 DEF LookupInv, MutexInv, Phases, DocumentsLead, Current, Serving, Inside, build
<1>7. ReaderOfHolder'
  BY <1>2, <1>4 DEF LookupInv, ReaderOfHolder, IsOwn
<1>8. MappedIsValid' /\ OwnPage'
  BY <1>2, <1>4 DEF LookupInv, MappedIsValid, OwnPage, Serving, Nothing
<1>9. QED
  BY <1>3, <1>5, <1>6, <1>7, <1>8 DEF LookupInv

\* What a step of a thread inside the mutex leaves alone: the others are outside.
Alone(t) ==
    /\ Serving /\ pc = "done" /\ t \in Threads
    /\ asked[t] \in documents /\ asked[t] \in Documents
    /\ \A s \in Threads \ {t} : at[s] \in {"idle", "lock"}

LEMMA AloneInside ==
    ASSUME LookupInv, NEW t \in Threads, at[t] \in Inside
    PROVE  Alone(t)
  BY DEF LookupInv, LookupTypes, MutexInv, ReaderOfHolder, Phases, Alone, Serving, Inside

\* A thread leaves the mutex, with a page or without.
LEMMA LeaveStep ==
    ASSUME BuildInv, LookupInv, NEW t \in Threads, at[t] \in Inside,
           NEW what, Return(t, what), Unlock,
           UNCHANGED <<build, documents, asked>>,
           ReaderOK', ~reader'.valid, faults' \in Nat, faults' = 0 => faults = 0,
           ~corrupted' => ~corrupted /\ reader'.mappings = 0,
           what # Nothing => IsOwn(t) /\ what = got[t],
           what = Nothing => faults' # 0 \/ asked[t] \in StaleDocs
    PROVE  BuildInv' /\ LookupInv'
<1>1. /\ at' = [at EXCEPT ![t] = "idle"] /\ got' = [got EXCEPT ![t] = what] /\ holder' = NoThread
      /\ NoThread \notin Threads
  BY SnippetReadsAssumption DEF Return, Unlock
<1>2. Alone(t)
  BY AloneInside
<1>3. BuildInv'
  BY <1>2, BuildOver DEF Alone
<1>4. /\ \A s \in Threads \ {t} : at'[s] = at[s] /\ got'[s] = got[s]
      /\ at'[t] = "idle" /\ got'[t] = what
  BY <1>1 DEF LookupInv, LookupTypes
<1>5. LookupTypes'
  BY <1>1 DEF LookupInv, LookupTypes
<1>6. MutexInv' /\ Phases' /\ DocumentsLead' /\ MappedIsValid'
  BY <1>1, <1>2, <1>4
  DEF LookupInv, MutexInv, Phases, DocumentsLead, Current, MappedIsValid, Serving, Inside, Alone, build
<1>7. ReaderOfHolder'
  BY <1>2, <1>4 DEF LookupInv, ReaderOfHolder, Alone
<1>8. OwnPage'
  BY <1>2, <1>4 DEF LookupInv, OwnPage, IsOwn, Alone
<1>9. QED
  BY <1>3, <1>5, <1>6, <1>7, <1>8 DEF LookupInv

\* A thread goes on inside the mutex.
LEMMA GoOn ==
    ASSUME BuildInv, LookupInv, NEW t \in Threads, at[t] \in Inside,
           NEW label \in {"seek", "read", "close"}, at' = [at EXCEPT ![t] = label],
           NEW what, got' = [got EXCEPT ![t] = what],
           UNCHANGED <<build, documents, asked, holder, corrupted, faults>>,
           ReaderOK', reader'.valid, ~corrupted => reader'.mappings = 1,
           label \in {"seek", "read"} =>
               reader'.file = asked[t].file /\ reader'.entries = Claims[reader'.file],
           label = "read" => reader'.loc = asked[t].index,
           label = "close" => /\ what # Nothing /\ what[1] = asked[t].file
                              /\ Offsets[what[1]][what[2]] = asked[t].index
    PROVE  BuildInv' /\ LookupInv'
<1>1. Alone(t)
  BY AloneInside
<1>2. BuildInv'
  BY <1>1, BuildOver DEF Alone, BuildInv, BuildTypes
<1>3. /\ \A s \in Threads \ {t} : at'[s] = at[s] /\ got'[s] = got[s]
      /\ at'[t] = label /\ got'[t] = what
  BY DEF LookupInv, LookupTypes
<1>4. LookupTypes'
  BY DEF LookupInv, LookupTypes, Inside
<1>5. MutexInv' /\ Phases' /\ DocumentsLead' /\ MappedIsValid'
  BY <1>1, <1>3
  DEF LookupInv, MutexInv, Phases, DocumentsLead, Current, MappedIsValid, Serving, Inside, Alone, build
<1>6. ReaderOfHolder'
  BY <1>1, <1>3 DEF LookupInv, ReaderOfHolder, Alone, IsOwn
<1>7. OwnPage'
  BY <1>1, <1>3 DEF LookupInv, OwnPage, Alone
<1>8. QED
  BY <1>2, <1>4, <1>5, <1>6, <1>7 DEF LookupInv

LEMMA LockStep ==
    ASSUME BuildInv, LookupInv, NEW t \in Threads, Lock(t)
    PROVE  BuildInv' /\ LookupInv'
<1>1. /\ at[t] = "lock" /\ holder = NoThread /\ holder' = t /\ at' = [at EXCEPT ![t] = "load"]
      /\ UNCHANGED <<build, documents, reader, asked, got, corrupted, faults>>
      /\ NoThread \notin Threads
  BY SnippetReadsAssumption DEF Lock
<1>2. /\ \A s \in Threads \ {t} : at'[s] = at[s] /\ at[s] \notin Inside
      /\ at'[t] = "load" /\ Serving /\ pc = "done" /\ asked[t] \in documents
  BY <1>1 DEF LookupInv, LookupTypes, MutexInv, ReaderOfHolder, Serving, Phases
<1>3. BuildInv'
  BY <1>1, <1>2, BuildOver DEF BuildInv, BuildTypes, ReaderOK
<1>4. LookupTypes' /\ MutexInv' /\ Phases' /\ DocumentsLead'
  BY <1>1, <1>2
  DEF LookupInv, LookupTypes, MutexInv, Phases, DocumentsLead, Current, Serving, Inside, build
<1>5. ReaderOfHolder' /\ MappedIsValid' /\ OwnPage'
  BY <1>1, <1>2 DEF LookupInv, ReaderOfHolder, IsOwn, MappedIsValid, OwnPage, Serving, Inside
<1>6. QED
  BY <1>3, <1>4, <1>5 DEF LookupInv

\* Before a thread loads a file nothing is valid, and nothing mapped.
LEMMA LoadStep ==
    ASSUME BuildInv, LookupInv, NEW t \in Threads, Load(t) \/ LoadFails(t)
    PROVE  BuildInv' /\ LookupInv'
<1>1. at[t] = "load" /\ at[t] \in Inside
  BY DEF Load, LoadFails, Inside
<1>2. Alone(t)
  BY <1>1, AloneInside
<1>3. /\ ~reader.valid /\ (~corrupted => reader.mappings = 0) /\ reader \in Reader
      /\ asked[t].file \in Files
  BY <1>1, <1>2 DEF LookupInv, MappedIsValid, Alone, BuildInv, ReaderOK, Documents
<1>4. Closed(reader) = reader
  BY <1>3 DEF Closed
<1>5. CASE Load(t)
  <2>1. /\ reader' = Loaded(reader, asked[t].file) /\ at' = [at EXCEPT ![t] = "seek"]
        /\ UNCHANGED <<build, documents, holder, asked, got, corrupted, faults>>
    BY <1>5 DEF Load
  <2>2. ReaderOK' /\ reader'.valid /\ (~corrupted => reader'.mappings = 1)
    BY <1>3, <1>4, <2>1, ReaderFacts DEF BuildInv, ReaderOK, Loaded, Globals
  <2>3. reader'.file = asked[t].file /\ reader'.entries = Claims[reader'.file]
    BY <2>1 DEF Loaded, Globals
  <2>4. got' = [got EXCEPT ![t] = got[t]]
    BY <2>1 DEF LookupInv, LookupTypes
  <2>5. QED
    BY <1>1, <2>1, <2>2, <2>3, <2>4, GoOn
<1>6. CASE LoadFails(t)
  <2>1. /\ faults' = faults + 1 /\ reader' = reader /\ Return(t, Nothing) /\ Unlock
        /\ UNCHANGED <<build, documents, asked, corrupted>>
    BY <1>4, <1>6 DEF LoadFails
  <2>2. faults' \in Nat /\ faults' # 0
    BY <2>1 DEF BuildInv, BuildTypes
  <2>3. ReaderOK' /\ ~reader'.valid /\ (~corrupted' => ~corrupted /\ reader'.mappings = 0)
    BY <1>3, <2>1 DEF ReaderOK
  <2>4. QED
    BY <1>1, <2>1, <2>2, <2>3, LeaveStep
<1>7. QED
  BY <1>5, <1>6

\* The reader of a thread that has loaded its file, and what closing it leaves.
LEMMA LoadedReader ==
    ASSUME BuildInv, LookupInv, NEW t \in Threads, at[t] \in {"seek", "read", "close"}
    PROVE  /\ Closed(reader) \in Reader /\ ~Closed(reader).valid
           /\ ~corrupted => Closed(reader).mappings = 0 /\ (reader.valid => reader.mappings = 1)
           /\ Alone(t) /\ at[t] \in Inside /\ asked[t].file \in Files /\ asked[t].index \in Nat
           /\ at[t] # "close" => asked[t].file = reader.file /\ reader.valid
           /\ reader \in Reader /\ faults \in Nat
<1>1. at[t] \in Inside
  BY DEF Inside
<1>2. Alone(t)
  BY <1>1, AloneInside
<1>3. /\ reader \in Reader /\ faults \in Nat
      /\ ~corrupted => reader.mappings = IF reader.valid THEN 1 ELSE 0
  BY <1>2 DEF Alone, LookupInv, MappedIsValid, BuildInv, ReaderOK, BuildTypes
<1>4. Closed(reader) \in Reader /\ ~Closed(reader).valid
  BY ReaderFacts DEF BuildInv
<1>5. ~corrupted => Closed(reader).mappings = 0
  BY <1>3 DEF Closed, Globals
<1>6. QED
  BY <1>1, <1>2, <1>3, <1>4, <1>5 DEF Alone, Documents, LookupInv, ReaderOfHolder

LEMMA SeekStep ==
    ASSUME BuildInv, LookupInv, NEW t \in Threads, Seek(t)
    PROVE  BuildInv' /\ LookupInv'
<1> DEFINE f == reader.file
<1>1. at[t] = "seek" /\ UNCHANGED <<build, documents, asked, corrupted, faults>>
  BY DEF Seek
<1>2. /\ Closed(reader) \in Reader /\ ~Closed(reader).valid /\ reader \in Reader
      /\ ~corrupted => Closed(reader).mappings = 0 /\ reader.mappings = 1
      /\ Alone(t) /\ at[t] \in Inside /\ f \in Files /\ f = asked[t].file /\ reader.valid
      /\ asked[t].index \in Nat /\ faults \in Nat
  BY <1>1, LoadedReader
<1>3. CASE asked[t].index >= FileSize(f)
  <2>1. reader' = Closed(reader) /\ Return(t, Nothing) /\ Unlock
    BY <1>3 DEF Seek
  <2>2. asked[t] \in StaleDocs
    <3> SUFFICES ASSUME asked[t] \notin StaleDocs PROVE FALSE
      OBVIOUS
    <3>1. PICK i \in PagesOf(f) : Offsets[f][i] = asked[t].index
      BY <1>2 DEF Alone, LookupInv, DocumentsLead, Current
    <3>2. Offsets[f][i] < FileSize(f) /\ Offsets[f][i] \in Nat /\ FileSize(f) \in Nat
      BY <1>2, <3>1, WithinFile
    <3>3. QED
      BY <1>3, <3>1, <3>2
  <2>3. ReaderOK' /\ ~reader'.valid
    BY <1>2, <2>1 DEF ReaderOK
  <2>4. QED
    BY <1>1, <1>2, <2>1, <2>2, <2>3, LeaveStep
<1>4. CASE ~(asked[t].index >= FileSize(f))
  <2>1. /\ reader' = Sought(reader, asked[t].index) /\ at' = [at EXCEPT ![t] = "read"]
        /\ UNCHANGED <<got, holder>>
    BY <1>4 DEF Seek
  <2>2. /\ reader' \in Reader /\ reader'.valid /\ reader'.file = f
        /\ reader'.loc = asked[t].index /\ reader'.entries = reader.entries
        /\ reader'.mappings = reader.mappings
    BY <1>2, <2>1 DEF Sought, Reader
  <2>3. ReaderOK' /\ reader.entries = Claims[f]
    BY <1>1, <1>2, <2>2 DEF ReaderOK, BuildInv, LookupInv, ReaderOfHolder
  <2>4. got' = [got EXCEPT ![t] = got[t]]
    BY <2>1 DEF LookupInv, LookupTypes
  <2>5. /\ reader'.file = asked[t].file /\ reader'.entries = Claims[reader'.file]
        /\ ~corrupted => reader'.mappings = 1
    BY <1>2, <2>2, <2>3
  <2>6. UNCHANGED <<build, documents, asked, holder, corrupted, faults>>
    BY <1>1, <2>1
  <2>7. QED
    BY <1>2, <2>1, <2>2, <2>3, <2>4, <2>5, <2>6, GoOn
<1>5. QED
  BY <1>3, <1>4

\* With the location at a page the thread reads that page; only from a document that
\* is stale can there be none.
LEMMA ReadStep ==
    ASSUME BuildInv, LookupInv, NEW t \in Threads, ReadPage(t) \/ ReadFails(t)
    PROVE  BuildInv' /\ LookupInv'
<1> DEFINE f == reader.file
<1>1. at[t] = "read" /\ UNCHANGED <<build, documents, asked, faults>>
  BY DEF ReadPage, ReadFails
<1>2. /\ Alone(t) /\ at[t] \in Inside /\ f \in Files /\ f = asked[t].file /\ reader.valid
      /\ (~corrupted => reader.mappings = 1)
      /\ reader \in Reader /\ asked[t].index \in Nat /\ faults \in Nat
  BY <1>1, LoadedReader
<1>3. reader.loc = asked[t].index /\ reader.entries = Claims[f]
  BY <1>1 DEF LookupInv, ReaderOfHolder
<1>4. CASE ReadPage(t)
  <2> DEFINE i == PageAt(reader)
             what == <<f, i>>
  <2>1. /\ HasNext(reader) /\ reader' = AfterPage(reader) /\ at' = [at EXCEPT ![t] = "close"]
        /\ got' = [got EXCEPT ![t] = what] /\ UNCHANGED <<holder, corrupted>>
    BY <1>4 DEF ReadPage
  <2>2. i \in PagesOf(f) /\ Offsets[f][i] = asked[t].index /\ reader.entries > 0
    BY <1>3, <2>1 DEF HasNext, PageAt, PagesAt
  <2>3. PageSize(f, i) \in Nat
    BY <1>2, <2>2, FileFacts
  <2>4. /\ reader' \in Reader /\ reader'.valid /\ reader'.file = f
        /\ reader'.mappings = reader.mappings
    BY <1>2, <2>1, <2>2, <2>3 DEF AfterPage, Globals, Reader
  <2>5. ReaderOK'
    BY <1>2, <2>4 DEF ReaderOK, BuildInv
  <2>6. what # Nothing /\ what[1] = asked[t].file /\ Offsets[what[1]][what[2]] = asked[t].index
    BY <1>2, <2>2 DEF Nothing
  <2>7. QED
    BY <1>1, <1>2, <2>1, <2>4, <2>5, <2>6, GoOn
<1>5. CASE ReadFails(t)
  <2>1. /\ ~HasNext(reader) /\ reader' = AfterNone(reader) /\ corrupted' = TRUE
        /\ Return(t, Nothing) /\ Unlock
    BY <1>5 DEF ReadFails
  <2>2. reader' \in Reader /\ ~reader'.valid
    BY <1>2, <2>1 DEF AfterNone, Globals, Reader
  <2>3. asked[t] \in StaleDocs
    <3> SUFFICES ASSUME asked[t] \notin StaleDocs PROVE FALSE
      OBVIOUS
    <3>1. PICK i \in PagesOf(f) : Offsets[f][i] = asked[t].index
      BY <1>2 DEF Alone, LookupInv, DocumentsLead, Current
    <3>2. reader.entries > 0
      BY <1>2, <1>3, <3>1, FileFacts DEF PagesOf
    <3>3. QED
      BY <1>2, <1>3, <2>1, <3>1, <3>2 DEF HasNext, PagesAt
  <2>4. ReaderOK'
    BY <2>2 DEF ReaderOK
  <2>5. QED
    BY <1>1, <1>2, <2>1, <2>2, <2>3, <2>4, LeaveStep
<1>6. QED
  BY <1>4, <1>5

LEMMA CloseStep ==
    ASSUME BuildInv, LookupInv, NEW t \in Threads, Close(t)
    PROVE  BuildInv' /\ LookupInv'
<1>1. /\ at[t] = "close" /\ reader' = Closed(reader) /\ Return(t, got[t]) /\ Unlock
      /\ UNCHANGED <<build, documents, asked, corrupted, faults>>
  BY DEF Close
<1>2. /\ Closed(reader) \in Reader /\ ~Closed(reader).valid /\ at[t] \in Inside
      /\ ~corrupted => Closed(reader).mappings = 0
      /\ faults \in Nat
  BY <1>1, LoadedReader
<1>3. IsOwn(t) /\ got[t] # Nothing
  BY <1>1 DEF LookupInv, ReaderOfHolder, IsOwn
<1>4. ReaderOK' /\ ~reader'.valid
  BY <1>1, <1>2 DEF ReaderOK
<1>5. QED
  BY <1>1, <1>2, <1>3, <1>4, LeaveStep

LEMMA InBlob ==
    ASSUME NEW d \in BlobDocuments
    PROVE  \E r \in Ranks : d \in Range(blobs[r])
BY DEF BlobDocuments

LEMMA ServedDocuments ==
    ASSUME Serve
    PROVE  \A d \in documents' \ StaleDocs : \E r \in Ranks : d \in Range(blobs[r])
<1>1. documents' = BlobDocuments \cup StaleDocs
  BY DEF Serve
<1>2. \A d \in BlobDocuments : \E r \in Ranks : d \in Range(blobs[r])
  BY InBlob
<1>3. QED
  BY <1>1, <1>2

\* The engine starts: its documents are those of the blobs, and older ones.
LEMMA ServeStep ==
    ASSUME BuildInv, LookupInv, Serve
    PROVE  BuildInv' /\ LookupInv'
<1>0. \A d \in documents' \ StaleDocs : \E r \in Ranks : d \in Range(blobs[r])
  BY ServedDocuments
<1>1. /\ ~Serving
      /\ reader' = NewReader /\ faults' = 0 /\ selected' = {} /\ opened' = {} /\ docs' = <<>>
      /\ truncated' = {} /\ rank' = 0 /\ left' = {} /\ pc' = "done"
      /\ blobs' = [r \in Ranks |-> <<>>]
      /\ UNCHANGED <<holder, at, asked, got, corrupted>>
  BY DEF Serve
<1>2. ReaderOK' /\ ~reader'.valid /\ reader'.mappings = 0
  BY <1>1, ReaderFacts DEF BuildInv, ReaderOK, NewReader, Globals
<1>3. BuildTypes'
  BY <1>1, RankFacts, BuildIndexAssumption DEF BuildTypes
<1>4. BuildInv'
  BY <1>1, <1>2, <1>3 DEF BuildInv, Reading, OpenedOnce, DocsOK, DocsLeadBack, Accounted
<1>5. /\ \A t \in Threads : at[t] = "idle" /\ asked[t] = NoDocument /\ got[t] = Nothing
      /\ ~corrupted
  BY <1>1 DEF LookupInv, Phases
<1>6. \A d \in documents' \ StaleDocs : d \in Documents /\ Current(d)
  <2> SUFFICES ASSUME NEW d \in documents' \ StaleDocs PROVE d \in Documents /\ Current(d)
    OBVIOUS
  <2>0. PICK r \in Ranks : d \in Range(blobs[r])
    BY <1>0
  <2>1. PICK k \in DOMAIN blobs[r] : d = blobs[r][k]
    BY <2>0 DEF Range
  <2>2. blobs[r] \in Seq(Documents)
    BY DEF BuildInv, BuildTypes
  <2>3. d \in Documents
    BY <2>1, <2>2
  <2>4. \E i \in FitPages(d.file) : Offsets[d.file][i] = d.index
    BY <2>1 DEF BuildInv, DocsLeadBack
  <2>5. QED
    BY <2>3, <2>4 DEF FitPages, Current
<1>7. StaleDocs \subseteq Documents /\ NoDocument \notin Documents
  BY SnippetReadsAssumption DEF Documents
<1>8. LookupTypes'
  BY <1>1, <1>6, <1>7 DEF LookupInv, LookupTypes
<1>9. MutexInv' /\ Phases' /\ DocumentsLead' /\ ReaderOfHolder' /\ MappedIsValid'
  BY <1>1, <1>2, <1>5, <1>6
  DEF LookupInv, MutexInv, Phases, DocumentsLead, Current, ReaderOfHolder, MappedIsValid
<1>10. OwnPage'
  BY <1>1, <1>5, <1>7, <1>8 DEF OwnPage, LookupTypes
<1>11. QED
  BY <1>4, <1>8, <1>9, <1>10 DEF LookupInv

-----------------------------------------------------------------------------
(* Theorems *)

LEMMA InitBoth == LookupInit => BuildInv /\ LookupInv
<1> SUFFICES ASSUME LookupInit PROVE BuildInv /\ LookupInv
  OBVIOUS
<1>1. ReaderOK /\ NewReader = reader
  BY DEF LookupInit, Init, ReaderOK, NewReader, Globals, Reader
<1>2. BuildTypes
  BY RankFacts, BuildIndexAssumption DEF LookupInit, Init, BuildTypes
<1>3. BuildInv
  BY <1>1, <1>2 DEF BuildInv, LookupInit, Init, Reading, OpenedOnce, DocsOK, DocsLeadBack, Accounted
<1>4. LookupInv
  BY SnippetReadsAssumption
  DEF LookupInit, LookupInv, LookupTypes, MutexInv, Inside, Phases, Serving, DocumentsLead,
      ReaderOfHolder, MappedIsValid, OwnPage
<1>5. QED
  BY <1>3, <1>4

LEMMA StepBoth == BuildInv /\ LookupInv /\ [LookupNext]_allVars => BuildInv' /\ LookupInv'
<1> SUFFICES ASSUME BuildInv, LookupInv, [LookupNext]_allVars PROVE BuildInv' /\ LookupInv'
  OBVIOUS
<1>1. CASE ~Serving /\ Next /\ UNCHANGED lookup
  <2>1. BuildInv'
    BY <1>1, BuildStep
  <2>2. LookupInv'
    BY <1>1 DEF lookup, LookupInv, LookupTypes, MutexInv, Phases, Serving, DocumentsLead, Current,
                ReaderOfHolder, IsOwn, MappedIsValid, OwnPage
  <2>3. QED
    BY <2>1, <2>2
<1>2. CASE Serve
  BY <1>2, ServeStep
<1>3. ASSUME NEW t \in Threads, Ask(t) \/ Step(t) PROVE BuildInv' /\ LookupInv'
  BY <1>3, AskStep, LockStep, LoadStep, SeekStep, ReadStep, CloseStep DEF Step
<1>4. CASE UNCHANGED allVars
  <2>1. UNCHANGED <<vars, lookup>>
    BY <1>4 DEF allVars
  <2>2. BuildInv'
    BY <2>1 DEF vars, BuildInv, BuildTypes, ReaderOK, Reading, InFrontOf, OpenedOnce, DocsOK,
                DocsLeadBack, Accounted, DocsOf, Asked
  <2>3. LookupInv'
    BY <2>1 DEF vars, lookup, LookupInv, LookupTypes, MutexInv, Phases, Serving, DocumentsLead,
                Current, ReaderOfHolder, IsOwn, MappedIsValid, OwnPage
  <2>4. QED
    BY <2>2, <2>3
<1>5. QED
  BY <1>1, <1>2, <1>3, <1>4 DEF LookupNext

LEMMA Always == LookupSpec => [](BuildInv /\ LookupInv)
  BY InitBoth, StepBoth, PTL DEF LookupSpec, allVars

\* Every document of a blob leads back to a page of its rank that is fit to be indexed,
\* no two to one, and only ranks that were asked for have one: for any files, torn,
\* empty or whole, whichever do not open, are given up or have unfit pages.
THEOREM DocumentsLeadBack == LookupSpec => []DocsLeadBack
<1>1. BuildInv /\ LookupInv => DocsLeadBack
  BY DEF BuildInv
<1>2. QED
  BY <1>1, Always, PTL

\* All fit pages of a file that was opened and left are in the index, or the file is on
\* the list of truncated ones; a torn file always is.
THEOREM OmissionsOnRecord == LookupSpec => []OmissionsReported
<1>1. ASSUME BuildInv PROVE OmissionsReported
  <2> SUFFICES ASSUME pc = "file", rank # NumRanks, NEW f \in FilesOf[rank], f \in opened, f \notin left
               PROVE  /\ Cardinality(DocsOf(f)) = Cardinality(FitPages(f)) \/ f \in truncated
                      /\ Claims[f] > NumPages(f) => f \in truncated
    BY DEF OmissionsReported
  <2>1. /\ DocsOf(f) = DocsWithin(f) \/ f \in truncated
        /\ Claims[f] > NumPages(f) => f \in truncated
    BY <1>1 DEF BuildInv, Accounted
  <2>2. f \in Files
    BY <1>1, RankFacts DEF BuildInv, BuildTypes
  <2>3. Cardinality(DocsWithin(f)) = Cardinality(FitPages(f))
    <3> DEFINE b == [i \in FitPages(f) |-> Doc(f, Offsets[f][i])]
    <3>1. IsFiniteSet(FitPages(f))
      <4>1. IsFiniteSet(PagesOf(f)) /\ FitPages(f) \subseteq PagesOf(f)
        <5>1. 1 \in Int /\ NumPages(f) \in Int
          BY <2>2, FileFacts
        <5>2. QED
          BY <5>1, FS_Interval DEF PagesOf, FitPages
      <4>2. QED
        BY <4>1, FS_Subset
    <3>2. \A i, j \in FitPages(f) : b[i] = b[j] => i = j
      <4> SUFFICES ASSUME NEW i \in FitPages(f), NEW j \in FitPages(f), b[i] = b[j] PROVE i = j
        OBVIOUS
      <4>1. Offsets[f][i] = Offsets[f][j]
        BY DEF Doc
      <4>2. QED
        BY <2>2, <4>1, OneOffset, FileFacts DEF FitPages
    <3>3. b \in Surjection(FitPages(f), DocsWithin(f)) /\ b \in Injection(FitPages(f), DocsWithin(f))
      BY <3>2 DEF Surjection, Injection, IsInjective, DocsWithin
    <3>4. QED
      BY <3>1, <3>3, FS_Surjection
  <2>4. QED
    BY <2>1, <2>3
<1>2. QED
  BY <1>1, Always, PTL

\* A thread that comes back with a page has the page its document was made from,
\* whatever other threads load meanwhile; and while every file can be loaded it does
\* come back with one, but for documents of older blobs.
THEOREM OwnPageAlways == LookupSpec => []OwnPage
<1>1. BuildInv /\ LookupInv => OwnPage
  BY DEF LookupInv
<1>2. QED
  BY <1>1, Always, PTL

\* As long as every page that was looked for could be read, nothing is mapped while no
\* thread holds the mutex.
THEOREM NothingLeftBehind == LookupSpec => []NothingLeftMapped
<1>1. ASSUME LookupInv PROVE NothingLeftMapped
  <2> SUFFICES ASSUME Serving, holder = NoThread, ~corrupted PROVE reader.mappings = 0
    BY DEF NothingLeftMapped
  <2>1. \A t \in Threads : at[t] \notin Inside
    BY <1>1, SnippetReadsAssumption DEF LookupInv, MutexInv
  <2>2. QED
    BY <1>1, <2>1 DEF LookupInv, MappedIsValid, Inside
<1>2. QED
  BY <1>1, Always, PTL
=============================================================================
