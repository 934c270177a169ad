--------------------------- MODULE CrawlerProofs ---------------------------
(***************************************************************************)
(* Theorems about the page files of a crawling machine, for any number of  *)
(* workers, pages, ranks, failures and restarts.                           *)
(***************************************************************************)
EXTENDS Crawler, SequenceTheorems, FiniteSetTheorems, TLAPS

\* A page that is counted or about to be written is a page.
HeldOK == \A t \in Threads : pc[t] \in {"crawl", "store", "full"} => held[t] \in Pages

\* The main thread writes files of ranks only.
RestOK == main = "write" => rest \in Ranks

\* Vectors do not outlive the process.
MemoryOK == ~Running => \A r \in Ranks : buffer[r] = <<>>

\* The files of rank r are those numbered from 0 to m - 1.
NumberedTo(r, m) == DOMAIN disk[r] = 0 .. m - 1

NumbersOK ==
    \A r \in Ranks : IF Running THEN NumberedTo(r, numWritten[r])
                     ELSE \E m \in Nat : NumberedTo(r, m)

\* There are only so many files.
FilesFinite == \A r \in Ranks : IsFiniteSet(DOMAIN disk[r])

Typed == TypeOK /\ HeldOK /\ RestOK /\ MemoryOK /\ FilesFinite

-----------------------------------------------------------------------------
(* Writing a file. *)

LEMMA RankFacts == Ranks \subseteq Nat /\ 0 \in Ranks
BY CrawlerAssumption DEF Ranks

LEMMA PrefixTyping ==
    ASSUME NEW S, NEW s \in Seq(S), NEW k \in 0 .. Len(s)
    PROVE  SubSeq(s, 1, k) \in Seq(S) /\ Range(SubSeq(s, 1, k)) \subseteq Range(s)
<1>1. Len(s) \in Nat /\ DOMAIN s = 1 .. Len(s) /\ \A i \in 1 .. k : s[i] \in S
  BY LenProperties
<1>2. /\ SubSeq(s, 1, k) \in Seq(S)
      /\ Len(SubSeq(s, 1, k)) = k
      /\ \A i \in 1 .. k : SubSeq(s, 1, k)[i] = s[i]
  BY <1>1, SMT
<1>3. DOMAIN SubSeq(s, 1, k) = 1 .. k
  BY <1>2, LenProperties
<1>4. QED
  BY <1>1, <1>2, <1>3 DEF Range

\* A file put on disk is of type, and no other file changes.
LEMMA PutTyping ==
    ASSUME TypeOK, NEW r \in Ranks, NEW f \in [pages : Seq(Pages), claims : Nat], PutFile(r, f)
    PROVE  /\ DOMAIN disk' = Ranks
           /\ \A q \in Ranks : \A n \in DOMAIN disk'[q] :
                 disk'[q][n] \in [pages : Seq(Pages), claims : Nat]
           /\ DOMAIN disk'[r] = DOMAIN disk[r] \cup {numWritten[r]}
           /\ disk'[r][numWritten[r]] = f
           /\ \A n \in DOMAIN disk[r] \ {numWritten[r]} : disk'[r][n] = disk[r][n]
           /\ \A q \in Ranks \ {r} : disk'[q] = disk[q]
           /\ FilesFinite => FilesFinite'
<1>1. /\ DOMAIN disk' = Ranks
      /\ DOMAIN disk'[r] = DOMAIN disk[r] \cup {numWritten[r]}
      /\ \A q \in Ranks \ {r} : disk'[q] = disk[q]
      /\ disk'[r][numWritten[r]] = f
      /\ \A n \in DOMAIN disk[r] \ {numWritten[r]} : disk'[r][n] = disk[r][n]
  BY DEF TypeOK, PutFile, WithFile
<1>2. \A q \in Ranks : \A n \in DOMAIN disk'[q] :
         disk'[q][n] \in [pages : Seq(Pages), claims : Nat]
  BY <1>1 DEF TypeOK
<1>3. FilesFinite => FilesFinite'
  <2> SUFFICES ASSUME FilesFinite, NEW q \in Ranks PROVE IsFiniteSet(DOMAIN disk'[q])
    BY <1>1 DEF FilesFinite
  <2>1. IsFiniteSet(DOMAIN disk[q]) /\ IsFiniteSet(DOMAIN disk[q] \cup {numWritten[r]})
    BY FS_AddElement DEF FilesFinite
  <2>2. QED
    BY <1>1, <2>1
<1>4. QED
  BY <1>1, <1>2, <1>3

\* The files a write may leave are of type.
LEMMA FileTyping ==
    ASSUME TypeOK, NEW r \in Ranks
    PROVE  /\ WholeFile(r) \in [pages : Seq(Pages), claims : Nat]
           /\ WholeFile(r).pages = buffer[r]
           /\ \A k \in 0 .. Len(buffer[r]) :
                 /\ TornFile(r, k) \in [pages : Seq(Pages), claims : Nat]
                 /\ TornFile(r, k).pages = SubSeq(buffer[r], 1, k)
<1>1. buffer[r] \in Seq(Pages) /\ Len(buffer[r]) \in Nat
  BY LenProperties DEF TypeOK
<1>2. \A k \in 0 .. Len(buffer[r]) : SubSeq(buffer[r], 1, k) \in Seq(Pages)
  BY <1>1, PrefixTyping
<1>3. QED
  BY <1>1, <1>2 DEF WholeFile, TornFile, File

\* No open fails in this step: because none can, or because no call ever failed.
OpensSucceed == "open" \notin Faults \/ faults'.ever = 0

\* What write_page_file does to the state.
LEMMA WriteEffect ==
    ASSUME TypeOK, NEW r \in Ranks, WritePageFile(r), OpensSucceed
    PROVE  \E f \in [pages : Seq(Pages), claims : Nat] :
              /\ PutFile(r, f)
              /\ \/ buffer' = [buffer EXCEPT ![r] = <<>>] /\ f.pages = buffer[r]
                 \/ buffer' = buffer
<1>1. CASE WriteSucceeds(r)
  BY <1>1, FileTyping DEF WriteSucceeds
<1>2. CASE WriteFails(r)
  BY <1>2, FileTyping DEF WriteFails, Fails, OpensSucceed, TypeOK
<1>3. QED
  BY <1>1, <1>2 DEF WritePageFile

LEMMA WriteTyping ==
    ASSUME TypeOK, NEW r \in Ranks, WritePageFile(r)
    PROVE  /\ buffer' \in [Ranks -> Seq(Pages)]
           /\ numWritten' \in [Ranks -> Nat]
           /\ numWritten' = [numWritten EXCEPT ![r] = @ + 1]
           /\ DOMAIN disk' = Ranks
           /\ \A q \in Ranks : \A n \in DOMAIN disk'[q] :
                 disk'[q][n] \in [pages : Seq(Pages), claims : Nat]
           /\ faults' \in [now : Nat, ever : 0 .. MaxFaults]
           /\ FilesFinite => FilesFinite'
<1>1. <<>> \in Seq(Pages)
  OBVIOUS
<1>2. numWritten' = [numWritten EXCEPT ![r] = @ + 1] /\ numWritten' \in [Ranks -> Nat]
  BY DEF WritePageFile, WriteSucceeds, WriteFails, TakeNumber, TypeOK
<1>3. CASE WriteSucceeds(r)
  <2>1. buffer' \in [Ranks -> Seq(Pages)] /\ faults' \in [now : Nat, ever : 0 .. MaxFaults]
    BY <1>1, <1>3 DEF WriteSucceeds, TypeOK
  <2>2. PutFile(r, WholeFile(r))
    BY <1>3 DEF WriteSucceeds
  <2>3. QED
    BY <1>2, <2>1, <2>2, FileTyping, PutTyping
<1>4. CASE WriteFails(r)
  <2>1. buffer' \in [Ranks -> Seq(Pages)]
    BY <1>4 DEF WriteFails, TypeOK
  <2>2. faults' \in [now : Nat, ever : 0 .. MaxFaults]
    BY <1>4, CrawlerAssumption DEF WriteFails, Fails, TypeOK
  <2>3. CASE disk' = disk
    BY <1>2, <2>1, <2>2, <2>3 DEF TypeOK, FilesFinite
  <2>4. CASE \E k \in 0 .. Len(buffer[r]) : PutFile(r, TornFile(r, k))
    BY <1>2, <2>1, <2>2, <2>4, FileTyping, PutTyping
  <2>5. QED
    BY <1>4, <2>3, <2>4 DEF WriteFails
<1>5. QED
  BY <1>3, <1>4 DEF WritePageFile

-----------------------------------------------------------------------------
(* Type correctness. *)

LEMMA InitTyped == Init => Typed
<1> SUFFICES ASSUME Init PROVE Typed
  OBVIOUS
<1>1. buffer \in [Ranks -> Seq(Pages)] /\ numWritten \in [Ranks -> Nat]
  BY DEF Init
<1>2. DOMAIN disk = Ranks /\ \A r \in Ranks : DOMAIN disk[r] = {}
  BY DEF Init
<1>3. rest \in 0 .. NumRanks /\ faults \in [now : Nat, ever : 0 .. MaxFaults] /\ crashes \in 0 .. MaxCrashes
  BY CrawlerAssumption DEF Init
<1>4. TypeOK
  BY <1>1, <1>2, <1>3 DEF Init, TypeOK
<1>5. HeldOK /\ RestOK /\ MemoryOK
  BY DEF Init, HeldOK, RestOK, MemoryOK, Running
<1>6. FilesFinite
  BY <1>2, FS_EmptySet DEF FilesFinite
<1>7. QED
  BY <1>4, <1>5, <1>6 DEF Typed

LEMMA WorkTyped ==
    ASSUME Typed, NEW t \in Threads, Work(t) PROVE Typed'
<1> USE DEF At, Go, threads, command, files
<1>1. CASE CheckStop(t)
  BY <1>1 DEF Typed, TypeOK, HeldOK, RestOK, MemoryOK, FilesFinite, Running, CheckStop
<1>2. CASE GetUrl(t)
  BY <1>2 DEF Typed, TypeOK, HeldOK, RestOK, MemoryOK, FilesFinite, Running, GetUrl
<1>3. CASE DropPage(t)
  BY <1>3 DEF Typed, TypeOK, HeldOK, RestOK, MemoryOK, FilesFinite, Running, DropPage
<1>4. CASE CountPage(t)
  BY <1>4 DEF Typed, TypeOK, HeldOK, RestOK, MemoryOK, FilesFinite, Running, CountPage
<1>5. CASE StorePage(t)
  <2>1. held[t] \in Pages /\ RankHeld(t) \in Ranks
    BY <1>5, CrawlerAssumption DEF StorePage, Typed, HeldOK, RankHeld, Ranks
  <2>2. buffer' \in [Ranks -> Seq(Pages)]
    BY <1>5, <2>1, AppendProperties DEF StorePage, Typed, TypeOK
  <2>3. TypeOK'
    BY <1>5, <2>1, <2>2 DEF StorePage, Typed, TypeOK
  <2>4. HeldOK' /\ RestOK' /\ MemoryOK' /\ FilesFinite'
    BY <1>5 DEF StorePage, Typed, TypeOK, HeldOK, RestOK, MemoryOK, FilesFinite, Running
  <2>5. QED
    BY <2>3, <2>4 DEF Typed
<1>6. CASE FlushFull(t)
  <2>1. RankHeld(t) \in Ranks
    BY <1>6, CrawlerAssumption DEF FlushFull, Typed, HeldOK, RankHeld, Ranks
  <2>2. /\ buffer' \in [Ranks -> Seq(Pages)]
        /\ numWritten' \in [Ranks -> Nat]
        /\ DOMAIN disk' = Ranks
        /\ \A q \in Ranks : \A n \in DOMAIN disk'[q] :
              disk'[q][n] \in [pages : Seq(Pages), claims : Nat]
        /\ faults' \in [now : Nat, ever : 0 .. MaxFaults]
        /\ FilesFinite'
    <3>1. CASE WritePageFile(RankHeld(t))
      BY <2>1, <3>1, WriteTyping DEF Typed
    <3>2. CASE UNCHANGED <<files, faults>>
      BY <3>2 DEF Typed, TypeOK, FilesFinite
    <3>3. QED
      BY <1>6, <3>1, <3>2 DEF FlushFull
  <2>3. TypeOK'
    BY <1>6, <2>2 DEF FlushFull, Typed, TypeOK
  <2>4. HeldOK' /\ RestOK' /\ MemoryOK'
    BY <1>6 DEF FlushFull, Typed, TypeOK, HeldOK, RestOK, MemoryOK, Running
  <2>5. QED
    BY <2>2, <2>3, <2>4 DEF Typed
<1>7. QED
  BY <1>1, <1>2, <1>3, <1>4, <1>5, <1>6 DEF Work

LEMMA MainTyped ==
    ASSUME Typed, Stop \/ Main PROVE Typed'
<1> USE DEF threads, command, files
<1>1. CASE Stop
  BY <1>1 DEF Typed, TypeOK, HeldOK, RestOK, MemoryOK, FilesFinite, Running, Stop
<1>2. CASE Join
  <2>1. rest' \in 0 .. NumRanks /\ rest' \in Ranks
    BY <1>2, RankFacts, CrawlerAssumption DEF Join
  <2>2. QED
    BY <1>2, <2>1 DEF Typed, TypeOK, HeldOK, RestOK, MemoryOK, FilesFinite, Running, Join
<1>3. CASE WriteRest
  <2>1. rest \in Ranks /\ main = "write"
    BY <1>3 DEF WriteRest, Typed, RestOK
  <2>2. rest' \in 0 .. NumRanks /\ (main' = "write" => rest' \in Ranks)
    BY <1>3, <2>1, CrawlerAssumption DEF WriteRest, Ranks
  <2>3. /\ buffer' \in [Ranks -> Seq(Pages)]
        /\ numWritten' \in [Ranks -> Nat]
        /\ DOMAIN disk' = Ranks
        /\ \A q \in Ranks : \A n \in DOMAIN disk'[q] :
              disk'[q][n] \in [pages : Seq(Pages), claims : Nat]
        /\ faults' \in [now : Nat, ever : 0 .. MaxFaults]
        /\ FilesFinite'
    BY <1>3, <2>1, WriteTyping DEF WriteRest, Typed
  <2>4. TypeOK'
    BY <1>3, <2>2, <2>3 DEF WriteRest, Typed, TypeOK
  <2>5. HeldOK' /\ RestOK' /\ MemoryOK'
    BY <1>3, <2>2 DEF WriteRest, Typed, TypeOK, HeldOK, RestOK, MemoryOK, Running
  <2>6. QED
    BY <2>3, <2>4, <2>5 DEF Typed
<1>4. QED
  BY <1>1, <1>2, <1>3 DEF Main

LEMMA ProcessTyped ==
    ASSUME Typed, Crash \/ (\E r \in Ranks : CrashInWrite(r)) \/ Boot PROVE Typed'
<1> USE DEF threads
<1>0. [r \in Ranks |-> <<>>] \in [Ranks -> Seq(Pages)]
  OBVIOUS
<1>1. CASE Ends
  <2>1. /\ buffer' = [r \in Ranks |-> <<>>]
        /\ crashes' \in 0 .. MaxCrashes
        /\ main' = "down"
        /\ UNCHANGED <<todo, pc, held, stop, rest, numWritten, crawled, faults>>
    BY <1>1, CrawlerAssumption DEF Ends, Typed, TypeOK
  <2>2. /\ kept' \subseteq Pages
        /\ DOMAIN disk' = Ranks
        /\ \A q \in Ranks : \A n \in DOMAIN disk'[q] :
              disk'[q][n] \in [pages : Seq(Pages), claims : Nat]
        /\ FilesFinite'
    <3>1. CASE Crash
      BY <3>1 DEF Crash, Typed, TypeOK, FilesFinite
    <3>2. ASSUME NEW r \in Ranks, CrashInWrite(r) PROVE <2>2!1 /\ <2>2!2 /\ <2>2!3 /\ <2>2!4
      <4>1. PICK k \in 0 .. Len(buffer[r]) : /\ PutFile(r, TornFile(r, k))
                                            /\ kept' = kept \cap (OnDisk \cup Range(SubSeq(buffer[r], 1, k)))
        BY <3>2 DEF CrashInWrite
      <4>2. QED
        BY <4>1, FileTyping, PutTyping DEF Typed, TypeOK
    <3>3. CASE Boot
      BY <1>1, <3>3 DEF Ends, Boot, Running
    <3>4. QED
      BY <3>1, <3>2, <3>3
  <2>3. TypeOK'
    <3>1. TypeOK
      BY DEF Typed
    <3>2. /\ (todo \subseteq Pages)' /\ (stop \in BOOLEAN)' /\ (rest \in 0 .. NumRanks)'
          /\ (pc \in [Threads -> {"check", "get", "crawl", "store", "full", "exit"}])'
          /\ (held \in [Threads -> Pages \cup {NoPage}])'
          /\ (numWritten \in [Ranks -> Nat])' /\ (crawled \in Nat)'
          /\ (faults \in [now : Nat, ever : 0 .. MaxFaults])'
      BY <2>1, <3>1 DEF TypeOK
    <3>3. (buffer \in [Ranks -> Seq(Pages)])'
      BY <1>0, <2>1
    <3>4. QED
      BY <2>1, <2>2, <3>2, <3>3 DEF TypeOK
  <2>4. HeldOK' /\ RestOK' /\ MemoryOK'
    BY <2>1 DEF Typed, HeldOK, RestOK, MemoryOK
  <2>5. QED
    BY <2>2, <2>3, <2>4 DEF Typed
<1>2. CASE Boot
  <2>1. \A r \in Ranks : FirstNumber(r) \in Nat
    BY FS_CardinalityType DEF Typed, FilesFinite, FirstNumber
  <2>2. TypeOK'
    <3>1. TypeOK
      BY DEF Typed
    <3>2. /\ (numWritten \in [Ranks -> Nat])'
          /\ (pc \in [Threads -> {"check", "get", "crawl", "store", "full", "exit"}])'
          /\ (held \in [Threads -> Pages \cup {NoPage}])'
          /\ (buffer \in [Ranks -> Seq(Pages)])'
      BY <1>0, <1>2, <2>1 DEF Boot
    <3>3. (rest \in 0 .. NumRanks)' /\ (faults \in [now : Nat, ever : 0 .. MaxFaults])'
      BY <1>2, <3>1, CrawlerAssumption DEF Boot, TypeOK
    <3>4. QED
      BY <1>2, <3>1, <3>2, <3>3 DEF Boot, TypeOK
  <2>3. HeldOK' /\ RestOK' /\ MemoryOK' /\ FilesFinite'
    BY <1>2 DEF Boot, Typed, HeldOK, RestOK, MemoryOK, FilesFinite, Running
  <2>4. QED
    BY <2>2, <2>3 DEF Typed
<1>3. QED
  BY <1>1, <1>2 DEF Crash, CrashInWrite

LEMMA StutterTyped == ASSUME Typed, UNCHANGED vars PROVE Typed'
BY DEF Typed, TypeOK, HeldOK, RestOK, MemoryOK, FilesFinite, Running, vars, threads, command, files

\* However the workers, the operator and the failures interleave, the state stays
\* well typed.
THEOREM TypeCorrect == Spec => [](TypeOK /\ MemoryOK)
<1>1. Init => Typed
  BY InitTyped
<1>2. Typed /\ [Next]_vars => Typed'
  BY WorkTyped, MainTyped, ProcessTyped, StutterTyped DEF Next
<1>3. Typed => TypeOK /\ MemoryOK
  BY DEF Typed
<1>4. QED
  BY <1>1, <1>2, <1>3, PTL DEF Spec

-----------------------------------------------------------------------------
(* The numbers of the files, when every file that gets a number is created. *)

\* A step writes one file, under the number that is due, or none.
WritesAt(r) == \E f \in [pages : Seq(Pages), claims : Nat] : PutFile(r, f)

\* Cardinality counts what the numbers say.
LEMMA CountOfNumbers ==
    ASSUME NEW m \in Nat PROVE Cardinality(0 .. m - 1) = m
BY FS_Interval

LEMMA PutNumbers ==
    ASSUME Typed, NumbersOK, NEW r \in Ranks, Running, WritesAt(r)
    PROVE  /\ \A q \in Ranks \ {r} : disk'[q] = disk[q]
           /\ DOMAIN disk'[r] = 0 .. numWritten[r]
           /\ numWritten[r] \notin DOMAIN disk[r]
           /\ \A n \in DOMAIN disk[r] : disk'[r][n] = disk[r][n]
<1>1. PICK f \in [pages : Seq(Pages), claims : Nat] : PutFile(r, f)
  BY DEF WritesAt
<1>2. numWritten[r] \in Nat /\ DOMAIN disk[r] = 0 .. numWritten[r] - 1
  BY DEF Typed, TypeOK, NumbersOK, NumberedTo
<1>3. TypeOK
  BY DEF Typed
<1>4. /\ \A q \in Ranks \ {r} : disk'[q] = disk[q]
      /\ DOMAIN disk'[r] = DOMAIN disk[r] \cup {numWritten[r]}
      /\ \A n \in DOMAIN disk[r] \ {numWritten[r]} : disk'[r][n] = disk[r][n]
  BY <1>1, <1>3, PutTyping
<1>5. numWritten[r] \notin DOMAIN disk[r] /\ DOMAIN disk'[r] = 0 .. numWritten[r]
  BY <1>2, <1>4
<1>6. QED
  BY <1>4, <1>5

\* What a step does to the disk, and when it leaves the numbers alone.
LEMMA StepNumbers ==
    ASSUME Typed, NumbersOK, [Next]_vars, OpensSucceed
    PROVE  NumbersOK' /\ \A r \in Ranks : \A n \in DOMAIN disk[r] :
                              n \in DOMAIN disk'[r] /\ disk'[r][n] = disk[r][n]
<1>1. ASSUME disk' = disk, numWritten' = numWritten, Running, Running' = TRUE
      PROVE  NumbersOK'
  BY <1>1 DEF NumbersOK, NumberedTo
<1>2. ASSUME NEW r \in Ranks, WritePageFile(r), Running, Running' = TRUE
      PROVE  NumbersOK' /\ \A q \in Ranks : \A n \in DOMAIN disk[q] :
                                 n \in DOMAIN disk'[q] /\ disk'[q][n] = disk[q][n]
  <2>1. WritesAt(r)
    BY <1>2, WriteEffect DEF Typed, WritesAt
  <2>2. numWritten' = [numWritten EXCEPT ![r] = @ + 1]
    BY <1>2, WriteTyping DEF Typed
  <2>3. \A q \in Ranks : NumberedTo(q, numWritten[q]) /\ numWritten[q] \in Nat
    BY <1>2 DEF NumbersOK, Typed, TypeOK
  <2>4. \A q \in Ranks : DOMAIN disk'[q] = 0 .. numWritten'[q] - 1
    BY <1>2, <2>1, <2>2, <2>3, PutNumbers DEF NumberedTo, Typed, TypeOK
  <2>5. NumbersOK'
    BY <1>2, <2>4 DEF NumbersOK, NumberedTo
  <2>6. QED
    BY <1>2, <2>1, <2>3, <2>4, <2>5, PutNumbers DEF NumberedTo
<1>3. CASE \E t \in Threads : Work(t)
  <2>1. PICK t \in Threads : Work(t)
    BY <1>3
  <2>2. Running /\ Running' = TRUE
    BY <2>1 DEF Work, CheckStop, GetUrl, DropPage, CountPage, StorePage, FlushFull, At, Running, command
  <2>3. CASE FlushFull(t) /\ OverLimit(RankHeld(t))
    <3>1. RankHeld(t) \in Ranks /\ WritePageFile(RankHeld(t))
      BY <2>3, CrawlerAssumption DEF FlushFull, At, Typed, HeldOK, RankHeld, Ranks
    <3>2. QED
      BY <1>2, <2>2, <3>1
  <2>4. CASE ~(FlushFull(t) /\ OverLimit(RankHeld(t)))
    <3>1. disk' = disk /\ numWritten' = numWritten
      BY <2>1, <2>4 DEF Work, CheckStop, GetUrl, DropPage, CountPage, StorePage, FlushFull, files
    <3>2. QED
      BY <1>1, <2>2, <3>1
  <2>5. QED
    BY <2>3, <2>4
<1>4. CASE Stop \/ Join
  <2>1. disk' = disk /\ numWritten' = numWritten /\ Running /\ Running' = TRUE
    BY <1>4 DEF Stop, Join, Running, files
  <2>2. QED
    BY <1>1, <2>1
<1>5. CASE WriteRest
  <2>1. rest \in Ranks /\ WritePageFile(rest) /\ Running /\ Running' = TRUE
    BY <1>5 DEF WriteRest, Running, Typed, RestOK
  <2>2. QED
    BY <1>2, <2>1
<1>6. CASE Crash
  <2>1. disk' = disk /\ Running /\ ~Running' /\ numWritten \in [Ranks -> Nat]
    BY <1>6 DEF Crash, Ends, Running, Typed, TypeOK
  <2>2. QED
    BY <2>1 DEF NumbersOK, NumberedTo
<1>7. ASSUME NEW r \in Ranks, CrashInWrite(r)
      PROVE  NumbersOK' /\ \A q \in Ranks : \A n \in DOMAIN disk[q] :
                                 n \in DOMAIN disk'[q] /\ disk'[q][n] = disk[q][n]
  <2>1. Running /\ ~Running' /\ WritesAt(r)
    BY <1>7, FileTyping DEF CrashInWrite, Ends, Running, WritesAt, Typed
  <2>2. \A q \in Ranks : NumberedTo(q, numWritten[q]) /\ numWritten[q] \in Nat
    BY <2>1 DEF NumbersOK, Typed, TypeOK
  <2>3. \A q \in Ranks : \E m \in Nat : DOMAIN disk'[q] = 0 .. m - 1
    <3>1. DOMAIN disk'[r] = 0 .. (numWritten[r] + 1) - 1 /\ numWritten[r] + 1 \in Nat
      BY <2>1, <2>2, PutNumbers
    <3>2. \A q \in Ranks \ {r} : DOMAIN disk'[q] = 0 .. numWritten[q] - 1
      BY <2>1, <2>2, PutNumbers DEF NumberedTo
    <3>3. QED
      BY <2>2, <3>1, <3>2
  <2>4. NumbersOK'
    BY <2>1, <2>3 DEF NumbersOK, NumberedTo
  <2>5. QED
    BY <2>1, <2>2, <2>4, PutNumbers DEF NumberedTo
<1>8. CASE Boot
  <2>1. disk' = disk /\ ~Running /\ Running' = TRUE
    BY <1>8 DEF Boot, Running
  <2>2. \A r \in Ranks : NumberedTo(r, FirstNumber(r))
    BY <2>1, CountOfNumbers DEF NumbersOK, NumberedTo, FirstNumber
  <2>3. QED
    BY <1>8, <2>1, <2>2 DEF Boot, NumbersOK, NumberedTo
<1>9. CASE UNCHANGED vars
  BY <1>9 DEF vars, files, command, NumbersOK, NumberedTo, Running
<1>10. QED
  BY <1>3, <1>4, <1>5, <1>6, <1>7, <1>8, <1>9 DEF Next, Main

\* When no file fails to open, the files of each rank are numbered from 0 without a
\* gap, so that counting them at the start finds the next number.
THEOREM NumbersContiguous == "open" \notin Faults => (Spec => []NoGapInNumbers)
<1> SUFFICES ASSUME "open" \notin Faults PROVE Spec => []NoGapInNumbers
  OBVIOUS
<1>1. Init => Typed /\ NumbersOK
  <2>1. Init => NumbersOK
    BY DEF Init, NumbersOK, NumberedTo, Running
  <2>2. QED
    BY <2>1, InitTyped
<1>2. Typed /\ NumbersOK /\ [Next]_vars => Typed' /\ NumbersOK'
  BY WorkTyped, MainTyped, ProcessTyped, StutterTyped, StepNumbers DEF Next, OpensSucceed
<1>3. Typed /\ NumbersOK => NoGapInNumbers
  <2> SUFFICES ASSUME Typed, NumbersOK, NEW r \in Ranks
               PROVE  /\ DOMAIN disk[r] = 0 .. FirstNumber(r) - 1
                      /\ Running => numWritten[r] = FirstNumber(r)
    BY DEF NoGapInNumbers
  <2>1. PICK m \in Nat : DOMAIN disk[r] = 0 .. m - 1 /\ (Running => m = numWritten[r])
    BY DEF NumbersOK, NumberedTo, Typed, TypeOK
  <2>2. FirstNumber(r) = m
    BY <2>1, CountOfNumbers DEF FirstNumber
  <2>3. QED
    BY <2>1, <2>2
<1>4. QED
  BY <1>1, <1>2, <1>3, PTL DEF Spec

\* When no file fails to open, no file that was written is ever written over.
THEOREM WrittenFilesStay == "open" \notin Faults => (Spec => FilesKept)
<1> SUFFICES ASSUME "open" \notin Faults PROVE Spec => FilesKept
  OBVIOUS
<1>1. Init => Typed /\ NumbersOK
  <2>1. Init => NumbersOK
    BY DEF Init, NumbersOK, NumberedTo, Running
  <2>2. QED
    BY <2>1, InitTyped
<1>2. Typed /\ NumbersOK /\ [Next]_vars => Typed' /\ NumbersOK'
  BY WorkTyped, MainTyped, ProcessTyped, StutterTyped, StepNumbers DEF Next, OpensSucceed
<1>3. Typed /\ NumbersOK /\ [Next]_vars
        => [\A r \in Ranks : \A n \in DOMAIN disk[r] : disk'[r][n] = disk[r][n]]_vars
  BY StepNumbers DEF OpensSucceed
<1>4. QED
  BY <1>1, <1>2, <1>3, PTL DEF Spec, FilesKept

-----------------------------------------------------------------------------
(* No stored page is lost. *)

LEMMA DiskGrows ==
    ASSUME \A r \in Ranks : \A n \in DOMAIN disk[r] :
              n \in DOMAIN disk'[r] /\ disk'[r][n] = disk[r][n]
    PROVE  OnDisk \subseteq OnDisk'
BY DEF OnDisk

\* The pages of a file that is put under a new number are on disk from then on.
LEMMA PutPages ==
    ASSUME Typed, NumbersOK, Running, NEW r \in Ranks,
           NEW f \in [pages : Seq(Pages), claims : Nat], PutFile(r, f)
    PROVE  OnDisk \cup Range(f.pages) \subseteq OnDisk'
<1>1. WritesAt(r) /\ TypeOK
  BY DEF WritesAt, Typed
<1>2. OnDisk \subseteq OnDisk'
  <2>1. \A q \in Ranks : \A n \in DOMAIN disk[q] : n \in DOMAIN disk'[q] /\ disk'[q][n] = disk[q][n]
    BY <1>1, PutNumbers, PutTyping
  <2>2. QED
    BY <2>1, DiskGrows
<1>3. numWritten[r] \in DOMAIN disk'[r] /\ disk'[r][numWritten[r]].pages = f.pages
  BY <1>1, PutTyping
<1>4. Range(f.pages) \subseteq OnDisk'
  BY <1>3 DEF OnDisk
<1>5. QED
  BY <1>2, <1>4

LEMMA WriteLosesNothing ==
    ASSUME Typed, NumbersOK, Running, NEW r \in Ranks, WritePageFile(r), OpensSucceed
    PROVE  OnDisk \cup InBuffers \subseteq OnDisk' \cup InBuffers'
<1>1. PICK f \in [pages : Seq(Pages), claims : Nat] :
         /\ PutFile(r, f)
         /\ \/ buffer' = [buffer EXCEPT ![r] = <<>>] /\ f.pages = buffer[r]
            \/ buffer' = buffer
  BY WriteEffect DEF Typed
<1>2. OnDisk \cup Range(f.pages) \subseteq OnDisk'
  BY <1>1, PutPages
<1>3. CASE buffer' = buffer
  BY <1>2, <1>3 DEF InBuffers
<1>4. CASE buffer' = [buffer EXCEPT ![r] = <<>>] /\ f.pages = buffer[r]
  <2>1. \A q \in Ranks : Range(buffer[q]) \subseteq OnDisk' \cup InBuffers'
    <3>1. Range(buffer[r]) \subseteq OnDisk'
      BY <1>2, <1>4
    <3>2. ASSUME NEW q \in Ranks \ {r} PROVE Range(buffer[q]) \subseteq InBuffers'
      BY <1>4 DEF InBuffers, Typed, TypeOK
    <3>3. QED
      BY <3>1, <3>2
  <2>2. QED
    BY <1>2, <2>1 DEF InBuffers
<1>5. QED
  BY <1>1, <1>3, <1>4

LEMMA StoreKeeps ==
    ASSUME Typed, NEW t \in Threads, StorePage(t)
    PROVE  OnDisk' = OnDisk /\ InBuffers \cup {held[t]} \subseteq InBuffers'
<1>1. held[t] \in Pages /\ RankHeld(t) \in Ranks
  BY CrawlerAssumption DEF StorePage, At, Typed, HeldOK, RankHeld, Ranks
<1>2. \A r \in Ranks : buffer[r] \in Seq(Pages)
  BY DEF Typed, TypeOK
<1>3. /\ \A r \in Ranks : buffer'[r] = IF r = RankHeld(t) THEN Append(buffer[r], held[t]) ELSE buffer[r]
      /\ disk' = disk
  BY <1>1 DEF StorePage, Typed, TypeOK
<1>4. \A s \in Seq(Pages) : Range(s) \cup {held[t]} \subseteq Range(Append(s, held[t]))
  <2> SUFFICES ASSUME NEW s \in Seq(Pages)
               PROVE  Range(s) \cup {held[t]} \subseteq Range(Append(s, held[t]))
    OBVIOUS
  <2>1. Len(s) \in Nat /\ DOMAIN s = 1 .. Len(s)
    BY LenProperties
  <2>2. /\ Append(s, held[t]) \in Seq(Pages)
        /\ Len(Append(s, held[t])) = Len(s) + 1
        /\ \A i \in 1 .. Len(s) : Append(s, held[t])[i] = s[i]
        /\ Append(s, held[t])[Len(s) + 1] = held[t]
    BY <1>1, AppendProperties
  <2>3. DOMAIN Append(s, held[t]) = 1 .. Len(s) + 1
    BY <2>2, LenProperties
  <2>4. QED
    BY <2>1, <2>2, <2>3 DEF Range
<1>5. \A r \in Ranks : Range(buffer[r]) \subseteq Range(buffer'[r])
  BY <1>2, <1>3, <1>4
<1>6. held[t] \in Range(buffer'[RankHeld(t)])
  BY <1>1, <1>2, <1>3, <1>4
<1>7. QED
  BY <1>1, <1>3, <1>5, <1>6 DEF OnDisk, InBuffers

\* When no file fails to open, a page that was stored is in its vector or on disk, and
\* what has reached the disk is there for good.
THEOREM StoredPagesStay == "open" \notin Faults => (Spec => []NothingLost)
<1> SUFFICES ASSUME "open" \notin Faults PROVE Spec => []NothingLost
  OBVIOUS
<1>1. Init => Typed /\ NumbersOK /\ NothingLost
  <2>1. Init => NumbersOK /\ NothingLost
    BY DEF Init, NumbersOK, NumberedTo, Running, NothingLost
  <2>2. QED
    BY <2>1, InitTyped
<1>2. Typed /\ NumbersOK /\ NothingLost /\ [Next]_vars => Typed' /\ NumbersOK' /\ NothingLost'
  <2> SUFFICES ASSUME Typed, NumbersOK, NothingLost, [Next]_vars
               PROVE  Typed' /\ NumbersOK' /\ NothingLost'
    OBVIOUS
  <2>1. Typed' /\ NumbersOK'
    BY WorkTyped, MainTyped, ProcessTyped, StutterTyped, StepNumbers DEF Next, OpensSucceed
  <2>2. NothingLost'
    <3>1. ASSUME kept' = kept, OnDisk \cup InBuffers \subseteq OnDisk' \cup InBuffers'
          PROVE  NothingLost'
      BY <3>1 DEF NothingLost
    <3>2. ASSUME kept' = kept, disk' = disk, buffer' = buffer PROVE NothingLost'
      BY <3>2 DEF NothingLost, OnDisk, InBuffers
    <3>3. CASE \E t \in Threads : Work(t)
      <4>1. PICK t \in Threads : Work(t)
        BY <3>3
      <4>2. CASE StorePage(t)
        <5>1. kept' = kept \cup {held[t]}
          BY <4>2 DEF StorePage
        <5>2. QED
          BY <4>2, <5>1, StoreKeeps DEF NothingLost
      <4>3. CASE FlushFull(t) /\ OverLimit(RankHeld(t))
        <5>1. RankHeld(t) \in Ranks /\ WritePageFile(RankHeld(t)) /\ Running /\ kept' = kept
          BY <4>3, CrawlerAssumption DEF FlushFull, At, Typed, HeldOK, RankHeld, Ranks
        <5>2. QED
          BY <3>1, <5>1, WriteLosesNothing DEF OpensSucceed
      <4>4. CASE ~StorePage(t) /\ ~(FlushFull(t) /\ OverLimit(RankHeld(t)))
        <5>1. kept' = kept /\ disk' = disk /\ buffer' = buffer
          BY <4>1, <4>4 DEF Work, CheckStop, GetUrl, DropPage, CountPage, FlushFull, files
        <5>2. QED
          BY <3>2, <5>1
      <4>5. QED
        BY <4>2, <4>3, <4>4
    <3>4. CASE Stop \/ Join \/ UNCHANGED vars
      <4>1. kept' = kept /\ disk' = disk /\ buffer' = buffer
        BY <3>4 DEF Stop, Join, vars, files
      <4>2. QED
        BY <3>2, <4>1
    <3>5. CASE WriteRest
      <4>1. rest \in Ranks /\ WritePageFile(rest) /\ Running /\ kept' = kept
        BY <3>5 DEF WriteRest, Running, Typed, RestOK
      <4>2. QED
        BY <3>1, <4>1, WriteLosesNothing DEF OpensSucceed
    <3>6. CASE Crash
      <4>1. kept' = kept \cap OnDisk /\ OnDisk' = OnDisk
        BY <3>6 DEF Crash, OnDisk
      <4>2. QED
        BY <4>1 DEF NothingLost
    <3>7. ASSUME NEW r \in Ranks, CrashInWrite(r) PROVE NothingLost'
      <4>1. PICK k \in 0 .. Len(buffer[r]) :
               /\ PutFile(r, TornFile(r, k))
               /\ kept' = kept \cap (OnDisk \cup Range(SubSeq(buffer[r], 1, k)))
        BY <3>7 DEF CrashInWrite
      <4>2. /\ TornFile(r, k) \in [pages : Seq(Pages), claims : Nat]
            /\ TornFile(r, k).pages = SubSeq(buffer[r], 1, k)
        BY FileTyping DEF Typed
      <4>3. Running
        BY <3>7 DEF CrashInWrite, Ends
      <4>4. OnDisk \cup Range(SubSeq(buffer[r], 1, k)) \subseteq OnDisk'
        BY <4>1, <4>2, <4>3, PutPages
      <4>5. QED
        BY <4>1, <4>4 DEF NothingLost
    <3>8. CASE Boot
      <4>1. kept' = kept /\ disk' = disk /\ ~Running
        BY <3>8 DEF Boot, Running
      <4>2. InBuffers = {}
        BY <4>1 DEF InBuffers, Typed, MemoryOK, Range
      <4>3. QED
        BY <4>1, <4>2 DEF NothingLost, OnDisk
    <3>9. QED
      BY <3>3, <3>4, <3>5, <3>6, <3>7, <3>8 DEF Next, Main
  <2>3. QED
    BY <2>1, <2>2
<1>3. QED
  BY <1>1, <1>2, PTL DEF Spec

-----------------------------------------------------------------------------
(* Somebody is on the way to every full vector. *)

LEMMA NoBytes == Bytes(<<>>) = 0
BY DOMAIN <<>> = {} DEF Bytes, FoldLeft, MapThenFoldSet

LEMMA EmptyIsNotFull ==
    ASSUME NEW r \in Ranks, buffer[r] = <<>>
    PROVE  ~OverLimit(r)
BY NoBytes, CrawlerAssumption DEF OverLimit, Ranks

\* A write that succeeds leaves an empty vector; one that fails is counted.
LEMMA WriteSettles ==
    ASSUME TypeOK, NEW r \in Ranks, WritePageFile(r)
    PROVE  /\ \A q \in Ranks \ {r} : buffer'[q] = buffer[q]
           /\ faults'.now = 0 => faults.now = 0 /\ buffer'[r] = <<>> /\ ~OverLimit(r)'
<1>1. CASE WriteSucceeds(r)
  <2>1. buffer' = [buffer EXCEPT ![r] = <<>>] /\ faults' = faults
    BY <1>1 DEF WriteSucceeds
  <2>2. buffer'[r] = <<>> /\ \A q \in Ranks \ {r} : buffer'[q] = buffer[q]
    BY <2>1 DEF TypeOK
  <2>3. ~OverLimit(r)'
    BY <2>2, NoBytes, CrawlerAssumption DEF OverLimit, Ranks
  <2>4. QED
    BY <2>1, <2>2, <2>3
<1>2. CASE WriteFails(r)
  <2>1. buffer' = buffer /\ faults'.now = faults.now + 1
    BY <1>2 DEF WriteFails, Fails
  <2>2. QED
    BY <2>1 DEF TypeOK
<1>3. QED
  BY <1>1, <1>2 DEF WritePageFile

\* Owned(r): rank r is in order.
Owned(r) == OverLimit(r) => \E t \in Threads : pc[t] = "full" /\ RankHeld(t) = r

LEMMA WorkOwned ==
    ASSUME Typed, FullIsOwned, NEW t \in Threads, Work(t)
    PROVE  FullIsOwned'
<1> SUFFICES ASSUME faults'.now = 0, NEW r \in Ranks, OverLimit(r)'
             PROVE  \E u \in Threads : pc'[u] = "full" /\ RankHeld(u)' = r
  BY DEF FullIsOwned
<1>1. /\ Running /\ TypeOK
      /\ \A u \in Threads \ {t} : pc'[u] = pc[u] /\ RankHeld(u)' = RankHeld(u)
  BY DEF Typed, TypeOK, Work, CheckStop, GetUrl, DropPage, CountPage, StorePage, FlushFull, At, Go,
         RankHeld
<1>2. ASSUME Owned(r), faults.now = 0, pc[t] # "full" \/ RankHeld(t) # r, buffer'[r] = buffer[r]
      PROVE  \E u \in Threads : pc'[u] = "full" /\ RankHeld(u)' = r
  <2>1. PICK u \in Threads : pc[u] = "full" /\ RankHeld(u) = r
    BY <1>2 DEF Owned, OverLimit
  <2>2. QED
    BY <1>1, <1>2, <2>1
<1>3. faults.now = 0 => Owned(r)
  BY <1>1 DEF FullIsOwned, Owned
<1>4. CASE CheckStop(t) \/ GetUrl(t) \/ DropPage(t) \/ CountPage(t)
  <2>1. pc[t] # "full" /\ UNCHANGED <<buffer, faults>>
    BY <1>4 DEF CheckStop, GetUrl, DropPage, CountPage, At, files
  <2>2. QED
    BY <1>2, <1>3, <2>1
<1>5. CASE StorePage(t)
  <2>1. /\ pc[t] = "store" /\ faults' = faults /\ held' = held
        /\ buffer' = [buffer EXCEPT ![RankHeld(t)] = Append(@, held[t])]
        /\ pc' = [pc EXCEPT ![t] = IF OverLimit(RankHeld(t))' THEN "full" ELSE "check"]
    BY <1>5 DEF StorePage, At, Go, OverLimit, RankHeld
  <2>2. CASE RankHeld(t) = r
    BY <2>1, <2>2, <1>1 DEF RankHeld, TypeOK, OverLimit
  <2>3. CASE RankHeld(t) # r
    <3>1. buffer'[r] = buffer[r]
      BY <2>1, <2>3, <1>1 DEF TypeOK
    <3>2. QED
      BY <1>2, <1>3, <2>1, <3>1
  <2>4. QED
    BY <2>2, <2>3
<1>6. CASE FlushFull(t)
  <2>1. pc[t] = "full" /\ RankHeld(t) \in Ranks
    BY <1>6, CrawlerAssumption DEF FlushFull, At, Typed, HeldOK, RankHeld, Ranks
  <2>2. CASE OverLimit(RankHeld(t))
    <3>1. WritePageFile(RankHeld(t))
      BY <1>6, <2>2 DEF FlushFull
    <3>2. faults.now = 0 /\ r # RankHeld(t) /\ buffer'[r] = buffer[r]
      BY <1>1, <2>1, <3>1, WriteSettles
    <3>3. QED
      BY <1>2, <1>3, <3>2
  <2>3. CASE ~OverLimit(RankHeld(t))
    <3>1. UNCHANGED <<buffer, faults>>
      BY <1>6, <2>3 DEF FlushFull, files
    <3>2. r # RankHeld(t)
      BY <2>3, <3>1 DEF OverLimit
    <3>3. QED
      BY <1>2, <1>3, <3>1, <3>2
  <2>4. QED
    BY <2>2, <2>3
<1>7. QED
  BY <1>4, <1>5, <1>6 DEF Work

\* A vector that has grown over its limit has a worker that will write it, for any
\* number of workers, ranks and sizes, until a write fails: the decision to write and
\* the write are steps of their own, and no interleaving leaves the write to nobody.
THEOREM FullVectorsOwned == Spec => []FullIsOwned
<1>1. Init => FullIsOwned
  BY EmptyIsNotFull DEF Init, FullIsOwned
<1>2. Typed /\ FullIsOwned /\ [Next]_vars => FullIsOwned'
  <2> SUFFICES ASSUME Typed, FullIsOwned, [Next]_vars PROVE FullIsOwned'
    OBVIOUS
  <2>1. CASE \E t \in Threads : Work(t)
    BY <2>1, WorkOwned
  <2>2. CASE Stop \/ Join \/ UNCHANGED vars
    <3>1. /\ UNCHANGED <<buffer, faults, pc, held>> /\ (Running' => Running)
      BY <2>2 DEF Stop, Join, vars, threads, files, Running, command
    <3>2. QED
      BY <3>1 DEF FullIsOwned, OverLimit, RankHeld
  <2>3. CASE WriteRest
    <3>1. rest \in Ranks /\ WritePageFile(rest) /\ Running /\ UNCHANGED <<pc, held>> /\ TypeOK
      BY <2>3 DEF WriteRest, Running, Typed, RestOK, threads
    <3>2. ASSUME faults'.now = 0, NEW r \in Ranks, OverLimit(r)'
          PROVE  OverLimit(r) /\ faults.now = 0
      BY <3>1, <3>2, WriteSettles DEF OverLimit
    <3>3. QED
      BY <3>1, <3>2 DEF FullIsOwned, RankHeld
  <2>4. CASE Crash \/ \E r \in Ranks : CrashInWrite(r)
    <3>1. main' = "down"
      BY <2>4 DEF Crash, CrashInWrite, Ends
    <3>2. QED
      BY <3>1 DEF FullIsOwned, Running
  <2>5. CASE Boot
    <3>1. \A r \in Ranks : buffer'[r] = <<>>
      BY <2>5 DEF Boot
    <3>2. \A r \in Ranks : ~OverLimit(r)'
      BY <3>1, NoBytes, CrawlerAssumption DEF OverLimit, Ranks
    <3>3. QED
      BY <3>2 DEF FullIsOwned
  <2>6. QED
    BY <2>1, <2>2, <2>3, <2>4, <2>5 DEF Next, Main
<1>3. Typed /\ [Next]_vars => Typed'
  BY WorkTyped, MainTyped, ProcessTyped, StutterTyped DEF Next
<1>4. QED
  BY <1>1, <1>2, <1>3, InitTyped, PTL DEF Spec

-----------------------------------------------------------------------------
(* What is left when 's' is done. *)

\* The main thread writes the ranks in their order once the workers are gone.
RestInv ==
    /\ main \in {"write", "stopped"} => \A t \in Threads : pc[t] = "exit"
    /\ main = "write" /\ faults.now = 0 => \A r \in Ranks : r < rest => buffer[r] = <<>>
    /\ main = "stopped" /\ faults.now = 0 => \A r \in Ranks : buffer[r] = <<>>

\* Who has a page that is not in its vector yet.
Holders == {t \in Threads : pc[t] \in {"crawl", "store"}}

\* Who has counted a page that is not in its vector yet.
Storing == {t \in Threads : pc[t] = "store"}

\* A page is still to come, or in the hands of one worker, or stored.
Apart ==
    /\ todo \cap kept = {}
    /\ \A t \in Holders : held[t] \notin todo \cup kept
    /\ \A t, u \in Holders : held[t] = held[u] => t = u

\* Numbers are used once.
Numbered == \A r \in Ranks : \A n \in DOMAIN disk[r] : n \in Nat /\ n < numWritten[r]

Tally ==
    /\ IsFiniteSet(kept) /\ IsFiniteSet(Storing)
    /\ crawled = Cardinality(kept) + Cardinality(Storing)

\* The first process finds an empty directory, and so every number is new to it.
FirstProcess == Running /\ Numbered /\ OnDisk \cup InBuffers = kept /\ Tally

CountInv == Apart /\ (crashes = 0 => FirstProcess)

\* A write, whether it succeeds, fails or is cut, moves or copies pages.
LEMMA WriteMoves ==
    ASSUME Typed, NEW r \in Ranks, WritePageFile(r)
    PROVE  \/ UNCHANGED <<disk, buffer>>
           \/ \E f \in [pages : Seq(Pages), claims : Nat] :
                 /\ PutFile(r, f)
                 /\ Range(f.pages) \subseteq Range(buffer[r])
                 /\ \/ buffer' = [buffer EXCEPT ![r] = <<>>] /\ f.pages = buffer[r]
                    \/ buffer' = buffer
<1>1. CASE WriteSucceeds(r)
  BY <1>1, FileTyping DEF WriteSucceeds, Typed
<1>2. CASE WriteFails(r)
  <2>1. buffer' = buffer
    BY <1>2 DEF WriteFails
  <2>2. CASE \E k \in 0 .. Len(buffer[r]) : PutFile(r, TornFile(r, k))
    <3>1. PICK k \in 0 .. Len(buffer[r]) : PutFile(r, TornFile(r, k))
      BY <2>2
    <3>2. Range(SubSeq(buffer[r], 1, k)) \subseteq Range(buffer[r])
      BY PrefixTyping DEF Typed, TypeOK
    <3>3. QED
      BY <2>1, <3>1, <3>2, FileTyping DEF Typed
  <2>3. QED
    BY <1>2, <2>1, <2>2 DEF WriteFails
<1>3. QED
  BY <1>1, <1>2 DEF WritePageFile

\* A file under a new number takes nothing away.
LEMMA PutAdds ==
    ASSUME Typed, Numbered, NEW r \in Ranks,
           NEW f \in [pages : Seq(Pages), claims : Nat], PutFile(r, f)
    PROVE  OnDisk' = OnDisk \cup Range(f.pages)
<1>1. /\ DOMAIN disk'[r] = DOMAIN disk[r] \cup {numWritten[r]}
      /\ disk'[r][numWritten[r]] = f
      /\ numWritten[r] \notin DOMAIN disk[r]
      /\ \A n \in DOMAIN disk[r] : disk'[r][n] = disk[r][n]
      /\ \A q \in Ranks \ {r} : disk'[q] = disk[q]
  <2>1. numWritten[r] \notin DOMAIN disk[r]
    BY DEF Numbered, Typed, TypeOK
  <2>2. QED
    BY <2>1, PutTyping DEF Typed
<1>2. OnDisk \subseteq OnDisk'
  <2>1. \A q \in Ranks : \A n \in DOMAIN disk[q] : n \in DOMAIN disk'[q] /\ disk'[q][n] = disk[q][n]
    BY <1>1
  <2>2. QED
    BY <2>1, DiskGrows
<1>3. Range(f.pages) \subseteq OnDisk'
  BY <1>1 DEF OnDisk
<1>4. OnDisk' \subseteq OnDisk \cup Range(f.pages)
  <2>1. ASSUME NEW q \in Ranks, NEW n \in DOMAIN disk'[q]
        PROVE  Range(disk'[q][n].pages) \subseteq OnDisk \cup Range(f.pages)
    <3>1. CASE q = r /\ n = numWritten[r]
      BY <1>1, <3>1
    <3>2. CASE n \in DOMAIN disk[q] /\ disk'[q][n] = disk[q][n]
      BY <3>2 DEF OnDisk
    <3>3. QED
      BY <1>1, <3>1, <3>2
  <2>2. QED
    BY <2>1 DEF OnDisk
<1>5. QED
  BY <1>2, <1>3, <1>4

LEMMA WriteKeepsStored ==
    ASSUME Typed, Numbered, NEW r \in Ranks, WritePageFile(r)
    PROVE  Numbered' /\ (OnDisk \cup InBuffers)' = OnDisk \cup InBuffers
<1>1. /\ numWritten' = [numWritten EXCEPT ![r] = @ + 1]
      /\ numWritten \in [Ranks -> Nat]
  BY WriteTyping DEF Typed, TypeOK
<1>2. CASE UNCHANGED <<disk, buffer>>
  BY <1>1, <1>2 DEF Numbered, OnDisk, InBuffers
<1>3. ASSUME NEW f \in [pages : Seq(Pages), claims : Nat],
             PutFile(r, f),
             Range(f.pages) \subseteq Range(buffer[r]),
             \/ buffer' = [buffer EXCEPT ![r] = <<>>] /\ f.pages = buffer[r]
             \/ buffer' = buffer
      PROVE  Numbered' /\ (OnDisk \cup InBuffers)' = OnDisk \cup InBuffers
  <2>1. Numbered'
    <3>1. /\ DOMAIN disk'[r] = DOMAIN disk[r] \cup {numWritten[r]}
          /\ \A q \in Ranks \ {r} : disk'[q] = disk[q]
      BY <1>3, PutTyping DEF Typed
    <3>2. ASSUME NEW q \in Ranks, NEW n \in DOMAIN disk'[q]
          PROVE  n \in Nat /\ n < numWritten'[q]
      <4>1. numWritten[r] \in Nat /\ numWritten'[r] = numWritten[r] + 1
        BY <1>1
      <4>2. \A x \in DOMAIN disk[q] : x \in Nat /\ x < numWritten[q]
        BY DEF Numbered
      <4>3. CASE q = r
        BY <3>1, <4>1, <4>2, <4>3
      <4>4. CASE q # r
        BY <1>1, <3>1, <4>2, <4>4
      <4>5. QED
        BY <4>3, <4>4
    <3>3. QED
      BY <3>2 DEF Numbered
  <2>2. OnDisk' = OnDisk \cup Range(f.pages)
    BY <1>3, PutAdds
  <2>3. CASE buffer' = buffer
    <3>1. InBuffers' = InBuffers /\ Range(f.pages) \subseteq InBuffers
      BY <1>3, <2>3 DEF InBuffers
    <3>2. QED
      BY <2>1, <2>2, <3>1
  <2>4. CASE buffer' = [buffer EXCEPT ![r] = <<>>] /\ f.pages = buffer[r]
    <3>1. /\ buffer'[r] = <<>> /\ Range(<<>>) = {}
          /\ \A q \in Ranks \ {r} : buffer'[q] = buffer[q]
      BY <2>4 DEF Range, Typed, TypeOK
    <3>2. InBuffers' \subseteq InBuffers
      BY <3>1 DEF InBuffers
    <3>3. InBuffers \subseteq InBuffers' \cup Range(f.pages)
      BY <2>4, <3>1 DEF InBuffers
    <3>4. Range(f.pages) \subseteq InBuffers
      BY <2>4 DEF InBuffers
    <3>5. QED
      BY <2>1, <2>2, <3>2, <3>3, <3>4
  <2>5. QED
    BY <1>3, <2>3, <2>4
<1>4. QED
  BY <1>2, <1>3, WriteMoves

LEMMA StoreAdds ==
    ASSUME Typed, NEW t \in Threads, StorePage(t)
    PROVE  (OnDisk \cup InBuffers)' = OnDisk \cup InBuffers \cup {held[t]}
<1>1. held[t] \in Pages /\ RankHeld(t) \in Ranks
  BY CrawlerAssumption DEF StorePage, At, Typed, HeldOK, RankHeld, Ranks
<1>2. /\ \A r \in Ranks : buffer'[r] = IF r = RankHeld(t) THEN Append(buffer[r], held[t]) ELSE buffer[r]
      /\ \A r \in Ranks : buffer[r] \in Seq(Pages)
  BY <1>1 DEF StorePage, Typed, TypeOK
<1>3. \A s \in Seq(Pages) : Range(Append(s, held[t])) \subseteq Range(s) \cup {held[t]}
  <2> SUFFICES ASSUME NEW s \in Seq(Pages)
               PROVE  Range(Append(s, held[t])) \subseteq Range(s) \cup {held[t]}
    OBVIOUS
  <2>1. Len(s) \in Nat /\ DOMAIN s = 1 .. Len(s)
    BY LenProperties
  <2>2. /\ Append(s, held[t]) \in Seq(Pages)
        /\ Len(Append(s, held[t])) = Len(s) + 1
        /\ \A i \in 1 .. Len(s) : Append(s, held[t])[i] = s[i]
        /\ Append(s, held[t])[Len(s) + 1] = held[t]
    BY <1>1, AppendProperties
  <2>3. DOMAIN Append(s, held[t]) = 1 .. Len(s) + 1
    BY <2>2, LenProperties
  <2>4. QED
    BY <2>1, <2>2, <2>3 DEF Range
<1>4. \A r \in Ranks : Range(buffer'[r]) \subseteq InBuffers \cup {held[t]}
  BY <1>2, <1>3 DEF InBuffers
<1>5. InBuffers' \subseteq InBuffers \cup {held[t]}
  BY <1>4 DEF InBuffers
<1>6. QED
  BY <1>5, StoreKeeps

LEMMA WorkCounts ==
    ASSUME Typed, CountInv, NEW t \in Threads, Work(t)
    PROVE  CountInv'
<1>1. /\ crashes' = crashes /\ main' = main /\ (Running' <=> Running) /\ TypeOK
      /\ \A u \in Threads \ {t} : pc'[u] = pc[u] /\ held'[u] = held[u]
      /\ \A u \in Holders : u \in Threads
      /\ todo \cap kept = {}
      /\ \A u \in Holders : held[u] \notin todo \cup kept
      /\ \A u, v \in Holders : held[u] = held[v] => u = v
  BY DEF Typed, TypeOK, Work, CheckStop, GetUrl, DropPage, CountPage, StorePage, FlushFull, At, Go,
         command, Running, CountInv, Apart, Holders
<1>2. CASE CheckStop(t)
  <2>1. /\ UNCHANGED <<todo, kept, disk, buffer, numWritten, crawled>>
        /\ pc[t] = "check" /\ pc'[t] \in {"exit", "get"}
    BY <1>1, <1>2 DEF CheckStop, At, Go, files, TypeOK
  <2>2. Holders' = Holders /\ Storing' = Storing /\ t \notin Holders
    BY <1>1, <2>1 DEF Holders, Storing
  <2>3. Apart'
    BY <1>1, <2>1, <2>2 DEF Apart
  <2>4. QED
    BY <1>1, <2>1, <2>2, <2>3 DEF CountInv, FirstProcess, Numbered, Tally, OnDisk, InBuffers
<1>3. CASE GetUrl(t)
  <2>1. /\ UNCHANGED <<kept, disk, buffer, numWritten, crawled>>
        /\ pc[t] = "get" /\ pc'[t] = "crawl"
        /\ held'[t] \in todo /\ todo' = todo \ {held'[t]}
    BY <1>1, <1>3 DEF GetUrl, At, Go, files, TypeOK
  <2>2. Holders' = Holders \cup {t} /\ Storing' = Storing /\ t \notin Holders
    BY <1>1, <2>1 DEF Holders, Storing
  <2>3. Apart'
    BY <1>1, <2>1, <2>2 DEF Apart
  <2>4. QED
    BY <1>1, <2>1, <2>2, <2>3 DEF CountInv, FirstProcess, Numbered, Tally, OnDisk, InBuffers
<1>4. CASE DropPage(t)
  <2>1. /\ UNCHANGED <<todo, held, kept, disk, buffer, numWritten, crawled>>
        /\ pc[t] = "crawl" /\ pc'[t] = "check"
    BY <1>1, <1>4 DEF DropPage, At, Go, files, TypeOK
  <2>2. Holders' \subseteq Holders /\ Storing' = Storing
    BY <1>1, <2>1 DEF Holders, Storing
  <2>3. Apart'
    BY <1>1, <2>1, <2>2 DEF Apart
  <2>4. QED
    BY <1>1, <2>1, <2>2, <2>3 DEF CountInv, FirstProcess, Numbered, Tally, OnDisk, InBuffers
<1>5. CASE CountPage(t)
  <2>1. /\ UNCHANGED <<todo, held, kept, disk, buffer, numWritten>>
        /\ crawled' = crawled + 1
        /\ pc[t] = "crawl" /\ pc'[t] = "store"
    BY <1>1, <1>5 DEF CountPage, At, Go, files, TypeOK
  <2>2. Holders' = Holders /\ Storing' = Storing \cup {t} /\ t \notin Storing
    BY <1>1, <2>1 DEF Holders, Storing
  <2>3. Apart'
    BY <1>1, <2>1, <2>2 DEF Apart
  <2>4. Tally => Tally'
    <3>1. ASSUME Tally
          PROVE  /\ IsFiniteSet(Storing') /\ Cardinality(Storing') = Cardinality(Storing) + 1
                 /\ Cardinality(Storing) \in Nat /\ Cardinality(kept) \in Nat
      BY <2>2, <3>1, FS_AddElement, FS_CardinalityType DEF Tally
    <3>2. QED
      BY <2>1, <3>1 DEF Tally
  <2>5. QED
    BY <1>1, <2>1, <2>3, <2>4 DEF CountInv, FirstProcess, Numbered, OnDisk, InBuffers
<1>6. CASE StorePage(t)
  <2>1. /\ UNCHANGED <<todo, held, disk, numWritten, crawled>>
        /\ kept' = kept \cup {held[t]}
        /\ pc[t] = "store" /\ pc'[t] \in {"full", "check"}
    BY <1>1, <1>6 DEF StorePage, At, Go, TypeOK
  <2>2. Holders' = Holders \ {t} /\ Storing' = Storing \ {t} /\ t \in Storing /\ t \in Holders
    BY <1>1, <2>1 DEF Holders, Storing
  <2>3. Apart'
    <3>1. \A u \in Holders' : u \in Holders /\ held'[u] = held[u] /\ held[u] # held[t]
      BY <1>1, <2>1, <2>2
    <3>2. held[t] \notin todo
      BY <1>1, <2>2
    <3>3. QED
      BY <1>1, <2>1, <3>1, <3>2 DEF Apart
  <2>4. Tally => Tally'
    <3>1. ASSUME Tally
          PROVE  /\ IsFiniteSet(Storing') /\ Cardinality(Storing') = Cardinality(Storing) - 1
                 /\ Cardinality(Storing) \in Nat /\ Cardinality(kept) \in Nat
      BY <2>2, <3>1, FS_RemoveElement, FS_CardinalityType DEF Tally
    <3>2. held[t] \notin kept
      BY <1>1, <2>2
    <3>3. ASSUME Tally
          PROVE  IsFiniteSet(kept') /\ Cardinality(kept') = Cardinality(kept) + 1
      BY <2>1, <3>2, <3>3, FS_AddElement DEF Tally
    <3>4. QED
      BY <2>1, <3>1, <3>3 DEF Tally
  <2>5. (OnDisk \cup InBuffers)' = OnDisk \cup InBuffers \cup {held[t]}
    BY <1>6, StoreAdds
  <2>6. QED
    BY <1>1, <2>1, <2>3, <2>4, <2>5 DEF CountInv, FirstProcess, Numbered
<1>7. CASE FlushFull(t)
  <2>1. /\ UNCHANGED <<todo, held, kept, crawled>>
        /\ pc[t] = "full" /\ pc'[t] = "check"
    BY <1>1, <1>7 DEF FlushFull, At, Go, TypeOK
  <2>2. Holders' = Holders /\ Storing' = Storing
    BY <1>1, <2>1 DEF Holders, Storing
  <2>3. Apart'
    BY <1>1, <2>1, <2>2 DEF Apart
  <2>4. Tally => Tally'
    BY <2>1, <2>2 DEF Tally
  <2>5. RankHeld(t) \in Ranks
    BY <1>7, CrawlerAssumption DEF FlushFull, At, Typed, HeldOK, RankHeld, Ranks
  <2>6. Numbered => Numbered' /\ (OnDisk \cup InBuffers)' = OnDisk \cup InBuffers
    <3>1. CASE WritePageFile(RankHeld(t))
      BY <2>5, <3>1, WriteKeepsStored
    <3>2. CASE UNCHANGED files
      BY <3>2 DEF files, Numbered, OnDisk, InBuffers
    <3>3. QED
      BY <1>7, <3>1, <3>2 DEF FlushFull
  <2>7. QED
    BY <1>1, <2>1, <2>3, <2>4, <2>6 DEF CountInv, FirstProcess
<1>8. QED
  BY <1>2, <1>3, <1>4, <1>5, <1>6, <1>7 DEF Work

LEMMA ProcessCounts ==
    ASSUME Typed, CountInv, Stop \/ Main \/ Crash \/ (\E r \in Ranks : CrashInWrite(r)) \/ Boot
    PROVE  CountInv'
<1>1. CASE Stop \/ Join
  <2>1. /\ UNCHANGED <<todo, pc, held, kept, disk, buffer, numWritten, crawled, crashes>>
        /\ Running'
    BY <1>1 DEF Stop, Join, threads, files, Running
  <2>2. QED
    BY <2>1 DEF CountInv, Apart, Holders, FirstProcess, Numbered, Tally, Storing, OnDisk, InBuffers
<1>2. CASE WriteRest
  <2>1. /\ UNCHANGED <<todo, pc, held, kept, crawled, crashes>>
        /\ Running' /\ rest \in Ranks /\ WritePageFile(rest)
    BY <1>2 DEF WriteRest, threads, Running, Typed, RestOK
  <2>2. Numbered => Numbered' /\ (OnDisk \cup InBuffers)' = OnDisk \cup InBuffers
    BY <2>1, WriteKeepsStored
  <2>3. Apart' /\ (Tally => Tally')
    BY <2>1 DEF CountInv, Apart, Holders, Tally, Storing
  <2>4. QED
    BY <2>1, <2>2, <2>3 DEF CountInv, FirstProcess
<1>3. CASE Crash \/ \E r \in Ranks : CrashInWrite(r)
  <2>1. /\ UNCHANGED <<todo, pc, held>> /\ kept' \subseteq kept /\ crashes' = crashes + 1
    BY <1>3 DEF Crash, CrashInWrite, Ends, threads
  <2>2. crashes' # 0
    BY <2>1 DEF Typed, TypeOK
  <2>3. Apart'
    BY <2>1 DEF CountInv, Apart, Holders
  <2>4. QED
    BY <2>2, <2>3 DEF CountInv
<1>4. CASE Boot
  <2>1. /\ UNCHANGED <<todo, kept, crashes>> /\ ~Running
        /\ \A t \in Threads : pc'[t] = "check"
    BY <1>4 DEF Boot, Running
  <2>2. Apart' /\ crashes' # 0
    BY <2>1 DEF CountInv, FirstProcess, Apart, Holders
  <2>3. QED
    BY <2>2 DEF CountInv
<1>5. QED
  BY <1>1, <1>2, <1>3, <1>4 DEF Main

LEMMA StepCounts ==
    ASSUME Typed, CountInv, [Next]_vars
    PROVE  CountInv'
<1>1. ASSUME UNCHANGED vars PROVE CountInv'
  BY <1>1 DEF vars, threads, command, files, CountInv, Apart, Holders, FirstProcess, Running,
              Numbered, Tally, Storing, OnDisk, InBuffers
<1>2. QED
  BY <1>1, WorkCounts, ProcessCounts DEF Next

LEMMA StepRest ==
    ASSUME Typed, RestInv, [Next]_vars
    PROVE  RestInv'
<1>1. CASE \E t \in Threads : Work(t)
  <2>1. PICK t \in Threads : Work(t)
    BY <1>1
  <2>2. main' = main /\ main \notin {"write", "stopped"}
    BY <2>1 DEF Work, CheckStop, GetUrl, DropPage, CountPage, StorePage, FlushFull, At, command,
                RestInv
  <2>3. QED
    BY <2>2 DEF RestInv
<1>2. CASE Stop
  BY <1>2 DEF Stop, RestInv
<1>3. CASE Join
  BY <1>3, CrawlerAssumption DEF Join, RestInv, Ranks, threads
<1>4. CASE WriteRest
  <2>1. /\ rest \in Ranks /\ WritePageFile(rest) /\ rest' = rest + 1 /\ pc' = pc
        /\ main = "write" /\ main' = IF rest' = NumRanks THEN "stopped" ELSE "write"
    BY <1>4 DEF WriteRest, Typed, RestOK, threads
  <2>2. ASSUME faults'.now = 0, NEW r \in Ranks, r < rest'
        PROVE  buffer'[r] = <<>>
    <3>1. faults.now = 0 /\ buffer'[rest] = <<>> /\ \A q \in Ranks \ {rest} : buffer'[q] = buffer[q]
      BY <2>1, <2>2, WriteSettles DEF Typed
    <3>2. r = rest \/ r < rest
      BY <2>1, <2>2, CrawlerAssumption DEF Ranks
    <3>3. QED
      BY <2>1, <3>1, <3>2 DEF RestInv
  <2>3. rest' = NumRanks => \A r \in Ranks : r < rest'
    BY CrawlerAssumption DEF Ranks
  <2>4. QED
    BY <2>1, <2>2, <2>3 DEF RestInv
<1>5. CASE Crash \/ (\E r \in Ranks : CrashInWrite(r)) \/ Boot
  <2>1. main' \in {"down", "input"}
    BY <1>5 DEF Crash, CrashInWrite, Ends, Boot
  <2>2. QED
    BY <2>1 DEF RestInv
<1>6. CASE UNCHANGED vars
  BY <1>6 DEF RestInv, vars, threads, command, files
<1>7. QED
  BY <1>1, <1>2, <1>3, <1>4, <1>5, <1>6 DEF Next, Main

\* When 's' is done and no call of the process has failed, no page is in memory, no
\* worker is at work, and the first process has as many pages on disk as it counted,
\* for any workers, pages, ranks and sizes and however the commands interleave.
THEOREM StopIsComplete == Spec => []StopStoresAll
<1>1. Init => RestInv /\ CountInv
  <2> SUFFICES ASSUME Init PROVE RestInv /\ CountInv
    OBVIOUS
  <2>1. RestInv /\ Running /\ Numbered
    BY DEF Init, RestInv, Running, Numbered
  <2>2. Holders = {} /\ Storing = {} /\ kept = {} /\ crawled = 0
    BY DEF Init, Holders, Storing
  <2>3. Apart /\ Tally
    BY <2>2, FS_EmptySet DEF Apart, Tally
  <2>4. OnDisk = {} /\ InBuffers = {}
    BY DEF Init, OnDisk, InBuffers, Range
  <2>5. QED
    BY <2>1, <2>2, <2>3, <2>4 DEF CountInv, FirstProcess
<1>2. Typed /\ CountInv /\ [Next]_vars => CountInv'
  BY StepCounts
<1>3. Typed /\ RestInv /\ [Next]_vars => RestInv'
  BY StepRest
<1>4. Typed /\ [Next]_vars => Typed'
  BY WorkTyped, MainTyped, ProcessTyped, StutterTyped DEF Next
<1>5. Typed /\ RestInv /\ CountInv => StopStoresAll
  <2> SUFFICES ASSUME Typed, RestInv, CountInv, main = "stopped", faults.now = 0
               PROVE  /\ InBuffers = {}
                      /\ \A t \in Threads : pc[t] = "exit"
                      /\ crashes = 0 => crawled = Cardinality(OnDisk)
    BY DEF StopStoresAll
  <2>1. InBuffers = {}
    BY DEF RestInv, InBuffers, Range
  <2>2. \A t \in Threads : pc[t] = "exit"
    BY DEF RestInv
  <2>3. ASSUME crashes = 0 PROVE crawled = Cardinality(OnDisk)
    <3>1. Storing = {} /\ OnDisk = kept /\ Tally
      BY <2>1, <2>2, <2>3 DEF Storing, CountInv, FirstProcess
    <3>2. Cardinality(Storing) = 0 /\ Cardinality(kept) \in Nat
      BY <3>1, FS_EmptySet, FS_CardinalityType DEF Tally
    <3>3. QED
      BY <3>1, <3>2 DEF Tally
  <2>4. QED
    BY <2>1, <2>2, <2>3
<1>6. QED
  BY <1>1, <1>2, <1>3, <1>4, <1>5, InitTyped, PTL DEF Spec

-----------------------------------------------------------------------------
(* One place for a page. *)

\* No two positions of the vectors and files have the same page.
Alone ==
    /\ \A r, q \in Ranks : \A i \in DOMAIN buffer[r], j \in DOMAIN buffer[q] :
          buffer[r][i] = buffer[q][j] => r = q /\ i = j
    /\ \A r, q \in Ranks : \A i \in DOMAIN buffer[r], n \in DOMAIN disk[q] :
          \A j \in DOMAIN disk[q][n].pages : buffer[r][i] # disk[q][n].pages[j]
    /\ \A r, q \in Ranks : \A m \in DOMAIN disk[r], n \in DOMAIN disk[q] :
          \A i \in DOMAIN disk[r][m].pages, j \in DOMAIN disk[q][n].pages :
             disk[r][m].pages[i] = disk[q][n].pages[j] => r = q /\ m = n /\ i = j

PlaceInv == faults.ever = 0 => NumbersOK /\ OnDisk \cup InBuffers \subseteq kept /\ Alone

\* A vector becomes a file, all of it or as much as got to the disk.
LEMMA MoveAlone ==
    ASSUME Typed, NumbersOK, Running, Alone, NEW r \in Ranks,
           NEW f \in [pages : Seq(Pages), claims : Nat], PutFile(r, f),
           DOMAIN f.pages \subseteq DOMAIN buffer[r],
           \A i \in DOMAIN f.pages : f.pages[i] = buffer[r][i],
           buffer'[r] = <<>>, \A q \in Ranks : buffer'[q] \in {buffer[q], <<>>}
    PROVE  Alone'
<1>1. /\ \A q \in Ranks \ {r} : disk'[q] = disk[q]
      /\ DOMAIN disk'[r] = DOMAIN disk[r] \cup {numWritten[r]}
      /\ numWritten[r] \notin DOMAIN disk[r]
      /\ disk'[r][numWritten[r]] = f
      /\ \A n \in DOMAIN disk[r] : disk'[r][n] = disk[r][n]
  <2>1. WritesAt(r)
    BY DEF WritesAt
  <2>2. QED
    BY <2>1, PutNumbers, PutTyping DEF Typed
<1>2. DOMAIN <<>> = {}
  OBVIOUS
<1>3. \A q \in Ranks : \A i \in DOMAIN buffer'[q] :
         q # r /\ i \in DOMAIN buffer[q] /\ buffer'[q][i] = buffer[q][i]
  BY <1>2
<1>4. \A q \in Ranks : \A n \in DOMAIN disk'[q] :
         \/ n \in DOMAIN disk[q] /\ disk'[q][n] = disk[q][n]
         \/ q = r /\ n = numWritten[r] /\ disk'[q][n] = f
  BY <1>1
<1>5. ASSUME NEW p \in Ranks, NEW q \in Ranks,
             NEW i \in DOMAIN buffer'[p], NEW j \in DOMAIN buffer'[q],
             buffer'[p][i] = buffer'[q][j]
      PROVE  p = q /\ i = j
  BY <1>3, <1>5 DEF Alone
<1>6. ASSUME NEW p \in Ranks, NEW q \in Ranks,
             NEW i \in DOMAIN buffer'[p], NEW n \in DOMAIN disk'[q],
             NEW j \in DOMAIN disk'[q][n].pages
      PROVE  buffer'[p][i] # disk'[q][n].pages[j]
  <2>1. p # r /\ i \in DOMAIN buffer[p] /\ buffer'[p][i] = buffer[p][i]
    BY <1>3
  <2>2. CASE n \in DOMAIN disk[q] /\ disk'[q][n] = disk[q][n]
    BY <2>1, <2>2 DEF Alone
  <2>3. CASE disk'[q][n] = f
    BY <2>1, <2>3 DEF Alone
  <2>4. QED
    BY <1>4, <2>2, <2>3
<1>7. ASSUME NEW p \in Ranks, NEW q \in Ranks,
             NEW m \in DOMAIN disk'[p], NEW n \in DOMAIN disk'[q],
             NEW i \in DOMAIN disk'[p][m].pages, NEW j \in DOMAIN disk'[q][n].pages,
             disk'[p][m].pages[i] = disk'[q][n].pages[j]
      PROVE  p = q /\ m = n /\ i = j
  <2>1. CASE /\ m \in DOMAIN disk[p] /\ disk'[p][m] = disk[p][m]
             /\ n \in DOMAIN disk[q] /\ disk'[q][n] = disk[q][n]
    BY <1>7, <2>1 DEF Alone
  <2>2. CASE /\ m \in DOMAIN disk[p] /\ disk'[p][m] = disk[p][m]
             /\ disk'[q][n] = f
    BY <1>7, <2>2 DEF Alone
  <2>3. CASE /\ disk'[p][m] = f
             /\ n \in DOMAIN disk[q] /\ disk'[q][n] = disk[q][n]
    BY <1>7, <2>3 DEF Alone
  <2>4. CASE /\ p = r /\ m = numWritten[r] /\ disk'[p][m] = f
             /\ q = r /\ n = numWritten[r] /\ disk'[q][n] = f
    <3>1. i \in DOMAIN buffer[r] /\ j \in DOMAIN buffer[r] /\ buffer[r][i] = buffer[r][j]
      BY <1>7, <2>4
    <3>2. QED
      BY <2>4, <3>1 DEF Alone
  <2>5. QED
    BY <1>4, <2>1, <2>2, <2>3, <2>4
<1>8. QED
  BY <1>5, <1>6, <1>7 DEF Alone

\* A page that is nowhere yet is stored.
LEMMA StoreAlone ==
    ASSUME Typed, Alone, NEW t \in Threads, StorePage(t), held[t] \notin OnDisk \cup InBuffers
    PROVE  Alone'
<1>1. held[t] \in Pages /\ RankHeld(t) \in Ranks /\ disk' = disk
  BY CrawlerAssumption DEF StorePage, At, Typed, HeldOK, RankHeld, Ranks
<1>2. /\ \A r \in Ranks \ {RankHeld(t)} : buffer'[r] = buffer[r]
      /\ buffer'[RankHeld(t)] = Append(buffer[RankHeld(t)], held[t])
  BY <1>1 DEF StorePage, Typed, TypeOK
<1>3. DEFINE s == buffer[RankHeld(t)]
<1>4. \A i \in DOMAIN Append(s, held[t]) :
         \/ i \in DOMAIN s /\ Append(s, held[t])[i] = s[i]
         \/ i = Len(s) + 1 /\ Append(s, held[t])[i] = held[t]
  <2>1. s \in Seq(Pages)
    BY <1>1 DEF Typed, TypeOK
  <2>2. Len(s) \in Nat /\ DOMAIN s = 1 .. Len(s)
    BY <2>1, LenProperties
  <2>3. /\ Append(s, held[t]) \in Seq(Pages)
        /\ Len(Append(s, held[t])) = Len(s) + 1
        /\ \A i \in 1 .. Len(s) : Append(s, held[t])[i] = s[i]
        /\ Append(s, held[t])[Len(s) + 1] = held[t]
    BY <1>1, <2>1, AppendProperties
  <2>4. DOMAIN Append(s, held[t]) = 1 .. Len(s) + 1
    BY <2>3, LenProperties
  <2>5. QED
    BY <2>2, <2>3, <2>4
<1>5. \A r \in Ranks : \A i \in DOMAIN buffer'[r] :
         \/ i \in DOMAIN buffer[r] /\ buffer'[r][i] = buffer[r][i]
         \/ r = RankHeld(t) /\ i = Len(s) + 1 /\ buffer'[r][i] = held[t]
  BY <1>2, <1>4
<1>6. /\ \A r \in Ranks : \A i \in DOMAIN buffer[r] : buffer[r][i] # held[t]
      /\ \A r \in Ranks : \A n \in DOMAIN disk[r] : \A j \in DOMAIN disk[r][n].pages :
            disk[r][n].pages[j] # held[t]
  BY DEF OnDisk, InBuffers, Range
<1> HIDE DEF s
<1>7. ASSUME NEW p \in Ranks, NEW q \in Ranks,
             NEW i \in DOMAIN buffer'[p], NEW j \in DOMAIN buffer'[q],
             buffer'[p][i] = buffer'[q][j]
      PROVE  p = q /\ i = j
  <2>1. CASE /\ i \in DOMAIN buffer[p] /\ buffer'[p][i] = buffer[p][i]
             /\ j \in DOMAIN buffer[q] /\ buffer'[q][j] = buffer[q][j]
    <3>1. buffer[p][i] = buffer[q][j]
      BY <1>7, <2>1
    <3>2. QED
      BY <2>1, <3>1 DEF Alone
  <2>2. QED
    BY <1>5, <1>6, <1>7, <2>1
<1>8. ASSUME NEW p \in Ranks, NEW q \in Ranks,
             NEW i \in DOMAIN buffer'[p], NEW n \in DOMAIN disk[q],
             NEW j \in DOMAIN disk[q][n].pages
      PROVE  buffer'[p][i] # disk[q][n].pages[j]
  BY <1>5, <1>6 DEF Alone
<1>9. QED
  BY <1>1, <1>7, <1>8 DEF Alone

\* Vectors that are cleared take nothing with them.
LEMMA ClearAlone ==
    ASSUME Alone, disk' = disk, \A q \in Ranks : buffer'[q] \in {buffer[q], <<>>}
    PROVE  Alone' /\ (OnDisk \cup InBuffers)' \subseteq OnDisk \cup InBuffers
<1>1. \A q \in Ranks : \A i \in DOMAIN buffer'[q] :
         i \in DOMAIN buffer[q] /\ buffer'[q][i] = buffer[q][i]
  <2>1. DOMAIN <<>> = {}
    OBVIOUS
  <2>2. QED
    BY <2>1
<1>2. Alone'
  BY <1>1 DEF Alone
<1>3. \A q \in Ranks : Range(buffer'[q]) \subseteq Range(buffer[q])
  BY <1>1 DEF Range
<1>4. QED
  BY <1>2, <1>3 DEF OnDisk, InBuffers

LEMMA WriteAlone ==
    ASSUME Typed, NumbersOK, Running, Alone, NEW r \in Ranks, WritePageFile(r), faults'.ever = 0
    PROVE  Alone' /\ (OnDisk \cup InBuffers)' \subseteq OnDisk \cup InBuffers
<1>1. WriteSucceeds(r)
  BY DEF WritePageFile, WriteFails, Fails, Typed, TypeOK
<1>2. /\ WholeFile(r) \in [pages : Seq(Pages), claims : Nat]
      /\ PutFile(r, WholeFile(r))
      /\ WholeFile(r).pages = buffer[r]
      /\ buffer' = [buffer EXCEPT ![r] = <<>>]
  BY <1>1, FileTyping DEF WriteSucceeds, Typed
<1>3. Alone'
  <2>1. buffer'[r] = <<>> /\ \A q \in Ranks : buffer'[q] \in {buffer[q], <<>>}
    BY <1>2 DEF Typed, TypeOK
  <2>2. QED
    BY <1>2, <2>1, MoveAlone
<1>4. Numbered
  BY DEF Numbered, NumbersOK, NumberedTo, Typed, TypeOK
<1>5. (OnDisk \cup InBuffers)' = OnDisk \cup InBuffers
  BY <1>4, WriteKeepsStored
<1>6. QED
  BY <1>3, <1>5

\* The end of the process in the middle of a write.
LEMMA CutAlone ==
    ASSUME Typed, NumbersOK, Alone, OnDisk \cup InBuffers \subseteq kept,
           NEW r \in Ranks, CrashInWrite(r)
    PROVE  Alone' /\ (OnDisk \cup InBuffers)' \subseteq kept'
<1>1. PICK k \in 0 .. Len(buffer[r]) :
         /\ PutFile(r, TornFile(r, k))
         /\ kept' = kept \cap (OnDisk \cup Range(SubSeq(buffer[r], 1, k)))
  BY DEF CrashInWrite
<1>2. Running /\ \A q \in Ranks : buffer'[q] = <<>>
  BY DEF CrashInWrite, Ends
<1>3. /\ TornFile(r, k) \in [pages : Seq(Pages), claims : Nat]
      /\ TornFile(r, k).pages = SubSeq(buffer[r], 1, k)
      /\ buffer[r] \in Seq(Pages)
  BY FileTyping DEF Typed, TypeOK
<1>4. /\ DOMAIN SubSeq(buffer[r], 1, k) \subseteq DOMAIN buffer[r]
      /\ \A i \in DOMAIN SubSeq(buffer[r], 1, k) : SubSeq(buffer[r], 1, k)[i] = buffer[r][i]
  <2>1. Len(buffer[r]) \in Nat /\ DOMAIN buffer[r] = 1 .. Len(buffer[r])
    BY <1>3, LenProperties
  <2>2. /\ SubSeq(buffer[r], 1, k) \in Seq(Pages)
        /\ Len(SubSeq(buffer[r], 1, k)) = k
        /\ \A i \in 1 .. k : SubSeq(buffer[r], 1, k)[i] = buffer[r][i]
    BY <1>3, <2>1, SMT
  <2>3. DOMAIN SubSeq(buffer[r], 1, k) = 1 .. k
    BY <2>2, LenProperties
  <2>4. QED
    BY <2>1, <2>2, <2>3
<1>5. Alone'
  BY <1>1, <1>2, <1>3, <1>4, MoveAlone
<1>6. Numbered
  BY <1>2 DEF Numbered, NumbersOK, NumberedTo, Typed, TypeOK
<1>7. OnDisk' = OnDisk \cup Range(SubSeq(buffer[r], 1, k))
  BY <1>1, <1>3, <1>6, PutAdds
<1>8. InBuffers' = {}
  BY <1>2 DEF InBuffers, Range
<1>9. Range(SubSeq(buffer[r], 1, k)) \subseteq InBuffers
  <2>1. Range(SubSeq(buffer[r], 1, k)) \subseteq Range(buffer[r])
    BY <1>4 DEF Range
  <2>2. QED
    BY <2>1 DEF InBuffers
<1>10. QED
  BY <1>1, <1>5, <1>7, <1>8, <1>9

LEMMA StepPlaces ==
    ASSUME Typed, CountInv, PlaceInv, [Next]_vars
    PROVE  PlaceInv'
<1> SUFFICES ASSUME faults'.ever = 0
             PROVE  NumbersOK' /\ (OnDisk \cup InBuffers)' \subseteq kept' /\ Alone'
  BY DEF PlaceInv
<1>1. faults.ever = 0
  <2>1. \A r \in Ranks : WritePageFile(r) => faults.ever = 0
    BY DEF WritePageFile, WriteSucceeds, WriteFails, Fails, Typed, TypeOK
  <2>2. \A t \in Threads : Work(t) => faults.ever = 0
    <3> SUFFICES ASSUME NEW t \in Threads, Work(t) PROVE faults.ever = 0
      OBVIOUS
    <3>1. CASE FlushFull(t) /\ OverLimit(RankHeld(t))
      <4>1. RankHeld(t) \in Ranks /\ WritePageFile(RankHeld(t))
        BY <3>1, CrawlerAssumption DEF FlushFull, At, Typed, HeldOK, RankHeld, Ranks
      <4>2. QED
        BY <2>1, <4>1
    <3>2. CASE ~(FlushFull(t) /\ OverLimit(RankHeld(t)))
      BY <3>2 DEF Work, CheckStop, GetUrl, DropPage, CountPage, StorePage, FlushFull
    <3>3. QED
      BY <3>1, <3>2
  <2>3. WriteRest => faults.ever = 0
    BY <2>1 DEF WriteRest, Typed, RestOK
  <2>4. QED
    BY <2>2, <2>3 DEF Next, Main, Stop, Join, Crash, CrashInWrite, Ends, Boot, vars
<1>2. NumbersOK /\ OnDisk \cup InBuffers \subseteq kept /\ Alone /\ TypeOK
  BY <1>1 DEF PlaceInv, Typed
<1>3. NumbersOK'
  BY <1>2, StepNumbers DEF OpensSucceed
<1>4. ASSUME disk' = disk, buffer' = buffer, kept' = kept
      PROVE  (OnDisk \cup InBuffers)' \subseteq kept' /\ Alone'
  BY <1>2, <1>4 DEF OnDisk, InBuffers, Alone
<1>5. ASSUME NEW r \in Ranks, WritePageFile(r), Running, kept' = kept
      PROVE  (OnDisk \cup InBuffers)' \subseteq kept' /\ Alone'
  BY <1>2, <1>5, WriteAlone
<1>6. ASSUME NEW t \in Threads, Work(t)
      PROVE  (OnDisk \cup InBuffers)' \subseteq kept' /\ Alone'
  <2>1. CASE StorePage(t)
    <3>1. held[t] \notin kept /\ kept' = kept \cup {held[t]}
      BY <2>1 DEF StorePage, At, CountInv, Apart, Holders
    <3>2. held[t] \notin OnDisk \cup InBuffers
      BY <1>2, <3>1
    <3>3. QED
      BY <1>2, <2>1, <3>1, <3>2, StoreAlone, StoreAdds
  <2>2. CASE FlushFull(t) /\ OverLimit(RankHeld(t))
    <3>1. RankHeld(t) \in Ranks /\ WritePageFile(RankHeld(t)) /\ Running /\ kept' = kept
      BY <2>2, CrawlerAssumption DEF FlushFull, At, Typed, HeldOK, RankHeld, Ranks
    <3>2. QED
      BY <1>5, <3>1
  <2>3. CASE ~StorePage(t) /\ ~(FlushFull(t) /\ OverLimit(RankHeld(t)))
    <3>1. kept' = kept /\ disk' = disk /\ buffer' = buffer
      BY <1>6, <2>3 DEF Work, CheckStop, GetUrl, DropPage, CountPage, FlushFull, files
    <3>2. QED
      BY <1>4, <3>1
  <2>4. QED
    BY <2>1, <2>2, <2>3
<1>7. CASE Stop \/ Join \/ UNCHANGED vars
  BY <1>3, <1>4, <1>7 DEF Stop, Join, vars, files
<1>8. CASE WriteRest
  <2>1. rest \in Ranks /\ WritePageFile(rest) /\ Running /\ kept' = kept
    BY <1>8 DEF WriteRest, Running, Typed, RestOK
  <2>2. QED
    BY <1>3, <1>5, <2>1
<1>9. CASE Crash
  <2>1. disk' = disk /\ kept' = kept \cap OnDisk /\ \A q \in Ranks : buffer'[q] = <<>>
    BY <1>9 DEF Crash, Ends
  <2>2. OnDisk' = OnDisk /\ InBuffers' = {}
    BY <2>1 DEF OnDisk, InBuffers, Range
  <2>3. QED
    BY <1>2, <1>3, <2>1, <2>2, ClearAlone
<1>10. ASSUME NEW r \in Ranks, CrashInWrite(r)
       PROVE  (OnDisk \cup InBuffers)' \subseteq kept' /\ Alone'
  BY <1>2, <1>10, CutAlone
<1>11. CASE Boot
  <2>1. disk' = disk /\ kept' = kept /\ \A q \in Ranks : buffer'[q] = <<>>
    BY <1>11 DEF Boot
  <2>2. QED
    BY <1>2, <1>3, <2>1, ClearAlone
<1>12. QED
  BY <1>3, <1>6, <1>7, <1>8, <1>9, <1>10, <1>11 DEF Next, Main

\* The positions that Places counts.
LEMMA PlacesOf ==
    ASSUME NEW p, NEW x \in Places(p)
    PROVE  \/ \E r \in Ranks : \E i \in DOMAIN buffer[r] :
                 x = <<r, 0, 0, i>> /\ buffer[r][i] = p
           \/ \E r \in Ranks : \E n \in DOMAIN disk[r] : \E i \in DOMAIN disk[r][n].pages :
                 x = <<r, 1, n, i>> /\ disk[r][n].pages[i] = p
BY DEF Places

\* While no write has failed a page is in one position of one vector or file, for any
\* workers and ranks, through ends of the process, in a write or not, and restarts:
\* no page is indexed twice.
THEOREM PagesStoredOnce == Spec => []StoredOnce
<1>1. Init => CountInv /\ PlaceInv
  <2> SUFFICES ASSUME Init PROVE CountInv /\ PlaceInv
    OBVIOUS
  <2>1. NumbersOK /\ Alone /\ Running /\ Numbered
    BY DEF Init, NumbersOK, NumberedTo, Running, Alone, Numbered
  <2>2. OnDisk = {} /\ InBuffers = {}
    BY DEF Init, OnDisk, InBuffers, Range
  <2>3. Holders = {} /\ Storing = {} /\ kept = {} /\ crawled = 0
    BY DEF Init, Holders, Storing
  <2>4. Apart /\ Tally
    BY <2>3, FS_EmptySet DEF Apart, Tally
  <2>5. QED
    BY <2>1, <2>2, <2>3, <2>4 DEF CountInv, PlaceInv, FirstProcess
<1>2. Typed /\ [Next]_vars => Typed'
  BY WorkTyped, MainTyped, ProcessTyped, StutterTyped DEF Next
<1>3. Typed /\ CountInv /\ [Next]_vars => CountInv'
  BY StepCounts
<1>4. Typed /\ CountInv /\ PlaceInv /\ [Next]_vars => PlaceInv'
  BY StepPlaces
<1>5. PlaceInv => StoredOnce
  <2> SUFFICES ASSUME Alone, NEW p \in Pages PROVE Cardinality(Places(p)) <= 1
    BY DEF PlaceInv, StoredOnce
  <2>1. \A x, y \in Places(p) : x = y
    <3> SUFFICES ASSUME NEW x \in Places(p), NEW y \in Places(p) PROVE x = y
      OBVIOUS
    <3>1. /\ \/ \E r \in Ranks : \E i \in DOMAIN buffer[r] :
                    x = <<r, 0, 0, i>> /\ buffer[r][i] = p
             \/ \E r \in Ranks : \E n \in DOMAIN disk[r] : \E i \in DOMAIN disk[r][n].pages :
                    x = <<r, 1, n, i>> /\ disk[r][n].pages[i] = p
          /\ \/ \E r \in Ranks : \E i \in DOMAIN buffer[r] :
                    y = <<r, 0, 0, i>> /\ buffer[r][i] = p
             \/ \E r \in Ranks : \E n \in DOMAIN disk[r] : \E i \in DOMAIN disk[r][n].pages :
                    y = <<r, 1, n, i>> /\ disk[r][n].pages[i] = p
      BY PlacesOf
    <3>2. QED
      BY <3>1 DEF Alone
  <2>2. CASE Places(p) = {}
    BY <2>2, FS_EmptySet
  <2>3. CASE Places(p) # {}
    <3>1. PICK x \in Places(p) : Places(p) = {x}
      BY <2>1, <2>3
    <3>2. QED
      BY <3>1, FS_Singleton
  <2>4. QED
    BY <2>2, <2>3
<1>6. QED
  BY <1>1, <1>2, <1>3, <1>4, <1>5, InitTyped, PTL DEF Spec
=============================================================================
