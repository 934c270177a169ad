--------------------------- MODULE InvertedIndex ---------------------------
(***************************************************************************)
(* The index of one rank: how IndexBuilder fills the posting lists         *)
(* (src/index/index_builder.cpp), how WriteBlobV4 lays them out in a blob  *)
(* (blob_format.h), and how Index reads them back out of it (index.cpp).   *)
(*                                                                         *)
(* All documents share one line of positions.  A document takes one for    *)
(* each word of its URL, title, body and anchor texts, and one more, where *)
(* the list of each of its words has an end-of-document post, '%'.         *)
(***************************************************************************)
EXTENDS HashTable, FiniteSetsExt, TLC

CONSTANTS
    Terms,        \* the words, in documents and in queries
    TermLen,      \* the length of a word in bytes
    Stride,       \* CHECKPOINT_STRIDE
    DeltaLimit,   \* a post has 29 bits for the distance from the last
    FirstBuckets, \* the builder's table starts at 2^20 buckets
    MinBuckets    \* WriteBlobV4 starts at 16 buckets

ASSUME IndexAssumption ==
    /\ Hash \in [Terms -> Nat]
    /\ TermLen \in [Terms -> Nat \ {0}]
    /\ {Stride, DeltaLimit, FirstBuckets, MinBuckets} \subseteq Nat \ {0}

-----------------------------------------------------------------------------
(* Building *)

\* encodePost shifts the distance left by three bits of the 32.
Post(dec, delta) == [dec |-> dec, delta |-> delta % DeltaLimit]

EmptyList == [posts |-> <<>>, seeks |-> <<>>, last |-> 0, numDocs |-> 0, occurrences |-> 0,
              lastDoc |-> -1]

EmptyBuilder == [dictionary |-> EmptyTable(FirstBuckets), lists |-> [t \in {} |-> EmptyList],
                 docs |-> <<>>, counter |-> 0]

\* A post, and a checkpoint with every Stride-th.
AddPost(pl, dec, pos) ==
    [pl EXCEPT !.posts = Append(@, Post(dec, pos - pl.last)),
               !.last = pos,
               !.seeks = IF (Len(pl.posts) + 1) % Stride # 0 THEN @
                         ELSE Append(@, [abs |-> pos, index |-> Len(pl.posts) + 1])]

GetPostingList(ib, t) == IF Has(ib.dictionary, t) THEN ib.lists[t] ELSE EmptyList

AddPostDirect(ib, token) ==
    LET doc == Len(ib.docs)
        pl == AddPost(GetPostingList(ib, token.term), token.dec, ib.counter)
        counted == [pl EXCEPT !.numDocs = IF pl.lastDoc = doc THEN @ ELSE @ + 1,
                              !.lastDoc = doc,
                              !.occurrences = @ + 1]
    IN  [ib EXCEPT !.dictionary = Find(@, token.term),
                   !.lists = [t \in DOMAIN @ \cup {token.term} |-> IF t = token.term THEN counted ELSE @[t]],
                   !.counter = @ + 1]

\* The words of a page, field by field; '#', '@', 'b' and '$' in the posts.
Tokens(page) ==
    LET field(words, dec) == [i \in DOMAIN words |-> [term |-> words[i], dec |-> dec]]
    IN  field(page.url, "url") \o field(page.title, "title") \o field(page.words, "body")
            \o field(page.anchor, "anchor")

AddTokens(ib, tokens) ==
    LET after[n \in 0 .. Len(tokens)] ==
            IF n = 0 THEN ib ELSE AddPostDirect(after[n - 1], tokens[n])
    IN  after[Len(tokens)]

AddDocument(ib, page) ==
    LET filled == AddTokens(ib, Tokens(page))
        terms == {token.term : token \in Range(Tokens(page))}
    IN  [filled EXCEPT !.lists = [t \in DOMAIN @ |-> IF t \in terms
                                                     THEN AddPost(@[t], "end", filled.counter)
                                                     ELSE @[t]],
                       !.docs = Append(@, [start |-> ib.counter, end |-> filled.counter, url |-> page.url,
                                           title |-> page.title, bodyLength |-> Len(page.words)]),
                       !.counter = @ + 1]

\* Finalize rebuilds the table.
Finalized(ib) == [ib EXCEPT !.dictionary = Optimize(@, 3)]

AddDocuments(pages) ==
    LET after[n \in 0 .. Len(pages)] ==
            IF n = 0 THEN EmptyBuilder ELSE AddDocument(after[n - 1], pages[n])
    IN  after[Len(pages)]

Built(pages) == Finalized(AddDocuments(pages))

-----------------------------------------------------------------------------
(* Writing the blob *)

RoundUp(n) == ((n + 7) \div 8) * 8

\* The number of buckets doubles until it leaves half of them empty.
NumBuckets(n) ==
    LET after[k \in 0 .. n] ==
            IF k = 0 THEN MinBuckets
            ELSE IF after[k - 1] >= 2 * n THEN after[k - 1] ELSE 2 * after[k - 1]
    IN  after[n]

\* A header of 24 bytes, the word and a NUL.
TupleBytes(t) == 24 + TermLen[t] + 1

TupleSize(t) == RoundUp(TupleBytes(t))

ListBytes(pl) == 24 + 4 * Len(pl.posts) + 8 * Len(pl.seeks)

\* Offsets of things of the given sizes laid out from an address on.
Laid(start, sizes) ==
    LET at[i \in 1 .. Len(sizes) + 1] == IF i = 1 THEN start ELSE at[i - 1] + sizes[i - 1]
    IN  at

\* A byte of a string is the string and the number of the byte.
Size(string) == Last(Laid(0, [i \in DOMAIN string |-> TermLen[string[i]]]))

Bytes(string) == [i \in 1 .. Size(string) |-> <<string, i>>]

\* The strings of a document follow those of the documents before: its address, then
\* the words of its title, each with a reference; the record says where they begin.
StrungUp(so, doc) ==
    LET words == [i \in DOMAIN doc.title |-> <<doc.title[i]>>]
        wordAt == Laid(Len(so.arena) + Size(doc.url), [i \in DOMAIN words |-> Size(words[i])])
    IN  [arena |-> so.arena \o Bytes(doc.url) \o FlattenSeq([i \in DOMAIN words |-> Bytes(words[i])]),
         refs |-> so.refs \o [i \in DOMAIN words |-> [offset |-> wordAt[i], length |-> Size(words[i])]],
         records |-> Append(so.records,
                            [start |-> doc.start, end |-> doc.end, bodyLength |-> doc.bodyLength,
                             url |-> [offset |-> Len(so.arena), length |-> Size(doc.url)],
                             titleFirst |-> Len(so.refs), titleCount |-> Len(doc.title)])]

Strung(docs) ==
    LET after[n \in 0 .. Len(docs)] ==
            IF n = 0 THEN [arena |-> <<>>, refs |-> <<>>, records |-> <<>>]
            ELSE StrungUp(after[n - 1], docs[n])
    IN  after[Len(docs)]

\* The chains of the dictionary, as numbers of entries, one bucket after the other;
\* each that is not empty ends with a zero.
Chains(entries, buckets) ==
    LET after[n \in 0 .. Len(entries)] ==
            IF n = 0 THEN EmptyTable(buckets)
            ELSE [after[n - 1] EXCEPT ![Hash[entries[n]] % buckets] = Append(@, n)]
    IN  after[Len(entries)]

Links(chains, buckets) ==
    FlattenSeq([i \in 1 .. buckets |->
                   IF chains[i - 1] = <<>> THEN <<>> ELSE Append(chains[i - 1], 0)])

\* The sections of a blob, each with its address and its size: documents, title
\* words, dictionary, posting lists and strings.  The zero at the end of a chain takes
\* eight bytes.
Blob(ib) ==
    LET entries == Entries(ib.dictionary)
        buckets == NumBuckets(Len(entries))
        chains == Chains(entries, buckets)
        links == Links(chains, buckets)
        strung == Strung(ib.docs)
        titles == 128 + 64 * Len(ib.docs)
        dict == titles + 8 * Len(strung.refs)
        tupleAt == Laid(dict + 8 + 8 * buckets,
                        [k \in DOMAIN links |-> IF links[k] = 0 THEN 8 ELSE TupleSize(entries[links[k]])])
        listAt == Laid(Last(tupleAt),
                       [i \in DOMAIN entries |-> RoundUp(ListBytes(ib.lists[entries[i]]))])
        tuple(i) == IF i = 0 THEN [length |-> 0]
                    ELSE [length |-> TupleSize(entries[i]), list |-> listAt[i],
                          hash |-> Hash[entries[i]], term |-> entries[i]]
    IN  [docs |-> strung.records,
         refs |-> strung.refs,
         arena |-> strung.arena,
         buckets |-> [b \in 0 .. buckets - 1 |->
                         IF chains[b] = <<>> THEN 0
                         ELSE tupleAt[CHOOSE k \in DOMAIN links : links[k] = chains[b][1]]],
         tuples |-> [off \in {tupleAt[k] : k \in DOMAIN links} |->
                        tuple(links[CHOOSE k \in DOMAIN links : tupleAt[k] = off])],
         lists |-> [off \in {listAt[i] : i \in DOMAIN entries} |->
                       ib.lists[entries[CHOOSE i \in DOMAIN entries : listAt[i] = off]]],
         extents |-> << <<0, 128>>, <<128, titles - 128>>, <<titles, 8 * Len(strung.refs)>>,
                        <<dict, 8 + 8 * buckets>> >>
                     \o [k \in DOMAIN links |->
                            <<tupleAt[k], IF links[k] = 0 THEN 8 ELSE TupleBytes(entries[links[k]])>>]
                     \o [i \in DOMAIN entries |-> <<listAt[i], ListBytes(ib.lists[entries[i]])>>]
                     \o << <<Last(listAt), Len(strung.arena)>> >>]

-----------------------------------------------------------------------------
(* Reading *)

BucketOf(blob, t) == Hash[t] % Cardinality(DOMAIN blob.buckets)

\* find_term_offset: along the chain to the word, or to its end.
FindTermOffset(blob, t) ==
    LET walk[off \in DOMAIN blob.tuples] ==
            LET st == blob.tuples[off]
            IN  CASE st.length = 0 -> 0
                  [] st.length > 0 /\ st.hash = Hash[t] /\ st.term = t -> st.list
                  [] OTHER -> walk[off + st.length]
        first == blob.buckets[BucketOf(blob, t)]
    IN  IF first = 0 THEN 0 ELSE walk[first]

\* getPostingList; a word that is not in the dictionary has an empty view.
ViewOf(blob, t) ==
    IF FindTermOffset(blob, t) = 0 THEN EmptyList ELSE blob.lists[FindTermOffset(blob, t)]

\* What stands at a place of the arena: a string, if the place is that of one.
TextAt(blob, ref) ==
    LET bytes == SubSeq(blob.arena, ref.offset + 1, ref.offset + ref.length)
    IN  IF bytes # <<>> /\ bytes = Bytes(bytes[1][1]) THEN bytes[1][1] ELSE <<>>

\* GetDocumentMetadata
Metadata(blob, record) ==
    [start |-> record.start, end |-> record.end, bodyLength |-> record.bodyLength,
     url |-> TextAt(blob, record.url),
     title |-> FlattenSeq([i \in 1 .. record.titleCount |-> TextAt(blob, blob.refs[record.titleFirst + i])])]

\* Index as it is read.
Level(blob) ==
    [docs |-> [i \in DOMAIN blob.docs |-> Metadata(blob, blob.docs[i])],
     lists |-> [t \in Terms |-> ViewOf(blob, t)]]

\* findCheckpoint, or the first post if there is none.
Checkpoint(pl, loc) ==
    LET below == {k \in DOMAIN pl.seeks : pl.seeks[k].abs <= loc}
    IN  IF below = {} THEN [abs |-> pl.posts[1].delta, index |-> 1] ELSE pl.seeks[Max(below)]

\* The positions of the posts from one whose position is known.
AbsolutesFrom(pl, known) ==
    LET deltas == [k \in 1 .. Len(pl.posts) - known.index |-> pl.posts[known.index + k].delta]
    IN  [i \in known.index .. Len(pl.posts) |-> Laid(known.abs, deltas)[i - known.index + 1]]

\* walk_field_posts: where the word is in a field of document d.
FieldPositions(lv, d, t, dec) ==
    LET pl == lv.lists[t]
        doc == lv.docs[d + 1]
        abs == AbsolutesFrom(pl, Checkpoint(pl, doc.start))
    IN  IF pl.posts = <<>> THEN {}
        ELSE {abs[i] : i \in {j \in DOMAIN abs : /\ doc.start <= abs[j] /\ abs[j] < doc.end
                                                 /\ pl.posts[j].dec = dec}}
=============================================================================
