----------------------------- MODULE ResultPage -----------------------------
(***************************************************************************)
(* The page the leader makes of the merged results: SearchEngine::search   *)
(* after the distributor has answered, fetch_page_snippets and the shards' *)
(* /snippet requests (src/engine/search_engine.hpp, query_distributor.hpp, *)
(* shard_client.hpp, server/ShardPlugin.cpp).                              *)
(*                                                                         *)
(* A shard numbers the documents of each of its levels from 0; a result    *)
(* carries the shard and the number, not the level.                        *)
(***************************************************************************)
EXTENDS Naturals, Sequences, FiniteSets, SequencesExt, Places

CONSTANTS
    Shards,       \* the configured shards
    Corpus,       \* Corpus[s][l]: the pages of level l of shard s, document 0 first
    HasData,      \* the pages whose page file can be read
    HostOf,       \* extract_authority of a page's URL
    MaxPerHost,   \* max_per_host of the profile
    Answers,      \* results the distributor may answer with
    Offsets,      \* offset parameters
    Limits,       \* limit parameters
    None          \* an empty snippet

\* A merged result.  The page is the URL; the level is lost on the way.
ResultOf(s, l, d) == [shard |-> s, doc |-> d, page |-> Corpus[s][l][d + 1]]

AllResults == UNION {UNION {{ResultOf(s, l, d) : d \in 0 .. Len(Corpus[s][l]) - 1} :
                               l \in DOMAIN Corpus[s]} : s \in Shards}

Pages == {r.page : r \in AllResults}

ASSUME PageAssumption ==
    /\ Shards # {}
    /\ \A s \in Shards : Corpus[s] \in Seq(Seq(Pages))
    /\ MaxPerHost \in Nat
    /\ \A a \in Answers : a \in Seq(AllResults)
    /\ Offsets \subseteq Nat
    /\ Limits \subseteq Nat
    /\ None \notin Pages

VARIABLES
    phase,      \* "collapse", "fetch", "stitch", "done"
    offset,     \* the request's parameters
    limit,
    all,        \* the results, collapsed once the first phase is over
    page,       \* the slice of them that is shown
    asked,      \* shards whose snippets have been asked for
    snippets,   \* shard_snippets: a page's snippet, by shard and document number
    shown       \* the snippet each result of the page ends up with

vars == <<phase, offset, limit, all, page, asked, snippets, shown>>

\* collapse_by_host keeps result i unless its host has had its places.
Kept(results, i) ==
    MaxPerHost = 0 \/
    Cardinality({j \in 1 .. i : HostOf[results[j].page] = HostOf[results[i].page]}) <= MaxPerHost

Collapsed(results) ==
    LET kept == InOrder({i \in DOMAIN results : Kept(results, i)})
    IN  [k \in DOMAIN kept |-> results[kept[k]]]

\* Results offset .. min(offset + limit, size) - 1, none past the end.
Slice(results) ==
    SubSeq(results, offset + 1, IF offset + limit < Len(results) THEN offset + limit
                                                                  ELSE Len(results))

Collapse ==
    /\ phase = "collapse"
    /\ all' = Collapsed(all)
    /\ page' = Slice(Collapsed(all))
    /\ phase' = IF offset >= Len(Collapsed(all)) THEN "done" ELSE "fetch"
    /\ UNCHANGED <<offset, limit, asked, snippets, shown>>

ShardsOfPage == {page[i].shard : i \in DOMAIN page}

\* The documents asked of a shard, in the order of the page.
DocsAsked(s) == LET own == SelectSeq(page, LAMBDA r : r.shard = s)
                IN  [i \in DOMAIN own |-> own[i].doc]

\* The levels of the shard that have such a document, and its page's data.
LevelsWith(s, doc) ==
    {l \in DOMAIN Corpus[s] : doc < Len(Corpus[s][l]) /\ Corpus[s][l][doc + 1] \in HasData}

\* fetch_snippet_by_id: from the first of these levels.
SnippetById(s, doc) ==
    LET levels == LevelsWith(s, doc)
    IN  IF levels = {} THEN None
        ELSE Corpus[s][CHOOSE l \in levels : \A k \in levels : l <= k][doc + 1]

\* fetch_snippets of one shard.  The connection may fail or break, so any number of
\* lines may arrive; empty snippets are not kept.
FetchSnippets(s) ==
    /\ phase = "fetch"
    /\ s \in ShardsOfPage \ asked
    /\ \E k \in 0 .. Len(DocsAsked(s)) :
         LET docs == {DocsAsked(s)[i] : i \in 1 .. k}
         IN  snippets' = [snippets EXCEPT ![s] =
                             [d \in {x \in docs : SnippetById(s, x) # None} |-> SnippetById(s, d)]]
    /\ asked' = asked \cup {s}
    /\ UNCHANGED <<phase, offset, limit, all, page, shown>>

AllAsked ==
    /\ phase = "fetch"
    /\ asked = ShardsOfPage
    /\ phase' = "stitch"
    /\ UNCHANGED <<offset, limit, all, page, asked, snippets, shown>>

\* Mutant: the snippet is looked up by document number alone.
AnyShardTakes(i) ==
    LET owners == {s \in Shards : page[i].doc \in DOMAIN snippets[s]}
    IN  IF owners = {} THEN None ELSE snippets[CHOOSE s \in owners : TRUE][page[i].doc]

\* What result i finds: the snippet is moved out, so a second result with the same
\* shard and number finds it empty.
Takes(i) ==
    LET r == page[i]
    IN  IF \/ r.doc \notin DOMAIN snippets[r.shard]
           \/ \E j \in 1 .. i - 1 : page[j].shard = r.shard /\ page[j].doc = r.doc
        THEN None ELSE snippets[r.shard][r.doc]

Stitch ==
    /\ phase = "stitch"
    /\ shown' = [i \in DOMAIN page |-> Takes(i)]
    /\ phase' = "done"
    /\ UNCHANGED <<offset, limit, all, page, asked, snippets>>

Init ==
    /\ phase = "collapse"
    /\ offset \in Offsets
    /\ limit \in Limits
    /\ all \in Answers
    /\ page = <<>>
    /\ asked = {}
    /\ snippets = [s \in Shards |-> [d \in {} |-> None]]
    /\ shown = <<>>

Next == Collapse \/ (\E s \in Shards : FetchSnippets(s)) \/ AllAsked \/ Stitch

Spec == Init /\ [][Next]_vars

-----------------------------------------------------------------------------
(* Properties *)

\* A snippet on the page was made from the page it stands under, whichever shards
\* answered and however far.  (fetch_page_snippets: "stitches results back by doc_id".)
OwnSnippet ==
    phase = "done" => \A i \in DOMAIN shown : shown[i] \in {None, page[i].page}
=============================================================================
