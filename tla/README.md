# A verification project for the search engine

The repository is a web search engine in C++: a crawler that runs on several
machines, an index builder, and a query service in which a leader asks the
index shards and merges their answers. This directory holds TLA+ models of it,
the TLC configurations that check them and the theorems TLAPS proves about
them. Source paths in this file are relative to the repository's `src/`
directory unless they begin with another one (`server/`, `config/`).

Every module says at its head which files it models. `PROJECT.json` maps each
definition to the lines it stands for.

- [The system](#the-system): the inventory
- [The modules](#the-modules): how states and actions correspond to the code
- [The runs](#the-runs): what is checked, on which instances, and what it shows
- [The proofs](#the-proofs)
- [Fairness](#fairness)
- [Disagreements found](#disagreements-found)
- [What is not modelled](#what-is-not-modelled)
- [Plan](#plan)

## The system

| component | state it keeps | operations | talks to |
|---|---|---|---|
| URL frontier (`crawler/frontier.cpp`, `BloomFilter.h`) | SEEN and BLACKLIST filters; per rank a staging vector, a file queue, an in-memory queue; numbered files | `insert_url`, `get_url`, `blacklist_url`, `insert_seed_list`, `initialize_frontier_file_dir` | all workers and the link server share it, under three kinds of mutex |
| page-file writer and workers (`crawler/page_data.cpp`, `worker_thread.cpp`, `crawler.cpp`) | a vector of pages per rank, numbered files, the stop flag, each thread's URL | `write_page`, `write_page_file`, `run_worker_thread`, the operator's commands | frontier, fetcher, link distributor; the index builder reads the files |
| page-file reader (`index/page_data.cpp`) | one mapped file, in global variables | `load_page_file`, `get_next_page`, `get_page_data_from_index`, `close_page_file` | the index builder and the snippet code call it |
| index builder (`build_index.cpp`, `index/index_builder.cpp`) | posting lists, checkpoints, document records; the files given up | the loop over ranks and files; `addDocument`, `WriteBlobV4` | reads page files, writes one blob per rank |
| index and readers (`index/index.cpp`, `isr.cpp`) | a mapped blob; cursors | `find_term_offset`, `SeekToAbsolutePosition`, `Seek`, `SkipToDoc`, composed readers | query compiler, engine |
| query parser and compiler (`query/query_ast.hpp`, `query_compiler.hpp`) | none | `Parser`, `normalize`, `extract_terms`, `compile_to_isr` | index readers |
| search engine (`engine/search_engine.hpp`) | the indexes of the machine | `search`, `search_level`, `walk_isr_docs`, `collapse_by_host`, `fetch_snippet_by_id` | its own indexes, or the distributor |
| query distributor (`engine/query_distributor.hpp`, `shard_client.hpp`) | per query: results so far, count of good ones, stop flag, live workers | `search`, `worker`, `stream_query`, `fetch_page_snippets` | shards over TCP |
| shard server (`server/ShardPlugin.cpp`) | its engine, the global weights | streams levels, then statistics; snippets by number | the leader |
| ranking and weights (`ranker/`, `config/weights.hpp`) | global weights | static and dynamic score, span finder; loading and sending weights | engine |
| link distributor (`crawler/link_distributor.cpp`) | a batch of links per peer | `get_URL_destination`, `send_URL_to_remote_peer`, `start_distribution_server` | the other machines; the frontier |
| robots cache (`crawler/robots.txt/RobotsCache.h`) | origin to robots.txt, status, next allowed time | `request_permission_to_crawl`, `request_robots_file` | all workers |
| fetcher (`crawler/get_ssl.cpp`) | none across calls | `crawl_page`, redirects | robots cache, remote sites |
| robots.txt parser (`crawler/robots.txt/RobotsTxt.cpp`) | the rules of one file | constructor, `FindDirective`, `Match`, `UrlAllowed` | robots cache |
| hash table (`index/HashTable.h`) | buckets with chains of keys | `Find`, growth, `Optimize`, iteration | index builder |
| HTML parser | none | scanning of pages | workers, builder |
| web server (`server/LinuxTinyServer.cpp`, `SearchPlugin.cpp`) | a thread per connection | `Talk`, `ProcessRequest` | browser |

What is hard in each of them, and what makes it correct:

- **Frontier.** Tests and updates of the filters are critical sections of their
  own, so threads interleave between them. A URL is handed from staging vector
  to file to queue to thread; each hand-over may fail or be cut by a crash.
  Correct: nothing accepted gets lost, nothing comes out twice, a refused URL
  does not come out again, what can be reached is served, and a restart resumes
  at a file number that is free.
- **Workers and page files.** The decision to write a vector and the write are
  separate steps. 's' must wait for the workers before it writes the rest.
  Correct: a stored page is in memory or on disk, once; no file is written over.
- **Reader, build, snippets.** A reader in global variables, moved by a loop in
  one program and by concurrent threads in another, over files that a crash has
  torn. Correct: each document leads back to its own page; what was left out is
  on record; a thread gets its own page whatever the others load.
- **Index and readers.** Arithmetic on one shared line of positions:
  checkpoints, end-of-document slots, chains in a laid-out blob; readers that
  leapfrog each other. Correct: the documents found are those the query says.
- **Parser.** It forgives everything. Correct: no word lost or moved, and the
  tree means what the text says.
- **Distributor.** Worker threads and a watching thread share a vector, a
  counter and a flag; shards stall, die and stream in chunks. Correct: it
  answers on one of its three exits, with the best of what has come in, without
  gaps, and it always answers.
- **Weights.** Global variables without a lock on both sides of the wire.
  Correct: after an edit the next query is scored with nothing older than the
  file, and nothing older comes back, unless a query that opened an older one is
  still on its way.
- **Robots cache and fetcher.** The mutex is free while a robots.txt is fetched
  and again while a URL is judged by it; redirects, failures and a resolver that
  asks to try again interleave with other threads at the same origin. Correct: a
  file is fetched once, the delay of an origin is kept, waiting threads are woken,
  and each `crawl_page` returns.
- **robots.txt parser.** Groups, agents, types and the order of lines decide
  together, and patterns with stars and escapes are matched by recursion over
  bytes. Correct: what is allowed is what the lines say, but for a bare slash.
- **Link distributor.** The worker that finds a buffer full lets the mutex go
  before it empties it; a batch is sent once, and nobody looks at the answer.
  Correct: a link comes into its owner's frontier once, or is lost with its whole
  batch because something failed; no full buffer is left to nobody.

`PROJECT.json` lists each hazard at its line with the properties that cover it.

## The modules

| module | models | kind |
|---|---|---|
| `Frontier` | the frontier, its threads, files, crashes, restarts | state machine |
| `Crawler` | workers, page-file writer, the main thread | state machine |
| `RobotsTxt` | the robots.txt parser | operators |
| `RobotsPromise` | what a robots.txt means, by its lines | reference definitions |
| `RobotsCache` | entries, permissions and delays | actions, a part of `Fetcher` |
| `Fetcher` | `crawl_page`, `get_ssl` and its gate | state machine on `RobotsCache` |
| `PoliteFetcher` | the fetcher with the parser | composed of the four above |
| `LinkPromise` | what the exchange of links promises | abstract specification |
| `LinkDistributor` | buffers, connections, server threads of all machines | state machine, refines `LinkPromise` |
| `PageReader` | the reader of page files | operators on a record |
| `BuildIndex` | the loop of `build_index` | state machine on `PageReader` |
| `SnippetReads` | threads that fetch pages by document | composed with `BuildIndex` |
| `HashTable` | the table of the builder | operators |
| `InvertedIndex` | building, laying out and reading an index | operators on `HashTable` |
| `WordReader` | the reader of one word, `ISRWord` | operators on `InvertedIndex` |
| `IndexLevels` | the levels of an engine, and what their pages say | state and definitions on `WordReader` |
| `Isr` | composed readers, `compile_to_isr` | operators on `WordReader` |
| `QueryAst` | parser, normalization | operators |
| `Ranking` | the signals a score is made of | operators |
| `Retrieval` | a search in the levels of an engine | state machine on `IndexLevels`, `Isr`, `QueryAst`, `Ranking` |
| `SearchPromise` | what a distributed search promises | abstract specification |
| `DistributedSearch` | leader, workers, shards | state machine, refines `SearchPromise` |
| `ResultPage` | the page with its snippets | state machine |
| `Places` | the rank of a place in a sequence, places in order | operators, for the two above |
| `Weights` | weights of leader and shard | state machine |
| `FrontierProofs`, `CrawlerProofs`, `FetcherProofs`, `LinkProofs`, `SearchProofs`, `SnippetProofs`, `WeightsProofs` | theorems about the machines of these names | proofs |
| `EngineProofs` | theorems about `IndexLevels` and `ResultPage` | proofs |
| `MC...` | the instances TLC checks | constants |

### Frontier

`staging`, `fileQueue`, `queue`, `seen`, `banned`, `numWritten` are
`STAGING_VECTORS`, `STAGING_FILE_QUEUES`, `FRONTIER_QUEUES`, `SEEN`,
`BLACKLIST` and `num_written`; `disk` is the directory. A step is what the code
does between releasing one mutex and acquiring the next: `insert_url` is
`InsertCheckSeen` (:111), `InsertCheckBlacklist` (:112), `InsertMarkSeen` and
one of `InsertKeep`, `InsertFlush`, `InsertFlushFails` (the push, which under
the same mutex writes a full vector). `get_url` is `GetPickQueue` and then
either `GetPop`, `GetGiveUp` or the way over a file, `GetTakeFile`, `GetLoad`,
`GetUnlink`, with the queue's mutex held (`holder`), and at last
`GetCheckBlacklist`. A crash may fall between any two steps, inside a write
(`CrashInWrite`, which leaves a torn file) and inside the load of a torn file
(`CrashInLoad`). A restart is `Start`, the seed list or not, the scan of the
directory in any order, and `StartThreads`.

The filters are real Bloom filters, sets of bit positions, so false positives
happen. They start empty on each boot: `load_data` opens its file `O_WRONLY`
(`crawler/BloomFilter.h:103`) and reads nothing. String functions (`Https`,
`Lookups`, `Stem`) and the rank of a URL are constants. A torn file is read as
its whole URLs; the garbage after them is not tracked.

### Crawler

A worker is `CheckStop`, `GetUrl`, `DropPage` or `CountPage`, `StorePage`,
`FlushFull`: `write_page` counts, appends under the mutex of the rank and says
whether a write is due, and `write_page_file`, later and under the same mutex,
looks again. `WritePageFile` takes the number, opens, writes and empties the
vector, or fails at the open or in the middle. The main thread is `Stop`,
`Join`, `WriteRest` for each rank, and may be told to stop again. 'e' and a kill
are `Crash` and `CrashInWrite`. `Boot` counts the files of each rank.
`get_url` is reduced to "a page, or it does not return".

### RobotsCache, Fetcher, RobotsTxt, RobotsPromise, PoliteFetcher

A step of `RobotsCache` is what `request_permission_to_crawl` does between
acquiring and releasing the mutex of the cache: `Ask` (enter the origin as being
fetched, be told to wait, or copy an entry), `Reread` after the fetch, and
`Stamp`, which looks at the time of the last permission again and sets it. An
entry's `age` is the time since `last_crawled`. `Fetcher` adds the worker's call
of `crawl_page` (`Take`, `Waited`, `Refused`), the loop of redirects
(`PageStatus`, `HopStatus`) and `get_ssl`: the answer, a failure (`GetFails`), an
answer cut short, and the gate of threads that wait for the resolver
(`TryAgain`, `EnterGate`, `Paused`, `Again`; `WakeByItself` is a wake-up without
a signal). `Tick` is a second. `world` is what does not change: the sites with
their robots.txt and answers, how often the frontier hands out a URL, which
threads there are and how many failures there may be.

`RobotsTxt` is the parser, from the sequence of lines: `Rules` groups them as
the constructor does, then agents, directives, their priorities and patterns with
stars, dollar signs and escapes. Characters are symbols; `%78` is the escape of
"x", and `%2f`, which the code must not decode, that of the slash.
`RobotsPromise` says from the same lines and the comments of `RobotsTxt.h` which
directives decide and whether the path is forbidden or open, by the existence of
a placement of the pattern on the path, with no rules, no sorting, no recursion
and no decoding. There the code is known to part from its header: by
`RobotsTxt.h:106` an argument "/" covers every path, and so `RobotsPromise` reads
it, while the parser drops the slash and then the directive
(`RobotsTxt.cpp:590`, :736). `BareSlash` names the texts in which such a line
applies to the crawler. `PoliteFetcher` puts the parser for the `Allows` and
`DelayOf` of the cache and states the two properties from end to end; both exclude
the sites with such a text (`SlashDropped`), where the crawler asks for every page.

Left out: how a text is cut into lines and words, UTF-8, the sitemap, the
properties of a TLS connection; only one name of a crawler is told from others.

### LinkDistributor, LinkPromise

`buffer[m][p]` is the vector for peer p on machine m. `Route` is one pass of the
worker's loop over a page's links, to the frontier or to a buffer; the thread
that finds more than `BatchSize` there goes on to `Take` (under the mutex, which
it has let go in between), `Connect`, `Send` or `SendPart`, and `Acknowledged`.
Each machine has one server thread: `Accept`, `Read` to the end of the connection
(or `ReadTimesOut`), `InsertUrl` for each link, `Acknowledge`. A machine may
crash, which ends its connections. A batch is the set of its links, and because
two occurrences of a link are two links, it also names its connection.

`LinkPromise` gives each link a place: new, waiting, kept or lost. `Find`,
`Keep` and `Lose` are its steps, and `Lose` takes the batch as a whole and wants
a failure. `KeepsLinkPromise` is the refinement, under `PlaceOf`.

### PageReader, BuildIndex, SnippetReads

The reader's globals are one record, and its functions are operators on it.
A file is the places where its whole pages begin, the number its header claims and
the bytes of the page it is torn in. `BuildIndex` has the loop: `OpenFile`,
`AddPage` (which may find the time up, `GiveUp`), `SkipPage`, `EndFile`,
`WriteBlob`, and the failures. `SnippetReads` starts where it ends (`Serve`):
the documents of the blobs, and some of older blobs, are asked for by threads
that share one reader behind `PAGE_FILE_INDEXING_MUTEX`. What each document
refers to has gone through the whole build, so `OwnPage` compares the two ends of
the chain.

Left out: a torn file that ends within the header of a page, at the end of a
memory page, kills the process (`index/page_data.cpp:97`, unchecked copy).

### InvertedIndex, HashTable, WordReader, IndexLevels, Isr, QueryAst, Ranking, Retrieval

`AddDocument` is `addDocument` with its posts, checkpoints, end-of-document
posts and counts. `Blob` is `WriteBlobV4` down to the address of every tuple
and list, with the extents of all that is written; `FindTermOffset` walks it.
Addresses, titles and body lengths go the same way; the numbers of page files that
a document carries do not, they are in `BuildIndex`. `HashTable` is the table the
words are in: `Find`, growth as it fills, `Optimize`, and the order in which its
iterator gives the words to `WriteBlobV4`. `WordReader` has the reader of a word as a
record: `NewWord`, `NextWord`, `SeekWord` through checkpoints; `Isr` has those that
are made of others: `PhraseFrom`, `PickMin`, `Converge`, `AllFrom` with exclusions,
`Compile`. `IndexLevels` loads the levels (`LoadLevels`: each is built from its pages,
written, and read back) and says in `IndexAnswers`, part by part, what an index must
answer, from the pages alone. Up to there all recursion is in functions, so that
theorems can be proved; the readers of `Isr` are trees and need recursive operators.
`QueryAst` is the parser token by token, `Normal`, `ExtractTerms`; the folding
of letters into words has happened before. `Retrieval` puts them together:
`Submit`, `SearchLevel`, `WalkOn` until `WalkEnds`, `NextLevel`, `Return`.
`Ranking` has what the ranker is told of each result: counts, the best field of
each word, `find_span` with its sliding window. The formulas that make a score of
it are floating point and left out.
A post's distance from the last has 29 bits; `DeltaLimit` stands for 2^29 and
the levels whose distances do not fit (`InRange` is false) are excluded from
the properties, since the code makes no provision for them.

### DistributedSearch, SearchPromise, ResultPage, Weights

A shard's stream is its lines; `Recv` returns any number of them, so a chunk
may end after any line. That a chunk also may end inside a line is abstracted:
`stream_query` keeps the rest of a line in its buffer and does nothing with it
until the newline has come. `OnResult`, `CountIfGood` and `CheckStop` are the
worker's callback, cut where another thread can come in between; `WatchEnds` and
`Answer` are the calling thread. Time is in ticks: `elapsed` for the global
deadline and `waited` for `SO_RCVTIMEO`.

`SearchPromise` says in the words of the header of `query_distributor.hpp` what
a search may do: collect, end, expire, and answer on one of the three exits with
the best results, one for each URL. `KeepsPromise` is the refinement, under
`got = lengths of each shard's results on the vector`, `ended = workers whose
stream is over`, `expired = the deadline has passed`. Two points of the promise
are as they are because of the proof: it counts good results as they are
delivered (`GoodDelivered`), so a page that two shards have counts twice, as it
does in the code; and a global time-out of 0 has expired at the start.

`ResultPage` is the second phase: hosts collapsed, the slice of the page, one
request for snippets per shard (any of which may break), and the stitching.
`Weights` has a thread of the leader and one of the shard for each query and
loops that take one weight at a time. A weight is the version of the file it comes
from. `OpenFails` is an open of the file that fails, which `search` does not look
at: the query goes on with the globals as they are. `crossed` is a history of the
queries that older weights may have reached: those that began while a query ran
that had opened an older file, or none, or was crossed itself, and those that an
open that failed found loading. A query that ended before another began crosses
nothing, whatever file it had opened.

## The runs

Each passing run checks the properties of its configuration on every reachable
state of its instance. Every property is stated in words above its definition.

| run | instance | shows |
|---|---|---|
| `frontier_threads` | two threads, two ranks, files of one and two URLs, three entries, a seed, one failing system call of any of four kinds, no crash | nothing accepted is lost, whatever fails (`NothingLost`); one URL is accepted at most once per thread (`AcceptedOncePerThread`); a refused URL never comes out again (`RefusedNeverReturned`); what get_url can reach is served (`LoadableServed`) |
| `frontier_restart` | the same with one crash anywhere, and failing opens and reads | no URL comes out twice (`HandedOutOnce`), no whole file is stranded (`NoStrandedFile`), the numbering resumes high enough (`NumberingNotBehind`) |
| `frontier_renumber` | one thread, two entries, one crash | a violation, see below |
| `crawl_store` | two workers, four pages, two ranks, a write that fails in the middle, an end of the process, 's' more than once | stored pages stay (`NothingLost`), in one place (`StoredOnce`); a full vector has an owner (`FullIsOwned`); 's' stores all (`StopStoresAll`); files are not written over (`FilesKept`), since the numbers have no gap (`NoGapInNumbers`) |
| `fetch` | four worlds in which two or three threads meet, and some 11000 in which one thread asks for a path under a robots.txt; two sites, up to three failures | the gate wakes its threads (`GateWakes`); each robots.txt is fetched once (`FetchedOnce`); rules and delays are kept, from the lines of the file to the request, but at sites with a bare slash for the crawler (`RulesFollowed`, `DelayKept`); every `crawl_page` returns (`CrawlReturns`) |
| `links` | two crawlers, three workers, seven links, batches of more than one, one failure | no full buffer is left to nobody (`BufferBounded`); the promise (`KeepsLinkPromise`); a batch that was taken comes to its end (`BatchEnds`) |
| `page_lookup` | two ranks, four files: whole, torn, short, empty; two failures; two threads | documents lead back (`DocsLeadBack`) and omissions are on record (`OmissionsReported`) through the build; threads get their own pages (`OwnPage`), leave nothing mapped (`NothingLeftMapped`) and come back (`AlwaysReturns`) |
| `query_walk` | 45 levels of up to three of four pages; all 7381 texts of up to four tokens of nine, and eleven longer ones | the index answers every lookup, seek and count as its pages say (`IndexAnswers`); the parser keeps words and reads back what it understood (`QueryKept`); the walk finds just the documents that are wanted (`FindsExactly`, `MeansWhatItSays`); the ranker is told the truth (`SignalsTrue`) |
| `search_merge` | two shards, a page both have, a shard that stops after the second of its three levels, one failure, deadlines of two and one tick | no gap (`NoGap`), nothing missed when nothing was cut short (`NothingMissed`), the promise (`KeepsPromise`), and an answer in the end (`SearchReturns`) |
| `page_one_level` | two shards of one level each; all orders of three or four results; nine pairs of offset and limit | a page is never shown under another's snippet (`OwnSnippet`) |
| `page_levels` | the same with two levels on each shard | a violation, see below |
| `weights_edit` | three queries, two weights, the file edited twice, one open that fails | a query that is not crossed is scored with nothing older than its file (`NeverOlder`), and what it has loaded is never put back on the leader (`EditsStay`) |

Why the bounds are enough to be of interest:

- *Frontier.* With `UrlsPerFile = 1` a URL of rank 0 goes straight to a file
  (the limit is a tenth of it, rounded down) and those of rank 1 in pairs, so
  files, vectors and queues are all in use with three entries. The filter is
  small enough for one false positive. `HandedOutOnce` is checked without
  failing writes and removes, because it is not true with them: a file that
  could not be removed is queued again after a restart, and so is a torn file
  whose URLs are in the next file as well.
- *Crawler.* A vector of rank 0 is full with one page and one of rank 1 with two,
  so two workers can both find it full. `MaxNumber` stops 's' after a few files.
- *Fetcher.* In the four worlds threads meet at one site whose robots.txt allows
  one page every two seconds and forbids another, and at one without, with
  redirects from one site to the other and in a circle; `MaxRedirects` is 2 where
  the code has 5, `MaxAge` counts seconds up to the delay, and failures are three,
  so that three threads stand in the gate together. The other worlds
  are all patterns of up to three symbols against all paths of up to two, and all
  files of up to five of six lines.
- *Links.* With `BatchSize = 1` two workers can both find the buffer too large
  before one of them empties it, and add a third link in between. Both machines
  send, so that each serves while it waits.
- *Reader.* The sizes of pages differ, so that an offset off by one page or by a
  header points at nothing. The torn file has whole pages, a torn one, and fewer
  than its header says; the two stale documents point into the torn page and past
  the end of a file.
- *Search.* "ant", "zig" and "http" share buckets, in part with equal hashes;
  the pages have the words next to each other, across fields, in the other order
  and with one in between; `Stride = 2` puts checkpoints within documents and on
  end-of-document posts; with `DeltaLimit = 9` four of the levels go over the limit
  of a distance, and with `FirstBuckets = 1` the table grows under the pointers of
  `addDocument`. "zig" is in no page, and one title has a wide window before a
  tight one.
- *Distributor.* One result comes from both shards with different scores, the
  wanted two results include it, and good results can make the search end early;
  a tick may fall between any two steps.
- *Weights.* Two weights are enough for a torn set, three queries for one to
  begin before an edit, one after, and one to be overwritten by either; with two
  edits the three may also run one after another, each under a file of its own.
  Both sides of `crossed` occur: without its last clause (a query that is crossed
  itself crosses others) TLC finds `NeverOlder` violated.

`Deadlock` is checked in the frontier and in `Retrieval`, which never stop. The
other programs do: crawling stops after the last page, a build after the last
rank, a search with its answer, fetching and the exchange of links with the last
page, and so their configurations say
`CHECK_DEADLOCK FALSE`. That they do not stop too early is said by liveness
(`SearchReturns`, `AlwaysReturns`, `CrawlReturns`, `BatchEnds`) or by invariants of the final state
(`StopStoresAll`, `NothingMissed`).

Each property has in `PROJECT.json` a mutant, a plausible bug of the code under
which TLC finds the property violated. The operators of the mutants stand next
to what they mutate and are marked as such.

## Fairness

- *Frontier* (`LoadableServed`). Threads are scheduled, so an operation that has
  begun goes on (weak fairness of `Insert` and `Get` within a call; get_url holds
  its mutexes for bounded work). A worker returns to get_url for ever: that is
  its loop. The geometric distribution gives each rank a positive chance on each
  call, so each is picked again and again (strong fairness of
  `GetPickQueue` for each rank). Nothing is assumed of insertions, failures and
  crashes.
- *DistributedSearch* (`SearchReturns`). The threads of the leader run and time
  passes. Shards are assumed neither to write nor to close nor to die; that the
  search ends all the same is due to `SO_RCVTIMEO`.
- *SnippetReads* (`AlwaysReturns`). Threads run, and a thread at the mutex gets
  it when it is free again and again (strong fairness of `Lock`). Nobody has to
  ask.
- *Fetcher* (`CrawlReturns`). Threads run and time passes. A worker need not take
  a URL, and a thread blocked in the gate need not wake by itself: it waits for
  the signal of another.
- *LinkDistributor* (`BatchEnds`). Workers and server threads run, and what stalls
  is ended by the time-outs of `send` and `recv`. A page need not have another
  link, so that a buffer may keep its links for ever.

## The proofs

TLC checks small instances; these theorems hold for all values of the constants
that satisfy the named assumption of the module (`FrontierAssumption`,
`CrawlerAssumption`, `LinkAssumption`, `FetcherAssumption`, `WeightsAssumption`,
`SearchAssumption`, `PageAssumption`, `PageReaderAssumption`,
`BuildIndexAssumption`, `SnippetReadsAssumption`, `IndexAssumption`,
`CorporaAssumption`). They say what type the constants have, that there is a
rank, a batch or a redirect to speak of, and that "none" is not one of the things
it stands beside; of the index, that sizes, strides and the lengths of words are
not zero. Where a theorem needs more, it says so in its statement. Each
machine has a lemma per action, and under it a step per conjunct that the action can
disturb. Every safety property that a run checks is proved, and both
refinements, but for four invariants of `Retrieval`, named below.

`FrontierProofs`:

- `TypeAndMutex`: `[](TypeOK /\ MutexInv)`, inductive as it stands. The types need
  the mutexes: the pop of `GetUnlink` takes the head of a queue outside the test
  that found it filled.
- `NumberingSafe`: `[]NumberingNotBehind`, whatever failed and however often the
  process died. `NumberingInv` says while the directory is scanned that the bound
  holds of the files met so far. The theorem says no more than the code
  deserves: the next number may be that of the newest file, which is what
  `frontier_renumber` shows.
- `NoFileStranded`: `[]NoStrandedFile`. `ServiceInv` follows each whole file through
  the scan: not listed yet, queued, or in the hands of the thread that loads it.
- `BlacklistedStaysAway`: `RefusedNeverReturned`, for URLs whose recorded form is
  among the forms looked up (`Stem[u] \in Lookups[u]`). For others it is not true,
  see below.
- `AcceptedStays`: `[]NothingLost` in the first process (`MaxCrashes = 0`; with a
  restart `frontier_renumber` is the counterexample). A file number in use is below
  the next one (`FilesInv`), so a flush overwrites nothing; a file that is about
  to be unlinked is in the queue (`LoadedInv`); then each step moves an entry
  within `Kept` or leaves it.
- `AcceptedAtMostOncePerThread`: `[]AcceptedOncePerThread`, for finitely many
  threads and a seed list without repetitions. `AcceptInv`: nobody has a URL that
  the filter does not contain, and a URL is in no more hands than there are
  threads.
- `NothingTwice`: `[]HandedOutOnce`, over any number of crashes and restarts, if
  writes and removals of files do not fail (`Faults \cap {"write", "remove"} = {}`).
  `OnceInv` has five parts: an entry is of one kind (staged, waiting, in a file,
  going out, gone: `OneKind`), in one position (`OnePosition`), in its own rank
  (`InRank`), in a file and a queue together only while that file is loaded
  (`OnlyLoading`), and new ones differ from all that were (`IdsBelow`).

`CrawlerProofs`:

- `TypeCorrect`: `[](TypeOK /\ MemoryOK)`. `Typed` adds that a worker past the fetch
  has a page in hand, that the main thread writes ranks that exist, and that
  files are finitely many, without which their count would not be a number.
- `NumbersContiguous`, `WrittenFilesStay`, `StoredPagesStay`: if no file fails to
  open, files are numbered 0 to n - 1 (`NoGapInNumbers`), no file is ever written
  over (`FilesKept`), and a stored page is in memory or on disk (`NothingLost`),
  through failed writes, ends of the process in the middle of a write, and
  restarts. Every number that is used up is that of a file that exists, though it
  may be torn; so the count of the files at the start is the number after the
  last (`NumbersOK`), and the disk only grows. The assumption cannot be dropped:
  a failed open leaves a gap, and the next process writes over its newest file.
- `FullVectorsOwned`: `[]FullIsOwned`, a full vector has a worker that will write it.
- `StopIsComplete`: `[]StopStoresAll`. `RestInv` says that the main thread writes
  ranks in their order after the workers have left, `CountInv` that the pages in
  vectors, in hands and on disk are those that were counted.
- `PagesStoredOnce`: `[]StoredOnce`. `PlaceInv` says that no page is in two places,
  as long as nothing fails.

`FetcherProofs`:

- `TypeCorrect`: `[]TypeOK`. `GateKept`: `[]GateWakes`.
- `FetchedOnlyOnce`: `[]FetchedOnce`. `FetchInv`: an origin that is being fetched
  has an entry (`FetchEntered`), one thread fetches it (`FetchAlone`), who reads
  an entry again finds it settled (`ReadSettled`), and an origin without an entry
  has not been asked (`AskedOnce`).
- `PoliteParserPoliteCrawler`, `PoliteParserKeepsDelay`: if the parser keeps its
  promise for each text that may come in (`ParserKeepsPromise(Worlds)`), then
  `RulesFollowed` and `DelayKept` hold of the crawler, for any number of threads,
  sites, failures and redirects. `PoliteInv` carries the answer of the parser
  through the two critical sections: texts in the cache are ones that came in
  (`TextsIncoming`), a thread stamps or fetches a page only with an entry that
  allows it (`StampAllowed`, `GrantAllowed`, `PageGranted`), a refusal is one of
  the parser (`RefusalJudged`), and an entry is no older than the last request
  (`Cooling`).
- `MatchIsCovers`: `Match`, a table that is filled from the back of pattern and path,
  is true of just the paths that `Covers` allows, the existence of a placement of the
  pattern. The proof goes down the pattern: a row of the table is right if the next
  one is (`Placeable`; `PlacedAtEnd`, `PlacedLiteral`, `PlacedStar`).
- `ParserIsRight`: for every file whose lines have arguments of their kind
  (`Readable`) and in which no bare slash applies to the crawler (`~BareSlash`; the
  parser drops such a line, and the promise does not), and every path that does not
  end within an escape (`Whole`; `UrlDecode` drops what is left of it),
  `PathAllowed` allows nothing `Forbidden`, refuses nothing `Open`, and `CrawlDelay`
  is `Delay`. First, what the constructor has after n lines: `Grouped` pairs each
  rule with one run of User-agent lines, and `Says` states that the rule's agents,
  directives and delay are those of the lines under this run, wherever `Insert` put
  them (`GroupsBegin`, `GroupsJoin`, `GroupsGrow`, `GroupsStay` for the branches of
  `ReadLine`, `RulesGrouped` for the file). Then what `FindDirective` has after k
  rules (`IsBest`): a directive that matches is found if there is one, one of a rule
  that names the crawler if there is one, and the largest delay. `CountedIs` takes
  that back to lines, those whose directives the parser keeps (`Heeded`), which are
  those of the promise where no bare slash applies (`HeededIs`). The comparison of
  directives is no order; so nothing is said, or needed, of which of several is
  found.
- `ParserKeepsIt`: hence `ParserKeepsPromise(Worlds)` for any files and paths of
  that kind (`Legible(Worlds)`), as far as they come in, where the cache asks this
  parser (`AsksParser(Worlds)`). `CrawlerFollowsRules`, `CrawlerKeepsDelay`:
  `RulesFollowed` and `DelayKept` of the crawler with its parser, from the lines of
  robots.txt to the request, of sites without a bare slash for the crawler; of the
  others only that a page is asked for with a permission. TLC evaluates the two
  hypotheses for the run `fetch`, and the promise as well (`InstanceAssumption`).

The recursions over lines, rules and patterns are recursive functions. What such a
function is, `Recursion` says: steps on a set lead through a sequence of its elements
from any first one. It rests, like every induction here, on the least element of a
set of numbers (`Least`, `Induction`).

`LinkProofs`:

- `TypeCorrect`: `[]TypeOK`. `BuffersBounded`: `[]BufferBounded`, a buffer holds at
  most a batch and one link more for each worker on its way to send it.
- `ImplementsPromise`: `Spec => KeepsLinkPromise`, the refinement as a whole. `Inv`
  says of each link where it can be: in a buffer, in a worker's hands, on the
  wire, being read, in a frontier, and never in two of these (`Apart`, `KeptApart`);
  so `PlaceOf` equals the plainer `Where`, and each action is a step of the promise
  or none.

`SearchProofs`:

- `NoGapAnywhere`: `[]NoGap`. `StreamInv`: what a worker has taken of its stream is
  on the vector, but for the result it dropped when it was told to stop.
- `CountBehindVector` and `ExitsJustified`: the counter of good results is never
  ahead of the vector, and the search answers on one of its three exits
  (`CountInv`).
- `PromiseKept`: `Spec => KeepsPromise`, the refinement as a whole. A push is
  `Receive`, the end of a stream `End`, the tick that reaches the deadline
  `Expire`, and all else is a stutter but for `Answer`. That needs three things.
  The good results on the vector are as many as the promise counts
  (`GoodEnough`: place and shard determine the turn, `Ranks`), so that the exit
  the thread took is one the promise allows. The collected results of the
  promise are those of the vector (`CollectedIs`, by `NoGap`). And sorting,
  dropping URLs that came before and cutting the rest leaves an answer of the
  promise (`SortedIs`, `DedupedIs`, `AnswerIs`). `LeaderInv` says that there is an
  answer just when the calling thread has answered, and that the workers have
  left then.
- `NothingMissedEver`: `[]NothingMissed`. `StatsInv`: the merged count is the size of
  the disjoint union of what the shards counted whose statistics have been taken
  (`MergedOnce`), and a worker outside its buffer has emptied it (`Drained`).
- `StreamsTyped` shows from `SearchAssumption` that what a shard streams are
  results of its own. `FlattenType` proves it of the recursion over levels, from a
  least index where it would fail (`Least`).

`EngineProofs`:

- `IndexAnswersAlways`: `LevelsSpec => []IndexAnswers`, for any pages of any levels,
  and any hashes and lengths of words, however they collide; any stride of
  checkpoints, first sizes of tables, and number of bits for a distance. From the
  tokens of a page to the answers of the readers it goes this way:
  - *Building.* `Tells` is the invariant of the builder: it has a history, a set of
    events, one for each word of a page and for each end of a document with the
    word, and the list of each word has its events' posts, positions ascending,
    with checkpoints that name the position of their post (`Positioned`) and counts
    that are those of the events (`Counted`). `DirectTells` is the step of
    `addToken`, `DocumentTells` that of a document. `BuiltIs`: the history of a
    builder is just what its pages say (`BuiltFrom`), and `Chronicle` gives the
    documents disjoint ranges in order.
  - *The table.* `Sound`: a key is in the bucket of its hash and there once.
    Inserting, growing and rebuilding keep that and the keys (`FindIs`,
    `OptimizeIs`), and the iterator comes by each key once (`EntriesAre`).
  - *The blob.* What `Laid` lays out takes up its room and no more (`LaidIs`,
    `LaidGrows`), so nothing overlaps (`BlobApart`), and two tuples or lists are
    never at one address (`AddressesDiffer`). The chain of a bucket stands in the
    links in one piece and ends with a zero (`LinksAre`); on its way along the
    tuples the walk finds the word or the end (`WalkIs`). Hence `ViewIs`: a word
    leads to its own list, and one that is in no page to none. Strings are read as
    they were written (`StrungIs`, `TextIs`), so documents are (`DocsRead`).
  - *Reading.* Where the distances of a level fit in their bits (`InRange`), each
    is stored whole: since the posts of a word ascend, the one right before a post is
    at least as close as any other (`ReadsIs`). Then the positions read from
    a checkpoint on are those of the posts (`FromCheckpoint`), and the first of them
    that is no end of a document is the place sought (`FirstWordIs`, `SeekFrom`);
    `SeekIs` and `FieldIs` follow.

  `FindTermOffset`'s walk and the others are recursive functions, of which TLA+
  says only that they satisfy their equation if any function does. That there is one
  is proved first (`Recursion`, and `WalkExists`, which goes down the links from
  the last), so none of the definitions is empty.

  `LevelsSpec` is the part of the engine that the index depends on: the levels are
  loaded (`LoadLevels`) and never change. `Retrieval!Init` has `LoadLevels` as a
  conjunct and every action of `Retrieval!Next` leaves `levels` unchanged, so its
  `Spec` implies `LevelsSpec`. That last remark is not itself a theorem, since
  `Retrieval` reaches recursive operators; the run `query_walk` checks
  `IndexAnswers` of `Retrieval` itself.
- `ReadersMoveAlways`: under `LevelsSpec` always `MovesExactlyIn`. The property of the
  runs says where a new reader seeks to; this says it of a reader anywhere
  (`ReaderOf`: past the posts, or at one of them and at its position), and of going
  on. A new reader is at the first place of its word, the next is the first place after
  the reader's, and a seek, even back, leads to the first place from the location on;
  and what comes out is such a reader again, so the theorem applies to any sequence of
  calls. `NewIs` needs that no document ends for a word before the word is in it
  (`EndAfterWord`); `NextFrom` that positions ascend. This is what a proof about
  phrases and conjunctions would rest on.
- `OwnSnippetShown`: `[]OwnSnippet` for any pages, answers, offsets
  and limits, where at most one level of each shard has pages (`SingleBlob`); without
  it the run `page_levels` is a counterexample. `PageInv` says that what came from a
  shard is what the shard makes of the number it was asked for (`FetchedInv`), and
  that collapsing and slicing leave results of the corpus (`ResultsInv`).

`WeightsProofs`: `NeverOlderAlways` and `EditsStayAlways`, for any number of
queries, weights, edits and opens that fail. `Progress` says how far each loop over
the weights has come. `NoneOlder` says of each query that is not crossed that all
that the running queries will still load, send and apply is of its version or later
(`InFlight`), that the globals it has loaded are (`LoadedStays`), and what it has
applied and was scored with (`AppliedStays`). The first is what makes it inductive:
a step of another query moves a version on from one of these places to the next.

`SnippetProofs`, over files of any sizes, torn, empty or whole:

- `DocumentsLeadBack` (`DocsLeadBack`) and `OmissionsOnRecord`
  (`OmissionsReported`). `BuildInv`: the reader is in front of a whole page or at
  the end of the last (`Reading`); no file is opened twice (`OpenedOnce`); and the
  documents of the file that is read are those of the fit pages before the
  reader's place (`Accounted`).
- `OwnPageAlways` (`OwnPage`) and `NothingLeftBehind` (`NothingLeftMapped`), for any
  number of threads. `LookupInv`: who is inside has the mutex (`MutexInv`), and the
  globals are those the thread inside has set (`ReaderOfHolder`).

Only model-checked: the five liveness properties (`LoadableServed`,
`SearchReturns`, `AlwaysReturns`, `CrawlReturns`, `BatchEnds`), which are out of the
prover's reach; and four invariants of `Retrieval` (`QueryKept`,
`FindsExactly`, `MeansWhatItSays`, `SignalsTrue`), which speak of what recursive
operators on trees, of queries and of readers, compute: in a module that reaches such
an operator the prover has no arithmetic.

## Disagreements found

Two runs show the code do other than what it says of itself:

- `frontier_renumber`: after a short run that left one file, the next process
  writes over it, because the scan compares with "greater" where "not less" is
  meant (`crawler/frontier.cpp:370`). Its URLs are lost. For that reason
  `NothingLost` is checked in `frontier_threads` without a crash.
- `page_levels`: a document number is unique within a level, but the snippet
  request carries the number alone, and the first level that has one answers
  (`engine/search_engine.hpp:418`).

Met while modelling; the models behave so, and no run is spent on them:

- Frontier: a blacklisted URL with a special character is looked up whole but
  recorded cut short, so it is returned again (`frontier.cpp:192`, against
  `frontier.h:27`); URLs in a staging vector that is not full are never served
  (`frontier.cpp:217`); the filters do not survive a restart.
- Page files: the start-up scan counts files while `write_page_file` uses up a
  number before the open that may fail, so that after one failed open the next
  process writes over the newest file (`crawler/page_data.cpp:368`).
- Operator: 's' with an empty frontier waits for ever for workers within
  `get_url` (`crawler/crawler.cpp:68`); a second 's' joins threads again (:69).
- robots.txt: `Disallow: /` forbids nothing: the slash is dropped, and the
  directive with it (`RobotsTxt.cpp:590`, :736), while by `RobotsTxt.h:106` it covers
  every path. `RulesFollowed`, `DelayKept` and the theorems on the parser exclude
  texts in which it applies to the crawler (`BareSlash`). An allowing directive
  that matches beats every forbidding one, but this is not an order, so that with
  several of both the result depends on their lines (`RobotsTxt.cpp:682`, against
  `RobotsTxt.h:167`); `RulesFollowed` speaks only where all directives that could
  decide agree. A group that names the crawler but has no directive for the path
  yields to the group of "*". A crawl delay counts only if a directive of its group
  matches. An escape cut off by the end of a path is dropped from the path but
  kept in the pattern.
- Robots cache: a robots.txt whose fetch failed once counts as missing for ever
  (`RobotsCache.h:105`); one that came cut short, or the body of an error page, is
  kept as the file; entries do not expire.
- Fetcher: on 's' a waiting thread fetches without a permission
  (`get_ssl.cpp:33`); the thread that fetched robots.txt goes on without a delay;
  redirects ask neither robots.txt nor the blacklist; a redirect whose target
  fails counts as a page that is empty, and one hop too many blacklists a URL
  even if the last hop has answered.
- Links: a batch is lost without a trace when its peer cannot be reached or fails
  in between, and less than a batch is never sent, on 's' either; the server reads
  one connection at a time, for up to 30 s if the sender stalls.
- Distributor: the join after the deadline lasts as long as the slowest `recv`
  (`engine/query_distributor.hpp:172`); good results are counted before
  duplicates are dropped, so an early answer may be short (:161).
- Weights: what one query sends stays for the next, on a shard that
  `CONTRIBUTING.md` says uses its own (`server/ShardPlugin.cpp:201`). A query that
  meets one under an older file, or begins while the file cannot be opened, may be
  scored with older weights, or with some of each, although `CONTRIBUTING.md:113`
  says that the shards use the updated weights immediately; `NeverOlder` excludes
  such queries (`crossed`). A shard that is started again reads its own file; the
  model keeps it up.
- Reader: the end of a page file clears the flag by which `close_page_file` knows
  to unmap (`index/page_data.cpp:89`). The crawler's own
  `get_page_data_from_index` adds the header twice (`crawler/page_data.cpp:423`);
  no program calls it.
- Build: a blob that cannot be written ends the build of the ranks after it
  (`build_index.cpp:303`); `LoadBlob` accepts a blob that is cut off
  (`index/index.cpp:109`); offsets of strings have 32 bits
  (`index/index_builder.cpp:199`).
- Parser: after a character it does not know, it takes whatever comes next as a
  word, so that a minus sign or a bar is lost (`query_ast.hpp:232`, against :15);
  empty quotes end the AND they stand in (:240); an unbalanced `)` drops the
  rest; `a-b` means a without b; a NOT within an OR or a NOT is dropped; a query of
  stop words and a NOT finds nothing; and the words under a NOT are among those the
  results are ranked by (:322).
- Readers: `ISRAnd::Seek` may return a match that starts before the location,
  in its document, where `isr.h:12` promises one at or after it; the flag for an
  exact phrase is unreliable when a word is repeated (`isr.cpp:453`), and the span
  of an OR has all terms if one of its sides has.
- Ranker: of windows that are equally tight the first is taken
  (`span_finder.hpp:48`); the static signal `hop / (1 + hop)` divides integers and
  is always 0.

## What is not modelled

| part | why |
|---|---|
| HTML parser, scores, snippet text | data to every module here; floating point and text |
| the scanner of robots.txt, UTF-8, sitemaps | text; `RobotsTxt` starts from lines |
| TLS, HTTP and JSON framing, web server, main programs, front end | input and output |
| `ConstraintSolver` | no program calls it |
| composed readers' `Next` | only tests call it |

## Plan

Done, in the order of importance: the frontier, page files and workers, the
distributed search with its abstract specification, the page, the weights, the
way of a document from page file to snippet, the index and the search in it; then
the fetcher with the robots cache and parser, the exchange of links with its
abstract specification, the hash table and the signals of the ranker, and the
proofs above. Every invariant and action property of a run is a theorem but for
`QueryKept`, `FindsExactly`, `MeansWhatItSays` and `SignalsTrue`.

To come:

1. `Frontier` composed with `LinkDistributor`: the frontier shown to implement "a
   URL accepted comes out once", and the link server to insert into that.
2. Trees of readers as functions on the paths of the query, so that a phrase and a
   conjunction can be proved to seek exactly, as a word is.
3. The HTML parser as a machine of tags and text, if a property of the engine
   should come to depend on it.
