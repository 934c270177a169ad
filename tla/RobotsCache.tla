---------------------------- MODULE RobotsCache ----------------------------
(***************************************************************************)
(* The cache of robots.txt files                                           *)
(* (src/crawler/robots.txt/RobotsCache.h).                                 *)
(*                                                                         *)
(* request_permission_to_crawl is called by all workers.  The first to ask *)
(* about an origin enters it as being fetched, fetches its robots.txt      *)
(* without the mutex and enters the outcome; meanwhile others are told to  *)
(* wait.  With the file at hand a thread looks up what it says of the URL  *)
(* without the mutex, and takes it again to see whether the origin's crawl *)
(* delay is over and to begin the next.                                    *)
(*                                                                         *)
(* A step is what a thread does between acquiring and releasing the mutex. *)
(* Time passes in seconds, between any two steps.                          *)
(***************************************************************************)
EXTENDS Naturals, Sequences

CONSTANTS
    Allows(_, _),  \* whether a text of robots.txt allows a path (see RobotsTxt)
    DelayOf(_, _), \* the crawl delay that it reports for the path
    Threads,   \* worker threads
    Urls,
    Origins,
    OriginOf,  \* OriginOf[u]: url_to_origin(u)
    Worlds,    \* what the sites may be like, see World
    MaxAge     \* bound: seconds are counted up to here

\* What a site without a robots.txt has in its place.
NoFile == <<[word |-> "no file"]>>

VARIABLES
    world,     \* the sites; never changes
    cache,     \* cache[o] for the origins it has an entry of
    pc,        \* where each thread stands
    url,       \* the URL each thread is to crawl
    flag,      \* flag of each thread: it has fetched the file itself
    delay      \* crawlDelay of each thread

(* History, for the properties only. *)
VARIABLES
    asked,     \* how many times each origin's robots.txt was asked for
    since,     \* seconds since a thread was last told to crawl an origin
    granted,   \* whether each thread was told to crawl
    refused    \* the URLs refused on account of robots.txt

cacheVars == <<cache, flag, delay, asked, since, granted, refused>>

\* An entry of the cache; age is the time since last_crawled.
Entry(status, text, age) == [status |-> status, text |-> text, age |-> age]

WithEntry(o, e) == [p \in DOMAIN cache \cup {o} |-> IF p = o THEN e ELSE cache[p]]

Here(t) == OriginOf[url[t]]
Path(t) == world.path[url[t]]

InitCache ==
    /\ cache = [o \in {} |-> Entry("FETCHING", <<>>, 0)]
    /\ flag = [t \in Threads |-> FALSE]
    /\ delay = [t \in Threads |-> 0]
    /\ asked = [o \in Origins |-> 0]
    /\ since = [o \in Origins |-> MaxAge]
    /\ granted = [t \in Threads |-> FALSE]
    /\ refused = {}

-----------------------------------------------------------------------------
(* request_permission_to_crawl *)

\* Mutant: an origin is entered only with its file.
LateAskFetch(t) ==
    /\ Here(t) \notin DOMAIN cache
    /\ asked' = [asked EXCEPT ![Here(t)] = @ + 1]
    /\ pc' = [pc EXCEPT ![t] = "robots"]
    /\ UNCHANGED <<cache, flag, delay, since, granted, refused>>

\* Mutant: the thread that enters the origin looks at the entry it has made, and waits
\* like the others for the fetch.
IdleAskFetch(t) ==
    /\ Here(t) \notin DOMAIN cache
    /\ cache' = WithEntry(Here(t), Entry("FETCHING", <<>>, MaxAge))
    /\ pc' = [pc EXCEPT ![t] = "wait"]
    /\ UNCHANGED <<flag, delay, asked, since, granted, refused>>

\* Nobody has asked about the origin: enter it as being fetched, and fetch.
AskFetch(t) ==
    /\ Here(t) \notin DOMAIN cache
    /\ cache' = WithEntry(Here(t), Entry("FETCHING", <<>>, MaxAge))
    /\ asked' = [asked EXCEPT ![Here(t)] = @ + 1]
    /\ pc' = [pc EXCEPT ![t] = "robots"]
    /\ UNCHANGED <<flag, delay, since, granted, refused>>

\* Another thread is fetching: wait.
AskWait(t) ==
    /\ Here(t) \in DOMAIN cache
    /\ cache[Here(t)].status = "FETCHING"
    /\ pc' = [pc EXCEPT ![t] = "wait"]
    /\ UNCHANGED cacheVars

\* The entry is copied and the mutex released; the copy says whether the URL is
\* allowed and after which delay.  Nothing is known against an origin without a
\* file.
Judge(t, e) ==
    IF e.status = "NON_EXISTENT" \/ Allows(e.text, Path(t))
    THEN /\ delay' = [delay EXCEPT ![t] =
                IF e.status = "NON_EXISTENT" THEN 1 ELSE DelayOf(e.text, Path(t))]
         /\ pc' = [pc EXCEPT ![t] = "stamp"]
         /\ UNCHANGED refused
    ELSE /\ refused' = refused \cup {url[t]}
         /\ pc' = [pc EXCEPT ![t] = "failed"]
         /\ UNCHANGED delay

AskKnown(t) ==
    /\ Here(t) \in DOMAIN cache
    /\ cache[Here(t)].status # "FETCHING"
    /\ Judge(t, cache[Here(t)])
    /\ UNCHANGED <<cache, flag, asked, since, granted>>

\* Each call has a flag of its own.
Ask(t) ==
    /\ pc[t] = "ask"
    /\ AskFetch(t) \/ AskWait(t) \/ AskKnown(t)

\* request_robots_file has not got a file, for whatever reason.
PutNonExistent(t) ==
    /\ cache' = [cache EXCEPT ![Here(t)] = Entry("NON_EXISTENT", @.text, 0)]
    /\ pc' = [pc EXCEPT ![t] = "reread"]
    /\ UNCHANGED <<flag, delay, asked, since, granted, refused>>

\* request_robots_file has got a text.
PutFetched(t, text) ==
    /\ cache' = [cache EXCEPT ![Here(t)] = Entry("FETCHED", text, 0)]
    /\ pc' = [pc EXCEPT ![t] = "reread"]
    /\ UNCHANGED <<flag, delay, asked, since, granted, refused>>

\* Mutant: the thread that has fetched the file needs no judgement.
RashReread(t) ==
    /\ pc[t] = "reread"
    /\ flag' = [flag EXCEPT ![t] = TRUE]
    /\ delay' = [delay EXCEPT ![t] = 1]
    /\ pc' = [pc EXCEPT ![t] = "stamp"]
    /\ UNCHANGED <<cache, asked, since, granted, refused>>

\* Back from the fetch the thread takes the mutex, copies the entry and judges.
Reread(t) ==
    /\ pc[t] = "reread"
    /\ flag' = [flag EXCEPT ![t] = TRUE]
    /\ Judge(t, cache[Here(t)])
    /\ UNCHANGED <<cache, asked, since, granted>>

\* Mutant: the time is that of the copy, when the origin was looked up.
StaleDelayOver(t) == cache[Here(t)].status # "FETCHING"

\* The mutex is taken again, and the entry is looked up again.
DelayOver(t) == cache[Here(t)].age >= delay[t]

\* can_crawl, and the next delay begins.  The thread that has fetched the file
\* does not wait.
Permit(t) ==
    /\ DelayOver(t) \/ flag[t]
    /\ cache' = [cache EXCEPT ![Here(t)] = Entry(@.status, @.text, 0)]
    /\ since' = [since EXCEPT ![Here(t)] = 0]
    /\ granted' = [granted EXCEPT ![t] = TRUE]
    /\ pc' = [pc EXCEPT ![t] = "page"]
    /\ UNCHANGED <<flag, delay, asked, refused>>

\* wait_to_crawl
TooSoon(t) ==
    /\ ~(DelayOver(t) \/ flag[t])
    /\ pc' = [pc EXCEPT ![t] = "wait"]
    /\ UNCHANGED cacheVars

Stamp(t) ==
    /\ pc[t] = "stamp"
    /\ Permit(t) \/ TooSoon(t)

Later(age) == IF age < MaxAge THEN age + 1 ELSE age

\* A second passes.
AgeAll ==
    /\ cache' = [o \in DOMAIN cache |->
        Entry(cache[o].status, cache[o].text, Later(cache[o].age))]
    /\ since' = [o \in Origins |-> Later(since[o])]
=============================================================================
