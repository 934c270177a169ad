------------------------------ MODULE Fetcher ------------------------------
(***************************************************************************)
(* The fetching of pages (src/crawler/get_ssl.cpp): workers that call      *)
(* crawl_page, which asks the robots cache for permission, gets the page   *)
(* and follows redirects, and get_ssl, in which threads whose host name    *)
(* cannot be resolved for now queue up to wait.                            *)
(*                                                                         *)
(* Of the frontier this is kept: it hands out URLs, in any order, and none *)
(* that was blacklisted.  Of the network: what each site answers, and a    *)
(* bounded number of failures: a resolver that asks to try again, a        *)
(* connection that fails, and one that ends within the answer.             *)
(***************************************************************************)
EXTENDS RobotsCache

CONSTANTS
    MaxRedirects,  \* redirects followed before a URL is blacklisted
    NoUrl

\* The sites, the lines of robots.txt by origin, the path of each URL (without its
\* first slash) and what it answers with, a page, nothing or a redirect; and how
\* often the frontier hands each out to which threads, whether the operator stops
\* them, and how many failures of the network there may be.
World(w) ==
    /\ DOMAIN w.file = Origins
    /\ DOMAIN w.path = Urls
    /\ w.answer \in [Urls -> Urls \cup {"page", "nothing"}]
    /\ w.todo \in [Urls -> Nat]
    /\ w.crew \subseteq Threads
    /\ w.stops \in BOOLEAN
    /\ w.faults \in Nat

ASSUME FetcherAssumption ==
    /\ OriginOf \in [Urls -> Origins]
    /\ MaxAge \in Nat
    /\ MaxRedirects \in Nat
    /\ NoUrl \notin Urls
    /\ \A w \in Worlds : World(w)

VARIABLES
    todo,      \* todo[u]: how many times the frontier has still to hand out u
    banned,    \* URLs passed to blacklist_url
    stop,      \* STOP_CRAWLING
    goal,      \* what each thread's get_ssl is for: "robots", "page" or "hop"
    at,        \* current_url of each thread
    hops,      \* numRedirects of each thread
    dnsWait,   \* dns_wait
    faults     \* history: failures so far

fetchVars == <<todo, banned, stop, goal, at, hops, dnsWait, faults>>
vars == <<world, cacheVars, pc, url, fetchVars>>

Init ==
    /\ world \in Worlds
    /\ InitCache
    /\ pc = [t \in Threads |-> "idle"]
    /\ url = [t \in Threads |-> NoUrl]
    /\ todo = world.todo
    /\ banned = {}
    /\ stop = FALSE
    /\ goal = [t \in Threads |-> "page"]
    /\ at = [t \in Threads |-> NoUrl]
    /\ hops = [t \in Threads |-> 0]
    /\ dnsWait = FALSE
    /\ faults = 0

-----------------------------------------------------------------------------
(* The worker's loop and the permission *)

Goto(t, label) == pc' = [pc EXCEPT ![t] = label]

\* get_url, and the start of crawl_page with its look at the blacklist.
Take(t) ==
    /\ t \in world.crew
    /\ pc[t] = "idle"
    /\ ~stop
    /\ \E u \in Urls \ banned :
        /\ todo[u] > 0
        /\ todo' = [todo EXCEPT ![u] = @ - 1]
        /\ url' = [url EXCEPT ![t] = u]
    /\ Goto(t, "ask")
    /\ flag' = [flag EXCEPT ![t] = FALSE]
    /\ granted' = [granted EXCEPT ![t] = FALSE]
    /\ UNCHANGED <<world, cache, delay, asked, since, refused, banned, stop, goal, at,
                   hops, dnsWait, faults>>

\* Asking leads to a get_ssl of robots.txt, or of the page.
Aim(t) ==
    /\ goal' = [goal EXCEPT ![t] = IF pc'[t] \in {"robots", "page"} THEN pc'[t] ELSE @]
    /\ at' = [at EXCEPT ![t] = url[t]]
    /\ hops' = [hops EXCEPT ![t] = 0]

RequestPermission(t) ==
    /\ Ask(t) \/ Reread(t) \/ Stamp(t)
    /\ Aim(t)
    /\ UNCHANGED <<world, url, todo, banned, stop, dnsWait, faults>>

\* A thread that was told to wait asks again, unless crawling has stopped: then it
\* goes on as if permitted.
Waited(t) ==
    /\ pc[t] = "wait"
    /\ Goto(t, IF stop THEN "page" ELSE "ask")
    /\ Aim(t)
    /\ UNCHANGED <<world, url, cacheVars, todo, banned, stop, dnsWait, faults>>

-----------------------------------------------------------------------------
(* What becomes of the status that get_ssl returns *)

\* crawl_page returns; the worker blacklists the URL if it is told to.
Return(t, result) ==
    /\ Goto(t, "idle")
    /\ url' = [url EXCEPT ![t] = NoUrl]
    /\ banned' = IF result = "blacklist" THEN banned \cup {url[t]} ELSE banned
    /\ UNCHANGED <<goal, at, hops>>

\* do_not_crawl
Refused(t) ==
    /\ pc[t] = "failed"
    /\ Return(t, "failure")
    /\ UNCHANGED <<world, cacheVars, todo, stop, dnsWait, faults>>

\* request_robots_file: but for success, the file is taken not to exist.
RobotsStatus(t, status, text) ==
    /\ IF status = "success" THEN PutFetched(t, text) ELSE PutNonExistent(t)
    /\ UNCHANGED <<url, banned, goal, at, hops>>

\* Follow a redirect: count it, and get the page it leads to.
Redirect(t, to) ==
    /\ Goto(t, "page")
    /\ at' = [at EXCEPT ![t] = to]
    /\ goal' = [goal EXCEPT ![t] = "hop"]
    /\ hops' = [hops EXCEPT ![t] = @ + 1]
    /\ UNCHANGED <<url, banned>>

\* The first get_ssl, which is repeated while the resolver asks for it.
PageStatus(t, status) ==
    CASE status = "again" -> Goto(t, "page") /\ UNCHANGED <<url, banned, goal, at, hops>>
      [] status = "redirect" -> Redirect(t, world.answer[at[t]])
      [] status \in {"failure", "success"} -> Return(t, status)

\* A get_ssl in the loop of redirects.  Too many of them end it whatever the last
\* one led to; otherwise all that is no redirect counts as success.
HopStatus(t, status) ==
    IF hops[t] > MaxRedirects THEN Return(t, "blacklist")
    ELSE IF status = "redirect" THEN Redirect(t, world.answer[at[t]])
    ELSE Return(t, "success")

Status(t, status, text) ==
    CASE goal[t] = "robots" -> RobotsStatus(t, status, text)
      [] goal[t] = "page" -> PageStatus(t, status) /\ UNCHANGED cacheVars
      [] goal[t] = "hop" -> HopStatus(t, status) /\ UNCHANGED cacheVars

-----------------------------------------------------------------------------
(* get_ssl *)

Getting(t) == pc[t] \in {"robots", "page"}

Fault == faults < world.faults /\ faults' = faults + 1

\* The site's answer has come in, the first lines of it, or nothing.
GetRobots(t) ==
    LET file == world.file[Here(t)]
    IN  /\ goal[t] = "robots"
        /\ \/ file # NoFile /\ Status(t, "success", file) /\ UNCHANGED faults
           \/ /\ file # NoFile /\ Fault
              /\ \E n \in 0 .. Len(file) - 1 : Status(t, "success", SubSeq(file, 1, n))
           \/ file = NoFile /\ Status(t, "failure", <<>>) /\ UNCHANGED faults

GetPage(t) ==
    LET answer == world.answer[at[t]]
    IN  /\ goal[t] # "robots"
        /\ Status(t, CASE answer = "page" -> "success" [] answer = "nothing" -> "failure"
                       [] OTHER -> "redirect", <<>>)
        /\ UNCHANGED faults

\* The connection fails.
GetFails(t) == Fault /\ Status(t, "failure", <<>>)

Get(t) ==
    /\ Getting(t)
    /\ GetRobots(t) \/ GetPage(t) \/ GetFails(t)
    /\ UNCHANGED <<world, todo, stop, dnsWait>>

\* The resolver asks to try again later.
TryAgain(t) ==
    /\ Getting(t)
    /\ Fault
    /\ Goto(t, "gate")
    /\ UNCHANGED <<world, cacheVars, url, todo, banned, stop, goal, at, hops, dnsWait>>

\* Mutant: a thread that was woken does not look at dns_wait again.
RushedEnterGate(t) ==
    /\ pc[t] = "gate"
    /\ dnsWait' = TRUE
    /\ Goto(t, "pause")
    /\ UNCHANGED <<world, cacheVars, url, todo, banned, stop, goal, at, hops, faults>>

\* With dns_mutex: one thread at a time pauses, the others block.
EnterGate(t) ==
    /\ pc[t] = "gate"
    /\ IF dnsWait THEN Goto(t, "blocked") ELSE Goto(t, "pause")
    /\ dnsWait' = TRUE
    /\ UNCHANGED <<world, cacheVars, url, todo, banned, stop, goal, at, hops, faults>>

\* pthread_cond_wait may return without a signal.
WakeByItself(t) ==
    /\ pc[t] = "blocked"
    /\ Goto(t, "gate")
    /\ UNCHANGED <<world, cacheVars, url, fetchVars>>

Blocked == {t \in Threads : pc[t] = "blocked"}

\* The pause is over: one of the blocked threads is signalled.
Paused(t) ==
    /\ pc[t] = "pause"
    /\ dnsWait' = FALSE
    /\ IF Blocked = {} THEN Goto(t, "again")
       ELSE \E b \in Blocked : pc' = [pc EXCEPT ![t] = "again", ![b] = "gate"]
    /\ UNCHANGED <<world, cacheVars, url, todo, banned, stop, goal, at, hops, faults>>

\* get_ssl returns again.
Again(t) ==
    /\ pc[t] = "again"
    /\ Status(t, "again", <<>>)
    /\ UNCHANGED <<world, todo, stop, dnsWait, faults>>

-----------------------------------------------------------------------------
Step(t) ==
    \/ Take(t) \/ RequestPermission(t) \/ Waited(t) \/ Refused(t)
    \/ Get(t) \/ TryAgain(t) \/ EnterGate(t) \/ WakeByItself(t) \/ Paused(t) \/ Again(t)

\* The operator types 's'.
Stop ==
    /\ world.stops /\ ~stop
    /\ stop' = TRUE
    /\ UNCHANGED <<world, cacheVars, pc, url, todo, banned, goal, at, hops, dnsWait, faults>>

Tick ==
    /\ AgeAll
    /\ UNCHANGED <<world, pc, url, flag, delay, asked, granted, refused, fetchVars>>

Next == Stop \/ Tick \/ \E t \in Threads : Step(t)

\* Threads are scheduled and time passes; a URL need not be taken.
Fairness ==
    /\ WF_vars(Tick)
    /\ \A t \in Threads : WF_vars(Step(t) /\ pc[t] \notin {"idle", "blocked"})

Spec == Init /\ [][Next]_vars
FairSpec == Spec /\ Fairness

-----------------------------------------------------------------------------
(* Properties *)

Labels == {"idle", "ask", "robots", "reread", "stamp", "wait", "failed", "page", "gate",
           "blocked", "pause", "again"}

TypeOK ==
    /\ World(world)
    /\ DOMAIN cache \subseteq Origins
    /\ \A o \in DOMAIN cache :
        /\ cache[o].status \in {"FETCHING", "FETCHED", "NON_EXISTENT"}
        /\ cache[o].age \in 0 .. MaxAge
    /\ pc \in [Threads -> Labels]
    /\ url \in [Threads -> Urls \cup {NoUrl}]
    /\ \A t \in Threads : pc[t] # "idle" => url[t] \in Urls
    /\ flag \in [Threads -> BOOLEAN]
    /\ todo \in [Urls -> Nat]
    /\ banned \subseteq Urls
    /\ goal \in [Threads -> {"robots", "page", "hop"}]
    /\ hops \in [Threads -> Nat]
    /\ stop \in BOOLEAN /\ dnsWait \in BOOLEAN

\* At most one thread at a time pauses for the resolver, dns_wait says whether one
\* does, and while threads are blocked somebody is on the way to wake them: one
\* that pauses, or one that has been woken and not yet looked.  (The lock and the
\* condition variable of get_ssl, lines 87 to 97; late-comers may overtake a thread
\* that was woken.)
GateWakes ==
    /\ \A t, s \in Threads : pc[t] = "pause" /\ pc[s] = "pause" => t = s
    /\ dnsWait <=> \E t \in Threads : pc[t] = "pause"
    /\ Blocked # {} => \E t \in Threads : pc[t] \in {"pause", "gate"}

\* The robots.txt of an origin is asked for once, by one thread, and no thread
\* reads or stamps an entry whose file is still on its way.  (The mutex is free
\* during the fetch; the entry in state FETCHING keeps the others out.)
FetchedOnce ==
    /\ \A o \in Origins : asked[o] <= 1
    /\ \A t \in Threads : pc[t] \in {"reread", "stamp"} =>
        Here(t) \in DOMAIN cache /\ cache[Here(t)].status # "FETCHING"

\* Every crawl_page returns, after delays, redirects in a circle, a resolver that
\* asks to try again, or a robots.txt that could not be fetched by the thread all
\* others wait for.
CrawlReturns == \A t \in Threads : pc[t] # "idle" ~> pc[t] = "idle"
=============================================================================
