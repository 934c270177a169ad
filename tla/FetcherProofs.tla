--------------------------- MODULE FetcherProofs ---------------------------
(***************************************************************************)
(* Proofs about the fetcher for any sites, any threads and any number of   *)
(* failures: the types, the gate in which threads wait for the resolver,   *)
(* and the single fetch of each robots.txt; that the fetcher is as polite  *)
(* as its parser: if the parser says of each text that may come in, and    *)
(* each path, what RobotsPromise reads in the lines, then no interleaving  *)
(* of threads, failures of the network and ticks of the clock makes the    *)
(* crawler break the rules or the delay; and that the parser does say so,  *)
(* of every text and every path, but for texts with a line "Disallow: /"   *)
(* or "Allow: /" that applies to the crawler, which it drops.              *)
(***************************************************************************)
EXTENDS PoliteFetcher, FiniteSetTheorems, WellFoundedInduction, TLAPS

(* Types *)

\* TypeOK, that an entry of the cache is a record, and the type of the history.
TypeInv ==
    /\ TypeOK
    /\ \A o \in DOMAIN cache :
        cache[o] = Entry(cache[o].status, cache[o].text, cache[o].age)
    /\ asked \in [Origins -> Nat]

(* The cache of robots.txt *)

\* A thread is within the get_ssl of a robots.txt.
Fetching(t) ==
    goal[t] = "robots" /\ pc[t] \in {"robots", "gate", "blocked", "pause", "again"}

\* A thread goes by an entry it has found.
Reading(t) == pc[t] \in {"reread", "stamp"}

\* A get_ssl is for what its thread was sent to get.
Aimed ==
    \A t \in Threads :
        /\ pc[t] = "robots" => goal[t] = "robots"
        /\ pc[t] = "page" => goal[t] # "robots"

\* The entry a thread fetches for is there and waits for it.
FetchEntered ==
    \A t \in Threads : Fetching(t) =>
        Here(t) \in DOMAIN cache /\ cache[Here(t)].status = "FETCHING"

\* No two threads fetch for the same origin.
FetchAlone ==
    \A t, s \in Threads : Fetching(t) /\ Fetching(s) /\ Here(t) = Here(s) => t = s

\* A thread that reads an entry reads a settled one.
ReadSettled ==
    \A t \in Threads : Reading(t) =>
        Here(t) \in DOMAIN cache /\ cache[Here(t)].status # "FETCHING"

\* What was never entered was never asked for, and nothing was asked for twice.
AskedOnce ==
    \A o \in Origins : asked[o] <= 1 /\ (o \notin DOMAIN cache => asked[o] = 0)

FetchInv == Aimed /\ FetchEntered /\ FetchAlone /\ ReadSettled /\ AskedOnce

-----------------------------------------------------------------------------
(* The types are kept *)

LEMMA InitTypeInv == Init => TypeInv
<1> SUFFICES ASSUME Init PROVE TypeInv
  OBVIOUS
<1>1. World(world)
  BY FetcherAssumption DEF Init
<1>2. cache = [o \in {} |-> Entry("FETCHING", <<>>, 0)] /\ DOMAIN cache = {}
  BY DEF Init, InitCache
<1>3. asked \in [Origins -> Nat] /\ flag \in [Threads -> BOOLEAN]
  BY DEF Init, InitCache
<1>4. todo \in [Urls -> Nat]
  BY <1>1 DEF Init, World
<1>5. /\ pc \in [Threads -> Labels] /\ url \in [Threads -> Urls \cup {NoUrl}]
      /\ \A t \in Threads : pc[t] = "idle"
  BY DEF Init, Labels
<1>6. goal \in [Threads -> {"robots", "page", "hop"}] /\ hops \in [Threads -> Nat]
  BY DEF Init
<1>7. banned \subseteq Urls /\ stop \in BOOLEAN /\ dnsWait \in BOOLEAN
  BY DEF Init
<1> QED
  BY <1>1, <1>2, <1>3, <1>4, <1>5, <1>6, <1>7 DEF TypeInv, TypeOK

\* A thread that is busy has a URL, and the URL an origin.
LEMMA BusyTyped ==
    ASSUME TypeInv, NEW t \in Threads, pc[t] # "idle"
    PROVE  url[t] \in Urls /\ Here(t) \in Origins
BY FetcherAssumption DEF TypeInv, TypeOK, Here

\* The cache keeps its type when one entry is put.
CacheType(c) ==
    /\ DOMAIN c \subseteq Origins
    /\ \A o \in DOMAIN c :
        /\ c[o].status \in {"FETCHING", "FETCHED", "NON_EXISTENT"}
        /\ c[o].age \in 0 .. MaxAge
        /\ c[o] = Entry(c[o].status, c[o].text, c[o].age)

\* What a call of a thread concerns: its place and its own variables.
PlaceType ==
    /\ pc \in [Threads -> Labels]
    /\ url \in [Threads -> Urls \cup {NoUrl}]
    /\ \A t \in Threads : pc[t] # "idle" => url[t] \in Urls
    /\ goal \in [Threads -> {"robots", "page", "hop"}]
    /\ hops \in [Threads -> Nat]
    /\ banned \subseteq Urls

RestType ==
    /\ World(world)
    /\ flag \in [Threads -> BOOLEAN]
    /\ todo \in [Urls -> Nat]
    /\ stop \in BOOLEAN /\ dnsWait \in BOOLEAN
    /\ asked \in [Origins -> Nat]

LEMMA TypeParts == TypeInv <=> CacheType(cache) /\ PlaceType /\ RestType
BY DEF TypeInv, TypeOK, CacheType, PlaceType, RestType

LEMMA TypePartsNext ==
    ASSUME CacheType(cache'), PlaceType', RestType'
    PROVE  TypeInv'
BY DEF TypeInv, TypeOK, CacheType, PlaceType, RestType

\* Entering an origin.
LEMMA EnterTypes ==
    ASSUME CacheType(cache), NEW o \in Origins
    PROVE  CacheType(WithEntry(o, Entry("FETCHING", <<>>, MaxAge)))
<1> DEFINE e == Entry("FETCHING", <<>>, MaxAge)
           c == WithEntry(o, e)
<1>1. e.status = "FETCHING" /\ e.age = MaxAge /\ e = Entry(e.status, e.text, e.age)
  BY DEF Entry
<1>2. DOMAIN c = DOMAIN cache \cup {o}
  BY DEF WithEntry
<1>3. \A p \in DOMAIN c : c[p] = IF p = o THEN e ELSE cache[p]
  BY DEF WithEntry
<1>4. MaxAge \in 0 .. MaxAge
  BY FetcherAssumption
<1> HIDE DEF e, c
<1>5. CacheType(c)
  BY <1>1, <1>2, <1>3, <1>4 DEF CacheType
<1> QED
  BY <1>5 DEF c, e

\* Replacing an entry.
LEMMA PutTypes ==
    ASSUME CacheType(cache), NEW o, NEW s \in {"FETCHING", "FETCHED", "NON_EXISTENT"},
           NEW x, NEW a \in 0 .. MaxAge
    PROVE  CacheType([cache EXCEPT ![o] = Entry(s, x, a)])
<1> DEFINE e == Entry(s, x, a)
           c == [cache EXCEPT ![o] = e]
<1>1. e.status = s /\ e.age = a /\ e = Entry(e.status, e.text, e.age)
  BY DEF Entry
<1>2. DOMAIN c = DOMAIN cache
  OBVIOUS
<1>3. \A p \in DOMAIN c : c[p] = IF p = o THEN e ELSE cache[p]
  OBVIOUS
<1> HIDE DEF e, c
<1>4. CacheType(c)
  BY <1>1, <1>2, <1>3 DEF CacheType
<1> QED
  BY <1>4 DEF c, e

LEMMA AskFetchTypes ==
    ASSUME TypeInv, NEW t \in Threads, pc[t] = "ask", AskFetch(t)
    PROVE  CacheType(cache') /\ asked' \in [Origins -> Nat]
<1>1. Here(t) \in Origins
  BY BusyTyped
<1>2. CacheType(cache')
  BY <1>1, TypeParts, EnterTypes DEF AskFetch
<1>3. asked \in [Origins -> Nat] /\ asked' = [asked EXCEPT ![Here(t)] = asked[Here(t)] + 1]
  BY DEF AskFetch, TypeInv
<1>4. asked' \in [Origins -> Nat]
  BY <1>1, <1>3
<1> QED
  BY <1>2, <1>4

\* The labels a permission leads to.
LEMMA AskTypes ==
    ASSUME TypeInv, NEW t \in Threads, Ask(t) \/ Reread(t) \/ Stamp(t)
    PROVE  /\ CacheType(cache') /\ asked' \in [Origins -> Nat] /\ flag' \in [Threads -> BOOLEAN]
           /\ \E l \in Labels \ {"idle"} : pc' = [pc EXCEPT ![t] = l]
           /\ pc[t] # "idle"
<1>0. /\ CacheType(cache) /\ asked \in [Origins -> Nat] /\ flag \in [Threads -> BOOLEAN]
      /\ MaxAge \in Nat
  BY TypeParts, FetcherAssumption DEF RestType
<1>1. CASE Ask(t) /\ AskFetch(t)
  <2>1. pc' = [pc EXCEPT ![t] = "robots"] /\ flag' = flag /\ pc[t] = "ask"
    BY <1>1 DEF Ask, AskFetch
  <2>2. "robots" \in Labels \ {"idle"}
    BY DEF Labels
  <2> QED
    BY <1>0, <1>1, <2>1, <2>2, AskFetchTypes
<1>2. CASE Ask(t) /\ AskWait(t)
  <2>1. /\ pc' = [pc EXCEPT ![t] = "wait"] /\ flag' = flag /\ cache' = cache
        /\ asked' = asked /\ pc[t] = "ask"
    BY <1>2 DEF Ask, AskWait, cacheVars
  <2>2. "wait" \in Labels \ {"idle"}
    BY DEF Labels
  <2> QED
    BY <1>0, <2>1, <2>2
<1>3. \A e : Judge(t, e) => \E l \in Labels \ {"idle"} : pc' = [pc EXCEPT ![t] = l]
  BY DEF Judge, Labels
<1>4. CASE Ask(t) /\ AskKnown(t)
  <2>1. flag' = flag /\ cache' = cache /\ asked' = asked /\ pc[t] = "ask"
    BY <1>4 DEF Ask, AskKnown
  <2> QED
    BY <1>0, <1>3, <1>4, <2>1 DEF AskKnown
<1>5. CASE Reread(t)
  <2>1. /\ flag' = [flag EXCEPT ![t] = TRUE] /\ cache' = cache /\ asked' = asked
        /\ pc[t] = "reread" /\ Judge(t, cache[Here(t)])
    BY <1>5 DEF Reread
  <2>2. flag' \in [Threads -> BOOLEAN]
    BY <1>0, <2>1
  <2> QED
    BY <1>0, <1>3, <2>1, <2>2
<1>6. CASE Stamp(t) /\ Permit(t)
  <2> DEFINE e == cache[Here(t)]
  <2>1. /\ pc' = [pc EXCEPT ![t] = "page"] /\ flag' = flag /\ asked' = asked
        /\ pc[t] = "stamp"
        /\ cache' = [cache EXCEPT ![Here(t)] = Entry(e.status, e.text, 0)]
    BY <1>6 DEF Stamp, Permit
  <2>2. CacheType(cache')
    <3>1. CASE Here(t) \in DOMAIN cache
      <4>1. e.status \in {"FETCHING", "FETCHED", "NON_EXISTENT"} /\ 0 \in 0 .. MaxAge
        BY <1>0, <3>1 DEF CacheType
      <4> QED
        BY <1>0, <2>1, <4>1, PutTypes
    <3>2. CASE Here(t) \notin DOMAIN cache
      <4>1. /\ DOMAIN cache' = DOMAIN cache
            /\ \A o \in DOMAIN cache : cache'[o] = cache[o]
        BY <2>1, <3>2
      <4> QED
        BY <1>0, <4>1 DEF CacheType
    <3> QED
      BY <3>1, <3>2
  <2>3. "page" \in Labels \ {"idle"}
    BY DEF Labels
  <2> QED
    BY <1>0, <2>1, <2>2, <2>3
<1>7. CASE Stamp(t) /\ TooSoon(t)
  <2>1. /\ pc' = [pc EXCEPT ![t] = "wait"] /\ flag' = flag /\ cache' = cache
        /\ asked' = asked /\ pc[t] = "stamp"
    BY <1>7 DEF Stamp, TooSoon, cacheVars
  <2>2. "wait" \in Labels \ {"idle"}
    BY DEF Labels
  <2> QED
    BY <1>0, <2>1, <2>2
<1> QED
  BY <1>1, <1>2, <1>4, <1>5, <1>6, <1>7 DEF Ask, Stamp

\* A thread that stays busy stays with its URL.
LEMMA StayTypes ==
    ASSUME PlaceType, NEW t \in Threads, pc[t] # "idle", NEW l \in Labels,
           pc' = [pc EXCEPT ![t] = l], url' = url,
           goal' \in [Threads -> {"robots", "page", "hop"}], hops' \in [Threads -> Nat],
           banned' = banned
    PROVE  PlaceType'
<1>1. pc' \in [Threads -> Labels]
  BY DEF PlaceType
<1>2. ASSUME NEW s \in Threads, pc'[s] # "idle" PROVE url'[s] \in Urls
  BY <1>2 DEF PlaceType
<1>3. url' \in [Threads -> Urls \cup {NoUrl}] /\ banned' \subseteq Urls
  BY DEF PlaceType
<1> QED
  BY <1>1, <1>2, <1>3 DEF PlaceType

LEMMA AimTypes ==
    ASSUME PlaceType, NEW t \in Threads, Aim(t)
    PROVE  goal' \in [Threads -> {"robots", "page", "hop"}] /\ hops' \in [Threads -> Nat]
<1>1. hops' \in [Threads -> Nat]
  BY DEF Aim, PlaceType
<1>2. PICK g : /\ goal' = [goal EXCEPT ![t] = g]
               /\ g = IF pc'[t] \in {"robots", "page"} THEN pc'[t] ELSE goal[t]
  BY DEF Aim
<1>3. g \in {"robots", "page", "hop"}
  BY <1>2 DEF PlaceType
<1>4. goal' \in [Threads -> {"robots", "page", "hop"}]
  BY <1>2, <1>3 DEF PlaceType
<1> QED
  BY <1>1, <1>4

LEMMA PermissionTypes ==
    ASSUME TypeInv, NEW t \in Threads, RequestPermission(t)
    PROVE  TypeInv'
<1>1. /\ CacheType(cache') /\ asked' \in [Origins -> Nat] /\ flag' \in [Threads -> BOOLEAN]
      /\ pc[t] # "idle"
  BY AskTypes DEF RequestPermission
<1>2. PICK l \in Labels : pc' = [pc EXCEPT ![t] = l]
  BY AskTypes DEF RequestPermission
<1>3. PlaceType'
  BY <1>1, <1>2, TypeParts, AimTypes, StayTypes DEF RequestPermission
<1>4. RestType'
  BY <1>1, TypeParts DEF RequestPermission, RestType
<1> QED
  BY <1>1, <1>3, <1>4, TypePartsNext

LEMMA TakeTypes ==
    ASSUME TypeInv, NEW t \in Threads, Take(t)
    PROVE  TypeInv'
<1>1. PICK u \in Urls : /\ todo[u] > 0
                        /\ todo' = [todo EXCEPT ![u] = todo[u] - 1]
                        /\ url' = [url EXCEPT ![t] = u]
  BY DEF Take
<1>2. pc' = [pc EXCEPT ![t] = "ask"] /\ "ask" \in Labels
  BY DEF Take, Goto, Labels
<1>3. PlaceType'
  <2>1. /\ pc' \in [Threads -> Labels] /\ url' \in [Threads -> Urls \cup {NoUrl}]
        /\ goal' \in [Threads -> {"robots", "page", "hop"}] /\ hops' \in [Threads -> Nat]
        /\ banned' \subseteq Urls
    BY <1>1, <1>2, TypeParts DEF Take, PlaceType
  <2>2. ASSUME NEW s \in Threads, pc'[s] # "idle" PROVE url'[s] \in Urls
    BY <1>1, <1>2, <2>2, TypeParts DEF PlaceType
  <2> QED
    BY <2>1, <2>2 DEF PlaceType
<1>4. todo' \in [Urls -> Nat]
  BY <1>1, TypeParts DEF RestType
<1>5. CacheType(cache') /\ RestType'
  BY <1>4, TypeParts DEF Take, RestType
<1> QED
  BY <1>3, <1>5, TypePartsNext

LEMMA WaitedTypes ==
    ASSUME TypeInv, NEW t \in Threads, Waited(t)
    PROVE  TypeInv'
<1>1. PICK l : /\ pc' = [pc EXCEPT ![t] = l]
               /\ l \in {"page", "ask"}
               /\ pc[t] = "wait"
  BY DEF Waited, Goto
<1>2. l \in Labels
  BY <1>1 DEF Labels
<1>3. PlaceType'
  BY <1>1, <1>2, TypeParts, AimTypes, StayTypes DEF Waited
<1>4. CacheType(cache') /\ RestType'
  BY TypeParts DEF Waited, RestType, cacheVars
<1> QED
  BY <1>3, <1>4, TypePartsNext

LEMMA ReturnTypes ==
    ASSUME PlaceType, NEW t \in Threads, pc[t] # "idle", NEW result, Return(t, result)
    PROVE  PlaceType'
<1>1. /\ pc' = [pc EXCEPT ![t] = "idle"] /\ url' = [url EXCEPT ![t] = NoUrl]
      /\ goal' = goal /\ hops' = hops
  BY DEF Return, Goto
<1>2. banned' \subseteq Urls
  BY DEF Return, PlaceType
<1>3. pc' \in [Threads -> Labels] /\ url' \in [Threads -> Urls \cup {NoUrl}]
  BY <1>1 DEF PlaceType, Labels
<1>4. ASSUME NEW s \in Threads, pc'[s] # "idle" PROVE url'[s] \in Urls
  BY <1>1, <1>4 DEF PlaceType
<1>5. goal' \in [Threads -> {"robots", "page", "hop"}] /\ hops' \in [Threads -> Nat]
  BY <1>1 DEF PlaceType
<1> QED
  BY <1>2, <1>3, <1>4, <1>5 DEF PlaceType

LEMMA RedirectTypes ==
    ASSUME PlaceType, NEW t \in Threads, pc[t] # "idle", NEW to, Redirect(t, to)
    PROVE  PlaceType'
<1>1. /\ pc' = [pc EXCEPT ![t] = "page"] /\ "page" \in Labels
      /\ url' = url /\ banned' = banned
  BY DEF Redirect, Goto, Labels
<1>2. goal' \in [Threads -> {"robots", "page", "hop"}] /\ hops' \in [Threads -> Nat]
  BY DEF Redirect, PlaceType
<1> QED
  BY <1>1, <1>2, StayTypes

\* The robots cache changes by an entry that is put.
LEMMA RobotsStatusTypes ==
    ASSUME CacheType(cache), PlaceType, NEW t \in Threads, pc[t] # "idle",
           NEW status, NEW text, RobotsStatus(t, status, text)
    PROVE  CacheType(cache') /\ PlaceType' /\ flag' = flag /\ asked' = asked
<1>0. 0 \in 0 .. MaxAge
  BY FetcherAssumption
<1>1. /\ pc' = [pc EXCEPT ![t] = "reread"] /\ "reread" \in Labels
      /\ url' = url /\ banned' = banned /\ goal' = goal /\ hops' = hops
      /\ flag' = flag /\ asked' = asked
  BY DEF RobotsStatus, PutFetched, PutNonExistent, Labels
<1>2. PICK s, x :
        /\ s \in {"FETCHED", "NON_EXISTENT"}
        /\ cache' = [cache EXCEPT ![Here(t)] = Entry(s, x, 0)]
  BY DEF RobotsStatus, PutFetched, PutNonExistent
<1>3. CacheType(cache')
  BY <1>0, <1>2, PutTypes
<1>4. PlaceType'
  BY <1>1, StayTypes DEF PlaceType
<1> QED
  BY <1>1, <1>3, <1>4

LEMMA StatusTypes ==
    ASSUME CacheType(cache), PlaceType, NEW t \in Threads, pc[t] # "idle",
           NEW status \in {"success", "failure", "redirect", "again"}, NEW text,
           Status(t, status, text)
    PROVE  CacheType(cache') /\ PlaceType' /\ flag' = flag /\ asked' = asked
<1>0. goal[t] \in {"robots", "page", "hop"}
  BY DEF PlaceType
<1>1. CASE goal[t] = "robots"
  BY <1>1, RobotsStatusTypes DEF Status
<1>2. CASE goal[t] = "page"
  <2>1. PageStatus(t, status) /\ UNCHANGED cacheVars
    BY <1>2 DEF Status
  <2>2. CASE status = "again"
    <3>1. /\ pc' = [pc EXCEPT ![t] = "page"] /\ "page" \in Labels
          /\ url' = url /\ banned' = banned /\ goal' = goal /\ hops' = hops
      BY <2>1, <2>2 DEF PageStatus, Goto, Labels
    <3>2. PlaceType'
      BY <3>1, StayTypes DEF PlaceType
    <3> QED
      BY <2>1, <3>2 DEF cacheVars
  <2>3. CASE status = "redirect"
    <3>1. Redirect(t, world.answer[at[t]])
      BY <2>1, <2>3 DEF PageStatus
    <3> QED
      BY <2>1, <3>1, RedirectTypes DEF cacheVars
  <2>4. CASE status \in {"failure", "success"}
    <3>1. Return(t, status)
      BY <2>1, <2>4 DEF PageStatus
    <3> QED
      BY <2>1, <3>1, ReturnTypes DEF cacheVars
  <2> QED
    BY <2>2, <2>3, <2>4
<1>3. CASE goal[t] = "hop"
  <2>1. HopStatus(t, status) /\ UNCHANGED cacheVars
    BY <1>3 DEF Status
  <2>2. \/ Return(t, "blacklist") \/ Return(t, "success")
        \/ Redirect(t, world.answer[at[t]])
    BY <2>1 DEF HopStatus
  <2> QED
    BY <2>1, <2>2, ReturnTypes, RedirectTypes DEF cacheVars
<1> QED
  BY <1>0, <1>1, <1>2, <1>3

Statuses == {"success", "failure", "redirect", "again"}

\* Whatever the site or the network does, get_ssl returns one of its statuses.
LEMMA GetReturns ==
    ASSUME NEW t \in Threads, Get(t)
    PROVE  /\ \E status \in Statuses : \E text : Status(t, status, text)
           /\ Getting(t) /\ UNCHANGED <<world, todo, stop, dnsWait>>
<1>1. CASE GetRobots(t)
  BY <1>1 DEF GetRobots, Statuses, Get
<1>2. CASE GetPage(t)
  <2>1. PICK status : status \in Statuses /\ Status(t, status, <<>>)
    BY <1>2 DEF GetPage, Statuses
  <2> QED
    BY <2>1 DEF Get
<1>3. CASE GetFails(t)
  BY <1>3 DEF GetFails, Statuses, Get
<1> QED
  BY <1>1, <1>2, <1>3 DEF Get

LEMMA GetTypes ==
    ASSUME TypeInv, NEW t \in Threads, Get(t) \/ Again(t)
    PROVE  TypeInv'
<1>1. PICK status, text : status \in Statuses /\ Status(t, status, text)
  BY GetReturns DEF Again, Statuses
<1>2. pc[t] # "idle" /\ UNCHANGED <<world, todo, stop, dnsWait>>
  BY GetReturns DEF Again, Getting
<1>3. CacheType(cache') /\ PlaceType' /\ flag' = flag /\ asked' = asked
  BY <1>1, <1>2, TypeParts, StatusTypes DEF Statuses
<1>4. RestType'
  BY <1>2, <1>3, TypeParts DEF RestType
<1> QED
  BY <1>3, <1>4, TypePartsNext

\* A thread at the gate, or refused.
LEMMA GateTypes ==
    ASSUME TypeInv, NEW t \in Threads,
           Refused(t) \/ TryAgain(t) \/ EnterGate(t) \/ WakeByItself(t)
    PROVE  TypeInv'
<1>1. CacheType(cache') /\ RestType'
  BY TypeParts DEF Refused, TryAgain, EnterGate, WakeByItself, RestType, cacheVars, fetchVars
<1>2. CASE Refused(t)
  <2>1. pc[t] # "idle" /\ Return(t, "failure")
    BY <1>2 DEF Refused
  <2> QED
    BY <1>1, <2>1, TypeParts, ReturnTypes, TypePartsNext
<1>3. CASE ~Refused(t)
  <2>1. /\ UNCHANGED <<url, goal, hops, banned>>
        /\ pc[t] # "idle"
    BY <1>3 DEF TryAgain, EnterGate, WakeByItself, Getting, fetchVars
  <2>2. PICK l \in Labels : pc' = [pc EXCEPT ![t] = l]
    BY <1>3 DEF TryAgain, EnterGate, WakeByItself, Goto, Labels
  <2>3. PlaceType'
    BY <2>1, <2>2, TypeParts, StayTypes DEF PlaceType
  <2> QED
    BY <1>1, <2>3, TypePartsNext
<1> QED
  BY <1>2, <1>3

LEMMA PausedTypes ==
    ASSUME TypeInv, NEW t \in Threads, Paused(t)
    PROVE  TypeInv'
<1>1. CacheType(cache') /\ RestType'
  BY TypeParts DEF Paused, RestType, cacheVars
<1>2. UNCHANGED <<url, goal, hops, banned>> /\ pc[t] = "pause"
  BY DEF Paused
<1>3. pc' \in [Threads -> Labels] /\ \A s \in Threads : pc'[s] # "idle" => pc[s] # "idle"
  <2>1. CASE pc' = [pc EXCEPT ![t] = "again"]
    BY <1>2, <2>1, TypeParts DEF PlaceType, Labels
  <2>2. ASSUME NEW b \in Blocked, pc' = [pc EXCEPT ![t] = "again", ![b] = "gate"]
        PROVE  /\ pc' \in [Threads -> Labels]
               /\ \A s \in Threads : pc'[s] # "idle" => pc[s] # "idle"
    BY <1>2, <2>2, TypeParts DEF PlaceType, Labels, Blocked
  <2> QED
    BY <2>1, <2>2 DEF Paused, Goto
<1>4. PlaceType'
  BY <1>2, <1>3, TypeParts DEF PlaceType
<1> QED
  BY <1>1, <1>4, TypePartsNext

LEMMA TickTypes ==
    ASSUME TypeInv, Tick
    PROVE  TypeInv'
<1>0. MaxAge \in Nat
  BY FetcherAssumption
<1>1. \A a \in 0 .. MaxAge : Later(a) \in 0 .. MaxAge
  BY <1>0 DEF Later
<1>2. cache' = [o \in DOMAIN cache |->
        Entry(cache[o].status, cache[o].text, Later(cache[o].age))]
  BY DEF Tick, AgeAll
<1>3. ASSUME NEW o \in DOMAIN cache
      PROVE  /\ cache'[o].status = cache[o].status
             /\ cache'[o].age = Later(cache[o].age)
             /\ cache'[o] = Entry(cache'[o].status, cache'[o].text, cache'[o].age)
  BY <1>2 DEF Entry
<1>4. CacheType(cache')
  BY <1>1, <1>2, <1>3, TypeParts DEF CacheType
<1>5. PlaceType' /\ RestType'
  BY TypeParts DEF Tick, PlaceType, RestType, fetchVars
<1> QED
  BY <1>4, <1>5, TypePartsNext

LEMMA StepTypeInv == TypeInv /\ [Next]_vars => TypeInv'
<1> SUFFICES ASSUME TypeInv, [Next]_vars PROVE TypeInv'
  OBVIOUS
<1>1. CASE UNCHANGED vars
  <2>1. CacheType(cache') /\ PlaceType' /\ RestType'
    BY <1>1, TypeParts DEF vars, cacheVars, fetchVars, PlaceType, RestType
  <2> QED
    BY <2>1, TypePartsNext
<1>2. CASE Stop
  <2>1. CacheType(cache') /\ PlaceType' /\ RestType'
    BY <1>2, TypeParts DEF Stop, cacheVars, PlaceType, RestType
  <2> QED
    BY <2>1, TypePartsNext
<1>3. ASSUME NEW t \in Threads, Step(t) PROVE TypeInv'
  BY <1>3, PermissionTypes, TakeTypes, WaitedTypes, GetTypes, GateTypes, PausedTypes DEF Step
<1> QED
  BY <1>1, <1>2, <1>3, TickTypes DEF Next

\* Types: places, URLs and counters of the threads are of their kinds, a thread that
\* is busy has a URL, and the cache has only entries of origins in one of the three
\* states of fetch_status.
THEOREM TypeCorrect == Spec => []TypeOK
<1>1. TypeInv => TypeOK
  BY DEF TypeInv
<1> QED
  BY <1>1, InitTypeInv, StepTypeInv, PTL DEF Spec

-----------------------------------------------------------------------------
(* The gate *)


LEMMA InitGateWakes == Init => GateWakes
BY DEF Init, GateWakes, Blocked

\* What threads do elsewhere leaves the gate as it is, or brings one more there.
LEMMA ElsewhereGate ==
    ASSUME TypeInv, GateWakes, NEW t \in Threads, pc[t] \notin {"pause", "blocked", "gate"},
           NEW l, l \notin {"pause", "blocked"}, pc' = [pc EXCEPT ![t] = l],
           dnsWait' = dnsWait
    PROVE  GateWakes'
<1>1. ASSUME NEW s \in Threads
      PROVE  /\ pc'[s] = "pause" <=> pc[s] = "pause"
             /\ pc'[s] = "blocked" <=> pc[s] = "blocked"
             /\ pc[s] = "gate" => pc'[s] = "gate"
  BY DEF TypeInv, TypeOK
<1> QED
  BY <1>1 DEF GateWakes, Blocked

\* Where a permission, a status of get_ssl and the other steps lead.
LEMMA PermissionPlace ==
    ASSUME TypeInv, NEW t \in Threads, RequestPermission(t) \/ Waited(t)
    PROVE  /\ pc[t] \in {"ask", "reread", "stamp", "wait"}
           /\ \E l \in {"robots", "wait", "stamp", "failed", "page", "ask"} :
                pc' = [pc EXCEPT ![t] = l]
           /\ dnsWait' = dnsWait
BY DEF RequestPermission, Waited, Ask, AskFetch, AskWait, AskKnown, Reread, Stamp, Permit,
       TooSoon, Judge, Goto

LEMMA StatusPlace ==
    ASSUME TypeInv, NEW t \in Threads, NEW status \in Statuses, NEW text,
           Status(t, status, text)
    PROVE  \E l \in {"idle", "reread", "page"} : pc' = [pc EXCEPT ![t] = l]
<1>1. goal[t] \in {"robots", "page", "hop"}
  BY DEF TypeInv, TypeOK
<1>2. CASE goal[t] = "robots"
  <2>1. RobotsStatus(t, status, text)
    BY <1>2 DEF Status
  <2> QED
    BY <2>1 DEF RobotsStatus, PutFetched, PutNonExistent
<1>3. CASE goal[t] = "page"
  <2>1. PageStatus(t, status)
    BY <1>3 DEF Status
  <2>2. \/ Goto(t, "page") \/ Redirect(t, world.answer[at[t]])
        \/ Return(t, status)
    BY <2>1 DEF PageStatus, Statuses
  <2> QED
    BY <2>2 DEF Goto, Redirect, Return
<1>4. CASE goal[t] = "hop"
  <2>1. HopStatus(t, status)
    BY <1>4 DEF Status
  <2>2. \/ Redirect(t, world.answer[at[t]])
        \/ Return(t, "blacklist") \/ Return(t, "success")
    BY <2>1 DEF HopStatus
  <2> QED
    BY <2>2 DEF Goto, Redirect, Return
<1> QED
  BY <1>1, <1>2, <1>3, <1>4

LEMMA GetPlace ==
    ASSUME TypeInv, NEW t \in Threads, Get(t) \/ Again(t)
    PROVE  /\ pc[t] \in {"robots", "page", "again"}
           /\ \E l \in {"idle", "reread", "page"} : pc' = [pc EXCEPT ![t] = l]
           /\ dnsWait' = dnsWait
<1>1. PICK status, text : status \in Statuses /\ Status(t, status, text)
  BY GetReturns DEF Again, Statuses
<1>2. pc[t] \in {"robots", "page", "again"} /\ dnsWait' = dnsWait
  BY GetReturns DEF Again, Getting
<1> QED
  BY <1>1, <1>2, StatusPlace

LEMMA EnterGateWakes ==
    ASSUME TypeInv, GateWakes, NEW t \in Threads, EnterGate(t)
    PROVE  GateWakes'
<1>0. pc \in [Threads -> Labels] /\ pc[t] = "gate" /\ dnsWait' = TRUE
  BY DEF EnterGate, TypeInv, TypeOK
<1>1. CASE dnsWait
  <2>1. PICK s \in Threads : pc[s] = "pause"
    BY <1>1 DEF GateWakes
  <2>2. pc' = [pc EXCEPT ![t] = "blocked"]
    BY <1>1 DEF EnterGate, Goto
  <2>3. \A r \in Threads : pc'[r] = "pause" <=> pc[r] = "pause"
    BY <1>0, <2>2
  <2> QED
    BY <1>0, <2>1, <2>3 DEF GateWakes, Blocked
<1>2. CASE ~dnsWait
  <2>1. \A r \in Threads : pc[r] # "pause"
    BY <1>2 DEF GateWakes
  <2>2. pc' = [pc EXCEPT ![t] = "pause"]
    BY <1>2 DEF EnterGate, Goto
  <2>3. \A r \in Threads : pc'[r] = "pause" <=> r = t
    BY <1>0, <2>1, <2>2
  <2> QED
    BY <1>0, <2>3 DEF GateWakes, Blocked
<1> QED
  BY <1>1, <1>2

LEMMA PausedWakes ==
    ASSUME TypeInv, GateWakes, NEW t \in Threads, Paused(t)
    PROVE  GateWakes'
<1>0. pc \in [Threads -> Labels] /\ pc[t] = "pause" /\ dnsWait' = FALSE
  BY DEF Paused, TypeInv, TypeOK
<1>1. \A r \in Threads : pc[r] = "pause" => r = t
  BY <1>0 DEF GateWakes
<1>2. CASE Blocked = {}
  <2>1. pc' = [pc EXCEPT ![t] = "again"]
    BY <1>2 DEF Paused, Goto
  <2>2. \A r \in Threads : pc'[r] \notin {"pause", "blocked"}
    BY <1>0, <1>1, <1>2, <2>1 DEF Blocked
  <2> QED
    BY <1>0, <2>2 DEF GateWakes, Blocked
<1>3. CASE Blocked # {}
  <2>1. PICK b \in Blocked : pc' = [pc EXCEPT ![t] = "again", ![b] = "gate"]
    BY <1>3 DEF Paused
  <2>2. b \in Threads /\ b # t /\ pc'[b] = "gate"
    BY <1>0, <2>1 DEF Blocked
  <2>3. \A r \in Threads : pc'[r] # "pause"
    BY <1>0, <1>1, <2>1
  <2> QED
    BY <1>0, <2>2, <2>3 DEF GateWakes
<1> QED
  BY <1>2, <1>3

LEMMA StepGateWakes == TypeInv /\ GateWakes /\ [Next]_vars => GateWakes'
<1> SUFFICES ASSUME TypeInv, GateWakes, [Next]_vars PROVE GateWakes'
  OBVIOUS
<1>1. CASE pc' = pc /\ dnsWait' = dnsWait
  BY <1>1 DEF GateWakes, Blocked
<1>2. CASE Stop \/ Tick \/ UNCHANGED vars
  BY <1>1, <1>2 DEF Stop, Tick, vars, fetchVars
<1>3. ASSUME NEW t \in Threads, RequestPermission(t) \/ Waited(t) PROVE GateWakes'
  <2>1. PICK l : /\ l \in {"robots", "wait", "stamp", "failed", "page", "ask"}
                 /\ pc' = [pc EXCEPT ![t] = l]
    BY <1>3, PermissionPlace
  <2>2. pc[t] \in {"ask", "reread", "stamp", "wait"} /\ dnsWait' = dnsWait
    BY <1>3, PermissionPlace
  <2> QED
    BY <2>1, <2>2, ElsewhereGate
<1>4. ASSUME NEW t \in Threads, Get(t) \/ Again(t) PROVE GateWakes'
  <2>1. PICK l : l \in {"idle", "reread", "page"} /\ pc' = [pc EXCEPT ![t] = l]
    BY <1>4, GetPlace
  <2>2. pc[t] \in {"robots", "page", "again"} /\ dnsWait' = dnsWait
    BY <1>4, GetPlace
  <2> QED
    BY <2>1, <2>2, ElsewhereGate
<1>5. ASSUME NEW t \in Threads, Take(t) \/ Refused(t) \/ TryAgain(t) PROVE GateWakes'
  <2>1. PICK l : l \in {"ask", "idle", "gate"} /\ pc' = [pc EXCEPT ![t] = l]
    BY <1>5 DEF Take, Refused, TryAgain, Return, Goto
  <2>2. pc[t] \in {"idle", "failed", "robots", "page"} /\ dnsWait' = dnsWait
    BY <1>5 DEF Take, Refused, TryAgain, Getting
  <2> QED
    BY <2>1, <2>2, ElsewhereGate
<1>6. ASSUME NEW t \in Threads, WakeByItself(t) PROVE GateWakes'
  <2>1. /\ pc' = [pc EXCEPT ![t] = "gate"] /\ pc[t] = "blocked" /\ dnsWait' = dnsWait
        /\ pc \in [Threads -> Labels]
    BY <1>6 DEF WakeByItself, Goto, fetchVars, TypeInv, TypeOK
  <2>2. \A r \in Threads : pc'[r] = "pause" <=> pc[r] = "pause"
    BY <2>1
  <2> QED
    BY <2>1, <2>2 DEF GateWakes
<1> QED
  BY <1>2, <1>3, <1>4, <1>5, <1>6, EnterGateWakes, PausedWakes DEF Next, Step

\* In get_ssl's gate at most one thread pauses, dns_wait says whether one does, and
\* blocked threads always have somebody who will wake one of them: for any number
\* of threads and of failures, signals that nobody asked for included.
THEOREM GateKept == Spec => []GateWakes
<1> QED
  BY InitTypeInv, StepTypeInv, InitGateWakes, StepGateWakes, PTL DEF Spec

-----------------------------------------------------------------------------
(* The single fetch *)

LEMMA InitFetchInv == Init => FetchInv
<1> SUFFICES ASSUME Init PROVE FetchInv
  OBVIOUS
<1>1. \A t \in Threads : pc[t] = "idle"
  BY DEF Init
<1>2. \A o \in Origins : asked[o] = 0
  BY DEF Init, InitCache
<1> QED
  BY <1>1, <1>2 DEF FetchInv, Aimed, FetchEntered, FetchAlone, ReadSettled, AskedOnce,
                    Fetching, Reading

Settled(o) == o \in DOMAIN cache /\ cache[o].status # "FETCHING"

\* Every entry keeps its status.
SameEntries ==
    /\ DOMAIN cache' = DOMAIN cache
    /\ \A o \in DOMAIN cache : cache'[o].status = cache[o].status
    /\ asked' = asked

\* A step that begins no fetch and ends none keeps the invariant.
LEMMA OrdinaryStep ==
    ASSUME FetchInv, Aimed', SameEntries,
           \A s \in Threads : Fetching(s)' => Fetching(s) /\ url'[s] = url[s],
           \A s \in Threads : Reading(s)' => url'[s] = url[s] /\ (Reading(s) \/ Settled(Here(s)))
    PROVE  FetchInv'
<1>1. FetchEntered'
  <2> SUFFICES ASSUME NEW s \in Threads, Fetching(s)'
               PROVE  (Here(s) \in DOMAIN cache /\ cache[Here(s)].status = "FETCHING")'
    BY DEF FetchEntered
  <2>1. Fetching(s) /\ Here(s)' = Here(s)
    BY DEF Here
  <2> QED
    BY <2>1 DEF FetchInv, FetchEntered, SameEntries
<1>2. FetchAlone'
  <2> SUFFICES ASSUME NEW t \in Threads, NEW s \in Threads,
                      Fetching(t)', Fetching(s)', Here(t)' = Here(s)'
               PROVE  t = s
    BY DEF FetchAlone
  <2>1. Fetching(t) /\ Here(t)' = Here(t) /\ Fetching(s) /\ Here(s)' = Here(s)
    BY DEF Here
  <2> QED
    BY <2>1 DEF FetchInv, FetchAlone
<1>3. ReadSettled'
  <2> SUFFICES ASSUME NEW s \in Threads, Reading(s)'
               PROVE  (Here(s) \in DOMAIN cache /\ cache[Here(s)].status # "FETCHING")'
    BY DEF ReadSettled
  <2>1. Here(s)' = Here(s) /\ Settled(Here(s))
    BY DEF Here, FetchInv, ReadSettled, Settled
  <2> QED
    BY <2>1 DEF Settled, SameEntries
<1>4. AskedOnce'
  BY DEF FetchInv, AskedOnce, SameEntries
<1> QED
  BY <1>1, <1>2, <1>3, <1>4 DEF FetchInv

\* One thread goes on to l; its get_ssl, if that is where it goes, is what it is for.
LEMMA AimedStep ==
    ASSUME TypeInv, Aimed, NEW t \in Threads, NEW l, pc' = [pc EXCEPT ![t] = l],
           \A s \in Threads \ {t} : goal'[s] = goal[s],
           l = "robots" => goal'[t] = "robots", l = "page" => goal'[t] # "robots"
    PROVE  Aimed'
<1>1. pc'[t] = l /\ \A s \in Threads \ {t} : pc'[s] = pc[s]
  BY DEF TypeInv, TypeOK
<1> QED
  BY <1>1 DEF Aimed

\* A thread asks about an origin that nobody has asked about.
LEMMA FetchBegins ==
    ASSUME TypeInv, FetchInv, NEW t \in Threads, pc[t] = "ask", AskFetch(t), Aim(t), url' = url
    PROVE  FetchInv'
<1> DEFINE h == Here(t)
<1>0. /\ h \in Origins /\ h \notin DOMAIN cache /\ asked \in [Origins -> Nat]
      /\ pc \in [Threads -> Labels] /\ goal \in [Threads -> {"robots", "page", "hop"}]
  BY BusyTyped DEF AskFetch, TypeInv, TypeOK
<1>1. /\ pc' = [pc EXCEPT ![t] = "robots"]
      /\ asked' = [asked EXCEPT ![h] = asked[h] + 1]
  BY DEF AskFetch
<1>2. goal' = [goal EXCEPT ![t] = "robots"]
  BY <1>0, <1>1 DEF Aim
<1>3. /\ DOMAIN cache' = DOMAIN cache \cup {h}
      /\ \A o \in DOMAIN cache : cache'[o] = cache[o]
      /\ cache'[h].status = "FETCHING"
  BY <1>0 DEF AskFetch, WithEntry, Entry
<1>4. \A s \in Threads : Here(s)' = Here(s)
  BY DEF Here
<1>5. ASSUME NEW s \in Threads \ {t}
      PROVE  (Fetching(s)' <=> Fetching(s)) /\ (Reading(s)' <=> Reading(s))
  BY <1>0, <1>1, <1>2 DEF Fetching, Reading
<1>6. ~Reading(t)'
  BY <1>0, <1>1 DEF Reading
<1>7. \A s \in Threads \ {t} : Fetching(s) => Here(s) \in DOMAIN cache
  BY DEF FetchInv, FetchEntered
<1> HIDE DEF h
<1>8. Aimed'
  BY <1>0, <1>1, <1>2, AimedStep DEF FetchInv
<1>9. FetchEntered'
  <2> SUFFICES ASSUME NEW s \in Threads, Fetching(s)'
               PROVE  Here(s) \in DOMAIN cache' /\ cache'[Here(s)].status = "FETCHING"
    BY <1>4 DEF FetchEntered
  <2>1. CASE s = t
    BY <1>3, <2>1 DEF h
  <2>2. CASE s # t
    BY <1>3, <1>5, <2>2 DEF FetchInv, FetchEntered
  <2> QED
    BY <2>1, <2>2
<1>10. FetchAlone'
  <2> SUFFICES ASSUME NEW r \in Threads, NEW s \in Threads,
                      Fetching(r)', Fetching(s)', Here(r) = Here(s), r # s
               PROVE  FALSE
    BY <1>4 DEF FetchAlone
  <2>1. CASE r = t
    BY <1>0, <1>5, <1>7, <2>1 DEF h
  <2>2. CASE s = t
    BY <1>0, <1>5, <1>7, <2>2 DEF h
  <2>3. CASE r # t /\ s # t
    BY <1>5, <2>3 DEF FetchInv, FetchAlone
  <2> QED
    BY <2>1, <2>2, <2>3
<1>11. ReadSettled'
  <2> SUFFICES ASSUME NEW s \in Threads, Reading(s)'
               PROVE  Here(s) \in DOMAIN cache' /\ cache'[Here(s)].status # "FETCHING"
    BY <1>4 DEF ReadSettled
  <2>1. s # t /\ Reading(s)
    BY <1>5, <1>6
  <2> QED
    BY <1>3, <2>1 DEF FetchInv, ReadSettled
<1>12. AskedOnce'
  <2> SUFFICES ASSUME NEW o \in Origins
               PROVE  asked'[o] <= 1 /\ (o \notin DOMAIN cache' => asked'[o] = 0)
    BY DEF AskedOnce
  <2>1. CASE o = h
    BY <1>0, <1>1, <1>3, <2>1 DEF FetchInv, AskedOnce
  <2>2. CASE o # h
    BY <1>0, <1>1, <1>3, <2>2 DEF FetchInv, AskedOnce
  <2> QED
    BY <2>1, <2>2
<1> QED
  BY <1>8, <1>9, <1>10, <1>11, <1>12 DEF FetchInv

\* The thread that fetches puts what has come of it, and reads it.
LEMMA FetchEnds ==
    ASSUME TypeInv, FetchInv, NEW t \in Threads, Fetching(t), NEW status, NEW text,
           RobotsStatus(t, status, text)
    PROVE  FetchInv'
<1> DEFINE h == Here(t)
<1>0. h \in DOMAIN cache /\ pc \in [Threads -> Labels]
  BY DEF FetchInv, FetchEntered, TypeInv, TypeOK
<1>1. /\ pc' = [pc EXCEPT ![t] = "reread"] /\ goal' = goal /\ url' = url /\ asked' = asked
      /\ \E s \in {"FETCHED", "NON_EXISTENT"} : \E x :
            cache' = [cache EXCEPT ![h] = Entry(s, x, 0)]
  BY DEF RobotsStatus, PutFetched, PutNonExistent
<1>2. /\ DOMAIN cache' = DOMAIN cache
      /\ \A o \in DOMAIN cache \ {h} : cache'[o] = cache[o]
      /\ cache'[h].status # "FETCHING"
  BY <1>0, <1>1 DEF Entry
<1>3. \A s \in Threads : Here(s)' = Here(s)
  BY <1>1 DEF Here
<1>4. ASSUME NEW s \in Threads \ {t}
      PROVE  (Fetching(s)' <=> Fetching(s)) /\ (Reading(s)' <=> Reading(s))
  BY <1>0, <1>1 DEF Fetching, Reading
<1>5. ~Fetching(t)'
  BY <1>0, <1>1 DEF Fetching
<1>6. \A s \in Threads \ {t} : Fetching(s) => Here(s) # h
  BY DEF FetchInv, FetchAlone
<1>7. Aimed'
  BY <1>1, AimedStep DEF FetchInv
<1> HIDE DEF h
<1>8. FetchEntered'
  <2> SUFFICES ASSUME NEW s \in Threads, Fetching(s)'
               PROVE  Here(s) \in DOMAIN cache' /\ cache'[Here(s)].status = "FETCHING"
    BY <1>3 DEF FetchEntered
  <2>1. s # t /\ Fetching(s) /\ Here(s) # h
    BY <1>4, <1>5, <1>6
  <2> QED
    BY <1>2, <2>1 DEF FetchInv, FetchEntered
<1>9. FetchAlone'
  BY <1>3, <1>4, <1>5 DEF FetchInv, FetchAlone
<1>10. ReadSettled'
  <2> SUFFICES ASSUME NEW s \in Threads, Reading(s)'
               PROVE  Here(s) \in DOMAIN cache' /\ cache'[Here(s)].status # "FETCHING"
    BY <1>3 DEF ReadSettled
  <2>1. CASE Here(s) = h
    BY <1>0, <1>2, <2>1
  <2>2. CASE Here(s) # h
    <3>1. s # t /\ Reading(s)
      BY <1>4, <2>2 DEF h
    <3> QED
      BY <1>2, <2>2, <3>1 DEF FetchInv, ReadSettled
  <2> QED
    BY <2>1, <2>2
<1>11. AskedOnce'
  BY <1>1, <1>2 DEF FetchInv, AskedOnce
<1> QED
  BY <1>7, <1>8, <1>9, <1>10, <1>11 DEF FetchInv

\* get_ssl returns, for robots.txt or for a page.
LEMMA GetKeepsFetch ==
    ASSUME TypeInv, FetchInv, NEW t \in Threads, Get(t) \/ Again(t)
    PROVE  FetchInv'
<1>0. PICK status, text : status \in Statuses /\ Status(t, status, text)
  BY GetReturns DEF Again, Statuses
<1>1. pc[t] \in {"robots", "page", "again"} /\ goal[t] \in {"robots", "page", "hop"}
  BY GetPlace DEF TypeInv, TypeOK
<1>2. CASE goal[t] = "robots"
  <2>1. Fetching(t)
    BY <1>1, <1>2 DEF FetchInv, Aimed, Fetching
  <2> QED
    BY <1>0, <1>2, <2>1, FetchEnds DEF Status
<1>3. CASE goal[t] # "robots"
  <2>1. UNCHANGED cacheVars
    BY <1>0, <1>1, <1>3 DEF Status
  <2>2. \/ PageStatus(t, status) \/ HopStatus(t, status)
    BY <1>0, <1>1, <1>3 DEF Status
  <2>3. \/ Goto(t, "page") /\ UNCHANGED <<goal, url>>
        \/ Redirect(t, world.answer[at[t]])
        \/ \E result : Return(t, result)
    BY <1>0, <2>2 DEF PageStatus, HopStatus, Statuses
  <2>4. PICK l : l \in {"page", "idle"} /\ pc' = [pc EXCEPT ![t] = l]
    BY <2>3 DEF Goto, Redirect, Return
  <2>5. /\ goal'[t] # "robots"
        /\ \A s \in Threads \ {t} : goal'[s] = goal[s] /\ url'[s] = url[s]
    BY <1>3, <2>3 DEF Redirect, Return, TypeInv, TypeOK
  <2>6. Aimed'
    BY <2>4, <2>5, AimedStep DEF FetchInv
  <2>7. ASSUME NEW s \in Threads
        PROVE  /\ Fetching(s)' => Fetching(s) /\ url'[s] = url[s]
               /\ Reading(s)' => Reading(s) /\ url'[s] = url[s]
    BY <2>4, <2>5 DEF Fetching, Reading, TypeInv, TypeOK
  <2>8. SameEntries
    BY <2>1 DEF SameEntries, cacheVars
  <2> QED
    BY <2>6, <2>7, <2>8, OrdinaryStep
<1> QED
  BY <1>2, <1>3

\* Asking of an origin that is known, waiting, stamping.
LEMMA PermissionKeepsFetch ==
    ASSUME TypeInv, FetchInv, NEW t \in Threads, RequestPermission(t) \/ Waited(t)
    PROVE  FetchInv'
<1>0. url' = url /\ Aim(t)
  BY DEF RequestPermission, Waited
<1>1. CASE pc[t] = "ask" /\ AskFetch(t)
  BY <1>0, <1>1, FetchBegins
<1>2. CASE ~(pc[t] = "ask" /\ AskFetch(t))
  <2>1. PICK l : /\ l \in {"wait", "stamp", "failed", "page", "ask"}
                 /\ pc' = [pc EXCEPT ![t] = l]
                 /\ l = "stamp" => Reading(t) \/ Settled(Here(t))
    BY <1>2 DEF RequestPermission, Waited, Ask, AskWait, AskKnown, Reread, Stamp, Permit,
                TooSoon, Judge, Goto, Reading, Settled
  <2>2. /\ \A s \in Threads \ {t} : goal'[s] = goal[s]
        /\ l = "page" => goal'[t] # "robots"
    BY <1>0, <2>1 DEF Aim, TypeInv, TypeOK
  <2>3. Aimed'
    BY <2>1, <2>2, AimedStep DEF FetchInv
  <2>4. ASSUME NEW s \in Threads
        PROVE  /\ Fetching(s)' => Fetching(s)
               /\ Reading(s)' => Reading(s) \/ Settled(Here(s))
    BY <2>1, <2>2 DEF Fetching, Reading, TypeInv, TypeOK
  <2>5. SameEntries
    <3>1. CASE Permit(t) /\ pc[t] = "stamp"
      <4>1. /\ asked' = asked
            /\ cache' = [cache EXCEPT ![Here(t)] =
                            Entry(cache[Here(t)].status, cache[Here(t)].text, 0)]
        BY <3>1 DEF Permit
      <4> QED
        BY <4>1 DEF SameEntries, Entry
    <3>2. CASE ~(Permit(t) /\ pc[t] = "stamp")
      <4>1. cache' = cache /\ asked' = asked
        BY <1>2, <3>2 DEF RequestPermission, Waited, Ask, AskWait, AskKnown, Reread, Stamp,
                          TooSoon, cacheVars
      <4> QED
        BY <4>1 DEF SameEntries
    <3> QED
      BY <3>1, <3>2
  <2> QED
    BY <1>0, <2>3, <2>4, <2>5, OrdinaryStep
<1> QED
  BY <1>1, <1>2

\* A thread takes a URL, is refused one, or comes to the gate.
LEMMA BusyKeepsFetch ==
    ASSUME TypeInv, FetchInv, NEW t \in Threads,
           Take(t) \/ Refused(t) \/ TryAgain(t) \/ EnterGate(t) \/ WakeByItself(t)
    PROVE  FetchInv'
<1>1. PICK l : /\ l \in {"ask", "idle", "gate", "blocked", "pause"}
               /\ pc' = [pc EXCEPT ![t] = l]
               /\ l \in {"gate", "blocked", "pause"} =>
                    url' = url /\ pc[t] \in {"robots", "page", "gate", "blocked"}
  BY DEF Take, Refused, TryAgain, EnterGate, WakeByItself, Return, Goto, Getting
<1>2. goal' = goal /\ \A s \in Threads \ {t} : url'[s] = url[s]
  BY DEF Take, Refused, TryAgain, EnterGate, WakeByItself, Return, fetchVars, TypeInv, TypeOK
<1>3. SameEntries
  BY DEF Take, Refused, TryAgain, EnterGate, WakeByItself, cacheVars, SameEntries
<1>4. Aimed'
  BY <1>1, <1>2, AimedStep DEF FetchInv
<1>5. ASSUME NEW s \in Threads
      PROVE  /\ Fetching(s)' => Fetching(s) /\ url'[s] = url[s]
             /\ Reading(s)' => Reading(s) /\ url'[s] = url[s]
  <2>1. CASE s = t
    BY <1>1, <1>2, <2>1 DEF Fetching, Reading, FetchInv, Aimed, TypeInv, TypeOK
  <2>2. CASE s # t
    BY <1>1, <1>2, <2>2 DEF Fetching, Reading, TypeInv, TypeOK
  <2> QED
    BY <2>1, <2>2
<1> QED
  BY <1>3, <1>4, <1>5, OrdinaryStep

LEMMA PausedKeepsFetch ==
    ASSUME TypeInv, FetchInv, NEW t \in Threads, Paused(t)
    PROVE  FetchInv'
<1>1. goal' = goal /\ url' = url /\ pc[t] = "pause" /\ pc \in [Threads -> Labels]
  BY DEF Paused, TypeInv, TypeOK
<1>2. ASSUME NEW s \in Threads
      PROVE  \/ pc'[s] = pc[s]
             \/ pc[s] = "pause" /\ pc'[s] = "again"
             \/ pc[s] = "blocked" /\ pc'[s] = "gate"
  <2>1. CASE pc' = [pc EXCEPT ![t] = "again"]
    BY <1>1, <2>1
  <2>2. ASSUME NEW b \in Blocked, pc' = [pc EXCEPT ![t] = "again", ![b] = "gate"]
        PROVE  \/ pc'[s] = pc[s]
               \/ pc[s] = "pause" /\ pc'[s] = "again"
               \/ pc[s] = "blocked" /\ pc'[s] = "gate"
    BY <1>1, <2>2 DEF Blocked
  <2> QED
    BY <2>1, <2>2 DEF Paused, Goto
<1>3. SameEntries
  BY DEF Paused, cacheVars, SameEntries
<1>4. Aimed'
  BY <1>1, <1>2 DEF FetchInv, Aimed
<1>5. \A s \in Threads : (Fetching(s)' => Fetching(s)) /\ (Reading(s)' => Reading(s))
  BY <1>1, <1>2 DEF Fetching, Reading
<1> QED
  BY <1>1, <1>3, <1>4, <1>5, OrdinaryStep

LEMMA StepFetchInv == TypeInv /\ FetchInv /\ [Next]_vars => FetchInv'
<1> SUFFICES ASSUME TypeInv, FetchInv, [Next]_vars PROVE FetchInv'
  OBVIOUS
<1>1. CASE Stop \/ Tick \/ UNCHANGED vars
  <2>1. UNCHANGED <<goal, url, pc>>
    BY <1>1 DEF Stop, Tick, vars, fetchVars
  <2>2. SameEntries
    BY <1>1 DEF Stop, Tick, AgeAll, Entry, vars, cacheVars, SameEntries
  <2>3. Aimed'
    BY <2>1 DEF FetchInv, Aimed
  <2>4. \A s \in Threads : (Fetching(s)' => Fetching(s)) /\ (Reading(s)' => Reading(s))
    BY <2>1 DEF Fetching, Reading
  <2> QED
    BY <2>1, <2>2, <2>3, <2>4, OrdinaryStep
<1>2. ASSUME NEW t \in Threads, Step(t) PROVE FetchInv'
  BY <1>2, GetKeepsFetch, PermissionKeepsFetch, BusyKeepsFetch, PausedKeepsFetch DEF Step
<1> QED
  BY <1>1, <1>2 DEF Next

\* The robots.txt of an origin is asked for at most once, and a thread that goes by
\* an entry goes by one whose fetch is over: for any sites, threads and failures.
THEOREM FetchedOnlyOnce == Spec => []FetchedOnce
<1>1. FetchInv => FetchedOnce
  BY DEF FetchInv, AskedOnce, ReadSettled, Reading, FetchedOnce
<1> QED
  BY <1>1, InitTypeInv, StepTypeInv, InitFetchInv, StepFetchInv, PTL DEF Spec

-----------------------------------------------------------------------------
(* The invariant *)

\* The texts in the cache are what has come in.
TextsIncoming ==
    /\ world \in Worlds
    /\ \A o \in DOMAIN cache :
        cache[o].status = "FETCHED" =>
            world.file[o] # NoFile /\ cache[o].text \in Incoming(world, o)

\* The entry of an origin is settled, and allows the URL if it has a text.
Allowed(u) ==
    /\ Settled(OriginOf[u])
    /\ Judged(u) => Allows(Text(u), world.path[u])

\* A thread that is to look at the time has the delay of the entry.
StampAllowed ==
    \A t \in Threads : pc[t] = "stamp" =>
        /\ Allowed(url[t])
        /\ delay[t] = IF Judged(url[t]) THEN DelayOf(Text(url[t]), Path(t)) ELSE 1

\* A permission stands as long as its thread is busy.
GrantAllowed ==
    \A t \in Threads : granted[t] /\ pc[t] # "idle" => Allowed(url[t])

\* A thread is within the get_ssl of the page it asked for.
PageWanted(t) ==
    goal[t] = "page" /\ pc[t] \in {"page", "gate", "blocked", "pause", "again"}

PageGranted == \A t \in Threads : PageWanted(t) => granted[t] \/ stop

RefusalJudged ==
    \A u \in refused : u \in Urls /\ Judged(u) /\ ~Allows(Text(u), world.path[u])

\* The age of an entry is no more than the time since a permission.
Cooling ==
    /\ since \in [Origins -> 0 .. MaxAge]
    /\ \A o \in Origins :
        IF o \in DOMAIN cache THEN cache[o].age <= since[o] ELSE since[o] = MaxAge

PoliteInv ==
    /\ TextsIncoming /\ StampAllowed /\ GrantAllowed
    /\ PageGranted /\ RefusalJudged /\ Cooling
    /\ granted \in [Threads -> BOOLEAN]
    /\ DOMAIN delay = Threads /\ delay = [t \in Threads |-> delay[t]]

-----------------------------------------------------------------------------
(* What a step does to the entries *)

\* Entries stay, and what is settled keeps its status and its text.
EntriesStay ==
    \A o \in DOMAIN cache :
        /\ o \in DOMAIN cache'
        /\ cache[o].status # "FETCHING" =>
            cache'[o].status = cache[o].status /\ cache'[o].text = cache[o].text

\* What is allowed stays so, and what is judged stays judged by the same text.
LEMMA AllowedStays ==
    ASSUME EntriesStay, world' = world, NEW u, Allowed(u)
    PROVE  /\ Allowed(u)'
           /\ Judged(u)' <=> Judged(u)
           /\ Judged(u) => Text(u)' = Text(u)
BY DEF EntriesStay, Allowed, Settled, Judged, Text

LEMMA RefusedStays ==
    ASSUME EntriesStay, world' = world, RefusalJudged, refused' = refused
    PROVE  RefusalJudged'
<1> SUFFICES ASSUME NEW u \in refused
             PROVE  u \in Urls /\ Judged(u)' /\ ~Allows(Text(u), world.path[u])'
  BY DEF RefusalJudged
<1>1. u \in Urls /\ Judged(u) /\ ~Allows(Text(u), world.path[u])
  BY DEF RefusalJudged
<1>2. Judged(u)' /\ Text(u)' = Text(u)
  BY <1>1 DEF EntriesStay, Judged, Text
<1> QED
  BY <1>1, <1>2

\* The parts about threads, after a step that is not a permission, a refusal or a
\* return to the page.
LEMMA ThreadsStay ==
    ASSUME EntriesStay, world' = world, StampAllowed, GrantAllowed, PageGranted,
           stop => stop',
           \A s \in Threads : pc'[s] = "stamp" =>
                pc[s] = "stamp" /\ url'[s] = url[s] /\ delay'[s] = delay[s],
           \A s \in Threads : granted'[s] /\ pc'[s] # "idle" =>
                granted[s] /\ pc[s] # "idle" /\ url'[s] = url[s],
           \A s \in Threads : PageWanted(s)' =>
                (PageWanted(s) /\ granted'[s] = granted[s]) \/ granted'[s] \/ stop'
    PROVE  StampAllowed' /\ GrantAllowed' /\ PageGranted'
<1>1. ASSUME NEW s \in Threads, pc'[s] = "stamp"
      PROVE  (/\ Allowed(url[s])
              /\ delay[s] = IF Judged(url[s]) THEN DelayOf(Text(url[s]), Path(s)) ELSE 1)'
  <2>1. PICK u : u = url[s]
    OBVIOUS
  <2>2. url'[s] = u /\ delay'[s] = delay[s]
    BY <1>1, <2>1
  <2>3. Allowed(u) /\ delay[s] = IF Judged(u) THEN DelayOf(Text(u), world.path[u]) ELSE 1
    BY <1>1, <2>1 DEF StampAllowed, Path
  <2>4. /\ Allowed(u)'
        /\ delay'[s] = IF Judged(u)' THEN DelayOf(Text(u)', world.path[u]) ELSE 1
    BY <2>2, <2>3, AllowedStays
  <2> QED
    BY <2>2, <2>4 DEF Allowed, Judged, Settled, Text, Path
<1>2. ASSUME NEW s \in Threads, granted'[s], pc'[s] # "idle" PROVE Allowed(url[s])'
  <2>1. PICK u : u = url[s]
    OBVIOUS
  <2>2. url'[s] = u
    BY <1>2, <2>1
  <2>3. Allowed(u)
    BY <1>2, <2>1 DEF GrantAllowed
  <2>4. Allowed(u)'
    BY <2>3, AllowedStays
  <2> QED
    BY <2>2, <2>4 DEF Allowed, Judged, Settled, Text
<1>3. StampAllowed'
  BY <1>1 DEF StampAllowed
<1>4. GrantAllowed'
  BY <1>2 DEF GrantAllowed
<1>5. PageGranted'
  BY DEF PageGranted
<1> QED
  BY <1>3, <1>4, <1>5

LEMMA InitPoliteInv == Init => PoliteInv
<1> SUFFICES ASSUME Init PROVE PoliteInv
  OBVIOUS
<1>1. MaxAge \in Nat
  BY FetcherAssumption
<1>2. \A t \in Threads : pc[t] = "idle"
  BY DEF Init
<1>3. DOMAIN cache = {} /\ refused = {}
  BY DEF Init, InitCache
<1>4. /\ since \in [Origins -> 0 .. MaxAge] /\ \A o \in Origins : since[o] = MaxAge
      /\ granted \in [Threads -> BOOLEAN]
      /\ DOMAIN delay = Threads /\ delay = [t \in Threads |-> delay[t]]
  BY <1>1 DEF Init, InitCache
<1>5. TextsIncoming
  BY <1>3 DEF Init, TextsIncoming
<1>6. StampAllowed /\ GrantAllowed /\ PageGranted
  BY <1>2 DEF StampAllowed, GrantAllowed, PageGranted, PageWanted
<1>7. RefusalJudged /\ Cooling
  BY <1>3, <1>4 DEF RefusalJudged, Cooling
<1> QED
  BY <1>4, <1>5, <1>6, <1>7 DEF PoliteInv

\* A step that leaves the cache alone, grants nothing and refuses nothing.
LEMMA QuietStep ==
    ASSUME TypeInv, PoliteInv,
           UNCHANGED <<world, cache, since, granted, refused, delay>>, stop => stop',
           \A s \in Threads : pc'[s] = "stamp" => pc[s] = "stamp" /\ url'[s] = url[s],
           \A s \in Threads : pc'[s] # "idle" => pc[s] # "idle" /\ url'[s] = url[s],
           \A s \in Threads : PageWanted(s)' => PageWanted(s) \/ stop'
    PROVE  PoliteInv'
<1>1. EntriesStay
  BY DEF EntriesStay
<1>2. StampAllowed' /\ GrantAllowed' /\ PageGranted'
  BY <1>1, ThreadsStay DEF PoliteInv, PageGranted
<1>3. RefusalJudged'
  BY <1>1, RefusedStays DEF PoliteInv
<1>4. TextsIncoming' /\ Cooling'
  BY DEF PoliteInv, TextsIncoming, Cooling
<1> QED
  BY <1>2, <1>3, <1>4 DEF PoliteInv

\* The gate, the return to the worker's loop, and the stop.
LEMMA GatePolite ==
    ASSUME TypeInv, FetchInv, PoliteInv, NEW t \in Threads,
           Refused(t) \/ TryAgain(t) \/ EnterGate(t) \/ WakeByItself(t) \/ Paused(t)
    PROVE  PoliteInv'
<1>1. UNCHANGED <<world, cache, since, granted, refused, delay>> /\ stop' = stop
  BY DEF Refused, TryAgain, EnterGate, WakeByItself, Paused, cacheVars, fetchVars
<1>2. goal' = goal
  BY DEF Refused, Return, TryAgain, EnterGate, WakeByItself, Paused, fetchVars
<1>3. ASSUME NEW s \in Threads
      PROVE  /\ pc'[s] # "stamp" \/ pc[s] = "stamp"
             /\ pc'[s] # "idle" => pc[s] # "idle" /\ url'[s] = url[s]
             /\ PageWanted(s)' => PageWanted(s)
  <2>0. pc \in [Threads -> Labels] /\ url \in [Threads -> Urls \cup {NoUrl}]
    BY DEF TypeInv, TypeOK
  <2>1. CASE Refused(t)
    <3>1. pc' = [pc EXCEPT ![t] = "idle"] /\ url' = [url EXCEPT ![t] = NoUrl]
      BY <2>1 DEF Refused, Return, Goto
    <3> QED
      BY <1>2, <2>0, <3>1 DEF PageWanted
  <2>2. CASE TryAgain(t)
    <3>1. /\ pc' = [pc EXCEPT ![t] = "gate"] /\ url' = url
          /\ pc[t] = "robots" \/ pc[t] = "page"
      BY <2>2 DEF TryAgain, Goto, Getting
    <3>2. pc[t] = "robots" => goal[t] = "robots"
      BY DEF FetchInv, Aimed
    <3> QED
      BY <1>2, <2>0, <3>1, <3>2 DEF PageWanted
  <2>3. CASE EnterGate(t)
    <3>1. PICK l : /\ l \in {"blocked", "pause"} /\ pc' = [pc EXCEPT ![t] = l]
                   /\ pc[t] = "gate" /\ url' = url
      BY <2>3 DEF EnterGate, Goto
    <3> QED
      BY <1>2, <2>0, <3>1 DEF PageWanted
  <2>4. CASE WakeByItself(t)
    <3>1. pc' = [pc EXCEPT ![t] = "gate"] /\ pc[t] = "blocked" /\ url' = url
      BY <2>4 DEF WakeByItself, Goto
    <3> QED
      BY <1>2, <2>0, <3>1 DEF PageWanted
  <2>5. CASE Paused(t)
    <3>1. pc[t] = "pause" /\ url' = url
      BY <2>5 DEF Paused
    <3>2. CASE pc' = [pc EXCEPT ![t] = "again"]
      BY <1>2, <2>0, <3>1, <3>2 DEF PageWanted
    <3>3. ASSUME NEW b \in Threads, pc[b] = "blocked",
                 pc' = [pc EXCEPT ![t] = "again", ![b] = "gate"]
          PROVE  /\ pc'[s] # "stamp" \/ pc[s] = "stamp"
                 /\ pc'[s] # "idle" => pc[s] # "idle"
                 /\ PageWanted(s)' => PageWanted(s)
      BY <1>2, <2>0, <3>1, <3>3 DEF PageWanted
    <3> QED
      BY <2>5, <3>1, <3>2, <3>3 DEF Paused, Goto, Blocked
  <2> QED
    BY <2>1, <2>2, <2>3, <2>4, <2>5
<1> QED
  BY <1>1, <1>3, QuietStep

LEMMA StopPolite ==
    ASSUME TypeInv, PoliteInv, Stop \/ UNCHANGED vars
    PROVE  PoliteInv'
<1>1. /\ UNCHANGED <<world, cache, since, granted, refused, delay, pc, url, goal>>
      /\ stop => stop'
  BY DEF Stop, vars, cacheVars, fetchVars
<1>2. \A s \in Threads : PageWanted(s)' => PageWanted(s)
  BY <1>1 DEF PageWanted
<1> QED
  BY <1>1, <1>2, QuietStep

LEMMA TickPolite ==
    ASSUME TypeInv, PoliteInv, Tick
    PROVE  PoliteInv'
<1>0. MaxAge \in Nat
  BY FetcherAssumption
<1>1. /\ cache' = [o \in DOMAIN cache |->
                        Entry(cache[o].status, cache[o].text, Later(cache[o].age))]
      /\ since' = [o \in Origins |-> Later(since[o])]
      /\ UNCHANGED <<world, pc, url, delay, granted, refused, goal, stop>>
  BY DEF Tick, AgeAll, fetchVars
<1>2. /\ DOMAIN cache' = DOMAIN cache
      /\ \A o \in DOMAIN cache :
            /\ cache'[o].status = cache[o].status
            /\ cache'[o].text = cache[o].text
            /\ cache'[o].age = Later(cache[o].age)
  BY <1>1 DEF Entry
<1>3. EntriesStay
  BY <1>2 DEF EntriesStay
<1>4. \A s \in Threads : PageWanted(s)' => PageWanted(s)
  BY <1>1 DEF PageWanted
<1>5. StampAllowed' /\ GrantAllowed' /\ PageGranted'
  BY <1>1, <1>3, <1>4, ThreadsStay DEF PoliteInv, PageGranted
<1>6. RefusalJudged'
  BY <1>1, <1>3, RefusedStays DEF PoliteInv
<1>7. TextsIncoming'
  BY <1>1, <1>2 DEF PoliteInv, TextsIncoming
<1>8. \A a, b \in 0 .. MaxAge :
        /\ Later(a) \in 0 .. MaxAge
        /\ a <= b => Later(a) <= Later(b)
  BY <1>0 DEF Later
<1>9. Later(MaxAge) = MaxAge
  BY <1>0 DEF Later
<1>10. \A o \in DOMAIN cache : cache[o].age \in 0 .. MaxAge
  BY DEF TypeInv, TypeOK
<1>11. Cooling'
  BY <1>1, <1>2, <1>8, <1>9, <1>10 DEF PoliteInv, Cooling
<1> QED
  BY <1>1, <1>5, <1>6, <1>7, <1>11 DEF PoliteInv

\* An origin is entered.
LEMMA FetchPolite ==
    ASSUME TypeInv, FetchInv, PoliteInv, NEW t \in Threads, pc[t] = "ask", AskFetch(t),
           Aim(t), UNCHANGED <<world, url, stop>>
    PROVE  PoliteInv'
<1> DEFINE h == Here(t)
<1>0. h \in Origins /\ h \notin DOMAIN cache /\ MaxAge \in Nat /\ pc \in [Threads -> Labels]
  BY BusyTyped, FetcherAssumption DEF AskFetch, TypeInv, TypeOK
<1>1. pc' = [pc EXCEPT ![t] = "robots"] /\ UNCHANGED <<since, granted, refused, delay>>
  BY DEF AskFetch
<1>2. /\ DOMAIN cache' = DOMAIN cache \cup {h}
      /\ \A o \in DOMAIN cache : cache'[o] = cache[o]
      /\ cache'[h].status = "FETCHING" /\ cache'[h].age = MaxAge
  BY <1>0 DEF AskFetch, WithEntry, Entry
<1> HIDE DEF h
<1>3. EntriesStay
  BY <1>2 DEF EntriesStay
<1>4. \A s \in Threads \ {t} : goal'[s] = goal[s]
  BY DEF Aim, TypeInv, TypeOK
<1>5. ASSUME NEW s \in Threads
      PROVE  /\ pc'[s] = "stamp" => pc[s] = "stamp"
             /\ pc'[s] # "idle" => pc[s] # "idle"
             /\ PageWanted(s)' => PageWanted(s)
  <2>1. CASE s = t
    BY <1>0, <1>1, <2>1 DEF PageWanted
  <2>2. CASE s # t
    BY <1>0, <1>1, <1>4, <2>2 DEF PageWanted
  <2> QED
    BY <2>1, <2>2
<1>6. StampAllowed' /\ GrantAllowed' /\ PageGranted'
  BY <1>1, <1>3, <1>5, ThreadsStay DEF PoliteInv
<1>7. RefusalJudged'
  BY <1>1, <1>3, RefusedStays DEF PoliteInv
<1>8. TextsIncoming'
  BY <1>2 DEF PoliteInv, TextsIncoming
<1>9. Cooling'
  <2>1. ASSUME NEW o \in Origins
        PROVE  IF o \in DOMAIN cache' THEN cache'[o].age <= since'[o] ELSE since'[o] = MaxAge
    <3>1. CASE o = h
      BY <1>0, <1>1, <1>2, <3>1 DEF PoliteInv, Cooling
    <3>2. CASE o # h
      BY <1>1, <1>2, <3>2 DEF PoliteInv, Cooling
    <3> QED
      BY <3>1, <3>2
  <2>2. since' \in [Origins -> 0 .. MaxAge]
    BY <1>1 DEF PoliteInv, Cooling
  <2> QED
    BY <2>1, <2>2 DEF Cooling
<1> QED
  BY <1>1, <1>6, <1>7, <1>8, <1>9 DEF PoliteInv

\* A settled entry is judged.
LEMMA JudgePolite ==
    ASSUME TypeInv, FetchInv, PoliteInv, NEW t \in Threads, pc[t] # "idle",
           Settled(Here(t)), Judge(t, cache[Here(t)]), Aim(t),
           UNCHANGED <<world, url, stop, cache, since, granted>>
    PROVE  PoliteInv'
<1>0. /\ pc \in [Threads -> Labels] /\ url[t] \in Urls
      /\ cache[Here(t)].status \in {"FETCHED", "NON_EXISTENT"}
  BY BusyTyped DEF TypeInv, TypeOK, Settled
<1>1. PICK u : u = url[t]
  OBVIOUS
<1>2. Here(t) = OriginOf[u] /\ Path(t) = world.path[u] /\ Settled(OriginOf[u])
  BY <1>1 DEF Here, Path
<1>3. Judged(u) <=> cache[Here(t)].status = "FETCHED"
  BY <1>2 DEF Judged, Settled
<1>4. \A s \in Threads \ {t} : goal'[s] = goal[s]
  BY DEF Aim, TypeInv, TypeOK
<1>5. EntriesStay
  BY DEF EntriesStay
<1>6. \A v : (Allowed(v)' <=> Allowed(v)) /\ (Judged(v)' <=> Judged(v)) /\ Text(v)' = Text(v)
  BY DEF Allowed, Settled, Judged, Text
<1>7. TextsIncoming' /\ Cooling' /\ granted' \in [Threads -> BOOLEAN]
  BY DEF PoliteInv, TextsIncoming, Cooling
<1>8. CASE cache[Here(t)].status = "NON_EXISTENT" \/ Allows(cache[Here(t)].text, Path(t))
  <2>1. /\ delay' = [delay EXCEPT ![t] = IF cache[Here(t)].status = "NON_EXISTENT" THEN 1
                                         ELSE DelayOf(cache[Here(t)].text, Path(t))]
        /\ pc' = [pc EXCEPT ![t] = "stamp"]
        /\ refused' = refused
    BY <1>8 DEF Judge
  <2>2. Allowed(u)
    BY <1>0, <1>2, <1>3, <1>8 DEF Allowed, Text
  <2>3. delay'[t] = IF Judged(u) THEN DelayOf(Text(u), world.path[u]) ELSE 1
    BY <1>0, <1>2, <1>3, <2>1 DEF PoliteInv, Text
  <2>4. \A s \in Threads \ {t} : pc'[s] = pc[s] /\ delay'[s] = delay[s]
    BY <1>0, <2>1 DEF PoliteInv
  <2>5. StampAllowed'
    <3> SUFFICES ASSUME NEW s \in Threads, pc'[s] = "stamp"
                 PROVE  /\ Allowed(url[s])
                        /\ delay'[s] = IF Judged(url[s])
                                       THEN DelayOf(Text(url[s]), Path(s)) ELSE 1
      BY <1>6 DEF StampAllowed, Path, Allowed, Settled, Judged, Text
    <3>1. CASE s = t
      BY <1>1, <2>2, <2>3, <3>1 DEF Path
    <3>2. CASE s # t
      BY <2>4, <3>2 DEF PoliteInv, StampAllowed
    <3> QED
      BY <3>1, <3>2
  <2>6. ASSUME NEW s \in Threads
        PROVE  /\ pc'[s] # "idle" => pc[s] # "idle"
               /\ PageWanted(s)' => PageWanted(s)
    BY <1>0, <1>4, <2>1 DEF PageWanted
  <2>7. GrantAllowed' /\ PageGranted'
    BY <2>6 DEF PoliteInv, GrantAllowed, PageGranted, Allowed, Settled, Judged, Text
  <2>8. RefusalJudged'
    BY <1>5, <2>1, RefusedStays DEF PoliteInv
  <2>9. DOMAIN delay' = Threads /\ delay' = [s \in Threads |-> delay'[s]]
    BY <2>1 DEF PoliteInv
  <2> QED
    BY <1>7, <2>5, <2>7, <2>8, <2>9 DEF PoliteInv
<1>9. CASE ~(cache[Here(t)].status = "NON_EXISTENT" \/ Allows(cache[Here(t)].text, Path(t)))
  <2>1. refused' = refused \cup {u} /\ pc' = [pc EXCEPT ![t] = "failed"] /\ delay' = delay
    BY <1>1, <1>9 DEF Judge
  <2>2. u \in Urls /\ Judged(u) /\ ~Allows(Text(u), world.path[u])
    BY <1>0, <1>1, <1>2, <1>3, <1>9 DEF Text
  <2>3. RefusalJudged'
    <3> SUFFICES ASSUME NEW v \in refused'
                 PROVE  v \in Urls /\ Judged(v) /\ ~Allows(Text(v), world.path[v])
      BY <1>6 DEF RefusalJudged
    <3> QED
      BY <2>1, <2>2 DEF PoliteInv, RefusalJudged
  <2>4. ASSUME NEW s \in Threads
        PROVE  /\ pc'[s] = "stamp" => pc[s] = "stamp"
               /\ pc'[s] # "idle" => pc[s] # "idle"
               /\ PageWanted(s)' => PageWanted(s)
    BY <1>0, <1>4, <2>1 DEF PageWanted
  <2>5. StampAllowed' /\ GrantAllowed' /\ PageGranted'
    BY <1>5, <2>1, <2>4, ThreadsStay DEF PoliteInv
  <2> QED
    BY <1>7, <2>1, <2>3, <2>5 DEF PoliteInv
<1> QED
  BY <1>8, <1>9

\* A permission begins the next delay.
LEMMA PermitPolite ==
    ASSUME TypeInv, FetchInv, PoliteInv, NEW t \in Threads, pc[t] = "stamp", Permit(t),
           Aim(t), UNCHANGED <<world, url, stop>>
    PROVE  PoliteInv'
<1> DEFINE h == Here(t)
<1>0. /\ h \in DOMAIN cache /\ h \in Origins /\ pc \in [Threads -> Labels] /\ MaxAge \in Nat
      /\ granted \in [Threads -> BOOLEAN] /\ since \in [Origins -> 0 .. MaxAge]
  BY BusyTyped, FetcherAssumption
     DEF FetchInv, ReadSettled, Reading, TypeInv, TypeOK, PoliteInv, Cooling
<1>1. /\ pc' = [pc EXCEPT ![t] = "page"]
      /\ cache' = [cache EXCEPT ![h] = Entry(cache[h].status, cache[h].text, 0)]
      /\ since' = [since EXCEPT ![h] = 0]
      /\ granted' = [granted EXCEPT ![t] = TRUE]
      /\ UNCHANGED <<delay, refused>>
  BY DEF Permit
<1>2. /\ DOMAIN cache' = DOMAIN cache
      /\ \A o \in DOMAIN cache \ {h} : cache'[o] = cache[o]
      /\ cache'[h].status = cache[h].status /\ cache'[h].text = cache[h].text
      /\ cache'[h].age = 0
  BY <1>0, <1>1 DEF Entry
<1>3. EntriesStay
  BY <1>2 DEF EntriesStay
<1>4. \A s \in Threads \ {t} : goal'[s] = goal[s] /\ pc'[s] = pc[s] /\ granted'[s] = granted[s]
  BY <1>0, <1>1 DEF Aim, TypeInv, TypeOK
<1>5. pc'[t] = "page" /\ granted'[t]
  BY <1>0, <1>1
<1>6. StampAllowed' /\ PageGranted'
  <2>1. ASSUME NEW s \in Threads, PageWanted(s)' PROVE granted'[s] \/ stop'
    BY <1>4, <1>5, <2>1 DEF PoliteInv, PageGranted, PageWanted
  <2>2. ASSUME NEW s \in Threads, pc'[s] = "stamp"
        PROVE  (/\ Allowed(url[s])
                /\ delay[s] = IF Judged(url[s])
                              THEN DelayOf(Text(url[s]), Path(s)) ELSE 1)'
    <3>1. PICK u : u = url[s]
      OBVIOUS
    <3>2. pc[s] = "stamp"
      BY <1>4, <1>5, <2>2
    <3>3. Allowed(u) /\ delay[s] = IF Judged(u) THEN DelayOf(Text(u), world.path[u]) ELSE 1
      BY <3>1, <3>2 DEF PoliteInv, StampAllowed, Path
    <3>4. /\ Allowed(u)'
          /\ delay'[s] = IF Judged(u)' THEN DelayOf(Text(u)', world.path[u]) ELSE 1
      BY <1>1, <1>3, <3>3, AllowedStays
    <3> QED
      BY <3>1, <3>4 DEF Allowed, Judged, Settled, Text, Path
  <2> QED
    BY <2>1, <2>2 DEF StampAllowed, PageGranted
<1>7. GrantAllowed'
  <2> SUFFICES ASSUME NEW s \in Threads, granted'[s], pc'[s] # "idle"
               PROVE  Allowed(url[s])'
    BY DEF GrantAllowed
  <2>1. PICK u : u = url[s]
    OBVIOUS
  <2>2. Allowed(u)
    BY <1>4, <2>1 DEF PoliteInv, GrantAllowed, StampAllowed
  <2>3. Allowed(u)'
    BY <1>3, <2>2, AllowedStays
  <2> QED
    BY <2>1, <2>3 DEF Allowed, Judged, Settled, Text
<1>8. RefusalJudged'
  BY <1>1, <1>3, RefusedStays DEF PoliteInv
<1> HIDE DEF h
<1>9. TextsIncoming'
  BY <1>0, <1>2 DEF PoliteInv, TextsIncoming
<1>10. Cooling'
  <2>1. ASSUME NEW o \in Origins
        PROVE  IF o \in DOMAIN cache' THEN cache'[o].age <= since'[o] ELSE since'[o] = MaxAge
    <3>1. CASE o = h
      BY <1>0, <1>1, <1>2, <3>1
    <3>2. CASE o # h
      BY <1>0, <1>1, <1>2, <3>2 DEF PoliteInv, Cooling
    <3> QED
      BY <3>1, <3>2
  <2>2. since' \in [Origins -> 0 .. MaxAge]
    BY <1>0, <1>1
  <2> QED
    BY <2>1, <2>2 DEF Cooling
<1>11. granted' \in [Threads -> BOOLEAN] /\ DOMAIN delay' = Threads
       /\ delay' = [s \in Threads |-> delay'[s]]
  BY <1>0, <1>1 DEF PoliteInv
<1> QED
  BY <1>6, <1>7, <1>8, <1>9, <1>10, <1>11 DEF PoliteInv

\* A thread is told to wait, or has waited.
LEMMA WaitPolite ==
    ASSUME TypeInv, PoliteInv, NEW t \in Threads, pc[t] # "idle",
           UNCHANGED cacheVars, UNCHANGED <<world, url, stop>>, Aim(t),
           NEW l, l \in {"wait", "ask"} \/ (l = "page" /\ stop), pc' = [pc EXCEPT ![t] = l]
    PROVE  PoliteInv'
<1>1. UNCHANGED <<cache, since, granted, refused, delay>>
  BY DEF cacheVars
<1>2. \A s \in Threads \ {t} : goal'[s] = goal[s] /\ pc'[s] = pc[s]
  BY DEF Aim, TypeInv, TypeOK
<1>3. pc'[t] = l
  BY DEF TypeInv, TypeOK
<1>4. ASSUME NEW s \in Threads
      PROVE  /\ pc'[s] = "stamp" => pc[s] = "stamp"
             /\ pc'[s] # "idle" => pc[s] # "idle"
             /\ PageWanted(s)' => PageWanted(s) \/ stop'
  BY <1>2, <1>3 DEF PageWanted
<1> QED
  BY <1>1, <1>4, QuietStep

LEMMA PermissionPolite ==
    ASSUME TypeInv, FetchInv, PoliteInv, NEW t \in Threads, RequestPermission(t) \/ Waited(t)
    PROVE  PoliteInv'
<1>0. Aim(t) /\ UNCHANGED <<world, url, stop>> /\ pc[t] # "idle"
  BY PermissionPlace DEF RequestPermission, Waited
<1>1. CASE Waited(t)
  <2>1. PICK l : /\ pc' = [pc EXCEPT ![t] = l]
                 /\ l = "ask" \/ (l = "page" /\ stop)
    BY <1>1 DEF Waited, Goto
  <2> QED
    BY <1>0, <1>1, <2>1, WaitPolite DEF Waited
<1>2. CASE Ask(t) /\ AskFetch(t)
  BY <1>0, <1>2, FetchPolite DEF Ask
<1>3. CASE (Ask(t) /\ AskWait(t)) \/ (Stamp(t) /\ TooSoon(t))
  <2>1. pc' = [pc EXCEPT ![t] = "wait"] /\ UNCHANGED cacheVars
    BY <1>3 DEF AskWait, TooSoon
  <2> QED
    BY <1>0, <2>1, WaitPolite
<1>4. CASE Ask(t) /\ AskKnown(t)
  <2>1. Settled(Here(t)) /\ Judge(t, cache[Here(t)]) /\ UNCHANGED <<cache, since, granted>>
    BY <1>4 DEF AskKnown, Settled
  <2> QED
    BY <1>0, <2>1, JudgePolite
<1>5. CASE Reread(t)
  <2>1. Settled(Here(t)) /\ Judge(t, cache[Here(t)]) /\ UNCHANGED <<cache, since, granted>>
    BY <1>5 DEF Reread, FetchInv, ReadSettled, Reading, Settled
  <2> QED
    BY <1>0, <2>1, JudgePolite
<1>6. CASE Stamp(t) /\ Permit(t)
  BY <1>0, <1>6, PermitPolite DEF Stamp
<1> QED
  BY <1>1, <1>2, <1>3, <1>4, <1>5, <1>6 DEF RequestPermission, Ask, Stamp

LEMMA TakePolite ==
    ASSUME TypeInv, PoliteInv, NEW t \in Threads, Take(t)
    PROVE  PoliteInv'
<1>0. pc \in [Threads -> Labels] /\ url \in [Threads -> Urls \cup {NoUrl}]
  BY DEF TypeInv, TypeOK
<1>1. /\ pc' = [pc EXCEPT ![t] = "ask"]
      /\ granted' = [granted EXCEPT ![t] = FALSE]
      /\ \A s \in Threads \ {t} : url'[s] = url[s]
      /\ UNCHANGED <<world, cache, since, refused, delay, stop, goal>>
  BY <1>0 DEF Take, Goto
<1>2. granted' \in [Threads -> BOOLEAN] /\ ~granted'[t]
      /\ \A s \in Threads \ {t} : granted'[s] = granted[s] /\ pc'[s] = pc[s]
  BY <1>0, <1>1 DEF PoliteInv
<1>3. ASSUME NEW s \in Threads
      PROVE  /\ pc'[s] = "stamp" => pc[s] = "stamp" /\ url'[s] = url[s]
             /\ granted'[s] /\ pc'[s] # "idle" =>
                    granted[s] /\ pc[s] # "idle" /\ url'[s] = url[s]
             /\ PageWanted(s)' => PageWanted(s) /\ granted'[s] = granted[s]
  <2>1. CASE s = t
    BY <1>0, <1>1, <1>2, <2>1 DEF PageWanted
  <2>2. CASE s # t
    BY <1>1, <1>2, <2>2 DEF PageWanted
  <2> QED
    BY <2>1, <2>2
<1>4. EntriesStay
  BY <1>1 DEF EntriesStay
<1>5. StampAllowed' /\ GrantAllowed' /\ PageGranted'
  BY <1>1, <1>3, <1>4, ThreadsStay DEF PoliteInv
<1>6. RefusalJudged'
  BY <1>1, <1>4, RefusedStays DEF PoliteInv
<1>7. TextsIncoming' /\ Cooling' /\ DOMAIN delay' = Threads
      /\ delay' = [s \in Threads |-> delay'[s]]
  BY <1>1 DEF PoliteInv, TextsIncoming, Cooling
<1> QED
  BY <1>2, <1>5, <1>6, <1>7 DEF PoliteInv

\* get_ssl has come back from the site with a robots.txt or without.
LEMMA RobotsPolite ==
    ASSUME TypeInv, FetchInv, PoliteInv, NEW t \in Threads, Fetching(t),
           NEW status, NEW text, RobotsStatus(t, status, text),
           status = "success" =>
              world.file[Here(t)] # NoFile /\ text \in Incoming(world, Here(t)),
           UNCHANGED <<world, stop>>
    PROVE  PoliteInv'
<1> DEFINE h == Here(t)
<1>0. /\ h \in DOMAIN cache /\ cache[h].status = "FETCHING" /\ pc \in [Threads -> Labels]
      /\ h \in Origins /\ pc[t] # "idle" /\ MaxAge \in Nat
  BY BusyTyped, FetcherAssumption DEF FetchInv, FetchEntered, Fetching, TypeInv, TypeOK
<1>1. /\ pc' = [pc EXCEPT ![t] = "reread"]
      /\ UNCHANGED <<url, goal, since, granted, refused, delay>>
  BY DEF RobotsStatus, PutFetched, PutNonExistent
<1>2. PICK s, x :
        /\ s = "NON_EXISTENT" \/ (s = "FETCHED" /\ x = text /\ status = "success")
        /\ cache' = [cache EXCEPT ![h] = Entry(s, x, 0)]
  BY DEF RobotsStatus, PutFetched, PutNonExistent
<1>3. /\ DOMAIN cache' = DOMAIN cache
      /\ \A o \in DOMAIN cache \ {h} : cache'[o] = cache[o]
      /\ cache'[h].status = s /\ cache'[h].text = x /\ cache'[h].age = 0
  BY <1>0, <1>2 DEF Entry
<1>4. EntriesStay
  BY <1>0, <1>3 DEF EntriesStay
<1>5. ASSUME NEW r \in Threads
      PROVE  /\ pc'[r] = "stamp" => pc[r] = "stamp"
             /\ pc'[r] # "idle" => pc[r] # "idle"
             /\ PageWanted(r)' => PageWanted(r)
  BY <1>0, <1>1 DEF PageWanted
<1>6. StampAllowed' /\ GrantAllowed' /\ PageGranted'
  BY <1>1, <1>4, <1>5, ThreadsStay DEF PoliteInv
<1>7. RefusalJudged'
  BY <1>1, <1>4, RefusedStays DEF PoliteInv
<1>8. TextsIncoming'
  <2> SUFFICES ASSUME NEW o \in DOMAIN cache', cache'[o].status = "FETCHED"
               PROVE  world.file[o] # NoFile /\ cache'[o].text \in Incoming(world, o)
    BY DEF PoliteInv, TextsIncoming
  <2>1. CASE o = h
    BY <1>2, <1>3, <2>1
  <2>2. CASE o # h
    BY <1>3, <2>2 DEF PoliteInv, TextsIncoming
  <2> QED
    BY <2>1, <2>2
<1> HIDE DEF h
<1>9. Cooling'
  <2>1. ASSUME NEW o \in Origins
        PROVE  IF o \in DOMAIN cache' THEN cache'[o].age <= since'[o] ELSE since'[o] = MaxAge
    <3>1. CASE o = h
      BY <1>0, <1>1, <1>3, <3>1 DEF PoliteInv, Cooling
    <3>2. CASE o # h
      BY <1>0, <1>1, <1>3, <3>2 DEF PoliteInv, Cooling
    <3> QED
      BY <3>1, <3>2
  <2>2. since' \in [Origins -> 0 .. MaxAge]
    BY <1>1 DEF PoliteInv, Cooling
  <2> QED
    BY <2>1, <2>2 DEF Cooling
<1> QED
  BY <1>1, <1>6, <1>7, <1>8, <1>9 DEF PoliteInv

\* What get_ssl returns for robots.txt is a text only if one has come in.
LEMMA GetText ==
    ASSUME NEW t \in Threads, Get(t) \/ Again(t)
    PROVE  \E status \in Statuses : \E text :
              /\ Status(t, status, text)
              /\ goal[t] = "robots" /\ status = "success" =>
                    world.file[Here(t)] # NoFile /\ text \in Incoming(world, Here(t))
<1>1. CASE Again(t)
  BY <1>1 DEF Again, Statuses
<1>2. CASE Get(t) /\ GetRobots(t)
  <2>1. \E status \in Statuses : \E text :
            /\ Status(t, status, text)
            /\ status = "success" =>
                  world.file[Here(t)] # NoFile /\ text \in Incoming(world, Here(t))
    BY <1>2 DEF GetRobots, Statuses, Incoming
  <2> QED
    BY <2>1
<1>3. CASE Get(t) /\ GetPage(t)
  <2>1. PICK status : status \in Statuses /\ Status(t, status, <<>>)
    BY <1>3 DEF GetPage, Statuses
  <2>2. goal[t] # "robots"
    BY <1>3 DEF GetPage
  <2> QED
    BY <2>1, <2>2
<1>4. CASE Get(t) /\ GetFails(t)
  BY <1>4 DEF GetFails, Statuses
<1> QED
  BY <1>1, <1>2, <1>3, <1>4 DEF Get

LEMMA GetPolite ==
    ASSUME TypeInv, FetchInv, PoliteInv, NEW t \in Threads, Get(t) \/ Again(t)
    PROVE  PoliteInv'
<1>0. PICK status, text :
        /\ status \in Statuses
        /\ Status(t, status, text)
        /\ goal[t] = "robots" /\ status = "success" =>
              world.file[Here(t)] # NoFile /\ text \in Incoming(world, Here(t))
  BY GetText
<1>1. /\ pc[t] \in {"robots", "page", "again"} /\ goal[t] \in {"robots", "page", "hop"}
      /\ UNCHANGED <<world, stop>>
  BY GetPlace, GetReturns DEF Again, TypeInv, TypeOK
<1>2. CASE goal[t] = "robots"
  <2>1. Fetching(t)
    BY <1>1, <1>2 DEF FetchInv, Aimed, Fetching
  <2> QED
    BY <1>0, <1>1, <1>2, <2>1, RobotsPolite DEF Status
<1>3. CASE goal[t] # "robots"
  <2>1. UNCHANGED <<cache, since, granted, refused, delay>>
    BY <1>0, <1>1, <1>3 DEF Status, cacheVars
  <2>2. CASE goal[t] = "page"
    <3>1. PageStatus(t, status)
      BY <1>0, <2>2 DEF Status
    <3>2. \/ Goto(t, "page") /\ UNCHANGED <<goal, url>>
          \/ Redirect(t, world.answer[at[t]])
          \/ Return(t, status)
      BY <1>0, <3>1 DEF PageStatus, Statuses
    <3>3. ASSUME NEW s \in Threads
          PROVE  /\ pc'[s] = "stamp" => pc[s] = "stamp" /\ url'[s] = url[s]
                 /\ pc'[s] # "idle" => pc[s] # "idle" /\ url'[s] = url[s]
                 /\ PageWanted(s)' => PageWanted(s)
      <4>0. /\ pc[t] # "robots"
            /\ pc \in [Threads -> Labels] /\ url \in [Threads -> Urls \cup {NoUrl}]
            /\ goal \in [Threads -> {"robots", "page", "hop"}]
        BY <2>2 DEF FetchInv, Aimed, TypeInv, TypeOK
      <4>1. CASE Goto(t, "page") /\ UNCHANGED <<goal, url>>
        BY <1>1, <2>2, <4>0, <4>1 DEF Goto, PageWanted
      <4>2. CASE Redirect(t, world.answer[at[t]])
        BY <1>1, <4>0, <4>2 DEF Goto, Redirect, PageWanted
      <4>3. CASE Return(t, status)
        BY <1>1, <4>0, <4>3 DEF Goto, Return, PageWanted
      <4> QED
        BY <3>2, <4>1, <4>2, <4>3
    <3> QED
      BY <1>1, <2>1, <3>3, QuietStep
  <2>3. CASE goal[t] = "hop"
    <3>1. HopStatus(t, status)
      BY <1>0, <2>3 DEF Status
    <3>2. \/ Redirect(t, world.answer[at[t]])
          \/ \E result : Return(t, result)
      BY <3>1 DEF HopStatus
    <3>3. ASSUME NEW s \in Threads
          PROVE  /\ pc'[s] = "stamp" => pc[s] = "stamp" /\ url'[s] = url[s]
                 /\ pc'[s] # "idle" => pc[s] # "idle" /\ url'[s] = url[s]
                 /\ PageWanted(s)' => PageWanted(s)
      BY <1>1, <2>3, <3>2 DEF Redirect, Return, Goto, PageWanted, TypeInv, TypeOK
    <3> QED
      BY <1>1, <2>1, <3>3, QuietStep
  <2> QED
    BY <1>1, <1>3, <2>2, <2>3
<1> QED
  BY <1>2, <1>3

LEMMA StepPoliteInv == TypeInv /\ FetchInv /\ PoliteInv /\ [Next]_vars => PoliteInv'
<1> SUFFICES ASSUME TypeInv, FetchInv, PoliteInv, [Next]_vars PROVE PoliteInv'
  OBVIOUS
<1>1. ASSUME NEW t \in Threads, Step(t) PROVE PoliteInv'
  BY <1>1, TakePolite, PermissionPolite, GetPolite, GatePolite DEF Step
<1> QED
  BY <1>1, StopPolite, TickPolite DEF Next

-----------------------------------------------------------------------------
(* The theorems *)

AllInv == TypeInv /\ FetchInv /\ PoliteInv

LEMMA AllKept == Spec => []AllInv
<1>1. Init => AllInv
  BY InitTypeInv, InitFetchInv, InitPoliteInv DEF AllInv
<1>2. AllInv /\ [Next]_vars => AllInv'
  BY StepTypeInv, StepFetchInv, StepPoliteInv DEF AllInv
<1> QED
  BY <1>1, <1>2, PTL DEF Spec

\* Whatever comes in of a site's file, the parser may be asked about.
LEMMA QuestionIs ==
    ASSUME NEW w \in Worlds, NEW u \in Ruled(w), NEW text \in Incoming(w, OriginOf[u])
    PROVE  <<text, w.path[u]>> \in Questions(Worlds)
<1> DEFINE Of(v, x) == Incoming(v, OriginOf[x]) \X {v.path[x]}
           In(v) == UNION {Of(v, x) : x \in Ruled(v)}
<1>1. Questions(Worlds) = UNION {In(v) : v \in Worlds}
  BY Zenon DEF Questions
<1>2. <<text, w.path[u]>> \in Of(w, u)
  OBVIOUS
<1> HIDE DEF Of
<1>3. <<text, w.path[u]>> \in In(w)
  BY <1>2, Zenon
<1> HIDE DEF In
<1>4. QED
  BY <1>1, <1>3, Zenon

\* And it is asked nothing else.
LEMMA QuestionOf ==
    ASSUME NEW q \in Questions(Worlds)
    PROVE  \E w \in Worlds : \E u \in Ruled(w) : \E text \in Incoming(w, OriginOf[u]) :
                q = <<text, w.path[u]>>
<1> DEFINE Of(v, x) == Incoming(v, OriginOf[x]) \X {v.path[x]}
           In(v) == UNION {Of(v, x) : x \in Ruled(v)}
<1>1. Questions(Worlds) = UNION {In(v) : v \in Worlds}
  BY Zenon DEF Questions
<1> HIDE DEF In
<1>2. PICK w \in Worlds : q \in In(w)
  BY <1>1, Zenon
<1> USE DEF In
<1> HIDE DEF Of
<1>3. PICK u \in Ruled(w) : q \in Of(w, u)
  BY <1>2, Zenon
<1>4. \E text \in Incoming(w, OriginOf[u]) : q = <<text, w.path[u]>>
  BY <1>3 DEF Of
<1>5. QED
  BY <1>4, Zenon

\* What the parser says of an entry's text is what the promise says.
LEMMA ParserOnEntry ==
    ASSUME ParserKeepsPromise(Worlds), PoliteInv, NEW u \in Urls, Judged(u)
    PROVE  /\ ~SlashDropped(u) =>
                /\ Allows(Text(u), world.path[u]) => ~Forbidden(Text(u), world.path[u])
                /\ ~Allows(Text(u), world.path[u]) => ~Open(Text(u), world.path[u])
                /\ Allows(Text(u), world.path[u]) =>
                     DelayOf(Text(u), world.path[u]) = Delay(Text(u), world.path[u])
           /\ DelayOf(Text(u), world.path[u]) \in Nat
<1> DEFINE path == world.path[u]
<1>1. /\ world \in Worlds /\ world.file[OriginOf[u]] # NoFile
      /\ Text(u) \in Incoming(world, OriginOf[u])
  BY DEF PoliteInv, TextsIncoming, Judged, Text
<1>2. <<Text(u), path>> \in Questions(Worlds)
  BY <1>1, QuestionIs DEF Ruled
<1>3. KeepsPromise(Text(u), path)
  BY <1>2 DEF ParserKeepsPromise
<1> QED
  BY <1>3 DEF KeepsPromise, SlashDropped

\* A crawler whose parser keeps its promise follows the rules: without a permission it
\* asks for no page before it is stopped, and where no bare slash ("Disallow: /") applies
\* to it, it asks for no page that robots.txt forbids, and refuses none that robots.txt
\* has nothing against.
THEOREM PoliteParserPoliteCrawler == ParserKeepsPromise(Worlds) => (Spec => []RulesFollowed)
<1> SUFFICES ASSUME ParserKeepsPromise(Worlds) PROVE Spec => []RulesFollowed
  OBVIOUS
<1>1. ASSUME AllInv PROVE RulesFollowed
  <2> USE <1>1 DEF AllInv
  <2>1. ASSUME NEW t \in Threads, pc[t] = "page", goal[t] = "page"
        PROVE  /\ granted[t] \/ stop
               /\ granted[t] /\ Judged(url[t]) /\ ~SlashDropped(url[t])
                     => ~Forbidden(Text(url[t]), Path(t))
    <3>1. granted[t] \/ stop
      BY <2>1 DEF PoliteInv, PageGranted, PageWanted
    <3>2. url[t] \in Urls
      BY <2>1, BusyTyped
    <3>3. granted[t] => Allowed(url[t])
      BY <2>1 DEF PoliteInv, GrantAllowed
    <3> QED
      BY <3>1, <3>2, <3>3, ParserOnEntry DEF Allowed, Path
  <2>2. ASSUME NEW u \in refused
        PROVE  Judged(u) /\ (~SlashDropped(u) => ~Open(Text(u), world.path[u]))
    <3>1. u \in Urls /\ Judged(u) /\ ~Allows(Text(u), world.path[u])
      BY DEF PoliteInv, RefusalJudged
    <3> QED
      BY <3>1, ParserOnEntry
  <2> QED
    BY <2>1, <2>2 DEF RulesFollowed
<1>2. AllInv => RulesFollowed
  BY <1>1
<1> QED
  BY <1>2, AllKept, PTL

\* A thread comes from looking at the time to the page by a permission.
LEMMA PageByPermit ==
    ASSUME TypeInv, [Next]_vars, NEW t \in Threads, pc[t] = "stamp", pc'[t] = "page"
    PROVE  Permit(t)
<1>0. pc \in [Threads -> Labels] /\ pc'[t] # pc[t]
  BY DEF TypeInv, TypeOK
<1>1. ~(Stop \/ Tick \/ UNCHANGED vars)
  BY <1>0 DEF Stop, Tick, vars
<1>2. PICK s \in Threads : Step(s)
  BY <1>1 DEF Next
<1>3. CASE Paused(s)
  <2>1. CASE pc' = [pc EXCEPT ![s] = "again"]
    BY <1>0, <2>1
  <2>2. ASSUME NEW b \in Blocked, pc' = [pc EXCEPT ![s] = "again", ![b] = "gate"]
        PROVE  FALSE
    BY <1>0, <2>2
  <2> QED
    BY <1>3, <2>1, <2>2 DEF Paused, Goto
<1>4. CASE ~Paused(s)
  <2>1. CASE Get(s) \/ Again(s)
    <3>1. PICK l : pc' = [pc EXCEPT ![s] = l]
      BY <2>1, GetPlace
    <3>2. pc[s] # "stamp"
      BY <2>1, GetPlace
    <3> QED
      BY <1>0, <3>1, <3>2
  <2>2. CASE Take(s) \/ Refused(s) \/ TryAgain(s) \/ EnterGate(s) \/ WakeByItself(s)
    <3>1. PICK l : pc' = [pc EXCEPT ![s] = l]
      BY <2>2 DEF Take, Refused, Return, TryAgain, EnterGate, WakeByItself, Goto
    <3>2. pc[s] # "stamp"
      BY <2>2 DEF Take, Refused, TryAgain, EnterGate, WakeByItself, Getting
    <3> QED
      BY <1>0, <3>1, <3>2
  <2>3. CASE RequestPermission(s) \/ Waited(s)
    <3>1. PICK l : pc' = [pc EXCEPT ![s] = l]
      BY <2>3, PermissionPlace
    <3>2. s = t
      BY <1>0, <3>1
    <3>3. Stamp(t)
      BY <2>3, <3>2 DEF RequestPermission, Waited, Ask, Reread
    <3>4. ~TooSoon(t)
      BY <1>0 DEF TooSoon
    <3> QED
      BY <3>3, <3>4 DEF Stamp
  <2> QED
    BY <1>2, <1>4, <2>1, <2>2, <2>3 DEF Step
<1> QED
  BY <1>3, <1>4

\* It also keeps the delay: between two permissions for an origin lies what its
\* robots.txt names, but for the thread that fetched the file, and where no bare slash
\* applies to the crawler.
THEOREM PoliteParserKeepsDelay == ParserKeepsPromise(Worlds) => (Spec => DelayKept)
<1> SUFFICES ASSUME ParserKeepsPromise(Worlds) PROVE Spec => DelayKept
  OBVIOUS
<1>1. ASSUME AllInv, [Next]_vars, NEW t \in Threads,
             pc[t] = "stamp", pc'[t] = "page", ~flag[t], ~SlashDropped(url[t])
      PROVE  since[Here(t)] >= IF Judged(url[t]) THEN Delay(Text(url[t]), Path(t)) ELSE 1
  <2>1. cache[Here(t)].age >= delay[t]
    BY <1>1, PageByPermit DEF AllInv, Permit, DelayOver
  <2>2. url[t] \in Urls /\ Here(t) \in Origins
    BY <1>1, BusyTyped DEF AllInv
  <2>3. Here(t) \in DOMAIN cache
    BY <1>1 DEF AllInv, FetchInv, ReadSettled, Reading
  <2>4. /\ cache[Here(t)].age <= since[Here(t)]
        /\ cache[Here(t)].age \in 0 .. MaxAge /\ since[Here(t)] \in 0 .. MaxAge
    BY <1>1, <2>2, <2>3 DEF AllInv, PoliteInv, Cooling, TypeInv, TypeOK
  <2>5. MaxAge \in Nat
    BY FetcherAssumption
  <2>6. /\ Allowed(url[t])
        /\ delay[t] = IF Judged(url[t]) THEN DelayOf(Text(url[t]), Path(t)) ELSE 1
    BY <1>1 DEF AllInv, PoliteInv, StampAllowed
  <2>7. CASE Judged(url[t])
    <3>1. /\ delay[t] = Delay(Text(url[t]), Path(t))
          /\ delay[t] \in Nat
      BY <1>1, <2>2, <2>6, <2>7, ParserOnEntry DEF AllInv, Allowed, Path
    <3> QED
      BY <2>1, <2>4, <2>5, <2>7, <3>1
  <2>8. CASE ~Judged(url[t])
    BY <2>1, <2>4, <2>5, <2>6, <2>8
  <2> QED
    BY <2>7, <2>8
<1> DEFINE Kept ==
        \A t \in Threads :
            pc[t] = "stamp" /\ pc'[t] = "page" /\ ~flag[t] /\ ~SlashDropped(url[t]) =>
                since[Here(t)] >= IF Judged(url[t]) THEN Delay(Text(url[t]), Path(t)) ELSE 1
<1>2. AllInv /\ [Next]_vars => Kept
  BY <1>1
<1> HIDE DEF Kept
<1>3. Spec => [][Kept]_vars
  BY <1>2, AllKept, PTL DEF Spec
<1> QED
  BY <1>3 DEF Kept, DelayKept

-----------------------------------------------------------------------------
(* Numbers *)

\* A set of numbers has a least.
LEMMA Least ==
    ASSUME NEW S, S \subseteq Nat, S # {}
    PROVE  \E x \in S : \A y \in S : x <= y
<1>1. PICK x \in S : \A y \in S : ~ (<<y, x>> \in OpToRel(<, Nat))
  BY WFMin, NatLessThanWellFounded, Zenon
<1>2. \A y \in S : y \in Nat /\ x \in Nat /\ ~ (y < x)
  BY <1>1, Zenon DEF OpToRel
<1>3. QED
  BY <1>2

\* What holds at 0 and passes from each number to the next holds up to the end.
LEMMA Induction ==
    ASSUME NEW N \in Nat, NEW D, 0 \in D, \A n \in 1 .. N : n - 1 \in D => n \in D
    PROVE  0 .. N \subseteq D
<1> DEFINE Bad == (0 .. N) \ D
<1>1. SUFFICES ASSUME Bad # {} PROVE FALSE
  OBVIOUS
<1>2. Bad \subseteq Nat
  OBVIOUS
<1>3. PICK n \in Bad : \A m \in Bad : n <= m
  <2> HIDE DEF Bad
  <2>1. QED
    BY <1>1, <1>2, Least
<1>4. n \in 1 .. N /\ n - 1 \in 0 .. N /\ ~(n <= n - 1)
  OBVIOUS
<1>5. n - 1 \in D
  BY <1>3, <1>4
<1>6. QED
  BY <1>4, <1>5

\* N steps on states of S, and the states they lead through from the first.
Steps(N, S) == [1 .. N -> [S -> S]]

Leads(N, S, base, step, f) ==
    /\ f \in [0 .. N -> S]
    /\ f[0] = base
    /\ \A n \in 1 .. N : f[n] = step[n][f[n - 1]]

\* There are such states, whatever the steps.
LEMMA Recursion ==
    ASSUME NEW N \in Nat, NEW S, NEW base \in S, NEW step \in Steps(N, S)
    PROVE  \E f : Leads(N, S, base, step, f)
<1>0. step \in [1 .. N -> [S -> S]]
  BY DEF Steps
<1> DEFINE Upto(m, f) == f[0] = base /\ \A n \in 1 .. m : f[n] = step[n][f[n - 1]]
           D == {m \in 0 .. N : \E f \in [0 .. m -> S] : Upto(m, f)}
<1>1. 0 \in D
  <2> DEFINE f == [n \in 0 .. 0 |-> base]
  <2>1. f \in [0 .. 0 -> S]
    OBVIOUS
  <2>2. \A n \in 0 .. 0 : n = 0
    OBVIOUS
  <2>3. Upto(0, f)
    BY <2>2
  <2>4. 0 \in 0 .. N
    OBVIOUS
  <2> HIDE DEF Upto, f
  <2>5. QED
    BY <2>1, <2>3, <2>4
<1>2. ASSUME NEW m \in 1 .. N, m - 1 \in D PROVE m \in D
  <2>1. PICK f \in [0 .. m - 1 -> S] : Upto(m - 1, f)
    BY <1>2
  <2> DEFINE g == [n \in 0 .. m |-> IF n < m THEN f[n] ELSE step[m][f[m - 1]]]
  <2>2. m \in Nat /\ m - 1 \in 0 .. m - 1 /\ \A n \in 0 .. m : n < m => n \in 0 .. m - 1
    OBVIOUS
  <2>3. g \in [0 .. m -> S]
    BY <1>0, <2>2
  <2>4. ASSUME NEW n \in 1 .. m PROVE g[n] = step[n][g[n - 1]]
    <3>1. n \in 0 .. m /\ n - 1 \in 0 .. m /\ n - 1 < m
      BY <2>2
    <3>2. g[n - 1] = f[n - 1]
      BY <3>1
    <3>3. CASE n < m
      <4>1. n \in 1 .. m - 1 /\ g[n] = f[n]
        BY <2>2, <3>1, <3>3
      <4>2. QED
        BY <2>1, <3>2, <4>1
    <3>4. CASE n = m
      BY <3>1, <3>2, <3>4
    <3>5. QED
      BY <2>2, <3>3, <3>4
  <2>5. Upto(m, g)
    <3>1. 0 \in 0 .. m /\ 0 < m /\ f[0] = base
      BY <2>1, <2>2
    <3>2. g[0] = base
      BY <3>1
    <3> HIDE DEF g
    <3>3. QED
      BY <2>4, <3>2
  <2>6. m \in 0 .. N
    OBVIOUS
  <2> HIDE DEF Upto, g
  <2>7. QED
    BY <2>3, <2>5, <2>6
<1>3. 0 .. N \subseteq D
  <2> HIDE DEF D
  <2>1. QED
    BY <1>1, <1>2, Induction
<1>4. \E f \in [0 .. N -> S] : Upto(N, f)
  <2>1. N \in D
    <3> HIDE DEF D
    <3>1. QED
      BY <1>3
  <2> HIDE DEF Upto
  <2>2. QED
    BY <2>1
<1>5. QED
  BY <1>4 DEF Leads

-----------------------------------------------------------------------------
(* Patterns *)

Row(w, path, i, next) ==
    [j \in 1 .. Len(path) + 1 |->
        IF i > Len(w) THEN TRUE
        ELSE IF w[i] = "*" THEN \E k \in j .. Len(path) + 1 : next[k]
        ELSE IF w[i] = "$" /\ i = Len(w) THEN j > Len(path)
        ELSE j <= Len(path) /\ w[i] = path[j] /\ next[j + 1]]

Rows(w, path) == CHOOSE f : f = [i \in 1 .. Len(w) + 1 |-> Row(w, path, i, f[i + 1])]

LEMMA MatchRows == \A w, path : Match(w, path) = Rows(w, path)[1][1]
BY DEF Match, Rows, Row

\* The rows exist: the last first, each from the one after it.
LEMMA RowsIs ==
    ASSUME NEW Symbols, NEW w \in Seq(Symbols), NEW path \in Seq(Symbols)
    PROVE  \A i \in 1 .. Len(w) + 1 : Rows(w, path)[i] = Row(w, path, i, Rows(w, path)[i + 1])
<1> DEFINE N == Len(w)
           S == [1 .. Len(path) + 1 -> BOOLEAN]
           base == [j \in 1 .. Len(path) + 1 |-> TRUE]
           step == [n \in 1 .. N |-> [row \in S |-> Row(w, path, N + 1 - n, row)]]
<1>1. N \in Nat /\ Len(path) \in Nat
  OBVIOUS
<1>2. base \in S
  OBVIOUS
<1>3. ASSUME NEW i \in 1 .. N, NEW row \in S PROVE Row(w, path, i, row) \in S
  <2> DEFINE val(j) ==
               IF i > Len(w) THEN TRUE
               ELSE IF w[i] = "*" THEN \E k \in j .. Len(path) + 1 : row[k]
               ELSE IF w[i] = "$" /\ i = Len(w) THEN j > Len(path)
               ELSE j <= Len(path) /\ w[i] = path[j] /\ row[j + 1]
  <2>1. ASSUME NEW j \in 1 .. Len(path) + 1 PROVE val(j) \in BOOLEAN
    <3>1. CASE i > Len(w)
      BY <3>1
    <3>2. CASE ~(i > Len(w)) /\ w[i] = "*"
      BY <3>2
    <3>3. CASE ~(i > Len(w)) /\ w[i] # "*" /\ w[i] = "$" /\ i = Len(w)
      BY <3>3
    <3>4. CASE ~(i > Len(w)) /\ w[i] # "*" /\ ~(w[i] = "$" /\ i = Len(w))
      BY <3>4
    <3>5. QED
      BY <3>1, <3>2, <3>3, <3>4
  <2>2. Row(w, path, i, row) = [j \in 1 .. Len(path) + 1 |-> val(j)]
    BY DEF Row
  <2> HIDE DEF val
  <2>3. QED
    BY <2>1, <2>2
<1>4. step \in [1 .. N -> [S -> S]]
  <2>1. \A n \in 1 .. N : N + 1 - n \in 1 .. N
    BY <1>1
  <2> HIDE DEF N, S
  <2>2. ASSUME NEW n \in 1 .. N PROVE step[n] \in [S -> S]
    <3>1. step[n] = [row \in S |-> Row(w, path, N + 1 - n, row)]
      OBVIOUS
    <3> HIDE DEF step
    <3>2. QED
      BY <1>3, <2>1, <3>1
  <2>3. step = [n \in 1 .. N |-> step[n]]
    OBVIOUS
  <2> DEFINE T == [S -> S]
  <2>4. \A n \in 1 .. N : step[n] \in T
    BY <2>2
  <2> HIDE DEF step, T
  <2>5. step \in [1 .. N -> T]
    BY <2>3, <2>4
  <2>6. QED
    BY <2>5 DEF T
<1>5. PICK f : f \in [0 .. N -> S] /\ f[0] = base /\ \A n \in 1 .. N : f[n] = step[n][f[n - 1]]
  <2>1. step \in Steps(N, S)
    BY <1>4 DEF Steps
  <2> HIDE DEF N, S, base, step
  <2>2. \E f : Leads(N, S, base, step, f)
    BY <1>1, <1>2, <2>1, Recursion
  <2>3. QED
    BY <2>2 DEF Leads
<1> DEFINE g == [i \in 1 .. N + 1 |-> f[N + 1 - i]]
<1>6. ASSUME NEW i \in 1 .. N + 1 PROVE g[i] = Row(w, path, i, g[i + 1])
  <2>1. N + 1 - i \in 0 .. N /\ g[i] = f[N + 1 - i]
    BY <1>1
  <2>2. CASE i = N + 1
    <3>1. N + 1 - i = 0 /\ i > Len(w)
      BY <1>1, <2>2
    <3>2. g[i] = base
      BY <1>5, <2>1, <3>1
    <3>3. Row(w, path, i, g[i + 1]) = base
      BY <3>1 DEF Row
    <3>4. QED
      BY <3>2, <3>3
  <2>3. CASE i # N + 1
    <3> DEFINE n == N + 1 - i
    <3>1. n \in 1 .. N /\ n - 1 \in 0 .. N /\ n - 1 = N + 1 - (i + 1) /\ N + 1 - n = i /\ i + 1 \in 1 .. N + 1
      BY <1>1, <2>3
    <3>2. g[i + 1] = f[n - 1] /\ g[i] = f[n]
      <4> HIDE DEF N
      <4>1. QED
        BY <2>1, <3>1
    <3> HIDE DEF n, g
    <3>3. f[n] = step[n][f[n - 1]] /\ f[n - 1] \in S
      <4> HIDE DEF N, S, step, base
      <4>1. QED
        BY <1>5, <3>1
    <3>4. step[n][f[n - 1]] = Row(w, path, i, f[n - 1])
      <4> HIDE DEF N, S
      <4>1. QED
        BY <3>1, <3>3
    <3>5. QED
      <4> HIDE DEF N, S, step
      <4>1. QED
        BY <3>2, <3>3, <3>4
  <2>4. QED
    BY <2>2, <2>3
<1>7. g = [i \in 1 .. Len(w) + 1 |-> Row(w, path, i, g[i + 1])]
  <2>1. g = [i \in 1 .. N + 1 |-> g[i]]
    OBVIOUS
  <2> HIDE DEF g
  <2>2. QED
    BY <1>6, <2>1
<1>8. Rows(w, path) = [i \in 1 .. Len(w) + 1 |-> Row(w, path, i, Rows(w, path)[i + 1])]
  <2> HIDE DEF g
  <2>1. QED
    BY <1>7 DEF Rows
<1>9. QED
  BY <1>8

\* The literal characters of a record from the i-th on can be placed on the path from its
\* j-th octet on, the first of them there.
Body(r) == IF IsAnchored(r) THEN Len(r) - 1 ELSE Len(r)

Literals(r, i) == {x \in i .. Body(r) : r[x] # "*"}

Placed(r, path, i, j, on) ==
    /\ on \in [Literals(r, i) -> j .. Len(path)]
    /\ \A x \in Literals(r, i) : SameOctet(r[x], path[on[x]])
    /\ \A x, y \in Literals(r, i) : x < y => on[x] < on[y]
    /\ \A x \in Literals(r, i) : x + 1 \in Literals(r, i) => on[x + 1] = on[x] + 1
    /\ i \in Literals(r, i) => on[i] = j
    /\ IsAnchored(r) /\ Body(r) \in Literals(r, i) => on[Body(r)] = Len(path)
    /\ IsAnchored(r) /\ i = Body(r) + 1 => j = Len(path) + 1

Placeable(r, path, i, j) == \E on : Placed(r, path, i, j, on)

LEMMA CoversIs ==
    ASSUME NEW Symbols, NEW r \in Seq(Symbols), NEW path \in Seq(Symbols)
    PROVE  Covers(r, path) <=> Placeable(r, path, 1, 1)
<1> DEFINE body == Body(r)
           literal == Literals(r, 1)
<1>1. body \in Nat /\ Len(path) \in Nat /\ DOMAIN path = 1 .. Len(path)
  BY DEF Body, IsAnchored
<1>2. path = <<>> <=> Len(path) = 0
  OBVIOUS
<1>3. literal = {i \in 1 .. body : r[i] # "*"}
  BY DEF Literals
<1>4. Covers(r, path) <=>
        \E on \in [literal -> DOMAIN path] :
            /\ \A i \in literal : SameOctet(r[i], path[on[i]])
            /\ \A i, j \in literal : i < j => on[i] < on[j]
            /\ \A i \in literal : i + 1 \in literal => on[i + 1] = on[i] + 1
            /\ 1 \in literal => on[1] = 1
            /\ (IsAnchored(r) /\ body \in literal) => on[body] = Len(path)
            /\ (IsAnchored(r) /\ body = 0) => path = <<>>
  BY DEF Covers, Body, Literals
<1>5. ASSUME NEW on
      PROVE  Placed(r, path, 1, 1, on) <=>
                /\ on \in [literal -> DOMAIN path]
                /\ \A i \in literal : SameOctet(r[i], path[on[i]])
                /\ \A i, j \in literal : i < j => on[i] < on[j]
                /\ \A i \in literal : i + 1 \in literal => on[i + 1] = on[i] + 1
                /\ 1 \in literal => on[1] = 1
                /\ (IsAnchored(r) /\ body \in literal) => on[body] = Len(path)
                /\ (IsAnchored(r) /\ body = 0) => path = <<>>
  <2>1. (1 = body + 1 <=> body = 0) /\ (1 = Len(path) + 1 <=> path = <<>>)
    BY <1>1, <1>2
  <2> HIDE DEF body, literal
  <2>2. QED
    BY <1>1, <2>1 DEF Placed, body, literal
<1> HIDE DEF literal, body
<1>6. QED
  BY <1>4, <1>5 DEF Placeable

\* An octet and its escape are told from others alike.
LEMMA SameUnescaped == \A c, d : Unescaped(c) = Unescaped(d) <=> SameOctet(c, d)
BY DEF Unescaped, SameOctet

LEMMA UnescapedSigns == \A c : (Unescaped(c) = "*" <=> c = "*") /\ (Unescaped(c) = "$" <=> c = "$")
BY DEF Unescaped

\* Behind the last character, all are placed; a dollar sign wants the end of the path.
LEMMA PlacedAtEnd ==
    ASSUME NEW Symbols, NEW r \in Seq(Symbols), NEW path \in Seq(Symbols), NEW j \in 1 .. Len(path) + 1
    PROVE  Placeable(r, path, Body(r) + 1, j) <=> (IsAnchored(r) => j > Len(path))
<1> DEFINE e == Body(r) + 1
<1>1. Body(r) \in Nat /\ Len(path) \in Nat
  BY DEF Body, IsAnchored
<1>2. Literals(r, e) = {}
  BY <1>1 DEF Literals
<1>3. ASSUME IsAnchored(r) => j > Len(path) PROVE Placeable(r, path, e, j)
  <2> DEFINE on == [x \in {} |-> 0]
  <2>1. on \in [{} -> j .. Len(path)]
    OBVIOUS
  <2>2. IsAnchored(r) => j = Len(path) + 1
    BY <1>1, <1>3
  <2>3. Placed(r, path, e, j, on)
    <3> HIDE DEF on, e
    <3>1. QED
      BY <1>2, <2>1, <2>2 DEF Placed
  <2>4. QED
    BY <2>3 DEF Placeable
<1>4. ASSUME Placeable(r, path, e, j), IsAnchored(r) PROVE j > Len(path)
  BY <1>1, <1>4 DEF Placeable, Placed
<1>5. QED
  BY <1>3, <1>4

\* A character is placed on an octet like it, and the rest behind.
LEMMA PlacedLiteral ==
    ASSUME NEW Symbols, NEW r \in Seq(Symbols), NEW path \in Seq(Symbols), NEW j \in 1 .. Len(path) + 1,
           NEW i \in 1 .. Body(r), r[i] # "*"
    PROVE  Placeable(r, path, i, j) <=>
               j <= Len(path) /\ SameOctet(r[i], path[j]) /\ Placeable(r, path, i + 1, j + 1)
<1> DEFINE L == Literals(r, i)
           M == Literals(r, i + 1)
           B == Body(r)
           n == Len(path)
<1>1. B \in Nat /\ n \in Nat /\ i \in Nat /\ j \in Nat /\ i <= B
  BY DEF Body, IsAnchored
<1>2. /\ i \in L /\ i \notin M
      /\ \A x : x \in L <=> x = i \/ x \in M
      /\ \A x \in M : x \in Nat /\ i < x
      /\ B \in L <=> i = B \/ B \in M
  BY <1>1 DEF Literals
<1>3. ASSUME NEW on, Placed(r, path, i, j, on)
      PROVE  j <= n /\ SameOctet(r[i], path[j]) /\ Placeable(r, path, i + 1, j + 1)
  <2> DEFINE rest == [x \in M |-> on[x]]
  <2>1. /\ on \in [L -> j .. n]
        /\ on[i] = j
        /\ \A x \in M : on[x] \in j .. n /\ on[i] < on[x]
    <3> HIDE DEF L, M, n
    <3>1. QED
      BY <1>2, <1>3 DEF Placed, L, n
  <2>2. j <= n /\ SameOctet(r[i], path[j])
    <3>1. SameOctet(r[i], path[on[i]]) /\ on[i] \in j .. n
      BY <1>2, <1>3, <2>1 DEF Placed
    <3>2. QED
      BY <1>1, <2>1, <3>1
  <2>3. \A x \in M : rest[x] = on[x] /\ on[x] \in j + 1 .. n
    BY <1>1, <2>1
  <2>4. Placed(r, path, i + 1, j + 1, rest)
    <3> HIDE DEF L, M, n, B
    <3>1. rest \in [M -> j + 1 .. n]
      BY <2>3
    <3>2. /\ \A x \in M : SameOctet(r[x], path[rest[x]])
          /\ \A x, y \in M : x < y => rest[x] < rest[y]
          /\ \A x \in M : x + 1 \in M => rest[x + 1] = rest[x] + 1
      BY <1>2, <1>3, <2>3 DEF Placed, L
    <3>3. i + 1 \in M => rest[i + 1] = j + 1
      BY <1>2, <1>3, <2>1, <2>3 DEF Placed, L
    <3>4. IsAnchored(r) /\ B \in M => rest[B] = n
      BY <1>2, <1>3, <2>3 DEF Placed, L, B, n
    <3>5. IsAnchored(r) /\ i + 1 = B + 1 => j + 1 = n + 1
      BY <1>1, <1>2, <1>3, <2>1 DEF Placed, L, B, n
    <3> HIDE DEF rest
    <3>6. QED
      BY <3>1, <3>2, <3>3, <3>4, <3>5 DEF Placed, M, B, n
  <2>5. QED
    BY <2>2, <2>4 DEF Placeable
<1>4. ASSUME j <= n, SameOctet(r[i], path[j]), NEW rest, Placed(r, path, i + 1, j + 1, rest)
      PROVE  Placeable(r, path, i, j)
  <2> DEFINE on == [x \in L |-> IF x = i THEN j ELSE rest[x]]
  <2>1. /\ \A x \in M : rest[x] \in j + 1 .. n
        /\ \A x \in M : SameOctet(r[x], path[rest[x]])
        /\ \A x, y \in M : x < y => rest[x] < rest[y]
        /\ \A x \in M : x + 1 \in M => rest[x + 1] = rest[x] + 1
        /\ i + 1 \in M => rest[i + 1] = j + 1
        /\ IsAnchored(r) /\ B \in M => rest[B] = n
        /\ IsAnchored(r) /\ i + 1 = B + 1 => j + 1 = n + 1
    BY <1>4 DEF Placed
  <2> HIDE DEF L, M, n, B
  <2>2. on[i] = j /\ \A x \in M : on[x] = rest[x] /\ rest[x] \in j .. n /\ j < rest[x]
    BY <1>1, <1>2, <2>1
  <2>3. DOMAIN on = L /\ j \in j .. n
    BY <1>1, <1>4
  <2>4. on \in [L -> j .. n]
    BY <1>2, <2>2, <2>3
  <2> HIDE DEF on
  <2>5. \A x \in L : SameOctet(r[x], path[on[x]])
    BY <1>2, <1>4, <2>1, <2>2
  <2>6. ASSUME NEW x \in L, NEW y \in L, x < y PROVE on[x] < on[y]
    <3>1. y \in M
      BY <1>1, <1>2, <2>6
    <3>2. CASE x = i
      BY <2>2, <3>1, <3>2
    <3>3. CASE x # i
      BY <1>2, <2>1, <2>2, <2>6, <3>1, <3>3
    <3>4. QED
      BY <3>2, <3>3
  <2>7. ASSUME NEW x \in L, x + 1 \in L PROVE on[x + 1] = on[x] + 1
    <3>1. x + 1 \in M
      BY <1>1, <1>2, <2>7
    <3>2. CASE x = i
      BY <2>1, <2>2, <3>1, <3>2
    <3>3. CASE x # i
      BY <1>2, <2>1, <2>2, <3>1, <3>3
    <3>4. QED
      BY <3>2, <3>3
  <2>8. IsAnchored(r) /\ B \in L => on[B] = n
    <3>1. CASE i = B
      BY <1>1, <2>1, <2>2, <3>1
    <3>2. CASE i # B
      BY <1>2, <2>1, <2>2, <3>2
    <3>3. QED
      BY <3>1, <3>2
  <2>9. i # B + 1
    BY <1>1
  <2>10. Placed(r, path, i, j, on)
    BY <2>2, <2>4, <2>5, <2>6, <2>7, <2>8, <2>9 DEF Placed, L, B, n
  <2>11. QED
    BY <2>10 DEF Placeable
<1>5. QED
  BY <1>3, <1>4 DEF Placeable

\* Behind a star the rest begins at any octet from here on, or at the end.
LEMMA PlacedStar ==
    ASSUME NEW Symbols, NEW r \in Seq(Symbols), NEW path \in Seq(Symbols), NEW j \in 1 .. Len(path) + 1,
           NEW i \in 1 .. Body(r), r[i] = "*"
    PROVE  Placeable(r, path, i, j) <=> \E k \in j .. Len(path) + 1 : Placeable(r, path, i + 1, k)
<1> DEFINE L == Literals(r, i)
           B == Body(r)
           n == Len(path)
<1>1. B \in Nat /\ n \in Nat /\ i \in Nat /\ j \in Nat /\ i <= B /\ i + 1 \in Nat /\ i # B + 1
  BY DEF Body, IsAnchored
<1>2. Literals(r, i + 1) = L /\ i \notin L /\ \A x \in L : x \in Nat /\ i < x /\ i + 1 <= x
  BY <1>1 DEF Literals
<1>3. B \in L <=> B # i /\ r[B] # "*"
  BY <1>1 DEF Literals
<1>4. ASSUME NEW on, Placed(r, path, i, j, on)
      PROVE  \E k \in j .. n + 1 : Placeable(r, path, i + 1, k)
  <2> DEFINE k == IF i + 1 \in L THEN on[i + 1] ELSE IF i = B THEN n + 1 ELSE j
  <2>1. /\ on \in [L -> j .. n]
        /\ \A x \in L : SameOctet(r[x], path[on[x]])
        /\ \A x, y \in L : x < y => on[x] < on[y]
        /\ \A x \in L : x + 1 \in L => on[x + 1] = on[x] + 1
        /\ IsAnchored(r) /\ B \in L => on[B] = n
    BY <1>4 DEF Placed
  <2> HIDE DEF L, n, B
  <2>2. k \in j .. n + 1
    <3>1. CASE i + 1 \in L
      <4>1. on[i + 1] \in j .. n
        BY <2>1, <3>1
      <4>2. QED
        BY <1>1, <3>1, <4>1
    <3>2. CASE i + 1 \notin L
      <4>1. j <= n + 1
        BY DEF n
      <4>2. QED
        BY <1>1, <3>2, <4>1
    <3>3. QED
      BY <3>1, <3>2
  <2>3. \A x \in L : on[x] \in k .. n
    <3>1. CASE i + 1 \in L
      <4>1. \A x \in L : x = i + 1 \/ i + 1 < x
        BY <1>1, <1>2
      <4>2. \A x \in L : on[x] \in j .. n /\ (x = i + 1 \/ on[i + 1] < on[x])
        BY <2>1, <3>1, <4>1
      <4>3. QED
        BY <1>1, <2>1, <3>1, <4>2
    <3>2. CASE i + 1 \notin L /\ i = B
      <4>1. L = {}
        BY <1>1, <3>2 DEF L, B, Literals
      <4>2. QED
        BY <4>1
    <3>3. CASE i + 1 \notin L /\ i # B
      BY <2>1, <3>3
    <3>4. QED
      BY <3>1, <3>2, <3>3
  <2>4. on \in [L -> k .. n]
    <3> HIDE DEF k
    <3>1. QED
      BY <2>1, <2>3
  <2>5. i + 1 \in L => on[i + 1] = k
    OBVIOUS
  <2>6. IsAnchored(r) /\ i + 1 = B + 1 => k = n + 1
    <3>1. i + 1 = B + 1 => i + 1 \notin L
      BY <1>1 DEF L, B, Literals
    <3>2. QED
      BY <1>1, <3>1
  <2> HIDE DEF k
  <2>7. Placed(r, path, i + 1, k, on)
    BY <1>2, <2>1, <2>4, <2>5, <2>6 DEF Placed, B, n
  <2>8. QED
    BY <2>2, <2>7 DEF Placeable
<1>5. ASSUME NEW k \in j .. n + 1, NEW on, Placed(r, path, i + 1, k, on)
      PROVE  Placeable(r, path, i, j)
  <2> HIDE DEF L, n, B
  <2>1. on \in [L -> k .. n] /\ k .. n \subseteq j .. n
    BY <1>1, <1>2, <1>5 DEF Placed, n
  <2>2. on \in [L -> j .. n]
    BY <2>1
  <2>3. Placed(r, path, i, j, on)
    BY <1>1, <1>2, <1>5, <2>2 DEF Placed, L, B, n
  <2>4. QED
    BY <2>3 DEF Placeable
<1>6. QED
  BY <1>4, <1>5 DEF Placeable

LEMMA UnescapedSeq ==
    ASSUME NEW Symbols, NEW s \in Seq(Symbols)
    PROVE  /\ Unescape(s) \in Seq({Unescaped(c) : c \in Symbols})
           /\ Len(Unescape(s)) = Len(s)
           /\ \A i \in 1 .. Len(s) : Unescape(s)[i] = Unescaped(s[i])
<1> DEFINE U == {Unescaped(c) : c \in Symbols}
           w == [i \in 1 .. Len(s) |-> Unescaped(s[i])]
<1>1. Unescape(s) = w
  BY DEF Unescape
<1>2. \A i \in 1 .. Len(s) : Unescaped(s[i]) \in U
  OBVIOUS
<1>3. w \in Seq(U) /\ Len(w) = Len(s)
  <2> HIDE DEF U
  <2>1. QED
    BY <1>2
<1>4. QED
  BY <1>1, <1>3

\* Wildcard::Match, of any pattern and any path: it matches just when the characters can be
\* placed as the header says.
THEOREM MatchIsCovers ==
    ASSUME NEW Symbols, NEW r \in Seq(Symbols), NEW path \in Seq(Symbols)
    PROVE  Match(Unescape(r), Unescape(path)) <=> Covers(r, path)
<1> DEFINE w == Unescape(r)
           p == Unescape(path)
           N == Len(r)
           n == Len(path)
           g == Rows(w, p)
           Right(i) == \A j \in 1 .. n + 1 : g[i][j] <=> Placeable(r, path, i, j)
           D == {t \in 0 .. Body(r) : Right(Body(r) + 1 - t)}
<1> DEFINE U == {Unescaped(c) : c \in Symbols}
<1>1. /\ w \in Seq(U) /\ Len(w) = N /\ \A i \in 1 .. N : w[i] = Unescaped(r[i])
      /\ p \in Seq(U) /\ Len(p) = n /\ \A j \in 1 .. n : p[j] = Unescaped(path[j])
  BY UnescapedSeq
<1>2. N \in Nat /\ n \in Nat /\ Body(r) \in Nat /\ Body(r) <= N
  BY DEF Body, IsAnchored
<1>3. ASSUME NEW i \in 1 .. N + 1, NEW j \in 1 .. n + 1
      PROVE  g[i][j] <=>
                IF i > N THEN TRUE
                ELSE IF r[i] = "*" THEN \E k \in j .. n + 1 : g[i + 1][k]
                ELSE IF r[i] = "$" /\ i = N THEN j > n
                ELSE j <= n /\ SameOctet(r[i], path[j]) /\ g[i + 1][j + 1]
  <2>1. g[i][j] = IF i > N THEN TRUE
                  ELSE IF w[i] = "*" THEN \E k \in j .. n + 1 : g[i + 1][k]
                  ELSE IF w[i] = "$" /\ i = N THEN j > n
                  ELSE j <= n /\ w[i] = p[j] /\ g[i + 1][j + 1]
    <3> HIDE DEF g, w, p, N, n, U
    <3>1. g[i] = Row(w, p, i, g[i + 1])
      BY <1>1, RowsIs DEF g
    <3>2. QED
      BY <1>1, <3>1 DEF Row
  <2>2. i <= N => i \in 1 .. N /\ (w[i] = "*" <=> r[i] = "*") /\ (w[i] = "$" <=> r[i] = "$")
    BY <1>1, <1>2, UnescapedSigns
  <2>3. i <= N /\ j <= n => (w[i] = p[j] <=> SameOctet(r[i], path[j]))
    BY <1>1, <1>2, <2>2, SameUnescaped
  <2> HIDE DEF g, w, p, N, n
  <2>4. CASE i > N
    BY <2>1, <2>4
  <2>5. CASE i <= N /\ r[i] = "*"
    BY <1>2, <2>1, <2>2, <2>5
  <2>6. CASE i <= N /\ r[i] # "*" /\ r[i] = "$" /\ i = N
    BY <1>2, <2>1, <2>2, <2>6
  <2>7. CASE i <= N /\ r[i] # "*" /\ ~(r[i] = "$" /\ i = N)
    BY <1>2, <2>1, <2>2, <2>3, <2>7
  <2>8. QED
    BY <1>2, <2>4, <2>5, <2>6, <2>7
<1>4. Right(Body(r) + 1)
  <2> SUFFICES ASSUME NEW j \in 1 .. n + 1
               PROVE  g[Body(r) + 1][j] <=> Placeable(r, path, Body(r) + 1, j)
    OBVIOUS
  <2>1. Body(r) + 1 \in 1 .. N + 1
    BY <1>2
  <2>2. IsAnchored(r) => Body(r) + 1 = N /\ r[N] = "$"
    BY DEF Body, IsAnchored
  <2>3. ~IsAnchored(r) => Body(r) + 1 > N
    BY <1>2 DEF Body
  <2> HIDE DEF g, N
  <2>4. g[Body(r) + 1][j] <=> (IsAnchored(r) => j > n)
    BY <1>2, <1>3, <2>1, <2>2, <2>3
  <2>5. QED
    BY <2>4, PlacedAtEnd
<1>5. ASSUME NEW i \in 1 .. Body(r), Right(i + 1) PROVE Right(i)
  <2> SUFFICES ASSUME NEW j \in 1 .. n + 1
               PROVE  g[i][j] <=> Placeable(r, path, i, j)
    OBVIOUS
  <2>1. i \in 1 .. N + 1 /\ i <= N /\ i \in Nat
    BY <1>2
  <2>2. ~(r[i] = "$" /\ i = N)
    BY <1>2 DEF Body, IsAnchored
  <2> HIDE DEF g, N
  <2>3. CASE r[i] = "*"
    <3>1. g[i][j] <=> \E k \in j .. n + 1 : g[i + 1][k]
      BY <1>2, <1>3, <2>1, <2>3
    <3>2. \A k \in j .. n + 1 : g[i + 1][k] <=> Placeable(r, path, i + 1, k)
      BY <1>2, <1>5
    <3>3. Placeable(r, path, i, j) <=> \E k \in j .. n + 1 : Placeable(r, path, i + 1, k)
      BY <2>3, PlacedStar
    <3>4. QED
      BY <3>1, <3>2, <3>3
  <2>4. CASE r[i] # "*"
    <3>1. g[i][j] <=> j <= n /\ SameOctet(r[i], path[j]) /\ g[i + 1][j + 1]
      BY <1>2, <1>3, <2>1, <2>2, <2>4
    <3>2. j <= n => (g[i + 1][j + 1] <=> Placeable(r, path, i + 1, j + 1))
      BY <1>2, <1>5
    <3>3. Placeable(r, path, i, j) <=>
            j <= n /\ SameOctet(r[i], path[j]) /\ Placeable(r, path, i + 1, j + 1)
      BY <2>4, PlacedLiteral
    <3>4. QED
      BY <3>1, <3>2, <3>3
  <2>5. QED
    BY <2>3, <2>4
<1>6. 0 .. Body(r) \subseteq D
  <2> HIDE DEF Right
  <2>1. 0 \in D
    BY <1>2, <1>4
  <2>2. ASSUME NEW t \in 1 .. Body(r), t - 1 \in D PROVE t \in D
    <3> DEFINE i == Body(r) + 1 - t
    <3>1. i \in 1 .. Body(r) /\ i + 1 = Body(r) + 1 - (t - 1) /\ t \in 0 .. Body(r)
      BY <1>2
    <3>2. Right(i + 1)
      BY <2>2, <3>1
    <3>3. Right(i)
      BY <1>5, <3>1, <3>2
    <3>4. QED
      BY <3>1, <3>3
  <2> HIDE DEF D
  <2>3. QED
    BY <1>2, <2>1, <2>2, Induction
<1>7. Right(1)
  <2>1. Body(r) \in 0 .. Body(r) /\ Body(r) + 1 - Body(r) = 1
    BY <1>2
  <2> HIDE DEF Right
  <2>2. QED
    BY <1>6, <2>1
<1>8. Match(w, p) = g[1][1]
  BY MatchRows
<1>9. 1 \in 1 .. n + 1
  BY <1>2
<1> HIDE DEF g, w, p, n
<1>10. g[1][1] <=> Placeable(r, path, 1, 1)
  BY <1>7, <1>9
<1>11. QED
  BY <1>8, <1>10, CoversIs DEF w, p

-----------------------------------------------------------------------------
(* Rules *)

LEMMA MinIs ==
    ASSUME NEW S, S \subseteq Nat, S # {}
    PROVE  Min(S) \in S /\ \A y \in S : Min(S) <= y
BY Least DEF Min

LEMMA MaxOfTwo ==
    ASSUME NEW a \in Nat, NEW b \in Nat
    PROVE  Max({a, b}) \in {a, b} /\ a <= Max({a, b}) /\ b <= Max({a, b}) /\ Max({a, b}) \in Nat
<1>1. \E x \in {a, b} : \A y \in {a, b} : x >= y
  OBVIOUS
<1>2. Max({a, b}) \in {a, b} /\ \A y \in {a, b} : Max({a, b}) >= y
  BY <1>1, Zenon DEF Max
<1>3. QED
  BY <1>2

\* The first of those that match is one of them, if there is one.
LEMMA FirstOfIs ==
    ASSUME NEW T, NEW seq \in Seq(T), NEW M, M \subseteq DOMAIN seq
    PROVE  /\ FirstOf(seq, M) = <<>> <=> M = {}
           /\ M # {} => Min(M) \in M /\ FirstOf(seq, M) = <<seq[Min(M)]>> /\ FirstOf(seq, M)[1] = seq[Min(M)]
<1>1. M \subseteq Nat
  OBVIOUS
<1>2. M # {} => Min(M) \in M
  BY <1>1, MinIs
<1>3. QED
  BY <1>2 DEF FirstOf

Symbol == {Unescaped(c) : c \in STRING}

DirectiveT == [type : {"allow", "disallow"}, wildcard : Seq(Symbol)]

RuleT == [agents : Seq(STRING), directives : Seq(DirectiveT), delay : Nat]

AccT == [rules : Seq(RuleT), naming : BOOLEAN]

Lists(seq, x) == \E i \in DOMAIN seq : seq[i] = x

\* One sequence after another.
LEMMA Joined ==
    ASSUME NEW T, NEW s \in Seq(T), NEW t \in Seq(T)
    PROVE  /\ s \o t \in Seq(T) /\ Len(s \o t) = Len(s) + Len(t)
           /\ \A i \in 1 .. Len(s) + Len(t) :
                (s \o t)[i] = IF i <= Len(s) THEN s[i] ELSE t[i - Len(s)]
OBVIOUS

\* A directive is put between others, wherever it is.
LEMMA InsertIs ==
    ASSUME NEW T, NEW ds \in Seq(T), NEW d \in T
    PROVE  /\ Insert(ds, d) \in Seq(T)
           /\ \A x : Lists(Insert(ds, d), x) <=> x = d \/ Lists(ds, x)
<1> DEFINE n == Len(ds)
           places == {i \in DOMAIN ds : TakesPriority(d, ds[i])} \cup {n + 1}
           m == Min(places)
           new == InsertAt(ds, m, d)
<1>1. n \in Nat /\ DOMAIN ds = 1 .. n
  OBVIOUS
<1>2. m \in 1 .. n + 1
  <2>1. places \subseteq 1 .. n + 1 /\ places \subseteq Nat /\ places # {}
    BY <1>1
  <2> HIDE DEF places
  <2>2. m \in places
    BY <2>1, MinIs
  <2>3. QED
    BY <2>1, <2>2
<1>3. Insert(ds, d) = new
  BY DEF Insert
<1> HIDE DEF m
<1>4. new = SubSeq(ds, 1, m - 1) \o <<d>> \o SubSeq(ds, m, n)
  BY DEF InsertAt
<1>5. /\ SubSeq(ds, 1, m - 1) \in Seq(T) /\ Len(SubSeq(ds, 1, m - 1)) = m - 1
      /\ \A i \in 1 .. m - 1 : SubSeq(ds, 1, m - 1)[i] = ds[i]
      /\ SubSeq(ds, m, n) \in Seq(T) /\ Len(SubSeq(ds, m, n)) = n + 1 - m
      /\ \A i \in 1 .. n + 1 - m : SubSeq(ds, m, n)[i] = ds[m + i - 1]
  <2> HIDE DEF n
  <2>1. \A i \in 1 .. m - 1 : ds[i] \in T
    BY <1>1, <1>2
  <2>2. \A i \in m .. n : ds[i] \in T
    BY <1>1, <1>2
  <2>3. QED
    BY <1>1, <1>2, <2>1, <2>2
<1>6. /\ new \in Seq(T) /\ Len(new) = n + 1
      /\ \A i \in 1 .. n + 1 : new[i] = IF i < m THEN ds[i] ELSE IF i = m THEN d ELSE ds[i - 1]
  <2> DEFINE before == SubSeq(ds, 1, m - 1)
             after == SubSeq(ds, m, n)
  <2> HIDE DEF new, n, before, after
  <2>1. before \o <<d>> \in Seq(T) /\ Len(before \o <<d>>) = m
        /\ \A i \in 1 .. m : (before \o <<d>>)[i] = IF i < m THEN ds[i] ELSE d
    BY <1>1, <1>2, <1>5 DEF before
  <2> DEFINE head == before \o <<d>>
  <2> HIDE DEF head
  <2>2. /\ head \o after \in Seq(T) /\ Len(head \o after) = n + 1
        /\ \A i \in 1 .. n + 1 : (head \o after)[i] = IF i <= m THEN head[i] ELSE after[i - m]
    <3>1. head \in Seq(T) /\ after \in Seq(T) /\ Len(head) = m /\ Len(after) = n + 1 - m
      BY <1>5, <2>1 DEF after, head
    <3>2. m \in Nat /\ n \in Nat /\ m + (n + 1 - m) = n + 1
      BY <1>1, <1>2
    <3>3. QED
      BY <3>1, <3>2, Joined
  <2>3. new = head \o after
    BY <1>4 DEF before, after, head
  <2>4. ASSUME NEW i \in 1 .. n + 1
        PROVE  new[i] = IF i < m THEN ds[i] ELSE IF i = m THEN d ELSE ds[i - 1]
    <3>1. CASE i <= m
      BY <1>1, <1>2, <2>1, <2>2, <2>3, <3>1 DEF head
    <3>2. CASE ~(i <= m)
      <4>1. i - m \in 1 .. n + 1 - m /\ m + (i - m) - 1 = i - 1
        BY <1>1, <1>2, <3>2
      <4>2. after[i - m] = ds[i - 1]
        BY <1>5, <4>1 DEF after
      <4>3. new[i] = after[i - m]
        BY <2>2, <2>3, <3>2
      <4>4. ~(i < m) /\ i # m
        BY <1>1, <1>2, <3>2
      <4>5. QED
        BY <4>2, <4>3, <4>4
    <3>3. QED
      BY <3>1, <3>2
  <2>5. QED
    BY <2>2, <2>3, <2>4
<1>7. ASSUME NEW x PROVE Lists(new, x) <=> x = d \/ Lists(ds, x)
  <2> HIDE DEF new, n
  <2>1. DOMAIN new = 1 .. n + 1
    BY <1>1, <1>6
  <2>2. ASSUME NEW i \in DOMAIN new, new[i] = x PROVE x = d \/ \E k \in DOMAIN ds : ds[k] = x
    <3>1. i < m => i \in DOMAIN ds /\ ds[i] = x
      BY <1>1, <1>2, <1>6, <2>1, <2>2
    <3>2. i = m => x = d
      BY <1>6, <2>1, <2>2
    <3>3. i > m => i - 1 \in DOMAIN ds /\ ds[i - 1] = x
      BY <1>1, <1>2, <1>6, <2>1, <2>2
    <3>4. i < m \/ i = m \/ i > m
      BY <1>1, <1>2, <2>1
    <3>5. QED
      BY <3>1, <3>2, <3>3, <3>4
  <2>3. new[m] = d /\ m \in DOMAIN new
    BY <1>1, <1>2, <1>6, <2>1
  <2>4. ASSUME NEW i \in DOMAIN ds, ds[i] = x PROVE \E k \in DOMAIN new : new[k] = x
    <3>1. i < m => i \in DOMAIN new /\ new[i] = x
      BY <1>1, <1>2, <1>6, <2>1, <2>4
    <3>2. ~(i < m) => i + 1 \in DOMAIN new /\ new[i + 1] = x
      BY <1>1, <1>2, <1>6, <2>1, <2>4
    <3>3. QED
      BY <3>1, <3>2
  <2>5. QED
    BY <2>2, <2>3, <2>4 DEF Lists
<1> HIDE DEF new
<1>8. QED
  BY <1>3, <1>6, <1>7

-----------------------------------------------------------------------------
(* Lines *)

\* The User-agent lines that line n + 1 is subject to, and whether the run goes on.
Naming(file, n) == \E j \in AgentLines(file, n + 1) : \A k \in j .. n : ~EndsAgents(file[k])

\* Of the lines from j to n, no User-agent line comes after one that ends a run.
OneRun(file, j, n) ==
    \A k, m \in j .. n : (k < m /\ EndsAgents(file[k])) => file[m].word # "agent"

LEMMA AgentLinesIs ==
    ASSUME NEW file, NEW n \in Nat
    PROVE  AgentLines(file, n + 1) =
              {j \in 1 .. n : file[j].word = "agent" /\ OneRun(file, j, n)}
<1>1. n + 1 - 1 = n
  OBVIOUS
<1>2. QED
  BY <1>1 DEF AgentLines, OneRun

LEMMA AgentLinesBelow ==
    ASSUME NEW file, NEW i \in Nat \ {0}
    PROVE  AgentLines(file, i) \subseteq 1 .. i - 1
BY DEF AgentLines

\* A line that is no User-agent line changes nothing for those that follow.
LEMMA AgentsKept ==
    ASSUME NEW file, NEW n \in Nat, file[n + 1].word # "agent"
    PROVE  AgentLines(file, n + 2) = AgentLines(file, n + 1)
<1>1. n + 1 \in Nat /\ (n + 1) + 1 = n + 2
  OBVIOUS
<1>2. AgentLines(file, n + 2) =
              {j \in 1 .. n + 1 : file[j].word = "agent" /\ OneRun(file, j, n + 1)}
  BY <1>1, AgentLinesIs
<1>0. AgentLines(file, n + 1) =
              {j \in 1 .. n : file[j].word = "agent" /\ OneRun(file, j, n)}
  BY AgentLinesIs
<1>3. ASSUME NEW j \in AgentLines(file, n + 2) PROVE j \in AgentLines(file, n + 1)
  <2>1. j \in 1 .. n + 1 /\ file[j].word = "agent"
    BY <1>2
  <2>2. j # n + 1
    BY <2>1
  <2>3. j \in 1 .. n
    BY <2>1, <2>2
  <2>4. \A k \in j .. n : k \in j .. n + 1
    BY <2>3
  <2>5. QED
    BY <1>2, <2>1, <2>3, <2>4, <1>0 DEF OneRun
<1>4. ASSUME NEW j \in AgentLines(file, n + 1) PROVE j \in AgentLines(file, n + 2)
  <2>1. j \in 1 .. n /\ file[j].word = "agent"
    BY <1>0
  <2>2. ASSUME NEW k \in j .. n + 1, NEW m \in j .. n + 1, k < m, EndsAgents(file[k])
        PROVE  file[m].word # "agent"
    <3>1. CASE m = n + 1
      BY <3>1
    <3>2. CASE m # n + 1
      <4>1. k \in j .. n /\ m \in j .. n
        BY <2>1, <2>2, <3>2
      <4>2. QED
        BY <2>2, <4>1, <1>0 DEF OneRun
    <3>3. QED
      BY <3>1, <3>2
  <2>3. j \in 1 .. n + 1
    BY <2>1
  <2>4. QED
    BY <1>2, <2>1, <2>2, <2>3 DEF OneRun
<1>5. QED
  BY <1>3, <1>4

\* Another User-agent line joins the run.
LEMMA AgentJoins ==
    ASSUME NEW file, NEW n \in Nat, file[n + 1].word = "agent", Naming(file, n)
    PROVE  AgentLines(file, n + 2) = AgentLines(file, n + 1) \cup {n + 1}
<1>1. n + 1 \in Nat /\ (n + 1) + 1 = n + 2
  OBVIOUS
<1>2. AgentLines(file, n + 2) =
              {j \in 1 .. n + 1 : file[j].word = "agent" /\ OneRun(file, j, n + 1)}
  BY <1>1, AgentLinesIs
<1>0. AgentLines(file, n + 1) =
              {j \in 1 .. n : file[j].word = "agent" /\ OneRun(file, j, n)}
  BY AgentLinesIs
<1>3. PICK s \in AgentLines(file, n + 1) : \A k \in s .. n : ~EndsAgents(file[k])
  BY DEF Naming
<1>4. s \in 1 .. n /\ file[s].word = "agent"
  BY <1>0
<1>5. ASSUME NEW j \in AgentLines(file, n + 2), j # n + 1 PROVE j \in AgentLines(file, n + 1)
  <2>1. j \in 1 .. n /\ file[j].word = "agent"
    BY <1>2, <1>5
  <2>2. \A k \in j .. n : k \in j .. n + 1
    BY <2>1
  <2>3. QED
    BY <1>2, <2>1, <2>2, <1>0 DEF OneRun
<1>6. ASSUME NEW j \in AgentLines(file, n + 1) PROVE j \in AgentLines(file, n + 2)
  <2>1. j \in 1 .. n /\ file[j].word = "agent"
    BY <1>0
  <2>2. ASSUME NEW k \in j .. n, EndsAgents(file[k]) PROVE FALSE
    <3>1. CASE k < s
      <4>1. s \in j .. n
        BY <1>4, <2>1, <3>1
      <4>2. QED
        BY <1>4, <2>2, <3>1, <4>1, <1>0 DEF OneRun
    <3>2. CASE ~(k < s)
      <4>1. k \in s .. n
        BY <1>4, <2>1, <3>2
      <4>2. QED
        BY <1>3, <2>2, <4>1
    <3>3. QED
      BY <3>1, <3>2
  <2>3. ASSUME NEW k \in j .. n + 1, NEW m \in j .. n + 1, k < m PROVE ~EndsAgents(file[k])
    <3>1. k \in j .. n
      BY <2>1, <2>3
    <3>2. QED
      BY <2>2, <3>1
  <2>4. j \in 1 .. n + 1
    BY <2>1
  <2>5. QED
    BY <1>2, <2>1, <2>3, <2>4 DEF OneRun
<1>7. n + 1 \in AgentLines(file, n + 2)
  <2>1. \A k, m \in n + 1 .. n + 1 : ~(k < m)
    OBVIOUS
  <2>2. n + 1 \in 1 .. n + 1
    OBVIOUS
  <2>3. QED
    BY <1>2, <2>1, <2>2 DEF OneRun
<1>8. QED
  BY <1>5, <1>6, <1>7

\* Or it begins the next.
LEMMA AgentBegins ==
    ASSUME NEW file, NEW n \in Nat, file[n + 1].word = "agent", ~Naming(file, n)
    PROVE  AgentLines(file, n + 2) = {n + 1}
<1>1. n + 1 \in Nat /\ (n + 1) + 1 = n + 2
  OBVIOUS
<1>2. AgentLines(file, n + 2) =
              {j \in 1 .. n + 1 : file[j].word = "agent" /\ OneRun(file, j, n + 1)}
  BY <1>1, AgentLinesIs
<1>0. AgentLines(file, n + 1) =
              {j \in 1 .. n : file[j].word = "agent" /\ OneRun(file, j, n)}
  BY AgentLinesIs
<1>3. ASSUME NEW j \in AgentLines(file, n + 2), j # n + 1 PROVE FALSE
  <2>1. j \in 1 .. n /\ file[j].word = "agent"
    BY <1>2, <1>3
  <2>2. \A k \in j .. n : k \in j .. n + 1
    BY <2>1
  <2>3. j \in AgentLines(file, n + 1)
    BY <1>2, <2>1, <2>2, <1>0 DEF OneRun
  <2>4. PICK k \in j .. n : EndsAgents(file[k])
    BY <2>3 DEF Naming
  <2>5. k \in j .. n + 1 /\ n + 1 \in j .. n + 1 /\ k < n + 1
    BY <2>1
  <2>6. QED
    BY <1>2, <2>4, <2>5 DEF OneRun
<1>4. n + 1 \in AgentLines(file, n + 2)
  <2>1. \A k, m \in n + 1 .. n + 1 : ~(k < m)
    OBVIOUS
  <2>2. n + 1 \in 1 .. n + 1
    OBVIOUS
  <2>3. QED
    BY <1>2, <2>1, <2>2 DEF OneRun
<1>5. QED
  BY <1>3, <1>4

-----------------------------------------------------------------------------
(* What a rule says of its lines *)

\* The arguments whose directives the parser drops: the empty one, and a bare slash.
Void(arg) == Record(arg) = <<>>

\* The lines whose directives match in the parser.
Heeded(file, path) ==
    {i \in DOMAIN file :
        /\ IsDirective(file[i])
        /\ ~Void(file[i].arg)
        /\ Applies(file, i)
        /\ Covers(Record(file[i].arg), Record(path))}

\* Of a group of User-agent lines: whether one matches, and whether the first does by name.
Matched(file, g) == \E j \in g : NamesMe(file, j) \/ NamesAny(file, j)

MatchedByName(file, g) ==
    \E j \in g : NamesMe(file, j) /\ \A k \in g : NamesAny(file, k) => j < k

\* The lines up to n with one of the words that are subject to the group.
Under(file, n, g, words) == {i \in 1 .. n : file[i].word \in words /\ AgentLines(file, i) = g}

Matchers(agents) == {i \in DOMAIN agents : MatchesUser(agents[i])}

SaysWho(file, agents, g) ==
    LET first == FirstOf(agents, Matchers(agents))
    IN  /\ first = <<>> <=> ~Matched(file, g)
        /\ first # <<>> => (MatchesAny(first[1]) <=> ~MatchedByName(file, g))

SaysWhat(file, n, directives, g) ==
    \A x : Lists(directives, x)
              <=> \E i \in Under(file, n, g, {"allow", "disallow"}) :
                     ~Void(file[i].arg) /\ x = Directive(file[i].word, file[i].arg)

SaysWhen(file, n, longest, g) ==
    /\ longest = 0 \/ \E i \in Under(file, n, g, {"delay"}) : file[i].arg = longest
    /\ \A i \in Under(file, n, g, {"delay"}) : file[i].arg <= longest

Says(file, n, rule, g) ==
    SaysWho(file, rule.agents, g) /\ SaysWhat(file, n, rule.directives, g) /\ SaysWhen(file, n, rule.delay, g)

LEMMA UnderSame ==
    ASSUME NEW file, NEW n \in Nat, NEW g, NEW words,
           ~(file[n + 1].word \in words /\ AgentLines(file, n + 1) = g)
    PROVE  Under(file, n + 1, g, words) = Under(file, n, g, words)
<1>1. 1 .. n + 1 = (1 .. n) \cup {n + 1}
  OBVIOUS
<1>2. QED
  BY <1>1, Zenon DEF Under

LEMMA UnderMore ==
    ASSUME NEW file, NEW n \in Nat, NEW words, file[n + 1].word \in words
    PROVE  LET g == AgentLines(file, n + 1)
           IN  Under(file, n + 1, g, words) = Under(file, n, g, words) \cup {n + 1}
<1>1. 1 .. n + 1 = (1 .. n) \cup {n + 1}
  OBVIOUS
<1>2. QED
  BY <1>1, Zenon DEF Under

LEMMA MinUnique ==
    ASSUME NEW S, S \subseteq Nat, NEW x \in S, \A y \in S : x <= y
    PROVE  Min(S) = x
<1>1. Min(S) \in S /\ Min(S) <= x /\ x <= Min(S)
  BY MinIs
<1>2. Min(S) \in Nat /\ x \in Nat
  BY <1>1
<1>3. QED
  BY <1>1, <1>2

LEMMA AppendIs ==
    ASSUME NEW T, NEW seq \in Seq(T), NEW x \in T
    PROVE  /\ Append(seq, x) \in Seq(T) /\ Len(Append(seq, x)) = Len(seq) + 1
           /\ DOMAIN seq = 1 .. Len(seq) /\ DOMAIN Append(seq, x) = 1 .. Len(seq) + 1
           /\ \A i \in 1 .. Len(seq) : Append(seq, x)[i] = seq[i]
           /\ Append(seq, x)[Len(seq) + 1] = x
OBVIOUS

\* With another name, the first that matches is the same, if there was one.
LEMMA FirstAppended ==
    ASSUME NEW T, NEW agents \in Seq(T), NEW arg \in T
    PROVE  LET longer == Append(agents, arg)
               before == FirstOf(agents, Matchers(agents))
           IN  FirstOf(longer, Matchers(longer)) =
                  IF before # <<>> THEN before ELSE IF MatchesUser(arg) THEN <<arg>> ELSE <<>>
<1> DEFINE n == Len(agents)
           longer == Append(agents, arg)
           M == Matchers(agents)
           before == FirstOf(agents, M)
           ML == Matchers(longer)
<1>1. /\ n \in Nat /\ longer \in Seq(T) /\ Len(longer) = n + 1
      /\ DOMAIN agents = 1 .. n /\ DOMAIN longer = 1 .. n + 1
      /\ \A i \in 1 .. n : longer[i] = agents[i]
      /\ longer[n + 1] = arg
  <2>1. n \in Nat
    OBVIOUS
  <2>2. QED
    <3> HIDE DEF M, ML, before
    <3>1. QED
      BY <2>1, AppendIs
<1>2. /\ M \subseteq 1 .. n /\ ML \subseteq 1 .. n + 1 /\ M \subseteq ML
      /\ \A i \in ML : i = n + 1 \/ i \in M
      /\ n + 1 \in ML <=> MatchesUser(arg)
  <2> HIDE DEF longer, n
  <2>1. M = {i \in 1 .. n : MatchesUser(agents[i])} /\ ML = {i \in 1 .. n + 1 : MatchesUser(longer[i])}
    BY <1>1, Zenon DEF Matchers
  <2>2. n + 1 \in 1 .. n + 1 /\ \A i \in 1 .. n + 1 : i = n + 1 \/ i \in 1 .. n
    BY <1>1
  <2> HIDE DEF M, ML
  <2>3. MatchesUser(longer[n + 1]) <=> MatchesUser(arg)
    BY <1>1
  <2>4. n + 1 \in ML <=> MatchesUser(arg)
    BY <2>1, <2>2, <2>3, Zenon
  <2>5. \A i \in 1 .. n : MatchesUser(longer[i]) <=> MatchesUser(agents[i])
    BY <1>1
  <2>6. M \subseteq 1 .. n /\ ML \subseteq 1 .. n + 1
    BY <2>1, Zenon
  <2>7. ASSUME NEW i \in M PROVE i \in ML
    <3>1. i \in 1 .. n /\ i \in 1 .. n + 1 /\ MatchesUser(agents[i])
      BY <2>1, <1>1
    <3>2. QED
      BY <2>1, <2>5, <3>1, Zenon
  <2>8. ASSUME NEW i \in ML, i # n + 1 PROVE i \in M
    <3>1. i \in 1 .. n /\ MatchesUser(longer[i])
      BY <2>1, <2>2, <2>8
    <3>2. QED
      BY <2>1, <2>5, <3>1, Zenon
  <2>9. QED
    BY <2>4, <2>6, <2>7, <2>8, Zenon
<1>3. M \subseteq DOMAIN agents /\ ML \subseteq DOMAIN longer /\ M \subseteq Nat /\ ML \subseteq Nat
  <2> HIDE DEF M, ML, longer, n
  <2>1. QED
    BY <1>1, <1>2
<1> HIDE DEF M, ML, longer, n
<1>4. before = <<>> <=> M = {}
  BY <1>3, FirstOfIs
<1>5. CASE M # {}
  <2>1. Min(M) \in M /\ before = <<agents[Min(M)]>> /\ \A y \in M : Min(M) <= y
    BY <1>3, <1>5, FirstOfIs, MinIs
  <2>2. Min(M) \in ML /\ \A y \in ML : Min(M) <= y
    <3>1. Min(M) \in ML /\ Min(M) \in 1 .. n
      BY <1>2, <2>1
    <3>2. ASSUME NEW y \in ML PROVE Min(M) <= y
      BY <1>1, <1>2, <2>1, <3>1, <3>2
    <3>3. QED
      BY <3>1, <3>2
  <2>3. Min(ML) = Min(M)
    BY <1>3, <2>2, MinUnique
  <2>4. FirstOf(longer, ML) = <<longer[Min(M)]>>
    BY <2>2, <2>3 DEF FirstOf
  <2>5. longer[Min(M)] = agents[Min(M)]
    BY <1>1, <1>2, <2>1
  <2>6. FirstOf(longer, ML) = before
    BY <2>1, <2>4, <2>5
  <2> HIDE DEF before
  <2>7. QED
    BY <1>4, <1>5, <2>6 DEF M, ML, longer, before
<1>6. CASE M = {} /\ MatchesUser(arg)
  <2>1. ML = {n + 1}
    BY <1>2, <1>6
  <2>2. Min(ML) = n + 1
    BY <1>3, <2>1, <1>1, MinIs
  <2>3. FirstOf(longer, ML) = <<arg>>
    BY <1>1, <2>1, <2>2 DEF FirstOf
  <2> HIDE DEF before
  <2>4. QED
    BY <1>4, <1>6, <2>3 DEF M, ML, longer, before
<1>7. CASE M = {} /\ ~MatchesUser(arg)
  <2>1. ML = {}
    BY <1>2, <1>7
  <2>2. FirstOf(longer, ML) = <<>>
    BY <2>1 DEF FirstOf
  <2> HIDE DEF before
  <2>3. QED
    BY <1>4, <1>7, <2>2 DEF M, ML, longer, before
<1>8. QED
  BY <1>5, <1>6, <1>7

-----------------------------------------------------------------------------
\* A group that starts at line n + 1 has no lines yet.
LEMMA UnderNew ==
    ASSUME NEW file, NEW n \in Nat, NEW g, n + 1 \in g, NEW words
    PROVE  Under(file, n + 1, g, words) = {}
<1>1. SUFFICES ASSUME NEW i \in 1 .. n + 1, AgentLines(file, i) = g PROVE FALSE
  BY DEF Under
<1>2. i \in Nat \ {0} /\ n + 1 \notin 1 .. i - 1
  BY <1>1
<1>3. QED
  BY <1>1, <1>2, AgentLinesBelow

LEMMA SaysLater ==
    ASSUME NEW file, NEW n \in Nat, NEW g, NEW rule, Says(file, n, rule, g),
           ~(EndsAgents(file[n + 1]) /\ AgentLines(file, n + 1) = g)
    PROVE  Says(file, n + 1, rule, g)
<1>1. Under(file, n + 1, g, {"allow", "disallow"}) = Under(file, n, g, {"allow", "disallow"})
  <2>1. ~(file[n + 1].word \in {"allow", "disallow"} /\ AgentLines(file, n + 1) = g)
    BY DEF EndsAgents
  <2>2. QED
    BY <2>1, UnderSame
<1>2. Under(file, n + 1, g, {"delay"}) = Under(file, n, g, {"delay"})
  <2>1. ~(file[n + 1].word \in {"delay"} /\ AgentLines(file, n + 1) = g)
    BY DEF EndsAgents
  <2>2. QED
    BY <2>1, UnderSame
<1>3. QED
  BY <1>1, <1>2, Zenon DEF Says, SaysWhat, SaysWhen

LEMMA WhoAppended ==
    ASSUME NEW file, NEW n \in Nat, NEW T, NEW agents \in Seq(T), NEW g, g \subseteq 1 .. n,
           file[n + 1].arg \in T, SaysWho(file, agents, g)
    PROVE  SaysWho(file, Append(agents, file[n + 1].arg), g \cup {n + 1})
<1> DEFINE arg == file[n + 1].arg
           longer == Append(agents, arg)
           before == FirstOf(agents, Matchers(agents))
           after == FirstOf(longer, Matchers(longer))
           h == g \cup {n + 1}
<1>1. after = IF before # <<>> THEN before ELSE IF MatchesUser(arg) THEN <<arg>> ELSE <<>>
  BY FirstAppended
<1>2. /\ before = <<>> <=> ~Matched(file, g)
      /\ before # <<>> => (MatchesAny(before[1]) <=> ~MatchedByName(file, g))
  BY DEF SaysWho
<1>3. MatchesUser(arg) <=> NamesMe(file, n + 1) \/ NamesAny(file, n + 1)
  BY DEF MatchesUser, MatchesAny, NamesMe, NamesAny
<1>4. Matched(file, h) <=> Matched(file, g) \/ MatchesUser(arg)
  BY <1>3 DEF Matched
<1>5. \A j \in g : j \in Nat /\ j < n + 1 /\ ~(n + 1 < j)
  OBVIOUS
<1> HIDE DEF after, before, longer, arg
<1>6. CASE before # <<>>
  <2>1. after = before /\ Matched(file, g)
    BY <1>1, <1>2, <1>6
  <2>2. PICK a \in g : NamesMe(file, a) \/ NamesAny(file, a)
    BY <2>1 DEF Matched
  <2>3. ASSUME MatchedByName(file, g) PROVE MatchedByName(file, h)
    BY <1>5, <2>3 DEF MatchedByName
  <2>4. ASSUME MatchedByName(file, h) PROVE MatchedByName(file, g)
    <3>1. PICK j \in h : NamesMe(file, j) /\ \A k \in h : NamesAny(file, k) => j < k
      BY <2>4 DEF MatchedByName
    <3>2. CASE j \in g
      BY <3>1, <3>2 DEF MatchedByName
    <3>3. CASE j = n + 1
      <4>1. \A k \in g : ~NamesAny(file, k)
        BY <1>5, <3>1, <3>3
      <4>2. NamesMe(file, a)
        BY <2>2, <4>1
      <4>3. QED
        BY <4>1, <4>2 DEF MatchedByName
    <3>4. QED
      BY <3>2, <3>3
  <2>5. QED
    BY <1>1, <1>2, <1>4, <1>6, <2>1, <2>3, <2>4 DEF SaysWho, after, longer, arg
<1>7. CASE before = <<>>
  <2>1. ~Matched(file, g)
    BY <1>2, <1>7
  <2>2. \A j \in g : ~NamesMe(file, j) /\ ~NamesAny(file, j)
    BY <2>1 DEF Matched
  <2>3. MatchedByName(file, h) <=> NamesMe(file, n + 1) /\ (NamesAny(file, n + 1) => n + 1 < n + 1)
    BY <2>2, Zenon DEF MatchedByName
  <2>4. MatchedByName(file, h) <=> NamesMe(file, n + 1)
    BY <2>3 DEF NamesMe, NamesAny
  <2>5. CASE MatchesUser(arg)
    <3>1. after = <<arg>> /\ after # <<>> /\ after[1] = arg
      BY <1>1, <1>7, <2>5
    <3>2. MatchesAny(arg) <=> ~NamesMe(file, n + 1)
      BY <1>3, <2>5 DEF NamesMe, NamesAny, MatchesAny, arg
    <3>3. QED
      BY <1>4, <2>4, <2>5, <3>1, <3>2 DEF SaysWho, after, longer, arg
  <2>6. CASE ~MatchesUser(arg)
    <3>1. after = <<>>
      BY <1>1, <1>7, <2>6
    <3>2. QED
      BY <1>4, <2>1, <2>6, <3>1 DEF SaysWho, after, longer, arg
  <2>7. QED
    BY <2>5, <2>6
<1>8. QED
  BY <1>6, <1>7

LEMMA SaysNew ==
    ASSUME NEW file, NEW n \in Nat, file[n + 1].arg \in STRING
    PROVE  Says(file, n + 1, NewRule(file[n + 1].arg), {n + 1})
<1> DEFINE arg == file[n + 1].arg
           g == {n + 1}
<1>1. \A words : Under(file, n + 1, g, words) = {}
  <2>1. n + 1 \in g
    OBVIOUS
  <2> HIDE DEF g
  <2>2. QED
    BY <2>1, UnderNew
<1>2. SaysWho(file, <<arg>>, g)
  <2> DEFINE empty == <<>>
  <2>1. Matchers(empty) = {}
    BY DEF Matchers
  <2>2. FirstOf(empty, Matchers(empty)) = <<>>
    BY <2>1 DEF FirstOf
  <2>3. ~Matched(file, {})
    BY DEF Matched
  <2>4. SaysWho(file, empty, {})
    BY <2>2, <2>3, Zenon DEF SaysWho
  <2>5. empty \in Seq(STRING) /\ {} \subseteq 1 .. n
    OBVIOUS
  <2>6. SaysWho(file, Append(empty, arg), {} \cup {n + 1})
    <3> HIDE DEF empty
    <3>1. QED
      BY <2>4, <2>5, WhoAppended
  <2>7. Append(empty, arg) = <<arg>> /\ {} \cup {n + 1} = g
    OBVIOUS
  <2> HIDE DEF empty, arg, g
  <2>8. QED
    BY <2>6, <2>7
<1>3. SaysWhat(file, n + 1, <<>>, g)
  <2>1. ~\E d \in DOMAIN <<>> : TRUE
    OBVIOUS
  <2>2. QED
    BY <1>1, <2>1 DEF SaysWhat, Lists
<1>4. SaysWhen(file, n + 1, 0, g)
  BY <1>1 DEF SaysWhen
<1> DEFINE new == NewRule(arg)
<1>5. new.agents = <<arg>> /\ new.directives = <<>> /\ new.delay = 0
  BY DEF NewRule
<1> HIDE DEF new, g, arg
<1>6. Says(file, n + 1, new, g)
  BY <1>2, <1>3, <1>4, <1>5 DEF Says
<1>7. QED
  BY <1>6 DEF new, g, arg

\* A name for the rule, while the group has no other lines.
LEMMA SaysAgent ==
    ASSUME NEW file, NEW n \in Nat, NEW rule \in RuleT, NEW g, g \subseteq 1 .. n,
           file[n + 1].word = "agent", file[n + 1].arg \in STRING,
           \A i \in 1 .. n : EndsAgents(file[i]) => AgentLines(file, i) # g,
           Says(file, n, rule, g)
    PROVE  Says(file, n + 1, WithStatement(rule, file[n + 1]), g \cup {n + 1})
<1> DEFINE h == g \cup {n + 1}
           new == WithStatement(rule, file[n + 1])
<1>1. /\ new.agents = Append(rule.agents, file[n + 1].arg)
      /\ new.directives = rule.directives /\ new.delay = rule.delay
  BY DEF WithStatement, RuleT
<1>2. Under(file, n, g, {"allow", "disallow"}) = {} /\ Under(file, n, g, {"delay"}) = {}
  BY DEF Under, EndsAgents
<1>3. \A words : Under(file, n + 1, h, words) = {}
  <2>1. n + 1 \in h
    OBVIOUS
  <2> HIDE DEF h
  <2>2. QED
    BY <2>1, UnderNew
<1>4. SaysWho(file, Append(rule.agents, file[n + 1].arg), h)
  <2>1. rule.agents \in Seq(STRING)
    BY DEF RuleT
  <2>2. SaysWho(file, rule.agents, g)
    BY DEF Says
  <2> DEFINE T == STRING
             agents == rule.agents
  <2>3. agents \in Seq(T) /\ file[n + 1].arg \in T /\ SaysWho(file, agents, g)
    BY <2>1, <2>2
  <2> HIDE DEF T, agents
  <2>4. SaysWho(file, Append(agents, file[n + 1].arg), h)
    BY <2>3, WhoAppended
  <2>5. QED
    BY <2>4 DEF agents
<1> HIDE DEF h, new
<1>5. SaysWhat(file, n + 1, rule.directives, h)
  <2>1. SaysWhat(file, n, rule.directives, g)
    BY DEF Says
  <2>2. QED
    BY <1>2, <1>3, <2>1 DEF SaysWhat
<1>6. SaysWhen(file, n + 1, rule.delay, h)
  <2>1. SaysWhen(file, n, rule.delay, g)
    BY DEF Says
  <2>2. QED
    BY <1>2, <1>3, <2>1 DEF SaysWhen
<1>7. Says(file, n + 1, new, h)
  BY <1>1, <1>4, <1>5, <1>6, Zenon DEF Says
<1>8. QED
  BY <1>7 DEF h, new

LEMMA RecordIs == ASSUME NEW T, NEW arg \in Seq(T) PROVE Record(arg) \in Seq(T)
BY DEF Record

\* A pattern is of decoded symbols, and empty when the argument is void.
LEMMA WildcardIs ==
    ASSUME NEW arg \in Seq(STRING)
    PROVE  /\ Wildcard(arg) = Unescape(Record(arg)) /\ Record(arg) \in Seq(STRING)
           /\ Wildcard(arg) \in Seq(Symbol)
           /\ Wildcard(arg) = <<>> <=> Void(arg)
<1> DEFINE T == STRING
           r == Record(arg)
<1>1. WithoutSlash(arg) = r
  BY DEF WithoutSlash, Record
<1>2. r \in Seq(T)
  <2>1. arg \in Seq(T)
    OBVIOUS
  <2> HIDE DEF T
  <2>2. QED
    BY <2>1, RecordIs
<1>3. Wildcard(arg) = Unescape(r)
  BY <1>1 DEF Wildcard
<1> HIDE DEF r
<1>4. Unescape(r) \in Seq(Symbol) /\ Len(Unescape(r)) = Len(r)
  <2> HIDE DEF T
  <2>1. Unescape(r) \in Seq({Unescaped(c) : c \in T}) /\ Len(Unescape(r)) = Len(r)
    BY <1>2, UnescapedSeq
  <2>2. QED
    BY <2>1 DEF Symbol, T
<1>5. Unescape(r) = <<>> <=> r = <<>>
  <2>1. Unescape(r) = <<>> <=> Len(Unescape(r)) = 0
    BY <1>4
  <2>2. r = <<>> <=> Len(r) = 0
    <3> HIDE DEF T
    <3>1. QED
      BY <1>2
  <2>3. QED
    BY <1>4, <2>1, <2>2
<1>6. QED
  BY <1>2, <1>3, <1>4, <1>5 DEF r, Void

LEMMA WithStatementType ==
    ASSUME NEW rule \in RuleT, NEW line, IsLine(line),
           line.word \in {"agent", "allow", "disallow", "delay"}
    PROVE  WithStatement(rule, line) \in RuleT
<1>1. rule.agents \in Seq(STRING) /\ rule.directives \in Seq(DirectiveT) /\ rule.delay \in Nat
  BY DEF RuleT
<1>2. CASE line.word = "agent"
  <2>1. WithStatement(rule, line) = [rule EXCEPT !.agents = Append(@, line.arg)]
    BY <1>2 DEF WithStatement
  <2>2. Append(rule.agents, line.arg) \in Seq(STRING)
    <3> DEFINE T == STRING
               agents == rule.agents
    <3>1. agents \in Seq(T) /\ line.arg \in T
      BY <1>1, <1>2 DEF IsLine
    <3> HIDE DEF T, agents
    <3>2. Append(agents, line.arg) \in Seq(T)
      BY <3>1
    <3>3. QED
      BY <3>2 DEF T, agents
  <2>3. QED
    BY <2>1, <2>2 DEF RuleT
<1>3. CASE line.word = "delay"
  <2>1. WithStatement(rule, line) = [rule EXCEPT !.delay = Max({@, line.arg})]
    BY <1>3 DEF WithStatement
  <2>2. Max({rule.delay, line.arg}) \in Nat
    BY <1>1, <1>3, MaxOfTwo DEF IsLine
  <2>3. QED
    BY <2>1, <2>2 DEF RuleT
<1>4. CASE line.word \in {"allow", "disallow"}
  <2>1. WithStatement(rule, line) = [rule EXCEPT !.directives = AddDirective(@, line.word, line.arg)]
    BY <1>4 DEF WithStatement
  <2>2. Wildcard(line.arg) \in Seq(Symbol)
    BY <1>4, WildcardIs DEF IsLine
  <2>3. Directive(line.word, line.arg) \in DirectiveT
    BY <1>4, <2>2 DEF Directive, DirectiveT
  <2>4. AddDirective(rule.directives, line.word, line.arg) \in Seq(DirectiveT)
    BY <1>1, <2>3, InsertIs DEF AddDirective
  <2>5. QED
    BY <2>1, <2>4 DEF RuleT
<1>5. QED
  BY <1>2, <1>3, <1>4

\* A directive or a delay for the rule whose group is open.
LEMMA SaysStatement ==
    ASSUME NEW file, NEW n \in Nat, NEW rule \in RuleT, NEW g, g = AgentLines(file, n + 1),
           \A i \in 1 .. n + 1 : IsLine(file[i]), EndsAgents(file[n + 1]), Says(file, n, rule, g)
    PROVE  Says(file, n + 1, WithStatement(rule, file[n + 1]), g)
<1> DEFINE line == file[n + 1]
           new == WithStatement(rule, line)
           directs == {"allow", "disallow"}
<1>0. IsLine(line) /\ \A i \in 1 .. n : IsLine(file[i])
  <2>1. n + 1 \in 1 .. n + 1 /\ \A i \in 1 .. n : i \in 1 .. n + 1
    OBVIOUS
  <2>2. QED
    BY <2>1
<1>1. SaysWho(file, rule.agents, g) /\ SaysWhat(file, n, rule.directives, g) /\ SaysWhen(file, n, rule.delay, g)
  BY DEF Says
<1>2. rule.directives \in Seq(DirectiveT) /\ rule.delay \in Nat
  BY DEF RuleT
<1>3. CASE line.word = "delay"
  <2>1. new.agents = rule.agents /\ new.directives = rule.directives /\ new.delay = Max({rule.delay, line.arg})
    BY <1>3 DEF WithStatement, RuleT
  <2>2. Under(file, n + 1, g, directs) = Under(file, n, g, directs)
    BY <1>3, UnderSame
  <2>3. Under(file, n + 1, g, {"delay"}) = Under(file, n, g, {"delay"}) \cup {n + 1}
    BY <1>3, UnderMore
  <2>4. line.arg \in Nat
    BY <1>0, <1>3 DEF IsLine
  <2>5. SaysWhat(file, n + 1, rule.directives, g)
    BY <1>1, <2>2 DEF SaysWhat
  <2>6. SaysWhen(file, n + 1, new.delay, g)
    <3>1. new.delay \in {rule.delay, line.arg} /\ rule.delay <= new.delay /\ line.arg <= new.delay /\ new.delay \in Nat
      BY <1>2, <2>1, <2>4, MaxOfTwo
    <3> HIDE DEF new
    <3>2. ASSUME NEW i \in Under(file, n, g, {"delay"}) PROVE file[i].arg <= new.delay
      <4>1. file[i].arg <= rule.delay
        BY <1>1 DEF SaysWhen
      <4>2. file[i].arg \in Nat
        BY <1>0 DEF Under, IsLine
      <4>3. QED
        BY <1>2, <3>1, <4>1, <4>2
    <3>3. QED
      BY <1>1, <2>3, <3>1, <3>2 DEF SaysWhen
  <2>7. QED
    BY <1>1, <2>1, <2>5, <2>6 DEF Says
<1>4. CASE line.word \in directs
  <2>1. /\ new.agents = rule.agents /\ new.delay = rule.delay
        /\ new.directives = AddDirective(rule.directives, line.word, line.arg)
    BY <1>4 DEF WithStatement, RuleT
  <2>2. Under(file, n + 1, g, directs) = Under(file, n, g, directs) \cup {n + 1}
    BY <1>4, UnderMore
  <2>3. Under(file, n + 1, g, {"delay"}) = Under(file, n, g, {"delay"})
    BY <1>4, UnderSame
  <2>4. SaysWhen(file, n + 1, rule.delay, g)
    BY <1>1, <2>3 DEF SaysWhen
  <2>5. line.arg \in Seq(STRING)
    BY <1>0, <1>4 DEF IsLine
  <2>6. Wildcard(line.arg) = <<>> <=> Void(line.arg)
    BY <2>5, WildcardIs
  <2>7. Directive(line.word, line.arg) \in DirectiveT
    BY <1>4, <2>5, WildcardIs DEF Directive, DirectiveT
  <2>8. ASSUME NEW x
        PROVE  Lists(new.directives, x) <=>
                  Lists(rule.directives, x) \/ (~Void(line.arg) /\ x = Directive(line.word, line.arg))
    <3> DEFINE T == DirectiveT
               ds == rule.directives
               d == Directive(line.word, line.arg)
    <3>1. ds \in Seq(T) /\ d \in T
      BY <1>2, <2>7
    <3>2. new.directives = IF Void(line.arg) THEN ds ELSE Insert(ds, d)
      BY <2>1, <2>6 DEF AddDirective
    <3> HIDE DEF T, ds, d, new, line
    <3>3. Lists(Insert(ds, d), x) <=> x = d \/ Lists(ds, x)
      BY <3>1, InsertIs
    <3>4. Lists(new.directives, x) <=> Lists(ds, x) \/ (~Void(line.arg) /\ x = d)
      BY <3>2, <3>3
    <3>5. QED
      BY <3>4 DEF ds, d
  <2>9. SaysWhat(file, n + 1, new.directives, g)
    <3> HIDE DEF new
    <3>1. QED
      BY <1>1, <2>2, <2>8 DEF SaysWhat
  <2>10. QED
    BY <1>1, <2>1, <2>4, <2>9 DEF Says
<1>5. QED
  BY <1>3, <1>4 DEF EndsAgents

LEMMA ReplaceIs ==
    ASSUME NEW T, NEW seq \in Seq(T), NEW n \in 1 .. Len(seq), NEW x \in T
    PROVE  /\ [seq EXCEPT ![n] = x] \in Seq(T) /\ Len([seq EXCEPT ![n] = x]) = Len(seq)
           /\ \A k \in 1 .. Len(seq) : k # n => [seq EXCEPT ![n] = x][k] = seq[k]
           /\ [seq EXCEPT ![n] = x][n] = x
OBVIOUS

-----------------------------------------------------------------------------
(* The rules of a file *)

\* After line n, the rules and their groups: each rule says what the lines of its group
\* say, the last one's group is the one that the next line is subject to, and every
\* statement that is subject to a group finds it.
Grouped(file, n, acc, grp) ==
    LET last == Len(acc.rules)
    IN  /\ grp \in [1 .. last -> SUBSET (1 .. n)]
        /\ \A k \in 1 .. last : grp[k] # {} /\ Says(file, n, acc.rules[k], grp[k])
        /\ \A k, l \in 1 .. last : grp[k] = grp[l] => k = l
        /\ last = 0 => AgentLines(file, n + 1) = {}
        /\ last # 0 => grp[last] = AgentLines(file, n + 1)
        /\ acc.naming <=> Naming(file, n)
        /\ \A i \in 1 .. n : (EndsAgents(file[i]) /\ AgentLines(file, i) # {})
                                => \E k \in 1 .. last : grp[k] = AgentLines(file, i)

LEMMA NamingNext ==
    ASSUME NEW file, NEW n \in Nat
    PROVE  /\ file[n + 1].word = "agent" => Naming(file, n + 1)
           /\ EndsAgents(file[n + 1]) => ~Naming(file, n + 1)
           /\ (file[n + 1].word # "agent" /\ ~EndsAgents(file[n + 1]))
                  => (Naming(file, n + 1) <=> Naming(file, n))
<1>1. n + 1 + 1 = n + 2
  OBVIOUS
<1>2. ASSUME file[n + 1].word = "agent" PROVE Naming(file, n + 1)
  <2>1. n + 1 \in AgentLines(file, n + 2)
    BY <1>2, AgentJoins, AgentBegins
  <2>2. \A k \in n + 1 .. n + 1 : ~EndsAgents(file[k])
    BY <1>2 DEF EndsAgents
  <2>3. QED
    BY <1>1, <2>1, <2>2 DEF Naming
<1>3. ASSUME file[n + 1].word # "agent" PROVE AgentLines(file, n + 2) = AgentLines(file, n + 1)
  BY <1>3, AgentsKept
<1>4. AgentLines(file, n + 1) \subseteq 1 .. n
  BY AgentLinesIs
<1>5. ASSUME EndsAgents(file[n + 1]), Naming(file, n + 1) PROVE FALSE
  <2>1. AgentLines(file, n + 2) = AgentLines(file, n + 1)
    BY <1>3, <1>5 DEF EndsAgents
  <2>2. PICK j \in AgentLines(file, n + 2) : \A k \in j .. n + 1 : ~EndsAgents(file[k])
    BY <1>1, <1>5 DEF Naming
  <2>3. n + 1 \in j .. n + 1
    BY <1>4, <2>1
  <2>4. QED
    BY <1>5, <2>2, <2>3
<1>6. ASSUME file[n + 1].word # "agent", ~EndsAgents(file[n + 1]) PROVE Naming(file, n + 1) <=> Naming(file, n)
  <2>1. AgentLines(file, n + 2) = AgentLines(file, n + 1)
    BY <1>3, <1>6
  <2>2. ASSUME NEW j \in AgentLines(file, n + 1)
        PROVE (\A k \in j .. n + 1 : ~EndsAgents(file[k])) <=> (\A k \in j .. n : ~EndsAgents(file[k]))
    <3>1. j \in 1 .. n
      BY <1>4
    <3>2. j .. n + 1 = (j .. n) \cup {n + 1}
      BY <3>1
    <3>3. QED
      BY <1>6, <3>2
  <2>3. QED
    BY <1>1, <2>1, <2>2, Zenon DEF Naming
<1>7. QED
  BY <1>2, <1>5, <1>6

\* An agent line after a statement: a rule and a group of its own.
LEMMA GroupsBegin ==
    ASSUME NEW file, NEW n \in Nat, NEW acc \in AccT, NEW grp, Grouped(file, n, acc, grp),
           \A i \in 1 .. n + 1 : IsLine(file[i]), file[n + 1].word = "agent", ~acc.naming
    PROVE  \E h : Grouped(file, n + 1, ReadLine(acc, file[n + 1]), h)
<1> DEFINE R == acc.rules
           last == Len(R)
           line == file[n + 1]
           new == ReadLine(acc, line)
           h == [k \in 1 .. last + 1 |-> IF k = last + 1 THEN {n + 1} ELSE grp[k]]
<1>0. /\ grp \in [1 .. last -> SUBSET (1 .. n)]
      /\ \A k \in 1 .. last : grp[k] # {} /\ Says(file, n, R[k], grp[k])
      /\ \A k, l \in 1 .. last : grp[k] = grp[l] => k = l
      /\ acc.naming <=> Naming(file, n)
      /\ \A i \in 1 .. n : (EndsAgents(file[i]) /\ AgentLines(file, i) # {})
                                => \E k \in 1 .. last : grp[k] = AgentLines(file, i)
  BY DEF Grouped
<1>1. line.arg \in STRING /\ n + 1 \in 1 .. n + 1 /\ ~EndsAgents(line)
  <2>1. n + 1 \in 1 .. n + 1
    OBVIOUS
  <2>2. QED
    BY <2>1 DEF IsLine, EndsAgents
<1>2. new.rules = Append(R, NewRule(line.arg)) /\ new.naming = TRUE
  BY DEF ReadLine
<1>3. last \in Nat /\ R \in Seq(RuleT)
  BY DEF AccT
<1>4. /\ Len(new.rules) = last + 1
      /\ \A k \in 1 .. last : new.rules[k] = R[k]
      /\ new.rules[last + 1] = NewRule(line.arg)
  <2>1. NewRule(line.arg) \in RuleT
    BY <1>1 DEF NewRule, RuleT
  <2> HIDE DEF new, R
  <2>2. QED
    BY <1>2, <1>3, <2>1, AppendIs
<1>5. AgentLines(file, n + 1 + 1) = {n + 1}
  <2>1. n + 1 + 1 = n + 2
    OBVIOUS
  <2>2. QED
    BY <1>0, <2>1, AgentBegins
<1> HIDE DEF new, line, R
<1>6. \A k \in 1 .. last + 1 : k = last + 1 \/ k \in 1 .. last
  BY <1>3
<1>7. /\ \A k \in 1 .. last : h[k] = grp[k]
      /\ h[last + 1] = {n + 1}
      /\ h \in [1 .. last + 1 -> SUBSET (1 .. n + 1)]
  <2>1. \A k \in 1 .. last : k \in 1 .. last + 1 /\ k # last + 1
    BY <1>3
  <2>2. last + 1 \in 1 .. last + 1
    BY <1>3
  <2>3. \A k \in 1 .. last : grp[k] \in SUBSET (1 .. n + 1)
    <3>1. 1 .. n \subseteq 1 .. n + 1
      OBVIOUS
    <3>2. QED
      BY <1>0, <3>1
  <2>4. {n + 1} \in SUBSET (1 .. n + 1)
    BY <1>1
  <2>5. QED
    BY <1>6, <2>1, <2>2, <2>3, <2>4
<1> HIDE DEF h, last
<1>8. ASSUME NEW k \in 1 .. last + 1 PROVE h[k] # {} /\ Says(file, n + 1, new.rules[k], h[k])
  <2>1. CASE k = last + 1
    <3>1. Says(file, n + 1, NewRule(line.arg), {n + 1})
      BY <1>1, SaysNew DEF line
    <3>2. QED
      BY <1>4, <1>7, <2>1, <3>1
  <2>2. CASE k # last + 1
    <3>1. k \in 1 .. last
      BY <1>6, <2>2
    <3>2. Says(file, n, R[k], grp[k]) /\ grp[k] # {}
      BY <1>0, <3>1
    <3>3. Says(file, n + 1, R[k], grp[k])
      BY <1>1, <3>2, SaysLater DEF line
    <3>4. QED
      BY <1>4, <1>7, <3>1, <3>2, <3>3
  <2>3. QED
    BY <2>1, <2>2
<1>9. \A k, l \in 1 .. last + 1 : h[k] = h[l] => k = l
  <2>1. ~(n + 1 \in 1 .. n)
    OBVIOUS
  <2>2. \A k \in 1 .. last : n + 1 \notin h[k]
    BY <1>0, <1>7, <2>1
  <2>3. n + 1 \in h[last + 1]
    BY <1>7
  <2>4. QED
    BY <1>0, <1>6, <1>7, <2>2, <2>3
<1>10. ASSUME NEW i \in 1 .. n + 1, EndsAgents(file[i]), AgentLines(file, i) # {}
       PROVE  \E k \in 1 .. last + 1 : h[k] = AgentLines(file, i)
  <2>1. i # n + 1
    BY <1>1, <1>10 DEF line
  <2>2. i \in 1 .. n
    BY <2>1
  <2>3. PICK k \in 1 .. last : grp[k] = AgentLines(file, i)
    BY <1>0, <1>10, <2>2
  <2>4. k \in 1 .. last + 1
    BY <1>3
  <2>5. QED
    BY <1>7, <2>3, <2>4
<1>11. Naming(file, n + 1)
  BY NamingNext
<1>12. last + 1 # 0
  BY <1>3
<1>13. Grouped(file, n + 1, new, h)
  BY <1>2, <1>4, <1>5, <1>7, <1>8, <1>9, <1>10, <1>11, <1>12 DEF Grouped
<1>14. QED
  BY <1>13 DEF new, line

\* An agent line after another: a name more for the last rule, a line more in its group.
LEMMA GroupsJoin ==
    ASSUME NEW file, NEW n \in Nat, NEW acc \in AccT, NEW grp, Grouped(file, n, acc, grp),
           \A i \in 1 .. n + 1 : IsLine(file[i]), file[n + 1].word = "agent", acc.naming
    PROVE  \E h : Grouped(file, n + 1, ReadLine(acc, file[n + 1]), h)
<1> DEFINE R == acc.rules
           last == Len(R)
           line == file[n + 1]
           new == ReadLine(acc, line)
           h == [k \in 1 .. last |-> IF k = last THEN grp[k] \cup {n + 1} ELSE grp[k]]
<1>0. /\ grp \in [1 .. last -> SUBSET (1 .. n)]
      /\ \A k \in 1 .. last : grp[k] # {} /\ Says(file, n, R[k], grp[k])
      /\ \A k, l \in 1 .. last : grp[k] = grp[l] => k = l
      /\ last = 0 => AgentLines(file, n + 1) = {}
      /\ last # 0 => grp[last] = AgentLines(file, n + 1)
      /\ acc.naming <=> Naming(file, n)
      /\ \A i \in 1 .. n : (EndsAgents(file[i]) /\ AgentLines(file, i) # {})
                                => \E k \in 1 .. last : grp[k] = AgentLines(file, i)
  BY DEF Grouped
<1>1. line.arg \in STRING /\ n + 1 \in 1 .. n + 1 /\ ~EndsAgents(line)
  <2>1. n + 1 \in 1 .. n + 1
    OBVIOUS
  <2>2. QED
    BY <2>1 DEF IsLine, EndsAgents
<1>2. last \in Nat /\ R \in Seq(RuleT) /\ last # 0 /\ last \in 1 .. last /\ DOMAIN R = 1 .. last /\ R # <<>>
  <2>1. last \in Nat /\ R \in Seq(RuleT) /\ DOMAIN R = 1 .. last
    BY DEF AccT
  <2>2. last # 0
    BY <1>0 DEF Naming
  <2>3. last \in 1 .. last /\ R # <<>>
    <3> HIDE DEF R
    <3>1. QED
      BY <2>1, <2>2
  <2>4. QED
    BY <2>1, <2>2, <2>3
<1>3. new.rules = [R EXCEPT ![last] = WithStatement(@, line)] /\ new.naming = TRUE
  BY <1>2 DEF ReadLine
<1>4. /\ Len(new.rules) = last
      /\ \A k \in 1 .. last : k # last => new.rules[k] = R[k]
      /\ new.rules[last] = WithStatement(R[last], line)
  <2> DEFINE x == WithStatement(R[last], line)
  <2>1. x \in RuleT
    <3>1. R[last] \in RuleT /\ IsLine(line)
      BY <1>1, <1>2
    <3>2. QED
      BY <3>1, WithStatementType
  <2>2. new.rules = [R EXCEPT ![last] = x]
    BY <1>3
  <2>0. R \in Seq(RuleT) /\ last \in 1 .. Len(R)
    BY <1>2
  <2> DEFINE rules == [R EXCEPT ![last] = x]
  <2> HIDE DEF new, R, x, last
  <2>3. /\ Len(rules) = Len(R)
        /\ \A k \in 1 .. Len(R) : k # last => rules[k] = R[k]
        /\ rules[last] = x
    BY <2>0, <2>1, ReplaceIs
  <2>4. QED
    BY <2>2, <2>3 DEF x, last
<1>5. AgentLines(file, n + 1 + 1) = grp[last] \cup {n + 1}
  <2>1. n + 1 + 1 = n + 2
    OBVIOUS
  <2>2. QED
    BY <1>0, <1>2, <2>1, AgentJoins
<1>6. ASSUME NEW i \in 1 .. n, EndsAgents(file[i]) PROVE AgentLines(file, i) # grp[last]
  <2>1. PICK s \in grp[last] : \A k \in s .. n : ~EndsAgents(file[k])
    BY <1>0, <1>2 DEF Naming
  <2>2. s \in 1 .. n
    BY <1>0, <1>2, <2>1
  <2>3. ~(i \in s .. n)
    BY <1>6, <2>1
  <2>4. s \notin 1 .. i - 1
    BY <2>2, <2>3
  <2>5. s \notin AgentLines(file, i)
    BY <2>4, AgentLinesBelow
  <2>6. QED
    BY <2>1, <2>5
<1> HIDE DEF new, line, R
<1>7. /\ \A k \in 1 .. last : k # last => h[k] = grp[k]
      /\ h[last] = grp[last] \cup {n + 1}
      /\ h \in [1 .. last -> SUBSET (1 .. n + 1)]
  <2>1. 1 .. n \subseteq 1 .. n + 1
    OBVIOUS
  <2> HIDE DEF last
  <2>2. QED
    BY <1>0, <1>1, <1>2, <2>1
<1> HIDE DEF h, last
<1>8. ASSUME NEW k \in 1 .. last PROVE h[k] # {} /\ Says(file, n + 1, new.rules[k], h[k])
  <2>1. Says(file, n, R[k], grp[k]) /\ grp[k] # {}
    BY <1>0
  <2>2. CASE k = last
    <3>1. R[last] \in RuleT /\ grp[last] \subseteq 1 .. n
      BY <1>0, <1>2
    <3>2. Says(file, n, R[last], grp[last])
      BY <2>1, <2>2
    <3>3. Says(file, n + 1, WithStatement(R[last], file[n + 1]), grp[last] \cup {n + 1})
      <4> DEFINE rule == R[last]
                 g == grp[last]
      <4>1. /\ rule \in RuleT /\ g \subseteq 1 .. n /\ Says(file, n, rule, g)
            /\ \A i \in 1 .. n : EndsAgents(file[i]) => AgentLines(file, i) # g
            /\ file[n + 1].arg \in STRING
        BY <1>1, <1>6, <3>1, <3>2 DEF line
      <4> HIDE DEF rule, g
      <4>2. Says(file, n + 1, WithStatement(rule, file[n + 1]), g \cup {n + 1})
        BY <4>1, SaysAgent
      <4>3. QED
        BY <4>2 DEF rule, g
    <3>4. QED
      BY <1>4, <1>7, <2>2, <3>3 DEF line
  <2>3. CASE k # last
    <3>1. Says(file, n + 1, R[k], grp[k])
      BY <1>1, <2>1, SaysLater DEF line
    <3>2. QED
      BY <1>4, <1>7, <2>1, <2>3, <3>1
  <2>4. QED
    BY <2>2, <2>3
<1>9. \A k, l \in 1 .. last : h[k] = h[l] => k = l
  <2>1. ~(n + 1 \in 1 .. n)
    OBVIOUS
  <2>2. \A k \in 1 .. last : k # last => n + 1 \notin h[k]
    BY <1>0, <1>7, <2>1
  <2>3. n + 1 \in h[last]
    BY <1>7
  <2>4. QED
    BY <1>0, <1>7, <2>2, <2>3
<1>10. ASSUME NEW i \in 1 .. n + 1, EndsAgents(file[i]), AgentLines(file, i) # {}
       PROVE  \E k \in 1 .. last : h[k] = AgentLines(file, i)
  <2>1. i # n + 1
    BY <1>1, <1>10 DEF line
  <2>2. i \in 1 .. n
    BY <2>1
  <2>3. PICK k \in 1 .. last : grp[k] = AgentLines(file, i)
    BY <1>0, <1>10, <2>2
  <2>4. k # last
    BY <1>6, <1>10, <2>2, <2>3
  <2>5. QED
    BY <1>7, <2>3, <2>4
<1>11. Naming(file, n + 1)
  BY NamingNext
<1>13. Grouped(file, n + 1, new, h)
  BY <1>2, <1>3, <1>4, <1>5, <1>7, <1>8, <1>9, <1>10, <1>11 DEF Grouped
<1>14. QED
  BY <1>13 DEF new, line

-----------------------------------------------------------------------------
\* A statement under a group goes to the last rule.
LEMMA GroupsGrow ==
    ASSUME NEW file, NEW n \in Nat, NEW acc \in AccT, NEW grp, Grouped(file, n, acc, grp),
           \A i \in 1 .. n + 1 : IsLine(file[i]), EndsAgents(file[n + 1]), acc.rules # <<>>
    PROVE  Grouped(file, n + 1, ReadLine(acc, file[n + 1]), grp)
<1> DEFINE R == acc.rules
           last == Len(R)
           line == file[n + 1]
           new == ReadLine(acc, line)
<1>0. /\ grp \in [1 .. last -> SUBSET (1 .. n)]
      /\ \A k \in 1 .. last : grp[k] # {} /\ Says(file, n, R[k], grp[k])
      /\ \A k, l \in 1 .. last : grp[k] = grp[l] => k = l
      /\ last # 0 => grp[last] = AgentLines(file, n + 1)
      /\ \A i \in 1 .. n : (EndsAgents(file[i]) /\ AgentLines(file, i) # {})
                                => \E k \in 1 .. last : grp[k] = AgentLines(file, i)
  BY DEF Grouped
<1>1. last \in Nat /\ R \in Seq(RuleT) /\ last # 0 /\ last \in 1 .. last
  <2>1. last \in Nat /\ R \in Seq(RuleT) /\ R # <<>>
    BY DEF AccT
  <2> HIDE DEF R
  <2>2. QED
    BY <2>1
<1>2. line.word \in {"allow", "disallow", "delay"} /\ IsLine(line)
  <2>1. n + 1 \in 1 .. n + 1
    OBVIOUS
  <2>2. QED
    BY <2>1 DEF EndsAgents
<1>3. new.rules = [R EXCEPT ![last] = WithStatement(R[last], line)] /\ new.naming = FALSE
  BY <1>2 DEF ReadLine
<1>4. /\ Len(new.rules) = last
      /\ \A k \in 1 .. last : k # last => new.rules[k] = R[k]
      /\ new.rules[last] = WithStatement(R[last], line)
  <2> DEFINE x == WithStatement(R[last], line)
  <2>1. x \in RuleT
    <3>1. R[last] \in RuleT
      BY <1>1
    <3>2. QED
      BY <1>2, <3>1, WithStatementType
  <2>2. new.rules = [R EXCEPT ![last] = x]
    BY <1>3
  <2>3. R \in Seq(RuleT) /\ last \in 1 .. Len(R)
    BY <1>1
  <2> DEFINE rules == [R EXCEPT ![last] = x]
  <2> HIDE DEF new, R, x, last
  <2>4. /\ Len(rules) = Len(R)
        /\ \A k \in 1 .. Len(R) : k # last => rules[k] = R[k]
        /\ rules[last] = x
    BY <2>1, <2>3, ReplaceIs
  <2>5. QED
    BY <2>2, <2>4 DEF x, last
<1>5. grp[last] = AgentLines(file, n + 1)
  BY <1>0, <1>1
<1>6. AgentLines(file, n + 1 + 1) = AgentLines(file, n + 1)
  <2>1. n + 1 + 1 = n + 2
    OBVIOUS
  <2>2. QED
    BY <1>2, <2>1, AgentsKept
<1> HIDE DEF new, line, R, last
<1>7. ASSUME NEW k \in 1 .. last PROVE Says(file, n + 1, new.rules[k], grp[k])
  <2>1. Says(file, n, R[k], grp[k])
    BY <1>0
  <2>2. CASE k = last
    <3> DEFINE rule == R[last]
               g == grp[last]
    <3>1. rule \in RuleT
      BY <1>1 DEF last
    <3>2. Says(file, n, rule, g) /\ g = AgentLines(file, n + 1)
      BY <1>5, <2>1, <2>2
    <3> HIDE DEF rule, g
    <3>3. Says(file, n + 1, WithStatement(rule, file[n + 1]), g)
      BY <3>1, <3>2, SaysStatement
    <3>4. QED
      BY <1>4, <2>2, <3>3 DEF rule, g, line
  <2>3. CASE k # last
    <3>1. AgentLines(file, n + 1) # grp[k]
      BY <1>0, <1>1, <1>5, <2>3
    <3>2. Says(file, n + 1, R[k], grp[k])
      BY <2>1, <3>1, SaysLater
    <3>3. QED
      BY <1>4, <2>3, <3>2
  <2>4. QED
    BY <2>2, <2>3
<1>8. ASSUME NEW i \in 1 .. n + 1, EndsAgents(file[i]), AgentLines(file, i) # {}
      PROVE  \E k \in 1 .. last : grp[k] = AgentLines(file, i)
  <2>1. CASE i = n + 1
    BY <1>1, <1>5, <2>1
  <2>2. CASE i # n + 1
    <3>1. i \in 1 .. n
      BY <2>2
    <3>2. QED
      BY <1>0, <1>8, <3>1
  <2>3. QED
    BY <2>1, <2>2
<1>9. ~Naming(file, n + 1)
  BY NamingNext
<1>10. grp \in [1 .. last -> SUBSET (1 .. n + 1)]
  <2>1. SUBSET (1 .. n) \subseteq SUBSET (1 .. n + 1)
    OBVIOUS
  <2>2. QED
    BY <1>0, <2>1
<1>11. Grouped(file, n + 1, new, grp)
  BY <1>0, <1>1, <1>3, <1>4, <1>5, <1>6, <1>7, <1>8, <1>9, <1>10 DEF Grouped
<1>12. QED
  BY <1>11 DEF new, line

\* A line without a meaning, or a statement before the first agent, changes nothing.
LEMMA GroupsStay ==
    ASSUME NEW file, NEW n \in Nat, NEW acc \in AccT, NEW grp, Grouped(file, n, acc, grp),
           file[n + 1].word # "agent", EndsAgents(file[n + 1]) => acc.rules = <<>>
    PROVE  Grouped(file, n + 1, ReadLine(acc, file[n + 1]), grp)
<1> DEFINE R == acc.rules
           last == Len(R)
<1>0. /\ grp \in [1 .. last -> SUBSET (1 .. n)]
      /\ \A k \in 1 .. last : grp[k] # {} /\ Says(file, n, R[k], grp[k])
      /\ \A k, l \in 1 .. last : grp[k] = grp[l] => k = l
      /\ last = 0 => AgentLines(file, n + 1) = {}
      /\ last # 0 => grp[last] = AgentLines(file, n + 1)
      /\ acc.naming <=> Naming(file, n)
      /\ \A i \in 1 .. n : (EndsAgents(file[i]) /\ AgentLines(file, i) # {})
                                => \E k \in 1 .. last : grp[k] = AgentLines(file, i)
  BY DEF Grouped
<1>1. ReadLine(acc, file[n + 1]) = acc
  BY DEF ReadLine, EndsAgents
<1>2. EndsAgents(file[n + 1]) => last = 0
  OBVIOUS
<1>3. AgentLines(file, n + 1 + 1) = AgentLines(file, n + 1)
  <2>1. n + 1 + 1 = n + 2
    OBVIOUS
  <2>2. QED
    BY <2>1, AgentsKept
<1>4. Naming(file, n + 1) <=> Naming(file, n)
  <2>1. CASE EndsAgents(file[n + 1])
    <3>1. ~Naming(file, n)
      BY <1>0, <1>2, <2>1 DEF Naming
    <3>2. QED
      BY <2>1, <3>1, NamingNext
  <2>2. CASE ~EndsAgents(file[n + 1])
    BY <2>2, NamingNext
  <2>3. QED
    BY <2>1, <2>2
<1>5. ASSUME NEW k \in 1 .. last PROVE Says(file, n + 1, R[k], grp[k])
  <2>1. ~EndsAgents(file[n + 1])
    BY <1>2
  <2>2. Says(file, n, R[k], grp[k])
    BY <1>0
  <2>3. QED
    BY <2>1, <2>2, SaysLater
<1>6. ASSUME NEW i \in 1 .. n + 1, EndsAgents(file[i]), AgentLines(file, i) # {}
      PROVE  \E k \in 1 .. last : grp[k] = AgentLines(file, i)
  <2>1. i # n + 1
    BY <1>0, <1>2, <1>6
  <2>2. i \in 1 .. n
    BY <2>1
  <2>3. QED
    BY <1>0, <1>6, <2>2
<1>7. grp \in [1 .. last -> SUBSET (1 .. n + 1)]
  <2>1. SUBSET (1 .. n) \subseteq SUBSET (1 .. n + 1)
    OBVIOUS
  <2>2. QED
    BY <1>0, <2>1
<1> HIDE DEF last, R
<1>8. Grouped(file, n + 1, acc, grp)
  BY <1>0, <1>3, <1>4, <1>5, <1>6, <1>7 DEF Grouped, last, R
<1>9. QED
  BY <1>1, <1>8

LEMMA ReadLineType ==
    ASSUME NEW acc \in AccT, NEW line, IsLine(line)
    PROVE  ReadLine(acc, line) \in AccT
<1>1. acc.rules \in Seq(RuleT) /\ acc.naming \in BOOLEAN
  BY DEF AccT
<1>2. CASE line.word = "agent" /\ ~acc.naming
  <2> DEFINE rules == Append(acc.rules, NewRule(line.arg))
  <2>1. NewRule(line.arg) \in RuleT
    BY <1>2 DEF IsLine, NewRule, RuleT
  <2>2. rules \in Seq(RuleT)
    BY <1>1, <2>1, AppendIs
  <2>3. ReadLine(acc, line) = [rules |-> rules, naming |-> TRUE]
    BY <1>2 DEF ReadLine
  <2> HIDE DEF rules
  <2>4. QED
    BY <2>2, <2>3 DEF AccT
<1>3. CASE /\ ~(line.word = "agent" /\ ~acc.naming)
           /\ line.word \in {"agent", "allow", "disallow", "delay"} /\ acc.rules # <<>>
  <2> DEFINE R == acc.rules
             last == Len(R)
             x == WithStatement(R[last], line)
             rules == [R EXCEPT ![last] = x]
  <2>1. R \in Seq(RuleT) /\ last \in 1 .. Len(R)
    <3>1. R \in Seq(RuleT) /\ R # <<>>
      BY <1>1, <1>3
    <3> HIDE DEF R
    <3>2. QED
      BY <3>1
  <2>2. x \in RuleT
    <3>1. R[last] \in RuleT
      BY <2>1
    <3>2. QED
      BY <1>3, <3>1, WithStatementType
  <2>3. ReadLine(acc, line) = [rules |-> rules, naming |-> line.word = "agent"]
    BY <1>3 DEF ReadLine
  <2> HIDE DEF R, last, x
  <2>4. rules \in Seq(RuleT)
    BY <2>1, <2>2, ReplaceIs
  <2>5. (line.word = "agent") \in BOOLEAN
    OBVIOUS
  <2> HIDE DEF rules
  <2>6. QED
    BY <2>3, <2>4, <2>5 DEF AccT
<1>4. CASE /\ ~(line.word = "agent" /\ ~acc.naming)
           /\ ~(line.word \in {"agent", "allow", "disallow", "delay"} /\ acc.rules # <<>>)
  BY <1>4 DEF ReadLine
<1>5. QED
  BY <1>2, <1>3, <1>4

After(file) ==
    CHOOSE f : f = [n \in 0 .. Len(file) |->
        IF n = 0 THEN [rules |-> <<>>, naming |-> FALSE] ELSE ReadLine(f[n - 1], file[n])]

LEMMA RulesAfter == \A file : Rules(file) = After(file)[Len(file)].rules
BY DEF Rules, After

\* What the constructor has after each line.
LEMMA AfterIs ==
    ASSUME NEW Lines, NEW file \in Seq(Lines), Readable(file)
    PROVE  /\ After(file)[0] = [rules |-> <<>>, naming |-> FALSE]
           /\ \A n \in 0 .. Len(file) : After(file)[n] \in AccT
           /\ \A n \in 1 .. Len(file) : After(file)[n] = ReadLine(After(file)[n - 1], file[n])
<1> DEFINE N == Len(file)
           S == AccT
           base == [rules |-> <<>>, naming |-> FALSE]
           step == [n \in 1 .. N |-> [acc \in S |-> ReadLine(acc, file[n])]]
<1>1. N \in Nat /\ DOMAIN file = 1 .. N
  OBVIOUS
<1>2. base \in S
  BY DEF AccT
<1>3. step \in Steps(N, S)
  <2>1. ASSUME NEW n \in 1 .. N, NEW acc \in S PROVE ReadLine(acc, file[n]) \in S
    BY <1>1, ReadLineType DEF Readable
  <2> HIDE DEF N, S
  <2>2. ASSUME NEW n \in 1 .. N PROVE [acc \in S |-> ReadLine(acc, file[n])] \in [S -> S]
    BY <2>1
  <2> DEFINE T == [S -> S]
  <2>3. \A n \in 1 .. N : [acc \in S |-> ReadLine(acc, file[n])] \in T
    BY <2>2
  <2> HIDE DEF T
  <2>4. step \in [1 .. N -> T]
    BY <2>3
  <2>5. QED
    BY <2>4 DEF Steps, T
<1>4. PICK f : Leads(N, S, base, step, f)
  <2> HIDE DEF N, S, base, step
  <2>1. QED
    BY <1>1, <1>2, <1>3, Recursion
<1>5. /\ f \in [0 .. N -> S] /\ f[0] = base
      /\ \A n \in 1 .. N : f[n] = step[n][f[n - 1]]
  <2> HIDE DEF N, S, base, step
  <2>1. QED
    BY <1>4 DEF Leads
<1>6. \A n \in 1 .. N : n - 1 \in 0 .. N /\ n \in 0 .. N /\ n # 0
  BY <1>1
<1> HIDE DEF N, S, base
<1>7. ASSUME NEW n \in 1 .. N PROVE f[n] = ReadLine(f[n - 1], file[n])
  <2>1. f[n - 1] \in S
    BY <1>5, <1>6
  <2>2. QED
    BY <1>5, <2>1
<1> HIDE DEF step
<1>8. f = [n \in 0 .. N |-> IF n = 0 THEN base ELSE ReadLine(f[n - 1], file[n])]
  <2>1. \A n \in 0 .. N : n = 0 \/ n \in 1 .. N
    BY <1>1
  <2>2. \A n \in 0 .. N : f[n] = IF n = 0 THEN base ELSE ReadLine(f[n - 1], file[n])
    BY <1>5, <1>7, <2>1
  <2>3. f = [n \in 0 .. N |-> f[n]]
    BY <1>5
  <2>4. QED
    BY <2>2, <2>3
<1>9. After(file) = [n \in 0 .. N |-> IF n = 0 THEN base ELSE ReadLine(After(file)[n - 1], file[n])]
  BY <1>8 DEF After, N, base
<1> DEFINE a == After(file)
<1> HIDE DEF a
<1>10. a = [n \in 0 .. N |-> IF n = 0 THEN base ELSE ReadLine(a[n - 1], file[n])]
  BY <1>9 DEF a
<1>11. a[0] = base
  <2>1. 0 \in 0 .. N
    BY <1>1
  <2>2. QED
    BY <1>10, <2>1
<1>12. \A n \in 1 .. N : a[n] = ReadLine(a[n - 1], file[n])
  BY <1>6, <1>10
<1>13. \A n \in 0 .. N : a[n] \in AccT
  <2> DEFINE D == {n \in 0 .. N : a[n] \in AccT}
  <2>1. 0 \in D
    BY <1>1, <1>2, <1>11 DEF S
  <2>2. ASSUME NEW n \in 1 .. N, n - 1 \in D PROVE n \in D
    BY <1>1, <1>6, <1>12, <2>2, ReadLineType DEF Readable
  <2>3. 0 .. N \subseteq D
    <3> HIDE DEF D
    <3>1. QED
      BY <1>1, <2>1, <2>2, Induction
  <2>4. QED
    BY <2>3
<1>14. QED
  BY <1>11, <1>12, <1>13 DEF a, N, base

\* The rules of a file say what its lines say, group by group.
LEMMA RulesGrouped ==
    ASSUME NEW Lines, NEW file \in Seq(Lines), Readable(file)
    PROVE  \E grp : Grouped(file, Len(file), After(file)[Len(file)], grp)
<1> DEFINE N == Len(file)
           a == After(file)
           D == {n \in 0 .. N : \E grp : Grouped(file, n, a[n], grp)}
<1>1. N \in Nat /\ DOMAIN file = 1 .. N
  OBVIOUS
<1>2. /\ a[0] = [rules |-> <<>>, naming |-> FALSE]
      /\ \A n \in 0 .. N : a[n] \in AccT
      /\ \A n \in 1 .. N : a[n] = ReadLine(a[n - 1], file[n])
  BY AfterIs
<1>3. \A i \in 1 .. N : IsLine(file[i])
  BY <1>1 DEF Readable
<1> HIDE DEF N, a
<1>4. 0 \in D
  <2> DEFINE grp == [k \in 1 .. 0 |-> {}]
  <2>1. Len(a[0].rules) = 0 /\ a[0].naming = FALSE
    BY <1>2
  <2>2. grp \in [1 .. 0 -> SUBSET (1 .. 0)]
    OBVIOUS
  <2>3. AgentLines(file, 0 + 1) = {}
    <3>1. AgentLines(file, 0 + 1) \subseteq 1 .. 0
      BY AgentLinesIs
    <3>2. QED
      BY <3>1
  <2>4. ~Naming(file, 0)
    BY <2>3 DEF Naming
  <2>5. \A k \in 1 .. 0 : FALSE
    OBVIOUS
  <2> HIDE DEF grp
  <2>6. Grouped(file, 0, a[0], grp)
    BY <2>1, <2>2, <2>3, <2>4, <2>5 DEF Grouped
  <2>7. 0 \in 0 .. N
    BY <1>1
  <2>8. QED
    BY <2>6, <2>7
<1>5. ASSUME NEW n \in 1 .. N, n - 1 \in D PROVE n \in D
  <2> DEFINE m == n - 1
             acc == a[n - 1]
  <2>1. m \in Nat /\ m + 1 = n /\ m \in 0 .. N /\ n \in 0 .. N /\ \A i \in 1 .. m + 1 : i \in 1 .. N
    BY <1>1
  <2>2. PICK grp : Grouped(file, m, acc, grp)
    BY <1>5
  <2>3. acc \in AccT /\ \A i \in 1 .. m + 1 : IsLine(file[i])
    BY <1>2, <1>3, <2>1
  <2>4. a[n] = ReadLine(acc, file[m + 1])
    BY <1>2, <2>1
  <2> HIDE DEF m, acc, D
  <2>5. \E h : Grouped(file, m + 1, ReadLine(acc, file[m + 1]), h)
    <3>1. CASE file[m + 1].word = "agent" /\ ~acc.naming
      BY <2>1, <2>2, <2>3, <3>1, GroupsBegin
    <3>2. CASE file[m + 1].word = "agent" /\ acc.naming
      BY <2>1, <2>2, <2>3, <3>2, GroupsJoin
    <3>3. CASE EndsAgents(file[m + 1]) /\ acc.rules # <<>>
      BY <2>1, <2>2, <2>3, <3>3, GroupsGrow
    <3>4. CASE file[m + 1].word # "agent" /\ (EndsAgents(file[m + 1]) => acc.rules = <<>>)
      BY <2>1, <2>2, <2>3, <3>4, GroupsStay
    <3>5. QED
      BY <3>1, <3>2, <3>3, <3>4
  <2>6. \E h : Grouped(file, n, a[n], h)
    BY <2>1, <2>4, <2>5
  <2>7. QED
    BY <2>1, <2>6 DEF D
<1>6. 0 .. N \subseteq D
  <2> HIDE DEF D
  <2>1. QED
    BY <1>1, <1>4, <1>5, Induction
<1>7. N \in D
  <2> HIDE DEF D
  <2>1. QED
    BY <1>1, <1>6
<1>8. QED
  BY <1>7 DEF N, a

-----------------------------------------------------------------------------
(* The directive that decides *)

BestT == [directive : {<<>>} \cup {<<d>> : d \in DirectiveT}, any : BOOLEAN, delay : Nat]

BestAfter(rules, path) ==
    CHOOSE f : f = [k \in 0 .. Len(rules) |->
        IF k = 0 THEN [directive |-> <<>>, any |-> FALSE, delay |-> 1]
        ELSE Better(f[k - 1], rules[k], FirstAgent(rules[k]), FirstMatch(rules[k], path))]

LEMMA FindBest == \A rules, path : FindDirective(rules, path) = BestAfter(rules, path)[Len(rules)]
BY DEF FindDirective, BestAfter

LEMMA FirstMatchIs ==
    ASSUME NEW rule \in RuleT, NEW path
    PROVE  /\ FirstMatch(rule, path) = <<>> <=>
                 \A i \in DOMAIN rule.directives : ~Match(rule.directives[i].wildcard, path)
           /\ FirstMatch(rule, path) # <<>> =>
                 \E i \in DOMAIN rule.directives :
                    /\ Match(rule.directives[i].wildcard, path)
                    /\ FirstMatch(rule, path) = <<rule.directives[i]>>
<1> DEFINE M == {i \in DOMAIN rule.directives : Match(rule.directives[i].wildcard, path)}
<1>1. rule.directives \in Seq(DirectiveT)
  BY DEF RuleT
<1>2. M \subseteq DOMAIN rule.directives
  OBVIOUS
<1>3. FirstMatch(rule, path) = FirstOf(rule.directives, M)
  BY DEF FirstMatch
<1>4. M = {} <=> \A i \in DOMAIN rule.directives : ~Match(rule.directives[i].wildcard, path)
  BY Zenon
<1>5. \A i \in M : i \in DOMAIN rule.directives /\ Match(rule.directives[i].wildcard, path)
  BY Zenon
<1> DEFINE ds == rule.directives
<1> HIDE DEF M, ds
<1>6. /\ FirstOf(ds, M) = <<>> <=> M = {}
      /\ M # {} => Min(M) \in M /\ FirstOf(ds, M) = <<ds[Min(M)]>>
  <2>1. ds \in Seq(DirectiveT) /\ M \subseteq DOMAIN ds
    BY <1>1, <1>2 DEF ds
  <2>2. QED
    BY <2>1, FirstOfIs
<1>7. QED
  BY <1>3, <1>4, <1>5, <1>6, Zenon DEF ds

\* A rule that has a name and a directive for the question.
Counted(rule, path) == FirstAgent(rule) # <<>> /\ FirstMatch(rule, path) # <<>>

Named(rule) == ~MatchesAny(FirstAgent(rule)[1])

LEMMA BetterType ==
    ASSUME NEW best \in BestT, NEW rule \in RuleT, NEW path
    PROVE  Better(best, rule, FirstAgent(rule), FirstMatch(rule, path)) \in BestT
<1> DEFINE agent == FirstAgent(rule)
           found == FirstMatch(rule, path)
           taken == \/ best.directive = <<>>
                    \/ best.any /\ ~MatchesAny(agent[1])
                    \/ /\ best.any = MatchesAny(agent[1])
                       /\ TakesPriority(found[1], best.directive[1])
           directive == IF taken THEN found ELSE best.directive
           any == IF taken THEN MatchesAny(agent[1]) ELSE best.any
           most == Max({best.delay, rule.delay})
<1>1. Better(best, rule, agent, found) =
         IF agent = <<>> \/ found = <<>> THEN best
         ELSE [directive |-> directive, any |-> any, delay |-> most]
  BY DEF Better
<1>2. best.directive \in {<<>>} \cup {<<d>> : d \in DirectiveT} /\ best.any \in BOOLEAN /\ best.delay \in Nat
  BY DEF BestT
<1>3. rule.delay \in Nat /\ rule.directives \in Seq(DirectiveT)
  BY DEF RuleT
<1>4. most \in Nat
  BY <1>2, <1>3, MaxOfTwo
<1>5. found # <<>> => found \in {<<d>> : d \in DirectiveT}
  <2>1. SUFFICES ASSUME found # <<>> PROVE found \in {<<d>> : d \in DirectiveT}
    OBVIOUS
  <2>2. PICK i \in DOMAIN rule.directives : found = <<rule.directives[i]>>
    BY <2>1, FirstMatchIs
  <2>3. rule.directives[i] \in DirectiveT
    BY <1>3
  <2> HIDE DEF found
  <2>4. QED
    BY <2>2, <2>3
<1>6. any \in BOOLEAN
  <2>1. MatchesAny(agent[1]) \in BOOLEAN
    BY DEF MatchesAny
  <2> HIDE DEF taken, agent
  <2>2. QED
    BY <1>2, <2>1
<1> HIDE DEF agent, found, taken, most
<1>7. found # <<>> => directive \in {<<>>} \cup {<<d>> : d \in DirectiveT}
  BY <1>2, <1>5
<1> HIDE DEF directive, any
<1>8. QED
  BY <1>1, <1>4, <1>6, <1>7 DEF BestT, agent, found

\* Of the first k rules: what the best directive is, and the delay.
IsBest(rules, path, k, best) ==
    LET counted == {l \in 1 .. k : Counted(rules[l], path)}
    IN  /\ best.directive = <<>> <=> counted = {}
        /\ counted # {} => \E l \in counted : /\ best.directive = FirstMatch(rules[l], path)
                                              /\ best.any <=> ~Named(rules[l])
        /\ \A l \in counted : Named(rules[l]) => ~best.any
        /\ best.delay \in Nat /\ best.delay >= 1
        /\ \A l \in counted : rules[l].delay <= best.delay
        /\ best.delay = 1 \/ \E l \in counted : rules[l].delay = best.delay

LEMMA BestGrows ==
    ASSUME NEW rules \in Seq(RuleT), NEW path, NEW k \in 1 .. Len(rules), NEW best \in BestT,
           IsBest(rules, path, k - 1, best)
    PROVE  IsBest(rules, path, k, Better(best, rules[k], FirstAgent(rules[k]), FirstMatch(rules[k], path)))
<1> DEFINE agent == FirstAgent(rules[k])
           found == FirstMatch(rules[k], path)
           new == Better(best, rules[k], agent, found)
           before == {l \in 1 .. k - 1 : Counted(rules[l], path)}
           after == {l \in 1 .. k : Counted(rules[l], path)}
<1>1. /\ best.directive = <<>> <=> before = {}
      /\ before # {} => \E l \in before : /\ best.directive = FirstMatch(rules[l], path)
                                          /\ best.any <=> ~Named(rules[l])
      /\ \A l \in before : Named(rules[l]) => ~best.any
      /\ best.delay \in Nat /\ best.delay >= 1
      /\ \A l \in before : rules[l].delay <= best.delay
      /\ best.delay = 1 \/ \E l \in before : rules[l].delay = best.delay
  BY DEF IsBest
<1>2. k \in 1 .. k /\ 1 .. k = (1 .. k - 1) \cup {k}
  OBVIOUS
<1>3. rules[k] \in RuleT /\ rules[k].delay \in Nat /\ \A l \in 1 .. k - 1 : rules[l].delay \in Nat
  <2>1. \A l \in 1 .. k : l \in 1 .. Len(rules)
    OBVIOUS
  <2>2. \A l \in 1 .. k : rules[l] \in RuleT
    BY <2>1
  <2>3. QED
    BY <1>2, <2>2 DEF RuleT
<1>4. best.any \in BOOLEAN
  BY DEF BestT
<1>5. CASE ~Counted(rules[k], path)
  <2>1. new = best
    BY <1>5 DEF Better, Counted
  <2>2. after = before
    BY <1>2, <1>5, Zenon
  <2> HIDE DEF new, before, after
  <2>3. IsBest(rules, path, k, new)
    BY <1>1, <2>1, <2>2 DEF IsBest, after
  <2>4. QED
    BY <2>3 DEF new
<1>6. CASE Counted(rules[k], path)
  <2> DEFINE taken == \/ best.directive = <<>>
                      \/ best.any /\ ~MatchesAny(agent[1])
                      \/ /\ best.any = MatchesAny(agent[1])
                         /\ TakesPriority(found[1], best.directive[1])
  <2>1. agent # <<>> /\ found # <<>>
    BY <1>6 DEF Counted
  <2>2. new = [directive |-> IF taken THEN found ELSE best.directive,
               any |-> IF taken THEN MatchesAny(agent[1]) ELSE best.any,
               delay |-> Max({best.delay, rules[k].delay})]
    BY <2>1 DEF Better
  <2>3. after = before \cup {k}
    BY <1>2, <1>6, Zenon
  <2>4. Named(rules[k]) <=> ~MatchesAny(agent[1])
    BY DEF Named
  <2>5. /\ new.delay \in {best.delay, rules[k].delay} /\ best.delay <= new.delay
        /\ rules[k].delay <= new.delay /\ new.delay \in Nat
    <3>1. new.delay = Max({best.delay, rules[k].delay})
      BY <2>2
    <3> HIDE DEF new
    <3>2. QED
      BY <1>1, <1>3, <3>1, MaxOfTwo
  <2>6. new.directive # <<>> /\ new.directive \in {found, best.directive}
    BY <2>1, <2>2
  <2>7. taken => new.directive = found /\ (new.any <=> ~Named(rules[k]))
    <3>1. taken => new.directive = found /\ new.any = MatchesAny(agent[1])
      BY <2>2
    <3> HIDE DEF new, taken
    <3>2. QED
      BY <2>4, <3>1
  <2>8. ~taken => /\ new.directive = best.directive /\ new.any = best.any
                  /\ best.directive # <<>> /\ (Named(rules[k]) => ~best.any)
    BY <1>4, <2>2, <2>4
  <2>9. taken => (best.directive = <<>> \/ (best.any /\ Named(rules[k])) \/ (best.any = MatchesAny(agent[1])))
    BY <2>4
  <2> HIDE DEF new, before, after, found, agent
  <2>10. \A l \in before : l \in 1 .. k - 1
    BY DEF before
  <2>11. \E l \in after : new.directive = FirstMatch(rules[l], path) /\ (new.any <=> ~Named(rules[l]))
    <3>1. CASE taken
      BY <2>3, <2>7, <3>1 DEF found
    <3>2. CASE ~taken
      <4>1. PICK l \in before : best.directive = FirstMatch(rules[l], path) /\ (best.any <=> ~Named(rules[l]))
        BY <1>1, <2>8, <3>2
      <4>2. QED
        BY <2>3, <2>8, <3>2, <4>1
    <3>3. QED
      BY <3>1, <3>2
  <2>12. ASSUME NEW l \in after, Named(rules[l]) PROVE ~new.any
    <3>1. CASE ~taken
      BY <1>1, <2>3, <2>8, <2>12, <3>1
    <3>2. CASE taken
      <4>1. CASE l = k
        BY <2>7, <2>12, <3>2, <4>1
      <4>2. CASE l \in before
        <5>1. ~best.any /\ best.directive # <<>>
          BY <1>1, <2>12, <4>2
        <5>2. best.any = MatchesAny(agent[1])
          BY <2>9, <3>2, <5>1
        <5>3. Named(rules[k])
          BY <2>4, <5>1, <5>2
        <5>4. QED
          BY <2>7, <3>2, <5>3
      <4>3. QED
        BY <2>3, <4>1, <4>2
    <3>3. QED
      BY <3>1, <3>2
  <2>13. \A l \in after : rules[l].delay <= new.delay
    <3>1. ASSUME NEW l \in before PROVE rules[l].delay <= new.delay
      <4>1. rules[l].delay <= best.delay /\ rules[l].delay \in Nat
        BY <1>1, <1>3, <2>10
      <4>2. QED
        BY <1>1, <2>5, <4>1
    <3>2. QED
      BY <2>3, <2>5, <3>1
  <2>14. new.delay = 1 \/ \E l \in after : rules[l].delay = new.delay
    BY <1>1, <2>3, <2>5
  <2>15. new.delay >= 1
    BY <1>1, <2>5
  <2>16. after # {}
    BY <2>3
  <2>17. IsBest(rules, path, k, new)
    BY <2>5, <2>6, <2>11, <2>12, <2>13, <2>14, <2>15, <2>16 DEF IsBest, after
  <2>18. QED
    BY <2>17 DEF new, agent, found
<1>7. QED
  BY <1>5, <1>6

\* What FindDirective answers.
LEMMA FoundIsBest ==
    ASSUME NEW rules \in Seq(RuleT), NEW path
    PROVE  FindDirective(rules, path) \in BestT /\ IsBest(rules, path, Len(rules), FindDirective(rules, path))
<1> DEFINE N == Len(rules)
           S == BestT
           base == [directive |-> <<>>, any |-> FALSE, delay |-> 1]
           Improved(best, k) == Better(best, rules[k], FirstAgent(rules[k]), FirstMatch(rules[k], path))
           step == [k \in 1 .. N |-> [best \in S |-> Improved(best, k)]]
<1>1. N \in Nat /\ \A k \in 1 .. N : rules[k] \in RuleT
  OBVIOUS
<1>2. base \in S
  BY DEF BestT
<1>3. \A k \in 1 .. N, best \in S : Improved(best, k) \in S
  BY <1>1, BetterType
<1>4. ASSUME NEW k \in 1 .. N, NEW best \in S, IsBest(rules, path, k - 1, best)
      PROVE  IsBest(rules, path, k, Improved(best, k))
  BY <1>4, BestGrows
<1>5. IsBest(rules, path, 0, base)
  <2>1. {l \in 1 .. 0 : Counted(rules[l], path)} = {}
    OBVIOUS
  <2>2. QED
    BY <2>1 DEF IsBest
<1>6. FindDirective(rules, path) = BestAfter(rules, path)[N]
  BY FindBest
<1>7. BestAfter(rules, path) = CHOOSE f : f = [k \in 0 .. N |-> IF k = 0 THEN base ELSE Improved(f[k - 1], k)]
  BY DEF BestAfter
<1> HIDE DEF N, S, base, Improved
<1>8. step \in Steps(N, S)
  <2> DEFINE T == [S -> S]
  <2>1. ASSUME NEW k \in 1 .. N PROVE [best \in S |-> Improved(best, k)] \in T
    BY <1>3
  <2> HIDE DEF T
  <2>2. step \in [1 .. N -> T]
    BY <2>1
  <2>3. QED
    BY <2>2 DEF Steps, T
<1>9. PICK f : Leads(N, S, base, step, f)
  <2> HIDE DEF step
  <2>1. QED
    BY <1>1, <1>2, <1>8, Recursion
<1>10. /\ f \in [0 .. N -> S] /\ f[0] = base
       /\ \A k \in 1 .. N : f[k] = step[k][f[k - 1]]
  <2> HIDE DEF step
  <2>1. QED
    BY <1>9 DEF Leads
<1>11. \A k \in 1 .. N : k - 1 \in 0 .. N /\ k \in 0 .. N /\ k # 0
  BY <1>1
<1>12. ASSUME NEW k \in 1 .. N PROVE f[k] = Improved(f[k - 1], k)
  <2>1. f[k - 1] \in S
    BY <1>10, <1>11
  <2>2. QED
    BY <1>10, <2>1
<1> HIDE DEF step
<1>13. f = [k \in 0 .. N |-> IF k = 0 THEN base ELSE Improved(f[k - 1], k)]
  <2>1. \A k \in 0 .. N : k = 0 \/ k \in 1 .. N
    BY <1>1
  <2>2. \A k \in 0 .. N : f[k] = IF k = 0 THEN base ELSE Improved(f[k - 1], k)
    BY <1>10, <1>12, <2>1
  <2>3. f = [k \in 0 .. N |-> f[k]]
    BY <1>10
  <2>4. QED
    BY <2>2, <2>3
<1> DEFINE a == BestAfter(rules, path)
<1>14. a = [k \in 0 .. N |-> IF k = 0 THEN base ELSE Improved(a[k - 1], k)]
  BY <1>7, <1>13
<1> HIDE DEF a
<1>15. a[0] = base /\ \A k \in 1 .. N : a[k] = Improved(a[k - 1], k)
  <2>1. 0 \in 0 .. N
    BY <1>1
  <2>2. QED
    BY <1>11, <1>14, <2>1
<1> DEFINE D == {k \in 0 .. N : a[k] \in S /\ IsBest(rules, path, k, a[k])}
<1>16. 0 \in D
  BY <1>1, <1>2, <1>5, <1>15
<1>17. ASSUME NEW k \in 1 .. N, k - 1 \in D PROVE k \in D
  BY <1>3, <1>4, <1>11, <1>15, <1>17
<1>18. N \in D
  <2> HIDE DEF D
  <2>1. 0 .. N \subseteq D
    BY <1>1, <1>16, <1>17, Induction
  <2>2. QED
    BY <1>1, <2>1
<1>19. QED
  BY <1>6, <1>18 DEF a, N, S

-----------------------------------------------------------------------------
(* The parser and its promise *)

\* A rule counts for a path just when a directive of its group matches, and the directive
\* it finds is such a one.
LEMMA CountedIs ==
    ASSUME NEW Lines, NEW file \in Seq(Lines), Readable(file), NEW path \in Seq(STRING),
           NEW rule \in RuleT, NEW g, Says(file, Len(file), rule, g)
    PROVE  LET p == Unescape(Record(path))
               mine == {i \in Heeded(file, path) : AgentLines(file, i) = g}
           IN  /\ Counted(rule, p) <=> mine # {}
               /\ Counted(rule, p) =>
                    \E i \in mine : FirstMatch(rule, p) = <<Directive(file[i].word, file[i].arg)>>
               /\ \A i \in mine : Named(rule) <=> ByName(file, i)
<1> DEFINE N == Len(file)
           p == Unescape(Record(path))
           mine == {i \in Heeded(file, path) : AgentLines(file, i) = g}
           under == Under(file, N, g, {"allow", "disallow"})
           dirs == rule.directives
<1>1. N \in Nat /\ DOMAIN file = 1 .. N
  OBVIOUS
<1>2. SaysWho(file, rule.agents, g) /\ SaysWhat(file, N, dirs, g)
  BY DEF Says
<1>3. /\ FirstAgent(rule) = <<>> <=> ~Matched(file, g)
      /\ FirstAgent(rule) # <<>> => (Named(rule) <=> MatchedByName(file, g))
  <2>1. FirstAgent(rule) = FirstOf(rule.agents, Matchers(rule.agents))
    BY DEF FirstAgent, Matchers
  <2> DEFINE first == FirstOf(rule.agents, Matchers(rule.agents))
  <2>2. /\ first = <<>> <=> ~Matched(file, g)
        /\ first # <<>> => (MatchesAny(first[1]) <=> ~MatchedByName(file, g))
    BY <1>2 DEF SaysWho
  <2> HIDE DEF first
  <2>3. FirstAgent(rule) = first
    BY <2>1 DEF first
  <2>4. QED
    BY <2>2, <2>3 DEF Named
<1>4. ASSUME NEW i \in under
      PROVE  /\ file[i].arg \in Seq(STRING) /\ IsDirective(file[i]) /\ i \in DOMAIN file
             /\ AgentLines(file, i) = g
             /\ Match(Wildcard(file[i].arg), p) <=> Covers(Record(file[i].arg), Record(path))
  <2>1. i \in 1 .. N /\ file[i].word \in {"allow", "disallow"} /\ AgentLines(file, i) = g
    BY DEF Under
  <2>2. file[i].arg \in Seq(STRING)
    BY <1>1, <2>1 DEF Readable, IsLine
  <2>3. Wildcard(file[i].arg) = Unescape(Record(file[i].arg)) /\ Record(file[i].arg) \in Seq(STRING)
    BY <2>2, WildcardIs
  <2>4. Record(path) \in Seq(STRING)
    BY WildcardIs
  <2> DEFINE T == STRING
             r == Record(file[i].arg)
             q == Record(path)
  <2>5. r \in Seq(T) /\ q \in Seq(T)
    BY <2>3, <2>4
  <2> HIDE DEF T, r, q
  <2>6. Match(Unescape(r), Unescape(q)) <=> Covers(r, q)
    BY <2>5, MatchIsCovers
  <2>7. Match(Wildcard(file[i].arg), p) <=> Covers(Record(file[i].arg), Record(path))
    BY <2>3, <2>6 DEF r, q
  <2>8. QED
    BY <1>1, <2>1, <2>2, <2>7 DEF IsDirective
<1>5. mine = {i \in under : /\ ~Void(file[i].arg) /\ Matched(file, g)
                            /\ Match(Wildcard(file[i].arg), p)}
  <2>1. ASSUME NEW i \in mine
        PROVE  i \in under /\ ~Void(file[i].arg) /\ Matched(file, g) /\ Match(Wildcard(file[i].arg), p)
    <3>1. /\ i \in DOMAIN file /\ IsDirective(file[i]) /\ ~Void(file[i].arg) /\ Applies(file, i)
          /\ Covers(Record(file[i].arg), Record(path)) /\ AgentLines(file, i) = g
      BY DEF Heeded
    <3>2. i \in under
      BY <1>1, <3>1 DEF Under, IsDirective
    <3>3. Matched(file, g)
      BY <3>1 DEF Applies, Matched
    <3> HIDE DEF p, under, mine
    <3>4. QED
      BY <1>4, <3>1, <3>2, <3>3
  <2>2. ASSUME NEW i \in under, ~Void(file[i].arg), Matched(file, g), Match(Wildcard(file[i].arg), p)
        PROVE  i \in mine
    <3>1. Applies(file, i)
      BY <1>4, <2>2 DEF Applies, Matched
    <3>2. i \in Heeded(file, path)
      BY <1>4, <2>2, <3>1 DEF Heeded
    <3>3. QED
      BY <1>4, <3>2
  <2> HIDE DEF mine, under, p
  <2>3. QED
    BY <2>1, <2>2
<1>6. FirstMatch(rule, p) # <<>> =>
         \E i \in under : /\ ~Void(file[i].arg) /\ Match(Wildcard(file[i].arg), p)
                          /\ FirstMatch(rule, p) = <<Directive(file[i].word, file[i].arg)>>
  <2>1. SUFFICES ASSUME FirstMatch(rule, p) # <<>>
                 PROVE  \E i \in under :
                           /\ ~Void(file[i].arg) /\ Match(Wildcard(file[i].arg), p)
                           /\ FirstMatch(rule, p) = <<Directive(file[i].word, file[i].arg)>>
    OBVIOUS
  <2>2. PICK d \in DOMAIN dirs : Match(dirs[d].wildcard, p) /\ FirstMatch(rule, p) = <<dirs[d]>>
    <3> HIDE DEF p
    <3>1. QED
      BY <2>1, FirstMatchIs
  <2>3. Lists(dirs, dirs[d])
    BY DEF Lists
  <2>4. PICK i \in under : ~Void(file[i].arg) /\ dirs[d] = Directive(file[i].word, file[i].arg)
    BY <1>2, <2>3 DEF SaysWhat
  <2>5. dirs[d].wildcard = Wildcard(file[i].arg)
    BY <2>4 DEF Directive
  <2> HIDE DEF under, p, dirs
  <2>6. QED
    BY <2>2, <2>4, <2>5
<1>7. ASSUME NEW i \in under, ~Void(file[i].arg), Match(Wildcard(file[i].arg), p)
      PROVE  FirstMatch(rule, p) # <<>>
  <2>1. Lists(dirs, Directive(file[i].word, file[i].arg))
    BY <1>2, <1>7 DEF SaysWhat
  <2>2. PICK d \in DOMAIN dirs : dirs[d] = Directive(file[i].word, file[i].arg)
    BY <2>1 DEF Lists
  <2>3. Match(dirs[d].wildcard, p)
    BY <1>7, <2>2 DEF Directive
  <2> HIDE DEF p
  <2>4. QED
    BY <2>2, <2>3, FirstMatchIs
<1> HIDE DEF p, under
<1>8. Counted(rule, p) <=> mine # {}
  <2>1. ASSUME Counted(rule, p) PROVE mine # {}
    BY <1>3, <1>5, <1>6, <2>1 DEF Counted
  <2>2. ASSUME mine # {} PROVE Counted(rule, p)
    BY <1>3, <1>5, <1>7, <2>2 DEF Counted
  <2>3. QED
    BY <2>1, <2>2
<1>9. ASSUME Counted(rule, p)
      PROVE  \E i \in mine : FirstMatch(rule, p) = <<Directive(file[i].word, file[i].arg)>>
  BY <1>3, <1>5, <1>6, <1>9 DEF Counted
<1>10. ASSUME NEW i \in mine PROVE Named(rule) <=> ByName(file, i)
  <2>1. AgentLines(file, i) = g /\ Matched(file, g)
    <3>1. AgentLines(file, i) = g
      OBVIOUS
    <3>2. QED
      BY <1>5, <3>1
  <2>2. ByName(file, i) <=> MatchedByName(file, g)
    BY <2>1 DEF ByName, MatchedByName
  <2>3. QED
    BY <1>3, <2>1, <2>2
<1> HIDE DEF mine
<1>11. QED
  BY <1>8, <1>9, <1>10 DEF p, mine

LEMMA MaxUnique ==
    ASSUME NEW S, S \subseteq Nat, NEW x \in S, \A y \in S : y <= x
    PROVE  Max(S) = x
<1>1. \E z \in S : \A y \in S : z >= y
  OBVIOUS
<1>2. Max(S) \in S /\ \A y \in S : Max(S) >= y
  BY <1>1, Zenon DEF Max
<1>3. Max(S) \in Nat /\ x \in Nat /\ Max(S) >= x /\ Max(S) <= x
  BY <1>2
<1>4. QED
  BY <1>3

LEMMA BestTyped ==
    ASSUME NEW Lines, NEW file \in Seq(Lines), Readable(file), NEW path
    PROVE  FindDirective(Rules(file), path) \in BestT
<1>1. Rules(file) = After(file)[Len(file)].rules
  BY RulesAfter
<1>2. Len(file) \in 0 .. Len(file)
  OBVIOUS
<1>3. After(file)[Len(file)] \in AccT
  BY <1>2, AfterIs
<1>4. Rules(file) \in Seq(RuleT)
  BY <1>1, <1>3 DEF AccT
<1>5. QED
  BY <1>4, FoundIsBest

LEMMA NotEmpty == ASSUME NEW T, NEW s \in Seq(T), Len(s) # 0 PROVE s # <<>>
OBVIOUS

\* Where no bare slash applies, the parser drops just what has no effect.
LEMMA HeededIs ==
    ASSUME NEW Lines, NEW file \in Seq(Lines), Readable(file), NEW path, ~BareSlash(file)
    PROVE  Heeded(file, path) = Matching(file, path)
<1>1. ASSUME NEW i \in DOMAIN file, IsDirective(file[i]), Applies(file, i)
      PROVE  Void(file[i].arg) <=> NoEffect(file[i].arg)
  <2>1. file[i].arg \in Seq(STRING) /\ file[i].arg # <<"/">>
    BY <1>1 DEF Readable, IsLine, IsDirective, BareSlash
  <2> DEFINE arg == file[i].arg
  <2>2. arg \in Seq(STRING) /\ arg # <<"/">>
    BY <2>1
  <2> HIDE DEF arg
  <2>3. CASE arg # <<>> /\ arg[1] = "/" /\ Len(arg) = 1
    <3>1. arg = <<"/">>
      BY <2>2, <2>3
    <3>2. QED
      BY <2>2, <3>1
  <2>4. CASE arg # <<>> /\ arg[1] = "/" /\ Len(arg) # 1
    <3>1. Tail(arg) \in Seq(STRING) /\ Len(Tail(arg)) # 0
      BY <2>2, <2>4
    <3>2. Tail(arg) # <<>>
      BY <3>1, NotEmpty
    <3>3. QED
      BY <2>4, <3>2 DEF Void, Record, NoEffect, arg
  <2>5. CASE ~(arg # <<>> /\ arg[1] = "/")
    BY <2>5 DEF Void, Record, NoEffect, arg
  <2>6. QED
    BY <2>3, <2>4, <2>5
<1>2. QED
  BY <1>1 DEF Heeded, Matching

\* FindDirective, of the rules of a file, in terms of the lines.
LEMMA BestIs ==
    ASSUME NEW Lines, NEW file \in Seq(Lines), Readable(file), NEW path \in Seq(STRING), Whole(path),
           ~BareSlash(file)
    PROVE  LET best == FindDirective(Rules(file), UrlDecode(WithoutSlash(path)))
           IN  /\ best \in BestT
               /\ best.directive = <<>> => Matching(file, path) = {}
               /\ best.directive # <<>> => best.directive[1].type \in Verdicts(file, path)
               /\ best.delay = Delay(file, path)
<1> DEFINE N == Len(file)
           acc == After(file)[N]
           R == acc.rules
           p == Unescape(Record(path))
           best == FindDirective(R, p)
           matching == Heeded(file, path)
<1>0. matching = Matching(file, path)
  BY HeededIs
<1>1. UrlDecode(WithoutSlash(path)) = p
  <2>1. WithoutSlash(path) = Record(path)
    BY DEF WithoutSlash, Record
  <2>2. QED
    BY <2>1 DEF UrlDecode, Whole
<1>2. Rules(file) = R
  BY RulesAfter
<1>3. N \in Nat /\ DOMAIN file = 1 .. N /\ acc \in AccT
  <2>1. N \in Nat /\ DOMAIN file = 1 .. N /\ N \in 0 .. N
    OBVIOUS
  <2>2. QED
    BY <2>1, AfterIs
<1>4. R \in Seq(RuleT) /\ Len(R) \in Nat /\ \A l \in 1 .. Len(R) : R[l] \in RuleT
  <2>1. R \in Seq(RuleT)
    BY <1>3 DEF AccT
  <2> HIDE DEF R
  <2>2. QED
    BY <2>1
<1>5. PICK grp : Grouped(file, N, acc, grp)
  BY RulesGrouped
<1>6. /\ \A l \in 1 .. Len(R) : Says(file, N, R[l], grp[l])
      /\ \A i \in 1 .. N : (EndsAgents(file[i]) /\ AgentLines(file, i) # {})
                                => \E l \in 1 .. Len(R) : grp[l] = AgentLines(file, i)
  BY <1>5 DEF Grouped
<1> DEFINE mine(l) == {i \in matching : AgentLines(file, i) = grp[l]}
<1>7. ASSUME NEW l \in 1 .. Len(R)
      PROVE  /\ Counted(R[l], p) <=> mine(l) # {}
             /\ Counted(R[l], p) =>
                  \E i \in mine(l) : FirstMatch(R[l], p) = <<Directive(file[i].word, file[i].arg)>>
             /\ \A i \in mine(l) : Named(R[l]) <=> ByName(file, i)
  <2> DEFINE rule == R[l]
             g == grp[l]
  <2>1. rule \in RuleT /\ Says(file, Len(file), rule, g)
    BY <1>4, <1>6
  <2> HIDE DEF rule, g
  <2>2. LET mg == {i \in Heeded(file, path) : AgentLines(file, i) = g}
        IN  /\ Counted(rule, p) <=> mg # {}
            /\ Counted(rule, p) =>
                 \E i \in mg : FirstMatch(rule, p) = <<Directive(file[i].word, file[i].arg)>>
            /\ \A i \in mg : Named(rule) <=> ByName(file, i)
    BY <2>1, CountedIs
  <2>3. QED
    BY <2>2 DEF rule, g
<1>8. \A i \in matching : i \in 1 .. N /\ \E l \in 1 .. Len(R) : i \in mine(l)
  <2>1. SUFFICES ASSUME NEW i \in matching
                 PROVE  i \in 1 .. N /\ \E l \in 1 .. Len(R) : i \in mine(l)
    OBVIOUS
  <2>2. i \in 1 .. N /\ IsDirective(file[i]) /\ Applies(file, i)
    BY <1>3 DEF Heeded
  <2>3. EndsAgents(file[i]) /\ AgentLines(file, i) # {}
    BY <2>2 DEF EndsAgents, IsDirective, Applies
  <2>4. PICK l \in 1 .. Len(R) : grp[l] = AgentLines(file, i)
    BY <1>6, <2>2, <2>3
  <2>5. i \in mine(l)
    BY <2>4
  <2>6. QED
    BY <2>2, <2>5
<1>9. best \in BestT /\ IsBest(R, p, Len(R), best)
  BY <1>4, FoundIsBest
<1> DEFINE counted == {l \in 1 .. Len(R) : Counted(R[l], p)}
<1>10. /\ best.directive = <<>> <=> counted = {}
       /\ counted # {} => \E l \in counted : /\ best.directive = FirstMatch(R[l], p)
                                             /\ best.any <=> ~Named(R[l])
       /\ \A l \in counted : Named(R[l]) => ~best.any
       /\ best.delay \in Nat /\ best.delay >= 1
       /\ \A l \in counted : R[l].delay <= best.delay
       /\ best.delay = 1 \/ \E l \in counted : R[l].delay = best.delay
  BY <1>9 DEF IsBest
<1>11. /\ \A l \in counted : l \in 1 .. Len(R) /\ mine(l) # {}
       /\ \A l \in 1 .. Len(R) : mine(l) # {} => l \in counted
  BY <1>7
<1> HIDE DEF N, acc, R, p, best, counted
<1>12. best.directive = <<>> => matching = {}
  BY <1>8, <1>10, <1>11
<1>13. ASSUME best.directive # <<>> PROVE best.directive[1].type \in Verdicts(file, path)
  <2>1. PICK l \in counted : best.directive = FirstMatch(R[l], p) /\ (best.any <=> ~Named(R[l]))
    BY <1>10, <1>13
  <2>2. l \in 1 .. Len(R) /\ Counted(R[l], p)
    BY <1>7, <1>11
  <2>3. PICK i \in mine(l) : FirstMatch(R[l], p) = <<Directive(file[i].word, file[i].arg)>>
    BY <1>7, <2>2
  <2>4. best.directive[1].type = file[i].word
    BY <2>1, <2>3 DEF Directive
  <2>5. i \in matching
    OBVIOUS
  <2>6. ASSUME NEW j \in matching, ByName(file, j) PROVE ByName(file, i)
    <3>1. PICK k \in 1 .. Len(R) : j \in mine(k)
      BY <1>8
    <3>2. k \in counted /\ Named(R[k])
      BY <1>7, <1>11, <2>6, <3>1
    <3>3. ~best.any
      BY <1>10, <3>2
    <3>4. Named(R[l])
      BY <2>1, <3>3
    <3>5. QED
      BY <1>7, <2>2, <3>4
  <2>7. i \in Deciding(file, path)
    <3> DEFINE named == {j \in matching : ByName(file, j)}
    <3>1. Deciding(file, path) = IF named = {} THEN matching ELSE named
      BY <1>0 DEF Deciding
    <3>2. named # {} => i \in named
      BY <2>5, <2>6
    <3> HIDE DEF named, matching
    <3>3. QED
      BY <2>5, <3>1, <3>2
  <2>8. QED
    BY <2>4, <2>7 DEF Verdicts
<1>14. best.delay = Delay(file, path)
  <2> DEFINE lines == {n \in DOMAIN file :
                        /\ file[n].word = "delay"
                        /\ \E i \in matching : AgentLines(file, i) = AgentLines(file, n)}
             args == {file[k].arg : k \in lines}
             S == {1} \cup args
  <2>1. Delay(file, path) = Max(S)
    BY <1>0 DEF Delay
  <2>2. ASSUME NEW k \in lines PROVE file[k].arg \in Nat /\ file[k].arg <= best.delay
    <3>1. k \in 1 .. N /\ file[k].word = "delay"
      BY <1>3
    <3>2. file[k].arg \in Nat
      BY <1>3, <3>1 DEF Readable, IsLine
    <3>3. PICK i \in matching : AgentLines(file, i) = AgentLines(file, k)
      OBVIOUS
    <3>4. PICK l \in 1 .. Len(R) : i \in mine(l)
      BY <1>8
    <3>5. l \in counted /\ AgentLines(file, k) = grp[l]
      BY <1>11, <3>3, <3>4
    <3>6. k \in Under(file, N, grp[l], {"delay"})
      BY <3>1, <3>5 DEF Under
    <3>7. file[k].arg <= R[l].delay
      <4>1. SaysWhen(file, N, R[l].delay, grp[l])
        BY <1>6 DEF Says
      <4>2. QED
        BY <3>6, <4>1 DEF SaysWhen
    <3>8. R[l].delay \in Nat /\ R[l].delay <= best.delay
      BY <1>4, <1>10, <3>5 DEF RuleT
    <3>9. QED
      BY <1>10, <3>2, <3>7, <3>8
  <2>3. best.delay \in S
    <3>1. CASE best.delay = 1
      BY <3>1
    <3>2. CASE best.delay # 1
      <4>1. PICK l \in counted : R[l].delay = best.delay
        BY <1>10, <3>2
      <4>2. R[l].delay # 0 /\ l \in 1 .. Len(R)
        BY <1>10, <1>11, <4>1
      <4>3. SaysWhen(file, N, R[l].delay, grp[l])
        BY <1>6, <4>2 DEF Says
      <4>4. PICK k \in Under(file, N, grp[l], {"delay"}) : file[k].arg = R[l].delay
        BY <4>2, <4>3 DEF SaysWhen
      <4>5. k \in 1 .. N /\ file[k].word = "delay" /\ AgentLines(file, k) = grp[l]
        BY DEF Under
      <4>6. PICK i \in mine(l) : TRUE
        BY <1>11
      <4>7. i \in matching /\ AgentLines(file, i) = AgentLines(file, k)
        BY <4>5
      <4>8. k \in lines
        BY <1>3, <4>5, <4>7
      <4> HIDE DEF lines
      <4>9. QED
        BY <4>1, <4>4, <4>8
    <3>3. QED
      BY <3>1, <3>2
  <2>4. S \subseteq Nat /\ \A y \in S : y <= best.delay
    <3> HIDE DEF lines
    <3>1. QED
      BY <1>10, <2>2
  <2> HIDE DEF S
  <2>5. QED
    BY <2>1, <2>3, <2>4, MaxUnique
<1> HIDE DEF matching
<1>15. FindDirective(Rules(file), UrlDecode(WithoutSlash(path))) = best
  BY <1>1, <1>2 DEF best
<1>16. QED
  BY <1>0, <1>9, <1>12, <1>13, <1>14, <1>15

\* RobotsTxt, of any path it does not cut short and any file in which no line with a bare
\* slash ("Disallow: /") applies to the crawler: what the header says is forbidden is
\* refused, what it says is open is allowed, and the delay is the one it says.  Whatever
\* the file, the delay is a number of seconds.  (Where such a line applies, the header says
\* that it covers every path, and the parser drops it.)
THEOREM ParserIsRight ==
    ASSUME NEW Lines, NEW file \in Seq(Lines), Readable(file), NEW path \in Seq(STRING), Whole(path)
    PROVE  /\ ~BareSlash(file) =>
                /\ PathAllowed(file, path) => ~Forbidden(file, path)
                /\ ~PathAllowed(file, path) => ~Open(file, path)
                /\ CrawlDelay(file, path) = Delay(file, path)
           /\ CrawlDelay(file, path) \in Nat
<1> DEFINE best == FindDirective(Rules(file), UrlDecode(WithoutSlash(path)))
<1>0. best \in BestT
  BY BestTyped
<1>1. ASSUME ~BareSlash(file)
      PROVE  /\ best.directive = <<>> => Matching(file, path) = {}
             /\ best.directive # <<>> => best.directive[1].type \in Verdicts(file, path)
             /\ best.delay = Delay(file, path)
  BY <1>1, BestIs
<1>2. PathAllowed(file, path) <=> best.directive = <<>> \/ best.directive[1].type = "allow"
  BY DEF PathAllowed
<1>3. CrawlDelay(file, path) = best.delay
  BY DEF CrawlDelay
<1> HIDE DEF best
<1>4. best.delay \in Nat /\ best.directive \in {<<>>} \cup {<<d>> : d \in DirectiveT}
  BY <1>0 DEF BestT
<1>5. best.directive # <<>> => best.directive[1].type \in {"allow", "disallow"}
  BY <1>4 DEF DirectiveT
<1>6. ASSUME ~BareSlash(file), PathAllowed(file, path), Forbidden(file, path) PROVE FALSE
  <2>1. Verdicts(file, path) = {"disallow"}
    BY <1>6 DEF Forbidden
  <2>2. CASE best.directive = <<>>
    <3>1. Deciding(file, path) = {}
      BY <1>1, <1>6, <2>2 DEF Deciding
    <3>2. Verdicts(file, path) = {}
      BY <3>1 DEF Verdicts
    <3>3. QED
      BY <2>1, <3>2
  <2>3. CASE best.directive # <<>>
    BY <1>1, <1>2, <1>6, <2>1, <2>3
  <2>4. QED
    BY <2>2, <2>3
<1>7. ASSUME ~BareSlash(file), ~PathAllowed(file, path), Open(file, path) PROVE FALSE
  BY <1>1, <1>2, <1>5, <1>7 DEF Open
<1>8. QED
  BY <1>1, <1>3, <1>4, <1>6, <1>7

-----------------------------------------------------------------------------
(* The crawler and the parser *)

\* The first lines of a file are lines.
LEMMA FirstLines ==
    ASSUME NEW L, NEW file \in Seq(L), Readable(file), NEW n \in 0 .. Len(file) - 1
    PROVE  SubSeq(file, 1, n) \in Seq(L) /\ Readable(SubSeq(file, 1, n))
<1> DEFINE first == SubSeq(file, 1, n)
<1>1. n \in Nat /\ DOMAIN file = 1 .. Len(file) /\ \A i \in 1 .. n : i \in 1 .. Len(file) /\ file[i] \in L
  OBVIOUS
<1>2. first \in Seq(L) /\ DOMAIN first = 1 .. n /\ \A i \in 1 .. n : first[i] = file[i]
  BY <1>1
<1> HIDE DEF first
<1>3. Readable(first)
  BY <1>1, <1>2 DEF Readable
<1>4. QED
  BY <1>2, <1>3 DEF first

\* The parser keeps the promise of its header, for any files and whatever of them comes in,
\* except for what it says of texts in which a bare slash applies (KeepsPromise).
THEOREM ParserKeepsIt == Legible(Worlds) /\ AsksParser(Worlds) => ParserKeepsPromise(Worlds)
<1> SUFFICES ASSUME Legible(Worlds), AsksParser(Worlds), NEW q \in Questions(Worlds)
             PROVE  KeepsPromise(q[1], q[2])
  BY DEF ParserKeepsPromise
<1>1. PICK w \in Worlds : \E u \in Ruled(w) : \E text \in Incoming(w, OriginOf[u]) :
                q = <<text, w.path[u]>>
  BY QuestionOf, Zenon
<1>2. PICK u \in Ruled(w) : \E text \in Incoming(w, OriginOf[u]) : q = <<text, w.path[u]>>
  BY <1>1, Zenon
<1>3. PICK text \in Incoming(w, OriginOf[u]) : q = <<text, w.path[u]>>
  BY <1>2, Zenon
<1>4. q[1] = text /\ q[2] = w.path[u]
  BY <1>3
<1> DEFINE file == w.file[OriginOf[u]]
           path == w.path[u]
           L == {file[i] : i \in DOMAIN file}
<1>5. file \in Seq(L) /\ Readable(file) /\ path \in Seq(STRING) /\ Whole(path)
  BY DEF Legible
<1>6. Allows(text, path) = PathAllowed(text, path) /\ DelayOf(text, path) = CrawlDelay(text, path)
  BY <1>4 DEF AsksParser
<1>7. text = file \/ \E n \in 0 .. Len(file) - 1 : text = SubSeq(file, 1, n)
  BY DEF Incoming
<1> HIDE DEF file, path, L
<1>8. text \in Seq(L) /\ Readable(text)
  BY <1>5, <1>7, FirstLines
<1>9. /\ ~BareSlash(text) =>
            /\ PathAllowed(text, path) => ~Forbidden(text, path)
            /\ ~PathAllowed(text, path) => ~Open(text, path)
            /\ CrawlDelay(text, path) = Delay(text, path)
      /\ CrawlDelay(text, path) \in Nat
  BY <1>5, <1>8, ParserIsRight
<1>10. KeepsPromise(text, path)
  BY <1>6, <1>9 DEF KeepsPromise
<1>11. QED
  BY <1>4, <1>10 DEF path

\* The crawler follows the rules: before it is stopped it asks for no page without a
\* permission; and of a site whose robots.txt has no bare slash ("Disallow: /", "Allow: /")
\* that applies to the crawler, it asks for no page that robots.txt forbids by the letter
\* of the header, and refuses none that robots.txt has nothing against.
THEOREM CrawlerFollowsRules == Legible(Worlds) /\ AsksParser(Worlds) => (Spec => []RulesFollowed)
BY ParserKeepsIt, PoliteParserPoliteCrawler

\* And it keeps the delay of such a site.
THEOREM CrawlerKeepsDelay == Legible(Worlds) /\ AsksParser(Worlds) => (Spec => DelayKept)
BY ParserKeepsIt, PoliteParserKeepsDelay
=============================================================================
