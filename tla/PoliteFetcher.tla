--------------------------- MODULE PoliteFetcher ---------------------------
(***************************************************************************)
(* Fetcher with the parser of RobotsTxt for Allows and DelayOf, held       *)
(* against what RobotsPromise reads in the lines of the file.              *)
(***************************************************************************)
EXTENDS Fetcher, RobotsTxt, RobotsPromise

\* The text of robots.txt that the origin of u was judged by.
Text(u) == cache[OriginOf[u]].text

Judged(u) ==
    OriginOf[u] \in DOMAIN cache /\ cache[OriginOf[u]].status = "FETCHED"

\* By a text, that is, in which a line such as "Disallow: /" applies to the crawler: by
\* the header it covers every path, and the parser drops it.  The properties below say
\* nothing of such sites: the crawler asks for pages there that the header forbids.
SlashDropped(u) == Judged(u) /\ BareSlash(Text(u))

\* A page is asked for only if robots.txt, as far as it came in, does not forbid it
\* by the letter of the parser's header, or after crawling was stopped; and a page
\* is refused only if robots.txt has something against it.  Not so where the parser
\* drops a bare slash.  (From the lines of the file through groups, sorting, matching
\* and priorities to the request, whichever thread fetched the file.)
RulesFollowed ==
    /\ \A t \in Threads : pc[t] = "page" /\ goal[t] = "page" =>
        /\ granted[t] \/ stop
        /\ granted[t] /\ Judged(url[t]) /\ ~SlashDropped(url[t])
              => ~Forbidden(Text(url[t]), Path(t))
    /\ \A u \in refused :
        Judged(u) /\ (~SlashDropped(u) => ~Open(Text(u), world.path[u]))

\* Between two permissions for one origin lies the crawl delay that robots.txt names
\* for the later one, except for the thread that fetched the file, and where the parser
\* drops a bare slash.  (Each thread copies the entry, releases the mutex to work out
\* the delay, and looks at the time again: two threads that have read the same time must
\* not both pass.)
DelayKept ==
    [][\A t \in Threads :
        pc[t] = "stamp" /\ pc'[t] = "page" /\ ~flag[t] /\ ~SlashDropped(url[t]) =>
            since[Here(t)] >= IF Judged(url[t]) THEN Delay(Text(url[t]), Path(t)) ELSE 1]_vars

\* What may come in of the robots.txt of an origin: all of it, or the first lines.
Incoming(w, o) ==
    {w.file[o]} \cup {SubSeq(w.file[o], 1, n) : n \in 0 .. Len(w.file[o]) - 1}

\* The URLs of sites with a robots.txt, and the texts and paths that the parser may be
\* asked about.
Ruled(w) == {u \in Urls : w.file[OriginOf[u]] # NoFile}

Questions(worlds) ==
    UNION {UNION {Incoming(w, OriginOf[u]) \X {w.path[u]} : u \in Ruled(w)} : w \in worlds}

\* The delay is in whole seconds, and where no bare slash is dropped the parser allows
\* nothing that is forbidden, reports the delay, and refuses nothing that is open.
KeepsPromise(text, path) ==
    /\ DelayOf(text, path) \in Nat
    /\ ~BareSlash(text) =>
          IF Allows(text, path)
          THEN ~Forbidden(text, path) /\ DelayOf(text, path) = Delay(text, path)
          ELSE ~Open(text, path)

ParserKeepsPromise(worlds) == \A q \in Questions(worlds) : KeepsPromise(q[1], q[2])

-----------------------------------------------------------------------------
(* What the parser is asked *)

\* What a line may hold.
IsLine(l) ==
    /\ l.word = "agent" => l.arg \in STRING
    /\ l.word \in {"allow", "disallow"} => l.arg \in Seq(STRING)
    /\ l.word = "delay" => l.arg \in Nat

Readable(file) == \A i \in DOMAIN file : IsLine(file[i])

\* A path that the decoder does not cut short.
Whole(path) == WithoutCutEscape(WithoutSlash(path)) = WithoutSlash(path)

\* The files of the sites are sequences of lines, and the paths are whole.
Legible(worlds) ==
    \A w \in worlds : \A u \in Ruled(w) :
        LET file == w.file[OriginOf[u]]
        IN  /\ file \in Seq({file[i] : i \in DOMAIN file}) /\ Readable(file)
            /\ w.path[u] \in Seq(STRING) /\ Whole(w.path[u])

\* The cache asks the parser.
AsksParser(worlds) ==
    \A q \in Questions(worlds) :
        /\ Allows(q[1], q[2]) = PathAllowed(q[1], q[2])
        /\ DelayOf(q[1], q[2]) = CrawlDelay(q[1], q[2])
=============================================================================
