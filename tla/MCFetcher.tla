----------------------------- MODULE MCFetcher -----------------------------
(***************************************************************************)
(* Small instances of Fetcher: four worlds in which threads meet, and many *)
(* in which one thread asks for one page under one robots.txt each.        *)
(***************************************************************************)
EXTENDS PoliteFetcher, TLC

CONSTANTS t1, t2, t3    \* threads

\* Two pages of one site, and two of another that redirect.
MCUrls == {"a1", "a2", "b1", "b2"}
MCOrigins == {"a", "b"}
MCOriginOf == [u \in MCUrls |-> IF u \in {"a1", "a2"} THEN "a" ELSE "b"]

Agent(name) == [word |-> "agent", arg |-> name]
Disallow(path) == [word |-> "disallow", arg |-> path]
Allow(path) == [word |-> "allow", arg |-> path]
CrawlDelayOf(n) == [word |-> "delay", arg |-> n]
Other == [word |-> "other", arg |-> ""]

\* Page a1 may be had every two seconds and a2 not at all.  The lines for any
\* agent say the contrary.
Busy ==
    <<Agent("*"), Disallow(<<"/", "x">>), Other, Agent("own"), CrawlDelayOf(2),
      Allow(<<"/", "x">>), Disallow(<<"/", "y">>)>>

Paths(a1, a2) == [u \in MCUrls |-> CASE u = "a1" -> a1 [] u = "a2" -> a2 [] OTHER -> <<>>]

Often(a1, a2, b1) ==
    [u \in MCUrls |-> CASE u = "a1" -> a1 [] u = "a2" -> a2 [] u = "b1" -> b1 [] OTHER -> 0]

Plain == [u \in MCUrls |-> "page"]

\* b1 and b2 redirect to each other.
Circle ==
    [u \in MCUrls |-> CASE u = "b1" -> "b2" [] u = "b2" -> "b1" [] OTHER -> "page"]

\* b1 redirects to b2, which redirects to a1.
Detour ==
    [u \in MCUrls |-> CASE u = "b1" -> "b2" [] u = "b2" -> "a1" [] u = "a2" -> "nothing"
                        [] OTHER -> "page"]

Files(a) == [o \in MCOrigins |-> IF o = "a" THEN a ELSE NoFile]

Meeting(crew, often, answer, stops, failures) ==
    [file |-> Files(Busy), path |-> Paths(<<"x">>, <<"y">>), answer |-> answer,
     todo |-> often, crew |-> crew, stops |-> stops, faults |-> failures]

\* Two threads on one site, on two with redirects from one to the other, on one
\* with redirects in a circle; three threads and a resolver that fails thrice.
Meetings ==
    {Meeting({t1, t2}, Often(2, 1, 0), Detour, TRUE, 1),
     Meeting({t1, t2}, Often(1, 0, 1), Detour, TRUE, 2),
     Meeting({t1, t2}, Often(0, 0, 2), Circle, FALSE, 1),
     Meeting({t1, t2, t3}, Often(0, 0, 3), Plain, FALSE, 3)}

\* One thread asks for a1, some number of times.
Asking(file, path, times) ==
    [file |-> Files(file), path |-> Paths(path, <<>>), answer |-> Plain,
     todo |-> Often(times, 0, 0), crew |-> {t1}, stops |-> FALSE, faults |-> 0]

\* All patterns of up to three symbols against all paths of up to two.
Patterns == BoundedSeq({"x", "/", "*", "$", "%78", "%2f"}, 3)
ShortPaths == BoundedSeq({"x", "y", "/", "%78", "%2f"}, 2)
Against(pattern) == <<Agent("own"), Disallow(pattern)>>
Matchings == {Asking(Against(pattern), path, 1) : pattern \in Patterns, path \in ShortPaths}

\* Files of up to five of these lines, which begin with an agent or with what is
\* skipped before the first.  With a delay in it the page is asked for twice.
Lines ==
    {Agent("*"), Agent("own"), Agent("else"), Allow(<<"x">>), Disallow(<<"/", "x">>),
     CrawlDelayOf(2)}
Groups ==
    {<<first>> \o rest : first \in {Agent("*"), Agent("own")}, rest \in BoundedSeq(Lines, 4)}
        \cup {<<Disallow(<<"/", "x">>)>> \o rest : rest \in BoundedSeq(Lines, 2)}
Groupings ==
    {Asking(file, <<"x">>, IF Contains(file, CrawlDelayOf(2)) THEN 2 ELSE 1) : file \in Groups}

MCWorlds == Meetings \cup Matchings \cup Groupings

\* What the parser says, of each text that may come in and each path asked for.
Said(Answer(_, _)) ==
    LET of(texts, paths) == [text \in texts |-> [path \in paths |-> Answer(text, path)]]
    IN  of({SubSeq(Busy, 1, n) : n \in 1 .. Len(Busy)}, {<<"x">>, <<"y">>, <<>>})
            @@ of({<<>>, <<Agent("own")>>}, ShortPaths)
            @@ of({Against(pattern) : pattern \in Patterns}, ShortPaths)
            @@ of(Groups, {<<"x">>, <<>>})
SaidAllows == Said(PathAllowed)
SaidDelay == Said(CrawlDelay)
MCAllows(text, path) == SaidAllows[text][path]
MCDelayOf(text, path) == SaidDelay[text][path]

\* The hypotheses of the theorems of FetcherProofs, and the one that they give, on
\* this instance.
ASSUME InstanceAssumption == Legible(Worlds) /\ AsksParser(Worlds) /\ ParserKeepsPromise(Worlds)
=============================================================================
