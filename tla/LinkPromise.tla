---------------------------- MODULE LinkPromise ----------------------------
(***************************************************************************)
(* What the distribution of links promises                                 *)
(* (src/src/crawler/link_distributor.h and worker_thread.cpp): a link found*)
(* on a page comes into the frontier of the machine that owns it, of no    *)
(* other, and once.  One that belongs to another machine may wait for ever *)
(* for company; it is lost only with all the links that travel with it, and*)
(* only when a machine or a connection fails.                              *)
(***************************************************************************)
EXTENDS Naturals, FiniteSets

CONSTANTS
    Machines,
    Links,      \* the links on the pages crawled, each with its place
    FoundOn,    \* FoundOn[l]: the machine that crawls the page l is on
    Owner,      \* Owner[l]: the machine whose frontier l belongs to
    BatchSize   \* URL_BATCH_SIZE: that many links do not travel yet

VARIABLES
    place,      \* of each link: "new", "waiting", "kept" or "lost"
    down,       \* machines whose crawler has ended
    failures    \* failures so far

vars == <<place, down, failures>>

Place(ls, where) == place' = [l \in Links |-> IF l \in ls THEN where ELSE place[l]]

Waiting(m, p) == {l \in Links : place[l] = "waiting" /\ FoundOn[l] = m /\ Owner[l] = p}

Find(l) ==
    /\ place[l] = "new"
    /\ FoundOn[l] \notin down
    /\ Place({l}, IF Owner[l] = FoundOn[l] THEN "kept" ELSE "waiting")
    /\ UNCHANGED <<down, failures>>

Keep(l) ==
    /\ place[l] = "waiting"
    /\ Owner[l] \notin down
    /\ Place({l}, "kept")
    /\ UNCHANGED <<down, failures>>

\* A failure between m and p, or p has failed before.
Lose(m, p) ==
    /\ \E ls \in SUBSET Waiting(m, p) :
        /\ Cardinality(ls) > BatchSize
        /\ Place(ls, "lost")
    /\ failures' = failures + 1 \/ (p \in down /\ UNCHANGED failures)
    /\ UNCHANGED down

\* With a machine goes any part of what it was to send or to take.
Crash(m) ==
    /\ m \notin down
    /\ down' = down \cup {m}
    /\ failures' = failures + 1
    /\ \E ls \in SUBSET UNION {Waiting(m, p) \cup Waiting(p, m) : p \in Machines} :
           Place(ls, "lost")

Init ==
    /\ place = [l \in Links |-> "new"]
    /\ down = {}
    /\ failures = 0

Next ==
    \/ \E l \in Links : Find(l) \/ Keep(l)
    \/ \E m, p \in Machines : Lose(m, p)
    \/ \E m \in Machines : Crash(m)

Spec == Init /\ [][Next]_vars
=============================================================================
