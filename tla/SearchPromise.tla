--------------------------- MODULE SearchPromise ---------------------------
(***************************************************************************)
(* What one distributed search promises                                    *)
(* (src/engine/query_distributor.hpp): it collects what the shards stream, *)
(* it may answer only on one of the three exit paths its header names, and *)
(* the answer is the best of what it has collected by then.                *)
(***************************************************************************)
EXTENDS Naturals, Sequences, FiniteSets

CONSTANTS
    Shards,    \* the index shards
    Streams,   \* Streams[s]: the results shard s has for the query, in order
    Needed,    \* results_needed
    Good,      \* the scores at or above good_threshold
    NoAnswer

VARIABLES
    got,       \* how many of its results each shard has delivered
    ended,     \* shards whose stream came to its end, or broke off
    expired,   \* the deadline has passed
    answer

vars == <<got, ended, expired, answer>>

Collected == UNION {{Streams[s][i] : i \in 1 .. got[s]} : s \in Shards}

\* The good results delivered so far, a page that two shards have counted twice.
GoodDelivered ==
    {d \in UNION {{s} \X (1 .. got[s]) : s \in Shards} : Streams[d[1]][d[2]].score \in Good}

\* The ways out of the search: enough good results, every stream at its end, or the
\* deadline.
MayAnswer ==
    \/ Cardinality(GoodDelivered) >= Needed
    \/ ended = Shards
    \/ expired

UrlsIn(results) == {r.url : r \in results}

\* The best of the collected results, one for each URL, best first.
IsAnswer(a) ==
    LET given == {a[i] : i \in DOMAIN a}
    IN  /\ Len(a) = IF Cardinality(UrlsIn(Collected)) < Needed
                    THEN Cardinality(UrlsIn(Collected)) ELSE Needed
        /\ given \subseteq Collected
        /\ \A i, j \in DOMAIN a : i < j => a[i].url # a[j].url /\ a[i].score >= a[j].score
        /\ \A r \in Collected :
             \/ \E g \in given : g.url = r.url /\ g.score >= r.score
             \/ r.url \notin UrlsIn(given) /\ \A g \in given : g.score >= r.score

Receive(s) ==
    /\ answer = NoAnswer
    /\ s \notin ended
    /\ got[s] < Len(Streams[s])
    /\ got' = [got EXCEPT ![s] = @ + 1]
    /\ UNCHANGED <<ended, expired, answer>>

End(s) ==
    /\ answer = NoAnswer
    /\ s \notin ended
    /\ ended' = ended \cup {s}
    /\ UNCHANGED <<got, expired, answer>>

Expire ==
    /\ ~expired
    /\ expired' = TRUE
    /\ UNCHANGED <<got, ended, answer>>

Answer ==
    /\ answer = NoAnswer
    /\ MayAnswer
    /\ answer' # NoAnswer
    /\ IsAnswer(answer')
    /\ UNCHANGED <<got, ended, expired>>

Init ==
    /\ got = [s \in Shards |-> 0]
    /\ ended = {}
    /\ expired \in BOOLEAN    \* a deadline of no time has passed at once
    /\ answer = NoAnswer

Next ==
    \/ \E s \in Shards : Receive(s) \/ End(s)
    \/ Expire
    \/ Answer

Spec == Init /\ [][Next]_vars
=============================================================================
