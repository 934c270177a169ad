------------------------- MODULE DistributedSearch -------------------------
(***************************************************************************)
(* One query of the leader to the index shards                             *)
(* (src/engine/query_distributor.hpp, src/engine/shard_client.hpp and      *)
(* server/ShardPlugin.cpp).                                                *)
(*                                                                         *)
(* A worker thread per shard connects, reads the lines the shard streams   *)
(* and pushes its results on a shared vector; the calling thread watches   *)
(* the count of good results, the count of live workers and the deadline,  *)
(* raises the stop flag, joins the workers and merges.  Lines arrive in    *)
(* the order the shard writes them, in chunks of any size.                 *)
(***************************************************************************)
EXTENDS Naturals, Sequences, FiniteSets, SequencesExt, Places

CONSTANTS
    Shards,         \* the configured shards
    Levels,         \* Levels[s][l]: what search_level returns for the query
    MaxResults,     \* SHARD_MAX_RESULTS, per level
    GoodCount,      \* SHARD_GOOD_COUNT
    ShardGood,      \* scores at or above SHARD_GOOD_THRESHOLD
    Needed,         \* results_needed
    Good,           \* scores at or above the leader's good_threshold
    GlobalTimeout,  \* global_timeout_ms, in ticks
    ShardTimeout,   \* shard_timeout_ms, in ticks
    MaxFaults,      \* bound: connections that fail and shards that die
    NoAnswer

\* A SearchResult, tagged with the shard it came from.
Result == [shard : Shards, doc : Nat, url : STRING, score : Nat]

ASSUME SearchAssumption ==
    /\ IsFiniteSet(Shards)
    /\ Levels \in [Shards -> Seq(Seq(Result))]
    /\ \A s \in Shards : \A l \in DOMAIN Levels[s] : \A i \in DOMAIN Levels[s][l] :
           Levels[s][l][i].shard = s
    /\ MaxResults \in Nat
    /\ GoodCount \in Nat
    /\ Needed \in Nat
    /\ Good \subseteq Nat
    /\ ShardGood \subseteq Nat
    /\ GlobalTimeout \in Nat
    /\ ShardTimeout \in Nat
    /\ MaxFaults \in Nat
    /\ NoAnswer \notin Seq(Result)

VARIABLES
    pc,        \* where each worker stands
    written,   \* lines each shard has written to its socket
    received,  \* lines of them that recv has returned
    handled,   \* lines of them that the worker has taken from its buffer
    waited,    \* ticks since the worker entered recv
    dead,      \* shards that have died
    out,       \* all_results
    good,      \* good_count
    alive,     \* alive_workers
    stop,      \* stop_flag
    merged,    \* agg_stats, the number of survivors over all ranks
    leader,    \* where the calling thread stands
    elapsed,   \* ticks since the search began
    answer,
    faults

sockets == <<written, received, handled, dead>>
shared == <<out, good, alive, stop, merged>>
watcher == <<leader, answer>>
clock == <<waited, elapsed>>
vars == <<pc, sockets, shared, watcher, clock, faults>>

-----------------------------------------------------------------------------
(* What a shard streams: headers, the best of each level from the best     *)
(* level down until it has sent enough good results, then statistics.      *)

IsGood(r) == r.score \in Good

Sent(s, l) == SubSeq(Levels[s][l], 1, IF Len(Levels[s][l]) < MaxResults
                                      THEN Len(Levels[s][l]) ELSE MaxResults)

GoodSent(s, l) ==
    Cardinality(UNION {{<<k, i>> : i \in {j \in DOMAIN Sent(s, k) : Sent(s, k)[j].score \in ShardGood}} :
                           k \in 1 .. l})

\* The levels the shard searches: until those above have enough good results.
Served(s) == {l \in DOMAIN Levels[s] : \A k \in 1 .. l - 1 : GoodSent(s, k) < GoodCount}

Streams == [s \in Shards |-> FlattenSeq([l \in 1 .. Cardinality(Served(s)) |-> Sent(s, l)])]
Emitted(s) == Streams[s]

\* passed_static_floor counts what the levels returned, beyond the cap too.
StatsOf(s) == Cardinality(UNION {{l} \X DOMAIN Levels[s][l] : l \in Served(s)})

\* Line 1 is the header, then come the results and the statistics.
NumLines(s) == Len(Emitted(s)) + 2
IsStats(s, n) == n = NumLines(s)
ResultIn(s, n) == Emitted(s)[n - 1]

Connected(s) == pc[s] \notin {"connect", "ended", "stopped"}

ShardWrites(s) ==
    /\ Connected(s)
    /\ s \notin dead
    /\ written[s] < NumLines(s)
    /\ written' = [written EXCEPT ![s] = @ + 1]
    /\ UNCHANGED <<pc, received, handled, dead, shared, watcher, clock, faults>>

ShardDies(s) ==
    /\ Connected(s)
    /\ s \notin dead
    /\ faults < MaxFaults
    /\ dead' = dead \cup {s}
    /\ faults' = faults + 1
    /\ UNCHANGED <<pc, written, received, handled, shared, watcher, clock>>

-----------------------------------------------------------------------------
(* The worker of a shard: stream_query and its two callbacks.              *)

\* stream_query returns; "stopped" if a callback asked it to.
Finish(s, how) ==
    /\ pc' = [pc EXCEPT ![s] = how]
    /\ alive' = alive - 1

EnterRecv(s) ==
    /\ pc' = [pc EXCEPT ![s] = "recv"]
    /\ waited' = [waited EXCEPT ![s] = 0]

Connect(s) ==
    /\ pc[s] = "connect"
    /\ EnterRecv(s)
    /\ UNCHANGED <<sockets, shared, watcher, elapsed, faults>>

\* No address, no connection, or the request could not be sent.
ConnectFails(s) ==
    /\ pc[s] = "connect"
    /\ faults < MaxFaults
    /\ faults' = faults + 1
    /\ Finish(s, "ended")
    /\ UNCHANGED <<sockets, out, good, stop, merged, watcher, clock>>

\* Mutant: the lines that come in one chunk with the header are thrown away.
GreedyRecv(s, n) ==
    /\ pc[s] = "recv"
    /\ received[s] < n
    /\ n <= written[s]
    /\ received' = [received EXCEPT ![s] = n]
    /\ handled' = [handled EXCEPT ![s] = IF @ = 0 THEN n ELSE @]
    /\ pc' = [pc EXCEPT ![s] = "drain"]
    /\ UNCHANGED <<written, dead, shared, watcher, clock, faults>>

\* A chunk arrives; the header is cut off the first one.
Recv(s, n) ==
    /\ pc[s] = "recv"
    /\ received[s] < n
    /\ n <= written[s]
    /\ received' = [received EXCEPT ![s] = n]
    /\ handled' = [handled EXCEPT ![s] = IF @ = 0 THEN 1 ELSE @]
    /\ pc' = [pc EXCEPT ![s] = "drain"]
    /\ UNCHANGED <<written, dead, shared, watcher, clock, faults>>

\* The shard has closed the connection, or it died, unread lines and all.
RecvEnds(s) ==
    /\ pc[s] = "recv"
    /\ \/ received[s] = NumLines(s)
       \/ s \in dead
    /\ Finish(s, "ended")
    /\ UNCHANGED <<sockets, out, good, stop, merged, watcher, clock, faults>>

\* Mutant: the socket has no timeout.
NoRecvTimesOut(s) == FALSE /\ UNCHANGED vars

\* SO_RCVTIMEO: nothing came for a while.
RecvTimesOut(s) ==
    /\ pc[s] = "recv"
    /\ received[s] = written[s]
    /\ waited[s] >= ShardTimeout
    /\ Finish(s, "ended")
    /\ UNCHANGED <<sockets, out, good, stop, merged, watcher, clock, faults>>

BufferEmpty(s) ==
    /\ pc[s] = "drain"
    /\ handled[s] = received[s]
    /\ EnterRecv(s)
    /\ UNCHANGED <<sockets, shared, watcher, elapsed, faults>>

\* Mutant: the statistics of the last shard replace the others'.
LastStats(s) ==
    /\ pc[s] = "drain"
    /\ handled[s] < received[s]
    /\ IsStats(s, handled[s] + 1)
    /\ handled' = [handled EXCEPT ![s] = @ + 1]
    /\ merged' = StatsOf(s)
    /\ UNCHANGED <<pc, written, received, dead, out, good, alive, stop, watcher, clock, faults>>

OnStats(s) ==
    /\ pc[s] = "drain"
    /\ handled[s] < received[s]
    /\ IsStats(s, handled[s] + 1)
    /\ handled' = [handled EXCEPT ![s] = @ + 1]
    /\ merged' = merged + StatsOf(s)
    /\ UNCHANGED <<pc, written, received, dead, out, good, alive, stop, watcher, clock, faults>>

\* on_result up to the push: the flag is read first.
OnResult(s) ==
    /\ pc[s] = "drain"
    /\ handled[s] < received[s]
    /\ ~IsStats(s, handled[s] + 1)
    /\ handled' = [handled EXCEPT ![s] = @ + 1]
    /\ IF stop
       THEN Finish(s, "stopped") /\ UNCHANGED out
       ELSE /\ out' = Append(out, ResultIn(s, handled[s] + 1))
            /\ pc' = [pc EXCEPT ![s] = "pushed"]
            /\ UNCHANGED alive
    /\ UNCHANGED <<written, received, dead, good, stop, merged, watcher, clock, faults>>

CountIfGood(s) ==
    /\ pc[s] = "pushed"
    /\ good' = IF IsGood(ResultIn(s, handled[s])) THEN good + 1 ELSE good
    /\ pc' = [pc EXCEPT ![s] = "counted"]
    /\ UNCHANGED <<sockets, out, alive, stop, merged, watcher, clock, faults>>

\* on_result reads the flag again before it returns.
CheckStop(s) ==
    /\ pc[s] = "counted"
    /\ IF stop THEN Finish(s, "stopped")
       ELSE pc' = [pc EXCEPT ![s] = "drain"] /\ UNCHANGED alive
    /\ UNCHANGED <<sockets, out, good, stop, merged, watcher, clock, faults>>

Worker(s) ==
    \/ Connect(s)
    \/ \E n \in 1 .. NumLines(s) : Recv(s, n)
    \/ RecvEnds(s)
    \/ RecvTimesOut(s)
    \/ BufferEmpty(s)
    \/ OnStats(s)
    \/ OnResult(s)
    \/ CountIfGood(s)
    \/ CheckStop(s)

-----------------------------------------------------------------------------
(* QueryDistributor::search in the calling thread.                         *)

\* The watch loop ends: enough good results, no worker left, or the deadline.
WatchEnds ==
    /\ leader = "watch"
    /\ \/ good >= Needed
       \/ alive = 0
       \/ elapsed >= GlobalTimeout
    /\ stop' = TRUE
    /\ leader' = "join"
    /\ UNCHANGED <<pc, sockets, out, good, alive, merged, answer, clock, faults>>

Joined == leader = "join" /\ \A s \in Shards : pc[s] \in {"ended", "stopped"}

\* std::sort by score: equal scores in any order.
Sorted(results) ==
    {a \in {[i \in DOMAIN p |-> results[p[i]]] : p \in SetToSeqs(DOMAIN results)} :
        \A i, j \in DOMAIN a : i < j => a[i].score >= a[j].score}

\* The first result of each URL, in order.
Deduped(a) ==
    LET firsts == InOrder({i \in DOMAIN a : \A j \in 1 .. i - 1 : a[j].url # a[i].url})
    IN  [k \in DOMAIN firsts |-> a[firsts[k]]]

Resized(a) == SubSeq(a, 1, IF Len(a) < Needed THEN Len(a) ELSE Needed)

\* Mutant: duplicates take up places of the answer.
CutFirstAnswer ==
    /\ Joined
    /\ \E a \in Sorted(out) : answer' = Deduped(Resized(a))
    /\ leader' = "answered"
    /\ UNCHANGED <<pc, sockets, shared, clock, faults>>

\* Sort, drop duplicate URLs, cut to size.
Answer ==
    /\ Joined
    /\ \E a \in Sorted(out) : answer' = Resized(Deduped(a))
    /\ leader' = "answered"
    /\ UNCHANGED <<pc, sockets, shared, clock, faults>>

\* Time passes for the watcher and for every worker that waits in recv.
Tick ==
    /\ elapsed' = IF elapsed > GlobalTimeout THEN elapsed ELSE elapsed + 1
    /\ waited' = [s \in Shards |-> IF pc[s] = "recv" /\ waited[s] < ShardTimeout
                                   THEN waited[s] + 1 ELSE waited[s]]
    /\ clock' # clock
    /\ UNCHANGED <<pc, sockets, shared, watcher, faults>>

Init ==
    /\ pc = [s \in Shards |-> "connect"]
    /\ written = [s \in Shards |-> 0]
    /\ received = [s \in Shards |-> 0]
    /\ handled = [s \in Shards |-> 0]
    /\ waited = [s \in Shards |-> 0]
    /\ dead = {}
    /\ out = <<>>
    /\ good = 0
    /\ alive = Cardinality(Shards)
    /\ stop = FALSE
    /\ merged = 0
    /\ leader = "watch"
    /\ elapsed = 0
    /\ answer = NoAnswer
    /\ faults = 0

Leader == WatchEnds \/ Answer

World == \E s \in Shards : ShardWrites(s) \/ ShardDies(s) \/ ConnectFails(s)

Threads == Leader \/ \E s \in Shards : Worker(s)

Next == Threads \/ World \/ Tick

Spec == Init /\ [][Next]_vars

\* The threads of the leader run; of the shards nothing is assumed.
FairSpec ==
    /\ Spec
    /\ WF_vars(Leader)
    /\ WF_vars(Tick)
    /\ \A s \in Shards : WF_vars(Worker(s))

-----------------------------------------------------------------------------
(* Properties *)

\* The places of a shard's results on the vector, and which of them comes at a place.
PlacesOf(s) == {i \in DOMAIN out : out[i].shard = s}
Turn(s, i) == Rank(PlacesOf(s), i)

\* The results of a shard are on the shared vector in the order it sent them, with
\* no gap, whatever the chunks they came in and however the workers interleave.
\* (stream_query's buffer and on_result.)
NoGap ==
    \A s \in Shards : \A i \in PlacesOf(s) :
        Turn(s, i) \in DOMAIN Emitted(s) /\ out[i] = Emitted(s)[Turn(s, i)]

\* The documents that passed the floor on the shards of S.
CountedBy(S) == UNION {{s} \X (1 .. StatsOf(s)) : s \in S}

\* A search that nothing cut short - no failure, not enough good results, no
\* worker that gave up waiting or was told to stop - has every result and the
\* statistics of every shard, each once.
NothingMissed ==
    (leader = "answered" /\ \A s \in Shards : pc[s] = "ended" /\ received[s] = NumLines(s))
        => /\ \A s \in Shards : Cardinality(PlacesOf(s)) = Len(Emitted(s))
           /\ merged = Cardinality(CountedBy(Shards))

Promise == INSTANCE SearchPromise WITH
    got <- [s \in Shards |-> Cardinality(PlacesOf(s))],
    ended <- {s \in Shards : pc[s] = "ended"},
    expired <- elapsed >= GlobalTimeout

\* The search keeps its promise: it answers only on one of its three exit paths,
\* with the best of what it has collected.  (The header of query_distributor.hpp.)
KeepsPromise == Promise!Spec

\* The search returns, whatever the shards do: none can hold it for ever.
SearchReturns == <>(leader = "answered")
=============================================================================
