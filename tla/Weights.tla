------------------------------ MODULE Weights ------------------------------
(***************************************************************************)
(* The ranking weights of the leader and of one shard (config/weights.hpp, *)
(* SearchEngine::search, ShardPlugin::ProcessStreamingRequest).  On both   *)
(* sides they are global variables without a lock; every connection has a  *)
(* thread of its own.  The leader reads its file again on every query and, *)
(* in dev mode, sends all the weights along.                               *)
(*                                                                         *)
(* A weight's value is the version of the file it comes from.              *)
(***************************************************************************)
EXTENDS Naturals, Sequences

CONSTANTS
    Queries,      \* queries in flight, a thread of the leader and of the shard each
    NumKeys,      \* weights; the file, the message and the ranker take them in order
    MaxVersion,   \* bound: the last version the operator edits the leader's file to
    MaxFaults     \* bound: times the file cannot be opened

ASSUME WeightsAssumption ==
    /\ NumKeys \in Nat \ {0}
    /\ MaxVersion \in Nat
    /\ MaxFaults \in Nat

Keys == 1 .. NumKeys

\* Version 0 is what the shard's own file says; the leader's starts at 1.
ShardVersion == 0

VARIABLES
    file,        \* version of config/weights.txt on the leader
    devMode,     \* DEV_MODE in the environment of the leader that runs now
    leaderW,     \* the leader's globals
    shardW,      \* the shard's globals
    pc,          \* where each query stands
    pos,         \* how many keys its current loop has done
    read,        \* the version of the file it opened; 0 if it opened none
    message,     \* the weights it sends along; empty without dev mode
    used,        \* the weights the shard scores it with
    faults,      \* times the file could not be opened
    crossed      \* history: the queries that older weights may have reached

vars == <<file, devMode, leaderW, shardW, pc, pos, read, message, used, faults, crossed>>

Running(q) == pc[q] \notin {"idle", "done"}

\* A query that began under an older file still runs (or one that opened none), or
\* one that such a query may have reached: what it is about to overwrite, send or
\* apply may be older than the file.
OlderRuns == \E q \in Queries : Running(q) /\ (read[q] < file \/ q \in crossed)

NextKey(q) == pos[q] + 1

\* One key of a loop is done; after the last the query goes on to where.
Advance(q, here, where) ==
    /\ pc[q] = here
    /\ IF NextKey(q) = NumKeys
       THEN pc' = [pc EXCEPT ![q] = where] /\ pos' = [pos EXCEPT ![q] = 0]
       ELSE pos' = [pos EXCEPT ![q] = NextKey(q)] /\ UNCHANGED pc

EditFile ==
    /\ file < MaxVersion
    /\ file' = file + 1
    /\ UNCHANGED <<devMode, leaderW, shardW, pc, pos, read, message, used, faults, crossed>>

\* The leader is started again without DEV_MODE; it loads its file as it starts.
RestartLeader ==
    /\ devMode
    /\ \A q \in Queries : pc[q] \in {"idle", "done"}
    /\ devMode' = FALSE
    /\ leaderW' = [k \in Keys |-> file]
    /\ UNCHANGED <<file, shardW, pc, pos, read, message, used, faults, crossed>>

\* load_and_apply_weights opens the file.
OpenFile(q) ==
    /\ pc[q] = "idle"
    /\ read' = [read EXCEPT ![q] = file]
    /\ pc' = [pc EXCEPT ![q] = "load"]
    /\ crossed' = IF OlderRuns THEN crossed \cup {q} ELSE crossed
    /\ UNCHANGED <<file, devMode, leaderW, shardW, pos, message, used, faults>>

\* It cannot, and search() does not look at what it returns: the query goes on with
\* whatever the globals are, half a file if another query is just loading it.
CannotOpen(q) ==
    /\ pc[q] = "idle"
    /\ faults < MaxFaults
    /\ faults' = faults + 1
    /\ pc' = [pc EXCEPT ![q] = IF devMode THEN "serialize" ELSE "score"]
    /\ crossed' = crossed \cup {x \in Queries : pc[x] = "load"}

\* Mutant: a file that cannot be opened stands for the defaults.
DefaultOpenFails(q) ==
    /\ CannotOpen(q)
    /\ leaderW' = [k \in Keys |-> ShardVersion]
    /\ UNCHANGED <<file, devMode, shardW, pos, read, message, used>>

OpenFails(q) ==
    /\ CannotOpen(q)
    /\ UNCHANGED <<file, devMode, leaderW, shardW, pos, read, message, used>>

LoadKey(q) ==
    /\ Advance(q, "load", IF devMode THEN "serialize" ELSE "score")
    /\ leaderW' = [leaderW EXCEPT ![NextKey(q)] = read[q]]
    /\ UNCHANGED <<file, devMode, shardW, read, message, used, faults, crossed>>

\* serialize_weights
SerializeKey(q) ==
    /\ Advance(q, "serialize", "apply")
    /\ message' = [message EXCEPT ![q] = Append(@, leaderW[NextKey(q)])]
    /\ UNCHANGED <<file, devMode, leaderW, shardW, read, used, faults, crossed>>

\* Mutant: the shard drops the weights it is sent.
IgnoreApplyKey(q) ==
    /\ Advance(q, "apply", "score")
    /\ UNCHANGED <<file, devMode, leaderW, shardW, read, message, used, faults, crossed>>

\* apply_weights_from_string, on the shard.
ApplyKey(q) ==
    /\ Advance(q, "apply", "score")
    /\ shardW' = [shardW EXCEPT ![NextKey(q)] = message[q][NextKey(q)]]
    /\ UNCHANGED <<file, devMode, leaderW, read, message, used, faults, crossed>>

\* The ranker of the shard reads the globals.
ScoreKey(q) ==
    /\ Advance(q, "score", "done")
    /\ used' = [used EXCEPT ![q] = Append(@, shardW[NextKey(q)])]
    /\ UNCHANGED <<file, devMode, leaderW, shardW, read, message, faults, crossed>>

Init ==
    /\ file = 1
    /\ devMode \in BOOLEAN
    /\ leaderW = [k \in Keys |-> file]
    /\ shardW = [k \in Keys |-> ShardVersion]
    /\ pc = [q \in Queries |-> "idle"]
    /\ pos = [q \in Queries |-> 0]
    /\ read = [q \in Queries |-> 0]
    /\ message = [q \in Queries |-> <<>>]
    /\ used = [q \in Queries |-> <<>>]
    /\ faults = 0
    /\ crossed = {}

Next ==
    \/ EditFile
    \/ RestartLeader
    \/ \E q \in Queries : \/ OpenFile(q) \/ OpenFails(q) \/ LoadKey(q)
                          \/ SerializeKey(q) \/ ApplyKey(q) \/ ScoreKey(q)

Spec == Init /\ [][Next]_vars

-----------------------------------------------------------------------------
(* Properties *)

\* An edit of the file and a query after it: whatever queries in flight overwrite
\* under each other on either side, and however many have run before, a query in dev
\* mode is scored with no weight older than the file it opened, unless it is crossed,
\* that is, unless a query was still running then whose weights may be older, or an
\* open failed while it was loading (SearchEngine::search, ShardPlugin).
NeverOlder ==
    \A q \in Queries :
        (pc[q] = "done" /\ message[q] # <<>> /\ q \notin crossed)
            => \A k \in Keys : used[q][k] >= read[q]

\* Once a query that is not crossed has loaded the file it opened, no query that
\* overlaps it or comes later, no file that cannot be opened and no restart ever brings
\* an older weight back into the leader's globals (load_and_apply_weights).
EditsStay ==
    \A q \in Queries :
        (pc[q] \notin {"idle", "load"} /\ q \notin crossed)
            => \A k \in Keys : leaderW[k] >= read[q]
=============================================================================
