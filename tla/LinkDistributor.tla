-------------------------- MODULE LinkDistributor --------------------------
(***************************************************************************)
(* The exchange of links between crawlers                                  *)
(* (src/src/crawler/link_distributor.cpp, with the loop over a page's links*)
(* in worker_thread.cpp).                                                  *)
(*                                                                         *)
(* A worker puts a link that belongs to another machine into the buffer    *)
(* for it; the one that makes the buffer too large copies and clears it,   *)
(* connects and sends the batch.  On each machine one thread serves the    *)
(* connections one after the other: it reads all that comes, and inserts   *)
(* the links into the frontier if it is as much as was announced.          *)
(*                                                                         *)
(* A step of a worker ends where it releases url_buffer_mutex, or with a   *)
(* system call.  A batch is the set of its links, which also names the     *)
(* connection that it travels by; two occurrences of a link are two links. *)
(* Of the frontier this is kept: how often each link was passed to         *)
(* insert_url.                                                             *)
(***************************************************************************)
EXTENDS Naturals, FiniteSets

CONSTANTS
    Machines,     \* peers, the same list on all machines
    Threads,      \* worker threads
    MachineOf,    \* MachineOf[t]: the machine of a thread
    Links,        \* the links on the pages crawled, numbered as they are come to
    FoundOn,      \* FoundOn[l]: the machine that crawls the page l is on
    Owner,        \* Owner[l]: the hash of l's authority modulo the number of peers
    BatchSize,    \* URL_BATCH_SIZE
    MaxFailures   \* bound: failures of connections and machines

ASSUME LinkAssumption ==
    /\ IsFiniteSet(Threads)
    /\ MachineOf \in [Threads -> Machines]
    /\ FoundOn \in [Links -> Machines]
    /\ Owner \in [Links -> Machines]
    /\ Links \subseteq Nat /\ IsFiniteSet(Links)
    /\ BatchSize \in Nat
    /\ MaxFailures \in Nat

VARIABLES
    found,      \* links that a worker has come to
    buffer,     \* buffer[m][p]: url_send_buffer of peer p on machine m
    pc,         \* where each worker stands
    peer,       \* remoteID of each worker
    batch,      \* its copy of the buffer
    wire,       \* wire[b]: the open connection that batch b travels by
    server,     \* what the server thread of each machine does
    inserted,   \* inserted[m][l]: how often m has inserted l into its frontier
    down,       \* machines whose crawler has ended
    failures    \* history: failures so far

workerVars == <<found, buffer, pc, peer, batch>>
vars == <<workerVars, wire, server, inserted, down, failures>>

\* A connection: to whom, what has come, and whether the sender is done writing.
Connection(p, came, shut) == [to |-> p, came |-> came, shut |-> shut]

WithWire(b, c) == [x \in DOMAIN wire \cup {b} |-> IF x = b THEN c ELSE wire[x]]
WithoutWire(bs) == [x \in DOMAIN wire \ bs |-> wire[x]]

\* The server thread: what it does, by which connection, and the links yet to insert.
Serving(doing, b, rest) == [doing |-> doing, of |-> b, rest |-> rest]
Accepting == Serving("accept", {}, {})

Init ==
    /\ found = {}
    /\ buffer = [m \in Machines |-> [p \in Machines |-> {}]]
    /\ pc = [t \in Threads |-> "idle"]
    /\ peer = [t \in Threads |-> MachineOf[t]]
    /\ batch = [t \in Threads |-> {}]
    /\ wire = [b \in {} |-> Connection(b, b, TRUE)]
    /\ server = [m \in Machines |-> Accepting]
    /\ inserted = [m \in Machines |-> [l \in Links |-> 0]]
    /\ down = {}
    /\ failures = 0

-----------------------------------------------------------------------------
(* Workers *)

Up(t) == MachineOf[t] \notin down

Goto(t, label) == pc' = [pc EXCEPT ![t] = label]

\* Back to the page, with the locals of the calls gone.
Return(t) ==
    /\ Goto(t, "idle")
    /\ peer' = [peer EXCEPT ![t] = MachineOf[t]]
    /\ batch' = [batch EXCEPT ![t] = {}]

Inserting(m, l) == inserted' = [inserted EXCEPT ![m][l] = @ + 1]

Failure == failures < MaxFailures /\ failures' = failures + 1

\* get_URL_destination says frontier.
RouteHome(t, l) ==
    /\ Owner[l] = MachineOf[t]
    /\ Inserting(MachineOf[t], l)
    /\ UNCHANGED <<buffer, pc, peer>>

\* send_URL_to_remote_peer: with more links than a batch, it goes on to send them.
RouteAway(t, l) ==
    LET m == MachineOf[t]
        p == Owner[l]
    IN  /\ p # m
        /\ buffer' = [buffer EXCEPT ![m][p] = @ \cup {l}]
        /\ IF Cardinality(buffer[m][p] \cup {l}) > BatchSize
           THEN Goto(t, "take") /\ peer' = [peer EXCEPT ![t] = p]
           ELSE UNCHANGED <<pc, peer>>
        /\ UNCHANGED inserted

ToFind(m) == {l \in Links \ found : FoundOn[l] = m}

\* The worker comes to a link of its page, the next of all workers' on the machine.
Route(t) ==
    /\ Up(t)
    /\ pc[t] = "idle"
    /\ \E l \in ToFind(MachineOf[t]) :
        /\ \A k \in ToFind(MachineOf[t]) : l <= k
        /\ found' = found \cup {l}
        /\ RouteHome(t, l) \/ RouteAway(t, l)
    /\ UNCHANGED <<batch, wire, server, down, failures>>

\* Mutant: the second look at the size wants one link more than the first.
PatientTake(t) ==
    /\ Up(t)
    /\ pc[t] = "take"
    /\ IF Cardinality(buffer[MachineOf[t]][peer[t]]) > BatchSize + 1
       THEN /\ batch' = [batch EXCEPT ![t] = buffer[MachineOf[t]][peer[t]]]
            /\ buffer' = [buffer EXCEPT ![MachineOf[t]][peer[t]] = {}]
            /\ Goto(t, "connect")
            /\ UNCHANGED peer
       ELSE Return(t) /\ UNCHANGED buffer
    /\ UNCHANGED <<found, wire, server, inserted, down, failures>>

\* send_remote_peer_URL_vector, with the mutex: another worker may have taken the
\* links in the meantime.
Take(t) ==
    /\ Up(t)
    /\ pc[t] = "take"
    /\ IF Cardinality(buffer[MachineOf[t]][peer[t]]) > BatchSize
       THEN /\ batch' = [batch EXCEPT ![t] = buffer[MachineOf[t]][peer[t]]]
            /\ buffer' = [buffer EXCEPT ![MachineOf[t]][peer[t]] = {}]
            /\ Goto(t, "connect")
            /\ UNCHANGED peer
       ELSE Return(t) /\ UNCHANGED buffer
    /\ UNCHANGED <<found, wire, server, inserted, down, failures>>

\* The kernel of the peer takes the connection, whatever its server thread does.
Connect(t) ==
    /\ Up(t)
    /\ pc[t] = "connect"
    /\ peer[t] \notin down
    /\ wire' = WithWire(batch[t], Connection(peer[t], {}, FALSE))
    /\ Goto(t, "send")
    /\ UNCHANGED <<found, buffer, peer, batch, server, inserted, down, failures>>

\* The batch is gone: nobody looks at the result.
ConnectFails(t) ==
    /\ Up(t)
    /\ pc[t] = "connect"
    /\ Failure \/ (peer[t] \in down /\ UNCHANGED failures)
    /\ Return(t)
    /\ UNCHANGED <<found, buffer, wire, server, inserted, down>>

\* send and shutdown.
Send(t) ==
    /\ Up(t)
    /\ pc[t] = "send"
    /\ wire' = IF batch[t] \in DOMAIN wire
               THEN WithWire(batch[t], Connection(peer[t], batch[t], TRUE)) ELSE wire
    /\ Goto(t, "recv")
    /\ UNCHANGED <<found, buffer, peer, batch, server, inserted, down, failures>>

\* send times out or breaks off after some of the links, and shutdown.
SendPart(t) ==
    /\ Up(t)
    /\ pc[t] = "send"
    /\ batch[t] \in DOMAIN wire
    /\ Failure
    /\ \E part \in (SUBSET batch[t]) \ {batch[t]} :
           wire' = WithWire(batch[t], Connection(peer[t], part, TRUE))
    /\ Goto(t, "recv")
    /\ UNCHANGED <<found, buffer, peer, batch, server, inserted, down>>

\* recv returns with the "OK", without it, or after half a minute: all the same.
Acknowledged(t) ==
    /\ Up(t)
    /\ pc[t] = "recv"
    /\ Return(t)
    /\ UNCHANGED <<found, buffer, wire, server, inserted, down, failures>>

-----------------------------------------------------------------------------
(* start_distribution_server *)

Accept(m) ==
    /\ m \notin down
    /\ server[m] = Accepting
    /\ \E b \in DOMAIN wire :
        /\ wire[b].to = m
        /\ server' = [server EXCEPT ![m] = Serving("read", b, {})]
    /\ UNCHANGED <<workerVars, wire, inserted, down, failures>>

\* Mutant: the links that have come are taken for the batch.
CredulousRead(m) ==
    LET b == server[m].of
    IN  /\ m \notin down
        /\ server[m].doing = "read"
        /\ wire[b].shut
        /\ server' = [server EXCEPT ![m] = Serving("insert", b, wire[b].came)]
        /\ wire' = WithoutWire({b})
        /\ UNCHANGED <<workerVars, inserted, down, failures>>

\* Mutant: the server waits for the rest of a batch that was cut off.
WaitingRead(m) ==
    LET b == server[m].of
    IN  /\ m \notin down
        /\ server[m].doing = "read"
        /\ wire[b].shut
        /\ wire[b].came = b
        /\ server' = [server EXCEPT ![m] = Serving("insert", b, b)]
        /\ wire' = WithoutWire({b})
        /\ UNCHANGED <<workerVars, inserted, down, failures>>

\* The sender is done: a batch that has not come whole is dropped.
Read(m) ==
    LET b == server[m].of
    IN  /\ m \notin down
        /\ server[m].doing = "read"
        /\ wire[b].shut
        /\ server' = [server EXCEPT ![m] =
                IF wire[b].came = b THEN Serving("insert", b, b) ELSE Accepting]
        /\ wire' = WithoutWire({b})
        /\ UNCHANGED <<workerVars, inserted, down, failures>>

\* Nothing comes for half a minute, and the connection is closed.
ReadTimesOut(m) ==
    LET b == server[m].of
    IN  /\ m \notin down
        /\ server[m].doing = "read"
        /\ ~wire[b].shut
        /\ Failure
        /\ server' = [server EXCEPT ![m] = Accepting]
        /\ wire' = WithoutWire({b})
        /\ UNCHANGED <<workerVars, inserted, down>>

\* insert_url_vector, link by link.
InsertUrl(m) ==
    /\ m \notin down
    /\ server[m].doing = "insert"
    /\ \E l \in server[m].rest :
        /\ Inserting(m, l)
        /\ server' = [server EXCEPT ![m].rest = @ \ {l}]
    /\ UNCHANGED <<workerVars, wire, down, failures>>

\* "OK", and on to the next.
Acknowledge(m) ==
    /\ m \notin down
    /\ server[m].doing = "insert"
    /\ server[m].rest = {}
    /\ server' = [server EXCEPT ![m] = Accepting]
    /\ UNCHANGED <<workerVars, wire, inserted, down, failures>>

-----------------------------------------------------------------------------
\* The batches that the threads of m have connected for and not sent.
Unsent(m) == {batch[t] : t \in {s \in Threads : MachineOf[s] = m /\ pc[s] = "send"}}

\* The operator types 'e', or the process dies.  Its peers find the end of what it
\* was sending, and their connections to it closed.
Crash(m) ==
    /\ m \notin down
    /\ Failure
    /\ down' = down \cup {m}
    /\ wire' = [b \in {x \in DOMAIN wire : wire[x].to # m} |->
            IF b \in Unsent(m) THEN [wire[b] EXCEPT !.shut = TRUE] ELSE wire[b]]
    /\ server' = [server EXCEPT ![m] = Accepting]
    /\ UNCHANGED <<workerVars, inserted>>

Work(t) ==
    Take(t) \/ Connect(t) \/ ConnectFails(t) \/ Send(t) \/ SendPart(t) \/ Acknowledged(t)

Serve(m) == Accept(m) \/ Read(m) \/ ReadTimesOut(m) \/ InsertUrl(m) \/ Acknowledge(m)

Next ==
    \/ \E t \in Threads : Route(t) \/ Work(t)
    \/ \E m \in Machines : Serve(m) \/ Crash(m)

\* Workers and server threads are scheduled; a page need not have a link.
Fairness ==
    /\ \A t \in Threads : WF_vars(Work(t))
    /\ \A m \in Machines : WF_vars(Serve(m))

Spec == Init /\ [][Next]_vars
FairSpec == Spec /\ Fairness

-----------------------------------------------------------------------------
(* Properties *)

WireOK ==
    /\ DOMAIN wire \subseteq SUBSET Links
    /\ \A b \in DOMAIN wire : wire[b] \in [to : Machines, came : SUBSET b, shut : BOOLEAN]

ServerStates ==
    [doing : {"accept", "read", "insert"}, of : SUBSET Links, rest : SUBSET Links]

TypeOK ==
    /\ found \subseteq Links
    /\ buffer \in [Machines -> [Machines -> SUBSET Links]]
    /\ pc \in [Threads -> {"idle", "take", "connect", "send", "recv"}]
    /\ peer \in [Threads -> Machines]
    /\ batch \in [Threads -> SUBSET Links]
    /\ WireOK
    /\ server \in [Machines -> ServerStates]
    /\ inserted \in [Machines -> [Links -> Nat]]
    /\ down \subseteq Machines
    /\ failures \in Nat

\* The workers of m on their way to empty the buffer for p.
OnTheirWay(m, p) == {t \in Threads : MachineOf[t] = m /\ peer[t] = p /\ pc[t] = "take"}

\* A buffer holds at most a batch, and one link more for each worker that is on its
\* way to send it: a full buffer is never left to nobody.  (The worker that fills it
\* releases the mutex before it takes it again to send, and finds perhaps that
\* another has emptied it; lines 42 and 51 of link_distributor.cpp.)
BufferBounded ==
    \A m \in Machines \ down, p \in Machines :
        Cardinality(buffer[m][p]) <= BatchSize + Cardinality(OnTheirWay(m, p))

InBuffer(l) == \E m \in Machines \ down, p \in Machines : l \in buffer[m][p]
InHand(l) == \E t \in Threads : Up(t) /\ pc[t] = "connect" /\ l \in batch[t]
OnWire(l) == \E b \in DOMAIN wire : l \in b /\ (wire[b].shut => wire[b].came = b)
WithServer(l) == \E m \in Machines : l \in server[m].rest

\* A link that is in a buffer, in a worker's hands, on a connection over which it may
\* still come, or with the server thread.
IsHeld(l) == InBuffer(l) \/ InHand(l) \/ OnWire(l) \/ WithServer(l)

Held == {l \in Links : IsHeld(l)}

Insertions(l) == {m \in Machines : inserted[m][l] > 0}

\* Where a link is.  One that was inserted by a machine that does not own it, more
\* than once, or while it is still on its way is at a place that LinkPromise
\* knows nothing of.
PlaceOf(l) ==
    IF Insertions(l) # {} THEN
        IF Insertions(l) = {Owner[l]} /\ inserted[Owner[l]][l] = 1 /\ ~IsHeld(l)
        THEN "kept" ELSE "astray"
    ELSE IF l \notin found THEN "new"
    ELSE IF IsHeld(l) THEN "waiting"
    ELSE "lost"

Promise == INSTANCE LinkPromise WITH place <- [l \in Links |-> PlaceOf(l)]

\* A link comes into its owner's frontier and no other, and once; one that has left
\* for its owner is lost only together with its whole batch, and only when a machine
\* or a connection fails.  (Nobody looks at the acknowledgement, which may come
\* after the sender has given up; no batch is ever sent twice.)
KeepsLinkPromise == Promise!Spec

\* A batch that a worker has taken is in the end inserted, or lost with its owner or
\* on the way: the one thread that serves all peers never stays with one of them, and
\* a sender whose server is busy sending to it is not waited for in turn.
BatchEnds ==
    \A l \in Links :
        (\E t \in Threads : l \in batch[t] /\ pc[t] = "connect")
            ~> (PlaceOf(l) \in {"kept", "lost"} \/ FoundOn[l] \in down)
=============================================================================
