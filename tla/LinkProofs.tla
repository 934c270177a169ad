----------------------------- MODULE LinkProofs -----------------------------
(***************************************************************************)
(* Theorems about the exchange of links, for any number of machines,       *)
(* workers, links and failures: types, the bound of the buffers, and that  *)
(* the exchange implements LinkPromise.                                    *)
(***************************************************************************)
EXTENDS LinkDistributor, FiniteSetTheorems, TLAPS

-----------------------------------------------------------------------------
(* Types *)

LEMMA ServerTyping ==
    ASSUME NEW doing \in {"accept", "read", "insert"}, NEW b \in SUBSET Links,
           NEW rest \in SUBSET Links
    PROVE  Serving(doing, b, rest) \in ServerStates /\ Accepting \in ServerStates
BY DEF Serving, Accepting, ServerStates

LEMMA InitTyped == Init => TypeOK
<1> SUFFICES ASSUME Init PROVE TypeOK
  OBVIOUS
<1>1. server \in [Machines -> ServerStates]
  BY ServerTyping DEF Init
<1>2. WireOK
  BY DEF Init, WireOK
<1>3. QED
  BY <1>1, <1>2, LinkAssumption DEF Init, TypeOK

LEMMA StutterTyped == ASSUME TypeOK, UNCHANGED vars PROVE TypeOK'
BY DEF TypeOK, WireOK, vars, workerVars

\* What is on the wire stays of type when one connection comes or changes, and
\* when connections go.
LEMMA WithWireTyped ==
    ASSUME WireOK, NEW b \in SUBSET Links, NEW p \in Machines, NEW came \in SUBSET b,
           NEW shut \in BOOLEAN, wire' = WithWire(b, Connection(p, came, shut))
    PROVE  WireOK'
BY DEF WireOK, WithWire, Connection

LEMMA WithoutWireTyped ==
    ASSUME WireOK, NEW bs, wire' = WithoutWire(bs)
    PROVE  WireOK'
BY DEF WireOK, WithoutWire

\* A worker returns.
LEMMA ReturnTyping ==
    ASSUME TypeOK, NEW t \in Threads, Return(t)
    PROVE  /\ pc' \in [Threads -> {"idle", "take", "connect", "send", "recv"}]
           /\ peer' \in [Threads -> Machines]
           /\ batch' \in [Threads -> SUBSET Links]
BY LinkAssumption DEF TypeOK, Return, Goto

LEMMA InsertingTyping ==
    ASSUME TypeOK, NEW m \in Machines, NEW l \in Links, Inserting(m, l)
    PROVE  inserted' \in [Machines -> [Links -> Nat]]
BY DEF TypeOK, Inserting

LEMMA RouteTyped == ASSUME TypeOK, NEW t \in Threads, Route(t) PROVE TypeOK'
<1>1. PICK l \in ToFind(MachineOf[t]) :
        /\ found' = found \cup {l}
        /\ RouteHome(t, l) \/ RouteAway(t, l)
  BY DEF Route
<1> DEFINE m == MachineOf[t]
           p == Owner[l]
<1>2. l \in Links /\ m \in Machines /\ p \in Machines
  BY <1>1, LinkAssumption DEF ToFind
<1>3. inserted' \in [Machines -> [Links -> Nat]]
  <2>1. CASE RouteHome(t, l)
    BY <1>2, <2>1, InsertingTyping DEF RouteHome
  <2>2. CASE RouteAway(t, l)
    BY <2>2 DEF RouteAway, TypeOK
  <2>3. QED
    BY <1>1, <2>1, <2>2
<1>4. /\ pc' \in [Threads -> {"idle", "take", "connect", "send", "recv"}]
      /\ peer' \in [Threads -> Machines]
  <2>1. /\ pc \in [Threads -> {"idle", "take", "connect", "send", "recv"}]
        /\ peer \in [Threads -> Machines]
    BY DEF TypeOK
  <2>2. /\ UNCHANGED pc \/ pc' = [pc EXCEPT ![t] = "take"]
        /\ UNCHANGED peer \/ peer' = [peer EXCEPT ![t] = p]
    BY <1>1 DEF RouteHome, RouteAway, Goto
  <2>3. QED
    BY <1>2, <2>1, <2>2
<1>5. buffer' \in [Machines -> [Machines -> SUBSET Links]]
  <2>1. buffer[m] \in [Machines -> SUBSET Links] /\ buffer[m][p] \cup {l} \in SUBSET Links
    BY <1>2 DEF TypeOK
  <2>2. CASE RouteHome(t, l)
    BY <2>2 DEF RouteHome, TypeOK
  <2>3. CASE RouteAway(t, l)
    <3>1. buffer' = [buffer EXCEPT ![m][p] = @ \cup {l}]
      BY <2>3 DEF RouteAway
    <3>2. QED
      BY <1>2, <2>1, <3>1 DEF TypeOK
  <2>4. QED
    BY <1>1, <2>2, <2>3
<1>6. WireOK'
  BY DEF Route, TypeOK, WireOK
<1>7. QED
  BY <1>1, <1>2, <1>3, <1>4, <1>5, <1>6 DEF Route, TypeOK

LEMMA WorkTyped == ASSUME TypeOK, NEW t \in Threads, Work(t) PROVE TypeOK'
<1> USE DEF TypeOK
<1> DEFINE m == MachineOf[t]
           p == peer[t]
<1>0. m \in Machines /\ p \in Machines /\ batch[t] \in SUBSET Links
  BY LinkAssumption
<1>1. CASE Take(t)
  <2>1. WireOK'
    BY <1>1 DEF Take, WireOK
  <2>2. buffer[m] \in [Machines -> SUBSET Links] /\ buffer[m][p] \in SUBSET Links
    BY <1>0
  <2>3. CASE Cardinality(buffer[m][p]) > BatchSize
    <3>1. /\ buffer' = [buffer EXCEPT ![m][p] = {}]
          /\ batch' = [batch EXCEPT ![t] = buffer[m][p]]
          /\ pc' = [pc EXCEPT ![t] = "connect"]
          /\ UNCHANGED <<found, peer, server, inserted, down, failures>>
      BY <1>1, <2>3 DEF Take, Goto
    <3>2. buffer' \in [Machines -> [Machines -> SUBSET Links]]
      BY <1>0, <2>2, <3>1
    <3>3. QED
      BY <2>1, <2>2, <3>1, <3>2
  <2>4. CASE ~(Cardinality(buffer[m][p]) > BatchSize)
    <3>1. Return(t) /\ UNCHANGED <<found, buffer, server, inserted, down, failures>>
      BY <1>1, <2>4 DEF Take
    <3>2. QED
      BY <2>1, <3>1, ReturnTyping
  <2>5. QED
    BY <2>3, <2>4
<1>2. CASE Connect(t)
  <2>1. WireOK'
    BY <1>2, <1>0, WithWireTyped DEF Connect
  <2>2. QED
    BY <1>2, <2>1 DEF Connect, Goto
<1>3. CASE ConnectFails(t)
  <2>1. WireOK'
    BY <1>3 DEF ConnectFails, WireOK
  <2>2. Return(t) /\ UNCHANGED <<found, buffer, server, inserted, down>> /\ failures' \in Nat
    BY <1>3 DEF ConnectFails, Failure
  <2>3. QED
    BY <2>1, <2>2, ReturnTyping
<1>4. CASE Send(t)
  <2>1. WireOK'
    <3>1. CASE batch[t] \in DOMAIN wire
      BY <1>4, <3>1, <1>0, WithWireTyped DEF Send
    <3>2. CASE batch[t] \notin DOMAIN wire
      BY <1>4, <3>2 DEF Send, WireOK
    <3>3. QED
      BY <3>1, <3>2
  <2>2. QED
    BY <1>4, <2>1 DEF Send, Goto
<1>5. CASE SendPart(t)
  <2>1. PICK part \in SUBSET batch[t] :
          wire' = WithWire(batch[t], Connection(peer[t], part, TRUE))
    BY <1>5 DEF SendPart
  <2>2. WireOK'
    BY <2>1, <1>0, WithWireTyped
  <2>3. QED
    BY <1>5, <2>2 DEF SendPart, Goto, Failure
<1>6. CASE Acknowledged(t)
  <2>1. WireOK'
    BY <1>6 DEF Acknowledged, WireOK
  <2>2. QED
    BY <1>6, <2>1, ReturnTyping DEF Acknowledged
<1>7. QED
  BY <1>1, <1>2, <1>3, <1>4, <1>5, <1>6 DEF Work

LEMMA ServeTyped == ASSUME TypeOK, NEW m \in Machines, Serve(m) PROVE TypeOK'
<1> USE DEF TypeOK
<1> DEFINE b == server[m].of
<1>0. server[m] \in ServerStates
  OBVIOUS
<1>1. CASE Accept(m)
  <2>1. PICK c \in DOMAIN wire : server' = [server EXCEPT ![m] = Serving("read", c, {})]
    BY <1>1 DEF Accept
  <2>2. c \in SUBSET Links
    BY DEF WireOK
  <2>3. Serving("read", c, {}) \in ServerStates
    BY <2>2, ServerTyping
  <2>4. WireOK'
    BY <1>1 DEF Accept, WireOK
  <2>5. QED
    BY <1>1, <2>1, <2>3, <2>4 DEF Accept, workerVars
<1>2. CASE Read(m)
  <2>1. WireOK'
    BY <1>2, WithoutWireTyped DEF Read
  <2>2. b \in SUBSET Links
    BY <1>0 DEF ServerStates
  <2>3. Serving("insert", b, b) \in ServerStates /\ Accepting \in ServerStates
    BY <2>2, ServerTyping
  <2>4. server' \in [Machines -> ServerStates]
    BY <1>2, <2>3 DEF Read
  <2>5. QED
    BY <1>2, <2>1, <2>4 DEF Read, workerVars
<1>3. CASE ReadTimesOut(m)
  <2>1. WireOK'
    BY <1>3, WithoutWireTyped DEF ReadTimesOut
  <2>2. Accepting \in ServerStates
    BY ServerTyping
  <2>3. QED
    BY <1>3, <2>1, <2>2 DEF ReadTimesOut, Failure, workerVars
<1>4. CASE InsertUrl(m)
  <2>1. PICK l \in server[m].rest :
          Inserting(m, l) /\ server' = [server EXCEPT ![m].rest = @ \ {l}]
    BY <1>4 DEF InsertUrl
  <2>2. l \in Links /\ [server[m] EXCEPT !.rest = @ \ {l}] \in ServerStates
    BY <1>0 DEF ServerStates
  <2>3. inserted' \in [Machines -> [Links -> Nat]]
    BY <2>1, <2>2, InsertingTyping
  <2>4. server' \in [Machines -> ServerStates]
    BY <2>1, <2>2
  <2>5. WireOK'
    BY <1>4 DEF InsertUrl, WireOK
  <2>6. QED
    BY <1>4, <2>3, <2>4, <2>5 DEF InsertUrl, workerVars
<1>5. CASE Acknowledge(m)
  <2>1. Accepting \in ServerStates
    BY ServerTyping
  <2>2. WireOK'
    BY <1>5 DEF Acknowledge, WireOK
  <2>3. QED
    BY <1>5, <2>1, <2>2 DEF Acknowledge, workerVars
<1>6. QED
  BY <1>1, <1>2, <1>3, <1>4, <1>5 DEF Serve

LEMMA CrashTyped == ASSUME TypeOK, NEW m \in Machines, Crash(m) PROVE TypeOK'
<1>1. WireOK'
  BY ZenonT(30) DEF Crash, WireOK, TypeOK
<1>2. Accepting \in ServerStates
  BY ServerTyping
<1>3. QED
  BY <1>1, <1>2 DEF Crash, Failure, TypeOK, workerVars

LEMMA StepTyped == TypeOK /\ [Next]_vars => TypeOK'
BY RouteTyped, WorkTyped, ServeTyped, CrashTyped, StutterTyped DEF Next

\* The state is well-typed: what has come by a connection is part of its batch.
THEOREM TypeCorrect == Spec => []TypeOK
BY InitTyped, StepTyped, PTL DEF Spec

-----------------------------------------------------------------------------
(* Buffers *)

LEMMA Sizes ==
    ASSUME TypeOK, NEW m \in Machines, NEW p \in Machines
    PROVE  /\ IsFiniteSet(buffer[m][p]) /\ Cardinality(buffer[m][p]) \in Nat
           /\ IsFiniteSet(OnTheirWay(m, p)) /\ Cardinality(OnTheirWay(m, p)) \in Nat
<1>1. IsFiniteSet(buffer[m][p])
  BY LinkAssumption, FS_Subset DEF TypeOK
<1>2. IsFiniteSet(OnTheirWay(m, p))
  BY LinkAssumption, FS_Subset DEF OnTheirWay
<1>3. QED
  BY <1>1, <1>2, FS_CardinalityType

\* Nothing of it changes when a worker does that is not on its way before or after.
LEMMA ElsewhereBounded ==
    ASSUME BufferBounded, NEW t \in Threads, pc[t] # "take", pc'[t] # "take",
           \A s \in Threads \ {t} : pc'[s] = pc[s] /\ peer'[s] = peer[s],
           buffer' = buffer, down \subseteq down'
    PROVE  BufferBounded'
<1>1. \A m, p \in Machines : OnTheirWay(m, p)' = OnTheirWay(m, p)
  BY DEF OnTheirWay
<1>2. QED
  BY <1>1 DEF BufferBounded

LEMMA RouteBounded ==
    ASSUME TypeOK, BufferBounded, NEW t \in Threads, Route(t)
    PROVE  BufferBounded'
<1>1. PICK l \in ToFind(MachineOf[t]) : RouteHome(t, l) \/ RouteAway(t, l)
  BY DEF Route
<1>2. CASE RouteHome(t, l)
  BY <1>2 DEF Route, RouteHome, BufferBounded, OnTheirWay
<1>3. CASE RouteAway(t, l)
  <2> DEFINE m == MachineOf[t]
             p == Owner[l]
  <2>1. l \in Links /\ m \in Machines /\ p \in Machines
    BY LinkAssumption DEF ToFind
  <2>2. /\ buffer' = [buffer EXCEPT ![m][p] = @ \cup {l}]
        /\ pc[t] = "idle" /\ down' = down
    BY <1>3 DEF RouteAway, Route
  <2>3. /\ buffer'[m][p] = buffer[m][p] \cup {l}
        /\ \A n, q \in Machines : ~(n = m /\ q = p) => buffer'[n][q] = buffer[n][q]
    BY <2>1, <2>2 DEF TypeOK
  <2>4. /\ Cardinality(buffer'[m][p]) \in Nat
        /\ Cardinality(buffer'[m][p]) <= Cardinality(buffer[m][p]) + 1
    <3>1. IsFiniteSet(buffer[m][p]) /\ Cardinality(buffer[m][p]) \in Nat
      BY <2>1, Sizes
    <3>2. Cardinality(buffer[m][p] \cup {l}) =
            IF l \in buffer[m][p] THEN Cardinality(buffer[m][p])
            ELSE Cardinality(buffer[m][p]) + 1
      BY <3>1, FS_AddElement
    <3>3. QED
      BY <2>3, <3>1, <3>2
  <2> SUFFICES ASSUME NEW n \in Machines \ down, NEW q \in Machines
               PROVE  Cardinality(buffer'[n][q]) <= BatchSize + Cardinality(OnTheirWay(n, q)')
    BY <2>2 DEF BufferBounded
  <2>5. Cardinality(buffer[n][q]) <= BatchSize + Cardinality(OnTheirWay(n, q))
    BY DEF BufferBounded
  <2>6. CASE Cardinality(buffer[m][p] \cup {l}) > BatchSize
    <3>1. pc' = [pc EXCEPT ![t] = "take"] /\ peer' = [peer EXCEPT ![t] = p]
      BY <1>3, <2>6 DEF RouteAway, Goto
    <3>2. /\ t \notin OnTheirWay(n, q)
          /\ OnTheirWay(n, q)' = IF n = m /\ q = p THEN OnTheirWay(n, q) \cup {t}
                                 ELSE OnTheirWay(n, q)
      BY <2>1, <2>2, <3>1 DEF OnTheirWay, TypeOK
    <3>3. CASE n = m /\ q = p
      <4>1. Cardinality(OnTheirWay(n, q)') = Cardinality(OnTheirWay(n, q)) + 1
        <5>1. IsFiniteSet(OnTheirWay(n, q))
          BY Sizes
        <5>2. QED
          BY <3>2, <3>3, <5>1, FS_AddElement
      <4>2. QED
        BY <2>1, <2>4, <2>5, <3>3, <4>1, Sizes, LinkAssumption
    <3>4. CASE ~(n = m /\ q = p)
      BY <2>3, <2>5, <3>2, <3>4
    <3>5. QED
      BY <3>3, <3>4
  <2>7. CASE ~(Cardinality(buffer[m][p] \cup {l}) > BatchSize)
    <3>1. UNCHANGED <<pc, peer>>
      BY <1>3, <2>7 DEF RouteAway
    <3>2. OnTheirWay(n, q)' = OnTheirWay(n, q)
      BY <3>1 DEF OnTheirWay
    <3>3. Cardinality(OnTheirWay(n, q)) \in Nat /\ BatchSize \in Nat
      BY Sizes, LinkAssumption
    <3>4. CASE n = m /\ q = p
      <4>1. Cardinality(buffer'[m][p]) <= BatchSize
        BY <2>3, <2>4, <2>7, <3>3
      <4>2. QED
        BY <2>4, <3>2, <3>3, <3>4, <4>1
    <3>5. CASE ~(n = m /\ q = p)
      BY <2>3, <2>5, <3>2, <3>5
    <3>6. QED
      BY <3>4, <3>5
  <2>8. QED
    BY <2>6, <2>7
<1>4. QED
  BY <1>1, <1>2, <1>3

LEMMA TakeBounded ==
    ASSUME TypeOK, BufferBounded, NEW t \in Threads, Take(t)
    PROVE  BufferBounded'
<1> DEFINE m == MachineOf[t]
<1>0. PICK p \in Machines : p = peer[t]
  BY DEF TypeOK
<1>1. m \in Machines /\ p \in Machines /\ down' = down /\ pc[t] = "take"
  BY LinkAssumption DEF Take
<1>2. /\ \A n, q \in Machines : OnTheirWay(n, q)' = OnTheirWay(n, q) \ {t}
      /\ \A n, q \in Machines : ~(n = m /\ q = p) => OnTheirWay(n, q)' = OnTheirWay(n, q)
  <2>1. /\ pc'[t] # "take"
        /\ \A s \in Threads \ {t} : pc'[s] = pc[s] /\ peer'[s] = peer[s]
    BY <1>1 DEF Take, Return, Goto, TypeOK
  <2>2. \A n, q \in Machines : OnTheirWay(n, q)' = OnTheirWay(n, q) \ {t}
    BY <2>1 DEF OnTheirWay
  <2>3. \A n, q \in Machines : ~(n = m /\ q = p) => t \notin OnTheirWay(n, q)
    BY <1>0 DEF OnTheirWay
  <2>4. \A n, q \in Machines :
          ~(n = m /\ q = p) => OnTheirWay(n, q) \ {t} = OnTheirWay(n, q)
    BY <2>3
  <2>5. QED
    BY <2>2, <2>4
<1> SUFFICES ASSUME NEW n \in Machines \ down, NEW q \in Machines
             PROVE  Cardinality(buffer'[n][q]) <= BatchSize + Cardinality(OnTheirWay(n, q)')
  BY <1>1 DEF BufferBounded
<1>3. Cardinality(buffer[n][q]) <= BatchSize + Cardinality(OnTheirWay(n, q))
  BY DEF BufferBounded
<1>4. PICK c \in Nat : c = Cardinality(OnTheirWay(n, q)')
  <2>1. OnTheirWay(n, q)' = OnTheirWay(n, q) \ {t} /\ IsFiniteSet(OnTheirWay(n, q))
    BY <1>2, Sizes
  <2>2. IsFiniteSet(OnTheirWay(n, q) \ {t})
    BY <2>1, FS_Subset
  <2>3. QED
    BY <2>1, <2>2, FS_CardinalityType
<1>5. CASE Cardinality(buffer[m][p]) > BatchSize
  <2>1. buffer' = [buffer EXCEPT ![m][p] = {}]
    BY <1>0, <1>5 DEF Take
  <2>2. /\ buffer'[m][p] = {}
        /\ ~(n = m /\ q = p) => buffer'[n][q] = buffer[n][q]
    BY <1>1, <2>1 DEF TypeOK
  <2>3. Cardinality({}) = 0
    BY FS_EmptySet
  <2>4. CASE n = m /\ q = p
    <3>1. Cardinality(buffer'[n][q]) = 0
      BY <2>2, <2>3, <2>4
    <3>2. BatchSize \in Nat
      BY LinkAssumption
    <3>3. QED
      BY <1>4, <3>1, <3>2
  <2>5. CASE ~(n = m /\ q = p)
    BY <1>1, <1>2, <1>3, <2>2, <2>5
  <2>6. QED
    BY <2>4, <2>5
<1>6. CASE ~(Cardinality(buffer[m][p]) > BatchSize)
  <2>1. buffer' = buffer
    BY <1>0, <1>6 DEF Take
  <2>2. Cardinality(buffer[m][p]) \in Nat /\ BatchSize \in Nat
    BY <1>1, Sizes, LinkAssumption
  <2>3. CASE n = m /\ q = p
    BY <1>4, <1>6, <2>1, <2>2, <2>3
  <2>4. CASE ~(n = m /\ q = p)
    BY <1>1, <1>2, <1>3, <2>1, <2>4
  <2>5. QED
    BY <2>3, <2>4
<1>7. QED
  BY <1>5, <1>6

LEMMA StepBounded ==
    ASSUME TypeOK, BufferBounded, [Next]_vars
    PROVE  BufferBounded'
<1>1. ASSUME NEW t \in Threads, Route(t) \/ Work(t) PROVE BufferBounded'
  <2>1. CASE Connect(t) \/ ConnectFails(t) \/ Send(t) \/ SendPart(t) \/ Acknowledged(t)
    <3>1. /\ pc[t] # "take" /\ pc'[t] # "take"
          /\ \A s \in Threads \ {t} : pc'[s] = pc[s] /\ peer'[s] = peer[s]
          /\ buffer' = buffer /\ down' = down
      BY <2>1 DEF TypeOK, Connect, ConnectFails, Send, SendPart, Acknowledged, Return, Goto
    <3>2. QED
      BY <3>1, ElsewhereBounded
  <2>2. QED
    BY <1>1, <2>1, RouteBounded, TakeBounded DEF Work
<1>2. ASSUME NEW m \in Machines, Serve(m) \/ Crash(m) PROVE BufferBounded'
  <2>1. buffer' = buffer /\ pc' = pc /\ peer' = peer /\ down \subseteq down'
    BY <1>2 DEF Serve, Accept, Read, ReadTimesOut, InsertUrl, Acknowledge, Crash, workerVars
  <2>2. QED
    BY <2>1 DEF BufferBounded, OnTheirWay
<1>3. CASE UNCHANGED vars
  BY <1>3 DEF BufferBounded, OnTheirWay, vars, workerVars
<1>4. QED
  BY <1>1, <1>2, <1>3 DEF Next

\* For any number of workers a buffer holds at most a batch, and one link more for
\* each worker on its way to send it.
THEOREM BuffersBounded == Spec => []BufferBounded
<1>1. Init => BufferBounded
  <2> SUFFICES ASSUME Init, NEW m \in Machines, NEW p \in Machines
               PROVE  Cardinality(buffer[m][p]) <= BatchSize + Cardinality(OnTheirWay(m, p))
    BY DEF BufferBounded
  <2>1. buffer[m][p] = {} /\ TypeOK
    BY InitTyped DEF Init
  <2>2. Cardinality({}) = 0
    BY FS_EmptySet
  <2>3. QED
    BY <2>1, <2>2, Sizes, LinkAssumption
<1>2. TypeOK /\ BufferBounded /\ [Next]_vars => BufferBounded'
  BY StepBounded
<1>3. QED
  BY <1>1, <1>2, TypeCorrect, PTL DEF Spec

-----------------------------------------------------------------------------
(* The inductive invariant: where links are on their way. *)

\* The links of b have been found on m, belong to p, and are more than a batch.
Travels(b, m, p) ==
    /\ b \subseteq found
    /\ m # p
    /\ Cardinality(b) > BatchSize
    /\ \A l \in b : FoundOn[l] = m /\ Owner[l] = p

Collected ==
    \A m, p \in Machines : \A l \in buffer[m][p] :
        l \in found /\ m # p /\ FoundOn[l] = m /\ Owner[l] = p

Carries(t) == pc[t] \in {"connect", "send"}

Carried == \A t \in Threads : Carries(t) => Travels(batch[t], MachineOf[t], peer[t])

Wired == \A b \in DOMAIN wire : \E m \in Machines : Travels(b, m, wire[b].to)

\* What is being read is on the wire, and only what has been read is inserted.
Served ==
    \A m \in Machines :
        /\ server[m].doing = "read" => server[m].of \in DOMAIN wire /\ wire[server[m].of].to = m
        /\ server[m].doing # "insert" => server[m].rest = {}
        /\ \A l \in server[m].rest : l \in found /\ Owner[l] = m /\ FoundOn[l] # m

\* Nobody else ends what a worker has yet to send.
Unended ==
    \A t \in Threads :
        Up(t) /\ pc[t] = "send" /\ batch[t] \in DOMAIN wire => ~wire[batch[t]].shut

\* No link is in two places.
HandsApart ==
    \A t, s \in Threads : Carries(t) /\ Carries(s) /\ t # s => batch[t] \cap batch[s] = {}
HandsOffBuffers ==
    \A t \in Threads : Carries(t) => \A m, p \in Machines : batch[t] \cap buffer[m][p] = {}
HandsOffWire ==
    \A t \in Threads : pc[t] = "connect" => \A b \in DOMAIN wire : batch[t] \cap b = {}
WiresApart == \A b, c \in DOMAIN wire : b # c => b \cap c = {}
WireOffBuffers == \A b \in DOMAIN wire : \A m, p \in Machines : b \cap buffer[m][p] = {}
RestApart ==
    \A n \in Machines : \A l \in server[n].rest :
        /\ \A m, p \in Machines : l \notin buffer[m][p]
        /\ \A t \in Threads : pc[t] = "connect" => l \notin batch[t]
        /\ \A b \in DOMAIN wire : l \notin b

Apart ==
    /\ HandsApart /\ HandsOffBuffers /\ HandsOffWire
    /\ WiresApart /\ WireOffBuffers /\ RestApart

\* A link that is in a frontier is in no other place.
KeptApart ==
    \A n \in Machines, l \in Links :
        inserted[n][l] # 0 =>
            /\ n = Owner[l] /\ inserted[n][l] = 1 /\ l \in found
            /\ \A m, p \in Machines : l \notin buffer[m][p]
            /\ \A t \in Threads : pc[t] = "connect" => l \notin batch[t]
            /\ \A b \in DOMAIN wire : l \notin b
            /\ \A m \in Machines : l \notin server[m].rest

Inv ==
    TypeOK /\ Collected /\ Carried /\ Wired /\ Served /\ Unended /\ Apart /\ KeptApart

-----------------------------------------------------------------------------
(* It is inductive. *)

LEMMA TravelsNonEmpty ==
    ASSUME NEW b, NEW m, NEW p, Travels(b, m, p)
    PROVE  b # {}
BY LinkAssumption, FS_EmptySet DEF Travels

\* A link that has not been found is nowhere.
LEMMA NewIsNowhere ==
    ASSUME Inv, NEW l \in Links, l \notin found
    PROVE  /\ \A m, p \in Machines : l \notin buffer[m][p]
           /\ \A t \in Threads : Carries(t) => l \notin batch[t]
           /\ \A b \in DOMAIN wire : l \notin b
           /\ \A m \in Machines : l \notin server[m].rest
           /\ \A m \in Machines : inserted[m][l] = 0
BY DEF Inv, Collected, Carried, Wired, Served, KeptApart, Travels

LEMMA InitInv == Init => Inv
<1> SUFFICES ASSUME Init PROVE Inv
  OBVIOUS
<1>1. TypeOK
  BY InitTyped
<1>2. Collected /\ Carried /\ Wired /\ Unended /\ Apart
  BY DEF Init, Collected, Carried, Wired, Unended, Apart, HandsApart, HandsOffBuffers,
         HandsOffWire, WiresApart, WireOffBuffers, RestApart, Carries, Accepting, Serving
<1>3. Served /\ KeptApart
  BY DEF Init, Served, KeptApart, Accepting, Serving
<1>4. QED
  BY <1>1, <1>2, <1>3 DEF Inv

LEMMA StutterInv == ASSUME Inv, UNCHANGED vars PROVE Inv'
BY StutterTyped
   DEF Inv, Collected, Carried, Wired, Served, Unended, Apart, HandsApart, HandsOffBuffers,
       HandsOffWire, WiresApart, WireOffBuffers, RestApart, KeptApart, Carries, Travels, Up,
       vars, workerVars

LEMMA RouteInv == ASSUME Inv, NEW t \in Threads, Route(t) PROVE Inv'
<1> DEFINE m == MachineOf[t]
<1>0. TypeOK /\ TypeOK'
  BY RouteTyped DEF Inv
<1>1. PICK l \in ToFind(m) : found' = found \cup {l} /\ (RouteHome(t, l) \/ RouteAway(t, l))
  BY DEF Route
<1>2. /\ l \in Links /\ l \notin found /\ FoundOn[l] = m /\ m \in Machines
      /\ UNCHANGED <<batch, wire, server, down, failures>> /\ pc[t] = "idle"
  BY LinkAssumption DEF Route, ToFind
<1>3. \A s \in Threads : Carries(s)' <=> Carries(s)
  BY <1>1, <1>2, <1>0 DEF RouteHome, RouteAway, Goto, Carries, TypeOK
<1>4. \A s \in Threads : Carries(s) => peer'[s] = peer[s] /\ pc'[s] = pc[s]
  BY <1>1, <1>2, <1>0 DEF RouteHome, RouteAway, Goto, Carries, TypeOK
<1>5. Carried' /\ Wired' /\ Served'
  BY <1>1, <1>2, <1>3, <1>4 DEF Inv, Carried, Wired, Served, Travels
<1>6. Unended' /\ HandsApart' /\ HandsOffWire' /\ WiresApart'
  BY <1>2, <1>3, <1>4 DEF Inv, Apart, Unended, HandsApart, HandsOffWire, WiresApart, Carries, Up
<1>7. CASE RouteHome(t, l)
  <2>1. buffer' = buffer /\ inserted' = [inserted EXCEPT ![m][l] = @ + 1] /\ Owner[l] = m
    BY <1>7 DEF RouteHome, Inserting
  <2>2. Collected' /\ HandsOffBuffers' /\ WireOffBuffers' /\ RestApart'
    BY <1>1, <1>2, <1>3, <1>4, <2>1
       DEF Inv, Apart, Collected, HandsOffBuffers, WireOffBuffers, RestApart, Carries
  <2>3. /\ inserted'[m][l] = inserted[m][l] + 1
        /\ \A n \in Machines, k \in Links : ~(n = m /\ k = l) => inserted'[n][k] = inserted[n][k]
    BY <1>0, <1>2, <2>1 DEF TypeOK
  <2>4. KeptApart'
    BY <1>1, <1>2, <1>3, <1>4, <2>1, <2>3, NewIsNowhere DEF Inv, KeptApart, Carries
  <2>5. QED
    BY <1>0, <1>5, <1>6, <2>2, <2>4 DEF Inv, Apart
<1>8. CASE RouteAway(t, l)
  <2> DEFINE p == Owner[l]
  <2>1. /\ buffer' = [buffer EXCEPT ![m][p] = @ \cup {l}] /\ inserted' = inserted
        /\ p \in Machines /\ p # m
    BY <1>2, <1>8, LinkAssumption DEF RouteAway
  <2>2. \A n, q \in Machines :
          buffer'[n][q] = IF n = m /\ q = p THEN buffer[n][q] \cup {l} ELSE buffer[n][q]
    <3>1. buffer \in [Machines -> [Machines -> SUBSET Links]] /\ m \in Machines
      BY <1>0, <1>2 DEF TypeOK
    <3>2. \A n \in Machines : buffer'[n] = IF n = m THEN [buffer[m] EXCEPT ![p] = @ \cup {l}]
                                                   ELSE buffer[n]
      BY <2>1, <3>1
    <3>3. QED
      BY <2>1, <3>1, <3>2
  <2>3. Collected'
    BY <1>1, <1>2, <2>1, <2>2 DEF Inv, Collected
  <2>4. HandsOffBuffers' /\ WireOffBuffers' /\ RestApart'
    <3>0. /\ \A s \in Threads : Carries(s) => l \notin batch[s]
          /\ \A b \in DOMAIN wire : l \notin b
          /\ \A n \in Machines : l \notin server[n].rest
      BY <1>2, NewIsNowhere
    <3> DEFINE Grown(b) == \A n, q \in Machines : b \cap buffer[n][q] = {} /\ l \notin b
                              => b \cap buffer'[n][q] = {}
    <3>1. \A n, q \in Machines : buffer'[n][q] \subseteq buffer[n][q] \cup {l}
      BY <2>2
    <3>2. HandsOffBuffers'
      <4>1. \A s \in Threads : Grown(batch[s])
        BY <3>1
      <4>2. QED
        BY <1>2, <1>3, <3>0, <4>1 DEF Inv, Apart, HandsOffBuffers
    <3>3. WireOffBuffers'
      <4>1. \A b \in DOMAIN wire : Grown(b)
        BY <3>1
      <4>2. QED
        BY <1>2, <3>0, <4>1 DEF Inv, Apart, WireOffBuffers
    <3>4. RestApart'
      BY <1>2, <1>3, <1>4, <3>0, <3>1 DEF Inv, Apart, RestApart, Carries
    <3>5. QED
      BY <3>2, <3>3, <3>4
  <2>5. KeptApart'
    BY <1>1, <1>2, <1>3, <1>4, <2>1, <2>2, NewIsNowhere DEF Inv, KeptApart, Carries
  <2>6. QED
    BY <1>0, <1>5, <1>6, <2>3, <2>4, <2>5 DEF Inv, Apart
<1>9. QED
  BY <1>1, <1>7, <1>8

\* A worker that returns leaves everything where it is.
LEMMA ReturnInv ==
    ASSUME Inv, TypeOK', NEW t \in Threads, Return(t),
           UNCHANGED <<found, buffer, wire, server, inserted, down>>
    PROVE  Inv'
<1>1. /\ pc'[t] = "idle"
      /\ \A s \in Threads \ {t} : batch'[s] = batch[s] /\ pc'[s] = pc[s] /\ peer'[s] = peer[s]
  BY DEF Inv, TypeOK, Return, Goto
<1>2. \A s \in Threads : Carries(s)' => s # t /\ Carries(s)
  BY <1>1 DEF Carries
<1>3. Collected' /\ Carried' /\ Wired' /\ Served' /\ Unended'
  BY <1>1, <1>2 DEF Inv, Collected, Carried, Wired, Served, Unended, Travels, Up
<1>4. Apart'
  BY <1>1, <1>2 DEF Inv, Apart, HandsApart, HandsOffBuffers, HandsOffWire, WiresApart,
                    WireOffBuffers, RestApart
<1>5. KeptApart'
  BY <1>1 DEF Inv, KeptApart
<1>6. QED
  BY <1>3, <1>4, <1>5 DEF Inv

LEMMA TakeInv == ASSUME Inv, NEW t \in Threads, Take(t) PROVE Inv'
<1> DEFINE m == MachineOf[t]
<1>0. TypeOK /\ TypeOK'
  BY WorkTyped DEF Inv, Work
<1>1. PICK p \in Machines : p = peer[t]
  BY <1>0 DEF TypeOK
<1>2. /\ m \in Machines /\ pc[t] = "take"
      /\ UNCHANGED <<found, wire, server, inserted, down>>
  BY LinkAssumption DEF Take
<1>3. CASE Cardinality(buffer[m][p]) > BatchSize
  <2>1. /\ batch' = [batch EXCEPT ![t] = buffer[m][p]]
        /\ buffer' = [buffer EXCEPT ![m][p] = {}]
        /\ pc' = [pc EXCEPT ![t] = "connect"]
        /\ peer' = peer
    BY <1>1, <1>3 DEF Take, Goto
  <2>2. \A n, q \in Machines : buffer'[n][q] = IF n = m /\ q = p THEN {} ELSE buffer[n][q]
    BY <1>0, <1>2, <2>1 DEF TypeOK
  <2>3. /\ batch'[t] = buffer[m][p] /\ pc'[t] = "connect" /\ ~Carries(t)
        /\ \A s \in Threads \ {t} : batch'[s] = batch[s] /\ pc'[s] = pc[s]
    BY <1>0, <1>2, <2>1 DEF TypeOK, Carries
  <2>4. Collected'
    BY <1>2, <2>2 DEF Inv, Collected
  <2>5. Carried'
    <3>1. m # p /\ Travels(buffer[m][p], m, p)
      <4>1. buffer[m][p] # {}
        BY <1>3, LinkAssumption, FS_EmptySet
      <4>2. QED
        BY <1>2, <1>3, <4>1 DEF Inv, Collected, Travels
    <3>2. QED
      BY <1>1, <1>2, <2>1, <2>3, <3>1 DEF Inv, Carried, Carries, Travels
  <2>6. Wired' /\ Served' /\ Unended'
    BY <1>2, <2>3 DEF Inv, Wired, Served, Unended, Travels, Up
  <2>7. HandsApart'
    BY <1>2, <2>3 DEF Inv, Apart, HandsApart, HandsOffBuffers, Carries
  <2>8. HandsOffBuffers'
    <3>1. \A n, q \in Machines : buffer[m][p] \cap buffer'[n][q] = {}
      BY <1>2, <2>2 DEF Inv, Collected
    <3>2. QED
      BY <2>2, <2>3, <3>1 DEF Inv, Apart, HandsOffBuffers, Carries
  <2>9. HandsOffWire' /\ WiresApart' /\ WireOffBuffers'
    BY <1>2, <2>2, <2>3
       DEF Inv, Apart, HandsOffWire, WiresApart, WireOffBuffers
  <2>10. RestApart'
    BY <1>2, <2>2, <2>3 DEF Inv, Apart, RestApart
  <2>11. KeptApart'
    BY <1>2, <2>2, <2>3 DEF Inv, KeptApart
  <2>12. QED
    BY <1>0, <2>4, <2>5, <2>6, <2>7, <2>8, <2>9, <2>10, <2>11 DEF Inv, Apart
<1>4. CASE ~(Cardinality(buffer[m][p]) > BatchSize)
  <2>1. Return(t) /\ buffer' = buffer
    BY <1>1, <1>4 DEF Take
  <2>2. QED
    BY <1>0, <1>2, <2>1, ReturnInv
<1>5. QED
  BY <1>3, <1>4

LEMMA ConnectInv == ASSUME Inv, NEW t \in Threads, Connect(t) PROVE Inv'
<1>0. TypeOK /\ TypeOK'
  BY WorkTyped DEF Inv, Work
<1> DEFINE b == batch[t]
<1>1. /\ pc[t] = "connect" /\ wire' = WithWire(b, Connection(peer[t], {}, FALSE))
      /\ pc' = [pc EXCEPT ![t] = "send"]
      /\ UNCHANGED <<found, buffer, peer, batch, server, inserted, down>>
  BY DEF Connect, Goto
<1>2. Travels(b, MachineOf[t], peer[t]) /\ MachineOf[t] \in Machines /\ b # {}
  BY <1>1, TravelsNonEmpty, LinkAssumption DEF Inv, Carried, Carries
<1>3. b \notin DOMAIN wire
  BY <1>1, <1>2 DEF Inv, Apart, HandsOffWire
<1>4. /\ DOMAIN wire' = DOMAIN wire \cup {b}
      /\ wire'[b] = Connection(peer[t], {}, FALSE)
      /\ \A c \in DOMAIN wire : wire'[c] = wire[c]
  BY <1>1, <1>3 DEF WithWire
<1>5. /\ pc'[t] = "send" /\ \A s \in Threads \ {t} : pc'[s] = pc[s]
      /\ \A s \in Threads : Carries(s)' <=> Carries(s)
  BY <1>0, <1>1 DEF TypeOK, Carries
<1>6. wire'[b].to = peer[t] /\ wire'[b].shut = FALSE
  BY <1>4 DEF Connection
<1>7. Collected' /\ Carried'
  BY <1>1, <1>5 DEF Inv, Collected, Carried, Travels
<1>8. Wired'
  <2>1. \A c, n, q : Travels(c, n, q) => Travels(c, n, q)'
    BY <1>1 DEF Travels
  <2>2. ASSUME NEW c \in DOMAIN wire' PROVE \E n \in Machines : Travels(c, n, wire'[c].to)
    BY <1>2, <1>4, <1>6 DEF Inv, Wired
  <2>3. QED
    BY <2>1, <2>2 DEF Wired
<1>9. Served'
  BY <1>1, <1>4 DEF Inv, Served
<1>10. Unended'
  <2>1. \A s \in Threads \ {t} : pc[s] = "send" => batch[s] # b
    BY <1>1, <1>2 DEF Inv, Apart, HandsApart, Carries
  <2>2. QED
    BY <1>1, <1>4, <1>5, <1>6, <2>1 DEF Inv, Unended, Up
<1>11. HandsApart' /\ HandsOffBuffers'
  BY <1>1, <1>5 DEF Inv, Apart, HandsApart, HandsOffBuffers
<1>12. HandsOffWire'
  <2>1. \A s \in Threads \ {t} : pc[s] = "connect" => batch[s] \cap b = {}
    BY <1>1 DEF Inv, Apart, HandsApart, Carries
  <2>2. QED
    BY <1>1, <1>4, <1>5, <2>1 DEF Inv, Apart, HandsOffWire
<1>13. WiresApart' /\ WireOffBuffers'
  <2>1. \A c \in DOMAIN wire : b \cap c = {} /\ c \cap b = {}
    BY <1>1 DEF Inv, Apart, HandsOffWire
  <2>2. \A m, p \in Machines : b \cap buffer[m][p] = {}
    BY <1>1 DEF Inv, Apart, HandsOffBuffers, Carries
  <2>3. QED
    BY <1>1, <1>4, <2>1, <2>2 DEF Inv, Apart, WiresApart, WireOffBuffers
<1>14. RestApart'
  <2>1. \A n \in Machines : \A l \in server[n].rest : l \notin b
    BY <1>1 DEF Inv, Apart, RestApart
  <2>2. \A s \in Threads : pc'[s] = "connect" => pc[s] = "connect"
    BY <1>5
  <2>3. \A c \in DOMAIN wire' : c \in DOMAIN wire \/ c = b
    BY <1>4
  <2>4. ASSUME NEW n \in Machines, NEW l \in server[n].rest
        PROVE  /\ \A m, p \in Machines : l \notin buffer[m][p]
               /\ \A s \in Threads : pc'[s] = "connect" => l \notin batch[s]
               /\ \A c \in DOMAIN wire' : l \notin c
    BY <2>1, <2>2, <2>3 DEF Inv, Apart, RestApart
  <2>5. QED
    BY <1>1, <2>4 DEF RestApart
<1>15. KeptApart'
  <2>1. \A n \in Machines, l \in Links : inserted[n][l] # 0 => l \notin b
    BY <1>1 DEF Inv, KeptApart
  <2>2. \A s \in Threads : pc'[s] = "connect" => pc[s] = "connect"
    BY <1>5
  <2>3. \A c \in DOMAIN wire' : c \in DOMAIN wire \/ c = b
    BY <1>4
  <2>4. ASSUME NEW n \in Machines, NEW l \in Links, inserted[n][l] # 0
        PROVE  /\ n = Owner[l] /\ inserted[n][l] = 1 /\ l \in found
               /\ \A m, p \in Machines : l \notin buffer[m][p]
               /\ \A s \in Threads : pc'[s] = "connect" => l \notin batch[s]
               /\ \A c \in DOMAIN wire' : l \notin c
               /\ \A m \in Machines : l \notin server[m].rest
    BY <2>1, <2>2, <2>3, <2>4 DEF Inv, KeptApart
  <2>5. QED
    BY <1>1, <2>4 DEF KeptApart
<1>16. QED
  BY <1>0, <1>7, <1>8, <1>9, <1>10, <1>11, <1>12, <1>13, <1>14, <1>15 DEF Inv, Apart

\* A worker writes what it can and says that it is done.
LEMMA SentInv ==
    ASSUME Inv, TypeOK', NEW t \in Threads, NEW came, pc[t] = "send", Up(t),
           wire' = IF batch[t] \in DOMAIN wire
                   THEN WithWire(batch[t], Connection(peer[t], came, TRUE)) ELSE wire,
           pc' = [pc EXCEPT ![t] = "recv"],
           UNCHANGED <<found, buffer, peer, batch, server, inserted, down>>
    PROVE  Inv'
<1> DEFINE b == batch[t]
<1>1. Travels(b, MachineOf[t], peer[t]) /\ b # {}
  BY TravelsNonEmpty DEF Inv, Carried, Carries
<1>2. DOMAIN wire' = DOMAIN wire /\ \A c \in DOMAIN wire \ {b} : wire'[c] = wire[c]
  BY DEF WithWire
<1>3. \A c \in DOMAIN wire : wire'[c].to = wire[c].to
  <2>1. ASSUME b \in DOMAIN wire PROVE wire'[b].to = peer[t] /\ wire[b].to = peer[t]
    BY <1>1, <2>1 DEF Inv, Wired, Travels, WithWire, Connection
  <2>2. QED
    BY <1>2, <2>1
<1>4. pc'[t] = "recv" /\ \A s \in Threads \ {t} : pc'[s] = pc[s]
  <2>1. DOMAIN pc = Threads
    BY DEF Inv, TypeOK
  <2>2. QED
    BY <2>1
<1>5. Collected' /\ Carried' /\ Wired'
  <2>1. \A c, n, q : Travels(c, n, q) => Travels(c, n, q)'
    BY DEF Travels
  <2>2. Collected'
    BY DEF Inv, Collected
  <2>3. Carried'
    <3>1. \A s \in Threads : Carries(s)' => Carries(s)
      BY <1>4 DEF Carries
    <3>2. QED
      BY <2>1, <3>1 DEF Inv, Carried
  <2>4. Wired'
    BY <1>2, <1>3, <2>1 DEF Inv, Wired
  <2>5. QED
    BY <2>2, <2>3, <2>4
<1>6. Served'
  BY <1>2, <1>3, ZenonT(30) DEF Inv, Served
<1>7. Unended'
  <2>1. \A s \in Threads \ {t} : pc[s] = "send" => batch[s] # b
    BY <1>1 DEF Inv, Apart, HandsApart, Carries
  <2>2. QED
    BY <1>2, <1>4, <2>1 DEF Inv, Unended, Up
<1>8. Apart'
  <2>1. HandsApart' /\ HandsOffBuffers' /\ HandsOffWire'
    BY <1>2, <1>4 DEF Inv, Apart, HandsApart, HandsOffBuffers, HandsOffWire, Carries
  <2>2. WiresApart' /\ WireOffBuffers'
    BY <1>2 DEF Inv, Apart, WiresApart, WireOffBuffers
  <2>3. RestApart'
    BY <1>2, <1>4 DEF Inv, Apart, RestApart
  <2>4. QED
    BY <2>1, <2>2, <2>3 DEF Apart
<1>9. KeptApart'
  BY <1>2, <1>4, ZenonT(30) DEF Inv, KeptApart
<1>10. QED
  BY <1>5, <1>6, <1>7, <1>8, <1>9 DEF Inv

LEMMA WorkInv == ASSUME Inv, NEW t \in Threads, Work(t) PROVE Inv'
<1>0. TypeOK /\ TypeOK'
  BY WorkTyped DEF Inv
<1>1. CASE ConnectFails(t) \/ Acknowledged(t)
  BY <1>0, <1>1, ReturnInv DEF ConnectFails, Acknowledged
<1>2. CASE Send(t)
  BY <1>0, <1>2, SentInv DEF Send, Goto
<1>3. CASE SendPart(t)
  <2>1. PICK part : wire' = WithWire(batch[t], Connection(peer[t], part, TRUE))
    BY <1>3 DEF SendPart
  <2>2. QED
    BY <1>0, <1>3, <2>1, SentInv DEF SendPart, Goto
<1>4. QED
  BY <1>1, <1>2, <1>3, TakeInv, ConnectInv DEF Work

\* Connections go, and workers stay where they are.
LEMMA FewerWires ==
    ASSUME Inv, UNCHANGED workerVars,
           \A c \in DOMAIN wire' : c \in DOMAIN wire /\ wire'[c].to = wire[c].to
    PROVE  /\ Collected' /\ Carried' /\ Wired'
           /\ HandsApart' /\ HandsOffBuffers' /\ HandsOffWire' /\ WiresApart' /\ WireOffBuffers'
<1>1. \A c, n, q : Travels(c, n, q)' <=> Travels(c, n, q)
  BY DEF Travels, workerVars
<1>2. Collected' /\ Carried' /\ Wired'
  BY <1>1 DEF Inv, Collected, Carried, Wired, Carries, workerVars
<1>3. HandsApart' /\ HandsOffBuffers' /\ HandsOffWire'
  BY DEF Inv, Apart, HandsApart, HandsOffBuffers, HandsOffWire, Carries, workerVars
<1>4. WiresApart' /\ WireOffBuffers'
  BY DEF Inv, Apart, WiresApart, WireOffBuffers, workerVars
<1>5. QED
  BY <1>2, <1>3, <1>4

\* A server thread goes on with nothing new to insert, and connections may go.
LEMMA NothingNew ==
    ASSUME Inv, UNCHANGED <<workerVars, inserted>>,
           \A c \in DOMAIN wire' : c \in DOMAIN wire /\ wire'[c].to = wire[c].to,
           \A n \in Machines : server'[n].rest \subseteq server[n].rest
    PROVE  RestApart' /\ KeptApart'
<1>1. RestApart'
  BY DEF Inv, Apart, RestApart, workerVars
<1>2. ASSUME NEW n \in Machines, NEW l \in Links, inserted[n][l] # 0
      PROVE  /\ n = Owner[l] /\ inserted[n][l] = 1 /\ l \in found
             /\ \A m, p \in Machines : l \notin buffer[m][p]
             /\ \A s \in Threads : pc[s] = "connect" => l \notin batch[s]
             /\ \A c \in DOMAIN wire' : l \notin c
             /\ \A m \in Machines : l \notin server'[m].rest
  BY <1>2 DEF Inv, KeptApart
<1>3. KeptApart'
  BY <1>2 DEF KeptApart, workerVars
<1>4. QED
  BY <1>1, <1>3

LEMMA AcceptInv == ASSUME Inv, NEW m \in Machines, Accept(m) PROVE Inv'
<1>0. TypeOK /\ TypeOK'
  BY ServeTyped DEF Inv, Serve
<1>1. PICK b \in DOMAIN wire :
        wire[b].to = m /\ server' = [server EXCEPT ![m] = Serving("read", b, {})]
  BY DEF Accept
<1>2. UNCHANGED <<workerVars, wire, inserted, down>>
  BY DEF Accept
<1>3. /\ server'[m].doing = "read" /\ server'[m].of = b /\ server'[m].rest = {}
      /\ \A n \in Machines \ {m} : server'[n] = server[n]
  BY <1>0, <1>1 DEF TypeOK, Serving
<1>4. Served'
  BY <1>1, <1>2, <1>3 DEF Inv, Served, workerVars
<1>5. \A n \in Machines : server'[n].rest \subseteq server[n].rest
  BY <1>3
<1>6. RestApart' /\ KeptApart'
  BY <1>2, <1>5, NothingNew
<1>7. Unended'
  BY <1>2 DEF Inv, Unended, Up, workerVars
<1>8. QED
  BY <1>0, <1>2, <1>4, <1>6, <1>7, FewerWires DEF Inv, Apart

\* The server thread is done with a connection: it has links to insert, or none.
LEMMA DoneReading ==
    ASSUME Inv, TypeOK', NEW m \in Machines, NEW b, NEW rest,
           server[m].doing = "read", b = server[m].of,
           wire' = WithoutWire({b}),
           rest = {} \/ rest = b,
           \/ rest = {} /\ server' = [server EXCEPT ![m] = Accepting]
           \/ server' = [server EXCEPT ![m] = Serving("insert", b, rest)],
           UNCHANGED <<workerVars, inserted, down>>
    PROVE  Inv'
<1>0. TypeOK /\ b \in DOMAIN wire /\ wire[b].to = m
  BY DEF Inv, Served
<1>1. /\ server'[m].doing # "read" /\ server'[m].rest = rest
      /\ server'[m].doing # "insert" => rest = {}
      /\ \A n \in Machines \ {m} : server'[n] = server[n]
  <2>1. DOMAIN server = Machines
    BY <1>0 DEF TypeOK
  <2>2. CASE rest = {} /\ server' = [server EXCEPT ![m] = Accepting]
    BY <2>1, <2>2 DEF Serving, Accepting
  <2>3. CASE server' = [server EXCEPT ![m] = Serving("insert", b, rest)]
    BY <2>1, <2>3 DEF Serving
  <2>4. QED
    BY <2>2, <2>3
<1>2. DOMAIN wire' = DOMAIN wire \ {b} /\ \A c \in DOMAIN wire' : wire'[c] = wire[c]
  BY DEF WithoutWire
<1>3. PICK k \in Machines : Travels(b, k, m)
  BY <1>0 DEF Inv, Wired
<1>4. \A n \in Machines \ {m} : server[n].doing = "read" => server[n].of # b
  BY <1>0 DEF Inv, Served
<1>5. Served'
  <2>1. \A l \in rest : l \in found /\ Owner[l] = m /\ FoundOn[l] # m
    BY <1>3 DEF Travels
  <2>2. ASSUME NEW n \in Machines \ {m}
        PROVE  /\ server[n].doing = "read" =>
                     server[n].of \in DOMAIN wire' /\ wire'[server[n].of].to = n
               /\ server[n].doing # "insert" => server[n].rest = {}
               /\ \A l \in server[n].rest : l \in found /\ Owner[l] = n /\ FoundOn[l] # n
    <3>1. /\ server[n].doing = "read" =>
                server[n].of \in DOMAIN wire /\ wire[server[n].of].to = n
          /\ server[n].doing # "insert" => server[n].rest = {}
          /\ \A l \in server[n].rest : l \in found /\ Owner[l] = n /\ FoundOn[l] # n
      BY DEF Inv, Served
    <3>2. server[n].doing = "read" => server[n].of # b
      BY <1>4
    <3>3. QED
      BY <1>2, <3>1, <3>2
  <2>3. ASSUME NEW n \in Machines
        PROVE  /\ server'[n].doing = "read" =>
                     server'[n].of \in DOMAIN wire' /\ wire'[server'[n].of].to = n
               /\ server'[n].doing # "insert" => server'[n].rest = {}
               /\ \A l \in server'[n].rest : l \in found /\ Owner[l] = n /\ FoundOn[l] # n
    <3>1. CASE n = m
      BY <1>1, <2>1, <3>1
    <3>2. CASE n # m
      <4>1. server'[n] = server[n]
        BY <1>1, <3>2
      <4>2. QED
        BY <2>2, <3>2, <4>1, ZenonT(30)
    <3>3. QED
      BY <3>1, <3>2
  <2>4. QED
    BY <2>3 DEF Served, workerVars
<1>6. Unended'
  <2>1. UNCHANGED <<pc, batch, down>> /\ Unended
    BY DEF Inv, workerVars
  <2>2. \A c \in DOMAIN wire' : c \in DOMAIN wire /\ wire'[c] = wire[c]
    BY <1>2
  <2>3. QED
    BY <2>1, <2>2 DEF Unended, Up
<1>7. RestApart'
  <2>1. ASSUME NEW l \in b
        PROVE  /\ \A n, p \in Machines : l \notin buffer[n][p]
               /\ \A t \in Threads : pc[t] = "connect" => l \notin batch[t]
               /\ \A c \in DOMAIN wire' : l \notin c
    BY <1>0, <1>2 DEF Inv, Apart, WireOffBuffers, HandsOffWire, WiresApart
  <2>2. QED
    BY <1>1, <1>2, <2>1 DEF Inv, Apart, RestApart, workerVars
<1>8. KeptApart'
  <2>1. ASSUME NEW n \in Machines, NEW l \in Links, inserted[n][l] # 0
        PROVE  /\ n = Owner[l] /\ inserted[n][l] = 1 /\ l \in found
               /\ \A q, p \in Machines : l \notin buffer[q][p]
               /\ \A s \in Threads : pc[s] = "connect" => l \notin batch[s]
               /\ \A c \in DOMAIN wire' : l \notin c
               /\ \A q \in Machines : l \notin server'[q].rest
    BY <1>0, <1>1, <1>2, <2>1 DEF Inv, KeptApart
  <2>2. QED
    BY <2>1, ZenonT(30) DEF KeptApart, workerVars
<1>9. QED
  BY <1>2, <1>5, <1>6, <1>7, <1>8, FewerWires DEF Inv, Apart

LEMMA InsertUrlInv == ASSUME Inv, NEW m \in Machines, InsertUrl(m) PROVE Inv'
<1>0. TypeOK /\ TypeOK'
  BY ServeTyped DEF Inv, Serve
<1>1. PICK l \in server[m].rest :
        /\ inserted' = [inserted EXCEPT ![m][l] = @ + 1]
        /\ server' = [server EXCEPT ![m].rest = @ \ {l}]
  BY DEF InsertUrl, Inserting
<1>2. UNCHANGED <<workerVars, wire, down>> /\ server[m].doing = "insert"
  BY DEF InsertUrl
<1>3. l \in Links /\ l \in found /\ Owner[l] = m
  BY <1>0, <1>1 DEF Inv, Served, TypeOK
<1>4. /\ server'[m].doing = "insert" /\ server'[m].rest = server[m].rest \ {l}
      /\ \A n \in Machines \ {m} : server'[n] = server[n]
  BY <1>0, <1>1, <1>2 DEF TypeOK, ServerStates
<1>5. /\ inserted'[m][l] = inserted[m][l] + 1
      /\ \A n \in Machines, k \in Links : ~(n = m /\ k = l) => inserted'[n][k] = inserted[n][k]
  BY <1>0, <1>1, <1>3 DEF TypeOK
<1>6. inserted[m][l] = 0
  BY <1>1, <1>3 DEF Inv, KeptApart
<1>7. Served' /\ Unended'
  BY <1>2, <1>4 DEF Inv, Served, Unended, Up, workerVars
<1>8. RestApart'
  BY <1>2, <1>4 DEF Inv, Apart, RestApart, workerVars
<1>9. KeptApart'
  <2>1. /\ \A n, p \in Machines : l \notin buffer[n][p]
        /\ \A t \in Threads : pc[t] = "connect" => l \notin batch[t]
        /\ \A c \in DOMAIN wire : l \notin c
    BY <1>1 DEF Inv, Apart, RestApart
  <2>2. \A n \in Machines : l \notin server'[n].rest
    BY <1>3, <1>4 DEF Inv, Served
  <2>3. ASSUME NEW n \in Machines, NEW k \in Links, inserted'[n][k] # 0
        PROVE  /\ n = Owner[k] /\ inserted'[n][k] = 1 /\ k \in found
               /\ \A q, p \in Machines : k \notin buffer[q][p]
               /\ \A s \in Threads : pc[s] = "connect" => k \notin batch[s]
               /\ \A c \in DOMAIN wire : k \notin c
               /\ \A q \in Machines : k \notin server'[q].rest
    <3>1. CASE n = m /\ k = l
      BY <1>3, <1>5, <1>6, <2>1, <2>2, <3>1
    <3>2. CASE ~(n = m /\ k = l)
      BY <1>4, <1>5, <2>3, <3>2 DEF Inv, KeptApart
    <3>3. QED
      BY <3>1, <3>2
  <2>4. QED
    BY <1>2, <2>3 DEF KeptApart, workerVars
<1>10. QED
  BY <1>0, <1>2, <1>7, <1>8, <1>9, FewerWires DEF Inv, Apart

LEMMA ServeInv == ASSUME Inv, NEW m \in Machines, Serve(m) PROVE Inv'
<1>0. TypeOK /\ TypeOK'
  BY ServeTyped DEF Inv
<1> DEFINE b == server[m].of
<1>1. CASE Read(m)
  <2>1. \/ server' = [server EXCEPT ![m] = Serving("insert", b, b)]
        \/ server' = [server EXCEPT ![m] = Accepting]
    BY <1>1 DEF Read
  <2>2. server[m].doing = "read" /\ wire' = WithoutWire({b}) /\ UNCHANGED <<workerVars, inserted, down>>
    BY <1>1 DEF Read
  <2>3. QED
    BY <1>0, <2>1, <2>2, DoneReading
<1>2. CASE ReadTimesOut(m)
  BY <1>0, <1>2, DoneReading DEF ReadTimesOut
<1>3. CASE Acknowledge(m)
  <2>1. /\ UNCHANGED <<workerVars, wire, inserted, down>> /\ server[m].rest = {}
        /\ server' = [server EXCEPT ![m] = Accepting]
    BY <1>3 DEF Acknowledge
  <2>2. /\ server'[m].doing = "accept" /\ server'[m].rest = {}
        /\ \A n \in Machines \ {m} : server'[n] = server[n]
    BY <1>0, <2>1 DEF TypeOK, Accepting, Serving
  <2>3. Served' /\ Unended'
    BY <2>1, <2>2 DEF Inv, Served, Unended, Up, workerVars
  <2>4. RestApart' /\ KeptApart'
    BY <2>1, <2>2, NothingNew
  <2>5. QED
    BY <1>0, <2>1, <2>3, <2>4, FewerWires DEF Inv, Apart
<1>4. QED
  BY <1>1, <1>2, <1>3, AcceptInv, InsertUrlInv DEF Serve

LEMMA CrashInv == ASSUME Inv, NEW m \in Machines, Crash(m) PROVE Inv'
<1>0. TypeOK /\ TypeOK'
  BY CrashTyped DEF Inv
<1>1. /\ UNCHANGED <<workerVars, inserted>> /\ down' = down \cup {m}
      /\ server' = [server EXCEPT ![m] = Accepting]
  BY DEF Crash
<1>2. /\ DOMAIN wire' = {c \in DOMAIN wire : wire[c].to # m}
      /\ \A c \in DOMAIN wire' : wire'[c].to = wire[c].to
      /\ \A c \in DOMAIN wire' : c \notin Unsent(m) => wire'[c] = wire[c]
  BY <1>0 DEF Crash, TypeOK, WireOK
<1>3. /\ server'[m].doing = "accept" /\ server'[m].rest = {}
      /\ \A n \in Machines \ {m} : server'[n] = server[n]
  BY <1>0, <1>1 DEF TypeOK, Accepting, Serving
<1>4. Served'
  BY <1>1, <1>2, <1>3 DEF Inv, Served, workerVars
<1>5. Unended'
  <2> SUFFICES ASSUME NEW t \in Threads, MachineOf[t] \notin down', pc[t] = "send",
                      batch[t] \in DOMAIN wire'
               PROVE  ~wire'[batch[t]].shut
    BY <1>1 DEF Unended, Up, workerVars
  <2>1. Carries(t) /\ batch[t] # {}
    BY TravelsNonEmpty DEF Inv, Carried, Carries
  <2>2. batch[t] \notin Unsent(m)
    BY <1>1, <2>1 DEF Inv, Apart, HandsApart, Unsent, Carries
  <2>3. QED
    BY <1>1, <1>2, <2>2 DEF Inv, Unended, Up
<1>6. RestApart' /\ KeptApart'
  <2>1. \A c \in DOMAIN wire' : c \in DOMAIN wire /\ wire'[c].to = wire[c].to
    BY <1>2
  <2>2. \A n \in Machines : server'[n].rest \subseteq server[n].rest
    BY <1>3
  <2>3. QED
    BY <1>1, <2>1, <2>2, NothingNew
<1>7. QED
  BY <1>0, <1>1, <1>2, <1>4, <1>5, <1>6, FewerWires DEF Inv, Apart

LEMMA StepInv == Inv /\ [Next]_vars => Inv'
BY RouteInv, WorkInv, ServeInv, CrashInv, StutterInv DEF Next

-----------------------------------------------------------------------------
(* Every step is one of LinkPromise, or none. *)

\* With the invariant, the places of links come down to this.
Where(l) ==
    IF inserted[Owner[l]][l] # 0 THEN "kept"
    ELSE IF l \notin found THEN "new"
    ELSE IF l \in Held THEN "waiting"
    ELSE "lost"

LEMMA HeldIs ==
    Inv => \A l \in Links : l \in Held => l \in found /\ inserted[Owner[l]][l] = 0
<1> SUFFICES ASSUME Inv, NEW l \in Links, l \in Held
             PROVE  l \in found /\ inserted[Owner[l]][l] = 0
  OBVIOUS
<1>1. l \in found
  BY DEF Held, IsHeld, InBuffer, InHand, OnWire, WithServer, Inv, Collected, Carried, Wired, Served,
         Travels, Carries
<1>2. \A n \in Machines : inserted[n][l] = 0
  BY DEF Held, IsHeld, InBuffer, InHand, OnWire, WithServer, Inv, KeptApart
<1>3. QED
  BY <1>1, <1>2, LinkAssumption

PlacesPlain == \A l \in Links : PlaceOf(l) = Where(l)

LEMMA PlaceIs == Inv => PlacesPlain
<1> SUFFICES ASSUME Inv, NEW l \in Links PROVE PlaceOf(l) = Where(l)
  BY DEF PlacesPlain
<1>1. Owner[l] \in Machines /\ \A n \in Machines : inserted[n][l] \in Nat
  BY LinkAssumption DEF Inv, TypeOK
<1>2. \A n \in Machines : inserted[n][l] # 0 => n = Owner[l] /\ inserted[n][l] = 1
  BY DEF Inv, KeptApart
<1>3. Insertions(l) = IF inserted[Owner[l]][l] # 0 THEN {Owner[l]} ELSE {}
  BY <1>1, <1>2 DEF Insertions
<1>4. l \in Held <=> IsHeld(l)
  BY DEF Held
<1>5. QED
  BY <1>1, <1>2, <1>3, <1>4, HeldIs DEF PlaceOf, Where

LEMMA PlaceIsThen == Inv' => PlacesPlain'
BY PlaceIs, PTL

LEMMA StutterMaps ==
    ASSUME Inv, Inv', UNCHANGED <<found, inserted, down, failures>>, Held' = Held
    PROVE  UNCHANGED Promise!vars
<1>1. \A l \in Links : Where(l)' = Where(l)
  BY DEF Where
<1>2. QED
  BY <1>1, PlaceIs, PlaceIsThen DEF PlacesPlain, Promise!vars

LEMMA LoseMaps ==
    ASSUME Inv, Inv', NEW m \in Machines, NEW p \in Machines, NEW ls \in SUBSET Links,
           Travels(ls, m, p), ls \subseteq Held, Held' = Held \ ls,
           UNCHANGED <<found, inserted, down>>,
           failures' = failures + 1 \/ (p \in down /\ UNCHANGED failures)
    PROVE  Promise!Next
<1>1. \A l \in ls : Where(l) = "waiting" /\ FoundOn[l] = m /\ Owner[l] = p
  BY HeldIs DEF Where, Travels
<1>2. \A l \in Links : Where(l)' = IF l \in ls THEN "lost" ELSE Where(l)
  BY HeldIs DEF Where
<1>3. Promise!Lose(m, p)
  <2>1. ls \in SUBSET Promise!Waiting(m, p)
    BY <1>1, PlaceIs DEF PlacesPlain, Promise!Waiting
  <2>2. Promise!Place(ls, "lost")
    BY <1>2, PlaceIs, PlaceIsThen DEF PlacesPlain, Promise!Place
  <2>3. Promise!Cardinality(ls) = Cardinality(ls)
    BY DEF Promise!Cardinality, Cardinality
  <2>4. QED
    BY <2>1, <2>2, <2>3 DEF Promise!Lose, Travels
<1>4. QED
  BY <1>3 DEF Promise!Next

LEMMA RouteMaps == ASSUME Inv, Inv', NEW t \in Threads, Route(t) PROVE Promise!Next
<1> DEFINE m == MachineOf[t]
<1>0. TypeOK
  BY DEF Inv
<1>1. PICK l \in ToFind(m) : found' = found \cup {l} /\ (RouteHome(t, l) \/ RouteAway(t, l))
  BY DEF Route
<1>2. /\ l \in Links /\ l \notin found /\ FoundOn[l] = m /\ m \in Machines \ down
      /\ UNCHANGED <<batch, wire, server, down, failures>> /\ pc[t] = "idle"
      /\ Owner[l] \in Machines
  BY LinkAssumption DEF Route, ToFind, Up
<1>3. inserted[Owner[l]][l] = 0 /\ l \notin Held
  BY <1>2, NewIsNowhere, HeldIs
<1>4. \A s \in Threads : pc'[s] = "connect" <=> pc[s] = "connect"
  BY <1>0, <1>1, <1>2 DEF RouteHome, RouteAway, Goto, TypeOK
<1>5. /\ Where(l) = "new" /\ Where(l)' = IF Owner[l] = m THEN "kept" ELSE "waiting"
      /\ \A k \in Links \ {l} : Where(k)' = Where(k)
  <2>1. CASE RouteHome(t, l)
    <3>1. buffer' = buffer /\ inserted' = [inserted EXCEPT ![m][l] = @ + 1] /\ Owner[l] = m
      BY <2>1 DEF RouteHome, Inserting
    <3>2. /\ inserted'[m][l] = 1
          /\ \A k \in Links \ {l}, n \in Machines : inserted'[n][k] = inserted[n][k]
      BY <1>0, <1>2, <1>3, <3>1 DEF TypeOK
    <3>3. Held' = Held
      BY <1>2, <1>4, <3>1 DEF Held, IsHeld, InBuffer, InHand, OnWire, WithServer, Up
    <3>4. QED
      BY <1>1, <1>2, <1>3, <3>1, <3>2, <3>3, LinkAssumption DEF Where
  <2>2. CASE RouteAway(t, l)
    <3>1. /\ buffer' = [buffer EXCEPT ![m][Owner[l]] = @ \cup {l}] /\ inserted' = inserted
          /\ Owner[l] # m
      BY <2>2 DEF RouteAway
    <3>2. \A n, q \in Machines :
            buffer'[n][q] = IF n = m /\ q = Owner[l] THEN buffer[n][q] \cup {l} ELSE buffer[n][q]
      BY <1>0, <1>2, <3>1 DEF TypeOK
    <3>3. \A k \in Links : InBuffer(k)' <=> InBuffer(k) \/ k = l
      <4>1. l \in buffer'[m][Owner[l]]
        BY <1>2, <3>2
      <4>2. \A k \in Links \ {l} : \A n, q \in Machines :
              k \in buffer'[n][q] <=> k \in buffer[n][q]
        BY <3>2
      <4>3. QED
        BY <1>2, <4>1, <4>2 DEF InBuffer
    <3>4. \A k \in Links : /\ InHand(k)' <=> InHand(k)
                           /\ OnWire(k)' <=> OnWire(k)
                           /\ WithServer(k)' <=> WithServer(k)
      BY <1>2, <1>4 DEF InHand, OnWire, WithServer, Up
    <3>5. Held' = Held \cup {l}
      BY <1>2, <3>3, <3>4 DEF Held, IsHeld
    <3>6. QED
      BY <1>1, <1>2, <1>3, <3>1, <3>5 DEF Where
  <2>3. QED
    BY <1>1, <2>1, <2>2
<1>6. Promise!Find(l)
  BY <1>2, <1>5, PlaceIs, PlaceIsThen DEF PlacesPlain, Promise!Find, Promise!Place
<1>7. QED
  BY <1>2, <1>6 DEF Promise!Next

\* A batch goes from the buffer into the worker's hands; no link changes its place.
LEMMA TakeMaps ==
    ASSUME Inv, Inv', NEW t \in Threads, Take(t) PROVE UNCHANGED Promise!vars
<1> DEFINE m == MachineOf[t]
<1>0. TypeOK /\ m \in Machines
  BY LinkAssumption DEF Inv
<1>1. PICK p \in Machines : p = peer[t]
  BY <1>0 DEF TypeOK
<1>2. /\ pc[t] = "take" /\ m \notin down
      /\ UNCHANGED <<found, wire, server, inserted, down, failures>>
  BY DEF Take, Up
<1>3. \A l \in Links : /\ OnWire(l)' <=> OnWire(l)
                       /\ WithServer(l)' <=> WithServer(l)
  BY <1>2 DEF OnWire, WithServer
<1>4. CASE Cardinality(buffer[m][p]) > BatchSize
  <2>1. /\ batch' = [batch EXCEPT ![t] = buffer[m][p]]
        /\ buffer' = [buffer EXCEPT ![m][p] = {}]
        /\ pc' = [pc EXCEPT ![t] = "connect"]
    BY <1>1, <1>4 DEF Take, Goto
  <2>2. \A n, q \in Machines : buffer'[n][q] = IF n = m /\ q = p THEN {} ELSE buffer[n][q]
    BY <1>0, <2>1 DEF TypeOK
  <2>3. /\ batch'[t] = buffer[m][p] /\ pc'[t] = "connect"
        /\ \A s \in Threads \ {t} : batch'[s] = batch[s] /\ pc'[s] = pc[s]
    BY <1>0, <1>2, <2>1 DEF TypeOK
  <2>4. \A l \in Links : InHand(l)' <=> InHand(l) \/ l \in buffer[m][p]
    BY <1>2, <2>3 DEF InHand, Up
  <2>5. \A l \in Links : InBuffer(l) <=> InBuffer(l)' \/ l \in buffer[m][p]
    BY <1>0, <1>2, <2>2 DEF InBuffer
  <2>6. Held' = Held
    BY <1>3, <2>4, <2>5 DEF Held, IsHeld
  <2>7. QED
    BY <1>2, <2>6, StutterMaps
<1>5. CASE ~(Cardinality(buffer[m][p]) > BatchSize)
  <2>1. Return(t) /\ buffer' = buffer
    BY <1>1, <1>5 DEF Take
  <2>2. /\ pc'[t] = "idle"
        /\ \A s \in Threads \ {t} : batch'[s] = batch[s] /\ pc'[s] = pc[s]
    BY <1>0, <2>1 DEF TypeOK, Return, Goto
  <2>3. \A l \in Links : InHand(l)' <=> InHand(l)
    BY <1>2, <2>2 DEF InHand, Up
  <2>4. \A l \in Links : InBuffer(l)' <=> InBuffer(l)
    BY <1>2, <2>1 DEF InBuffer
  <2>5. Held' = Held
    BY <1>3, <2>3, <2>4 DEF Held, IsHeld
  <2>6. QED
    BY <1>2, <2>5, StutterMaps
<1>6. QED
  BY <1>4, <1>5

LEMMA ConnectMaps ==
    ASSUME Inv, Inv', NEW t \in Threads, Connect(t) PROVE UNCHANGED Promise!vars
<1> DEFINE b == batch[t]
<1>0. TypeOK
  BY DEF Inv
<1>1. /\ pc[t] = "connect" /\ Up(t) /\ wire' = WithWire(b, Connection(peer[t], {}, FALSE))
      /\ pc' = [pc EXCEPT ![t] = "send"]
      /\ UNCHANGED <<found, buffer, batch, server, inserted, down, failures>>
  BY DEF Connect, Goto
<1>2. b \notin DOMAIN wire
  BY <1>1, TravelsNonEmpty DEF Inv, Carried, Carries, Apart, HandsOffWire
<1>3. /\ DOMAIN wire' = DOMAIN wire \cup {b} /\ wire'[b].shut = FALSE
      /\ \A c \in DOMAIN wire : wire'[c] = wire[c]
  BY <1>1, <1>2 DEF WithWire, Connection
<1>4. pc'[t] = "send" /\ \A s \in Threads \ {t} : pc'[s] = pc[s]
  BY <1>0, <1>1 DEF TypeOK
<1>5. \A l \in Links : /\ OnWire(l)' <=> OnWire(l) \/ l \in b
                       /\ InHand(l) <=> InHand(l)' \/ l \in b
                       /\ InBuffer(l)' <=> InBuffer(l)
                       /\ WithServer(l)' <=> WithServer(l)
  <2>1. \A l \in Links : OnWire(l)' <=> OnWire(l) \/ l \in b
    BY <1>3 DEF OnWire
  <2>2. \A l \in Links : InHand(l) <=> InHand(l)' \/ l \in b
    BY <1>1, <1>4 DEF InHand, Up
  <2>3. QED
    BY <1>1, <2>1, <2>2 DEF InBuffer, WithServer
<1>6. Held' = Held
  BY <1>5 DEF Held, IsHeld
<1>7. QED
  BY <1>1, <1>6, StutterMaps

\* A worker that has nothing in hand but what it loses returns.
LEMMA ReturnHolds ==
    ASSUME Inv, NEW t \in Threads, Return(t), pc[t] \in {"connect", "recv"}, Up(t),
           UNCHANGED <<buffer, wire, server, down>>
    PROVE  Held' = IF pc[t] = "connect" THEN Held \ batch[t] ELSE Held
<1>1. /\ pc'[t] = "idle"
      /\ \A s \in Threads \ {t} : batch'[s] = batch[s] /\ pc'[s] = pc[s]
  BY DEF Inv, TypeOK, Return, Goto
<1>2. \A l \in Links : /\ OnWire(l)' <=> OnWire(l)
                       /\ InBuffer(l)' <=> InBuffer(l)
                       /\ WithServer(l)' <=> WithServer(l)
  BY DEF OnWire, InBuffer, WithServer
<1>3. CASE pc[t] = "connect"
  <2>1. \A l \in Links : InHand(l) <=> InHand(l)' \/ l \in batch[t]
    BY <1>1, <1>3 DEF InHand, Up
  <2>2. ASSUME NEW l \in batch[t]
        PROVE  ~OnWire(l) /\ ~InBuffer(l) /\ ~WithServer(l) /\ ~InHand(l)'
    <3>1. ~OnWire(l) /\ ~InBuffer(l) /\ ~WithServer(l)
      BY <1>3 DEF OnWire, InBuffer, WithServer, Inv, Apart, HandsOffWire, HandsOffBuffers,
                  RestApart, Carries
    <3>2. ~InHand(l)'
      BY <1>1, <1>3 DEF InHand, Inv, Apart, HandsApart, Carries
    <3>3. QED
      BY <3>1, <3>2
  <2>3. QED
    BY <1>2, <1>3, <2>1, <2>2 DEF Held, IsHeld
<1>4. CASE pc[t] = "recv"
  <2>1. \A l \in Links : InHand(l) <=> InHand(l)'
    BY <1>1, <1>4 DEF InHand, Up
  <2>2. QED
    BY <1>2, <1>4, <2>1 DEF Held, IsHeld
<1>5. QED
  BY <1>3, <1>4

\* Of a connection that a worker has written to, only the whole batch is held.
LEMMA SentHolds ==
    ASSUME Inv, NEW t \in Threads, NEW came, pc[t] = "send", Up(t),
           batch[t] \in DOMAIN wire,
           wire' = WithWire(batch[t], Connection(peer[t], came, TRUE)),
           pc' = [pc EXCEPT ![t] = "recv"],
           UNCHANGED <<buffer, batch, server, down>>
    PROVE  /\ batch[t] \cap Links \subseteq Held
           /\ Held' = IF came = batch[t] THEN Held ELSE Held \ batch[t]
<1> DEFINE b == batch[t]
<1>1. DOMAIN wire' = DOMAIN wire /\ \A c \in DOMAIN wire \ {b} : wire'[c] = wire[c]
  BY DEF WithWire
<1>2. wire'[b].shut = TRUE /\ wire'[b].came = came /\ ~wire[b].shut
  BY DEF WithWire, Connection, Inv, Unended
<1>3. \A s \in Threads : pc'[s] = "connect" <=> pc[s] = "connect"
  BY DEF Inv, TypeOK
<1>4. \A l \in Links : /\ InHand(l)' <=> InHand(l)
                       /\ InBuffer(l)' <=> InBuffer(l)
                       /\ WithServer(l)' <=> WithServer(l)
  BY <1>3 DEF InHand, InBuffer, WithServer, Up
<1>5. \A l \in b : OnWire(l)
  BY <1>2 DEF OnWire
<1>6. CASE came = b
  <2>1. \A l \in Links : OnWire(l)' <=> OnWire(l)
    <3>1. ASSUME NEW c \in DOMAIN wire
          PROVE  (wire'[c].shut => wire'[c].came = c) <=> (wire[c].shut => wire[c].came = c)
      <4>1. CASE c = b
        BY <1>2, <1>6, <4>1
      <4>2. CASE c # b
        BY <1>1, <4>2
      <4>3. QED
        BY <4>1, <4>2
    <3>2. QED
      BY <1>1, <3>1 DEF OnWire
  <2>2. QED
    BY <1>4, <1>5, <1>6, <2>1 DEF Held, IsHeld
<1>7. CASE came # b
  <2>1. \A l \in Links : OnWire(l) <=> OnWire(l)' \/ l \in b
    BY <1>1, <1>2, <1>7 DEF OnWire
  <2>2. ASSUME NEW l \in b
        PROVE  ~OnWire(l)' /\ ~InBuffer(l) /\ ~WithServer(l) /\ ~InHand(l)
    <3>1. ~OnWire(l)'
      BY <1>1, <1>2, <1>7 DEF OnWire, Inv, Apart, WiresApart
    <3>2. ~InBuffer(l) /\ ~WithServer(l) /\ ~InHand(l)
      BY DEF InBuffer, WithServer, InHand, Inv, Apart, WireOffBuffers, RestApart, HandsOffWire
    <3>3. QED
      BY <3>1, <3>2
  <2>3. QED
    BY <1>4, <1>5, <1>7, <2>1, <2>2 DEF Held, IsHeld
<1>8. QED
  BY <1>6, <1>7

LEMMA WorkMaps ==
    ASSUME Inv, Inv', NEW t \in Threads, Work(t)
    PROVE  Promise!Next \/ UNCHANGED Promise!vars
<1> DEFINE m == MachineOf[t]
<1>0. TypeOK /\ m \in Machines /\ batch[t] \in SUBSET Links /\ failures \in Nat
  BY LinkAssumption DEF Inv, TypeOK
<1>1. PICK p \in Machines : p = peer[t]
  BY <1>0 DEF TypeOK
<1>2. CASE ConnectFails(t)
  <2>1. /\ pc[t] = "connect" /\ Up(t) /\ Return(t)
        /\ UNCHANGED <<found, buffer, wire, server, inserted, down>>
        /\ failures' = failures + 1 \/ (p \in down /\ UNCHANGED failures)
    BY <1>1, <1>2 DEF ConnectFails, Failure
  <2>2. Travels(batch[t], m, p)
    BY <1>1, <2>1 DEF Inv, Carried, Carries
  <2>3. batch[t] \subseteq Held
    BY <1>0, <2>1 DEF Held, IsHeld, InHand
  <2>4. Held' = Held \ batch[t]
    BY <2>1, ReturnHolds
  <2>5. QED
    BY <1>0, <2>1, <2>2, <2>3, <2>4, LoseMaps
<1>3. CASE Send(t)
  <2>1. /\ pc[t] = "send" /\ Up(t) /\ pc' = [pc EXCEPT ![t] = "recv"]
        /\ UNCHANGED <<found, buffer, batch, server, inserted, down, failures>>
    BY <1>3 DEF Send, Goto
  <2>2. CASE batch[t] \in DOMAIN wire
    BY <1>3, <2>1, <2>2, SentHolds, StutterMaps DEF Send
  <2>3. CASE batch[t] \notin DOMAIN wire
    <3>1. wire' = wire
      BY <1>3, <2>3 DEF Send
    <3>2. \A s \in Threads : pc'[s] = "connect" <=> pc[s] = "connect"
      BY <1>0, <2>1 DEF TypeOK
    <3>3. Held' = Held
      BY <2>1, <3>1, <3>2 DEF Held, IsHeld, InBuffer, InHand, OnWire, WithServer, Up
    <3>4. QED
      BY <2>1, <3>3, StutterMaps
  <2>4. QED
    BY <2>2, <2>3
<1>4. CASE SendPart(t)
  <2>1. PICK part \in (SUBSET batch[t]) \ {batch[t]} :
          wire' = WithWire(batch[t], Connection(peer[t], part, TRUE))
    BY <1>4 DEF SendPart
  <2>2. /\ pc[t] = "send" /\ Up(t) /\ pc' = [pc EXCEPT ![t] = "recv"]
        /\ batch[t] \in DOMAIN wire /\ failures' = failures + 1
        /\ UNCHANGED <<found, buffer, batch, server, inserted, down>>
    BY <1>4 DEF SendPart, Failure, Goto
  <2>3. Travels(batch[t], m, p)
    BY <1>1, <2>2 DEF Inv, Carried, Carries
  <2>4. batch[t] \subseteq Held /\ Held' = Held \ batch[t]
    BY <1>0, <2>1, <2>2, SentHolds
  <2>5. QED
    BY <1>0, <2>2, <2>3, <2>4, LoseMaps
<1>5. CASE Acknowledged(t)
  BY <1>5, ReturnHolds, StutterMaps DEF Acknowledged
<1>6. QED
  BY <1>2, <1>3, <1>4, <1>5, TakeMaps, ConnectMaps DEF Work

\* The server thread takes what it has read off the wire.
LEMMA ReadHolds ==
    ASSUME Inv, NEW m \in Machines, NEW b, NEW rest,
           server[m].doing = "read", b = server[m].of,
           wire' = WithoutWire({b}),
           \/ rest = {} /\ server' = [server EXCEPT ![m] = Accepting]
           \/ rest = b /\ server' = [server EXCEPT ![m] = Serving("insert", b, rest)],
           UNCHANGED <<workerVars, down>>
    PROVE  \/ (wire[b].shut => wire[b].came = b) /\ b \subseteq Held
                /\ Held' = IF rest = b THEN Held ELSE Held \ b
           \/ ~(wire[b].shut => wire[b].came = b) /\ (rest = {} => Held' = Held)
<1>0. TypeOK /\ b \in DOMAIN wire /\ b \subseteq Links /\ server[m].rest = {}
  <2>1. TypeOK
    BY DEF Inv
  <2>2. b \in DOMAIN wire /\ server[m].rest = {}
    BY DEF Inv, Served
  <2>3. QED
    BY <2>1, <2>2 DEF TypeOK, WireOK
<1>1. /\ server'[m].rest = rest
      /\ \A n \in Machines \ {m} : server'[n] = server[n]
  <2>1. DOMAIN server = Machines
    BY <1>0 DEF TypeOK
  <2>2. QED
    BY <2>1 DEF Serving, Accepting
<1>2. DOMAIN wire' = DOMAIN wire \ {b} /\ \A c \in DOMAIN wire' : wire'[c] = wire[c]
  BY DEF WithoutWire
<1>3. \A l \in Links : /\ InHand(l)' <=> InHand(l)
                       /\ InBuffer(l)' <=> InBuffer(l)
                       /\ WithServer(l)' <=> WithServer(l) \/ l \in rest
  <2>1. \A l \in Links : WithServer(l)' <=> WithServer(l) \/ l \in rest
    BY <1>0, <1>1 DEF WithServer
  <2>2. QED
    BY <2>1 DEF InHand, InBuffer, Up, workerVars
<1>4. CASE wire[b].shut => wire[b].came = b
  <2>1. ASSUME NEW l \in Links PROVE OnWire(l) <=> OnWire(l)' \/ l \in b
    <3>1. ASSUME OnWire(l) PROVE OnWire(l)' \/ l \in b
      <4>1. PICK c \in DOMAIN wire : l \in c /\ (wire[c].shut => wire[c].came = c)
        BY <3>1 DEF OnWire
      <4>2. c = b \/ (c \in DOMAIN wire' /\ wire'[c] = wire[c])
        BY <1>2
      <4>3. QED
        BY <4>1, <4>2 DEF OnWire
    <3>2. ASSUME OnWire(l)' PROVE OnWire(l)
      <4>1. PICK c \in DOMAIN wire' : l \in c /\ (wire'[c].shut => wire'[c].came = c)
        BY <3>2 DEF OnWire
      <4>2. c \in DOMAIN wire /\ wire'[c] = wire[c]
        BY <1>2
      <4>3. QED
        BY <4>1, <4>2 DEF OnWire
    <3>3. l \in b => OnWire(l)
      BY <1>0, <1>4 DEF OnWire
    <3>4. QED
      BY <3>1, <3>2, <3>3
  <2>2. ASSUME NEW l \in b
        PROVE  ~OnWire(l)' /\ ~InBuffer(l) /\ ~WithServer(l) /\ ~InHand(l)
    <3>1. ~OnWire(l)'
      BY <1>0, <1>2 DEF OnWire, Inv, Apart, WiresApart
    <3>2. ~InBuffer(l) /\ ~WithServer(l) /\ ~InHand(l)
      BY <1>0 DEF InBuffer, WithServer, InHand, Inv, Apart, WireOffBuffers, RestApart,
                  HandsOffWire
    <3>3. QED
      BY <3>1, <3>2
  <2>3. QED
    BY <1>0, <1>3, <1>4, <2>1, <2>2 DEF Held, IsHeld
<1>5. CASE ~(wire[b].shut => wire[b].came = b)
  <2>1. wire[b].shut /\ wire[b].came # b
    BY <1>5
  <2>2. ASSUME NEW l \in Links, OnWire(l) PROVE OnWire(l)'
    <3>1. PICK c \in DOMAIN wire : l \in c /\ (wire[c].shut => wire[c].came = c)
      BY <2>2 DEF OnWire
    <3>2. c \in DOMAIN wire' /\ wire'[c] = wire[c]
      BY <1>2, <2>1, <3>1
    <3>3. QED
      BY <3>1, <3>2 DEF OnWire
  <2>3. \A l \in Links : OnWire(l)' => OnWire(l)
    BY <1>2 DEF OnWire
  <2>4. QED
    BY <1>3, <1>5, <2>2, <2>3 DEF Held, IsHeld
<1>6. QED
  BY <1>4, <1>5

\* A server thread that has nothing to insert changes nothing.
LEMMA IdleMaps ==
    ASSUME Inv, Inv', NEW m \in Machines, NEW s, s.rest = {}, server[m].rest = {},
           server' = [server EXCEPT ![m] = s],
           UNCHANGED <<workerVars, wire, inserted, down, failures>>
    PROVE  UNCHANGED Promise!vars
<1>1. server'[m].rest = {} /\ \A n \in Machines \ {m} : server'[n] = server[n]
  <2>1. DOMAIN server = Machines
    BY DEF Inv, TypeOK
  <2>2. QED
    BY <2>1
<1>2. \A l \in Links : /\ InHand(l)' <=> InHand(l)
                       /\ InBuffer(l)' <=> InBuffer(l)
                       /\ OnWire(l)' <=> OnWire(l)
                       /\ WithServer(l)' <=> WithServer(l)
  BY <1>1 DEF InHand, InBuffer, OnWire, WithServer, Up, workerVars
<1>3. Held' = Held
  BY <1>2 DEF Held, IsHeld
<1>4. QED
  BY <1>3, StutterMaps DEF workerVars

LEMMA InsertUrlMaps ==
    ASSUME Inv, Inv', NEW m \in Machines, InsertUrl(m) PROVE Promise!Next
<1>0. TypeOK
  BY DEF Inv
<1>1. PICK l \in server[m].rest :
        /\ inserted' = [inserted EXCEPT ![m][l] = @ + 1]
        /\ server' = [server EXCEPT ![m].rest = @ \ {l}]
  BY DEF InsertUrl, Inserting
<1>2. UNCHANGED <<workerVars, wire, down, failures>> /\ m \notin down
  BY DEF InsertUrl
<1>3. l \in Links /\ l \in found /\ Owner[l] = m
  BY <1>0, <1>1 DEF Inv, Served, TypeOK, ServerStates
<1>4. /\ server'[m].rest = server[m].rest \ {l}
      /\ \A n \in Machines \ {m} : server'[n] = server[n]
  BY <1>0, <1>1 DEF TypeOK, ServerStates
<1>5. l \in Held /\ inserted[m][l] = 0
  <2>1. l \in Held
    BY <1>1, <1>3 DEF Held, IsHeld, WithServer
  <2>2. QED
    BY <1>3, <2>1, HeldIs
<1>6. /\ inserted'[m][l] = 1
      /\ \A k \in Links \ {l}, n \in Machines : inserted'[n][k] = inserted[n][k]
  BY <1>0, <1>1, <1>3, <1>5 DEF TypeOK
<1>7. \A k \in Links \ {l} : k \in Held' <=> k \in Held
  <2>1. \A k \in Links \ {l} : WithServer(k)' <=> WithServer(k)
    BY <1>4 DEF WithServer
  <2>2. \A k \in Links : /\ InHand(k)' <=> InHand(k)
                         /\ InBuffer(k)' <=> InBuffer(k)
                         /\ OnWire(k)' <=> OnWire(k)
    BY <1>2 DEF InHand, InBuffer, OnWire, Up, workerVars
  <2>3. QED
    BY <2>1, <2>2 DEF Held, IsHeld
<1>8. /\ Where(l) = "waiting" /\ Where(l)' = "kept"
      /\ \A k \in Links \ {l} : Where(k)' = Where(k)
  BY <1>2, <1>3, <1>5, <1>6, <1>7, LinkAssumption DEF Where, workerVars
<1>9. Promise!Keep(l)
  BY <1>2, <1>3, <1>8, PlaceIs, PlaceIsThen DEF PlacesPlain, Promise!Keep, Promise!Place
<1>10. QED
  BY <1>3, <1>9 DEF Promise!Next

LEMMA ServeMaps ==
    ASSUME Inv, Inv', NEW m \in Machines, Serve(m)
    PROVE  Promise!Next \/ UNCHANGED Promise!vars
<1> DEFINE b == server[m].of
<1>1. CASE Accept(m)
  <2>1. PICK c : server' = [server EXCEPT ![m] = Serving("read", c, {})]
    BY <1>1 DEF Accept
  <2>2. Serving("read", c, {}).rest = {} /\ server[m].rest = {}
    BY <1>1 DEF Accept, Serving, Accepting
  <2>3. UNCHANGED <<workerVars, wire, inserted, down, failures>>
    BY <1>1 DEF Accept
  <2>4. QED
    BY <2>1, <2>2, <2>3, IdleMaps
<1>2. CASE Read(m)
  <2>1. /\ server[m].doing = "read" /\ wire' = WithoutWire({b}) /\ wire[b].shut
        /\ UNCHANGED <<workerVars, inserted, down, failures>>
    BY <1>2 DEF Read
  <2>2. CASE wire[b].came = b
    <3>1. server' = [server EXCEPT ![m] = Serving("insert", b, b)]
      BY <1>2, <2>2 DEF Read
    <3>2. Held' = Held
      BY <2>1, <2>2, <3>1, ReadHolds
    <3>3. QED
      BY <2>1, <3>2, StutterMaps DEF workerVars
  <2>3. CASE wire[b].came # b
    <3>1. server' = [server EXCEPT ![m] = Accepting]
      BY <1>2, <2>3 DEF Read
    <3>2. Held' = Held
      BY <2>1, <2>3, <3>1, ReadHolds
    <3>3. QED
      BY <2>1, <3>2, StutterMaps DEF workerVars
  <2>4. QED
    BY <2>2, <2>3
<1>3. CASE ReadTimesOut(m)
  <2>1. /\ server[m].doing = "read" /\ wire' = WithoutWire({b}) /\ ~wire[b].shut
        /\ server' = [server EXCEPT ![m] = Accepting]
        /\ failures' = failures + 1
        /\ UNCHANGED <<workerVars, inserted, down>>
    BY <1>3 DEF ReadTimesOut, Failure
  <2>2. b \in DOMAIN wire /\ wire[b].to = m /\ b \subseteq Links
    BY <2>1 DEF Inv, Served, TypeOK, WireOK
  <2>3. PICK k \in Machines : Travels(b, k, m)
    BY <2>2 DEF Inv, Wired
  <2>4. b \subseteq Held /\ Held' = Held \ b
    <3>1. b # {}
      BY <2>3, TravelsNonEmpty
    <3>2. QED
      BY <2>1, <3>1, ReadHolds
  <2>5. QED
    BY <2>1, <2>2, <2>3, <2>4, LoseMaps DEF workerVars
<1>4. CASE Acknowledge(m)
  <2>1. /\ server[m].rest = {} /\ server' = [server EXCEPT ![m] = Accepting]
        /\ UNCHANGED <<workerVars, wire, inserted, down, failures>>
    BY <1>4 DEF Acknowledge
  <2>2. Accepting.rest = {}
    BY DEF Accepting, Serving
  <2>3. QED
    BY <2>1, <2>2, IdleMaps
<1>5. QED
  BY <1>1, <1>2, <1>3, <1>4, InsertUrlMaps DEF Serve

LEMMA CrashMaps == ASSUME Inv, Inv', NEW m \in Machines, Crash(m) PROVE Promise!Next
<1>0. TypeOK
  BY DEF Inv
<1>1. /\ UNCHANGED <<workerVars, inserted>> /\ m \notin down /\ down' = down \cup {m}
      /\ server' = [server EXCEPT ![m] = Accepting] /\ failures' = failures + 1
  BY DEF Crash, Failure
<1>2. /\ DOMAIN wire' = {c \in DOMAIN wire : wire[c].to # m}
      /\ \A c \in DOMAIN wire' : wire'[c].came = wire[c].came
      /\ \A c \in DOMAIN wire' : wire'[c].shut <=> wire[c].shut \/ c \in Unsent(m)
  BY <1>0 DEF Crash, TypeOK, WireOK
<1>3. /\ server'[m].rest = {}
      /\ \A n \in Machines \ {m} : server'[n] = server[n]
  BY <1>0, <1>1 DEF TypeOK, Accepting, Serving
<1> DEFINE ls == {l \in Links : l \in Held /\ l \notin Held'}
<1>4. ASSUME NEW l \in Links, l \in Held'
      PROVE  l \in Held
  <2>1. InBuffer(l)' => InBuffer(l)
    BY <1>1 DEF InBuffer, workerVars
  <2>2. InHand(l)' => InHand(l)
    BY <1>1 DEF InHand, Up, workerVars
  <2>3. OnWire(l)' => OnWire(l)
    BY <1>2 DEF OnWire
  <2>4. WithServer(l)' => WithServer(l)
    BY <1>3 DEF WithServer
  <2>5. QED
    BY <1>4, <2>1, <2>2, <2>3, <2>4 DEF Held, IsHeld
<1>5. ASSUME NEW l \in ls
      PROVE  FoundOn[l] = m \/ Owner[l] = m
  <2>1. CASE InBuffer(l)
    BY <1>1, <2>1 DEF Held, IsHeld, InBuffer, Inv, Collected, workerVars
  <2>2. CASE InHand(l)
    BY <1>1, <2>2 DEF Held, IsHeld, InHand, Up, Inv, Carried, Carries, Travels, workerVars
  <2>3. CASE OnWire(l)
    <3>1. PICK b \in DOMAIN wire : l \in b /\ (wire[b].shut => wire[b].came = b)
      BY <2>3 DEF OnWire
    <3>2. CASE wire[b].to = m
      BY <3>1, <3>2 DEF Inv, Wired, Travels
    <3>3. CASE b \in Unsent(m)
      BY <3>1, <3>3 DEF Unsent, Inv, Carried, Carries, Travels
    <3>4. CASE wire[b].to # m /\ b \notin Unsent(m)
      BY <1>2, <3>1, <3>4 DEF Held, IsHeld, OnWire
    <3>5. QED
      BY <3>2, <3>3, <3>4
  <2>4. CASE WithServer(l)
    BY <1>3, <2>4 DEF Held, IsHeld, WithServer, Inv, Served
  <2>5. QED
    BY <2>1, <2>2, <2>3, <2>4 DEF Held, IsHeld
<1>6. \A l \in ls : Where(l) = "waiting"
  BY HeldIs DEF Where
<1>7. \A l \in Links : Where(l)' = IF l \in ls THEN "lost" ELSE Where(l)
  BY <1>1, <1>4, HeldIs DEF Where, workerVars
<1>8. ls \in SUBSET UNION {Promise!Waiting(m, p) \cup Promise!Waiting(p, m) : p \in Machines}
  <2>1. ASSUME NEW l \in ls
        PROVE  \E p \in Machines : l \in Promise!Waiting(m, p) \cup Promise!Waiting(p, m)
    BY <1>5, <1>6, PlaceIs, LinkAssumption DEF PlacesPlain, Promise!Waiting
  <2>2. QED
    BY <2>1
<1>9. Promise!Place(ls, "lost")
  BY <1>7, PlaceIs, PlaceIsThen DEF PlacesPlain, Promise!Place
<1>10. Promise!Crash(m)
  BY <1>1, <1>8, <1>9 DEF Promise!Crash
<1>11. QED
  BY <1>10 DEF Promise!Next

\* For any number of machines, workers, links and failures, a link comes into the
\* frontier of its owner and no other, and once, and is lost only with its whole
\* batch when something fails.
THEOREM ImplementsPromise == Spec => KeepsLinkPromise
<1>1. Init => Promise!Init
  <2> SUFFICES ASSUME Init PROVE Promise!Init
    OBVIOUS
  <2>1. Inv /\ found = {}
    BY InitInv DEF Init
  <2>2. \A l \in Links : Where(l) = "new"
    BY <2>1, NewIsNowhere, LinkAssumption DEF Where
  <2>3. QED
    BY <2>1, <2>2, PlaceIs DEF Init, PlacesPlain, Promise!Init
<1>2. Inv /\ Inv' /\ [Next]_vars => [Promise!Next]_Promise!vars
  <2> SUFFICES ASSUME Inv, Inv', [Next]_vars
               PROVE  Promise!Next \/ UNCHANGED Promise!vars
    OBVIOUS
  <2>1. CASE UNCHANGED vars
    <3>1. Held' = Held
      BY <2>1 DEF Held, IsHeld, InBuffer, InHand, OnWire, WithServer, Up, vars, workerVars
    <3>2. QED
      BY <2>1, <3>1, StutterMaps DEF vars, workerVars
  <2>2. QED
    BY <2>1, RouteMaps, WorkMaps, ServeMaps, CrashMaps DEF Next
<1>3. QED
  BY <1>1, <1>2, InitInv, StepInv, PTL DEF Spec, KeepsLinkPromise, Promise!Spec
=============================================================================
