--------------------------- MODULE WeightsProofs ---------------------------
(***************************************************************************)
(* Proofs about Weights for any queries, any number of weights, of edits   *)
(* and of opens that fail: a query that no older one can have reached is   *)
(* scored with no older weights, and what it has loaded stays.             *)
(***************************************************************************)
EXTENDS Weights, TLAPS

Places == {"idle", "load", "serialize", "apply", "score", "done"}

TypeInv ==
    /\ file \in Nat \ {0}
    /\ devMode \in BOOLEAN
    /\ leaderW \in [Keys -> Nat]
    /\ shardW \in [Keys -> Nat]
    /\ pc \in [Queries -> Places]
    /\ pos \in [Queries -> 0 .. NumKeys - 1]
    /\ read \in [Queries -> Nat]
    /\ message \in [Queries -> Seq(Nat)]
    /\ used \in [Queries -> Seq(Nat)]
    /\ faults \in Nat
    /\ crossed \subseteq Queries

(* How far a query has come *)

\* A query knows no version before it begins, and then one the file has had.
Begun ==
    \A q \in Queries :
        /\ read[q] <= file
        /\ pc[q] = "idle" => read[q] = 0 /\ pos[q] = 0

\* A message has the weights serialized so far, and all of them once it is sent.
MessageFillsOf(q) ==
    /\ pc[q] \in {"idle", "load"} => message[q] = <<>>
    /\ pc[q] = "serialize" => Len(message[q]) = pos[q]
    /\ pc[q] = "apply" => Len(message[q]) = NumKeys

MessageFills == \A q \in Queries : MessageFillsOf(q)

\* The weights a query was scored with are as many as the ranker has read.
UsedFillsOf(q) ==
    /\ pc[q] \in {"idle", "load", "serialize", "apply"} => used[q] = <<>>
    /\ pc[q] = "score" => Len(used[q]) = pos[q]
    /\ pc[q] = "done" => Len(used[q]) = NumKeys

UsedFills == \A q \in Queries : UsedFillsOf(q)

Progress == TypeInv /\ Begun /\ MessageFills /\ UsedFills

(* The weights that are about *)

\* The first n of the weights are of version v or later.
AtLeast(weights, n, v) == \A k \in 1 .. n : weights[k] >= v

\* They all are.
AllAtLeast(weights, v) == AtLeast(weights, Len(weights), v)

\* What the queries that run will still load, send and apply is.
InFlightOf(q, v) ==
    /\ pc[q] = "load" => read[q] >= v /\ AtLeast(leaderW, pos[q], v)
    /\ pc[q] = "serialize" => AtLeast(leaderW, NumKeys, v)
    /\ Running(q) => AllAtLeast(message[q], v)

InFlight(v) == \A q \in Queries : InFlightOf(q, v)

\* What a query has loaded has not been put back, nor what it has sent before the shard
\* has read it.
LoadedStays(q) == pc[q] \notin {"idle", "load"} => AtLeast(leaderW, NumKeys, read[q])

AppliedStays(q) ==
    /\ pc[q] = "apply" => AtLeast(shardW, pos[q], read[q])
    /\ pc[q] = "score" /\ message[q] # <<>> => AtLeast(shardW, NumKeys, read[q])
    /\ message[q] # <<>> => AllAtLeast(used[q], read[q])

Safe(q) == InFlight(read[q]) /\ LoadedStays(q) /\ AppliedStays(q)

NoneOlder == \A q \in Queries : q \notin crossed => Safe(q)

-----------------------------------------------------------------------------
(* Queries get on *)

\* What Advance does: the query whose loop it is takes a weight, the others stay.
Advanced(q, here, where) ==
    /\ pc[q] = here
    /\ pos[q] + 1 \in Keys
    /\ pc' \in [Queries -> Places]
    /\ pos' \in [Queries -> 0 .. NumKeys - 1]
    /\ \A x \in Queries : x # q => pc'[x] = pc[x] /\ pos'[x] = pos[x]
    /\ \/ pos[q] + 1 = NumKeys /\ pc'[q] = where /\ pos'[q] = 0
       \/ pos[q] + 1 < NumKeys /\ pc'[q] = here /\ pos'[q] = pos[q] + 1

LEMMA Advances ==
    ASSUME TypeInv, NEW q \in Queries, NEW here \in Places, NEW where \in Places,
           Advance(q, here, where)
    PROVE  Advanced(q, here, where)
<1> USE WeightsAssumption DEF TypeInv, Advance, NextKey, Keys, Advanced
<1>1. CASE pos[q] + 1 = NumKeys
  <2>1. pc' = [pc EXCEPT ![q] = where] /\ pos' = [pos EXCEPT ![q] = 0] /\ pc[q] = here
    BY <1>1
  <2>2. pc' \in [Queries -> Places] /\ pos' \in [Queries -> 0 .. NumKeys - 1]
    BY <2>1
  <2>3. QED
    BY <1>1, <2>1, <2>2
<1>2. CASE pos[q] + 1 # NumKeys
  <2>1. pc' = pc /\ pos' = [pos EXCEPT ![q] = pos[q] + 1] /\ pc[q] = here
    BY <1>2
  <2>2. pos[q] \in 0 .. NumKeys - 1 /\ NumKeys \in Nat
    OBVIOUS
  <2>3. pos[q] + 1 < NumKeys /\ pos[q] + 1 \in 0 .. NumKeys - 1 /\ pos[q] + 1 \in 1 .. NumKeys
    <3> HIDE WeightsAssumption DEF TypeInv, Advance, NextKey, Keys, Advanced
    <3>1. QED
      BY <1>2, <2>2
  <2>4. /\ pos' \in [Queries -> 0 .. NumKeys - 1] /\ pos'[q] = pos[q] + 1
        /\ \A x \in Queries : x # q => pos'[x] = pos[x]
    <3>1. pos \in [Queries -> 0 .. NumKeys - 1]
      OBVIOUS
    <3> HIDE WeightsAssumption DEF TypeInv, Advance, NextKey, Keys, Advanced
    <3>2. QED
      BY <2>1, <2>3, <3>1
  <2>5. pc' \in [Queries -> Places] /\ \A x \in Queries : pc'[x] = pc[x]
    BY <2>1
  <2>6. QED
    BY <2>1, <2>3, <2>4, <2>5
<1>3. QED
  BY <1>1, <1>2

LEMMA LoadKeyAdvances ==
    ASSUME TypeInv, NEW q \in Queries, LoadKey(q)
    PROVE  Advanced(q, "load", IF devMode THEN "serialize" ELSE "score")
BY Advances DEF LoadKey, Places, TypeInv

LEMMA SerializeKeyAdvances ==
    ASSUME TypeInv, NEW q \in Queries, SerializeKey(q)
    PROVE  Advanced(q, "serialize", "apply")
BY Advances DEF SerializeKey, Places, TypeInv

LEMMA ApplyKeyAdvances ==
    ASSUME TypeInv, NEW q \in Queries, ApplyKey(q)
    PROVE  Advanced(q, "apply", "score")
BY Advances DEF ApplyKey, Places, TypeInv

LEMMA ScoreKeyAdvances ==
    ASSUME TypeInv, NEW q \in Queries, ScoreKey(q)
    PROVE  Advanced(q, "score", "done")
BY Advances DEF ScoreKey, Places, TypeInv

LEMMA InitProgress == Init => Progress
BY WeightsAssumption
   DEF Init, Progress, TypeInv, Begun, MessageFills, MessageFillsOf, UsedFills, UsedFillsOf, Places,
       Keys, ShardVersion

LEMMA NextProgress == Progress /\ [Next]_vars => Progress'
<1> SUFFICES ASSUME Progress, [Next]_vars PROVE Progress'
  OBVIOUS
<1> USE WeightsAssumption DEF Progress, Places, Keys
<1>1. CASE EditFile
  <2>1. file' = file + 1 /\ file \in Nat \ {0}
        /\ UNCHANGED <<devMode, leaderW, shardW, pc, pos, read, message, used, faults, crossed>>
    BY <1>1 DEF EditFile, TypeInv
  <2>2. TypeInv' /\ MessageFills' /\ UsedFills'
    <3>1. TypeInv'
      BY <2>1, SMTT(20) DEF TypeInv
    <3>2. MessageFills' /\ UsedFills'
      BY <2>1 DEF MessageFills, MessageFillsOf, UsedFills, UsedFillsOf
    <3>3. QED
      BY <3>1, <3>2
  <2>3. Begun'
    <3>1. \A q \in Queries : read[q] \in Nat /\ read[q] <= file
      BY DEF TypeInv, Begun
    <3>2. \A q \in Queries : read[q] <= file + 1
      BY <2>1, <3>1
    <3>3. QED
      BY <2>1, <3>2 DEF Begun
  <2>4. QED
    BY <2>2, <2>3
<1>2. CASE RestartLeader
  BY <1>2 DEF RestartLeader, TypeInv, Begun, MessageFills, MessageFillsOf, UsedFills, UsedFillsOf
<1>3. ASSUME NEW q \in Queries, OpenFile(q) PROVE Progress'
  <2>1. TypeInv'
    BY <1>3 DEF OpenFile, TypeInv, Begun
  <2>2. Begun'
    BY <1>3 DEF OpenFile, TypeInv, Begun
  <2>3. MessageFills'
    BY <1>3 DEF OpenFile, TypeInv, Begun, MessageFills, MessageFillsOf
  <2>4. UsedFills'
    BY <1>3 DEF OpenFile, TypeInv, Begun, UsedFills, UsedFillsOf
  <2>5. QED
    BY <2>1, <2>2, <2>3, <2>4
<1>0. ASSUME NEW q \in Queries, OpenFails(q) PROVE Progress'
  <2>1. TypeInv'
    <3>1. pc' \in [Queries -> Places]
      BY <1>0 DEF OpenFails, CannotOpen, TypeInv
    <3>2. faults' \in Nat /\ crossed' \subseteq Queries
      BY <1>0 DEF OpenFails, CannotOpen, TypeInv
    <3>3. QED
      BY <1>0, <3>1, <3>2 DEF OpenFails, TypeInv
  <2>2. Begun'
    BY <1>0 DEF OpenFails, CannotOpen, TypeInv, Begun
  <2>3. MessageFills'
    BY <1>0 DEF OpenFails, CannotOpen, TypeInv, Begun, MessageFills, MessageFillsOf
  <2>4. UsedFills'
    BY <1>0 DEF OpenFails, CannotOpen, TypeInv, Begun, UsedFills, UsedFillsOf
  <2>5. QED
    BY <2>1, <2>2, <2>3, <2>4
<1>4. ASSUME NEW q \in Queries, LoadKey(q) PROVE Progress'
  <2>1. Advanced(q, "load", IF devMode THEN "serialize" ELSE "score")
    BY <1>4, LoadKeyAdvances
  <2>2. read[q] \in Nat
    BY <2>1, <1>4 DEF Advanced, TypeInv, MessageFills, MessageFillsOf
  <2>3. leaderW' = [leaderW EXCEPT ![pos[q] + 1] = read[q]] /\ leaderW' \in [Keys -> Nat]
    BY <1>4, <2>1, <2>2 DEF Advanced, LoadKey, NextKey, TypeInv
  <2>4. TypeInv'
    BY <1>4, <2>1, <2>3 DEF Advanced, LoadKey, TypeInv
  <2>5. Begun'
    BY <1>4, <2>1, <2>3 DEF Advanced, LoadKey, TypeInv, Begun
  <2>6. MessageFills'
    <3>1. message' = message
      BY <1>4 DEF LoadKey
    <3>2. ASSUME NEW x \in Queries PROVE MessageFillsOf(x)'
      <4>1. CASE x = q
        BY <2>1, <3>1, <4>1 DEF Advanced, MessageFills, MessageFillsOf
      <4>2. CASE x # q
        BY <2>1, <3>1, <4>2 DEF Advanced, MessageFills, MessageFillsOf
      <4>3. QED
        BY <4>1, <4>2
    <3>3. QED
      BY <3>2 DEF MessageFills
  <2>7. UsedFills'
    <3>1. used' = used
      BY <1>4 DEF LoadKey
    <3>2. ASSUME NEW x \in Queries PROVE UsedFillsOf(x)'
      <4>1. CASE x = q
        BY <2>1, <3>1, <4>1 DEF Advanced, UsedFills, UsedFillsOf
      <4>2. CASE x # q
        BY <2>1, <3>1, <4>2 DEF Advanced, UsedFills, UsedFillsOf
      <4>3. QED
        BY <4>1, <4>2
    <3>3. QED
      BY <3>2 DEF UsedFills
  <2>8. QED
    BY <2>4, <2>5, <2>6, <2>7
<1>5. ASSUME NEW q \in Queries, SerializeKey(q) PROVE Progress'
  <2>1. Advanced(q, "serialize", "apply")
    BY <1>5, SerializeKeyAdvances
  <2>2. /\ message' = [message EXCEPT ![q] = Append(message[q], leaderW[pos[q] + 1])]
        /\ leaderW[pos[q] + 1] \in Nat
    BY <1>5, <2>1 DEF Advanced, SerializeKey, NextKey, TypeInv
  <2>3. message' \in [Queries -> Seq(Nat)] /\ Len(message'[q]) = Len(message[q]) + 1
    BY <2>2 DEF TypeInv
  <2>4. TypeInv'
    BY <1>5, <2>1, <2>2, <2>3 DEF Advanced, SerializeKey, TypeInv
  <2>5. Begun'
    BY <1>5, <2>1, <2>2, <2>3 DEF Advanced, SerializeKey, TypeInv, Begun
  <2>6. MessageFills'
    BY <1>5, <2>1, <2>2, <2>3 DEF Advanced, SerializeKey, TypeInv, MessageFills, MessageFillsOf
  <2>7. UsedFills'
    BY <1>5, <2>1, <2>2, <2>3 DEF Advanced, SerializeKey, TypeInv, UsedFills, UsedFillsOf
  <2>8. QED
    BY <2>4, <2>5, <2>6, <2>7
<1>6. ASSUME NEW q \in Queries, ApplyKey(q) PROVE Progress'
  <2>1. Advanced(q, "apply", "score")
    BY <1>6, ApplyKeyAdvances
  <2>2. message[q][pos[q] + 1] \in Nat
    <3>1. message[q] \in Seq(Nat) /\ Len(message[q]) = NumKeys /\ pos[q] + 1 \in 1 .. NumKeys
      BY <2>1 DEF Advanced, TypeInv, MessageFills, MessageFillsOf
    <3>2. QED
      BY <3>1
  <2>3. shardW' = [shardW EXCEPT ![pos[q] + 1] = message[q][pos[q] + 1]] /\ shardW' \in [Keys -> Nat]
    BY <1>6, <2>1, <2>2 DEF Advanced, ApplyKey, NextKey, TypeInv
  <2>4. TypeInv'
    BY <1>6, <2>1, <2>3 DEF Advanced, ApplyKey, TypeInv
  <2>5. Begun'
    BY <1>6, <2>1, <2>3 DEF Advanced, ApplyKey, TypeInv, Begun
  <2>6. MessageFills'
    BY <1>6, <2>1, <2>3 DEF Advanced, ApplyKey, TypeInv, MessageFills, MessageFillsOf
  <2>7. UsedFills'
    <3>1. used' = used
      BY <1>6 DEF ApplyKey
    <3>2. ASSUME NEW x \in Queries PROVE UsedFillsOf(x)'
      <4>1. CASE x = q
        BY <2>1, <3>1, <4>1 DEF Advanced, UsedFills, UsedFillsOf
      <4>2. CASE x # q
        BY <2>1, <3>1, <4>2 DEF Advanced, UsedFills, UsedFillsOf
      <4>3. QED
        BY <4>1, <4>2
    <3>3. QED
      BY <3>2 DEF UsedFills
  <2>8. QED
    BY <2>4, <2>5, <2>6, <2>7
<1>7. ASSUME NEW q \in Queries, ScoreKey(q) PROVE Progress'
  <2>1. Advanced(q, "score", "done")
    BY <1>7, ScoreKeyAdvances
  <2>2. /\ used' = [used EXCEPT ![q] = Append(used[q], shardW[pos[q] + 1])]
        /\ shardW[pos[q] + 1] \in Nat
    BY <1>7, <2>1 DEF Advanced, ScoreKey, NextKey, TypeInv
  <2>3. used' \in [Queries -> Seq(Nat)] /\ Len(used'[q]) = Len(used[q]) + 1
    BY <2>2 DEF TypeInv
  <2>4. TypeInv'
    BY <1>7, <2>1, <2>2, <2>3 DEF Advanced, ScoreKey, TypeInv
  <2>5. Begun'
    BY <1>7, <2>1, <2>2, <2>3 DEF Advanced, ScoreKey, TypeInv, Begun
  <2>6. MessageFills'
    BY <1>7, <2>1, <2>2, <2>3 DEF Advanced, ScoreKey, TypeInv, MessageFills, MessageFillsOf
  <2>7. UsedFills'
    BY <1>7, <2>1, <2>2, <2>3 DEF Advanced, ScoreKey, TypeInv, UsedFills, UsedFillsOf
  <2>8. QED
    BY <2>4, <2>5, <2>6, <2>7
<1>8. CASE UNCHANGED vars
  BY <1>8 DEF vars, TypeInv, Begun, MessageFills, MessageFillsOf, UsedFills, UsedFillsOf
<1>9. QED
  BY <1>0, <1>1, <1>2, <1>3, <1>4, <1>5, <1>6, <1>7, <1>8 DEF Next

-----------------------------------------------------------------------------
(* Versions in order *)

LEMMA NatAtLeastZero ==
    /\ \A weights \in [Keys -> Nat], n \in 0 .. NumKeys : AtLeast(weights, n, 0)
    /\ \A weights \in Seq(Nat) : AllAtLeast(weights, 0)
BY WeightsAssumption DEF AtLeast, AllAtLeast, Keys

LEMMA AtLeastEmpty == \A v : AllAtLeast(<<>>, v)
BY DEF AllAtLeast, AtLeast

LEMMA AppendAtLeast ==
    ASSUME NEW weights \in Seq(Nat), NEW v \in Nat, NEW w \in Nat, w >= v, AllAtLeast(weights, v)
    PROVE  AllAtLeast(Append(weights, w), v)
BY DEF AllAtLeast, AtLeast

\* Another weight that is late enough leaves those that are, and adds itself.
LEMMA OneMore ==
    ASSUME NEW weights \in [Keys -> Nat], NEW done \in 0 .. NumKeys - 1, NEW v \in Nat,
           NEW w \in Nat, w >= v
    PROVE  LET more == [weights EXCEPT ![done + 1] = w]
           IN  /\ \A n \in 0 .. NumKeys : AtLeast(weights, n, v) => AtLeast(more, n, v)
               /\ AtLeast(weights, done, v) => AtLeast(more, done + 1, v)
<1> DEFINE more == [weights EXCEPT ![done + 1] = w]
<1>1. \A k \in 1 .. NumKeys : more[k] = IF k = done + 1 THEN w ELSE weights[k]
  BY DEF Keys
<1> HIDE DEF more
<1>2. ASSUME NEW n \in 0 .. NumKeys, AtLeast(weights, n, v) PROVE AtLeast(more, n, v)
  BY <1>1, <1>2, WeightsAssumption DEF AtLeast
<1>3. ASSUME AtLeast(weights, done, v) PROVE AtLeast(more, done + 1, v)
  BY <1>1, <1>3, WeightsAssumption DEF AtLeast
<1>4. QED
  BY <1>2, <1>3 DEF more

-----------------------------------------------------------------------------
(* No older weights *)

LEMMA InitNoneOlder == Init => NoneOlder
<1> SUFFICES ASSUME Init, NEW q \in Queries PROVE Safe(q)
  BY DEF NoneOlder
<1>1. QED
  BY AtLeastEmpty DEF Init, Safe, InFlight, InFlightOf, LoadedStays, AppliedStays, Running

LEMMA NextNoneOlder == Progress /\ NoneOlder /\ [Next]_vars => NoneOlder'
<1> SUFFICES ASSUME Progress, NoneOlder, [Next]_vars,
                    NEW x \in Queries, x \notin crossed'
             PROVE  Safe(x)'
  BY DEF NoneOlder
<1> USE WeightsAssumption DEF Progress, Places, TypeInv, Begun
<1>0. ASSUME crossed' = crossed PROVE Safe(x)
  BY <1>0 DEF NoneOlder
<1>1. CASE EditFile
  BY <1>0, <1>1 DEF EditFile, Safe, InFlight, InFlightOf, LoadedStays, AppliedStays, Running
<1>2. CASE RestartLeader
  <2>1. AtLeast(leaderW', NumKeys, read[x])
    BY <1>2 DEF RestartLeader, AtLeast, Keys
  <2>2. QED
    BY <1>0, <1>2, <2>1 DEF RestartLeader, Safe, InFlight, InFlightOf, LoadedStays, AppliedStays, Running
<1>3. ASSUME NEW q \in Queries, OpenFile(q) PROVE Safe(x)'
  <2>1. /\ read'[q] = file /\ pc'[q] = "load" /\ pos'[q] = 0
        /\ \A y \in Queries : y # q => pc'[y] = pc[y] /\ pos'[y] = pos[y] /\ read'[y] = read[y]
        /\ UNCHANGED <<file, leaderW, shardW, message, used>>
        /\ message[q] = <<>> /\ used[q] = <<>>
    BY <1>3 DEF OpenFile, MessageFills, MessageFillsOf, UsedFills, UsedFillsOf
  <2>2. AtLeast(leaderW, 0, read'[x])
    BY DEF AtLeast
  <2>3. CASE x # q
    <3>1. Safe(x) /\ read[x] <= file
      BY <1>3 DEF OpenFile, NoneOlder
    <3>2. InFlight(read[x])'
      BY <3>1, <2>1, <2>2, <2>3, AtLeastEmpty DEF Safe, InFlight, InFlightOf, Running
    <3>3. QED
      BY <3>1, <3>2, <2>1, <2>3 DEF Safe, LoadedStays, AppliedStays
  <2>4. CASE x = q
    <3>1. \A y \in Queries : Running(y) => read[y] = file /\ y \notin crossed
      BY <1>3, <2>4 DEF OpenFile, OlderRuns
    <3>2. ASSUME NEW y \in Queries, y # q PROVE InFlightOf(y, file)'
      <4>1. Running(y) => InFlightOf(y, file)
        BY <3>1 DEF NoneOlder, Safe, InFlight
      <4>2. QED
        BY <4>1, <3>2, <2>1 DEF InFlightOf, Running
    <3>3. InFlightOf(q, file)'
      BY <2>1, <2>2, <2>4, AtLeastEmpty DEF InFlightOf
    <3>4. InFlight(read[x])'
      BY <3>2, <3>3, <2>1, <2>4, <1>3 DEF InFlight, OpenFile
    <3>5. QED
      BY <3>4, <2>1, <2>4 DEF Safe, LoadedStays, AppliedStays
  <2>5. QED
    BY <2>3, <2>4
<1>4. ASSUME NEW q \in Queries, OpenFails(q) PROVE Safe(x)'
  <2>1. /\ pc'[q] \in {"serialize", "score"} /\ read[q] = 0
        /\ \A y \in Queries : y # q => pc'[y] = pc[y]
        /\ UNCHANGED <<leaderW, shardW, message, used, pos, read>>
        /\ message[q] = <<>> /\ used[q] = <<>>
    BY <1>4 DEF OpenFails, CannotOpen, MessageFills, MessageFillsOf, UsedFills, UsedFillsOf
  <2>2. Safe(x) /\ pc[x] # "load"
    BY <1>4 DEF OpenFails, CannotOpen, NoneOlder
  <2>3. AtLeast(leaderW, NumKeys, read[x])
    <3>1. CASE pc[x] = "idle"
      <4>1. read[x] = 0 /\ leaderW \in [Keys -> Nat] /\ NumKeys \in 0 .. NumKeys
        BY <3>1
      <4>2. QED
        BY <4>1, NatAtLeastZero
    <3>2. CASE pc[x] # "idle"
      BY <3>2, <2>2 DEF Safe, LoadedStays
    <3>3. QED
      BY <3>1, <3>2
  <2>4. InFlight(read[x])'
    BY <2>1, <2>2, <2>3, AtLeastEmpty DEF Safe, InFlight, InFlightOf, Running
  <2>5. LoadedStays(x)' /\ AppliedStays(x)'
    BY <2>1, <2>2, <2>3 DEF Safe, LoadedStays, AppliedStays
  <2>6. QED
    BY <2>4, <2>5 DEF Safe
<1>5. ASSUME NEW q \in Queries, LoadKey(q) PROVE Safe(x)'
  <2>1. Advanced(q, "load", IF devMode THEN "serialize" ELSE "score")
    BY <1>5, LoadKeyAdvances
  <2>2. Safe(x) /\ UNCHANGED <<shardW, read, message, used>>
    BY <1>0, <1>5 DEF LoadKey
  <2>3. message[q] = <<>>
    BY <2>1 DEF Advanced, MessageFills, MessageFillsOf
  <2>4. read[q] >= read[x] /\ AtLeast(leaderW, pos[q], read[x])
    BY <2>1, <2>2 DEF Advanced, Safe, InFlight, InFlightOf
  <2>5. /\ \A n \in 0 .. NumKeys : AtLeast(leaderW, n, read[x]) => AtLeast(leaderW', n, read[x])
        /\ AtLeast(leaderW', pos[q] + 1, read[x])
    BY <1>5, <2>4, OneMore DEF LoadKey, NextKey
  <2>6. ASSUME NEW y \in Queries PROVE InFlightOf(y, read[x])'
    <3>1. CASE y = q
      BY <2>1, <2>2, <2>3, <2>4, <2>5, <3>1, AtLeastEmpty DEF Advanced, InFlightOf
    <3>2. CASE y # q
      <4>1. pc'[y] = pc[y] /\ pos'[y] = pos[y]
        BY <2>1, <3>2 DEF Advanced
      <4>2. pos[y] \in 0 .. NumKeys /\ NumKeys \in 0 .. NumKeys
        OBVIOUS
      <4>3. InFlightOf(y, read[x])
        BY <2>2 DEF Safe, InFlight
      <4>4. QED
        BY <2>2, <2>5, <4>1, <4>2, <4>3 DEF InFlightOf, Running
    <3>3. QED
      BY <3>1, <3>2
  <2>7. LoadedStays(x)'
    <3>1. NumKeys \in 0 .. NumKeys
      OBVIOUS
    <3>2. CASE x = q /\ pos[q] + 1 = NumKeys
      BY <2>2, <2>5, <3>2 DEF LoadedStays
    <3>3. CASE x = q /\ pos[q] + 1 # NumKeys
      BY <2>1, <3>3 DEF Advanced, LoadedStays
    <3>4. CASE x # q
      <4>1. pc'[x] = pc[x]
        BY <2>1, <3>4 DEF Advanced
      <4>2. QED
        BY <2>2, <2>5, <3>1, <4>1 DEF Safe, LoadedStays
    <3>5. QED
      BY <3>2, <3>3, <3>4
  <2>8. AppliedStays(x)'
    BY <2>1, <2>2, <2>3 DEF Advanced, Safe, AppliedStays
  <2>9. QED
    BY <2>2, <2>6, <2>7, <2>8 DEF Safe, InFlight
<1>6. ASSUME NEW q \in Queries, SerializeKey(q) PROVE Safe(x)'
  <2>1. Advanced(q, "serialize", "apply")
    BY <1>6, SerializeKeyAdvances
  <2>2. Safe(x) /\ UNCHANGED <<leaderW, shardW, read, used>>
    BY <1>0, <1>6 DEF SerializeKey
  <2>3. /\ message'[q] = Append(message[q], leaderW[pos[q] + 1])
        /\ \A y \in Queries : y # q => message'[y] = message[y]
    BY <1>6 DEF SerializeKey, NextKey
  <2>4. AllAtLeast(message'[q], read[x])
    <3>1. AllAtLeast(message[q], read[x]) /\ leaderW[pos[q] + 1] >= read[x]
      BY <2>1, <2>2 DEF Advanced, Safe, InFlight, InFlightOf, Running, AtLeast, Keys
    <3>2. leaderW[pos[q] + 1] \in Nat /\ message[q] \in Seq(Nat) /\ read[x] \in Nat
      BY <2>1 DEF Advanced
    <3>3. QED
      BY <2>3, <3>1, <3>2, AppendAtLeast
  <2>5. ASSUME NEW y \in Queries PROVE InFlightOf(y, read[x])'
    <3>1. CASE y = q
      BY <2>1, <2>2, <2>4, <3>1 DEF Advanced, Safe, InFlight, InFlightOf
    <3>2. CASE y # q
      BY <2>1, <2>2, <2>3, <3>2 DEF Advanced, Safe, InFlight, InFlightOf, Running
    <3>3. QED
      BY <3>1, <3>2
  <2>6. LoadedStays(x)'
    BY <2>1, <2>2 DEF Advanced, Safe, LoadedStays
  <2>7. AppliedStays(x)'
    <3>1. CASE x = q
      <4>1. used[q] = <<>> /\ (pc'[q] = "apply" => pos'[q] = 0) /\ pc'[q] # "score"
        BY <2>1 DEF Advanced, UsedFills, UsedFillsOf
      <4>2. AtLeast(shardW, 0, read[x])
        BY DEF AtLeast
      <4>3. QED
        BY <2>2, <3>1, <4>1, <4>2, AtLeastEmpty DEF AppliedStays
    <3>2. CASE x # q
      BY <2>1, <2>2, <2>3, <3>2 DEF Advanced, Safe, AppliedStays
    <3>3. QED
      BY <3>1, <3>2
  <2>8. QED
    BY <2>2, <2>5, <2>6, <2>7 DEF Safe, InFlight
<1>7. ASSUME NEW q \in Queries, ApplyKey(q) PROVE Safe(x)'
  <2>1. Advanced(q, "apply", "score")
    BY <1>7, ApplyKeyAdvances
  <2>2. Safe(x) /\ UNCHANGED <<leaderW, read, message, used>>
    BY <1>0, <1>7 DEF ApplyKey
  <2>3. message[q][pos[q] + 1] >= read[x] /\ message[q][pos[q] + 1] \in Nat
    <3>1. /\ Len(message[q]) = NumKeys /\ AllAtLeast(message[q], read[x])
          /\ message[q] \in Seq(Nat) /\ pos[q] + 1 \in 1 .. NumKeys
      BY <2>1, <2>2 DEF Advanced, MessageFills, MessageFillsOf, Safe, InFlight, InFlightOf, Running, Keys
    <3>2. message[q][pos[q] + 1] >= read[x]
      BY <3>1 DEF AllAtLeast, AtLeast
    <3>3. message[q][pos[q] + 1] \in Nat
      <4> HIDE WeightsAssumption DEF TypeInv, Begun
      <4>1. QED
        BY <3>1
    <3>4. QED
      BY <3>2, <3>3
  <2>4. /\ \A n \in 0 .. NumKeys : AtLeast(shardW, n, read[x]) => AtLeast(shardW', n, read[x])
        /\ AtLeast(shardW, pos[q], read[x]) => AtLeast(shardW', pos[q] + 1, read[x])
    BY <1>7, <2>3, OneMore DEF ApplyKey, NextKey
  <2>5. InFlight(read[x])' /\ LoadedStays(x)'
    BY <2>1, <2>2 DEF Advanced, Safe, InFlight, InFlightOf, LoadedStays, Running
  <2>6. AppliedStays(x)'
    <3>1. CASE x = q
      <4>1. used[q] = <<>>
        BY <2>1 DEF Advanced, UsedFills, UsedFillsOf
      <4>2. QED
        BY <2>1, <2>2, <2>4, <3>1, <4>1, AtLeastEmpty, NatAtLeastZero DEF Advanced, Safe, AppliedStays
    <3>2. CASE x # q
      <4>1. {pos[x], NumKeys} \subseteq 0 .. NumKeys
        OBVIOUS
      <4>2. QED
        BY <2>1, <2>2, <2>4, <3>2, <4>1 DEF Advanced, Safe, AppliedStays
    <3>3. QED
      BY <3>1, <3>2
  <2>7. QED
    BY <2>2, <2>5, <2>6 DEF Safe
<1>8. ASSUME NEW q \in Queries, ScoreKey(q) PROVE Safe(x)'
  <2>1. Advanced(q, "score", "done")
    BY <1>8, ScoreKeyAdvances
  <2>2. Safe(x) /\ UNCHANGED <<leaderW, shardW, read, message>>
    BY <1>0, <1>8 DEF ScoreKey
  <2>3. /\ used'[q] = Append(used[q], shardW[pos[q] + 1])
        /\ \A y \in Queries : y # q => used'[y] = used[y]
    BY <1>8 DEF ScoreKey, NextKey
  <2>4. InFlight(read[x])' /\ LoadedStays(x)'
    BY <2>1, <2>2 DEF Advanced, Safe, InFlight, InFlightOf, LoadedStays, Running
  <2>5. AppliedStays(x)'
    <3>1. CASE x = q
      <4>1. ASSUME message[x] # <<>> PROVE AllAtLeast(used'[x], read[x])
        <5>1. AllAtLeast(used[x], read[x]) /\ shardW[pos[q] + 1] >= read[x]
          BY <2>1, <2>2, <3>1, <4>1 DEF Advanced, Safe, AppliedStays, AtLeast, Keys
        <5>2. shardW[pos[q] + 1] \in Nat /\ used[x] \in Seq(Nat) /\ read[x] \in Nat
          BY <2>1 DEF Advanced
        <5>3. used'[x] = Append(used[x], shardW[pos[q] + 1])
          BY <2>3, <3>1
        <5>4. QED
          BY <5>1, <5>2, <5>3, AppendAtLeast
      <4>2. QED
        BY <2>1, <2>2, <3>1, <4>1 DEF Advanced, Safe, AppliedStays
    <3>2. CASE x # q
      BY <2>1, <2>2, <2>3, <3>2 DEF Advanced, Safe, AppliedStays
    <3>3. QED
      BY <3>1, <3>2
  <2>6. QED
    BY <2>2, <2>4, <2>5 DEF Safe
<1>9. CASE UNCHANGED vars
  BY <1>0, <1>9 DEF vars, Safe, InFlight, InFlightOf, LoadedStays, AppliedStays, Running
<1>10. QED
  BY <1>1, <1>2, <1>3, <1>4, <1>5, <1>6, <1>7, <1>8, <1>9 DEF Next

-----------------------------------------------------------------------------
(* Theorems *)

LEMMA EnoughForBoth == Progress /\ NoneOlder => NeverOlder /\ EditsStay
<1> SUFFICES ASSUME Progress, NoneOlder PROVE NeverOlder /\ EditsStay
  OBVIOUS
<1>1. NeverOlder
  BY DEF Progress, NoneOlder, Safe, AppliedStays, AllAtLeast, AtLeast, UsedFills, UsedFillsOf,
         NeverOlder, Keys
<1>2. EditsStay
  BY DEF NoneOlder, Safe, LoadedStays, AtLeast, EditsStay, Keys
<1>3. QED
  BY <1>1, <1>2

LEMMA NoneOlderAlways == Spec => [](Progress /\ NoneOlder)
<1>1. Init => Progress /\ NoneOlder
  BY InitProgress, InitNoneOlder
<1>2. Progress /\ NoneOlder /\ [Next]_vars => (Progress /\ NoneOlder)'
  BY NextProgress, NextNoneOlder
<1>3. QED
  BY <1>1, <1>2, PTL DEF Spec

\* Whatever the queries in flight overwrite under each other, a query in dev mode is
\* scored with no weight older than the file it opened, unless older weights were still
\* under way as it opened the file, or an open failed while it was loading: an edit and
\* a query after it, with any number of queries before (SearchEngine::search, ShardPlugin).
THEOREM NeverOlderAlways == Spec => []NeverOlder
BY NoneOlderAlways, EnoughForBoth, PTL

\* What such a query has loaded is never put back on the leader, by any query that
\* overlaps it or comes later, by an open that fails or by a restart
\* (load_and_apply_weights).
THEOREM EditsStayAlways == Spec => []EditsStay
BY NoneOlderAlways, EnoughForBoth, PTL
=============================================================================
