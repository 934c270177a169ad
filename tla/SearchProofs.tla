---------------------------- MODULE SearchProofs ----------------------------
(***************************************************************************)
(* Proofs about DistributedSearch for any shards, results and failures:    *)
(* what a shard streams arrives in order and without a gap, the count of   *)
(* good results is never ahead of the vector it counts, the search stops   *)
(* waiting for one of three reasons and keeps SearchPromise, and a search  *)
(* that nothing cut short has all results and statistics.                  *)
(***************************************************************************)
EXTENDS DistributedSearch, FiniteSetTheorems, TLAPS

Over == {"ended", "stopped"}

TypeInv ==
    /\ pc \in [Shards -> {"connect", "recv", "drain", "pushed", "counted"} \cup Over]
    /\ received \in [Shards -> Nat]
    /\ handled \in [Shards -> Nat]
    /\ out \in Seq(Result)
    /\ good \in Nat
    /\ alive \in Int
    /\ stop \in BOOLEAN
    /\ leader \in {"watch", "join", "answered"}
    /\ elapsed \in Nat

(* A stream *)

\* A worker handles what it has received, the header with the first chunk.
LinesInv ==
    \A s \in Shards :
        /\ handled[s] <= received[s]
        /\ received[s] <= NumLines(s)
        /\ handled[s] = 0 => received[s] = 0
        /\ pc[s] \in {"drain", "pushed", "counted"} => handled[s] >= 1

\* The results among the lines that a worker has handled.
Taken(s) ==
    CASE handled[s] = 0 -> 0
      [] handled[s] = NumLines(s) -> Len(Emitted(s))
      [] OTHER -> handled[s] - 1

\* They are on the vector, unless the worker dropped the last when it was told to stop.
Delivered == \A s \in Shards : pc[s] # "stopped" => Cardinality(PlacesOf(s)) = Taken(s)

StreamInv == TypeInv /\ LinesInv /\ Delivered /\ NoGap

(* The counters *)

GoodPlaces == {i \in DOMAIN out : IsGood(out[i])}

\* Workers that have pushed a good result and not yet counted it.
Pending == {s \in Shards : pc[s] = "pushed" /\ IsGood(ResultIn(s, handled[s]))}

GoodCounted == good + Cardinality(Pending) = Cardinality(GoodPlaces)

\* The count of good results never exceeds the good results on the vector, which
\* early stopping relies on (the atomic of query_distributor.hpp).
CountNotAhead == good <= Cardinality(GoodPlaces)

Live == {s \in Shards : pc[s] \notin Over}

AliveCounted == alive = Cardinality(Live)

\* The flag is raised by the calling thread alone, and nobody stops before.
StopRaised ==
    /\ stop <=> leader # "watch"
    /\ ~stop => \A s \in Shards : pc[s] # "stopped"

\* The search no longer waits: it has the good results it needs, or every worker has
\* come to the end of its stream, or the time is up (the three exit paths in the header
\* of query_distributor.hpp).
ThreeExits ==
    leader # "watch" => \/ Cardinality(GoodPlaces) >= Needed
                        \/ \A s \in Shards : pc[s] = "ended"
                        \/ elapsed >= GlobalTimeout

CountInv == GoodCounted /\ AliveCounted /\ StopRaised /\ ThreeExits

-----------------------------------------------------------------------------
(* Ranks *)

\* The ranks in a set of numbers go from 1 to its size, each taken once, and grow with
\* the numbers.
LEMMA Ranks ==
    ASSUME NEW S, IsFiniteSet(S), S \subseteq Nat
    PROVE  /\ Cardinality(S) \in Nat
           /\ \A x \in S : x \in Nat /\ Rank(S, x) \in 1 .. Cardinality(S) /\ Rank(S, x) \in Nat
           /\ \A x, y \in S : x < y => Rank(S, x) < Rank(S, y)
           /\ \A k \in 1 .. Cardinality(S) : \E x \in S : Rank(S, x) = k
<1> DEFINE n == Cardinality(S)
           UpTo(x) == {y \in S : y <= x}
           f == [x \in S |-> Rank(S, x)]
<1>1. n \in Nat /\ IsFiniteSet(1 .. n) /\ Cardinality(1 .. n) = n
  <2>1. n \in Nat
    BY FS_CardinalityType
  <2>2. QED
    BY <2>1, FS_Interval
<1>2. ASSUME NEW x \in S
      PROVE  /\ x \in Nat /\ x \in UpTo(x)
             /\ IsFiniteSet(UpTo(x)) /\ Rank(S, x) = Cardinality(UpTo(x))
             /\ Rank(S, x) \in Nat /\ Rank(S, x) \in 1 .. n
  <2>1. IsFiniteSet(UpTo(x)) /\ Cardinality(UpTo(x)) <= n
    BY FS_Subset
  <2>2. x \in Nat /\ x \in UpTo(x)
    OBVIOUS
  <2>3. Cardinality(UpTo(x)) \in Nat /\ Cardinality(UpTo(x)) # 0
    BY <2>1, <2>2, FS_CardinalityType, FS_EmptySet
  <2>4. Rank(S, x) = Cardinality(UpTo(x))
    BY DEF Rank
  <2> HIDE DEF UpTo, n
  <2>5. QED
    BY <1>1, <2>1, <2>2, <2>3, <2>4
<1>3. ASSUME NEW x \in S, NEW y \in S, x < y PROVE y \notin UpTo(x) /\ UpTo(x) \cup {y} \subseteq UpTo(y)
  <2>1. x \in Nat /\ y \in Nat /\ ~(y <= x)
    BY <1>2, <1>3
  <2>2. \A z \in S : z <= x => z <= y
    BY <1>2, <1>3
  <2>3. y <= y
    BY <2>1
  <2>4. QED
    BY <2>1, <2>2, <2>3
<1> HIDE DEF UpTo, n
<1>4. ASSUME NEW x \in S, NEW y \in S, x < y PROVE Rank(S, x) < Rank(S, y)
  <2>1. Rank(S, x) \in Nat /\ Rank(S, y) \in Nat
    BY <1>2
  <2>2. Cardinality(UpTo(x) \cup {y}) = Rank(S, x) + 1
    BY <1>2, <1>3, <1>4, FS_AddElement
  <2>3. Cardinality(UpTo(x) \cup {y}) <= Rank(S, y)
    BY <1>2, <1>3, <1>4, FS_Subset
  <2>4. QED
    BY <2>1, <2>2, <2>3
<1>5. f \in Injection(S, 1 .. n)
  <2>1. f \in [S -> 1 .. n]
    BY <1>2
  <2>2. ASSUME NEW x \in S, NEW y \in S, Rank(S, x) = Rank(S, y) PROVE x = y
    <3>1. x \in Nat /\ y \in Nat /\ Rank(S, y) \in Nat
      BY <1>2
    <3>2. ~(x < y) /\ ~(y < x)
      BY <1>4, <2>2, <3>1
    <3>3. QED
      BY <3>1, <3>2
  <2>3. QED
    BY <2>1, <2>2 DEF Injection, IsInjective
<1>6. f \in Surjection(S, 1 .. n)
  <2>1. Cardinality(S) = Cardinality(1 .. n)
    BY <1>1 DEF n
  <2>2. QED
    BY <1>1, <1>5, <2>1, FS_Injection
<1>7. \A k \in 1 .. n : \E x \in S : Rank(S, x) = k
  BY <1>6 DEF Surjection
<1>8. QED
  BY <1>1, <1>2, <1>4, <1>7 DEF n

\* A finite set of numbers has a least.
LEMMA Least ==
    ASSUME NEW S, IsFiniteSet(S), S \subseteq Nat, S # {}
    PROVE  \E x \in S : \A y \in S : x <= y
<1>1. Cardinality(S) \in Nat /\ Cardinality(S) # 0
  BY FS_CardinalityType, FS_EmptySet
<1>2. PICK x \in S : Rank(S, x) = 1
  <2>1. 1 \in 1 .. Cardinality(S)
    BY <1>1
  <2>2. QED
    BY <2>1, Ranks
<1>3. ASSUME NEW y \in S, y < x PROVE FALSE
  <2>1. Rank(S, y) < 1 /\ Rank(S, y) \in 1 .. Cardinality(S)
    BY <1>2, <1>3, Ranks
  <2>2. QED
    BY <1>1, <2>1
<1>4. \A y \in S : y \in Nat
  OBVIOUS
<1>5. QED
  BY <1>3, <1>4

\* Sequences strung together are a sequence of what they are sequences of.
LEMMA FlattenType ==
    ASSUME NEW R, NEW seqs \in Seq(Seq(R))
    PROVE  FlattenSeq(seqs) \in Seq(R)
<1> DEFINE N == Len(seqs)
           Next1(f, i) == IF i = 1 THEN seqs[i] ELSE f[i - 1] \o seqs[i]
           Good1(m, f) == f = [i \in 1 .. m |-> Next1(f, i)]
<1>1. N \in Nat /\ \A i \in 1 .. N : i \in Nat /\ seqs[i] \in Seq(R)
  OBVIOUS
<1>2. CASE N = 0
  BY <1>2 DEF FlattenSeq
<1>3. CASE N # 0
  <2> DEFINE g == CHOOSE f : f = [i \in 1 .. N |-> Next1(f, i)]
  <2>1. FlattenSeq(seqs) = g[N]
    BY <1>3 DEF FlattenSeq
  <2> DEFINE Void == {m \in 0 .. N : ~ \E f : Good1(m, f)}
             Ill == {i \in 1 .. N : g[i] \notin Seq(R)}
  <2>2. IsFiniteSet(Void) /\ Void \subseteq Nat /\ IsFiniteSet(Ill) /\ Ill \subseteq Nat
    <3>1. IsFiniteSet(0 .. N) /\ IsFiniteSet(1 .. N)
      BY <1>1, FS_Interval
    <3>2. Void \subseteq 0 .. N /\ Ill \subseteq 1 .. N
      OBVIOUS
    <3>3. 0 .. N \subseteq Nat /\ 1 .. N \subseteq Nat
      OBVIOUS
    <3> HIDE DEF Void, Ill
    <3>4. IsFiniteSet(Void) /\ IsFiniteSet(Ill)
      BY <3>1, <3>2, FS_Subset
    <3>5. QED
      BY <3>2, <3>3, <3>4
  <2>3. Void = {}
    <3>1. SUFFICES ASSUME Void # {} PROVE FALSE
      OBVIOUS
    <3>2. PICK m \in Void : \A k \in Void : m <= k
      <4> HIDE DEF Void
      <4>1. QED
        BY <2>2, <3>1, Least
    <3>3. m \in 0 .. N /\ m \in Nat /\ ~ \E f : Good1(m, f)
      <4>1. m \in 0 .. N /\ ~ \E f : Good1(m, f)
        <5> HIDE DEF Good1
        <5>1. QED
          BY Zenon
      <4>2. m \in Nat
        BY <2>2, <3>2, Zenon
      <4>3. QED
        BY <4>1, <4>2, Zenon
    <3>4. m # 0
      <4>1. Good1(0, [i \in 1 .. 0 |-> 0])
        OBVIOUS
      <4>2. QED
        BY <3>3, <4>1
    <3>5. m - 1 \in 0 .. N /\ m - 1 \notin Void
      <4>1. m - 1 \in 0 .. N /\ ~(m <= m - 1)
        BY <1>1, <3>3, <3>4
      <4> HIDE DEF Void
      <4>2. QED
        BY <3>2, <4>1
    <3>6. PICK f : Good1(m - 1, f)
      BY <3>5
    <3> DEFINE h == [i \in 1 .. m |-> IF i < m THEN f[i] ELSE Next1(f, m)]
    <3>7. ASSUME NEW i \in 1 .. m PROVE h[i] = Next1(h, i)
      <4>1. i \in Nat /\ i >= 1 /\ i <= m
        BY <3>3, <3>7
      <4>2. CASE i < m
        <5>1. i \in 1 .. m - 1
          BY <3>3, <4>1, <4>2
        <5>2. h[i] = Next1(f, i)
          BY <3>6, <4>2, <5>1
        <5>3. i # 1 => i - 1 \in 1 .. m /\ i - 1 < m
          BY <3>3, <4>1
        <5>4. i # 1 => h[i - 1] = f[i - 1]
          BY <5>3
        <5>5. QED
          BY <5>2, <5>4
      <4>3. CASE i = m
        <5>1. h[i] = Next1(f, i)
          BY <3>3, <4>3
        <5>2. i # 1 => i - 1 \in 1 .. m /\ i - 1 < m
          BY <3>3, <4>1
        <5>3. i # 1 => h[i - 1] = f[i - 1]
          BY <5>2
        <5>4. QED
          BY <5>1, <5>3
      <4>4. QED
        BY <3>3, <4>1, <4>2, <4>3
    <3>8. Good1(m, h)
      BY <3>7
    <3>9. QED
      BY <3>3, <3>8
  <2>4. Good1(N, g)
    <3>1. N \in 0 .. N
      BY <1>1
    <3>2. \E f : Good1(N, f)
      BY <2>3, <3>1
    <3>3. QED
      BY <3>2
  <2>5. ASSUME NEW i \in 1 .. N PROVE g[i] = Next1(g, i)
    <3> HIDE DEF g
    <3>1. QED
      BY <2>4
  <2> HIDE DEF g
  <2>6. Ill = {}
    <3>1. SUFFICES ASSUME Ill # {} PROVE FALSE
      OBVIOUS
    <3>2. PICK i \in Ill : \A k \in Ill : i <= k
      <4> HIDE DEF Ill
      <4>1. QED
        BY <2>2, <3>1, Least
    <3>3. i \in 1 .. N /\ i \in Nat /\ g[i] \notin Seq(R) /\ seqs[i] \in Seq(R)
      BY <1>1
    <3>4. CASE i = 1
      BY <2>5, <3>3, <3>4
    <3>5. CASE i # 1
      <4>1. i - 1 \in 1 .. N /\ ~(i <= i - 1)
        BY <1>1, <3>3, <3>5
      <4>2. i - 1 \notin Ill
        <5> HIDE DEF Ill
        <5>1. QED
          BY <3>2, <4>1
      <4>3. g[i - 1] \in Seq(R)
        BY <4>1, <4>2
      <4>4. g[i] = g[i - 1] \o seqs[i]
        BY <2>5, <3>3, <3>5
      <4>5. QED
        BY <3>3, <4>3, <4>4
    <3>6. QED
      BY <3>4, <3>5
  <2>7. QED
    <3>1. N \in 1 .. N
      BY <1>1, <1>3
    <3>2. g[N] \in Seq(R)
      BY <2>6, <3>1
    <3>3. QED
      BY <2>1, <3>2
<1>4. QED
  BY <1>1, <1>2, <1>3

\* InOrder lists the set, each number once and each after the smaller ones.
LEMMA InOrderLists ==
    ASSUME NEW S, IsFiniteSet(S), S \subseteq Nat
    PROVE  /\ DOMAIN InOrder(S) = 1 .. Cardinality(S)
           /\ \A k \in 1 .. Cardinality(S) : InOrder(S)[k] \in S
           /\ \A x \in S : \E k \in 1 .. Cardinality(S) : InOrder(S)[k] = x
           /\ \A k, m \in 1 .. Cardinality(S) : k < m => InOrder(S)[k] < InOrder(S)[m]
<1> DEFINE n == Cardinality(S)
           at(k) == InOrder(S)[k]
<1>0. /\ n \in Nat
      /\ \A x \in S : x \in Nat /\ Rank(S, x) \in 1 .. n /\ Rank(S, x) \in Nat
      /\ \A x, y \in S : x < y => Rank(S, x) < Rank(S, y)
      /\ \A k \in 1 .. n : \E x \in S : Rank(S, x) = k
  BY Ranks
<1>1. ASSUME NEW k \in 1 .. n PROVE at(k) \in S /\ Rank(S, at(k)) = k
  <2>1. \E x \in S : Rank(S, x) = k
    BY <1>0
  <2>2. at(k) = CHOOSE x \in S : Rank(S, x) = k
    BY DEF InOrder
  <2>3. QED
    BY <2>1, <2>2
<1> HIDE DEF n, at
<1>2. ASSUME NEW x \in S, NEW y \in S, Rank(S, x) <= Rank(S, y) PROVE x <= y
  <2>1. /\ x \in Nat /\ y \in Nat /\ Rank(S, x) \in Nat /\ Rank(S, y) \in Nat
        /\ y < x => Rank(S, y) < Rank(S, x)
    BY <1>0
  <2>2. QED
    BY <1>2, <2>1
<1>3. ASSUME NEW x \in S PROVE at(Rank(S, x)) = x
  <2> DEFINE r == Rank(S, x)
  <2>1. r \in 1 .. n /\ r \in Nat
    BY <1>0
  <2>2. at(r) \in S /\ Rank(S, at(r)) = r
    BY <1>1, <2>1
  <2>3. at(r) <= x /\ x <= at(r)
    <3>1. r <= Rank(S, at(r)) /\ Rank(S, at(r)) <= r
      BY <2>1, <2>2
    <3>2. QED
      BY <1>2, <2>2, <3>1
  <2>4. at(r) \in Nat /\ x \in Nat
    BY <1>0, <2>2
  <2>5. QED
    BY <2>3, <2>4
<1>4. ASSUME NEW k \in 1 .. n, NEW m \in 1 .. n, k < m PROVE at(k) < at(m)
  <2>1. /\ at(k) \in S /\ Rank(S, at(k)) = k
        /\ at(m) \in S /\ Rank(S, at(m)) = m
    BY <1>1
  <2>2. k \in Nat /\ m \in Nat /\ k <= m /\ k # m
    BY <1>0, <1>4
  <2>3. at(k) <= at(m)
    BY <1>2, <2>1, <2>2
  <2>4. at(k) # at(m)
    BY <2>1, <2>2
  <2>5. at(k) \in Nat /\ at(m) \in Nat
    BY <1>0, <2>1
  <2>6. QED
    BY <2>3, <2>4, <2>5
<1>5. DOMAIN InOrder(S) = 1 .. Cardinality(S)
  BY DEF InOrder
<1>6. QED
  BY <1>0, <1>1, <1>3, <1>4, <1>5 DEF n, at

-----------------------------------------------------------------------------
(* Places on the vector *)

LEMMA PlacesFinite ==
    ASSUME TypeInv, NEW P, P \subseteq DOMAIN out
    PROVE  IsFiniteSet(P)
<1>1. DOMAIN out = 1 .. Len(out) /\ Len(out) \in Nat
  BY DEF TypeInv
<1>2. IsFiniteSet(1 .. Len(out))
  BY <1>1, FS_Interval
<1>3. QED
  BY <1>1, <1>2, FS_Subset

\* What a result at the end of the vector does to the places of a shard.
LEMMA PushPlaces ==
    ASSUME TypeInv, NEW s \in Shards, NEW r \in Result, r.shard = s, out' = Append(out, r)
    PROVE  /\ out' \in Seq(Result)
           /\ DOMAIN out' = DOMAIN out \cup {Len(out) + 1}
           /\ Len(out) + 1 \notin DOMAIN out
           /\ out'[Len(out) + 1] = r
           /\ \A i \in DOMAIN out : out'[i] = out[i] /\ i < Len(out) + 1
           /\ PlacesOf(s)' = PlacesOf(s) \cup {Len(out) + 1}
           /\ \A x \in Shards : x # s => PlacesOf(x)' = PlacesOf(x)
           /\ GoodPlaces' = GoodPlaces \cup (IF IsGood(r) THEN {Len(out) + 1} ELSE {})
<1>1. out \in Seq(Result)
  BY DEF TypeInv
<1>2. /\ out' \in Seq(Result)
      /\ DOMAIN out' = DOMAIN out \cup {Len(out) + 1}
      /\ Len(out) + 1 \notin DOMAIN out
      /\ out'[Len(out) + 1] = r
      /\ \A i \in DOMAIN out : out'[i] = out[i] /\ i < Len(out) + 1
  BY <1>1
<1>3. PlacesOf(s)' = PlacesOf(s) \cup {Len(out) + 1}
  BY <1>2 DEF PlacesOf
<1>4. \A x \in Shards : x # s => PlacesOf(x)' = PlacesOf(x)
  BY <1>2 DEF PlacesOf
<1>5. GoodPlaces' = GoodPlaces \cup (IF IsGood(r) THEN {Len(out) + 1} ELSE {})
  BY <1>2 DEF GoodPlaces, IsGood
<1>6. QED
  BY <1>2, <1>3, <1>4, <1>5

-----------------------------------------------------------------------------
(* Streams *)

\* What a shard streams is a sequence of its own results.
LEMMA StreamsTyped ==
    \A s \in Shards :
        /\ Emitted(s) \in Seq(Result)
        /\ \A i \in DOMAIN Emitted(s) : Emitted(s)[i].shard = s
<1> SUFFICES ASSUME NEW s \in Shards
             PROVE  /\ Emitted(s) \in Seq(Result)
                    /\ \A i \in DOMAIN Emitted(s) : Emitted(s)[i].shard = s
  OBVIOUS
<1> DEFINE Own == {r \in Result : r.shard = s}
           C == Cardinality(Served(s))
           sents == [l \in 1 .. C |-> Sent(s, l)]
<1>1. Levels[s] \in Seq(Seq(Result)) /\ Len(Levels[s]) \in Nat
  BY SearchAssumption
<1>2. C \in Nat /\ 1 .. C \subseteq DOMAIN Levels[s]
  <2>1. IsFiniteSet(1 .. Len(Levels[s])) /\ Cardinality(1 .. Len(Levels[s])) = Len(Levels[s])
    BY <1>1, FS_Interval
  <2>2. DOMAIN Levels[s] = 1 .. Len(Levels[s])
    BY <1>1
  <2>3. Served(s) \subseteq 1 .. Len(Levels[s])
    BY <2>2 DEF Served
  <2>4. IsFiniteSet(Served(s)) /\ C <= Len(Levels[s])
    BY <2>1, <2>3, FS_Subset
  <2>5. C \in Nat
    BY <2>4, FS_CardinalityType
  <2> HIDE DEF C
  <2>6. QED
    BY <1>1, <2>2, <2>4, <2>5
<1>3. ASSUME NEW l \in 1 .. C PROVE Sent(s, l) \in Seq(Own)
  <2> DEFINE level == Levels[s][l]
             n == IF Len(level) < MaxResults THEN Len(level) ELSE MaxResults
  <2>1. l \in DOMAIN Levels[s] /\ level \in Seq(Result)
    BY <1>1, <1>2
  <2>2. Len(level) \in Nat /\ MaxResults \in Nat /\ n \in Nat /\ n <= Len(level)
    BY <2>1, SearchAssumption
  <2>3. \A i \in 1 .. n : level[i] \in Own
    <3>1. TAKE i \in 1 .. n
    <3>2. i \in DOMAIN level
      <4> HIDE DEF n, level
      <4>1. QED
        BY <2>1, <2>2
    <3>3. level[i] \in Result
      BY <2>1, <3>2
    <3>4. level[i].shard = s
      BY <2>1, <3>2, SearchAssumption
    <3>5. QED
      BY <3>3, <3>4
  <2>4. Sent(s, l) = SubSeq(level, 1, n)
    BY DEF Sent
  <2> HIDE DEF n, level, Own
  <2>5. SubSeq(level, 1, n) \in Seq(Own)
    <3>1. SubSeq(level, 1, n) = [i \in 1 .. n |-> level[i]]
      BY <2>1, <2>2
    <3>2. QED
      BY <2>2, <2>3, <3>1
  <2>6. QED
    BY <2>4, <2>5
<1>4. Emitted(s) \in Seq(Own)
  <2>1. sents \in Seq(Seq(Own))
    <3> HIDE DEF Own, C
    <3>1. QED
      BY <1>2, <1>3
  <2>2. Emitted(s) = FlattenSeq(sents)
    BY DEF Emitted, Streams
  <2> HIDE DEF sents, Own
  <2>3. QED
    BY <2>1, <2>2, FlattenType
<1>5. Own \subseteq Result /\ \A r \in Own : r.shard = s
  OBVIOUS
<1> HIDE DEF Own
<1>6. QED
  BY <1>4, <1>5

LEMMA StreamLength == \A s \in Shards : Len(Emitted(s)) \in Nat /\ NumLines(s) = Len(Emitted(s)) + 2
BY StreamsTyped DEF NumLines

LEMMA InitStream == Init => StreamInv
<1> SUFFICES ASSUME Init PROVE StreamInv
  OBVIOUS
<1>1. out = <<>> /\ DOMAIN out = {}
  BY DEF Init
<1>2. \A s \in Shards : PlacesOf(s) = {}
  BY <1>1 DEF PlacesOf
<1>3. IsFiniteSet(Shards) /\ alive \in Int
  BY SearchAssumption, FS_CardinalityType DEF Init
<1>4. TypeInv
  <2>1. <<>> \in Seq(Result)
    OBVIOUS
  <2>2. QED
    BY <1>1, <1>3, <2>1 DEF Init, TypeInv, Over
<1>5. LinesInv
  BY StreamLength DEF Init, LinesInv
<1>6. Delivered
  <2>1. Cardinality({}) = 0
    BY FS_EmptySet
  <2>2. \A s \in Shards : Taken(s) = 0
    BY StreamLength DEF Init, Taken
  <2>3. QED
    BY <1>2, <2>1, <2>2 DEF Delivered
<1>7. NoGap
  BY <1>2 DEF NoGap
<1>8. QED
  BY <1>4, <1>5, <1>6, <1>7 DEF StreamInv

\* A step that leaves the vector and what was handled keeps the streams.
LEMMA StillStream ==
    ASSUME StreamInv, TypeInv', LinesInv', UNCHANGED <<out, handled>>,
           \A s \in Shards : pc[s] = "stopped" => pc'[s] = "stopped"
    PROVE  StreamInv'
<1>1. \A s \in Shards : PlacesOf(s)' = PlacesOf(s) /\ Taken(s)' = Taken(s)
  BY DEF PlacesOf, Taken
<1>2. Delivered'
  BY <1>1 DEF StreamInv, Delivered
<1>3. NoGap'
  BY <1>1 DEF StreamInv, NoGap, Turn
<1>4. QED
  BY <1>2, <1>3 DEF StreamInv
\* A result comes on the vector: the next of its stream.
LEMMA PushStream ==
    ASSUME StreamInv, NEW s \in Shards, OnResult(s), ~stop
    PROVE  StreamInv'
<1> DEFINE r == Emitted(s)[handled[s]]
<1>1. /\ handled[s] \in 1 .. Len(Emitted(s)) /\ handled[s] < received[s] /\ pc[s] = "drain"
      /\ handled' = [handled EXCEPT ![s] = handled[s] + 1]
      /\ pc' = [pc EXCEPT ![s] = "pushed"]
      /\ UNCHANGED <<received, good, alive, stop, leader, elapsed>>
  BY StreamLength DEF OnResult, StreamInv, TypeInv, LinesInv, IsStats, watcher, clock
<1>2. r \in Result /\ r.shard = s /\ out' = Append(out, r)
  BY <1>1, StreamsTyped, StreamLength DEF OnResult, ResultIn, StreamInv, TypeInv
<1>3. /\ out' \in Seq(Result)
      /\ Len(out) + 1 \notin DOMAIN out
      /\ out'[Len(out) + 1] = r
      /\ \A i \in DOMAIN out : out'[i] = out[i] /\ i < Len(out) + 1
      /\ PlacesOf(s)' = PlacesOf(s) \cup {Len(out) + 1}
      /\ \A x \in Shards : x # s => PlacesOf(x)' = PlacesOf(x)
  BY <1>2, PushPlaces DEF StreamInv
<1>4. \A x \in Shards : PlacesOf(x) \subseteq DOMAIN out /\ IsFiniteSet(PlacesOf(x))
  BY PlacesFinite DEF PlacesOf, StreamInv
<1>5. Cardinality(PlacesOf(s)) = handled[s] - 1
  BY <1>1, StreamLength DEF StreamInv, Delivered, Taken
<1>6. Cardinality(PlacesOf(s)') = handled[s]
  <2>1. Cardinality(PlacesOf(s) \cup {Len(out) + 1}) = Cardinality(PlacesOf(s)) + 1
    BY <1>3, <1>4, FS_AddElement
  <2>2. QED
    BY <1>1, <1>3, <1>5, <2>1
<1>7. TypeInv'
  BY <1>1, <1>3 DEF StreamInv, TypeInv
<1>8. LinesInv'
  BY <1>1 DEF StreamInv, LinesInv, TypeInv, NumLines
<1>9. Delivered'
  <2>1. ASSUME NEW x \in Shards, pc'[x] # "stopped" PROVE Cardinality(PlacesOf(x))' = Taken(x)'
    <3>1. CASE x = s
      <4>1. handled'[s] = handled[s] + 1 /\ handled'[s] # 0 /\ handled'[s] # NumLines(s)
        BY <1>1, StreamLength DEF StreamInv, TypeInv
      <4>2. Taken(s)' = handled[s]
        BY <1>1, <4>1 DEF Taken
      <4>3. QED
        BY <1>6, <3>1, <4>2
    <3>2. CASE x # s
      <4>1. pc[x] # "stopped" /\ handled'[x] = handled[x]
        BY <1>1, <2>1, <3>2 DEF StreamInv, TypeInv
      <4>2. QED
        BY <1>3, <3>2, <4>1 DEF StreamInv, Delivered, Taken
    <3>3. QED
      BY <3>1, <3>2
  <2>2. QED
    BY <2>1 DEF Delivered
<1>10. NoGap'
  <2> SUFFICES ASSUME NEW x \in Shards, NEW i \in PlacesOf(x)'
               PROVE  Turn(x, i)' \in DOMAIN Emitted(x) /\ out'[i] = Emitted(x)[Turn(x, i)']
    BY DEF NoGap
  <2>1. CASE i \in PlacesOf(x)
    <3>1. {j \in PlacesOf(x)' : j <= i} = {j \in PlacesOf(x) : j <= i}
      <4>1. i < Len(out) + 1 /\ i \in Nat /\ Len(out) \in Nat
        BY <1>3, <1>4, <2>1 DEF StreamInv, TypeInv
      <4>2. ~(Len(out) + 1 <= i)
        BY <4>1
      <4>3. QED
        BY <1>3, <2>1, <4>2
    <3>2. Turn(x, i)' = Turn(x, i) /\ out'[i] = out[i]
      BY <1>3, <1>4, <2>1, <3>1 DEF Turn, Rank
    <3>3. QED
      BY <2>1, <3>2 DEF StreamInv, NoGap
  <2>2. CASE i \notin PlacesOf(x)
    <3>1. x = s /\ i = Len(out) + 1
      BY <1>3, <2>2
    <3>2. {j \in PlacesOf(s)' : j <= i} = PlacesOf(s)'
      BY <1>3, <1>4, <3>1 DEF StreamInv, TypeInv
    <3>3. Turn(x, i)' = handled[s]
      BY <1>6, <3>1, <3>2 DEF Turn, Rank
    <3>4. QED
      BY <1>1, <1>3, <3>1, <3>3, StreamsTyped
  <2>3. QED
    BY <2>1, <2>2
<1>11. QED
  BY <1>7, <1>8, <1>9, <1>10 DEF StreamInv

\* The result is dropped, and the worker stops.
LEMMA DropStream ==
    ASSUME StreamInv, NEW s \in Shards, OnResult(s), stop
    PROVE  StreamInv'
<1>1. /\ handled[s] < received[s] /\ pc[s] = "drain"
      /\ handled' = [handled EXCEPT ![s] = handled[s] + 1]
      /\ pc' = [pc EXCEPT ![s] = "stopped"]
      /\ alive' = alive - 1
      /\ UNCHANGED <<received, out, good, stop, leader, elapsed>>
  BY DEF OnResult, Finish, watcher, clock
<1>2. TypeInv'
  BY <1>1 DEF StreamInv, TypeInv, Over
<1>3. LinesInv'
  BY <1>1 DEF StreamInv, LinesInv, TypeInv, NumLines
<1>4. \A x \in Shards : PlacesOf(x)' = PlacesOf(x)
  BY <1>1 DEF PlacesOf
<1>5. Delivered'
  <2>1. ASSUME NEW x \in Shards, pc'[x] # "stopped" PROVE Cardinality(PlacesOf(x))' = Taken(x)'
    <3>1. pc[x] # "stopped" /\ handled'[x] = handled[x]
      BY <1>1, <2>1 DEF StreamInv, TypeInv
    <3>2. QED
      BY <1>4, <3>1 DEF StreamInv, Delivered, Taken
  <2>2. QED
    BY <2>1 DEF Delivered
<1>6. NoGap'
  BY <1>1, <1>4 DEF StreamInv, NoGap, Turn
<1>7. QED
  BY <1>2, <1>3, <1>5, <1>6 DEF StreamInv

\* The statistics come after the last result.
LEMMA StatsStream ==
    ASSUME StreamInv, NEW s \in Shards, OnStats(s)
    PROVE  StreamInv'
<1>1. /\ handled[s] < received[s] /\ pc[s] = "drain" /\ handled[s] + 1 = NumLines(s)
      /\ handled' = [handled EXCEPT ![s] = handled[s] + 1]
      /\ UNCHANGED <<pc, received, out, good, alive, stop, leader, elapsed>>
  BY DEF OnStats, IsStats, watcher, clock
<1>2. TypeInv'
  BY <1>1 DEF StreamInv, TypeInv
<1>3. LinesInv'
  BY <1>1 DEF StreamInv, LinesInv, TypeInv, NumLines
<1>4. \A x \in Shards : PlacesOf(x)' = PlacesOf(x)
  BY <1>1 DEF PlacesOf
<1>5. \A x \in Shards : Taken(x)' = Taken(x)
  BY <1>1, StreamLength DEF StreamInv, TypeInv, Taken
<1>6. Delivered'
  BY <1>1, <1>4, <1>5 DEF StreamInv, Delivered
<1>7. NoGap'
  BY <1>1, <1>4 DEF StreamInv, NoGap, Turn
<1>8. QED
  BY <1>2, <1>3, <1>6, <1>7 DEF StreamInv

\* A chunk arrives.
LEMMA RecvStream ==
    ASSUME StreamInv, NEW s \in Shards, NEW n \in 1 .. NumLines(s), Recv(s, n)
    PROVE  StreamInv'
<1>1. /\ pc[s] = "recv" /\ received[s] < n /\ n \in Nat /\ n <= NumLines(s)
      /\ received' = [received EXCEPT ![s] = n]
      /\ handled' = [handled EXCEPT ![s] = IF @ = 0 THEN 1 ELSE @]
      /\ pc' = [pc EXCEPT ![s] = "drain"]
      /\ UNCHANGED <<out, good, alive, stop, leader, elapsed>>
  BY StreamLength DEF Recv, shared, watcher, clock
<1>2. TypeInv'
  BY <1>1 DEF StreamInv, TypeInv
<1>3. LinesInv'
  BY <1>1 DEF StreamInv, LinesInv, TypeInv, NumLines
<1>4. \A x \in Shards : PlacesOf(x)' = PlacesOf(x)
  BY <1>1 DEF PlacesOf
<1>5. \A x \in Shards : Taken(x)' = Taken(x)
  BY <1>1, StreamLength DEF StreamInv, TypeInv, Taken
<1>6. Delivered'
  BY <1>1, <1>4, <1>5 DEF StreamInv, Delivered, TypeInv
<1>7. NoGap'
  BY <1>1, <1>4 DEF StreamInv, NoGap, Turn
<1>8. QED
  BY <1>2, <1>3, <1>6, <1>7 DEF StreamInv
\* A worker goes on, or ends, without touching the vector.
LEMMA WorkerGoesOn ==
    ASSUME StreamInv, NEW s \in Shards,
           NEW where \in {"recv", "drain", "counted"} \cup Over,
           pc[s] # "stopped",
           pc[s] \in {"pushed", "counted"} \/ where \in {"recv"} \cup Over,
           pc' = [pc EXCEPT ![s] = where],
           good' \in Nat, alive' \in Int,
           UNCHANGED <<received, handled, out, stop, leader, elapsed>>
    PROVE  StreamInv'
<1>1. TypeInv'
  BY DEF StreamInv, TypeInv, Over
<1>2. \A x \in Shards : pc'[x] \in {"drain", "pushed", "counted"} =>
                          pc[x] \in {"drain", "pushed", "counted"}
  BY DEF StreamInv, TypeInv, Over
<1>3. LinesInv'
  BY <1>2 DEF StreamInv, LinesInv, NumLines
<1>4. \A x \in Shards : pc[x] = "stopped" => pc'[x] = "stopped"
  BY DEF StreamInv, TypeInv
<1>5. QED
  BY <1>1, <1>3, <1>4, StillStream

\* The other steps leave the vector and what was handled as they are.
LEMMA StillSteps ==
    ASSUME StreamInv,
           \/ \E s \in Shards :
                 \/ ShardWrites(s) \/ ShardDies(s) \/ ConnectFails(s) \/ Connect(s)
                 \/ RecvEnds(s) \/ RecvTimesOut(s) \/ BufferEmpty(s) \/ CountIfGood(s) \/ CheckStop(s)
           \/ WatchEnds \/ Answer \/ Tick \/ UNCHANGED vars
    PROVE  StreamInv'
<1> USE DEF Over, Finish, EnterRecv, sockets, shared, watcher, clock
<1>t. good \in Nat /\ alive \in Int /\ alive - 1 \in Int
  BY DEF StreamInv, TypeInv
<1>1. ASSUME NEW s \in Shards, ShardWrites(s) \/ ShardDies(s) PROVE StreamInv'
  BY <1>1, StillStream DEF ShardWrites, ShardDies, StreamInv, TypeInv, LinesInv, NumLines
<1>2. ASSUME NEW s \in Shards, ConnectFails(s) PROVE StreamInv'
  BY <1>2, <1>t, WorkerGoesOn DEF ConnectFails
<1>3. ASSUME NEW s \in Shards, Connect(s) PROVE StreamInv'
  BY <1>3, <1>t, WorkerGoesOn DEF Connect
<1>4. ASSUME NEW s \in Shards, RecvEnds(s) PROVE StreamInv'
  BY <1>4, <1>t, WorkerGoesOn DEF RecvEnds
<1>5. ASSUME NEW s \in Shards, RecvTimesOut(s) PROVE StreamInv'
  BY <1>5, <1>t, WorkerGoesOn DEF RecvTimesOut
<1>6. ASSUME NEW s \in Shards, BufferEmpty(s) PROVE StreamInv'
  BY <1>6, <1>t, WorkerGoesOn DEF BufferEmpty
<1>7. ASSUME NEW s \in Shards, CountIfGood(s) PROVE StreamInv'
  <2>1. good' \in Nat
    BY <1>7, <1>t DEF CountIfGood
  <2>2. QED
    BY <1>7, <1>t, <2>1, WorkerGoesOn DEF CountIfGood
<1>8. ASSUME NEW s \in Shards, CheckStop(s) PROVE StreamInv'
  <2>1. CASE stop
    BY <1>8, <2>1, <1>t, WorkerGoesOn DEF CheckStop
  <2>2. CASE ~stop
    BY <1>8, <2>2, <1>t, WorkerGoesOn DEF CheckStop
  <2>3. QED
    BY <2>1, <2>2
<1>9. CASE WatchEnds \/ Answer
  BY <1>9, StillStream DEF WatchEnds, Answer, StreamInv, TypeInv, LinesInv, NumLines
<1>10. CASE Tick \/ UNCHANGED vars
  BY <1>10, SearchAssumption, StillStream, SMTT(20) DEF Tick, vars, StreamInv, TypeInv, LinesInv, NumLines
<1>11. QED
  BY <1>1, <1>2, <1>3, <1>4, <1>5, <1>6, <1>7, <1>8, <1>9, <1>10

LEMMA NextStream == StreamInv /\ [Next]_vars => StreamInv'
<1> SUFFICES ASSUME StreamInv, [Next]_vars PROVE StreamInv'
  OBVIOUS
<1>1. ASSUME NEW s \in Shards, OnResult(s) PROVE StreamInv'
  <2>1. CASE stop
    BY <1>1, <2>1, DropStream
  <2>2. CASE ~stop
    BY <1>1, <2>2, PushStream
  <2>3. QED
    BY <2>1, <2>2
<1>2. ASSUME NEW s \in Shards, OnStats(s) PROVE StreamInv'
  BY <1>2, StatsStream
<1>3. ASSUME NEW s \in Shards, NEW n \in 1 .. NumLines(s), Recv(s, n) PROVE StreamInv'
  BY <1>3, RecvStream
<1>4. QED
  BY <1>1, <1>2, <1>3, StillSteps DEF Next, Threads, Leader, World, Worker

-----------------------------------------------------------------------------
(* Counters *)

LEMMA SetsFinite ==
    ASSUME StreamInv
    PROVE  /\ IsFiniteSet(Shards) /\ IsFiniteSet(Pending) /\ IsFiniteSet(Live) /\ IsFiniteSet(GoodPlaces)
           /\ Cardinality(Pending) \in Nat /\ Cardinality(Live) \in Nat
           /\ Cardinality(GoodPlaces) \in Nat
<1>1. IsFiniteSet(Shards) /\ Pending \subseteq Shards /\ Live \subseteq Shards
  BY SearchAssumption DEF Pending, Live
<1>2. IsFiniteSet(Pending) /\ IsFiniteSet(Live)
  BY <1>1, FS_Subset
<1>3. IsFiniteSet(GoodPlaces)
  BY PlacesFinite DEF GoodPlaces, StreamInv
<1>4. QED
  BY <1>1, <1>2, <1>3, FS_CardinalityType

LEMMA CountsRight == StreamInv /\ GoodCounted => CountNotAhead
BY SetsFinite DEF StreamInv, TypeInv, GoodCounted, CountNotAhead

LEMMA InitCount == Init => CountInv
<1> SUFFICES ASSUME Init PROVE CountInv
  OBVIOUS
<1>1. GoodPlaces = {} /\ Pending = {} /\ Live = Shards
  BY DEF Init, GoodPlaces, Pending, Live, Over
<1>2. GoodCounted
  <2>1. Cardinality({}) = 0
    BY FS_EmptySet
  <2>2. QED
    BY <1>1, <2>1 DEF Init, GoodCounted
<1>3. AliveCounted /\ StopRaised /\ ThreeExits
  BY <1>1 DEF Init, AliveCounted, StopRaised, ThreeExits
<1>4. QED
  BY <1>2, <1>3 DEF CountInv

\* Nothing is pushed, counted or ended.
LEMMA StillCount ==
    ASSUME StreamInv, StreamInv', CountInv, UNCHANGED <<out, good, alive, stop>>,
           leader' = "watch" <=> leader = "watch", elapsed' >= elapsed,
           \A x \in Shards : /\ pc'[x] = "pushed" <=> pc[x] = "pushed"
                             /\ pc[x] = "pushed" => handled'[x] = handled[x]
                             /\ \/ pc[x] \in Over /\ pc'[x] = pc[x]
                                \/ pc[x] \notin Over /\ pc'[x] \notin Over
    PROVE  CountInv'
<1>1. GoodPlaces' = GoodPlaces
  BY DEF GoodPlaces
<1>2. Pending' = Pending
  BY DEF Pending
<1>3. Live' = Live
  BY DEF Live
<1>4. GoodCounted' /\ AliveCounted'
  BY <1>1, <1>2, <1>3 DEF CountInv, GoodCounted, AliveCounted
<1>5. StopRaised'
  BY DEF CountInv, StopRaised, Over
<1>6. ThreeExits'
  BY <1>1, SearchAssumption DEF CountInv, ThreeExits, Over, StreamInv, TypeInv
<1>7. QED
  BY <1>4, <1>5, <1>6 DEF CountInv

\* A worker ends, or stops because it was told to.
LEMMA EndCount ==
    ASSUME StreamInv, StreamInv', CountInv, NEW s \in Shards, NEW how \in Over, Finish(s, how),
           pc[s] \notin Over, pc[s] # "pushed", how = "stopped" => stop,
           UNCHANGED <<out, good, stop, leader, elapsed>>,
           \A x \in Shards : x # s => handled'[x] = handled[x]
    PROVE  CountInv'
<1>1. pc'[s] = how /\ \A x \in Shards : x # s => pc'[x] = pc[x]
  BY DEF Finish, StreamInv, TypeInv
<1>2. GoodPlaces' = GoodPlaces
  BY DEF GoodPlaces
<1>3. Pending' = Pending
  BY <1>1 DEF Pending, Over
<1>4. GoodCounted'
  BY <1>2, <1>3 DEF CountInv, GoodCounted
<1>5. AliveCounted'
  <2>1. Live' = Live \ {s} /\ s \in Live
    BY <1>1 DEF Live
  <2>2. Cardinality(Live \ {s}) = Cardinality(Live) - 1
    BY <2>1, SetsFinite, FS_RemoveElement
  <2>3. QED
    BY <2>1, <2>2 DEF CountInv, AliveCounted, Finish
<1>6. StopRaised'
  BY <1>1 DEF CountInv, StopRaised
<1>7. ThreeExits'
  BY <1>1, <1>2 DEF CountInv, ThreeExits, Over
<1>8. QED
  BY <1>4, <1>5, <1>6, <1>7 DEF CountInv

\* A result on the vector is not counted yet.
LEMMA PushCount ==
    ASSUME StreamInv, StreamInv', CountInv, NEW s \in Shards, OnResult(s), ~stop
    PROVE  CountInv'
<1> DEFINE r == Emitted(s)[handled[s]]
<1>1. /\ handled[s] \in 1 .. Len(Emitted(s)) /\ pc[s] = "drain"
      /\ handled' = [handled EXCEPT ![s] = handled[s] + 1]
      /\ pc' = [pc EXCEPT ![s] = "pushed"]
      /\ UNCHANGED <<good, alive, stop, leader, elapsed>>
  BY StreamLength DEF OnResult, StreamInv, TypeInv, LinesInv, IsStats, watcher, clock
<1>2. r \in Result /\ r.shard = s /\ out' = Append(out, r)
  BY <1>1, StreamsTyped, StreamLength DEF OnResult, ResultIn, StreamInv, TypeInv
<1>3. /\ pc'[s] = "pushed" /\ ResultIn(s, handled'[s]) = r
      /\ \A x \in Shards : x # s => pc'[x] = pc[x] /\ handled'[x] = handled[x]
  BY <1>1, StreamLength DEF StreamInv, TypeInv, ResultIn
<1>4. /\ Len(out) + 1 \notin GoodPlaces
      /\ GoodPlaces' = GoodPlaces \cup (IF IsGood(r) THEN {Len(out) + 1} ELSE {})
  BY <1>2, PushPlaces DEF StreamInv, GoodPlaces
<1>5. s \notin Pending /\ Pending' = Pending \cup (IF IsGood(r) THEN {s} ELSE {})
  BY <1>1, <1>3 DEF Pending
<1>6. GoodCounted'
  <2>1. CASE IsGood(r)
    <3>1. Cardinality(GoodPlaces') = Cardinality(GoodPlaces) + 1
      BY <2>1, <1>4, SetsFinite, FS_AddElement
    <3>2. Cardinality(Pending') = Cardinality(Pending) + 1
      BY <2>1, <1>5, SetsFinite, FS_AddElement
    <3>3. QED
      BY <1>1, <3>1, <3>2, SetsFinite DEF CountInv, GoodCounted, StreamInv, TypeInv
  <2>2. CASE ~IsGood(r)
    BY <1>1, <1>4, <1>5, <2>2 DEF CountInv, GoodCounted
  <2>3. QED
    BY <2>1, <2>2
<1>7. AliveCounted'
  <2>1. Live' = Live
    BY <1>1, <1>3 DEF Live, Over
  <2>2. QED
    BY <1>1, <2>1 DEF CountInv, AliveCounted
<1>8. StopRaised' /\ ThreeExits'
  BY <1>1, <1>3 DEF CountInv, StopRaised, ThreeExits
<1>9. QED
  BY <1>6, <1>7, <1>8 DEF CountInv

LEMMA CountCount ==
    ASSUME StreamInv, StreamInv', CountInv, NEW s \in Shards, CountIfGood(s)
    PROVE  CountInv'
<1> DEFINE isGood == IsGood(ResultIn(s, handled[s]))
<1>1. /\ pc[s] = "pushed" /\ pc'[s] = "counted"
      /\ \A x \in Shards : x # s => pc'[x] = pc[x]
      /\ good' = IF isGood THEN good + 1 ELSE good
      /\ UNCHANGED <<handled, out, alive, stop, leader, elapsed>>
  BY DEF CountIfGood, StreamInv, TypeInv, sockets, watcher, clock
<1>2. GoodPlaces' = GoodPlaces
  BY <1>1 DEF GoodPlaces
<1>3. GoodCounted'
  <2>1. CASE isGood
    <3>1. s \in Pending /\ Pending' = Pending \ {s}
      BY <1>1, <2>1 DEF Pending
    <3>2. Cardinality(Pending') = Cardinality(Pending) - 1
      BY <3>1, SetsFinite, FS_RemoveElement
    <3>3. good' = good + 1 /\ good \in Nat
      BY <1>1, <2>1 DEF StreamInv, TypeInv
    <3>4. QED
      BY <1>2, <3>2, <3>3, SetsFinite DEF CountInv, GoodCounted
  <2>2. CASE ~isGood
    <3>1. Pending' = Pending
      BY <1>1, <2>2 DEF Pending
    <3>2. QED
      BY <1>1, <1>2, <2>2, <3>1 DEF CountInv, GoodCounted
  <2>3. QED
    BY <2>1, <2>2
<1>4. AliveCounted'
  <2>1. Live' = Live
    BY <1>1 DEF Live, Over
  <2>2. QED
    BY <1>1, <2>1 DEF CountInv, AliveCounted
<1>5. StopRaised' /\ ThreeExits'
  BY <1>1, <1>2 DEF CountInv, StopRaised, ThreeExits
<1>6. QED
  BY <1>3, <1>4, <1>5 DEF CountInv

LEMMA WatchCount ==
    ASSUME StreamInv, StreamInv', CountInv, WatchEnds
    PROVE  CountInv'
<1>1. /\ good >= Needed \/ alive = 0 \/ elapsed >= GlobalTimeout
      /\ stop' /\ leader' = "join" /\ ~stop
      /\ UNCHANGED <<pc, handled, out, good, alive, elapsed>>
  BY DEF WatchEnds, CountInv, StopRaised, sockets, clock
<1>2. GoodPlaces' = GoodPlaces /\ Pending' = Pending /\ Live' = Live
  BY <1>1 DEF GoodPlaces, Pending, Live
<1>3. GoodCounted' /\ AliveCounted' /\ StopRaised'
  BY <1>1, <1>2 DEF CountInv, GoodCounted, AliveCounted, StopRaised
<1>4. CASE good >= Needed
  <2>1. Cardinality(GoodPlaces) >= Needed
    BY <1>4, CountsRight, SetsFinite, SearchAssumption
       DEF CountInv, CountNotAhead, StreamInv, TypeInv
  <2>2. QED
    BY <1>2, <1>3, <2>1 DEF CountInv, ThreeExits
<1>5. CASE alive = 0
  <2>1. Live = {}
    BY <1>5, SetsFinite, FS_EmptySet DEF CountInv, AliveCounted
  <2>2. \A x \in Shards : pc[x] = "ended"
    BY <1>1, <2>1 DEF Live, Over, CountInv, StopRaised
  <2>3. QED
    BY <1>1, <1>3, <2>2 DEF CountInv, ThreeExits
<1>6. CASE elapsed >= GlobalTimeout
  BY <1>1, <1>3, <1>6 DEF CountInv, ThreeExits
<1>7. QED
  BY <1>1, <1>4, <1>5, <1>6

LEMMA NextCount == StreamInv /\ StreamInv' /\ CountInv /\ [Next]_vars => CountInv'
<1> SUFFICES ASSUME StreamInv, StreamInv', CountInv, [Next]_vars PROVE CountInv'
  OBVIOUS
<1> USE DEF sockets, shared, watcher, clock, Over
<1>t. pc \in [Shards -> {"connect", "recv", "drain", "pushed", "counted"} \cup Over] /\ elapsed \in Nat
      /\ handled \in [Shards -> Nat]
  BY DEF StreamInv, TypeInv
<1>1. ASSUME NEW s \in Shards, ShardWrites(s) \/ ShardDies(s) PROVE CountInv'
  BY <1>1, <1>t, StillCount DEF ShardWrites, ShardDies
<1>2. ASSUME NEW s \in Shards, ConnectFails(s) \/ RecvEnds(s) \/ RecvTimesOut(s) PROVE CountInv'
  <2>1. Finish(s, "ended") /\ pc[s] \in {"connect", "recv"}
    BY <1>2 DEF ConnectFails, RecvEnds, RecvTimesOut
  <2>2. UNCHANGED <<handled, out, good, stop, leader, elapsed>>
    BY <1>2 DEF ConnectFails, RecvEnds, RecvTimesOut
  <2>3. QED
    BY <2>1, <2>2, EndCount
<1>3. ASSUME NEW s \in Shards, Connect(s) \/ BufferEmpty(s) PROVE CountInv'
  BY <1>3, <1>t, StillCount DEF Connect, BufferEmpty, EnterRecv
<1>4. ASSUME NEW s \in Shards, NEW n \in 1 .. NumLines(s), Recv(s, n) PROVE CountInv'
  BY <1>4, <1>t, StillCount DEF Recv
<1>5. ASSUME NEW s \in Shards, OnStats(s) PROVE CountInv'
  BY <1>5, <1>t, StillCount DEF OnStats
<1>6. ASSUME NEW s \in Shards, OnResult(s) PROVE CountInv'
  <2>1. CASE stop
    <3>1. Finish(s, "stopped") /\ pc[s] = "drain" /\ UNCHANGED <<out, good, stop, leader, elapsed>>
      BY <1>6, <2>1 DEF OnResult
    <3>2. \A x \in Shards : x # s => handled'[x] = handled[x]
      BY <1>6, <1>t DEF OnResult
    <3>3. QED
      BY <2>1, <3>1, <3>2, EndCount
  <2>2. CASE ~stop
    BY <1>6, <2>2, PushCount
  <2>3. QED
    BY <2>1, <2>2
<1>7. ASSUME NEW s \in Shards, CountIfGood(s) PROVE CountInv'
  BY <1>7, CountCount
<1>8. ASSUME NEW s \in Shards, CheckStop(s) PROVE CountInv'
  <2>1. CASE stop
    <3>1. Finish(s, "stopped") /\ pc[s] = "counted"
          /\ UNCHANGED <<handled, out, good, stop, leader, elapsed>>
      BY <1>8, <2>1 DEF CheckStop
    <3>2. QED
      BY <2>1, <3>1, EndCount
  <2>2. CASE ~stop
    BY <1>8, <2>2, <1>t, StillCount DEF CheckStop
  <2>3. QED
    BY <2>1, <2>2
<1>9. CASE WatchEnds
  BY <1>9, WatchCount
<1>10. CASE Answer
  BY <1>10, <1>t, StillCount DEF Answer, Joined
<1>11. CASE Tick \/ UNCHANGED vars
  BY <1>11, <1>t, SearchAssumption, StillCount DEF Tick, vars
<1>12. QED
  BY <1>1, <1>2, <1>3, <1>4, <1>5, <1>6, <1>7, <1>8, <1>9, <1>10, <1>11
     DEF Next, Threads, Leader, World, Worker

-----------------------------------------------------------------------------
(* The answer *)

ResultsOf(a) == {a[i] : i \in DOMAIN a}
URLsOf(a) == {a[i].url : i \in DOMAIN a}
BestFirst(a) == \A i, j \in DOMAIN a : i < j => a[i].score >= a[j].score

LEMMA ScoresNat == \A r \in Result : r.score \in Nat /\ r.shard \in Shards
BY DEF Result

\* Sorting loses nothing and adds nothing.
LEMMA SortedIs ==
    ASSUME StreamInv, NEW a \in Sorted(out)
    PROVE  a \in Seq(Result) /\ BestFirst(a) /\ ResultsOf(a) = ResultsOf(out)
<1> DEFINE n == Len(out)
<1>1. /\ n \in Nat /\ DOMAIN out = 1 .. n /\ IsFiniteSet(1 .. n) /\ Cardinality(1 .. n) = n
      /\ \A i \in 1 .. n : out[i] \in Result
  <2>1. out \in Seq(Result)
    BY DEF StreamInv, TypeInv
  <2>2. n \in Nat /\ DOMAIN out = 1 .. n /\ \A i \in 1 .. n : out[i] \in Result
    BY <2>1
  <2>3. QED
    BY <2>2, FS_Interval
<1> HIDE DEF n
<1>2. PICK p \in SetToSeqs(1 .. n) : a = [i \in DOMAIN p |-> out[p[i]]]
  BY <1>1 DEF Sorted
<1>3. p \in [1 .. n -> 1 .. n] /\ \A i, j \in 1 .. n : i # j => p[i] # p[j]
  BY <1>1, <1>2 DEF SetToSeqs
<1>4. p \in Surjection(1 .. n, 1 .. n)
  <2>1. p \in Injection(1 .. n, 1 .. n)
    BY <1>3 DEF Injection, IsInjective
  <2>2. QED
    BY <1>1, <2>1, FS_Injection
<1>5. \A j \in 1 .. n : \E i \in 1 .. n : p[i] = j
  BY <1>4 DEF Surjection
<1>6. DOMAIN a = 1 .. n /\ \A i \in 1 .. n : a[i] = out[p[i]] /\ p[i] \in 1 .. n
  BY <1>2, <1>3
<1>7. a \in Seq(Result)
  <2>1. a = [i \in 1 .. n |-> out[p[i]]]
    BY <1>2, <1>3
  <2>2. \A i \in 1 .. n : out[p[i]] \in Result
    BY <1>1, <1>3
  <2>3. QED
    BY <1>1, <2>1, <2>2
<1>8. ResultsOf(a) = ResultsOf(out)
  <2>1. \A i \in 1 .. n : \E j \in 1 .. n : a[i] = out[j]
    BY <1>6
  <2>2. \A j \in 1 .. n : \E i \in 1 .. n : out[j] = a[i]
    BY <1>5, <1>6
  <2>3. ResultsOf(a) = {a[i] : i \in 1 .. n} /\ ResultsOf(out) = {out[i] : i \in 1 .. n}
    BY <1>1, <1>6 DEF ResultsOf
  <2>4. QED
    BY <2>1, <2>2, <2>3
<1>9. BestFirst(a)
  BY DEF Sorted, BestFirst
<1>10. QED
  BY <1>7, <1>8, <1>9

\* Of the results with one URL the first stays, which is the best.
LEMMA DedupedIs ==
    ASSUME NEW a \in Seq(Result), BestFirst(a)
    PROVE  /\ Deduped(a) \in Seq(Result)
           /\ Len(Deduped(a)) = Cardinality(URLsOf(a))
           /\ ResultsOf(Deduped(a)) \subseteq ResultsOf(a)
           /\ \A k, m \in DOMAIN Deduped(a) :
                 k < m => /\ Deduped(a)[k].url # Deduped(a)[m].url
                          /\ Deduped(a)[k].score >= Deduped(a)[m].score
           /\ \A i \in DOMAIN a : \E k \in DOMAIN Deduped(a) :
                 Deduped(a)[k].url = a[i].url /\ Deduped(a)[k].score >= a[i].score
<1> DEFINE n == Len(a)
           F == {i \in 1 .. n : \A j \in 1 .. i - 1 : a[j].url # a[i].url}
           c == Cardinality(F)
           at(k) == InOrder(F)[k]
           b == Deduped(a)
<1>1. /\ n \in Nat /\ DOMAIN a = 1 .. n /\ IsFiniteSet(1 .. n)
      /\ \A i \in 1 .. n : i \in Nat /\ a[i] \in Result /\ a[i].score \in Nat
  <2>1. n \in Nat /\ DOMAIN a = 1 .. n /\ \A i \in 1 .. n : i \in Nat /\ a[i] \in Result
    OBVIOUS
  <2>2. \A r \in Result : r.score \in Nat
    BY ScoresNat
  <2>3. IsFiniteSet(1 .. n)
    BY <2>1, FS_Interval
  <2> HIDE DEF n
  <2>4. QED
    BY <2>1, <2>2, <2>3
<1> HIDE DEF n
<1>2. F \subseteq 1 .. n /\ F \subseteq Nat /\ IsFiniteSet(F)
  <2>1. F \subseteq 1 .. n /\ F \subseteq Nat
    BY <1>1
  <2>2. QED
    BY <1>1, <2>1, FS_Subset
<1>3. \A i, j \in F : i < j => a[i].url # a[j].url
  BY <1>1
<1>4. ASSUME NEW i \in 1 .. n PROVE \E j \in F : j <= i /\ a[j].url = a[i].url
  <2> DEFINE E == {j \in 1 .. n : a[j].url = a[i].url}
  <2>1. E \subseteq 1 .. n /\ E \subseteq Nat /\ i \in E
    BY <1>1
  <2>2. IsFiniteSet(E)
    BY <1>1, <2>1, FS_Subset
  <2> HIDE DEF E, F
  <2>5. PICK j \in E : \A k \in E : j <= k
    BY <2>1, <2>2, Least
  <2>6. j \in F
    BY <1>1, <2>5 DEF E, F
  <2>7. QED
    BY <2>1, <2>5, <2>6 DEF E
<1> HIDE DEF F
<1>5. /\ c \in Nat
      /\ DOMAIN InOrder(F) = 1 .. c
      /\ \A k \in 1 .. c : at(k) \in F
      /\ \A i \in F : \E k \in 1 .. c : at(k) = i
      /\ \A k, m \in 1 .. c : k < m => at(k) < at(m)
  BY <1>2, InOrderLists, FS_CardinalityType
<1>6. b = [k \in 1 .. c |-> a[at(k)]]
  BY <1>1, <1>5 DEF Deduped, F
<1> HIDE DEF c, at, b
<1>7. b \in Seq(Result) /\ DOMAIN b = 1 .. c /\ \A k \in 1 .. c : b[k] = a[at(k)] /\ at(k) \in 1 .. n
  <2>1. \A k \in 1 .. c : at(k) \in 1 .. n /\ a[at(k)] \in Result
    BY <1>1, <1>2, <1>5
  <2>2. b \in [1 .. c -> Result]
    BY <1>6, <2>1
  <2>3. QED
    BY <1>5, <1>6, <2>1, <2>2
<1>8. Len(b) = Cardinality(URLsOf(a))
  <2> DEFINE f == [i \in F |-> a[i].url]
  <2>1. f \in [F -> URLsOf(a)] /\ \A u \in URLsOf(a) : \E i \in F : f[i] = u
    BY <1>1, <1>2, <1>4 DEF URLsOf
  <2>2. f \in Surjection(F, URLsOf(a))
    BY <2>1 DEF Surjection
  <2>3. f \in Injection(F, URLsOf(a))
    <3>1. ASSUME NEW i \in F, NEW j \in F, a[i].url = a[j].url PROVE i = j
      <4>1. i \in Nat /\ j \in Nat
        BY <1>2
      <4>2. ~(i < j) /\ ~(j < i)
        BY <1>3, <3>1
      <4>3. QED
        BY <4>1, <4>2
    <3>2. QED
      BY <2>1, <3>1 DEF Injection, IsInjective
  <2>4. Cardinality(URLsOf(a)) = c
    BY <1>2, <2>2, <2>3, FS_Surjection DEF c
  <2>5. Len(b) = c
    BY <1>5, <1>7
  <2>6. QED
    BY <2>4, <2>5
<1>9. ResultsOf(b) \subseteq ResultsOf(a)
  BY <1>1, <1>7 DEF ResultsOf
<1>10. ASSUME NEW k \in 1 .. c, NEW m \in 1 .. c, k < m
       PROVE  b[k].url # b[m].url /\ b[k].score >= b[m].score
  <2>1. at(k) \in F /\ at(m) \in F /\ at(k) < at(m)
    BY <1>5, <1>10
  <2>2. a[at(k)].url # a[at(m)].url
    BY <1>3, <2>1
  <2>3. a[at(k)].score >= a[at(m)].score
    BY <1>1, <1>2, <2>1 DEF BestFirst
  <2>4. QED
    BY <1>7, <2>2, <2>3
<1>11. ASSUME NEW i \in 1 .. n PROVE \E k \in 1 .. c : b[k].url = a[i].url /\ b[k].score >= a[i].score
  <2>1. PICK j \in F : j <= i /\ a[j].url = a[i].url
    BY <1>4
  <2>2. j \in 1 .. n /\ a[j].score >= a[i].score
    <3>1. j \in 1 .. n
      BY <1>2
    <3>2. CASE j = i
      BY <1>1, <3>1, <3>2
    <3>3. CASE j # i
      <4>1. j < i
        BY <1>1, <2>1, <3>1, <3>3
      <4>2. QED
        BY <1>1, <3>1, <4>1 DEF BestFirst
    <3>4. QED
      BY <3>1, <3>2, <3>3
  <2>3. PICK k \in 1 .. c : at(k) = j
    BY <1>5
  <2>4. QED
    BY <1>7, <2>1, <2>2, <2>3
<1>12. QED
  BY <1>1, <1>7, <1>8, <1>9, <1>10, <1>11 DEF b

LEMMA SameCardinality == \A S : Promise!Cardinality(S) = Cardinality(S)
BY DEF Promise!Cardinality, Cardinality

\* The answer is the best of the results on the vector.
LEMMA AnswerIs ==
    ASSUME StreamInv, NEW a \in Sorted(out)
    PROVE  /\ Resized(Deduped(a)) \in Seq(Result)
           /\ Promise!Collected = ResultsOf(out) => Promise!IsAnswer(Resized(Deduped(a)))
<1> DEFINE b == Deduped(a)
           n == IF Len(b) < Needed THEN Len(b) ELSE Needed
           c == Resized(b)
<1>1. a \in Seq(Result) /\ BestFirst(a) /\ ResultsOf(a) = ResultsOf(out)
  BY SortedIs
<1>2. /\ b \in Seq(Result)
      /\ Len(b) = Cardinality(URLsOf(a))
      /\ ResultsOf(b) \subseteq ResultsOf(a)
      /\ \A k, m \in DOMAIN b : k < m => b[k].url # b[m].url /\ b[k].score >= b[m].score
      /\ \A i \in DOMAIN a : \E k \in DOMAIN b : b[k].url = a[i].url /\ b[k].score >= a[i].score
  BY <1>1, DedupedIs
<1> HIDE DEF b
<1>3. /\ n \in Nat /\ Len(b) \in Nat /\ n <= Len(b) /\ DOMAIN b = 1 .. Len(b)
      /\ \A k \in 1 .. n : k \in 1 .. Len(b) /\ b[k] \in Result
  BY <1>2, SearchAssumption
<1>4. c \in Seq(Result) /\ Len(c) = n /\ DOMAIN c = 1 .. n /\ \A k \in 1 .. n : c[k] = b[k]
  <2>1. c = SubSeq(b, 1, n)
    BY DEF Resized
  <2> HIDE DEF c, n
  <2>2. c = [k \in 1 .. n |-> b[k]]
    BY <1>2, <1>3, <2>1
  <2>3. QED
    BY <1>3, <2>2
<1>5. \A k, m \in 1 .. Len(b) : k < m => b[k].url # b[m].url /\ b[k].score >= b[m].score
  BY <1>2, <1>3
<1>6. \A k \in 1 .. Len(b) : b[k].score \in Nat
  BY <1>2, <1>3, ScoresNat
<1> HIDE DEF c, n
<1>7. ASSUME Promise!Collected = ResultsOf(out) PROVE Promise!IsAnswer(c)
  <2> DEFINE given == {c[k] : k \in DOMAIN c}
             all == Promise!Collected
  <2>1. all = ResultsOf(a)
    BY <1>1, <1>7
  <2> HIDE DEF all
  <2>2. Promise!UrlsIn(all) = URLsOf(a)
    BY <2>1 DEF Promise!UrlsIn, URLsOf, ResultsOf
  <2>3. Len(c) = IF Cardinality(Promise!UrlsIn(all)) < Needed
                 THEN Cardinality(Promise!UrlsIn(all)) ELSE Needed
    BY <1>2, <1>4, <2>2 DEF n
  <2>4. given \subseteq all
    <3>1. \A k \in 1 .. n : b[k] \in ResultsOf(b)
      BY <1>3 DEF ResultsOf
    <3>2. QED
      BY <1>2, <1>4, <2>1, <3>1
  <2>5. \A i, j \in DOMAIN c : i < j => c[i].url # c[j].url /\ c[i].score >= c[j].score
    BY <1>3, <1>4, <1>5
  <2>6. ASSUME NEW r \in all
        PROVE  \/ \E g \in given : g.url = r.url /\ g.score >= r.score
               \/ r.url \notin Promise!UrlsIn(given) /\ \A g \in given : g.score >= r.score
    <3>1. PICK i \in DOMAIN a : r = a[i]
      BY <2>1 DEF ResultsOf
    <3>2. PICK k \in 1 .. Len(b) : b[k].url = r.url /\ b[k].score >= r.score
      BY <1>2, <1>3, <3>1
    <3>3. r.score \in Nat
      <4>1. r \in Result
        BY <1>1, <3>1
      <4>2. QED
        BY <4>1, ScoresNat
    <3>4. CASE k \in 1 .. n
      <4>1. c[k] \in given /\ c[k] = b[k]
        BY <1>4, <3>4
      <4>2. QED
        BY <3>2, <4>1
    <3>5. CASE k \notin 1 .. n
      <4>1. n < k
        BY <1>3, <3>5
      <4>2. ASSUME NEW g \in given PROVE g.url # r.url /\ g.score >= r.score
        <5>1. PICK m \in 1 .. n : g = b[m]
          BY <1>4
        <5>2. m \in 1 .. Len(b) /\ m < k
          BY <1>3, <4>1, <5>1
        <5>3. b[m].url # b[k].url /\ b[m].score >= b[k].score
          BY <1>5, <5>2
        <5>4. b[m].score \in Nat /\ b[k].score \in Nat
          BY <1>6, <5>2
        <5>5. QED
          BY <3>2, <3>3, <5>1, <5>3, <5>4
      <4>3. r.url \notin Promise!UrlsIn(given)
        BY <4>2 DEF Promise!UrlsIn
      <4>4. QED
        BY <4>2, <4>3
    <3>6. QED
      BY <3>4, <3>5
  <2>7. QED
    BY <2>3, <2>4, <2>5, <2>6, SameCardinality DEF Promise!IsAnswer, all
<1>8. QED
  BY <1>4, <1>7 DEF b, c

\* What the shards have delivered is what is on the vector.
LEMMA CollectedIs == ASSUME StreamInv PROVE Promise!Collected = ResultsOf(out)
<1> DEFINE got(s) == Cardinality(PlacesOf(s))
<1>1. /\ \A i \in DOMAIN out : i \in Nat /\ out[i] \in Result
      /\ \A i \in DOMAIN out : out[i].shard \in Shards /\ i \in PlacesOf(out[i].shard)
  <2>1. \A i \in DOMAIN out : i \in Nat /\ out[i] \in Result
    BY DEF StreamInv, TypeInv
  <2>2. QED
    BY <2>1 DEF Result, PlacesOf
<1>2. ASSUME NEW s \in Shards
      PROVE  /\ \A i \in PlacesOf(s) : Turn(s, i) \in 1 .. got(s)
             /\ \A k \in 1 .. got(s) : \E i \in PlacesOf(s) : Turn(s, i) = k
  <2>1. PlacesOf(s) \subseteq DOMAIN out /\ PlacesOf(s) \subseteq Nat
    BY <1>1 DEF PlacesOf
  <2>2. IsFiniteSet(PlacesOf(s))
    BY <2>1, PlacesFinite DEF StreamInv
  <2>3. QED
    BY <2>1, <2>2, Ranks DEF Turn
<1>3. \A s \in Shards : \A i \in PlacesOf(s) : i \in DOMAIN out /\ out[i] = Streams[s][Turn(s, i)]
  BY DEF StreamInv, NoGap, Emitted, PlacesOf
<1> DEFINE all == UNION {{Streams[s][k] : k \in 1 .. got(s)} : s \in Shards}
<1>4. Promise!Collected = all
  BY DEF Promise!Collected
<1> HIDE DEF got
<1>5. ASSUME NEW r \in all PROVE r \in ResultsOf(out)
  <2>1. PICK s \in Shards : \E k \in 1 .. got(s) : r = Streams[s][k]
    OBVIOUS
  <2>2. PICK k \in 1 .. got(s) : r = Streams[s][k]
    BY <2>1
  <2>3. PICK i \in PlacesOf(s) : Turn(s, i) = k
    BY <1>2
  <2>4. QED
    BY <1>3, <2>2, <2>3 DEF ResultsOf
<1>6. ASSUME NEW i \in DOMAIN out PROVE out[i] \in all
  <2> DEFINE s == out[i].shard
  <2>1. s \in Shards /\ i \in PlacesOf(s)
    BY <1>1
  <2> HIDE DEF s
  <2>2. Turn(s, i) \in 1 .. got(s) /\ out[i] = Streams[s][Turn(s, i)]
    BY <1>2, <1>3, <2>1
  <2>3. QED
    BY <2>1, <2>2
<1>7. QED
  BY <1>4, <1>5, <1>6 DEF ResultsOf

\* The good results on the vector, told apart by shard and turn, are the good results delivered.
LEMMA GoodEnough ==
    ASSUME StreamInv, Cardinality(GoodPlaces) >= Needed
    PROVE  Cardinality(Promise!GoodDelivered) >= Needed
<1> DEFINE got(s) == Cardinality(PlacesOf(s))
           slots == UNION {{s} \X (1 .. got(s)) : s \in Shards}
           T == {d \in slots : Streams[d[1]][d[2]].score \in Good}
           f == [i \in GoodPlaces |-> <<out[i].shard, Turn(out[i].shard, i)>>]
<1>1. ASSUME NEW i \in DOMAIN out PROVE i \in Nat /\ out[i].shard \in Shards /\ i \in PlacesOf(out[i].shard)
  <2>1. i \in Nat /\ out[i] \in Result
    BY DEF StreamInv, TypeInv
  <2>2. QED
    BY <2>1, ScoresNat DEF PlacesOf
<1>2. ASSUME NEW s \in Shards
      PROVE  /\ got(s) \in Nat /\ got(s) <= Len(out)
             /\ \A i \in PlacesOf(s) : Turn(s, i) \in 1 .. got(s)
             /\ \A i, j \in PlacesOf(s) : i < j => Turn(s, i) # Turn(s, j)
  <2>1. PlacesOf(s) \subseteq DOMAIN out /\ PlacesOf(s) \subseteq Nat
    BY <1>1 DEF PlacesOf
  <2>2. IsFiniteSet(PlacesOf(s))
    BY <2>1, PlacesFinite DEF StreamInv
  <2>3. Len(out) \in Nat /\ DOMAIN out = 1 .. Len(out)
    BY DEF StreamInv, TypeInv
  <2>4. IsFiniteSet(DOMAIN out) /\ Cardinality(DOMAIN out) = Len(out)
    <3> DEFINE n == Len(out)
    <3>1. n \in Nat /\ DOMAIN out = 1 .. n
      BY <2>3
    <3> HIDE DEF n
    <3>2. IsFiniteSet(1 .. n) /\ Cardinality(1 .. n) = n
      BY <3>1, FS_Interval
    <3>3. QED
      BY <3>1, <3>2 DEF n
  <2>5. got(s) <= Len(out)
    BY <2>1, <2>4, FS_Subset
  <2>6. \A i, j \in PlacesOf(s) : i < j => Rank(PlacesOf(s), i) # Rank(PlacesOf(s), j)
    BY <2>1, <2>2, Ranks
  <2>7. QED
    BY <2>1, <2>2, <2>5, <2>6, Ranks DEF Turn
<1>3. \A s \in Shards : \A i \in PlacesOf(s) : out[i] = Streams[s][Turn(s, i)]
  BY DEF StreamInv, NoGap, Emitted
<1>4. Promise!GoodDelivered = T
  BY DEF Promise!GoodDelivered
<1> HIDE DEF got
<1>5. IsFiniteSet(T) /\ Cardinality(T) \in Nat
  <2>1. Len(out) \in Nat
    BY DEF StreamInv, TypeInv
  <2>2. IsFiniteSet(1 .. Len(out))
    BY <2>1, FS_Interval
  <2>3. IsFiniteSet(Shards \X (1 .. Len(out)))
    BY <2>2, SearchAssumption, FS_Product
  <2>4. \A s \in Shards : 1 .. got(s) \subseteq 1 .. Len(out)
    BY <1>2, <2>1
  <2>5. T \subseteq Shards \X (1 .. Len(out))
    BY <2>4
  <2>6. QED
    BY <2>3, <2>5, FS_Subset, FS_CardinalityType
<1>6. ASSUME NEW i \in GoodPlaces PROVE f[i] \in T
  <2> DEFINE s == out[i].shard
             k == Turn(s, i)
  <2>1. i \in DOMAIN out /\ out[i].score \in Good
    BY DEF GoodPlaces, IsGood
  <2>2. s \in Shards /\ i \in PlacesOf(s)
    BY <1>1, <2>1
  <2>3. f[i] = <<s, k>>
    OBVIOUS
  <2> HIDE DEF s, k
  <2>4. k \in 1 .. got(s) /\ out[i] = Streams[s][k]
    BY <1>2, <1>3, <2>2 DEF k
  <2>5. <<s, k>> \in slots
    BY <2>2, <2>4
  <2>6. QED
    BY <2>1, <2>3, <2>4, <2>5
<1>7. ASSUME NEW i \in GoodPlaces, NEW j \in GoodPlaces, f[i] = f[j] PROVE i = j
  <2> DEFINE s == out[i].shard
  <2>1. out[j].shard = s /\ Turn(s, i) = Turn(s, j)
    BY <1>7
  <2>2. i \in DOMAIN out /\ j \in DOMAIN out
    BY DEF GoodPlaces
  <2>3. /\ i \in Nat /\ j \in Nat /\ s \in Shards
        /\ i \in PlacesOf(s) /\ j \in PlacesOf(s)
    BY <1>1, <2>1, <2>2
  <2> HIDE DEF s
  <2>4. ~(i < j) /\ ~(j < i)
    BY <1>2, <2>1, <2>3
  <2>5. QED
    BY <2>3, <2>4
<1>8. f \in Injection(GoodPlaces, T)
  <2>1. f \in [GoodPlaces -> T]
    BY <1>6
  <2>2. QED
    BY <1>7, <2>1 DEF Injection, IsInjective
<1>9. Cardinality(GoodPlaces) <= Cardinality(T) /\ Cardinality(GoodPlaces) \in Nat
  BY <1>5, <1>8, FS_Injection, SetsFinite
<1>10. QED
  BY <1>4, <1>5, <1>9, SearchAssumption

\* The answer is there once the calling thread has given it, and then nobody works.
LeaderInv ==
    /\ leader = "answered" <=> answer # NoAnswer
    /\ leader = "answered" => \A s \in Shards : pc[s] \in Over

LEMMA InitLeader == Init => LeaderInv
BY DEF Init, LeaderInv

LEMMA NextLeader == StreamInv /\ LeaderInv /\ [Next]_vars => LeaderInv'
<1> SUFFICES ASSUME StreamInv, LeaderInv, [Next]_vars PROVE LeaderInv'
  OBVIOUS
<1> USE DEF sockets, shared, watcher, clock, Over
<1>t. pc \in [Shards -> {"connect", "recv", "drain", "pushed", "counted"} \cup Over]
  BY DEF StreamInv, TypeInv
<1>1. ASSUME UNCHANGED <<leader, answer>>, \A s \in Shards : pc[s] \in Over => pc'[s] = pc[s]
      PROVE  LeaderInv'
  BY <1>1 DEF LeaderInv
<1>2. ASSUME NEW s \in Shards, UNCHANGED <<leader, answer>>, pc[s] \notin Over,
             pc' = [pc EXCEPT ![s] = pc'[s]]
      PROVE  LeaderInv'
  <2>1. \A x \in Shards : x # s => pc'[x] = pc[x]
    BY <1>t, <1>2
  <2>2. QED
    BY <1>1, <1>2, <2>1
<1>3. CASE \E s \in Shards : ShardWrites(s) \/ ShardDies(s) \/ OnStats(s)
  BY <1>1, <1>3 DEF ShardWrites, ShardDies, OnStats
<1>4. ASSUME NEW s \in Shards, ConnectFails(s) \/ RecvEnds(s) \/ RecvTimesOut(s) PROVE LeaderInv'
  BY <1>2, <1>4, <1>t DEF ConnectFails, RecvEnds, RecvTimesOut, Finish
<1>5. ASSUME NEW s \in Shards, Connect(s) \/ BufferEmpty(s) PROVE LeaderInv'
  BY <1>2, <1>5, <1>t DEF Connect, BufferEmpty, EnterRecv
<1>6. ASSUME NEW s \in Shards, NEW n \in 1 .. NumLines(s), Recv(s, n) PROVE LeaderInv'
  BY <1>2, <1>6, <1>t DEF Recv
<1>7. ASSUME NEW s \in Shards, OnResult(s) PROVE LeaderInv'
  BY <1>2, <1>7, <1>t DEF OnResult, Finish
<1>8. ASSUME NEW s \in Shards, CountIfGood(s) \/ CheckStop(s) PROVE LeaderInv'
  BY <1>2, <1>8, <1>t DEF CountIfGood, CheckStop, Finish
<1>9. CASE WatchEnds
  BY <1>9 DEF WatchEnds, LeaderInv
<1>10. CASE Answer
  <2>1. PICK a \in Sorted(out) : answer' = Resized(Deduped(a))
    BY <1>10 DEF Answer
  <2>2. answer' # NoAnswer
    BY <2>1, AnswerIs, SearchAssumption
  <2>3. QED
    BY <1>10, <2>2 DEF Answer, Joined, LeaderInv
<1>11. CASE Tick \/ UNCHANGED vars
  BY <1>1, <1>11 DEF Tick, vars
<1>12. QED
  BY <1>3, <1>4, <1>5, <1>6, <1>7, <1>8, <1>9, <1>10, <1>11
     DEF Next, Threads, Leader, World, Worker

LEMMA InitPromised == Init => Promise!Init
<1> SUFFICES ASSUME Init PROVE Promise!Init
  OBVIOUS
<1>1. \A s \in Shards : PlacesOf(s) = {}
  BY DEF Init, PlacesOf
<1>2. [s \in Shards |-> Cardinality(PlacesOf(s))] = [s \in Shards |-> 0]
  BY <1>1, FS_EmptySet
<1>3. {s \in Shards : pc[s] = "ended"} = {}
  BY DEF Init
<1>4. (elapsed >= GlobalTimeout) \in BOOLEAN
  OBVIOUS
<1>5. QED
  BY <1>2, <1>3, <1>4, SameCardinality DEF Init, Promise!Init

\* A step that touches neither the vector nor the clock, ends no worker and gives no
\* answer changes nothing of the promise.
LEMMA StillPromised ==
    ASSUME UNCHANGED <<out, answer, elapsed>>,
           \A x \in Shards : pc'[x] = "ended" <=> pc[x] = "ended"
    PROVE  UNCHANGED Promise!vars
<1>1. \A s \in Shards : PlacesOf(s)' = PlacesOf(s)
  BY DEF PlacesOf
<1>2. [s \in Shards |-> Cardinality(PlacesOf(s))]' = [s \in Shards |-> Cardinality(PlacesOf(s))]
  BY <1>1
<1>3. {s \in Shards : pc[s] = "ended"}' = {s \in Shards : pc[s] = "ended"}
  OBVIOUS
<1>4. (elapsed >= GlobalTimeout)' = (elapsed >= GlobalTimeout)
  OBVIOUS
<1>5. QED
  BY <1>2, <1>3, <1>4, SameCardinality DEF Promise!vars

\* A worker that comes to the end of its stream ends it.
LEMMA EndPromised ==
    ASSUME StreamInv, LeaderInv, NEW s \in Shards, pc[s] \notin Over, pc' = [pc EXCEPT ![s] = "ended"],
           UNCHANGED <<out, answer, elapsed>>
    PROVE  Promise!End(s)
<1>1. \A x \in Shards : PlacesOf(x)' = PlacesOf(x)
  BY DEF PlacesOf
<1>2. [x \in Shards |-> Cardinality(PlacesOf(x))]' = [x \in Shards |-> Cardinality(PlacesOf(x))]
  BY <1>1
<1>3. {x \in Shards : pc[x] = "ended"}' = {x \in Shards : pc[x] = "ended"} \cup {s}
  BY DEF StreamInv, TypeInv
<1>4. answer = NoAnswer
  BY DEF LeaderInv
<1>5. QED
  BY <1>2, <1>3, <1>4, SameCardinality DEF Promise!End, Over

\* A worker that pushes a result delivers the next of its stream.
LEMMA PushPromised ==
    ASSUME StreamInv, CountInv, LeaderInv, NEW s \in Shards, OnResult(s), ~stop
    PROVE  Promise!Receive(s)
<1> DEFINE got == [x \in Shards |-> Cardinality(PlacesOf(x))]
           r == Emitted(s)[handled[s]]
<1>1. /\ handled[s] \in 1 .. Len(Emitted(s)) /\ pc[s] = "drain"
      /\ pc' = [pc EXCEPT ![s] = "pushed"]
      /\ UNCHANGED <<leader, answer, elapsed>>
  BY StreamLength DEF OnResult, StreamInv, TypeInv, LinesInv, IsStats, watcher, clock
<1>2. r \in Result /\ r.shard = s /\ out' = Append(out, r)
  BY <1>1, StreamsTyped, StreamLength DEF OnResult, ResultIn, StreamInv, TypeInv
<1>3. /\ Len(out) + 1 \notin DOMAIN out
      /\ PlacesOf(s)' = PlacesOf(s) \cup {Len(out) + 1}
      /\ \A x \in Shards : x # s => PlacesOf(x)' = PlacesOf(x)
  BY <1>2, PushPlaces DEF StreamInv
<1>4. PlacesOf(s) \subseteq DOMAIN out /\ IsFiniteSet(PlacesOf(s))
  BY PlacesFinite DEF PlacesOf, StreamInv
<1>5. Cardinality(PlacesOf(s)') = Cardinality(PlacesOf(s)) + 1
  BY <1>3, <1>4, FS_AddElement
<1>6. got[s] < Len(Streams[s])
  BY <1>1, StreamLength DEF StreamInv, Delivered, Taken, Emitted
<1>7. got' = [got EXCEPT ![s] = @ + 1]
  BY <1>3, <1>5
<1>8. {x \in Shards : pc[x] = "ended"}' = {x \in Shards : pc[x] = "ended"}
  BY <1>1 DEF StreamInv, TypeInv
<1>9. answer = NoAnswer /\ s \notin {x \in Shards : pc[x] = "ended"}
  BY <1>1 DEF LeaderInv, CountInv, StopRaised
<1>10. QED
  BY <1>1, <1>6, <1>7, <1>8, <1>9, SameCardinality DEF Promise!Receive

\* Time passes: the deadline may pass with it, and has not come back.
LEMMA TickPromised ==
    ASSUME StreamInv, Tick
    PROVE  Promise!Expire \/ UNCHANGED Promise!vars
<1>1. /\ UNCHANGED <<pc, out, answer>>
      /\ elapsed' = IF elapsed > GlobalTimeout THEN elapsed ELSE elapsed + 1
  BY DEF Tick, shared, watcher
<1>2. \A s \in Shards : PlacesOf(s)' = PlacesOf(s)
  BY <1>1 DEF PlacesOf
<1>3. [s \in Shards |-> Cardinality(PlacesOf(s))]' = [s \in Shards |-> Cardinality(PlacesOf(s))]
  BY <1>2
<1>4. {s \in Shards : pc[s] = "ended"}' = {s \in Shards : pc[s] = "ended"}
  BY <1>1
<1>5. elapsed >= GlobalTimeout => (elapsed >= GlobalTimeout)'
  BY <1>1, SearchAssumption DEF StreamInv, TypeInv
<1>6. QED
  BY <1>1, <1>3, <1>4, <1>5, SameCardinality DEF Promise!Expire, Promise!vars

\* The calling thread answers when it may, with the best there is.
LEMMA AnswerPromised ==
    ASSUME StreamInv, CountInv, LeaderInv, Answer
    PROVE  Promise!Answer
<1>1. leader = "join" /\ UNCHANGED <<pc, out, elapsed>>
  BY DEF Answer, Joined, shared, clock
<1>2. PICK a \in Sorted(out) : answer' = Resized(Deduped(a))
  BY DEF Answer
<1>3. answer' # NoAnswer /\ Promise!IsAnswer(answer')
  BY <1>2, AnswerIs, CollectedIs, SearchAssumption
<1>4. answer = NoAnswer
  BY <1>1 DEF LeaderInv
<1>5. Promise!MayAnswer
  <2>1. CASE Cardinality(GoodPlaces) >= Needed
    BY <2>1, GoodEnough, SameCardinality DEF Promise!MayAnswer
  <2>2. CASE \A s \in Shards : pc[s] = "ended"
    BY <2>2 DEF Promise!MayAnswer
  <2>3. CASE elapsed >= GlobalTimeout
    BY <2>3 DEF Promise!MayAnswer
  <2>4. QED
    BY <1>1, <2>1, <2>2, <2>3 DEF CountInv, ThreeExits
<1>6. \A s \in Shards : PlacesOf(s)' = PlacesOf(s)
  BY <1>1 DEF PlacesOf
<1>7. [s \in Shards |-> Cardinality(PlacesOf(s))]' = [s \in Shards |-> Cardinality(PlacesOf(s))]
  BY <1>6
<1>8. QED
  BY <1>1, <1>3, <1>4, <1>5, <1>7, SameCardinality DEF Promise!Answer

LEMMA NextPromised ==
    ASSUME StreamInv, CountInv, LeaderInv, [Next]_vars
    PROVE  [Promise!Next]_(Promise!vars)
<1> USE DEF sockets, shared, watcher, clock, Over
<1>t. pc \in [Shards -> {"connect", "recv", "drain", "pushed", "counted"} \cup Over]
  BY DEF StreamInv, TypeInv
<1>1. ASSUME NEW s \in Shards, UNCHANGED <<out, answer, elapsed>>, pc[s] # "ended", pc'[s] # "ended",
             pc' = [pc EXCEPT ![s] = pc'[s]]
      PROVE  UNCHANGED Promise!vars
  <2>1. \A x \in Shards : x # s => pc'[x] = pc[x]
    BY <1>t, <1>1
  <2>2. QED
    BY <1>1, <2>1, StillPromised
<1>2. CASE \/ \E s \in Shards : ShardWrites(s) \/ ShardDies(s) \/ OnStats(s)
           \/ WatchEnds \/ UNCHANGED vars
  BY <1>2, StillPromised DEF ShardWrites, ShardDies, OnStats, WatchEnds, vars
<1>3. ASSUME NEW s \in Shards, ConnectFails(s) \/ RecvEnds(s) \/ RecvTimesOut(s) PROVE Promise!End(s)
  BY <1>3, EndPromised DEF ConnectFails, RecvEnds, RecvTimesOut, Finish
<1>4. ASSUME NEW s \in Shards, Connect(s) \/ BufferEmpty(s) PROVE UNCHANGED Promise!vars
  BY <1>1, <1>4, <1>t DEF Connect, BufferEmpty, EnterRecv
<1>5. ASSUME NEW s \in Shards, NEW n \in 1 .. NumLines(s), Recv(s, n) PROVE UNCHANGED Promise!vars
  BY <1>1, <1>5, <1>t DEF Recv
<1>6. ASSUME NEW s \in Shards, OnResult(s) PROVE Promise!Receive(s) \/ UNCHANGED Promise!vars
  <2>1. CASE stop
    BY <1>1, <1>6, <1>t, <2>1 DEF OnResult, Finish
  <2>2. CASE ~stop
    BY <1>6, <2>2, PushPromised
  <2>3. QED
    BY <2>1, <2>2
<1>7. ASSUME NEW s \in Shards, CountIfGood(s) \/ CheckStop(s) PROVE UNCHANGED Promise!vars
  BY <1>1, <1>7, <1>t DEF CountIfGood, CheckStop, Finish
<1>8. CASE Tick
  BY <1>8, TickPromised DEF Promise!Next
<1>9. CASE Answer
  BY <1>9, AnswerPromised DEF Promise!Next
<1>10. QED
  BY <1>2, <1>3, <1>4, <1>5, <1>6, <1>7, <1>8, <1>9
     DEF Next, Threads, Leader, World, Worker, Promise!Next

-----------------------------------------------------------------------------
(* The statistics *)

\* The shards whose statistics the calling process has.
StatsIn == {s \in Shards : handled[s] = NumLines(s)}

MergedOnce == merged = Cardinality(CountedBy(StatsIn))

\* A worker that waits in recv, or has left it, has handled all that it received.
Drained == \A s \in Shards : pc[s] \in {"connect", "recv", "ended"} => handled[s] = received[s]

StatsInv == MergedOnce /\ Drained

LEMMA UnionFinite ==
    ASSUME NEW T, IsFiniteSet(T), NEW f, DOMAIN f = T, \A x \in T : IsFiniteSet(f[x])
    PROVE  IsFiniteSet(UNION {f[x] : x \in T})
<1> DEFINE U == {f[x] : x \in T}
           g == [x \in T |-> f[x]]
<1>1. g \in Surjection(T, U)
  BY DEF Surjection
<1>2. IsFiniteSet(U)
  BY <1>1, FS_Surjection
<1>3. QED
  BY <1>2, FS_UNION

LEMMA StatsNat == \A s \in Shards : StatsOf(s) \in Nat
<1> SUFFICES ASSUME NEW s \in Shards PROVE StatsOf(s) \in Nat
  OBVIOUS
<1> DEFINE f == [l \in Served(s) |-> {l} \X DOMAIN Levels[s][l]]
<1>1. Levels[s] \in Seq(Seq(Result))
  BY SearchAssumption
<1>2. IsFiniteSet(DOMAIN Levels[s])
  <2> DEFINE n == Len(Levels[s])
  <2>1. n \in Nat /\ DOMAIN Levels[s] = 1 .. n
    BY <1>1
  <2> HIDE DEF n
  <2>2. QED
    BY <2>1, FS_Interval
<1>3. Served(s) \subseteq DOMAIN Levels[s]
  BY DEF Served
<1>4. IsFiniteSet(Served(s))
  BY <1>2, <1>3, FS_Subset
<1>5. ASSUME NEW l \in Served(s) PROVE IsFiniteSet(f[l])
  <2> DEFINE n == Len(Levels[s][l])
  <2>1. n \in Nat /\ DOMAIN Levels[s][l] = 1 .. n
    BY <1>1, <1>3
  <2> HIDE DEF n
  <2>2. IsFiniteSet(1 .. n)
    BY <2>1, FS_Interval
  <2>3. IsFiniteSet({l})
    BY FS_Singleton
  <2>4. IsFiniteSet({l} \X (1 .. n))
    BY <2>2, <2>3, FS_Product
  <2>5. QED
    BY <2>1, <2>4
<1>6. IsFiniteSet(UNION {f[l] : l \in Served(s)})
  <2>1. DOMAIN f = Served(s) /\ \A l \in Served(s) : IsFiniteSet(f[l])
    BY <1>5
  <2> HIDE DEF f
  <2>2. QED
    BY <1>4, <2>1, UnionFinite
<1>7. StatsOf(s) = Cardinality(UNION {f[l] : l \in Served(s)})
  <2>1. {f[l] : l \in Served(s)} = {{l} \X DOMAIN Levels[s][l] : l \in Served(s)}
    OBVIOUS
  <2>2. QED
    BY <2>1 DEF StatsOf
<1>8. QED
  BY <1>6, <1>7, FS_CardinalityType

\* One shard's statistics add to those of the others.
LEMMA CountOneMore ==
    ASSUME NEW T, T \subseteq Shards, NEW s \in Shards \ T
    PROVE  /\ Cardinality(CountedBy(T)) \in Nat
           /\ Cardinality(CountedBy(T \cup {s})) = Cardinality(CountedBy(T)) + StatsOf(s)
<1> DEFINE own(x) == {x} \X (1 .. StatsOf(x))
           f == [x \in T |-> own(x)]
<1>1. ASSUME NEW x \in Shards PROVE IsFiniteSet(own(x)) /\ Cardinality(own(x)) = StatsOf(x)
  <2> DEFINE n == StatsOf(x)
  <2>1. n \in Nat
    BY StatsNat
  <2> HIDE DEF n
  <2>2. IsFiniteSet(1 .. n) /\ Cardinality(1 .. n) = n
    BY <2>1, FS_Interval
  <2>3. IsFiniteSet({x}) /\ Cardinality({x}) = 1
    BY FS_Singleton
  <2>4. /\ IsFiniteSet({x} \X (1 .. n))
        /\ Cardinality({x} \X (1 .. n)) = Cardinality({x}) * Cardinality(1 .. n)
    BY <2>2, <2>3, FS_Product
  <2>5. Cardinality({x}) * Cardinality(1 .. n) = n
    BY <2>1, <2>2, <2>3
  <2>6. QED
    BY <2>4, <2>5 DEF n
<1>2. IsFiniteSet(CountedBy(T))
  <2>1. IsFiniteSet(T)
    BY SearchAssumption, FS_Subset
  <2>2. DOMAIN f = T /\ \A x \in T : IsFiniteSet(f[x])
    BY <1>1
  <2>3. {f[x] : x \in T} = {own(x) : x \in T}
    OBVIOUS
  <2> HIDE DEF f, own
  <2>4. IsFiniteSet(UNION {f[x] : x \in T})
    BY <2>1, <2>2, UnionFinite
  <2>5. QED
    BY <2>3, <2>4 DEF CountedBy, own
<1>3. CountedBy(T \cup {s}) = CountedBy(T) \cup own(s) /\ CountedBy(T) \cap own(s) = {}
  BY DEF CountedBy
<1> HIDE DEF own
<1>4. Cardinality(CountedBy(T)) \in Nat /\ StatsOf(s) \in Nat
  BY <1>2, FS_CardinalityType, StatsNat
<1>5. Cardinality(CountedBy(T) \cup own(s))
        = Cardinality(CountedBy(T)) + Cardinality(own(s)) - Cardinality(CountedBy(T) \cap own(s))
  BY <1>1, <1>2, FS_Union
<1>6. Cardinality(CountedBy(T) \cap own(s)) = 0 /\ Cardinality(own(s)) = StatsOf(s)
  BY <1>1, <1>3, FS_EmptySet
<1> HIDE DEF own
<1>7. Cardinality(CountedBy(T) \cup own(s)) = Cardinality(CountedBy(T)) + StatsOf(s)
  BY <1>4, <1>5, <1>6
<1>8. QED
  BY <1>3, <1>4, <1>7

LEMMA InitStats == Init => StatsInv
<1> SUFFICES ASSUME Init PROVE StatsInv
  OBVIOUS
<1>1. StatsIn = {}
  BY StreamLength DEF Init, StatsIn
<1>2. CountedBy({}) = {}
  BY DEF CountedBy
<1>3. QED
  BY <1>1, <1>2, FS_EmptySet DEF Init, StatsInv, MergedOnce, Drained

LEMMA StatsStep ==
    ASSUME StreamInv, StatsInv, NEW s \in Shards, OnStats(s)
    PROVE  StatsInv'
<1>1. /\ handled[s] < received[s] /\ pc[s] = "drain" /\ handled[s] + 1 = NumLines(s)
      /\ handled' = [handled EXCEPT ![s] = handled[s] + 1]
      /\ merged' = merged + StatsOf(s)
      /\ UNCHANGED <<pc, received>>
  BY DEF OnStats, IsStats
<1>2. s \notin StatsIn /\ StatsIn' = StatsIn \cup {s}
  BY <1>1, StreamLength DEF StatsIn, StreamInv, TypeInv, NumLines
<1>3. MergedOnce'
  <2>1. StatsIn \subseteq Shards
    BY DEF StatsIn
  <2>2. Cardinality(CountedBy(StatsIn \cup {s})) = Cardinality(CountedBy(StatsIn)) + StatsOf(s)
    BY <1>2, <2>1, CountOneMore
  <2>3. CountedBy(StatsIn)' = CountedBy(StatsIn \cup {s})
    BY <1>2 DEF CountedBy
  <2>4. QED
    BY <1>1, <2>2, <2>3 DEF StatsInv, MergedOnce
<1>4. Drained'
  BY <1>1 DEF StatsInv, Drained, StreamInv, TypeInv
<1>5. QED
  BY <1>3, <1>4 DEF StatsInv

\* The other steps bring no statistics.
LEMMA NoStatsStep ==
    ASSUME StreamInv, StatsInv, merged' = merged,
           \A x \in Shards : (handled'[x] = NumLines(x)) <=> (handled[x] = NumLines(x)),
           \A x \in Shards : pc'[x] \in {"connect", "recv", "ended"} => handled'[x] = received'[x]
    PROVE  StatsInv'
<1>1. StatsIn' = StatsIn
  BY DEF StatsIn, NumLines
<1>2. CountedBy(StatsIn)' = CountedBy(StatsIn)
  BY <1>1 DEF CountedBy
<1>3. QED
  BY <1>2 DEF StatsInv, MergedOnce, Drained

LEMMA NextStats == StreamInv /\ StatsInv /\ [Next]_vars => StatsInv'
<1> SUFFICES ASSUME StreamInv, StatsInv, [Next]_vars PROVE StatsInv'
  OBVIOUS
<1> USE DEF sockets, shared, watcher, clock, Over
<1>t. /\ pc \in [Shards -> {"connect", "recv", "drain", "pushed", "counted"} \cup Over]
      /\ handled \in [Shards -> Nat] /\ received \in [Shards -> Nat]
  BY DEF StreamInv, TypeInv
<1>d. \A x \in Shards : pc[x] \in {"connect", "recv", "ended"} => handled[x] = received[x]
  BY DEF StatsInv, Drained
<1>1. ASSUME NEW s \in Shards, UNCHANGED <<handled, received, merged>>, pc' = [pc EXCEPT ![s] = pc'[s]],
             pc'[s] \in {"connect", "recv", "ended"} => handled[s] = received[s]
      PROVE  StatsInv'
  <2>1. \A x \in Shards : x # s => pc'[x] = pc[x]
    BY <1>t, <1>1
  <2>2. \A x \in Shards : pc'[x] \in {"connect", "recv", "ended"} => handled[x] = received[x]
    BY <1>d, <1>1, <2>1
  <2>3. QED
    BY <1>1, <2>2, NoStatsStep
<1>2. CASE \/ \E s \in Shards : ShardDies(s) \/ ShardWrites(s)
           \/ WatchEnds \/ Answer \/ Tick \/ UNCHANGED vars
  BY <1>2, <1>d, NoStatsStep DEF ShardDies, ShardWrites, WatchEnds, Answer, Tick, vars
<1>3. ASSUME NEW s \in Shards, ConnectFails(s) \/ RecvEnds(s) \/ RecvTimesOut(s) PROVE StatsInv'
  BY <1>1, <1>3, <1>t, <1>d DEF ConnectFails, RecvEnds, RecvTimesOut, Finish
<1>4. ASSUME NEW s \in Shards, Connect(s) PROVE StatsInv'
  BY <1>1, <1>4, <1>t, <1>d DEF Connect, EnterRecv
<1>5. ASSUME NEW s \in Shards, BufferEmpty(s) PROVE StatsInv'
  BY <1>1, <1>5, <1>t DEF BufferEmpty, EnterRecv
<1>6. ASSUME NEW s \in Shards, NEW n \in 1 .. NumLines(s), Recv(s, n) PROVE StatsInv'
  <2>1. /\ handled' = [handled EXCEPT ![s] = IF @ = 0 THEN 1 ELSE @]
        /\ received' = [received EXCEPT ![s] = n]
        /\ pc' = [pc EXCEPT ![s] = "drain"]
        /\ merged' = merged
    BY <1>6 DEF Recv
  <2>2. \A x \in Shards : (handled'[x] = NumLines(x)) <=> (handled[x] = NumLines(x))
    BY <2>1, <1>t, StreamLength
  <2>3. \A x \in Shards : pc'[x] \in {"connect", "recv", "ended"} => handled'[x] = received'[x]
    BY <2>1, <1>t, <1>d
  <2>4. QED
    BY <2>1, <2>2, <2>3, NoStatsStep
<1>7. ASSUME NEW s \in Shards, OnResult(s) PROVE StatsInv'
  <2>1. /\ handled' = [handled EXCEPT ![s] = handled[s] + 1]
        /\ handled[s] < received[s] /\ handled[s] + 1 # NumLines(s)
        /\ pc' = [pc EXCEPT ![s] = IF stop THEN "stopped" ELSE "pushed"]
        /\ received' = received /\ merged' = merged
    BY <1>7 DEF OnResult, Finish, IsStats
  <2>2. \A x \in Shards : (handled'[x] = NumLines(x)) <=> (handled[x] = NumLines(x))
    <3>1. handled[s] # NumLines(s)
      BY <2>1, <1>t, StreamLength DEF StreamInv, LinesInv
    <3>2. QED
      BY <2>1, <3>1, <1>t
  <2>3. \A x \in Shards : pc'[x] \in {"connect", "recv", "ended"} => handled'[x] = received'[x]
    BY <2>1, <1>t, <1>d
  <2>4. QED
    BY <2>1, <2>2, <2>3, NoStatsStep
<1>8. ASSUME NEW s \in Shards, CountIfGood(s) \/ CheckStop(s) PROVE StatsInv'
  BY <1>1, <1>8, <1>t DEF CountIfGood, CheckStop, Finish
<1>9. ASSUME NEW s \in Shards, OnStats(s) PROVE StatsInv'
  BY <1>9, StatsStep
<1>10. QED
  BY <1>2, <1>3, <1>4, <1>5, <1>6, <1>7, <1>8, <1>9
     DEF Next, Threads, Leader, World, Worker

-----------------------------------------------------------------------------
(* Theorems *)

\* The results of a shard are on the vector in the order it sent them, with no gap,
\* whatever chunks they came in and however the workers interleave (stream_query's
\* buffer and on_result).
THEOREM NoGapAnywhere == Spec => []NoGap
<1>1. StreamInv => NoGap
  BY DEF StreamInv
<1>2. QED
  BY <1>1, InitStream, NextStream, PTL DEF Spec

LEMMA Counting == Spec => [](StreamInv /\ CountInv)
<1>1. Init => StreamInv /\ CountInv
  BY InitStream, InitCount
<1>2. StreamInv /\ CountInv /\ [Next]_vars => (StreamInv /\ CountInv)'
  BY NextStream, NextCount
<1>3. QED
  BY <1>1, <1>2, PTL DEF Spec

\* The workers push a result and count it in two steps, and the calling thread never
\* sees more good results counted than there are (on_result).
THEOREM CountBehindVector == Spec => []CountNotAhead
<1>1. StreamInv /\ CountInv => CountNotAhead
  BY CountsRight DEF CountInv
<1>2. QED
  BY <1>1, Counting, PTL

\* The calling thread leaves its loop on one of the three exits that the header of
\* query_distributor.hpp names, and what justified the exit stays true.
THEOREM ExitsJustified == Spec => []ThreeExits
<1>1. CountInv => ThreeExits
  BY DEF CountInv
<1>2. QED
  BY <1>1, Counting, PTL

\* The search keeps the promise of query_distributor.hpp: it answers only on one of its
\* three exit paths, and with the best of what the shards had delivered by then, a page
\* once, however the workers interleave and whichever connections fail.
THEOREM PromiseKept == Spec => KeepsPromise
<1>1. Init => StreamInv /\ CountInv /\ LeaderInv
  BY InitStream, InitCount, InitLeader
<1>2. StreamInv /\ CountInv /\ LeaderInv /\ [Next]_vars => (StreamInv /\ CountInv /\ LeaderInv)'
  BY NextStream, NextCount, NextLeader
<1>3. StreamInv /\ CountInv /\ LeaderInv /\ [Next]_vars => [Promise!Next]_(Promise!vars)
  BY NextPromised
<1>4. QED
  BY <1>1, <1>2, <1>3, InitPromised, PTL DEF Spec, KeepsPromise, Promise!Spec

\* A search that nothing cut short has every result of every shard on the vector and the
\* statistics of every shard, each once (stream_query and the two callbacks).
THEOREM NothingMissedEver == Spec => []NothingMissed
<1>1. StreamInv /\ StatsInv => NothingMissed
  <2> SUFFICES ASSUME StreamInv, StatsInv, \A s \in Shards : pc[s] = "ended" /\ received[s] = NumLines(s)
               PROVE  /\ \A s \in Shards : Cardinality(PlacesOf(s)) = Len(Emitted(s))
                      /\ merged = Cardinality(CountedBy(Shards))
    BY DEF NothingMissed
  <2>1. \A s \in Shards : handled[s] = NumLines(s)
    BY DEF StatsInv, Drained
  <2>2. \A s \in Shards : Cardinality(PlacesOf(s)) = Len(Emitted(s))
    BY <2>1, StreamLength DEF StreamInv, Delivered, Taken
  <2>3. StatsIn = Shards
    BY <2>1 DEF StatsIn
  <2>4. QED
    BY <2>2, <2>3 DEF StatsInv, MergedOnce
<1>2. Init => StreamInv /\ StatsInv
  BY InitStream, InitStats
<1>3. StreamInv /\ StatsInv /\ [Next]_vars => (StreamInv /\ StatsInv)'
  BY NextStream, NextStats
<1>4. QED
  BY <1>1, <1>2, <1>3, PTL DEF Spec
=============================================================================
