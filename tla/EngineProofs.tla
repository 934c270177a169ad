---------------------------- MODULE EngineProofs ----------------------------
(***************************************************************************)
(* Proofs about what an engine answers, for all pages, words, hashes and   *)
(* parameters.                                                             *)
(*                                                                         *)
(* First its index: built from pages, written as a blob and loaded, it     *)
(* answers every lookup, seek and count as the pages say (IndexAnswers).   *)
(* A builder tells what happened to it, its history: each word of a page   *)
(* and each end of a document is an event, and the list of a word has the  *)
(* posts of its events.  The blob keeps the lists and documents where the  *)
(* readers look for them, and from a list that can be read back the seeks  *)
(* and counts follow.  The recursive functions of the model are shown to   *)
(* be solutions of their equations (Recursion) before anything is said of  *)
(* their values.                                                           *)
(*                                                                         *)
(* Then the page of results: when no shard has pages in two levels, every  *)
(* snippet stands under its own page, whichever shards answer and however  *)
(* far.  The run page_levels shows that the hypothesis cannot be dropped.  *)
(***************************************************************************)
EXTENDS ResultPage, IndexLevels, FiniteSetTheorems, WellFoundedInduction, TLAPS

-----------------------------------------------------------------------------
(* Numbers, recursions, and things laid out one after the other. *)

\* A set of numbers that is not empty has a least one.
LEMMA Least ==
    ASSUME NEW S, S \subseteq Nat, S # {}
    PROVE  \E x \in S : \A y \in S : x <= y
<1>1. \E x \in S : \A y \in S : ~ (<<y, x>> \in OpToRel(<, Nat))
  BY NatLessThanWellFounded, WFMin, Zenon
<1>2. PICK x \in S : \A y \in S : ~ (<<y, x>> \in OpToRel(<, Nat))
  BY <1>1
<1>3. \A y \in S : ~ (y < x)
  BY <1>2 DEF OpToRel
<1> QED BY <1>3

\* What holds of 0, and of a number when it holds of the one before, holds up to N.
LEMMA Induction ==
    ASSUME NEW N \in Nat, NEW D, 0 \in D,
           \A n \in 1 .. N : n - 1 \in D => n \in D
    PROVE  0 .. N \subseteq D
<1> DEFINE Bad == (0 .. N) \ D
<1>1. SUFFICES ASSUME Bad # {} PROVE FALSE
  OBVIOUS
<1>2. Bad \subseteq Nat
  OBVIOUS
<1>3. PICK x \in Bad : \A y \in Bad : x <= y
  <2> HIDE DEF Bad
  <2> QED BY <1>1, <1>2, Least
<1>4. x \in 1 .. N /\ x - 1 \in 0 .. N
  BY <1>3
<1>5. x - 1 \in D
  BY <1>3, <1>4
<1> QED BY <1>3, <1>4, <1>5

\* The steps of a recursion over S, and a function that takes them from base on.
Steps(N, S) == [1 .. N -> [S -> S]]

Leads(N, S, base, step, f) ==
    /\ f \in [0 .. N -> S]
    /\ f[0] = base
    /\ \A n \in 1 .. N : f[n] = step[n][f[n - 1]]

\* A recursion over the numbers up to N has a solution.
LEMMA Recursion ==
    ASSUME NEW N \in Nat, NEW S, NEW base \in S, NEW step \in Steps(N, S)
    PROVE  \E f : Leads(N, S, base, step, f)
<1> DEFINE Upto(m, f) == Leads(m, S, base, step, f)
           D == {m \in 0 .. N : \E f \in [0 .. m -> S] : Upto(m, f)}
<1>1. 0 \in D
  <2> DEFINE f == [n \in 0 .. 0 |-> base]
  <2>1. f \in [0 .. 0 -> S] /\ f[0] = base
    OBVIOUS
  <2>2. Upto(0, f)
    BY <2>1 DEF Leads
  <2> QED BY <2>1, <2>2
<1>2. \A n \in 1 .. N : n - 1 \in D => n \in D
  <2> TAKE n \in 1 .. N
  <2> HAVE n - 1 \in D
  <2>1. PICK f \in [0 .. n - 1 -> S] : Upto(n - 1, f)
    OBVIOUS
  <2>2. n \in Nat /\ n - 1 \in Nat /\ n - 1 \in 0 .. n - 1
    OBVIOUS
  <2>3. step[n] \in [S -> S]
    BY DEF Steps
  <2>4. step[n][f[n - 1]] \in S
    BY <2>2, <2>3
  <2> DEFINE g == [k \in 0 .. n |-> IF k = n THEN step[n][f[n - 1]] ELSE f[k]]
  <2>5. \A k \in 0 .. n : k # n => k \in 0 .. n - 1
    OBVIOUS
  <2>6. g \in [0 .. n -> S]
    BY <2>4, <2>5
  <2>7. g[0] = base
    <3>1. f[0] = base
      BY <2>1 DEF Leads
    <3>2. 0 \in 0 .. n /\ 0 # n
      OBVIOUS
    <3> QED BY <3>1, <3>2
  <2>8. \A k \in 1 .. n : g[k] = step[k][g[k - 1]]
    <3> TAKE k \in 1 .. n
    <3>1. k \in 0 .. n /\ k - 1 \in 0 .. n /\ k - 1 # n
      OBVIOUS
    <3>2. CASE k = n
      BY <3>1, <3>2
    <3>3. CASE k # n
      <4>1. k \in 1 .. n - 1
        BY <3>3
      <4>2. f[k] = step[k][f[k - 1]]
        BY <4>1, <2>1 DEF Leads
      <4> QED BY <3>1, <3>3, <4>2
    <3> QED BY <3>2, <3>3
  <2>9. Upto(n, g)
    <3> HIDE DEF g
    <3> QED BY <2>6, <2>7, <2>8 DEF Leads
  <2> HIDE DEF g
  <2> QED BY <2>6, <2>9
<1>3. 0 .. N \subseteq D
  <2> HIDE DEF D
  <2> QED BY <1>1, <1>2, Induction
<1>4. N \in D
  BY <1>3
<1> QED BY <1>4

LEMMA Remainder ==
    ASSUME NEW D \in Nat \ {0}, NEW a \in 0 .. D - 1
    PROVE  a % D = a
OBVIOUS

\* Offsets that start at start and leave room for each of the sizes.
LaidAs(at, start, sizes) ==
    /\ at \in [1 .. Len(sizes) + 1 -> Nat]
    /\ at[1] = start
    /\ \A i \in 1 .. Len(sizes) : at[i + 1] = at[i] + sizes[i]

\* Laid lays things of the sizes out one after the other.
LEMMA LaidIs ==
    ASSUME NEW start \in Nat, NEW sizes \in Seq(Nat)
    PROVE  LaidAs(Laid(start, sizes), start, sizes)
<1> DEFINE N == Len(sizes)
           step == [n \in 1 .. N |-> [x \in Nat |-> x + sizes[n]]]
           Body(g) == [i \in 1 .. N + 1 |-> IF i = 1 THEN start ELSE g[i - 1] + sizes[i - 1]]
           at == CHOOSE g : g = Body(g)
<1>0. N \in Nat /\ \A n \in 1 .. N : sizes[n] \in Nat
  OBVIOUS
<1>1. step \in Steps(N, Nat)
  <2> HIDE DEF N
  <2> QED BY <1>0 DEF Steps
<1>2. PICK f : Leads(N, Nat, start, step, f)
  <2> HIDE DEF step, N
  <2> QED BY <1>0, <1>1, Recursion
<1>3. /\ f \in [0 .. N -> Nat]
      /\ f[0] = start
      /\ \A n \in 1 .. N : f[n] = f[n - 1] + sizes[n]
  <2> HIDE DEF N
  <2>1. f \in [0 .. N -> Nat] /\ f[0] = start /\ \A n \in 1 .. N : f[n] = step[n][f[n - 1]]
    <3> HIDE DEF step
    <3> QED BY <1>2 DEF Leads
  <2>2. \A n \in 1 .. N : n - 1 \in 0 .. N
    BY <1>0
  <2> QED BY <2>1, <2>2, <1>0
<1> DEFINE h == [i \in 1 .. N + 1 |-> f[i - 1]]
<1>4. h = Body(h)
  <2> HIDE DEF N
  <2>1. \A i \in 1 .. N + 1 : h[i] = IF i = 1 THEN start ELSE h[i - 1] + sizes[i - 1]
    <3> TAKE i \in 1 .. N + 1
    <3>1. CASE i = 1
      BY <3>1, <1>3
    <3>2. CASE i # 1
      <4>1. i - 1 \in 1 .. N /\ i - 1 \in 1 .. N + 1
        BY <3>2, <1>0
      <4>2. f[i - 1] = f[(i - 1) - 1] + sizes[i - 1]
        BY <4>1, <1>3
      <4> QED BY <3>2, <4>1, <4>2
    <3> QED BY <3>1, <3>2
  <2> QED BY <2>1
<1>5. \E g : g = Body(g)
  <2> HIDE DEF h
  <2> QED BY <1>4
<1>6. at = Body(at)
  <2> HIDE DEF Body
  <2> QED BY <1>5
<1>7. Laid(start, sizes) = at
  BY DEF Laid
<1> HIDE DEF at
<1>8. /\ DOMAIN at = 1 .. N + 1
      /\ at = [i \in 1 .. N + 1 |-> at[i]]
      /\ \A i \in 1 .. N + 1 : at[i] = IF i = 1 THEN start ELSE at[i - 1] + sizes[i - 1]
  <2> HIDE DEF N
  <2> QED BY <1>6
<1>9. at[1] = start
  <2> HIDE DEF N
  <2>1. 1 \in 1 .. N + 1
    BY <1>0
  <2> QED BY <2>1, <1>8
<1>10. \A i \in 1 .. N : at[i + 1] = at[i] + sizes[i]
  <2> TAKE i \in 1 .. N
  <2> HIDE DEF N
  <2>1. i + 1 \in 1 .. N + 1 /\ i + 1 # 1 /\ (i + 1) - 1 = i
    BY <1>0
  <2> QED BY <2>1, <1>8
<1> DEFINE D == {n \in 0 .. N : at[n + 1] \in Nat}
<1>11. 0 \in D
  BY <1>9, <1>0
<1>12. \A n \in 1 .. N : n - 1 \in D => n \in D
  <2> TAKE n \in 1 .. N
  <2> HAVE n - 1 \in D
  <2> HIDE DEF N
  <2>1. (n - 1) + 1 = n
    BY <1>0
  <2>2. at[n] \in Nat /\ at[n + 1] = at[n] + sizes[n] /\ sizes[n] \in Nat
    BY <2>1, <1>0, <1>10
  <2>3. at[n + 1] \in Nat
    BY <2>2
  <2> QED BY <2>3
<1>13. 0 .. N \subseteq D
  <2> HIDE DEF D, N
  <2> QED BY <1>0, <1>11, <1>12, Induction
<1>14. \A i \in 1 .. N + 1 : at[i] \in Nat
  <2> TAKE i \in 1 .. N + 1
  <2> HIDE DEF N
  <2>1. i - 1 \in 0 .. N /\ (i - 1) + 1 = i
    BY <1>0
  <2> QED BY <2>1, <1>13
<1>15. at \in [1 .. N + 1 -> Nat]
  <2> HIDE DEF N
  <2> QED BY <1>8, <1>14
<1> QED BY <1>7, <1>9, <1>10, <1>15 DEF LaidAs

LEMMA LaidGrows ==
    ASSUME NEW start \in Nat, NEW sizes \in Seq(Nat), NEW at, LaidAs(at, start, sizes),
           NEW i \in 1 .. Len(sizes) + 1, NEW j \in 1 .. Len(sizes) + 1, i <= j
    PROVE  at[i] <= at[j] /\ (i < j => at[i] + sizes[i] <= at[j])
<1> DEFINE N == Len(sizes)
<1>0. N \in Nat /\ \A k \in 1 .. N : sizes[k] \in Nat
  OBVIOUS
<1>1. /\ \A k \in 1 .. N + 1 : at[k] \in Nat
      /\ \A k \in 1 .. N : at[k + 1] = at[k] + sizes[k]
  BY DEF LaidAs
<1> HIDE DEF N
<1>2. i \in 1 .. N + 1 /\ j \in 1 .. N + 1
  BY DEF N
<1> DEFINE Up(n) == at[i] <= at[i + n] /\ (n # 0 => at[i] + sizes[i] <= at[i + n])
           D == {n \in 0 .. j - i : Up(n)}
<1>3. j - i \in Nat
  BY <1>2
<1>4. 0 \in D
  <2>1. i + 0 = i
    BY <1>2
  <2> QED BY <2>1, <1>1, <1>2, <1>3
<1>5. \A n \in 1 .. j - i : n - 1 \in D => n \in D
  <2> TAKE n \in 1 .. j - i
  <2> HAVE n - 1 \in D
  <2> DEFINE m == i + (n - 1)
  <2>1. m \in 1 .. N /\ m + 1 = i + n /\ i \in 1 .. N
    BY <1>2, <1>3, <1>0
  <2>2. at[m + 1] = at[m] + sizes[m] /\ at[m] \in Nat /\ sizes[m] \in Nat /\ at[i] \in Nat /\ sizes[i] \in Nat
    <3> HIDE DEF m
    <3>1. m \in 1 .. N + 1 /\ i \in 1 .. N + 1
      BY <2>1, <1>0
    <3> QED BY <2>1, <3>1, <1>0, <1>1
  <2>3. at[i] <= at[m]
    OBVIOUS
  <2>4. n # 1 => at[i] + sizes[i] <= at[m]
    BY <1>3
  <2>5. n = 1 => m = i
    BY <1>2
  <2>6. Up(n)
    <3>1. at[i + n] = at[m] + sizes[m]
      BY <2>1, <2>2
    <3> HIDE DEF m
    <3> DEFINE p == at[i]
               q == at[m]
               r == sizes[m]
               w == sizes[i]
    <3>4. p \in Nat /\ q \in Nat /\ r \in Nat /\ w \in Nat /\ p <= q /\ (n # 1 => p + w <= q) /\ (n = 1 => p = q /\ w = r)
      BY <2>2, <2>3, <2>4, <2>5
    <3> HIDE DEF p, q, r, w
    <3>5. p <= q + r /\ p + w <= q + r
      BY <3>4
    <3>2. at[i] <= at[m] + sizes[m]
      BY <3>5 DEF p, q, r
    <3>3. at[i] + sizes[i] <= at[m] + sizes[m]
      BY <3>5 DEF p, q, r, w
    <3> QED BY <3>1, <3>2, <3>3
  <2> QED BY <2>6
<1>6. j - i \in D
  <2>1. 0 .. j - i \subseteq D
    <3> HIDE DEF D
    <3> QED BY <1>3, <1>4, <1>5, Induction
  <2>2. j - i \in 0 .. j - i
    BY <1>3
  <2> HIDE DEF D
  <2> QED BY <2>1, <2>2
<1>7. i + (j - i) = j /\ (i < j => j - i # 0)
  BY <1>2
<1> QED BY <1>6, <1>7

LEMMA LaidReaches ==
    ASSUME NEW start \in Nat, NEW sizes \in Seq(Nat), NEW at, LaidAs(at, start, sizes),
           NEW v \in start + 1 .. at[Len(sizes) + 1]
    PROVE  \E i \in 1 .. Len(sizes) : at[i] < v /\ v <= at[i + 1]
<1> DEFINE N == Len(sizes)
<1>0. N \in Nat
  OBVIOUS
<1>1. /\ \A k \in 1 .. N + 1 : at[k] \in Nat
      /\ at[1] = start
  BY DEF LaidAs
<1>2. v \in start + 1 .. at[N + 1]
  OBVIOUS
<1> HIDE DEF N
<1> DEFINE S == {k \in 1 .. N + 1 : v <= at[k]}
<1>3. N + 1 \in S /\ S \subseteq Nat
  BY <1>0, <1>1, <1>2
<1>4. PICK k \in S : \A m \in S : k <= m
  <2> HIDE DEF S
  <2> QED BY <1>3, Least
<1>5. k # 1
  BY <1>1, <1>2
<1>6. k - 1 \in 1 .. N /\ k - 1 \notin S /\ (k - 1) + 1 = k /\ k - 1 \in 1 .. N + 1
  BY <1>0, <1>4, <1>5
<1>7. at[k - 1] < v /\ v <= at[k]
  BY <1>1, <1>2, <1>4, <1>6
<1> QED BY <1>6, <1>7 DEF N

LEMMA Eights ==
    ASSUME NEW a \in Nat, NEW b \in Nat, a % 8 = 0, b % 8 = 0
    PROVE  (a + b) % 8 = 0
OBVIOUS

LEMMA LaidAligned ==
    ASSUME NEW start \in Nat, NEW sizes \in Seq(Nat), NEW at, LaidAs(at, start, sizes),
           start % 8 = 0, \A i \in 1 .. Len(sizes) : sizes[i] % 8 = 0
    PROVE  \A i \in 1 .. Len(sizes) + 1 : at[i] % 8 = 0
<1> DEFINE N == Len(sizes)
<1>0. N \in Nat /\ \A k \in 1 .. N : sizes[k] \in Nat /\ sizes[k] % 8 = 0
  OBVIOUS
<1>1. /\ \A k \in 1 .. N + 1 : at[k] \in Nat
      /\ at[1] = start
      /\ \A k \in 1 .. N : at[k + 1] = at[k] + sizes[k]
  BY DEF LaidAs
<1> DEFINE D == {n \in 0 .. N : at[n + 1] % 8 = 0}
<1> HIDE DEF N
<1>2. 0 \in D
  <2>1. at[0 + 1] = start /\ 0 \in 0 .. N
    BY <1>0, <1>1
  <2>2. at[0 + 1] % 8 = 0
    BY <2>1
  <2> QED BY <2>1, <2>2
<1>3. \A n \in 1 .. N : n - 1 \in D => n \in D
  <2> TAKE n \in 1 .. N
  <2> HAVE n - 1 \in D
  <2>1. (n - 1) + 1 = n /\ n \in 1 .. N + 1
    BY <1>0
  <2>2. at[n] % 8 = 0 /\ at[n] \in Nat /\ sizes[n] \in Nat /\ sizes[n] % 8 = 0
    BY <2>1, <1>0, <1>1
  <2>3. (at[n] + sizes[n]) % 8 = 0
    BY <2>2, Eights
  <2> QED BY <2>3, <1>0, <1>1
<1>4. 0 .. N \subseteq D
  <2> HIDE DEF D
  <2> QED BY <1>0, <1>2, <1>3, Induction
<1>5. \A i \in 1 .. N + 1 : at[i] % 8 = 0
  <2> TAKE i \in 1 .. N + 1
  <2>1. i - 1 \in 0 .. N /\ (i - 1) + 1 = i
    BY <1>0
  <2> QED BY <2>1, <1>4
<1> QED BY <1>5 DEF N

-----------------------------------------------------------------------------
(* Concatenations. *)

\* The lengths of some sequences, and what their concatenation looks like.
Lens(seqs) == [i \in 1 .. Len(seqs) |-> Len(seqs[i])]

Strings(flat, seqs, T) ==
    /\ flat \in Seq(T)
    /\ Len(flat) = Laid(0, Lens(seqs))[Len(seqs) + 1]
    /\ \A i \in 1 .. Len(seqs) : \A j \in 1 .. Len(seqs[i]) :
          flat[Laid(0, Lens(seqs))[i] + j] = seqs[i][j]

JoinedAs(st, s, t) ==
    /\ Len(st) = Len(s) + Len(t)
    /\ \A i \in 1 .. Len(s) : st[i] = s[i]
    /\ \A i \in 1 .. Len(t) : st[Len(s) + i] = t[i]

LEMMA LensAre ==
    ASSUME NEW T, NEW seqs \in Seq(Seq(T))
    PROVE  /\ Lens(seqs) \in Seq(Nat)
           /\ Len(Lens(seqs)) = Len(seqs)
           /\ \A i \in 1 .. Len(seqs) : Lens(seqs)[i] = Len(seqs[i])
           /\ LaidAs(Laid(0, Lens(seqs)), 0, Lens(seqs))
           /\ Laid(0, Lens(seqs)) \in [1 .. Len(seqs) + 1 -> Nat]
           /\ Laid(0, Lens(seqs))[1] = 0
           /\ \A i \in 1 .. Len(seqs) :
                 Laid(0, Lens(seqs))[i + 1] = Laid(0, Lens(seqs))[i] + Len(seqs[i])
<1> DEFINE N == Len(seqs)
           f == Lens(seqs)
<1>1. N \in Nat /\ \A k \in 1 .. N : Len(seqs[k]) \in Nat
  OBVIOUS
<1>2. f = [k \in 1 .. N |-> Len(seqs[k])]
  BY DEF Lens
<1> HIDE DEF f, N
<1>3. f \in Seq(Nat) /\ Len(f) = N /\ \A i \in 1 .. N : f[i] = Len(seqs[i])
  BY <1>1, <1>2
<1>4. LaidAs(Laid(0, f), 0, f)
  BY <1>3, LaidIs
<1>5. /\ Laid(0, f) \in [1 .. N + 1 -> Nat]
      /\ Laid(0, f)[1] = 0
      /\ \A i \in 1 .. N : Laid(0, f)[i + 1] = Laid(0, f)[i] + Len(seqs[i])
  BY <1>3, <1>4 DEF LaidAs
<1> QED BY <1>3, <1>4, <1>5 DEF f, N

LEMMA Joined ==
    ASSUME NEW T, NEW s \in Seq(T), NEW t \in Seq(T)
    PROVE  JoinedAs(s \o t, s, t) /\ s \o t \in Seq(T)
BY DEF JoinedAs

LEMMA AppendIs ==
    ASSUME NEW T, NEW s \in Seq(T), NEW x \in T
    PROVE  /\ Append(s, x) \in Seq(T)
           /\ Len(Append(s, x)) = Len(s) + 1
           /\ \A i \in 1 .. Len(s) : Append(s, x)[i] = s[i]
           /\ Append(s, x)[Len(s) + 1] = x
OBVIOUS

\* FlattenSeq puts the sequences one after the other.
LEMMA FlattenIs ==
    ASSUME NEW T, NEW seqs \in Seq(Seq(T))
    PROVE  Strings(FlattenSeq(seqs), seqs, T)
<1> DEFINE N == Len(seqs)
           at == Laid(0, Lens(seqs))
           step == [n \in 1 .. N |-> [x \in Seq(T) |-> x \o seqs[n]]]
           Body(g) == [i \in 1 .. N |-> IF i = 1 THEN seqs[i] ELSE g[i - 1] \o seqs[i]]
           flatten == CHOOSE g : g = Body(g)
<1>0. N \in Nat /\ (\A n \in 1 .. N : seqs[n] \in Seq(T)) /\ (N = 0 => seqs = <<>>)
  OBVIOUS
<1>1. /\ at \in [1 .. N + 1 -> Nat]
      /\ at[1] = 0
      /\ \A i \in 1 .. N : at[i + 1] = at[i] + Len(seqs[i])
  BY LensAre
<1> HIDE DEF at
<1>2. CASE N = 0
  <2>1. FlattenSeq(seqs) = <<>>
    BY <1>0, <1>2 DEF FlattenSeq
  <2>2. <<>> \in Seq(T) /\ Len(<<>>) = at[N + 1] /\ 1 .. N = {}
    BY <1>1, <1>2
  <2> QED BY <2>1, <2>2 DEF Strings, at
<1>3. CASE N # 0
  <2>1. <<>> \in Seq(T)
    OBVIOUS
  <2>2. step \in Steps(N, Seq(T))
    <3> HIDE DEF N
    <3>1. \A n \in 1 .. N : \A x \in Seq(T) : x \o seqs[n] \in Seq(T)
      BY <1>0
    <3> QED BY <3>1 DEF Steps
  <2>3. PICK f : Leads(N, Seq(T), <<>>, step, f)
    <3> HIDE DEF step, N
    <3> QED BY <1>0, <2>1, <2>2, Recursion
  <2>4. /\ f \in [0 .. N -> Seq(T)]
        /\ f[0] = <<>>
        /\ \A n \in 1 .. N : f[n] = f[n - 1] \o seqs[n]
    <3> HIDE DEF N
    <3>1. f \in [0 .. N -> Seq(T)] /\ f[0] = <<>> /\ \A n \in 1 .. N : f[n] = step[n][f[n - 1]]
      <4> HIDE DEF step
      <4> QED BY <2>3 DEF Leads
    <3>2. \A n \in 1 .. N : n - 1 \in 0 .. N
      BY <1>0
    <3>3. \A n \in 1 .. N : f[n - 1] \in Seq(T)
      BY <3>1, <3>2
    <3> QED BY <3>1, <3>3
  <2> DEFINE h == [i \in 1 .. N |-> f[i]]
  <2>5. h = Body(h)
    <3> HIDE DEF N
    <3>1. \A i \in 1 .. N : h[i] = IF i = 1 THEN seqs[i] ELSE h[i - 1] \o seqs[i]
      <4> TAKE i \in 1 .. N
      <4>1. CASE i = 1
        <5>1. f[1] = f[0] \o seqs[1] /\ seqs[1] \in Seq(T)
          <6>1. 1 \in 1 .. N /\ 1 - 1 = 0
            BY <4>1
          <6> QED BY <6>1, <2>4, <1>0
        <5>2. <<>> \o seqs[1] = seqs[1]
          BY <5>1
        <5> QED BY <4>1, <5>1, <5>2, <2>4
      <4>2. CASE i # 1
        <5>1. i - 1 \in 1 .. N
          BY <4>2, <1>0
        <5> QED BY <4>2, <5>1, <2>4
      <4> QED BY <4>1, <4>2
    <3> QED BY <3>1
  <2>6. \E g : g = Body(g)
    <3> HIDE DEF h
    <3> QED BY <2>5
  <2>7. flatten = Body(flatten)
    <3> HIDE DEF Body
    <3> QED BY <2>6
  <2>8. FlattenSeq(seqs) = flatten[N]
    BY <1>3 DEF FlattenSeq
  <2> HIDE DEF flatten
  <2>9. \A i \in 1 .. N : flatten[i] = IF i = 1 THEN seqs[i] ELSE flatten[i - 1] \o seqs[i]
    <3> HIDE DEF N
    <3> QED BY <2>7
  <2> DEFINE Good(x, n) == /\ x \in Seq(T)
                           /\ Len(x) = at[n + 1]
                           /\ \A i \in 1 .. n : \A j \in 1 .. Len(seqs[i]) : x[at[i] + j] = seqs[i][j]
             D == {n \in 0 .. N : n # 0 => Good(flatten[n], n)}
  <2>10. \A n \in 1 .. N : \A x : Good(x, n - 1) => Good(x \o seqs[n], n)
    <3> TAKE n \in 1 .. N
    <3> TAKE x
    <3> HAVE Good(x, n - 1)
    <3> DEFINE y == x \o seqs[n]
    <3> HIDE DEF N
    <3>1. seqs[n] \in Seq(T) /\ x \in Seq(T) /\ (n - 1) + 1 = n /\ n + 1 \in 1 .. N + 1 /\ n \in 1 .. N + 1
      BY <1>0
    <3>2. JoinedAs(y, x, seqs[n]) /\ y \in Seq(T)
      BY <3>1, Joined
    <3>3. Len(x) = at[n]
      BY <3>1
    <3> HIDE DEF y
    <3>4. /\ Len(y) = Len(x) + Len(seqs[n])
          /\ \A i \in 1 .. Len(x) : y[i] = x[i]
          /\ \A i \in 1 .. Len(seqs[n]) : y[Len(x) + i] = seqs[n][i]
      BY <3>2 DEF JoinedAs
    <3>5. Len(y) = at[n + 1]
      BY <3>3, <3>4, <1>1
    <3>6. \A i \in 1 .. n : \A j \in 1 .. Len(seqs[i]) : y[at[i] + j] = seqs[i][j]
      <4> TAKE i \in 1 .. n
      <4> TAKE j \in 1 .. Len(seqs[i])
      <4>1. CASE i = n
        BY <4>1, <3>3, <3>4
      <4>2. CASE i # n
        <5>1. i \in 1 .. n - 1 /\ i \in 1 .. N /\ i + 1 \in 1 .. N + 1 /\ i \in 1 .. N + 1 /\ i + 1 <= n
          BY <4>2, <1>0
        <5>2. x[at[i] + j] = seqs[i][j]
          BY <5>1
        <5>3. at[i + 1] <= at[n]
          <6>1. LaidAs(Laid(0, Lens(seqs)), 0, Lens(seqs)) /\ Lens(seqs) \in Seq(Nat) /\ Len(Lens(seqs)) = N
            BY LensAre DEF N
          <6> QED BY <6>1, <5>1, <3>1, LaidGrows DEF at
        <5>4. at[i] \in Nat /\ at[i + 1] = at[i] + Len(seqs[i]) /\ Len(seqs[i]) \in Nat /\ at[n] \in Nat
          <6>1. seqs[i] \in Seq(T)
            BY <5>1, <1>0
          <6>2. Len(seqs[i]) \in Nat
            BY <6>1
          <6>3. n \in 1 .. N + 1
            BY <3>1
          <6> QED BY <5>1, <6>2, <6>3, <1>1
        <5>5. at[i] + j \in 1 .. Len(x)
          <6> DEFINE p == at[i]
                     q == at[i + 1]
                     r == Len(seqs[i])
                     w == at[n]
          <6>1. p \in Nat /\ q = p + r /\ r \in Nat /\ w \in Nat /\ q <= w /\ j \in 1 .. r
            BY <5>3, <5>4
          <6> HIDE DEF p, q, r, w
          <6>2. p + j \in 1 .. w
            BY <6>1
          <6> QED BY <6>2, <3>3 DEF p, w
        <5> QED BY <5>2, <5>5, <3>4
      <4> QED BY <4>1, <4>2
    <3> QED BY <3>2, <3>5, <3>6 DEF y
  <2>11. Good(<<>>, 0)
    BY <1>1
  <2>12. 0 \in D
    BY <1>0
  <2>13. \A n \in 1 .. N : n - 1 \in D => n \in D
    <3> TAKE n \in 1 .. N
    <3> HAVE n - 1 \in D
    <3>1. Good(flatten[n], n)
      <4>1. CASE n = 1
        <5>1. Good(<<>> \o seqs[1], 1)
          <6> HIDE DEF Good
          <6>1. 1 - 1 = 0 /\ 1 \in 1 .. N
            BY <4>1
          <6> QED BY <2>10, <2>11, <6>1
        <5>2. flatten[1] = seqs[1] /\ seqs[1] \in Seq(T)
          BY <4>1, <2>9, <1>0
        <5>3. <<>> \o seqs[1] = seqs[1]
          BY <5>2
        <5> HIDE DEF Good
        <5> QED BY <5>1, <5>2, <5>3, <4>1
      <4>2. CASE n # 1
        <5>1. Good(flatten[n - 1], n - 1)
          BY <4>2
        <5>2. flatten[n] = flatten[n - 1] \o seqs[n]
          BY <4>2, <2>9
        <5> HIDE DEF Good
        <5> QED BY <5>1, <5>2, <2>10
      <4> QED BY <4>1, <4>2
    <3> HIDE DEF Good
    <3> QED BY <3>1, <1>0
  <2>14. N \in D
    <3>1. 0 .. N \subseteq D
      <4> HIDE DEF D, N
      <4> QED BY <1>0, <2>12, <2>13, Induction
    <3>2. N \in 0 .. N
      BY <1>0
    <3> HIDE DEF D
    <3> QED BY <3>1, <3>2
  <2>15. Good(flatten[N], N)
    BY <2>14, <1>3
  <2> QED BY <2>15, <2>8 DEF Strings, at
<1> QED BY <1>2, <1>3

\* Every place of a concatenation is a place of one of the sequences ...
LEMMA FlattenFrom ==
    ASSUME NEW T, NEW seqs \in Seq(Seq(T)), NEW p \in 1 .. Len(FlattenSeq(seqs))
    PROVE  \E i \in 1 .. Len(seqs) : \E j \in 1 .. Len(seqs[i]) :
              /\ p = Laid(0, Lens(seqs))[i] + j
              /\ FlattenSeq(seqs)[p] = seqs[i][j]
<1> DEFINE flat == FlattenSeq(seqs)
           N == Len(seqs)
           at == Laid(0, Lens(seqs))
           sizes == Lens(seqs)
<1>1. /\ sizes \in Seq(Nat) /\ Len(sizes) = N /\ LaidAs(at, 0, sizes)
      /\ \A i \in 1 .. N : at[i + 1] = at[i] + Len(seqs[i])
      /\ at \in [1 .. N + 1 -> Nat]
  BY LensAre
<1>2. Strings(flat, seqs, T)
  BY FlattenIs
<1>3. /\ Len(flat) = at[N + 1]
      /\ \A i \in 1 .. N : \A j \in 1 .. Len(seqs[i]) : flat[at[i] + j] = seqs[i][j]
  BY <1>2 DEF Strings
<1>4. N \in Nat /\ \A i \in 1 .. N : Len(seqs[i]) \in Nat
  OBVIOUS
<1>5. p \in 1 .. at[N + 1]
  BY <1>3
<1> HIDE DEF flat, N, at, sizes
<1>6. p \in 0 + 1 .. at[Len(sizes) + 1]
  BY <1>1, <1>5
<1>7. \E i \in 1 .. Len(sizes) : at[i] < p /\ p <= at[i + 1]
  BY <1>1, <1>6, LaidReaches
<1>8. PICK i \in 1 .. N : at[i] < p /\ p <= at[i + 1]
  BY <1>1, <1>7
<1>9. at[i] \in Nat /\ at[i + 1] = at[i] + Len(seqs[i]) /\ Len(seqs[i]) \in Nat /\ p \in Nat
  <2>1. i \in 1 .. N + 1 /\ N + 1 \in 1 .. N + 1
    BY <1>4
  <2>2. at[N + 1] \in Nat
    BY <2>1, <1>1
  <2> QED BY <2>1, <2>2, <1>1, <1>4, <1>5
<1>10. p - at[i] \in 1 .. Len(seqs[i]) /\ p = at[i] + (p - at[i])
  <2> DEFINE a == at[i]
             l == Len(seqs[i])
             b == at[i + 1]
  <2>1. a \in Nat /\ b = a + l /\ l \in Nat /\ p \in Nat /\ a < p /\ p <= b
    BY <1>8, <1>9
  <2> HIDE DEF a, l, b
  <2>2. p - a \in 1 .. l /\ p = a + (p - a)
    BY <2>1
  <2> QED BY <2>2 DEF a, l
<1>11. flat[p] = seqs[i][p - at[i]]
  BY <1>3, <1>10
<1> QED BY <1>10, <1>11 DEF flat, N, at

\* ... and the other way round.
LEMMA FlattenHas ==
    ASSUME NEW T, NEW seqs \in Seq(Seq(T)), NEW i \in 1 .. Len(seqs), NEW j \in 1 .. Len(seqs[i])
    PROVE  /\ Laid(0, Lens(seqs))[i] \in Nat
           /\ Laid(0, Lens(seqs))[i] + j \in 1 .. Len(FlattenSeq(seqs))
           /\ FlattenSeq(seqs)[Laid(0, Lens(seqs))[i] + j] = seqs[i][j]
<1> DEFINE flat == FlattenSeq(seqs)
           N == Len(seqs)
           at == Laid(0, Lens(seqs))
           sizes == Lens(seqs)
<1>1. /\ sizes \in Seq(Nat) /\ Len(sizes) = N /\ LaidAs(at, 0, sizes)
      /\ \A k \in 1 .. N : at[k + 1] = at[k] + Len(seqs[k])
      /\ at \in [1 .. N + 1 -> Nat]
  BY LensAre
<1>2. Strings(flat, seqs, T)
  BY FlattenIs
<1>3. /\ Len(flat) = at[N + 1]
      /\ flat[at[i] + j] = seqs[i][j]
  BY <1>2 DEF Strings
<1>4. N \in Nat /\ i \in 1 .. N /\ Len(seqs[i]) \in Nat
  OBVIOUS
<1> HIDE DEF flat, N, at, sizes
<1>5. i \in 1 .. N + 1 /\ i + 1 \in 1 .. N + 1 /\ N + 1 \in 1 .. N + 1 /\ i + 1 <= N + 1
  BY <1>4
<1>6. at[i + 1] <= at[N + 1]
  BY <1>1, <1>5, LaidGrows, 0 \in Nat
<1>7. at[i + 1] = at[i] + Len(seqs[i]) /\ at[i] \in Nat /\ at[N + 1] \in Nat
  BY <1>1, <1>4, <1>5
<1>8. at[i] + j \in 1 .. at[N + 1]
  <2> DEFINE a == at[i]
             l == Len(seqs[i])
             b == at[i + 1]
             c == at[N + 1]
  <2>1. a \in Nat /\ b = a + l /\ l \in Nat /\ c \in Nat /\ b <= c /\ j \in 1 .. l
    BY <1>4, <1>6, <1>7
  <2> HIDE DEF a, l, b, c
  <2>2. a + j \in 1 .. c
    BY <2>1
  <2> QED BY <2>2 DEF a, c
<1> QED BY <1>3, <1>7, <1>8 DEF flat, at

-----------------------------------------------------------------------------
(* Hash tables. *)

\* Tables with n buckets, and with any number of them.
Tables(n) == [0 .. n - 1 -> Seq(Terms)]

TableT == UNION {Tables(n) : n \in Nat \ {0}}

\* Each key is in the bucket of its hash, and there once.
Sound(table) ==
    \A b \in DOMAIN table : \A i \in 1 .. Len(table[b]) :
        /\ Slot(table, table[b][i]) = b
        /\ \A j \in 1 .. Len(table[b]) : table[b][i] = table[b][j] => i = j

Keys(table) == {key \in Terms : Has(table, key)}

\* The keys of a table in a row, none twice.
Listing(entries, table) ==
    /\ entries \in Seq(Terms)
    /\ \A p \in 1 .. Len(entries) : entries[p] \in Keys(table)
    /\ \A key \in Keys(table) : \E p \in 1 .. Len(entries) : entries[p] = key
    /\ \A p, q \in 1 .. Len(entries) : entries[p] = entries[q] => p = q

\* A chain with one key more.
Extends1(chain, old, key) ==
    /\ chain \in Seq(Terms)
    /\ Len(chain) = Len(old) + 1
    /\ \E k \in 1 .. Len(chain) :
          /\ chain[k] = key
          /\ \A i \in 1 .. Len(chain) : i # k => \E j \in 1 .. Len(old) : chain[i] = old[j]
    /\ \A j \in 1 .. Len(old) : \E i \in 1 .. Len(chain) : chain[i] = old[j]
    /\ (\A i, j \in 1 .. Len(old) : old[i] # key /\ (old[i] = old[j] => i = j)) =>
          \A i, j \in 1 .. Len(chain) : chain[i] = chain[j] => i = j

\* A table that has taken a key.
Took(new, table, n, key) ==
    /\ new \in Tables(n)
    /\ Keys(new) = Keys(table) \cup {key}
    /\ Sound(table) /\ key \notin Keys(table) => Sound(new)

LEMMA Buckets ==
    ASSUME NEW n \in Nat \ {0}, NEW T, NEW table \in [0 .. n - 1 -> T]
    PROVE  NumberOfBuckets(table) = n
<1>1. Cardinality(0 .. n - 1) = n
  BY FS_Interval
<1> QED BY <1>1 DEF NumberOfBuckets

LEMMA HashOf ==
    ASSUME NEW key \in Terms, NEW n \in Nat \ {0}
    PROVE  Hash[key] \in Nat /\ Hash[key] % n \in 0 .. n - 1
<1>1. Hash[key] \in Nat
  BY IndexAssumption
<1> DEFINE h == Hash[key]
<1> HIDE DEF h
<1>2. h % n \in 0 .. n - 1
  BY <1>1 DEF h
<1> QED BY <1>1, <1>2 DEF h

LEMMA SlotIs ==
    ASSUME NEW n \in Nat \ {0}, NEW table \in Tables(n), NEW key \in Terms
    PROVE  /\ Slot(table, key) = Hash[key] % n
           /\ Slot(table, key) \in 0 .. n - 1
           /\ table[Slot(table, key)] \in Seq(Terms)
<1>1. table \in [0 .. n - 1 -> Seq(Terms)]
  BY DEF Tables
<1>2. NumberOfBuckets(table) = n
  BY <1>1, Buckets
<1>3. Slot(table, key) = Hash[key] % n
  BY <1>2 DEF Slot
<1>4. Hash[key] % n \in 0 .. n - 1
  BY HashOf
<1> QED BY <1>1, <1>3, <1>4

LEMMA KeysAre ==
    ASSUME NEW n \in Nat \ {0}, NEW table \in Tables(n), NEW key \in Terms
    PROVE  key \in Keys(table) <=>
               \E i \in 1 .. Len(table[Slot(table, key)]) : table[Slot(table, key)][i] = key
<1>1. table[Slot(table, key)] \in Seq(Terms)
  BY SlotIs
<1> QED BY <1>1 DEF Keys, Has, Range

\* The iterator comes by each key once.
LEMMA EntriesAre ==
    ASSUME NEW n \in Nat \ {0}, NEW table \in Tables(n), Sound(table)
    PROVE  Listing(Entries(table), table)
<1> DEFINE seqs == [i \in 1 .. n |-> table[i - 1]]
           entries == FlattenSeq(seqs)
           at == Laid(0, Lens(seqs))
<1>1. table \in [0 .. n - 1 -> Seq(Terms)] /\ NumberOfBuckets(table) = n
  <2>1. table \in [0 .. n - 1 -> Seq(Terms)]
    BY DEF Tables
  <2> QED BY <2>1, Buckets
<1>2. \A i \in 1 .. n : i - 1 \in 0 .. n - 1 /\ table[i - 1] \in Seq(Terms)
  BY <1>1
<1>3. seqs \in Seq(Seq(Terms)) /\ Len(seqs) = n /\ \A i \in 1 .. n : seqs[i] = table[i - 1]
  BY <1>2
<1>4. Entries(table) = entries
  BY <1>1 DEF Entries
<1> HIDE DEF seqs
<1>5. entries \in Seq(Terms)
  <2>1. Strings(entries, seqs, Terms)
    BY <1>3, FlattenIs
  <2> QED BY <2>1 DEF Strings
<1>6. \A p \in 1 .. Len(entries) : \E i \in 1 .. n : \E j \in 1 .. Len(table[i - 1]) :
          p = at[i] + j /\ entries[p] = table[i - 1][j]
  <2> TAKE p \in 1 .. Len(entries)
  <2>1. \E i \in 1 .. Len(seqs) : \E j \in 1 .. Len(seqs[i]) :
            p = at[i] + j /\ entries[p] = seqs[i][j]
    BY <1>3, FlattenFrom
  <2> HIDE DEF entries, at
  <2> QED BY <2>1, <1>3
<1>7. \A i \in 1 .. n : \A j \in 1 .. Len(table[i - 1]) :
          at[i] + j \in 1 .. Len(entries) /\ entries[at[i] + j] = table[i - 1][j]
  <2> TAKE i \in 1 .. n
  <2> TAKE j \in 1 .. Len(table[i - 1])
  <2>1. i \in 1 .. Len(seqs) /\ j \in 1 .. Len(seqs[i]) /\ seqs[i] = table[i - 1]
    BY <1>3
  <2>2. at[i] + j \in 1 .. Len(entries) /\ entries[at[i] + j] = seqs[i][j]
    <3>1. seqs \in Seq(Seq(Terms))
      BY <1>3
    <3> QED BY ONLY <3>1, <2>1, FlattenHas
  <2> QED BY <2>1, <2>2
<1> HIDE DEF entries, at
<1>8. \A i \in 1 .. n : \A j \in 1 .. Len(table[i - 1]) :
          table[i - 1][j] \in Terms /\ Slot(table, table[i - 1][j]) = i - 1
  <2> TAKE i \in 1 .. n
  <2> TAKE j \in 1 .. Len(table[i - 1])
  <2> DEFINE b == i - 1
  <2>1. b \in DOMAIN table /\ table[b] \in Seq(Terms)
    BY <1>1, <1>2
  <2> HIDE DEF b
  <2>2. j \in 1 .. Len(table[b])
    BY DEF b
  <2>3. table[b][j] \in Terms /\ Slot(table, table[b][j]) = b
    BY <2>1, <2>2 DEF Sound
  <2> QED BY <2>3 DEF b
<1>9. \A p \in 1 .. Len(entries) : entries[p] \in Keys(table)
  <2> TAKE p \in 1 .. Len(entries)
  <2>1. PICK i \in 1 .. n : \E j \in 1 .. Len(table[i - 1]) : p = at[i] + j /\ entries[p] = table[i - 1][j]
    BY <1>6
  <2>2. PICK j \in 1 .. Len(table[i - 1]) : p = at[i] + j /\ entries[p] = table[i - 1][j]
    BY <2>1
  <2> DEFINE key == table[i - 1][j]
  <2>3. key \in Terms /\ Slot(table, key) = i - 1
    BY <1>8
  <2>4. table[Slot(table, key)][j] = key /\ j \in 1 .. Len(table[Slot(table, key)])
    BY <2>3
  <2> HIDE DEF key
  <2>5. key \in Keys(table)
    BY <2>3, <2>4, KeysAre
  <2> QED BY <2>2, <2>5 DEF key
<1>10. \A key \in Keys(table) : \E p \in 1 .. Len(entries) : entries[p] = key
  <2> TAKE key \in Keys(table)
  <2>1. key \in Terms
    BY DEF Keys
  <2> DEFINE b == Slot(table, key)
  <2>2. PICK j \in 1 .. Len(table[b]) : table[b][j] = key
    BY <2>1, KeysAre
  <2>3. b \in 0 .. n - 1
    BY <2>1, SlotIs
  <2> HIDE DEF b
  <2>4. b + 1 \in 1 .. n /\ (b + 1) - 1 = b
    BY <2>3
  <2> DEFINE i == b + 1
  <2>5. i \in 1 .. n /\ j \in 1 .. Len(table[i - 1]) /\ table[i - 1][j] = key
    BY <2>2, <2>4
  <2> HIDE DEF i
  <2> QED BY <2>5, <1>7
<1>11. \A p, q \in 1 .. Len(entries) : entries[p] = entries[q] => p = q
  <2> TAKE p, q \in 1 .. Len(entries)
  <2> HAVE entries[p] = entries[q]
  <2>1. PICK i \in 1 .. n : \E j \in 1 .. Len(table[i - 1]) : p = at[i] + j /\ entries[p] = table[i - 1][j]
    BY <1>6
  <2>2. PICK j \in 1 .. Len(table[i - 1]) : p = at[i] + j /\ entries[p] = table[i - 1][j]
    BY <2>1
  <2>3. PICK k \in 1 .. n : \E j1 \in 1 .. Len(table[k - 1]) : q = at[k] + j1 /\ entries[q] = table[k - 1][j1]
    BY <1>6
  <2>4. PICK l \in 1 .. Len(table[k - 1]) : q = at[k] + l /\ entries[q] = table[k - 1][l]
    BY <2>3
  <2>5. i - 1 = k - 1
    <3>1. Slot(table, table[i - 1][j]) = i - 1 /\ Slot(table, table[k - 1][l]) = k - 1
      BY <1>8
    <3>2. table[i - 1][j] = table[k - 1][l]
      BY <2>2, <2>4
    <3> QED BY <3>1, <3>2
  <2>6. i = k
    BY <2>5
  <2>7. j = l
    <3> DEFINE b == i - 1
    <3>1. b \in DOMAIN table
      BY <1>1, <1>2
    <3>2. j \in 1 .. Len(table[b]) /\ l \in 1 .. Len(table[b]) /\ table[b][j] = table[b][l]
      BY <2>2, <2>4, <2>6
    <3> HIDE DEF b
    <3> QED BY <3>1, <3>2 DEF Sound
  <2> QED BY <2>2, <2>4, <2>6, <2>7
<1> QED BY <1>4, <1>5, <1>9, <1>10, <1>11 DEF Listing

LEMMA EmptyTableIs ==
    ASSUME NEW n \in Nat \ {0}
    PROVE  EmptyTable(n) \in Tables(n) /\ Sound(EmptyTable(n)) /\ Keys(EmptyTable(n)) = {}
<1> DEFINE table == EmptyTable(n)
<1>1. table \in Tables(n) /\ \A b \in DOMAIN table : table[b] = <<>>
  BY DEF EmptyTable, Tables
<1> HIDE DEF table
<1>2. Sound(table)
  BY <1>1 DEF Sound
<1>3. \A key \in Terms : key \notin Keys(table)
  <2> TAKE key \in Terms
  <2>1. Slot(table, key) \in DOMAIN table
    <3>1. table \in [0 .. n - 1 -> Seq(Terms)] /\ Slot(table, key) \in 0 .. n - 1
      BY <1>1, SlotIs DEF Tables
    <3> QED BY <3>1
  <2>2. Len(table[Slot(table, key)]) = 0
    BY <2>1, <1>1
  <2> QED BY <2>2, <1>1, KeysAre
<1>4. Keys(table) = {}
  BY <1>3 DEF Keys
<1> QED BY <1>1, <1>2, <1>4 DEF table

LEMMA FrontExtends ==
    ASSUME NEW old \in Seq(Terms), NEW key \in Terms
    PROVE  Extends1(<<key>> \o old, old, key)
<1> DEFINE chain == <<key>> \o old
<1>1. /\ chain \in Seq(Terms) /\ Len(chain) = Len(old) + 1
      /\ chain[1] = key /\ \A i \in 2 .. Len(chain) : chain[i] = old[i - 1]
  OBVIOUS
<1>2. Len(old) \in Nat
  OBVIOUS
<1> HIDE DEF chain
<1>3. \A i \in 1 .. Len(chain) : i # 1 => i - 1 \in 1 .. Len(old) /\ chain[i] = old[i - 1]
  BY <1>1, <1>2
<1>4. 1 \in 1 .. Len(chain)
  BY <1>1, <1>2
<1>5. \A j \in 1 .. Len(old) : j + 1 \in 1 .. Len(chain) /\ chain[j + 1] = old[j]
  <2> TAKE j \in 1 .. Len(old)
  <2>1. j + 1 \in 2 .. Len(chain) /\ j + 1 \in 1 .. Len(chain) /\ (j + 1) - 1 = j
    BY <1>1, <1>2
  <2> QED BY <2>1, <1>1
<1>6. ASSUME \A i, j \in 1 .. Len(old) : old[i] # key /\ (old[i] = old[j] => i = j)
      PROVE  \A i, j \in 1 .. Len(chain) : chain[i] = chain[j] => i = j
  <2> TAKE i, j \in 1 .. Len(chain)
  <2> HAVE chain[i] = chain[j]
  <2>1. CASE i = 1 /\ j = 1
    BY <2>1
  <2>2. CASE i # 1 /\ j = 1
    BY <2>2, <1>1, <1>3, <1>6
  <2>3. CASE i = 1 /\ j # 1
    BY <2>3, <1>1, <1>3, <1>6
  <2>4. CASE i # 1 /\ j # 1
    <3>1. i - 1 = j - 1
      BY <2>4, <1>3, <1>6
    <3> QED BY <3>1
  <2> QED BY <2>1, <2>2, <2>3, <2>4
<1>7. \E k \in 1 .. Len(chain) :
          /\ chain[k] = key
          /\ \A i \in 1 .. Len(chain) : i # k => \E j \in 1 .. Len(old) : chain[i] = old[j]
  <2>1. \A i \in 1 .. Len(chain) : i # 1 => \E j \in 1 .. Len(old) : chain[i] = old[j]
    BY <1>3
  <2> WITNESS 1 \in 1 .. Len(chain)
  <2> QED BY <2>1, <1>1
<1>8. \A j \in 1 .. Len(old) : \E i \in 1 .. Len(chain) : chain[i] = old[j]
  BY <1>5
<1>9. Extends1(chain, old, key)
  BY <1>1, <1>6, <1>7, <1>8 DEF Extends1
<1> QED BY <1>9 DEF chain

LEMMA EndExtends ==
    ASSUME NEW old \in Seq(Terms), NEW key \in Terms
    PROVE  Extends1(Append(old, key), old, key)
<1> DEFINE chain == Append(old, key)
           n == Len(old)
<1>1. /\ chain \in Seq(Terms) /\ Len(chain) = n + 1
      /\ chain[n + 1] = key /\ \A i \in 1 .. n : chain[i] = old[i]
  OBVIOUS
<1>2. n \in Nat
  OBVIOUS
<1> HIDE DEF chain, n
<1>3. \A i \in 1 .. Len(chain) : i # n + 1 => i \in 1 .. n /\ chain[i] = old[i]
  BY <1>1, <1>2
<1>4. n + 1 \in 1 .. Len(chain)
  BY <1>1, <1>2
<1>5. \A j \in 1 .. n : j \in 1 .. Len(chain) /\ chain[j] = old[j]
  BY <1>1, <1>2
<1>6. ASSUME \A i, j \in 1 .. n : old[i] # key /\ (old[i] = old[j] => i = j)
      PROVE  \A i, j \in 1 .. Len(chain) : chain[i] = chain[j] => i = j
  <2> TAKE i, j \in 1 .. Len(chain)
  <2> HAVE chain[i] = chain[j]
  <2>1. CASE i = n + 1 /\ j = n + 1
    BY <2>1
  <2>2. CASE i # n + 1 /\ j = n + 1
    BY <2>2, <1>1, <1>3, <1>6
  <2>3. CASE i = n + 1 /\ j # n + 1
    BY <2>3, <1>1, <1>3, <1>6
  <2>4. CASE i # n + 1 /\ j # n + 1
    BY <2>4, <1>3, <1>6
  <2> QED BY <2>1, <2>2, <2>3, <2>4
<1>7. chain \in Seq(Terms) /\ Len(chain) = Len(old) + 1
  BY <1>1 DEF n
<1>8. \E k \in 1 .. Len(chain) :
          /\ chain[k] = key
          /\ \A i \in 1 .. Len(chain) : i # k => \E j \in 1 .. Len(old) : chain[i] = old[j]
  <2>1. \A i \in 1 .. Len(chain) : i # n + 1 => \E j \in 1 .. n : chain[i] = old[j]
    BY <1>3
  <2> WITNESS n + 1 \in 1 .. Len(chain)
  <2> QED BY <2>1, <1>1 DEF n
<1>9. \A j \in 1 .. Len(old) : \E i \in 1 .. Len(chain) : chain[i] = old[j]
  BY <1>5 DEF n
<1>10. (\A i, j \in 1 .. Len(old) : old[i] # key /\ (old[i] = old[j] => i = j)) =>
          \A i, j \in 1 .. Len(chain) : chain[i] = chain[j] => i = j
  BY <1>6 DEF n
<1>11. Extends1(chain, old, key)
  BY <1>7, <1>8, <1>9, <1>10 DEF Extends1
<1> QED BY <1>11 DEF chain

LEMMA TableTakes ==
    ASSUME NEW n \in Nat \ {0}, NEW table \in Tables(n), NEW key \in Terms, NEW chain,
           Extends1(chain, table[Slot(table, key)], key)
    PROVE  Took([table EXCEPT ![Slot(table, key)] = chain], table, n, key)
<1> DEFINE s == Slot(table, key)
           old == table[s]
           new == [table EXCEPT ![s] = chain]
<1>1. table \in [0 .. n - 1 -> Seq(Terms)]
  BY DEF Tables
<1>2. s \in 0 .. n - 1 /\ s = Hash[key] % n /\ old \in Seq(Terms)
  BY SlotIs
<1>3. /\ chain \in Seq(Terms)
      /\ \E k \in 1 .. Len(chain) :
          /\ chain[k] = key
          /\ \A i \in 1 .. Len(chain) : i # k => \E j \in 1 .. Len(old) : chain[i] = old[j]
      /\ \A j \in 1 .. Len(old) : \E i \in 1 .. Len(chain) : chain[i] = old[j]
      /\ (\A i, j \in 1 .. Len(old) : old[i] # key /\ (old[i] = old[j] => i = j)) =>
          \A i, j \in 1 .. Len(chain) : chain[i] = chain[j] => i = j
  BY DEF Extends1
<1>4. Extends1(chain, old, key)
  OBVIOUS
<1> HIDE DEF s
<1>5. /\ new \in Tables(n)
      /\ new[s] = chain
      /\ \A b \in 0 .. n - 1 : b # s => new[b] = table[b]
      /\ DOMAIN new = 0 .. n - 1 /\ DOMAIN table = 0 .. n - 1
  BY <1>1, <1>2, <1>3 DEF Tables
<1> HIDE DEF new, old
<1>6. \A k \in Terms : /\ Slot(new, k) = Slot(table, k)
                       /\ Slot(table, k) \in 0 .. n - 1
                       /\ Slot(new, k) = Hash[k] % n
  <2> TAKE k \in Terms
  <2>1. Slot(new, k) = Hash[k] % n
    BY <1>5, SlotIs
  <2>2. Slot(table, k) = Hash[k] % n /\ Slot(table, k) \in 0 .. n - 1
    BY SlotIs
  <2> QED BY <2>1, <2>2
<1>7. \A k \in Terms : k \in Keys(new) <=> k \in Keys(table) \/ k = key
  <2> TAKE k \in Terms
  <2> DEFINE b == Slot(table, k)
  <2>1. Slot(new, k) = b /\ b \in 0 .. n - 1
    BY <1>6
  <2>2. k \in Keys(new) <=> \E i \in 1 .. Len(new[b]) : new[b][i] = k
    BY <2>1, <1>5, KeysAre
  <2>3. k \in Keys(table) <=> \E i \in 1 .. Len(table[b]) : table[b][i] = k
    BY KeysAre
  <2>4. k = key => b = s
    BY DEF s
  <2> HIDE DEF b
  <2>5. CASE b # s
    BY <2>1, <2>2, <2>3, <2>4, <2>5, <1>5
  <2>6. CASE b = s
    <3>1. new[b] = chain /\ table[b] = old
      BY <2>6, <1>5 DEF old
    <3>2. (\E i \in 1 .. Len(chain) : chain[i] = k) <=> (k = key \/ \E j \in 1 .. Len(old) : old[j] = k)
      <4>1. ASSUME NEW i \in 1 .. Len(chain), chain[i] = k
            PROVE  k = key \/ \E j \in 1 .. Len(old) : old[j] = k
        BY <4>1, <1>3
      <4>2. ASSUME k = key PROVE \E i \in 1 .. Len(chain) : chain[i] = k
        BY <4>2, <1>3
      <4>3. ASSUME NEW j \in 1 .. Len(old), old[j] = k PROVE \E i \in 1 .. Len(chain) : chain[i] = k
        BY <4>3, <1>3
      <4> QED BY <4>1, <4>2, <4>3
    <3> QED BY <2>2, <2>3, <3>1, <3>2
  <2> QED BY <2>5, <2>6
<1>8. Keys(new) = Keys(table) \cup {key}
  <2>1. Keys(new) \subseteq Terms /\ Keys(table) \subseteq Terms
    BY DEF Keys
  <2> QED BY <2>1, <1>7
<1>9. ASSUME Sound(table), key \notin Keys(table)
      PROVE  Sound(new)
  <2>1. \A i \in 1 .. Len(old) : old[i] \in Terms /\ Slot(table, old[i]) = s
    <3> TAKE i \in 1 .. Len(old)
    <3>1. i \in 1 .. Len(table[s]) /\ s \in DOMAIN table
      BY <1>2, <1>5 DEF old
    <3> QED BY <3>1, <1>2, <1>9 DEF Sound, old
  <2>2. \A i, j \in 1 .. Len(old) : old[i] # key /\ (old[i] = old[j] => i = j)
    <3> TAKE i, j \in 1 .. Len(old)
    <3>1. i \in 1 .. Len(table[s]) /\ j \in 1 .. Len(table[s]) /\ s \in DOMAIN table
      BY <1>2, <1>5 DEF old
    <3>2. old[i] = old[j] => i = j
      BY <3>1, <1>9 DEF Sound, old
    <3>3. old[i] # key
      <4>1. old[i] = key => key \in Keys(table)
        BY KeysAre DEF old, s
      <4> QED BY <4>1, <1>9
    <3> QED BY <3>2, <3>3
  <2>3. \A i, j \in 1 .. Len(chain) : chain[i] = chain[j] => i = j
    BY <2>2, <1>3
  <2>4. \A i \in 1 .. Len(chain) : chain[i] \in Terms /\ Slot(new, chain[i]) = s
    <3> TAKE i \in 1 .. Len(chain)
    <3>1. chain[i] = key \/ \E j \in 1 .. Len(old) : chain[i] = old[j]
      BY <1>3
    <3>2. Slot(table, key) = s
      BY DEF s
    <3>3. chain[i] \in Terms /\ Slot(table, chain[i]) = s
      BY <3>1, <3>2, <2>1
    <3> QED BY <3>3, <1>6
  <2>5. ASSUME NEW b \in 0 .. n - 1, NEW i \in 1 .. Len(new[b])
        PROVE  /\ Slot(new, new[b][i]) = b
               /\ \A j \in 1 .. Len(new[b]) : new[b][i] = new[b][j] => i = j
    <3>1. CASE b = s
      <4>1. new[b] = chain
        BY <3>1, <1>5
      <4> QED BY <4>1, <3>1, <2>3, <2>4, <2>5
    <3>2. CASE b # s
      <4>1. new[b] = table[b]
        BY <3>2, <1>5
      <4>2. i \in 1 .. Len(table[b]) /\ b \in DOMAIN table
        BY <4>1, <1>5
      <4>3. /\ Slot(table, table[b][i]) = b
            /\ \A j \in 1 .. Len(table[b]) : table[b][i] = table[b][j] => i = j
        BY <4>2, <1>9 DEF Sound
      <4>4. table[b][i] \in Terms
        BY <4>2, <1>1
      <4>5. Slot(new, table[b][i]) = b
        BY <4>3, <4>4, <1>6
      <4> QED BY <4>1, <4>3, <4>5
    <3> QED BY <3>1, <3>2
  <2> QED BY <2>5, <1>5 DEF Sound
<1> QED BY <1>5, <1>8, <1>9 DEF Took, new, s

LEMMA ToFrontIs ==
    ASSUME NEW n \in Nat \ {0}, NEW table \in Tables(n), NEW key \in Terms
    PROVE  Took(ToFront(table, key), table, n, key)
<1> DEFINE s == Slot(table, key)
           chain == <<key>> \o table[s]
<1>1. table[s] \in Seq(Terms)
  BY SlotIs
<1>2. Extends1(chain, table[s], key)
  BY <1>1, FrontExtends
<1>3. Took([table EXCEPT ![s] = chain], table, n, key)
  <2> HIDE DEF chain
  <2> QED BY <1>2, TableTakes
<1>4. ToFront(table, key) = [table EXCEPT ![s] = chain]
  BY Zenon DEF ToFront
<1> QED BY <1>3, <1>4

\* Optimize, with one and a half or two buckets for each key, keeps the keys.
LEMMA OptimizeIs ==
    ASSUME NEW table \in TableT, Sound(table), NEW halves \in Nat
    PROVE  /\ Optimize(table, halves) \in TableT
           /\ Sound(Optimize(table, halves))
           /\ Keys(Optimize(table, halves)) = Keys(table)
<1> DEFINE target == (halves * UniqueKeys(table) + 1) \div 2
           m == IF target = 0 THEN 1 ELSE target
           entries == Entries(table)
           N == Len(entries)
           S == Tables(m)
           base == EmptyTable(m)
           step == [n \in 1 .. N |-> [x \in S |-> ToFront(x, entries[n])]]
           Body(g) == [n \in 0 .. N |-> IF n = 0 THEN base ELSE ToFront(g[n - 1], entries[n])]
           after == CHOOSE g : g = Body(g)
<1>1. Listing(entries, table)
  <2>1. PICK k \in Nat \ {0} : table \in Tables(k)
    BY DEF TableT
  <2> QED BY <2>1, EntriesAre
<1>2. /\ entries \in Seq(Terms)
      /\ \A p \in 1 .. N : entries[p] \in Keys(table)
      /\ \A key \in Keys(table) : \E p \in 1 .. N : entries[p] = key
      /\ \A p, q \in 1 .. N : entries[p] = entries[q] => p = q
  BY <1>1 DEF Listing
<1>3. N \in Nat /\ \A n \in 1 .. N : entries[n] \in Terms
  BY <1>2
<1>4. Optimize(table, halves) = after[N]
  BY Zenon DEF Optimize
<1>5. m \in Nat \ {0}
  <2>1. UniqueKeys(table) \in Nat
    BY <1>3 DEF UniqueKeys
  <2> DEFINE p == halves * UniqueKeys(table)
  <2>2. p \in Nat
    BY <2>1
  <2> HIDE DEF p
  <2>3. (p + 1) \div 2 \in Nat
    BY <2>2
  <2>4. target \in Nat
    BY <2>3 DEF p
  <2> HIDE DEF target
  <2> QED BY <2>4
<1> HIDE DEF m, entries, N
<1>6. base \in S /\ Sound(base) /\ Keys(base) = {}
  BY <1>5, EmptyTableIs
<1> HIDE DEF base
<1>7. \A n \in 1 .. N : \A x \in S : Took(ToFront(x, entries[n]), x, m, entries[n])
  BY <1>3, <1>5, ToFrontIs
<1>8. \A n \in 1 .. N : \A x \in S : ToFront(x, entries[n]) \in S
  BY <1>7 DEF Took
<1> HIDE DEF S
<1>9. step \in Steps(N, S)
  BY <1>8 DEF Steps
<1> HIDE DEF step
<1>10. PICK f : Leads(N, S, base, step, f)
  BY <1>3, <1>6, <1>9, Recursion
<1>11. /\ f \in [0 .. N -> S]
       /\ f[0] = base
       /\ \A n \in 1 .. N : f[n] = ToFront(f[n - 1], entries[n])
  <2>1. f \in [0 .. N -> S] /\ f[0] = base /\ \A n \in 1 .. N : f[n] = step[n][f[n - 1]]
    BY <1>10 DEF Leads
  <2>2. \A n \in 1 .. N : n - 1 \in 0 .. N
    BY <1>3
  <2>3. \A n \in 1 .. N : f[n - 1] \in S
    BY <2>1, <2>2
  <2> QED BY <2>1, <2>3 DEF step
<1>12. f = Body(f)
  <2>1. \A n \in 0 .. N : f[n] = IF n = 0 THEN base ELSE ToFront(f[n - 1], entries[n])
    <3> TAKE n \in 0 .. N
    <3>1. n # 0 => n \in 1 .. N
      BY <1>3
    <3> QED BY <3>1, <1>11
  <2>2. f = [n \in 0 .. N |-> f[n]]
    BY <1>11
  <2> QED BY <2>1, <2>2
<1>13. \E g : g = Body(g)
  BY <1>12
<1>14. after = Body(after)
  <2> HIDE DEF Body
  <2> QED BY <1>13
<1> HIDE DEF after
<1>15. /\ after[0] = base
       /\ \A n \in 1 .. N : after[n] = ToFront(after[n - 1], entries[n])
  <2>1. \A n \in 0 .. N : after[n] = IF n = 0 THEN base ELSE ToFront(after[n - 1], entries[n])
    BY <1>14
  <2>2. 0 \in 0 .. N /\ \A n \in 1 .. N : n \in 0 .. N /\ n # 0
    BY <1>3
  <2> QED BY <2>1, <2>2
<1> DEFINE P(x, n) == /\ x \in S
                      /\ Sound(x)
                      /\ Keys(x) = {entries[p] : p \in 1 .. n}
           D == {n \in 0 .. N : P(after[n], n)}
<1>16. 0 \in D
  <2>1. P(base, 0)
    BY <1>6
  <2> HIDE DEF P
  <2>2. P(after[0], 0)
    BY <2>1, <1>15
  <2> QED BY <2>2, <1>3
<1>17. \A n \in 1 .. N : n - 1 \in D => n \in D
  <2> TAKE n \in 1 .. N
  <2> HAVE n - 1 \in D
  <2> DEFINE x == after[n - 1]
             y == after[n]
             key == entries[n]
  <2>1. P(x, n - 1)
    OBVIOUS
  <2>2. y = ToFront(x, key)
    BY <1>15
  <2> HIDE DEF x, y
  <2>3. Took(y, x, m, key)
    BY <2>1, <2>2, <1>7
  <2>4. y \in S /\ Keys(y) = Keys(x) \cup {key} /\ (Sound(x) /\ key \notin Keys(x) => Sound(y))
    BY <2>3 DEF Took, S
  <2>5. key \notin Keys(x)
    <3>1. \A p \in 1 .. n - 1 : p \in 1 .. N /\ p # n
      BY <1>3
    <3>2. \A p \in 1 .. n - 1 : entries[p] # key
      BY <3>1, <1>2
    <3> QED BY <3>2, <2>1
  <2>6. 1 .. n = (1 .. n - 1) \cup {n}
    BY <1>3
  <2>7. Keys(y) = {entries[p] : p \in 1 .. n}
    BY <2>1, <2>4, <2>6
  <2>8. P(y, n)
    BY <2>1, <2>4, <2>5, <2>7
  <2> HIDE DEF P
  <2> QED BY <2>8, <1>3 DEF y
<1>18. N \in D
  <2>1. 0 .. N \subseteq D
    <3> HIDE DEF D
    <3> QED BY <1>3, <1>16, <1>17, Induction
  <2>2. N \in 0 .. N
    BY <1>3
  <2> HIDE DEF D
  <2> QED BY <2>1, <2>2
<1>19. P(after[N], N)
  <2> HIDE DEF P
  <2> QED BY <1>18
<1>20. {entries[p] : p \in 1 .. N} = Keys(table)
  BY <1>2
<1>21. after[N] \in TableT
  BY <1>19, <1>5 DEF S, TableT
<1> QED BY <1>4, <1>19, <1>20, <1>21

\* Find adds the key it is given.
LEMMA FindIs ==
    ASSUME NEW table \in TableT, Sound(table), NEW key \in Terms
    PROVE  /\ Find(table, key) \in TableT
           /\ Sound(Find(table, key))
           /\ Keys(Find(table, key)) = Keys(table) \cup {key}
<1> DEFINE s == Slot(table, key)
           chain == Append(table[s], key)
           longer == [table EXCEPT ![s] = chain]
           full == UniqueKeys(longer) > 2 * NumberOfBuckets(table)
<1>1. PICK n \in Nat \ {0} : table \in Tables(n)
  BY DEF TableT
<1>2. table[s] \in Seq(Terms)
  BY <1>1, SlotIs
<1>3. Extends1(chain, table[s], key)
  BY <1>2, EndExtends
<1>4. Took(longer, table, n, key)
  <2> HIDE DEF chain
  <2> QED BY <1>1, <1>3, TableTakes
<1>5. Has(table, key) <=> key \in Keys(table)
  BY DEF Keys
<1>6. Find(table, key) = CASE Has(table, key) -> table
                           [] ~Has(table, key) /\ full -> Optimize(longer, 4)
                           [] OTHER -> longer
  BY Zenon DEF Find
<1> HIDE DEF longer, full
<1>7. CASE Has(table, key)
  <2>1. Find(table, key) = table
    BY <1>6, <1>7
  <2> QED BY <2>1, <1>5, <1>7
<1>8. CASE ~Has(table, key)
  <2>1. longer \in TableT /\ Keys(longer) = Keys(table) \cup {key} /\ Sound(longer)
    BY <1>4, <1>5, <1>8 DEF Took, TableT
  <2>2. CASE full
    <3>1. Find(table, key) = Optimize(longer, 4)
      BY <1>6, <1>8, <2>2
    <3> QED BY <3>1, <2>1, OptimizeIs
  <2>3. CASE ~full
    <3>1. Find(table, key) = longer
      BY <1>6, <1>8, <2>3
    <3> QED BY <3>1, <2>1
  <2> QED BY <2>2, <2>3
<1> QED BY <1>7, <1>8

-----------------------------------------------------------------------------
(* Posting lists. *)

Decs == {"url", "title", "body", "anchor"}

Token == [term : Terms, dec : Decs]

\* What a post is for: a word, or the end of a document, at a position.
EventT == [pos : Nat, term : Terms, dec : Decs \cup {"end"}, doc : Nat]

PostT == [dec : Decs \cup {"end"}, delta : Nat]

SeekT == [abs : Nat, index : Nat]

ListT == [posts : Seq(PostT), seeks : Seq(SeekT), last : Nat, numDocs : Nat, occurrences : Nat,
          lastDoc : Int]

Before1(A, i) == IF i = 1 THEN 0 ELSE A[i - 1]

\* A list has posts for the events E, at the positions A, and checkpoints that are right.
Positioned(pl, A, E) ==
    /\ A \in Seq(Nat)
    /\ Len(A) = Len(pl.posts)
    /\ \A i, j \in 1 .. Len(A) : i < j => A[i] < A[j]
    /\ \A i \in 1 .. Len(A) : pl.posts[i].delta = (A[i] - Before1(A, i)) % DeltaLimit
    /\ pl.last = Before1(A, Len(A) + 1)
    /\ \A k \in 1 .. Len(pl.seeks) : /\ pl.seeks[k].index \in 1 .. Len(A)
                                     /\ pl.seeks[k].abs = A[pl.seeks[k].index]
    /\ \A e \in E : \E i \in 1 .. Len(A) : A[i] = e.pos /\ pl.posts[i].dec = e.dec
    /\ \A i \in 1 .. Len(A) : \E e \in E : A[i] = e.pos /\ pl.posts[i].dec = e.dec

Words(E) == {e \in E : e.dec # "end"}

DocsOf(E) == {e.doc : e \in Words(E)}

\* The counts of a list when the document that is being added has number d.
Counted(pl, E, d) ==
    /\ IsFiniteSet(E)
    /\ \A e \in E : e.doc \in 0 .. d
    /\ pl.occurrences = Cardinality(Words(E))
    /\ pl.numDocs = Cardinality(DocsOf(E))
    /\ pl.lastDoc <= d
    /\ pl.lastDoc = d <=> d \in DocsOf(E)

ListIs(pl, E, d) ==
    /\ pl \in ListT
    /\ \E A : Positioned(pl, A, E)
    /\ Counted(pl, E, d)

LEMMA Limit ==
    DeltaLimit \in Nat \ {0} /\ Stride \in Nat \ {0} /\ FirstBuckets \in Nat \ {0} /\ MinBuckets \in Nat \ {0}
BY IndexAssumption

LEMMA EmptyIs ==
    ASSUME NEW d \in Nat
    PROVE  ListIs(EmptyList, {}, d)
<1>1. EmptyList \in ListT
  BY DEF EmptyList, ListT
<1>2. Positioned(EmptyList, <<>>, {})
  <2>1. EmptyList.posts = <<>> /\ EmptyList.seeks = <<>> /\ EmptyList.last = 0
    BY DEF EmptyList
  <2>2. <<>> \in Seq(Nat) /\ Len(<<>>) = 0
    OBVIOUS
  <2>3. Before1(<<>>, Len(<<>>) + 1) = 0
    BY <2>2 DEF Before1
  <2>4. 1 .. Len(<<>>) = {}
    BY <2>2
  <2> QED BY <2>1, <2>2, <2>3, <2>4 DEF Positioned
<1>3. Counted(EmptyList, {}, d)
  <2>1. Words({}) = {} /\ DocsOf({}) = {}
    BY DEF Words, DocsOf
  <2>2. EmptyList.occurrences = 0 /\ EmptyList.numDocs = 0 /\ EmptyList.lastDoc = -1
    BY DEF EmptyList
  <2> QED BY <2>1, <2>2, FS_EmptySet DEF Counted
<1> QED BY <1>1, <1>2, <1>3 DEF ListIs

LEMMA RemainderIs ==
    ASSUME NEW a \in Int
    PROVE  a % DeltaLimit \in Nat
<1>1. DeltaLimit \in Nat /\ DeltaLimit > 0
  BY Limit
<1> QED BY <1>1

LEMMA PostTyped ==
    ASSUME NEW pl \in ListT, NEW dec \in Decs \cup {"end"}, NEW pos \in Nat
    PROVE  LET new == AddPost(pl, dec, pos)
           IN  /\ new \in ListT
               /\ new.posts = Append(pl.posts, [dec |-> dec, delta |-> (pos - pl.last) % DeltaLimit])
               /\ new.last = pos
               /\ \/ new.seeks = pl.seeks
                  \/ new.seeks = Append(pl.seeks, [abs |-> pos, index |-> Len(pl.posts) + 1])
               /\ new.numDocs = pl.numDocs
               /\ new.occurrences = pl.occurrences
               /\ new.lastDoc = pl.lastDoc
<1> DEFINE new == AddPost(pl, dec, pos)
           post == [dec |-> dec, delta |-> (pos - pl.last) % DeltaLimit]
           seek == [abs |-> pos, index |-> Len(pl.posts) + 1]
           skip == (Len(pl.posts) + 1) % Stride # 0
           seeks == IF skip THEN pl.seeks ELSE Append(pl.seeks, seek)
<1>1. /\ pl.posts \in Seq(PostT) /\ pl.seeks \in Seq(SeekT) /\ pl.last \in Nat
      /\ pl.numDocs \in Nat /\ pl.occurrences \in Nat /\ pl.lastDoc \in Int
  BY DEF ListT
<1>2. post \in PostT
  <2>1. pos - pl.last \in Int
    BY <1>1
  <2>2. (pos - pl.last) % DeltaLimit \in Nat
    BY <2>1, RemainderIs
  <2> QED BY <2>2 DEF PostT
<1>3. seek \in SeekT
  BY <1>1 DEF SeekT
<1>4. new = [pl EXCEPT !.posts = Append(pl.posts, post), !.last = pos, !.seeks = seeks]
  BY DEF AddPost, Post
<1> HIDE DEF post, seek, new, skip
<1>5. Append(pl.posts, post) \in Seq(PostT) /\ seeks \in Seq(SeekT)
  BY <1>1, <1>2, <1>3
<1>6. seeks = pl.seeks \/ seeks = Append(pl.seeks, seek)
  OBVIOUS
<1> HIDE DEF seeks
<1> DEFINE posts == Append(pl.posts, post)
<1>7. posts \in Seq(PostT)
  BY <1>5
<1> HIDE DEF posts
<1>8. new = [pl EXCEPT !.posts = posts, !.last = pos, !.seeks = seeks]
  BY <1>4 DEF posts
<1>9. /\ new \in ListT /\ new.posts = posts /\ new.last = pos /\ new.seeks = seeks
      /\ new.numDocs = pl.numDocs
      /\ new.occurrences = pl.occurrences
      /\ new.lastDoc = pl.lastDoc
  BY <1>5, <1>7, <1>8 DEF ListT
<1> QED BY <1>6, <1>9 DEF posts, post, seek, new

\* A post after all others takes its place at the end.
LEMMA PostAdded ==
    ASSUME NEW pl \in ListT, NEW A, NEW E, Positioned(pl, A, E),
           NEW e \in EventT, \A x \in E : x.pos < e.pos
    PROVE  Positioned(AddPost(pl, e.dec, e.pos), Append(A, e.pos), E \cup {e})
<1> DEFINE new == AddPost(pl, e.dec, e.pos)
           B == Append(A, e.pos)
           n == Len(A)
           post == [dec |-> e.dec, delta |-> (e.pos - pl.last) % DeltaLimit]
           seek == [abs |-> e.pos, index |-> Len(pl.posts) + 1]
<1>1. e.pos \in Nat /\ e.dec \in Decs \cup {"end"}
  BY DEF EventT
<1>2. /\ new \in ListT
      /\ new.posts = Append(pl.posts, post)
      /\ new.last = e.pos
      /\ new.seeks = pl.seeks \/ new.seeks = Append(pl.seeks, seek)
  BY <1>1, PostTyped
<1>3. /\ A \in Seq(Nat)
      /\ Len(A) = Len(pl.posts)
      /\ \A i, j \in 1 .. n : i < j => A[i] < A[j]
      /\ \A i \in 1 .. n : pl.posts[i].delta = (A[i] - Before1(A, i)) % DeltaLimit
      /\ pl.last = Before1(A, n + 1)
      /\ \A k \in 1 .. Len(pl.seeks) : /\ pl.seeks[k].index \in 1 .. n
                                       /\ pl.seeks[k].abs = A[pl.seeks[k].index]
      /\ \A x \in E : \E i \in 1 .. n : A[i] = x.pos /\ pl.posts[i].dec = x.dec
      /\ \A i \in 1 .. n : \E x \in E : A[i] = x.pos /\ pl.posts[i].dec = x.dec
  BY DEF Positioned
<1>4. pl.posts \in Seq(PostT) /\ pl.seeks \in Seq(SeekT)
  BY DEF ListT
<1>5. /\ B \in Seq(Nat) /\ Len(B) = n + 1 /\ B[n + 1] = e.pos
      /\ \A i \in 1 .. n : B[i] = A[i]
      /\ n \in Nat
  BY <1>1, <1>3
<1>6. /\ Len(new.posts) = n + 1 /\ new.posts[n + 1] = post
      /\ \A i \in 1 .. n : new.posts[i] = pl.posts[i]
  <2> HIDE DEF post, new
  <2> QED BY <1>2, <1>3, <1>4
<1>7. post.dec = e.dec /\ post.delta = (e.pos - pl.last) % DeltaLimit
  OBVIOUS
<1> HIDE DEF new, B, post
<1>8. \A i \in 1 .. n : A[i] < e.pos
  BY <1>3
<1> HIDE DEF n
<1>9. \A i \in 1 .. n + 1 : i \in 1 .. n \/ i = n + 1
  BY <1>5
<1>10. \A i, j \in 1 .. n + 1 : i < j => B[i] < B[j]
  <2> TAKE i, j \in 1 .. n + 1
  <2> HAVE i < j
  <2>1. i \in 1 .. n
    BY <1>5
  <2>2. CASE j = n + 1
    BY <2>1, <2>2, <1>5, <1>8
  <2>3. CASE j \in 1 .. n
    BY <2>1, <2>3, <1>5, <1>3
  <2> QED BY <2>2, <2>3, <1>9
<1>11. \A i \in 1 .. n + 1 : Before1(B, i) = Before1(A, i)
  <2> TAKE i \in 1 .. n + 1
  <2>1. i # 1 => i - 1 \in 1 .. n
    BY <1>5
  <2> QED BY <2>1, <1>5 DEF Before1
<1>12. \A i \in 1 .. n + 1 : new.posts[i].delta = (B[i] - Before1(B, i)) % DeltaLimit
  <2> TAKE i \in 1 .. n + 1
  <2>1. CASE i = n + 1
    BY <2>1, <1>3, <1>5, <1>6, <1>7, <1>11
  <2>2. CASE i \in 1 .. n
    BY <2>2, <1>3, <1>5, <1>6, <1>11
  <2> QED BY <2>1, <2>2, <1>9
<1>13. new.last = Before1(B, (n + 1) + 1)
  <2>1. (n + 1) + 1 # 1 /\ ((n + 1) + 1) - 1 = n + 1
    BY <1>5
  <2> QED BY <2>1, <1>2, <1>5 DEF Before1
<1>14. \A k \in 1 .. Len(new.seeks) : /\ new.seeks[k].index \in 1 .. n + 1
                                      /\ new.seeks[k].abs = B[new.seeks[k].index]
  <2>1. \A k \in 1 .. Len(pl.seeks) : /\ pl.seeks[k].index \in 1 .. n + 1
                                      /\ pl.seeks[k].abs = B[pl.seeks[k].index]
    <3> TAKE k \in 1 .. Len(pl.seeks)
    <3> DEFINE x == pl.seeks[k].index
    <3>1. x \in 1 .. n /\ pl.seeks[k].abs = A[x]
      BY <1>3
    <3> HIDE DEF x
    <3>2. x \in 1 .. n + 1 /\ B[x] = A[x]
      BY <3>1, <1>5
    <3> QED BY <3>1, <3>2 DEF x
  <2>2. CASE new.seeks = pl.seeks
    BY <2>1, <2>2
  <2>3. CASE new.seeks = Append(pl.seeks, seek)
    <3>1. seek.index = n + 1 /\ seek.abs = e.pos
      BY <1>3 DEF n
    <3> DEFINE m == Len(pl.seeks)
    <3> HIDE DEF seek
    <3>2. /\ Len(new.seeks) = m + 1 /\ new.seeks[m + 1] = seek
          /\ \A k \in 1 .. m : new.seeks[k] = pl.seeks[k]
          /\ m \in Nat
      BY <1>4, <2>3
    <3> HIDE DEF m
    <3> TAKE k \in 1 .. Len(new.seeks)
    <3>3. k \in 1 .. m \/ k = m + 1
      BY <3>2
    <3>4. n + 1 \in 1 .. n + 1
      BY <1>5
    <3> QED BY <3>1, <3>2, <3>3, <3>4, <2>1, <1>5 DEF m
  <2> QED BY <2>2, <2>3, <1>2
<1>15. \A x \in E \cup {e} : \E i \in 1 .. n + 1 : B[i] = x.pos /\ new.posts[i].dec = x.dec
  <2> TAKE x \in E \cup {e}
  <2>1. CASE x = e
    <3>1. n + 1 \in 1 .. n + 1
      BY <1>5
    <3> QED BY <3>1, <2>1, <1>5, <1>6, <1>7
  <2>2. CASE x \in E
    <3>1. PICK i \in 1 .. n : A[i] = x.pos /\ pl.posts[i].dec = x.dec
      BY <2>2, <1>3
    <3>2. i \in 1 .. n + 1
      BY <1>5
    <3> QED BY <3>1, <3>2, <1>5, <1>6
  <2> QED BY <2>1, <2>2
<1>16. \A i \in 1 .. n + 1 : \E x \in E \cup {e} : B[i] = x.pos /\ new.posts[i].dec = x.dec
  <2> TAKE i \in 1 .. n + 1
  <2>1. CASE i = n + 1
    BY <2>1, <1>5, <1>6, <1>7
  <2>2. CASE i \in 1 .. n
    <3>1. PICK x \in E : A[i] = x.pos /\ pl.posts[i].dec = x.dec
      BY <2>2, <1>3
    <3>2. B[i] = A[i] /\ new.posts[i] = pl.posts[i]
      BY <2>2, <1>5, <1>6
    <3> QED BY <3>1, <3>2
  <2> QED BY <2>1, <2>2, <1>9
<1>17. Positioned(new, B, E \cup {e})
  <2>1. Len(B) = Len(new.posts)
    BY <1>5, <1>6
  <2> QED BY <2>1, <1>5, <1>10, <1>12, <1>13, <1>14, <1>15, <1>16 DEF Positioned
<1> QED BY <1>17 DEF new, B

-----------------------------------------------------------------------------
(* Builders. *)

DocT == [start : Nat, end : Nat, url : Seq(Terms), title : Seq(Terms), bodyLength : Nat]

BuilderT == [dictionary : TableT, lists : UNION {[S -> ListT] : S \in SUBSET Terms},
             docs : Seq(DocT), counter : Nat]

\* A builder that has a list for each word of its dictionary.
Builders == {ib \in BuilderT : Sound(ib.dictionary) /\ DOMAIN ib.lists = Keys(ib.dictionary)}

Of(H, t) == {e \in H : e.term = t}

\* What a builder has is what happened to it: the list of each word tells the events
\* of the word.
Tells(ib, H) ==
    /\ ib \in Builders
    /\ H \subseteq EventT
    /\ \A e \in H : e.pos < ib.counter /\ e.term \in Keys(ib.dictionary)
    /\ \A t \in Terms : ListIs(GetPostingList(ib, t), Of(H, t), Len(ib.docs))

Put(ib, t, pl) ==
    [ib EXCEPT !.dictionary = Find(@, t),
               !.lists = [u \in DOMAIN @ \cup {t} |-> IF u = t THEN pl ELSE @[u]],
               !.counter = @ + 1]

Recounted(ib, token) ==
    LET doc == Len(ib.docs)
        pl == AddPost(GetPostingList(ib, token.term), token.dec, ib.counter)
    IN  [pl EXCEPT !.numDocs = IF pl.lastDoc = doc THEN @ ELSE @ + 1,
                   !.lastDoc = doc,
                   !.occurrences = @ + 1]

LEMMA CountTyped ==
    ASSUME NEW E, IsFiniteSet(E)
    PROVE  /\ IsFiniteSet(Words(E)) /\ IsFiniteSet(DocsOf(E))
           /\ Cardinality(Words(E)) \in Nat /\ Cardinality(DocsOf(E)) \in Nat
<1>1. IsFiniteSet(Words(E))
  <2>1. Words(E) \in SUBSET E
    BY DEF Words
  <2> QED BY <2>1, FS_Subset
<1>2. IsFiniteSet(DocsOf(E))
  <2> DEFINE W == Words(E)
             D == DocsOf(E)
             f == [e \in W |-> e.doc]
  <2>1. f \in Surjection(W, D)
    BY DEF DocsOf, Surjection
  <2> HIDE DEF W, D, f
  <2>2. IsFiniteSet(W)
    BY <1>1 DEF W
  <2>3. IsFiniteSet(D)
    BY <2>1, <2>2, FS_Surjection
  <2> QED BY <2>3 DEF D
<1> QED BY <1>1, <1>2, FS_CardinalityType

LEMMA WordCounted ==
    ASSUME NEW E, NEW pl \in ListT, NEW d \in Nat, Counted(pl, E, d),
           NEW e, e \notin E, e.dec # "end", e.doc = d,
           NEW new, new.occurrences = pl.occurrences + 1,
           new.numDocs = IF pl.lastDoc = d THEN pl.numDocs ELSE pl.numDocs + 1,
           new.lastDoc = d
    PROVE  Counted(new, E \cup {e}, d)
<1> DEFINE F == E \cup {e}
<1>1. IsFiniteSet(F)
  BY FS_AddElement DEF Counted
<1>2. Words(F) = Words(E) \cup {e} /\ e \notin Words(E)
  BY DEF Words
<1>3. DocsOf(F) = DocsOf(E) \cup {d}
  BY <1>2 DEF DocsOf
<1>4. /\ IsFiniteSet(Words(E)) /\ IsFiniteSet(DocsOf(E))
      /\ pl.occurrences = Cardinality(Words(E)) /\ pl.numDocs = Cardinality(DocsOf(E))
      /\ pl.lastDoc = d <=> d \in DocsOf(E)
  BY CountTyped DEF Counted
<1>5. new.occurrences = Cardinality(Words(F))
  <2>1. Cardinality(Words(E) \cup {e}) = Cardinality(Words(E)) + 1
    BY <1>2, <1>4, FS_AddElement
  <2> QED BY <2>1, <1>2, <1>4
<1>6. new.numDocs = Cardinality(DocsOf(F))
  <2>1. Cardinality(DocsOf(E) \cup {d}) = IF d \in DocsOf(E) THEN Cardinality(DocsOf(E))
                                                             ELSE Cardinality(DocsOf(E)) + 1
    BY <1>4, FS_AddElement
  <2> QED BY <2>1, <1>3, <1>4
<1>7. \A x \in F : x.doc \in 0 .. d
  BY DEF Counted
<1> HIDE DEF F
<1>8. d \in DocsOf(F) /\ new.lastDoc <= d
  BY <1>3
<1>9. Counted(new, F, d)
  BY <1>1, <1>5, <1>6, <1>7, <1>8 DEF Counted
<1> QED BY <1>9 DEF F

LEMMA NextCounted ==
    ASSUME NEW E, NEW pl \in ListT, NEW d \in Nat, Counted(pl, E, d)
    PROVE  Counted(pl, E, d + 1)
<1>1. pl.lastDoc \in Int /\ pl.lastDoc <= d
  BY DEF ListT, Counted
<1>2. \A e \in E : e.doc \in 0 .. d
  BY DEF Counted
<1>3. d + 1 \notin DocsOf(E)
  BY <1>2 DEF DocsOf, Words
<1>4. pl.lastDoc <= d + 1 /\ pl.lastDoc # d + 1
  BY <1>1
<1>5. \A e \in E : e.doc \in 0 .. d + 1
  BY <1>2
<1> QED BY <1>3, <1>4, <1>5 DEF Counted

LEMMA EndCounted ==
    ASSUME NEW E, NEW pl \in ListT, NEW d \in Nat, Counted(pl, E, d),
           NEW e, e.dec = "end", e.doc = d,
           NEW new \in ListT, new.occurrences = pl.occurrences, new.numDocs = pl.numDocs,
           new.lastDoc = pl.lastDoc
    PROVE  Counted(new, E \cup {e}, d + 1)
<1> DEFINE F == E \cup {e}
<1>1. IsFiniteSet(F)
  BY FS_AddElement DEF Counted
<1>2. Words(F) = Words(E)
  BY DEF Words
<1>3. DocsOf(F) = DocsOf(E)
  BY <1>2 DEF DocsOf
<1>4. \A x \in F : x.doc \in 0 .. d
  BY DEF Counted
<1> HIDE DEF F
<1>5. Counted(new, F, d)
  BY <1>1, <1>2, <1>3, <1>4 DEF Counted
<1>6. Counted(new, F, d + 1)
  BY <1>5, NextCounted
<1> QED BY <1>6 DEF F

LEMMA BuilderIs ==
    ASSUME NEW ib \in Builders
    PROVE  /\ ib.dictionary \in TableT /\ Sound(ib.dictionary)
           /\ DOMAIN ib.lists = Keys(ib.dictionary)
           /\ Keys(ib.dictionary) \subseteq Terms
           /\ ib.lists \in [Keys(ib.dictionary) -> ListT]
           /\ ib.docs \in Seq(DocT) /\ ib.counter \in Nat /\ Len(ib.docs) \in Nat
<1>1. ib \in BuilderT /\ Sound(ib.dictionary) /\ DOMAIN ib.lists = Keys(ib.dictionary)
  BY DEF Builders
<1>2. /\ ib.dictionary \in TableT /\ ib.docs \in Seq(DocT) /\ ib.counter \in Nat
      /\ \E S \in SUBSET Terms : ib.lists \in [S -> ListT]
  BY <1>1 DEF BuilderT
<1>3. ib.lists \in [Keys(ib.dictionary) -> ListT]
  BY <1>1, <1>2
<1>4. Keys(ib.dictionary) \subseteq Terms
  BY DEF Keys
<1>5. Len(ib.docs) \in Nat
  BY <1>2
<1> QED BY <1>1, <1>2, <1>3, <1>4, <1>5

LEMMA Got ==
    ASSUME NEW ib \in Builders, NEW t \in Terms
    PROVE  /\ GetPostingList(ib, t) \in ListT
           /\ t \in Keys(ib.dictionary) => GetPostingList(ib, t) = ib.lists[t]
           /\ t \notin Keys(ib.dictionary) => GetPostingList(ib, t) = EmptyList
<1>1. t \in Keys(ib.dictionary) <=> Has(ib.dictionary, t)
  BY DEF Keys
<1>2. EmptyList \in ListT
  BY EmptyIs, 0 \in Nat DEF ListIs
<1>3. ib.lists \in [Keys(ib.dictionary) -> ListT]
  BY BuilderIs
<1> QED BY <1>1, <1>2, <1>3 DEF GetPostingList

LEMMA PutIs ==
    ASSUME NEW ib \in Builders, NEW t \in Terms, NEW pl \in ListT
    PROVE  LET new == Put(ib, t, pl)
           IN  /\ new \in Builders
               /\ Keys(new.dictionary) = Keys(ib.dictionary) \cup {t}
               /\ new.docs = ib.docs
               /\ new.counter = ib.counter + 1
               /\ GetPostingList(new, t) = pl
               /\ \A u \in Terms : u # t => GetPostingList(new, u) = GetPostingList(ib, u)
<1> DEFINE new == Put(ib, t, pl)
           table == Find(ib.dictionary, t)
           K == Keys(ib.dictionary)
           lists == [u \in K \cup {t} |-> IF u = t THEN pl ELSE ib.lists[u]]
<1>1. /\ ib.dictionary \in TableT /\ Sound(ib.dictionary)
      /\ DOMAIN ib.lists = K /\ K \subseteq Terms
      /\ ib.lists \in [K -> ListT]
      /\ ib.docs \in Seq(DocT) /\ ib.counter \in Nat
  BY BuilderIs
<1>2. table \in TableT /\ Sound(table) /\ Keys(table) = K \cup {t}
  BY <1>1, FindIs
<1>3. lists \in [K \cup {t} -> ListT] /\ DOMAIN lists = K \cup {t}
  BY <1>1
<1>4. new = [ib EXCEPT !.dictionary = table, !.lists = lists, !.counter = ib.counter + 1]
  BY <1>1 DEF Put
<1>5. ib \in BuilderT
  BY DEF Builders
<1> HIDE DEF new, table, lists
<1>6. /\ new.dictionary = table /\ new.lists = lists /\ new.docs = ib.docs /\ new.counter = ib.counter + 1
      /\ new = [dictionary |-> table, lists |-> lists, docs |-> ib.docs, counter |-> ib.counter + 1]
  BY <1>4, <1>5 DEF BuilderT
<1> HIDE DEF K
<1>7. lists \in UNION {[S -> ListT] : S \in SUBSET Terms}
  <2>1. K \cup {t} \in SUBSET Terms
    BY <1>1
  <2> QED BY <2>1, <1>3
<1>8. new \in BuilderT
  <2>1. ib.counter + 1 \in Nat
    BY <1>1
  <2> QED BY <2>1, <1>1, <1>2, <1>6, <1>7 DEF BuilderT
<1>9. new \in Builders
  BY <1>2, <1>3, <1>6, <1>8 DEF Builders
<1>10. \A u \in Terms : Has(table, u) <=> u \in K \cup {t}
  BY <1>2 DEF Keys
<1>11. GetPostingList(new, t) = pl
  BY <1>6, <1>10 DEF GetPostingList, lists
<1>12. \A u \in Terms : u # t => GetPostingList(new, u) = GetPostingList(ib, u)
  <2> TAKE u \in Terms
  <2> HAVE u # t
  <2>1. Has(table, u) <=> Has(ib.dictionary, u)
    BY <1>10 DEF K, Keys
  <2>2. u \in K => lists[u] = ib.lists[u]
    BY DEF lists
  <2>3. Has(ib.dictionary, u) <=> u \in K
    BY DEF K, Keys
  <2> QED BY <2>1, <2>2, <2>3, <1>6 DEF GetPostingList
<1> QED BY <1>2, <1>6, <1>9, <1>11, <1>12 DEF new, K

LEMMA RecountedIs ==
    ASSUME NEW ib \in Builders, NEW token \in Token
    PROVE  LET new == Recounted(ib, token)
               pl == GetPostingList(ib, token.term)
               added == AddPost(pl, token.dec, ib.counter)
           IN  /\ new \in ListT
               /\ new.posts = added.posts /\ new.seeks = added.seeks /\ new.last = added.last
               /\ new.occurrences = pl.occurrences + 1
               /\ new.numDocs = IF pl.lastDoc = Len(ib.docs) THEN pl.numDocs ELSE pl.numDocs + 1
               /\ new.lastDoc = Len(ib.docs)
<1> DEFINE new == Recounted(ib, token)
           pl == GetPostingList(ib, token.term)
           added == AddPost(pl, token.dec, ib.counter)
           d == Len(ib.docs)
           count == IF added.lastDoc = d THEN added.numDocs ELSE added.numDocs + 1
<1>1. token.term \in Terms /\ token.dec \in Decs \cup {"end"}
  BY DEF Token
<1>2. pl \in ListT
  BY <1>1, Got
<1>3. ib.counter \in Nat /\ d \in Nat
  BY BuilderIs
<1>4. /\ added \in ListT /\ added.numDocs = pl.numDocs
      /\ added.occurrences = pl.occurrences /\ added.lastDoc = pl.lastDoc
  BY <1>1, <1>2, <1>3, PostTyped
<1>5. new = [added EXCEPT !.numDocs = count, !.lastDoc = d, !.occurrences = added.occurrences + 1]
  BY DEF Recounted
<1> HIDE DEF new, added, pl, d
<1>6. count \in Nat
  BY <1>4 DEF ListT
<1>7. count = IF pl.lastDoc = d THEN pl.numDocs ELSE pl.numDocs + 1
  BY <1>4
<1> HIDE DEF count
<1>8. added.occurrences + 1 \in Nat /\ d \in Int
  BY <1>3, <1>4 DEF ListT
<1>9. /\ new \in ListT
      /\ new.posts = added.posts /\ new.seeks = added.seeks /\ new.last = added.last
      /\ new.occurrences = added.occurrences + 1 /\ new.numDocs = count /\ new.lastDoc = d
  BY <1>4, <1>5, <1>6, <1>8 DEF ListT
<1> QED BY <1>4, <1>7, <1>9 DEF new, added, pl, d

LEMMA DirectIsPut ==
    ASSUME NEW ib, NEW token
    PROVE  AddPostDirect(ib, token) = Put(ib, token.term, Recounted(ib, token))
BY Zenon DEF AddPostDirect, Put, Recounted

-----------------------------------------------------------------------------
(* Words that are added. *)

Event(pos, token, doc) == [pos |-> pos, term |-> token.term, dec |-> token.dec, doc |-> doc]

\* The events of the first n words of a document that starts at start.
EventsOf(start, tokens, doc, n) == {Event(start + i - 1, tokens[i], doc) : i \in 1 .. n}

LEMMA PositionedSame ==
    ASSUME NEW pl, NEW A, NEW E, Positioned(pl, A, E),
           NEW new, new.posts = pl.posts, new.seeks = pl.seeks, new.last = pl.last
    PROVE  Positioned(new, A, E)
<1> DEFINE posts == pl.posts
           seeks == pl.seeks
<1>1. /\ A \in Seq(Nat) /\ Len(A) = Len(posts) /\ \A i, j \in 1 .. Len(A) : i < j => A[i] < A[j]
      /\ \A i \in 1 .. Len(A) : posts[i].delta = (A[i] - Before1(A, i)) % DeltaLimit
      /\ pl.last = Before1(A, Len(A) + 1)
  BY DEF Positioned
<1>2. \A k \in 1 .. Len(seeks) : seeks[k].index \in 1 .. Len(A) /\ seeks[k].abs = A[seeks[k].index]
  BY DEF Positioned
<1>3. /\ \A e \in E : \E i \in 1 .. Len(A) : A[i] = e.pos /\ posts[i].dec = e.dec
      /\ \A i \in 1 .. Len(A) : \E e \in E : A[i] = e.pos /\ posts[i].dec = e.dec
  BY DEF Positioned
<1>4. new.posts = posts /\ new.seeks = seeks
  OBVIOUS
<1> HIDE DEF posts, seeks
<1> QED BY <1>1, <1>2, <1>3, <1>4 DEF Positioned

LEMMA DirectTyped ==
    ASSUME NEW ib \in Builders, NEW token \in Token
    PROVE  AddPostDirect(ib, token) \in Builders
<1>1. token.term \in Terms
  BY DEF Token
<1> DEFINE pl == Recounted(ib, token)
<1>2. pl \in ListT
  BY RecountedIs
<1> HIDE DEF pl
<1>3. Put(ib, token.term, pl) \in Builders
  BY <1>1, <1>2, PutIs
<1> QED BY <1>3, DirectIsPut DEF pl

\* A word that is added is an event more.
LEMMA DirectTells ==
    ASSUME NEW ib, NEW H, Tells(ib, H), NEW token \in Token
    PROVE  LET new == AddPostDirect(ib, token)
           IN  /\ Tells(new, H \cup {Event(ib.counter, token, Len(ib.docs))})
               /\ new.docs = ib.docs
               /\ new.counter = ib.counter + 1
<1> DEFINE new == AddPostDirect(ib, token)
           term == token.term
           d == Len(ib.docs)
           e == Event(ib.counter, token, d)
           old == GetPostingList(ib, term)
           added == AddPost(old, token.dec, ib.counter)
           pl == Recounted(ib, token)
           F == H \cup {e}
<1>1. /\ ib \in Builders /\ H \subseteq EventT
      /\ \A x \in H : x.pos < ib.counter /\ x.term \in Keys(ib.dictionary)
      /\ \A t \in Terms : ListIs(GetPostingList(ib, t), Of(H, t), d)
  BY DEF Tells
<1>2. ib.counter \in Nat /\ d \in Nat
  BY <1>1, BuilderIs
<1>3. term \in Terms /\ token.dec \in Decs /\ token.dec # "end"
  BY DEF Token, Decs
<1>4. /\ e \in EventT /\ e.pos = ib.counter /\ e.term = term /\ e.dec = token.dec /\ e.doc = d
  BY <1>2, <1>3 DEF Event, EventT
<1>5. /\ pl \in ListT
      /\ pl.posts = added.posts /\ pl.seeks = added.seeks /\ pl.last = added.last
      /\ pl.occurrences = old.occurrences + 1
      /\ pl.numDocs = IF old.lastDoc = d THEN old.numDocs ELSE old.numDocs + 1
      /\ pl.lastDoc = d
  BY <1>1, RecountedIs
<1>6. new = Put(ib, term, pl)
  BY DirectIsPut
<1> HIDE DEF e, pl, new, d, term
<1>7. /\ new \in Builders
      /\ Keys(new.dictionary) = Keys(ib.dictionary) \cup {term}
      /\ new.docs = ib.docs
      /\ new.counter = ib.counter + 1
      /\ GetPostingList(new, term) = pl
      /\ \A u \in Terms : u # term => GetPostingList(new, u) = GetPostingList(ib, u)
  BY <1>1, <1>3, <1>5, <1>6, PutIs
<1>8. ListIs(old, Of(H, term), d)
  BY <1>1, <1>3
<1> HIDE DEF old
<1>9. old \in ListT /\ Counted(old, Of(H, term), d)
  BY <1>8 DEF ListIs
<1>10. PICK A : Positioned(old, A, Of(H, term))
  BY <1>8 DEF ListIs
<1>11. Of(F, term) = Of(H, term) \cup {e} /\ \A t \in Terms : t # term => Of(F, t) = Of(H, t)
  BY <1>4 DEF Of
<1>12. e \notin Of(H, term) /\ \A x \in Of(H, term) : x.pos < e.pos
  <2>1. \A x \in H : x.pos < e.pos /\ x.pos \in Nat
    BY <1>1, <1>4 DEF EventT
  <2>2. Of(H, term) \subseteq H
    BY DEF Of
  <2>3. e \notin H
    BY <2>1, <1>4, <1>2
  <2> QED BY <2>1, <2>2, <2>3
<1>13. Positioned(pl, Append(A, e.pos), Of(F, term))
  <2>1. Positioned(AddPost(old, e.dec, e.pos), Append(A, e.pos), Of(H, term) \cup {e})
    BY <1>4, <1>9, <1>10, <1>12, PostAdded
  <2>2. AddPost(old, e.dec, e.pos) = added
    BY <1>4
  <2> HIDE DEF added
  <2> QED BY <2>1, <2>2, <1>5, <1>11, PositionedSame
<1>14. Counted(pl, Of(F, term), d)
  <2>1. e.dec # "end" /\ e.doc = d
    BY <1>3, <1>4
  <2> HIDE DEF F, added
  <2>2. Counted(pl, Of(H, term) \cup {e}, d)
    BY <1>2, <1>5, <1>9, <1>12, <2>1, WordCounted
  <2> QED BY <2>2, <1>11
<1>15. ListIs(pl, Of(F, term), d)
  BY <1>5, <1>13, <1>14 DEF ListIs
<1>16. \A t \in Terms : ListIs(GetPostingList(new, t), Of(F, t), Len(new.docs))
  <2> TAKE t \in Terms
  <2> HIDE DEF F
  <2>1. Len(new.docs) = d
    BY <1>7 DEF d
  <2>2. CASE t = term
    BY <2>1, <2>2, <1>7, <1>15
  <2>3. CASE t # term
    BY <2>1, <2>3, <1>1, <1>7, <1>11
  <2> QED BY <2>2, <2>3
<1>17. \A x \in F : x.pos < new.counter /\ x.term \in Keys(new.dictionary)
  <2>1. \A x \in H : x.pos \in Nat
    BY <1>1 DEF EventT
  <2> QED BY <2>1, <1>1, <1>2, <1>4, <1>7
<1>18. F \subseteq EventT
  BY <1>1, <1>4
<1> HIDE DEF F
<1>19. Tells(new, F)
  BY <1>7, <1>16, <1>17, <1>18 DEF Tells
<1> QED BY <1>7, <1>19 DEF F, e, d, new

\* The words of a document are its events, one position after the other.
LEMMA TokensAdded ==
    ASSUME NEW ib, NEW H, Tells(ib, H), NEW tokens \in Seq(Token)
    PROVE  LET new == AddTokens(ib, tokens)
           IN  /\ Tells(new, H \cup EventsOf(ib.counter, tokens, Len(ib.docs), Len(tokens)))
               /\ new.docs = ib.docs
               /\ new.counter = ib.counter + Len(tokens)
<1> DEFINE N == Len(tokens)
           S == Builders
           c == ib.counter
           d == Len(ib.docs)
           step == [n \in 1 .. N |-> [x \in S |-> AddPostDirect(x, tokens[n])]]
           Body(g) == [n \in 0 .. N |-> IF n = 0 THEN ib ELSE AddPostDirect(g[n - 1], tokens[n])]
           after == CHOOSE g : g = Body(g)
<1>1. N \in Nat /\ \A n \in 1 .. N : tokens[n] \in Token
  OBVIOUS
<1>2. ib \in S /\ c \in Nat /\ d \in Nat
  <2>1. ib \in Builders
    BY DEF Tells
  <2> QED BY <2>1, BuilderIs
<1>3. AddTokens(ib, tokens) = after[N]
  BY Zenon DEF AddTokens
<1> HIDE DEF N, c, d
<1>4. \A n \in 1 .. N : \A x \in S : AddPostDirect(x, tokens[n]) \in S
  BY <1>1, DirectTyped
<1> HIDE DEF S
<1>5. step \in Steps(N, S)
  BY <1>4 DEF Steps
<1> HIDE DEF step
<1>6. PICK f : Leads(N, S, ib, step, f)
  BY <1>1, <1>2, <1>5, Recursion
<1>7. /\ f \in [0 .. N -> S]
      /\ f[0] = ib
      /\ \A n \in 1 .. N : f[n] = AddPostDirect(f[n - 1], tokens[n])
  <2>1. f \in [0 .. N -> S] /\ f[0] = ib /\ \A n \in 1 .. N : f[n] = step[n][f[n - 1]]
    BY <1>6 DEF Leads
  <2>2. \A n \in 1 .. N : n - 1 \in 0 .. N
    BY <1>1
  <2>3. \A n \in 1 .. N : f[n - 1] \in S
    BY <2>1, <2>2
  <2> QED BY <2>1, <2>3 DEF step
<1>8. f = Body(f)
  <2>1. \A n \in 0 .. N : f[n] = IF n = 0 THEN ib ELSE AddPostDirect(f[n - 1], tokens[n])
    <3> TAKE n \in 0 .. N
    <3>1. n # 0 => n \in 1 .. N
      BY <1>1
    <3> QED BY <3>1, <1>7
  <2>2. f = [n \in 0 .. N |-> f[n]]
    BY <1>7
  <2> QED BY <2>1, <2>2
<1>9. \E g : g = Body(g)
  BY <1>8
<1>10. after = Body(after)
  <2> HIDE DEF Body
  <2> QED BY <1>9
<1> HIDE DEF after
<1>11. /\ after[0] = ib
       /\ \A n \in 1 .. N : after[n] = AddPostDirect(after[n - 1], tokens[n])
  <2>1. \A n \in 0 .. N : after[n] = IF n = 0 THEN ib ELSE AddPostDirect(after[n - 1], tokens[n])
    BY <1>10
  <2>2. 0 \in 0 .. N /\ \A n \in 1 .. N : n \in 0 .. N /\ n # 0
    BY <1>1
  <2> QED BY <2>1, <2>2
<1> DEFINE P(x, n) == /\ Tells(x, H \cup EventsOf(c, tokens, d, n))
                      /\ x.docs = ib.docs
                      /\ x.counter = c + n
           D == {n \in 0 .. N : P(after[n], n)}
<1>12. 0 \in D
  <2>1. EventsOf(c, tokens, d, 0) = {}
    BY DEF EventsOf
  <2>2. c + 0 = ib.counter
    BY <1>2 DEF c
  <2>3. P(ib, 0)
    BY <2>1, <2>2
  <2> HIDE DEF P
  <2>4. P(after[0], 0)
    BY <2>3, <1>11
  <2> QED BY <2>4, <1>1
<1>13. \A n \in 1 .. N : n - 1 \in D => n \in D
  <2> TAKE n \in 1 .. N
  <2> HAVE n - 1 \in D
  <2> DEFINE x == after[n - 1]
             y == after[n]
             E == H \cup EventsOf(c, tokens, d, n - 1)
  <2>1. Tells(x, E) /\ x.docs = ib.docs /\ x.counter = c + (n - 1)
    OBVIOUS
  <2>2. y = AddPostDirect(x, tokens[n]) /\ tokens[n] \in Token
    BY <1>1, <1>11
  <2> HIDE DEF x, y, E
  <2> DEFINE e == Event(x.counter, tokens[n], Len(x.docs))
  <2>3. Tells(y, E \cup {e}) /\ y.docs = x.docs /\ y.counter = x.counter + 1
    BY <2>1, <2>2, DirectTells
  <2>4. e = Event(c + n - 1, tokens[n], d)
    <3>1. c + (n - 1) = c + n - 1
      BY <1>1, <1>2
    <3> QED BY <2>1, <3>1 DEF d
  <2> HIDE DEF e
  <2>5. E \cup {e} = H \cup EventsOf(c, tokens, d, n)
    <3>1. 1 .. n = (1 .. n - 1) \cup {n}
      BY <1>1
    <3>2. EventsOf(c, tokens, d, n) = EventsOf(c, tokens, d, n - 1) \cup {e}
      BY <3>1, <2>4 DEF EventsOf
    <3> QED BY <3>2 DEF E
  <2>6. y.counter = c + n
    BY <2>1, <2>3, <1>1, <1>2
  <2>7. P(y, n)
    BY <2>1, <2>3, <2>5, <2>6
  <2> HIDE DEF P
  <2> QED BY <2>7, <1>1 DEF y
<1>14. N \in D
  <2>1. 0 .. N \subseteq D
    <3> HIDE DEF D
    <3> QED BY <1>1, <1>12, <1>13, Induction
  <2>2. N \in 0 .. N
    BY <1>1
  <2> HIDE DEF D
  <2> QED BY <2>1, <2>2
<1>15. P(after[N], N)
  <2> HIDE DEF P
  <2> QED BY <1>14
<1> QED BY <1>3, <1>15 DEF N, c, d

LEMMA TokensTyped ==
    ASSUME NEW pg \in PageType
    PROVE  /\ Tokens(pg) \in Seq(Token)
           /\ pg.url \in Seq(Terms) /\ pg.title \in Seq(Terms) /\ pg.words \in Seq(Terms)
           /\ Len(pg.words) \in Nat /\ Len(Tokens(pg)) \in Nat
<1>1. /\ pg.url \in Seq(Terms) /\ pg.title \in Seq(Terms) /\ pg.words \in Seq(Terms)
      /\ pg.anchor \in Seq(Terms)
  BY DEF PageType
<1> DEFINE field(words, dec) == [i \in DOMAIN words |-> [term |-> words[i], dec |-> dec]]
<1>2. ASSUME NEW words \in Seq(Terms), NEW dec \in Decs
      PROVE  field(words, dec) \in Seq(Token)
  <2> DEFINE f == field(words, dec)
             n == Len(words)
  <2>1. n \in Nat /\ DOMAIN words = 1 .. n
    OBVIOUS
  <2>2. \A i \in 1 .. n : [term |-> words[i], dec |-> dec] \in Token
    BY DEF Token
  <2>3. f = [i \in 1 .. n |-> [term |-> words[i], dec |-> dec]]
    BY <2>1
  <2>4. \A i \in 1 .. n : f[i] \in Token
    BY <2>2, <2>3
  <2>5. f = [i \in 1 .. n |-> f[i]]
    BY <2>3
  <2> HIDE DEF f, n
  <2>6. f \in Seq(Token)
    BY <2>1, <2>4, <2>5
  <2> QED BY <2>6 DEF f
<1> DEFINE a == field(pg.url, "url")
           b == field(pg.title, "title")
           c == field(pg.words, "body")
           d == field(pg.anchor, "anchor")
<1>3. a \in Seq(Token) /\ b \in Seq(Token) /\ c \in Seq(Token) /\ d \in Seq(Token)
  <2>1. "url" \in Decs /\ "title" \in Decs /\ "body" \in Decs /\ "anchor" \in Decs
    BY DEF Decs
  <2> HIDE DEF field
  <2> QED BY <1>1, <1>2, <2>1
<1>4. Tokens(pg) = a \o b \o c \o d
  BY DEF Tokens
<1> HIDE DEF a, b, c, d
<1>5. Tokens(pg) \in Seq(Token)
  BY <1>3, <1>4
<1> QED BY <1>1, <1>5

-----------------------------------------------------------------------------
(* Documents that are added. *)

\* The ends of a document in the lists of its words.
EndsOf(end, tokens, doc) ==
    {[pos |-> end, term |-> tokens[i].term, dec |-> "end", doc |-> doc] : i \in 1 .. Len(tokens)}

DocumentOf(ib, pg) ==
    [start |-> ib.counter, end |-> ib.counter + Len(Tokens(pg)), url |-> pg.url,
     title |-> pg.title, bodyLength |-> Len(pg.words)]

LEMMA EndAdded ==
    ASSUME NEW pl, NEW E, NEW d \in Nat, ListIs(pl, E, d),
           NEW e \in EventT, e.dec = "end", e.doc = d, \A x \in E : x.pos < e.pos
    PROVE  ListIs(AddPost(pl, "end", e.pos), E \cup {e}, d + 1)
<1> DEFINE new == AddPost(pl, "end", e.pos)
<1>1. pl \in ListT /\ Counted(pl, E, d)
  BY DEF ListIs
<1>2. PICK A : Positioned(pl, A, E)
  BY DEF ListIs
<1>3. e.pos \in Nat
  BY DEF EventT
<1>4. /\ new \in ListT /\ new.numDocs = pl.numDocs
      /\ new.occurrences = pl.occurrences /\ new.lastDoc = pl.lastDoc
  <2>1. "end" \in Decs \cup {"end"}
    OBVIOUS
  <2> QED BY <1>1, <1>3, <2>1, PostTyped
<1>5. Positioned(new, Append(A, e.pos), E \cup {e})
  BY <1>1, <1>2, PostAdded
<1> HIDE DEF new
<1>6. Counted(new, E \cup {e}, d + 1)
  BY <1>1, <1>4, EndCounted
<1>7. ListIs(new, E \cup {e}, d + 1)
  BY <1>4, <1>5, <1>6 DEF ListIs
<1> QED BY <1>7 DEF new

LEMMA SameNext ==
    ASSUME NEW pl, NEW E, NEW d \in Nat, ListIs(pl, E, d)
    PROVE  ListIs(pl, E, d + 1)
<1>1. Counted(pl, E, d + 1)
  BY NextCounted DEF ListIs
<1> QED BY <1>1 DEF ListIs

\* A document that is added adds the events of its words, and an end for each of them.
LEMMA DocumentTells ==
    ASSUME NEW ib, NEW H, Tells(ib, H), NEW pg \in PageType
    PROVE  LET new == AddDocument(ib, pg)
               tokens == Tokens(pg)
               d == Len(ib.docs)
               end == ib.counter + Len(tokens)
           IN  /\ Tells(new, (H \cup EventsOf(ib.counter, tokens, d, Len(tokens))) \cup EndsOf(end, tokens, d))
               /\ new.docs = Append(ib.docs, DocumentOf(ib, pg))
               /\ new.counter = end + 1
<1> DEFINE new == AddDocument(ib, pg)
           tokens == Tokens(pg)
           d == Len(ib.docs)
           N == Len(tokens)
           end == ib.counter + N
           filled == AddTokens(ib, tokens)
           terms == {token.term : token \in Range(tokens)}
           G == H \cup EventsOf(ib.counter, tokens, d, N)
           ends == EndsOf(end, tokens, d)
           F == G \cup ends
           K == Keys(filled.dictionary)
           lists == [t \in K |-> IF t \in terms THEN AddPost(filled.lists[t], "end", filled.counter)
                                 ELSE filled.lists[t]]
           doc == DocumentOf(ib, pg)
<1>1. /\ tokens \in Seq(Token) /\ N \in Nat
      /\ pg.url \in Seq(Terms) /\ pg.title \in Seq(Terms) /\ Len(pg.words) \in Nat
  BY TokensTyped
<1>2. ib \in Builders /\ ib.counter \in Nat /\ d \in Nat /\ ib.docs \in Seq(DocT)
  <2>1. ib \in Builders
    BY DEF Tells
  <2> QED BY <2>1, BuilderIs
<1>3. Tells(filled, G) /\ filled.docs = ib.docs /\ filled.counter = end
  BY <1>1, TokensAdded
<1>4. /\ filled \in Builders /\ G \subseteq EventT
      /\ \A x \in G : x.pos < end /\ x.term \in K
      /\ \A t \in Terms : ListIs(GetPostingList(filled, t), Of(G, t), d)
  <2>1. d = Len(filled.docs)
    BY <1>3
  <2> HIDE DEF filled, G, d, end, K
  <2> QED BY <2>1, <1>3 DEF Tells, K
<1>5. /\ filled.dictionary \in TableT /\ Sound(filled.dictionary)
      /\ DOMAIN filled.lists = K /\ K \subseteq Terms
      /\ filled.lists \in [K -> ListT]
  BY <1>4, BuilderIs
<1>6. end \in Nat
  BY <1>1, <1>2
<1>7. terms \subseteq Terms /\ \A t : t \in terms <=> \E i \in 1 .. N : tokens[i].term = t
  <2>1. DOMAIN tokens = 1 .. N /\ \A i \in 1 .. N : tokens[i].term \in Terms
    <3>1. \A i \in 1 .. Len(tokens) : tokens[i] \in Token
      <4> HIDE DEF tokens
      <4> QED BY <1>1
    <3>2. DOMAIN tokens = 1 .. Len(tokens)
      <4> HIDE DEF tokens
      <4> QED BY <1>1
    <3> QED BY <3>1, <3>2 DEF Token
  <2> QED BY <2>1 DEF Range
<1>8. terms \subseteq K
  <2> SUFFICES ASSUME NEW t \in terms PROVE t \in K
    OBVIOUS
  <2>1. PICK i \in 1 .. N : tokens[i].term = t
    BY <1>7
  <2>2. Event(ib.counter + i - 1, tokens[i], d) \in G
    BY DEF EventsOf
  <2>3. Event(ib.counter + i - 1, tokens[i], d).term = t
    BY <2>1 DEF Event
  <2> HIDE DEF G, K
  <2> QED BY <2>2, <2>3, <1>4
<1>9. doc \in DocT
  BY <1>1, <1>2 DEF DocumentOf, DocT
<1>10. new = [filled EXCEPT !.lists = lists, !.docs = Append(ib.docs, doc), !.counter = end + 1]
  <2>1. new = [filled EXCEPT !.lists = [t \in DOMAIN filled.lists |->
                                           IF t \in terms THEN AddPost(filled.lists[t], "end", filled.counter)
                                           ELSE filled.lists[t]],
                             !.docs = Append(filled.docs, [start |-> ib.counter, end |-> filled.counter,
                                           url |-> pg.url, title |-> pg.title, bodyLength |-> Len(pg.words)]),
                             !.counter = filled.counter + 1]
    BY DEF AddDocument
  <2>2. doc = [start |-> ib.counter, end |-> filled.counter,
               url |-> pg.url, title |-> pg.title, bodyLength |-> Len(pg.words)]
    BY <1>3 DEF DocumentOf
  <2> HIDE DEF doc, filled, terms, K, end, new
  <2> QED BY <2>1, <2>2, <1>3, <1>5
<1> HIDE DEF filled, doc, new, terms, K
<1>11. \A t \in terms : /\ ListIs(filled.lists[t], Of(G, t), d)
                        /\ AddPost(filled.lists[t], "end", end) \in ListT
  <2> TAKE t \in terms
  <2>1. t \in Terms /\ t \in K
    BY <1>5, <1>8
  <2>2. GetPostingList(filled, t) = filled.lists[t]
    BY <2>1, <1>4, Got DEF K
  <2>3. filled.lists[t] \in ListT
    BY <2>1, <1>5
  <2>4. AddPost(filled.lists[t], "end", end) \in ListT
    BY <2>3, <1>6, PostTyped
  <2>5. ListIs(GetPostingList(filled, t), Of(G, t), d)
    BY <2>1, <1>4
  <2> QED BY <2>2, <2>4, <2>5
<1>12. lists \in [K -> ListT] /\ DOMAIN lists = K
  <2>1. \A t \in K : lists[t] \in ListT
    BY <1>3, <1>5, <1>11
  <2> QED BY <2>1
<1>13. \A t \in K : lists[t] = IF t \in terms THEN AddPost(filled.lists[t], "end", end) ELSE filled.lists[t]
  BY <1>3
<1> HIDE DEF lists
<1>14. /\ new.dictionary = filled.dictionary /\ new.lists = lists
       /\ new.docs = Append(ib.docs, doc) /\ new.counter = end + 1
       /\ new \in BuilderT
  <2>1. filled \in BuilderT
    BY <1>4 DEF Builders
  <2>2. lists \in UNION {[S -> ListT] : S \in SUBSET Terms}
    BY <1>5, <1>12
  <2> DEFINE docs == Append(ib.docs, doc)
             counter == end + 1
  <2>3. docs \in Seq(DocT) /\ counter \in Nat
    BY <1>2, <1>6, <1>9
  <2> HIDE DEF docs, counter
  <2>4. new = [filled EXCEPT !.lists = lists, !.docs = docs, !.counter = counter]
    BY <1>10 DEF docs, counter
  <2>5. /\ new.dictionary = filled.dictionary /\ new.lists = lists
        /\ new.docs = docs /\ new.counter = counter
        /\ new = [dictionary |-> filled.dictionary, lists |-> lists, docs |-> docs, counter |-> counter]
    BY <2>1, <2>4 DEF BuilderT
  <2>6. new \in BuilderT
    BY <2>2, <2>3, <2>5, <1>5 DEF BuilderT
  <2> QED BY <2>5, <2>6 DEF docs, counter
<1>15. new \in Builders
  BY <1>5, <1>12, <1>14 DEF Builders, K
<1>16. \A t \in Terms : GetPostingList(new, t) = IF t \in terms THEN AddPost(filled.lists[t], "end", end)
                                                 ELSE GetPostingList(filled, t)
  <2> TAKE t \in Terms
  <2>1. t \in K => GetPostingList(new, t) = lists[t] /\ GetPostingList(filled, t) = filled.lists[t]
    BY <1>4, <1>14, <1>15, Got DEF K
  <2>2. t \notin K => GetPostingList(new, t) = EmptyList /\ GetPostingList(filled, t) = EmptyList
    BY <1>4, <1>14, <1>15, Got DEF K
  <2> QED BY <2>1, <2>2, <1>8, <1>13
<1> DEFINE E(t) == [pos |-> end, term |-> t, dec |-> "end", doc |-> d]
<1>17. \A t \in Terms : /\ E(t) \in EventT /\ E(t).dec = "end" /\ E(t).doc = d /\ E(t).pos = end
                        /\ E(t).term = t
  BY <1>2, <1>6 DEF EventT
<1>18. ends = {E(t) : t \in terms}
  <2>1. ends = {E(tokens[i].term) : i \in 1 .. N}
    BY DEF EndsOf
  <2> HIDE DEF E, ends
  <2> QED BY <2>1, <1>7
<1> HIDE DEF E
<1>19. \A t \in terms : Of(F, t) = Of(G, t) \cup {E(t)}
  <2> HIDE DEF ends, G
  <2> QED BY <1>7, <1>17, <1>18 DEF Of
<1>20. \A t \in Terms : t \notin terms => Of(F, t) = Of(G, t)
  <2> HIDE DEF ends, G
  <2> QED BY <1>7, <1>17, <1>18 DEF Of
<1> HIDE DEF ends, end, d, G
<1>21. \A t \in Terms : ListIs(GetPostingList(new, t), Of(F, t), Len(new.docs))
  <2> TAKE t \in Terms
  <2>1. Len(new.docs) = d + 1
    BY <1>2, <1>9, <1>14 DEF d
  <2> HIDE DEF F
  <2>2. CASE t \in terms
    <3>1. ListIs(filled.lists[t], Of(G, t), d)
      BY <2>2, <1>11
    <3>2. \A x \in Of(G, t) : x.pos < E(t).pos
      BY <1>4, <1>17 DEF Of
    <3>3. ListIs(AddPost(filled.lists[t], "end", E(t).pos), Of(G, t) \cup {E(t)}, d + 1)
      BY <3>1, <3>2, <1>2, <1>17, EndAdded
    <3> QED BY <3>3, <2>1, <2>2, <1>16, <1>17, <1>19
  <2>3. CASE t \notin terms
    <3>1. ListIs(GetPostingList(filled, t), Of(G, t), d + 1)
      BY <1>2, <1>4, SameNext
    <3> QED BY <3>1, <2>1, <2>3, <1>16, <1>20
  <2> QED BY <2>2, <2>3
<1>22. \A x \in F : x.pos < new.counter /\ x.term \in Keys(new.dictionary)
  <2>1. \A x \in G : x.pos \in Nat
    BY <1>4 DEF EventT
  <2>2. \A x \in ends : x.pos = end /\ x.term \in K
    BY <1>7, <1>8, <1>17, <1>18
  <2>3. \A x \in G : x.pos < end + 1
    BY <2>1, <1>4, <1>6
  <2>4. end < end + 1
    BY <1>6
  <2> QED BY <2>2, <2>3, <2>4, <1>4, <1>14 DEF K
<1>23. F \subseteq EventT
  BY <1>4, <1>7, <1>17, <1>18
<1> HIDE DEF F
<1>24. Tells(new, F)
  BY <1>15, <1>21, <1>22, <1>23 DEF Tells
<1> QED BY <1>14, <1>24 DEF F, G, ends, end, d, new, doc

-----------------------------------------------------------------------------
(* Pages. *)

\* The documents of the first n pages.
Chronicle(docs, pages, n) ==
    /\ docs \in Seq(DocT)
    /\ Len(docs) = n
    /\ \A i \in 1 .. n : /\ docs[i].url = pages[i].url
                         /\ docs[i].title = pages[i].title
                         /\ docs[i].bodyLength = Len(pages[i].words)
                         /\ docs[i].end = docs[i].start + Len(Tokens(pages[i]))
    /\ \A i, j \in 1 .. n : i < j => docs[i].end < docs[j].start

Told(doc, pg, d) ==
    EventsOf(doc.start, Tokens(pg), d, Len(Tokens(pg))) \cup EndsOf(doc.end, Tokens(pg), d)

History(docs, pages, n) == UNION {Told(docs[i], pages[i], i - 1) : i \in 1 .. n}

BuiltFrom(ib, pages, n) ==
    /\ Chronicle(ib.docs, pages, n)
    /\ \A i \in 1 .. n : ib.docs[i].end < ib.counter
    /\ Tells(ib, History(ib.docs, pages, n))

LEMMA EmptyFrom ==
    ASSUME NEW pages
    PROVE  BuiltFrom(EmptyBuilder, pages, 0)
<1> DEFINE ib == EmptyBuilder
<1>1. /\ ib.dictionary = EmptyTable(FirstBuckets) /\ ib.docs = <<>> /\ ib.counter = 0
      /\ ib.lists = [t \in {} |-> EmptyList]
      /\ ib = [dictionary |-> EmptyTable(FirstBuckets), lists |-> [t \in {} |-> EmptyList],
               docs |-> <<>>, counter |-> 0]
  BY DEF EmptyBuilder
<1>2. /\ EmptyTable(FirstBuckets) \in TableT /\ Sound(EmptyTable(FirstBuckets))
      /\ Keys(EmptyTable(FirstBuckets)) = {}
  BY Limit, EmptyTableIs DEF TableT
<1> DEFINE lists == [t \in {} |-> EmptyList]
<1>3. lists \in UNION {[S -> ListT] : S \in SUBSET Terms} /\ DOMAIN lists = {}
  <2>1. lists \in [{} -> ListT] /\ {} \in SUBSET Terms
    OBVIOUS
  <2> HIDE DEF lists
  <2> QED BY <2>1
<1> HIDE DEF lists, ib
<1>4. ib \in BuilderT
  <2>1. <<>> \in Seq(DocT) /\ 0 \in Nat
    OBVIOUS
  <2>2. ib = [dictionary |-> EmptyTable(FirstBuckets), lists |-> lists, docs |-> <<>>, counter |-> 0]
    BY <1>1 DEF lists
  <2> QED BY <2>1, <2>2, <1>2, <1>3 DEF BuilderT
<1>5. ib \in Builders
  BY <1>1, <1>2, <1>3, <1>4 DEF Builders, lists
<1>6. \A t \in Terms : GetPostingList(ib, t) = EmptyList
  BY <1>1, <1>2, <1>5, Got
<1>7. History(ib.docs, pages, 0) = {}
  BY DEF History
<1>8. \A t \in Terms : Of({}, t) = {}
  BY DEF Of
<1>9. Len(ib.docs) = 0 /\ ib.docs \in Seq(DocT)
  BY <1>1
<1>10. Tells(ib, {})
  BY <1>5, <1>6, <1>8, <1>9, EmptyIs, 0 \in Nat DEF Tells
<1>11. Chronicle(ib.docs, pages, 0)
  <2>1. 1 .. 0 = {}
    OBVIOUS
  <2> QED BY <2>1, <1>9 DEF Chronicle
<1> QED BY <1>7, <1>10, <1>11 DEF BuiltFrom, ib

LEMMA DocumentFrom ==
    ASSUME NEW pages \in Seq(PageType), NEW n \in 1 .. Len(pages), NEW ib,
           BuiltFrom(ib, pages, n - 1)
    PROVE  BuiltFrom(AddDocument(ib, pages[n]), pages, n)
<1> DEFINE pg == pages[n]
           new == AddDocument(ib, pg)
           doc == DocumentOf(ib, pg)
           H == History(ib.docs, pages, n - 1)
           N == Len(Tokens(pg))
<1>1. pg \in PageType /\ n \in Nat /\ n - 1 \in Nat
  OBVIOUS
<1>2. /\ Chronicle(ib.docs, pages, n - 1)
      /\ \A i \in 1 .. n - 1 : ib.docs[i].end < ib.counter
      /\ Tells(ib, H)
  BY DEF BuiltFrom
<1>3. /\ ib.docs \in Seq(DocT) /\ Len(ib.docs) = n - 1
      /\ \A i \in 1 .. n - 1 :
             /\ ib.docs[i].url = pages[i].url
             /\ ib.docs[i].title = pages[i].title
             /\ ib.docs[i].bodyLength = Len(pages[i].words)
             /\ ib.docs[i].end = ib.docs[i].start + Len(Tokens(pages[i]))
      /\ \A i, j \in 1 .. n - 1 : i < j => ib.docs[i].end < ib.docs[j].start
  BY <1>2 DEF Chronicle
<1>4. ib \in Builders /\ ib.counter \in Nat
  <2>1. ib \in Builders
    BY <1>2 DEF Tells
  <2> QED BY <2>1, BuilderIs
<1>5. N \in Nat /\ pg.url \in Seq(Terms) /\ pg.title \in Seq(Terms) /\ Len(pg.words) \in Nat
  BY <1>1, TokensTyped
<1> HIDE DEF pg
<1>6. /\ Tells(new, (H \cup EventsOf(ib.counter, Tokens(pg), n - 1, N))
                       \cup EndsOf(ib.counter + N, Tokens(pg), n - 1))
      /\ new.docs = Append(ib.docs, doc)
      /\ new.counter = ib.counter + N + 1
  BY <1>1, <1>2, <1>3, DocumentTells
<1>7. /\ doc.start = ib.counter /\ doc.end = ib.counter + N /\ doc.url = pg.url
      /\ doc.title = pg.title /\ doc.bodyLength = Len(pg.words) /\ doc \in DocT
  BY <1>4, <1>5 DEF DocumentOf, DocT
<1> HIDE DEF new, doc, N, H
<1>8. /\ new.docs \in Seq(DocT) /\ Len(new.docs) = n
      /\ \A i \in 1 .. n - 1 : new.docs[i] = ib.docs[i]
      /\ new.docs[n] = doc
  <2>1. (n - 1) + 1 = n
    BY <1>1
  <2> QED BY <2>1, <1>3, <1>6, <1>7
<1>9. \A i \in 1 .. n : i \in 1 .. n - 1 \/ i = n
  BY <1>1
<1>10. Chronicle(new.docs, pages, n)
  <2>1. \A i \in 1 .. n : /\ new.docs[i].url = pages[i].url
                          /\ new.docs[i].title = pages[i].title
                          /\ new.docs[i].bodyLength = Len(pages[i].words)
                          /\ new.docs[i].end = new.docs[i].start + Len(Tokens(pages[i]))
    <3> TAKE i \in 1 .. n
    <3>1. CASE i = n
      BY <3>1, <1>7, <1>8 DEF pg, N
    <3>2. CASE i \in 1 .. n - 1
      BY <3>2, <1>3, <1>8
    <3> QED BY <3>1, <3>2, <1>9
  <2>2. \A i, j \in 1 .. n : i < j => new.docs[i].end < new.docs[j].start
    <3> TAKE i, j \in 1 .. n
    <3> HAVE i < j
    <3>1. i \in 1 .. n - 1
      BY <1>1
    <3>2. CASE j = n
      BY <3>1, <3>2, <1>2, <1>7, <1>8
    <3>3. CASE j \in 1 .. n - 1
      BY <3>1, <3>3, <1>3, <1>8
    <3> QED BY <3>2, <3>3, <1>9
  <2> QED BY <2>1, <2>2, <1>8 DEF Chronicle
<1>11. \A i \in 1 .. n : new.docs[i].end < new.counter
  <2> TAKE i \in 1 .. n
  <2>1. CASE i = n
    <3> DEFINE p == ib.counter + N
    <3>1. p \in Nat /\ doc.end = p /\ new.counter = p + 1
      BY <1>4, <1>5, <1>6, <1>7
    <3> HIDE DEF p
    <3>2. p < p + 1
      BY <3>1
    <3> QED BY <2>1, <3>1, <3>2, <1>8
  <2>2. CASE i \in 1 .. n - 1
    <3> DEFINE p == ib.docs[i].end
               c == ib.counter
    <3>1. p < c /\ new.docs[i].end = p /\ new.counter = c + N + 1 /\ c \in Nat /\ N \in Nat
      BY <2>2, <1>2, <1>4, <1>5, <1>6, <1>8
    <3>2. p \in Nat
      <4>1. ib.docs[i] \in DocT
        BY <2>2, <1>3
      <4> QED BY <4>1 DEF DocT
    <3> HIDE DEF p, c
    <3>3. p < c + N + 1
      BY <3>1, <3>2
    <3> QED BY <3>1, <3>3
  <2> QED BY <2>1, <2>2, <1>9
<1>12. (H \cup EventsOf(ib.counter, Tokens(pg), n - 1, N)) \cup EndsOf(ib.counter + N, Tokens(pg), n - 1)
           = History(new.docs, pages, n)
  <2>1. Told(new.docs[n], pages[n], n - 1) =
            EventsOf(ib.counter, Tokens(pg), n - 1, N) \cup EndsOf(ib.counter + N, Tokens(pg), n - 1)
    BY <1>7, <1>8 DEF Told, pg, N
  <2>2. \A i \in 1 .. n - 1 : Told(new.docs[i], pages[i], i - 1) = Told(ib.docs[i], pages[i], i - 1)
    BY <1>8
  <2>3. 1 .. n = (1 .. n - 1) \cup {n}
    BY <1>1
  <2> DEFINE A == Told(new.docs[n], pages[n], n - 1)
  <2>4. History(new.docs, pages, n) = (UNION {Told(new.docs[i], pages[i], i - 1) : i \in 1 .. n - 1}) \cup A
    BY <2>3 DEF History
  <2>5. UNION {Told(new.docs[i], pages[i], i - 1) : i \in 1 .. n - 1} = H
    BY <2>2 DEF H, History
  <2> HIDE DEF A
  <2> QED BY <2>1, <2>4, <2>5 DEF A
<1>13. Tells(new, History(new.docs, pages, n))
  BY <1>6, <1>12
<1> QED BY <1>10, <1>11, <1>13 DEF BuiltFrom, new, pg

\* The builder has the documents of the pages, and of each what happened.
LEMMA DocumentsFrom ==
    ASSUME NEW pages \in Seq(PageType)
    PROVE  BuiltFrom(AddDocuments(pages), pages, Len(pages))
<1> DEFINE N == Len(pages)
           S == Builders
           base == EmptyBuilder
           step == [n \in 1 .. N |-> [x \in S |-> IF AddDocument(x, pages[n]) \in S
                                                  THEN AddDocument(x, pages[n]) ELSE x]]
           Body(g) == [n \in 0 .. N |-> IF n = 0 THEN base ELSE AddDocument(g[n - 1], pages[n])]
           after == CHOOSE g : g = Body(g)
           P(x, n) == BuiltFrom(x, pages, n)
<1>1. N \in Nat
  OBVIOUS
<1>2. \A n \in 1 .. N : \A x : P(x, n - 1) => P(AddDocument(x, pages[n]), n)
  BY DocumentFrom
<1>3. AddDocuments(pages) = after[N]
  BY Zenon DEF AddDocuments
<1>4. P(base, 0)
  BY EmptyFrom
<1>5. \A x, n : P(x, n) => x \in S
  BY DEF BuiltFrom, Tells
<1>6. base \in S
  BY <1>4, <1>5
<1> HIDE DEF N, S, base, P
<1>7. step \in Steps(N, S)
  BY DEF Steps
<1> HIDE DEF step
<1>8. PICK f : Leads(N, S, base, step, f)
  BY <1>1, <1>6, <1>7, Recursion
<1>9. f \in [0 .. N -> S] /\ f[0] = base /\ \A n \in 1 .. N : f[n] = step[n][f[n - 1]]
  BY <1>8 DEF Leads
<1>10. \A n \in 1 .. N : P(f[n - 1], n - 1) => f[n] = AddDocument(f[n - 1], pages[n]) /\ P(f[n], n)
  <2> TAKE n \in 1 .. N
  <2> HAVE P(f[n - 1], n - 1)
  <2>1. n - 1 \in 0 .. N
    BY <1>1
  <2>2. f[n - 1] \in S
    BY <2>1, <1>9
  <2>3. P(AddDocument(f[n - 1], pages[n]), n)
    BY <1>2
  <2>4. AddDocument(f[n - 1], pages[n]) \in S
    BY <2>3, <1>5
  <2>5. f[n] = AddDocument(f[n - 1], pages[n])
    BY <2>2, <2>4, <1>9 DEF step
  <2> QED BY <2>3, <2>5
<1> DEFINE D == {n \in 0 .. N : P(f[n], n)}
<1>11. 0 .. N \subseteq D
  <2>1. 0 \in D
    BY <1>1, <1>4, <1>9
  <2>2. \A n \in 1 .. N : n - 1 \in D => n \in D
    BY <1>1, <1>10
  <2> HIDE DEF D
  <2> QED BY <1>1, <2>1, <2>2, Induction
<1>12. \A n \in 1 .. N : f[n] = AddDocument(f[n - 1], pages[n])
  <2> TAKE n \in 1 .. N
  <2>1. n - 1 \in 0 .. N
    BY <1>1
  <2> QED BY <2>1, <1>10, <1>11
<1>13. f = Body(f)
  <2>1. \A n \in 0 .. N : f[n] = IF n = 0 THEN base ELSE AddDocument(f[n - 1], pages[n])
    <3> TAKE n \in 0 .. N
    <3>1. n # 0 => n \in 1 .. N
      BY <1>1
    <3> QED BY <3>1, <1>9, <1>12
  <2>2. f = [n \in 0 .. N |-> f[n]]
    BY <1>9
  <2> QED BY <2>1, <2>2
<1>14. \E g : g = Body(g)
  BY <1>13
<1>15. after = Body(after)
  <2> HIDE DEF Body
  <2> QED BY <1>14
<1> HIDE DEF after
<1>16. /\ after[0] = base
       /\ \A n \in 1 .. N : after[n] = AddDocument(after[n - 1], pages[n])
  <2>1. \A n \in 0 .. N : after[n] = IF n = 0 THEN base ELSE AddDocument(after[n - 1], pages[n])
    BY <1>15
  <2>2. 0 \in 0 .. N /\ \A n \in 1 .. N : n \in 0 .. N /\ n # 0
    BY <1>1
  <2> QED BY <2>1, <2>2
<1> DEFINE C == {n \in 0 .. N : P(after[n], n)}
<1>17. 0 .. N \subseteq C
  <2>1. 0 \in C
    BY <1>1, <1>4, <1>16
  <2>2. \A n \in 1 .. N : n - 1 \in C => n \in C
    BY <1>1, <1>2, <1>16
  <2> HIDE DEF C
  <2> QED BY <1>1, <2>1, <2>2, Induction
<1>18. N \in 0 .. N
  BY <1>1
<1>19. P(after[N], N)
  BY <1>17, <1>18
<1> QED BY <1>3, <1>19 DEF P, N

\* Rebuilding the table changes nothing that the builder tells.
LEMMA BuiltIs ==
    ASSUME NEW pages \in Seq(PageType)
    PROVE  BuiltFrom(Built(pages), pages, Len(pages))
<1> DEFINE ib == AddDocuments(pages)
           new == Built(pages)
           table == Optimize(ib.dictionary, 3)
<1>1. BuiltFrom(ib, pages, Len(pages))
  BY DocumentsFrom
<1> DEFINE H == History(ib.docs, pages, Len(pages))
<1>2. Tells(ib, H)
  BY <1>1 DEF BuiltFrom
<1>3. new = [ib EXCEPT !.dictionary = table]
  BY DEF Built, Finalized
<1> HIDE DEF ib, new, H
<1>4. /\ ib \in Builders /\ H \subseteq EventT
      /\ \A e \in H : e.pos < ib.counter /\ e.term \in Keys(ib.dictionary)
      /\ \A t \in Terms : ListIs(GetPostingList(ib, t), Of(H, t), Len(ib.docs))
  BY <1>2 DEF Tells
<1>5. ib \in BuilderT /\ ib.dictionary \in TableT /\ Sound(ib.dictionary) /\ DOMAIN ib.lists = Keys(ib.dictionary)
  BY <1>4, BuilderIs DEF Builders
<1>6. table \in TableT /\ Sound(table) /\ Keys(table) = Keys(ib.dictionary)
  BY <1>5, OptimizeIs
<1> HIDE DEF table
<1>7. /\ new.dictionary = table /\ new.lists = ib.lists /\ new.docs = ib.docs /\ new.counter = ib.counter
      /\ new \in BuilderT
  BY <1>3, <1>5, <1>6 DEF BuilderT
<1>8. new \in Builders
  BY <1>5, <1>6, <1>7 DEF Builders
<1>9. \A t \in Terms : GetPostingList(new, t) = GetPostingList(ib, t)
  BY <1>4, <1>6, <1>7, <1>8, Got
<1>10. Tells(new, H)
  BY <1>4, <1>6, <1>7, <1>8, <1>9 DEF Tells
<1> QED BY <1>1, <1>7, <1>10 DEF BuiltFrom, H, new

-----------------------------------------------------------------------------
(* The chains of a dictionary. *)

LEMMA NumBucketsIs ==
    ASSUME NEW n \in Nat
    PROVE  NumBuckets(n) \in Nat \ {0}
<1> DEFINE S == Nat \ {0}
           F(x) == IF x >= 2 * n THEN x ELSE 2 * x
           step == [k \in 1 .. n |-> [x \in S |-> F(x)]]
           Body(g) == [k \in 0 .. n |-> IF k = 0 THEN MinBuckets
                                        ELSE IF g[k - 1] >= 2 * n THEN g[k - 1] ELSE 2 * g[k - 1]]
           after == CHOOSE g : g = Body(g)
<1>1. \A x \in S : F(x) \in S
  OBVIOUS
<1>2. MinBuckets \in S
  BY Limit
<1>3. NumBuckets(n) = after[n]
  BY Zenon DEF NumBuckets
<1>4. step \in Steps(n, S)
  <2> HIDE DEF F, S
  <2> QED BY <1>1 DEF Steps
<1> HIDE DEF step
<1>5. PICK f : Leads(n, S, MinBuckets, step, f)
  <2> HIDE DEF S
  <2> QED BY <1>2, <1>4, Recursion
<1>6. f \in [0 .. n -> S] /\ f[0] = MinBuckets /\ \A k \in 1 .. n : f[k] = step[k][f[k - 1]]
  <2> HIDE DEF S
  <2> QED BY <1>5 DEF Leads
<1>7. \A k \in 1 .. n : f[k] = F(f[k - 1])
  <2> TAKE k \in 1 .. n
  <2>1. k - 1 \in 0 .. n
    OBVIOUS
  <2>2. f[k - 1] \in S
    BY <2>1, <1>6
  <2> HIDE DEF F, S
  <2> QED BY <2>2, <1>6 DEF step
<1>8. f = Body(f)
  <2>1. \A k \in 0 .. n : f[k] = IF k = 0 THEN MinBuckets ELSE F(f[k - 1])
    <3> TAKE k \in 0 .. n
    <3>1. k # 0 => k \in 1 .. n
      OBVIOUS
    <3> HIDE DEF F
    <3> QED BY <3>1, <1>6, <1>7
  <2>2. f = [k \in 0 .. n |-> f[k]]
    BY <1>6
  <2> QED BY <2>1, <2>2
<1>9. \E g : g = Body(g)
  BY <1>8
<1>10. after = Body(after)
  <2> HIDE DEF Body
  <2> QED BY <1>9
<1> HIDE DEF after
<1>11. after[0] = MinBuckets /\ \A k \in 1 .. n : after[k] = F(after[k - 1])
  <2>1. \A k \in 0 .. n : after[k] = IF k = 0 THEN MinBuckets ELSE F(after[k - 1])
    BY <1>10
  <2>2. 0 \in 0 .. n /\ \A k \in 1 .. n : k \in 0 .. n /\ k # 0
    OBVIOUS
  <2> HIDE DEF F
  <2> QED BY <2>1, <2>2
<1> DEFINE D == {k \in 0 .. n : after[k] \in S}
<1>12. 0 .. n \subseteq D
  <2> HIDE DEF F, S
  <2>1. 0 \in D
    BY <1>2, <1>11
  <2>2. \A k \in 1 .. n : k - 1 \in D => k \in D
    BY <1>1, <1>11
  <2> HIDE DEF D
  <2> QED BY <2>1, <2>2, Induction
<1>13. n \in 0 .. n
  OBVIOUS
<1>14. after[n] \in S
  BY <1>12, <1>13
<1> QED BY <1>3, <1>14

\* Chains of the numbers of n entries.
ChainT(n, buckets) == [0 .. buckets - 1 -> Seq(1 .. n)]

\* Each of the first n entries is in the chain of its hash, and there once.
ChainsAs(chains, entries, buckets, n) ==
    /\ \A b \in 0 .. buckets - 1 : \A i \in 1 .. Len(chains[b]) :
          /\ chains[b][i] \in 1 .. n
          /\ Hash[entries[chains[b][i]]] % buckets = b
          /\ \A j \in 1 .. Len(chains[b]) : chains[b][i] = chains[b][j] => i = j
    /\ \A m \in 1 .. n : \E i \in 1 .. Len(chains[Hash[entries[m]] % buckets]) :
          chains[Hash[entries[m]] % buckets][i] = m

Linked(x, entries, buckets, n) == [x EXCEPT ![Hash[entries[n]] % buckets] = Append(@, n)]

LEMMA ChainsStep ==
    ASSUME NEW entries \in Seq(Terms), NEW buckets \in Nat \ {0},
           NEW n \in 1 .. Len(entries), NEW x \in ChainT(Len(entries), buckets)
    PROVE  /\ Linked(x, entries, buckets, n) \in ChainT(Len(entries), buckets)
           /\ ChainsAs(x, entries, buckets, n - 1)
                => ChainsAs(Linked(x, entries, buckets, n), entries, buckets, n)
<1> DEFINE N == Len(entries)
           s == Hash[entries[n]] % buckets
           old == x[s]
           chain == Append(old, n)
           new == Linked(x, entries, buckets, n)
<1>1. N \in Nat /\ n \in 1 .. N /\ entries[n] \in Terms /\ n - 1 \in Nat
  OBVIOUS
<1>2. s \in 0 .. buckets - 1
  BY <1>1, HashOf
<1>3. x \in [0 .. buckets - 1 -> Seq(1 .. N)]
  BY DEF ChainT
<1> HIDE DEF N
<1>4. old \in Seq(1 .. N)
  BY <1>2, <1>3
<1>5. new = [x EXCEPT ![s] = chain]
  BY DEF Linked
<1> HIDE DEF s, new, old
<1>6. chain \in Seq(1 .. N) /\ Len(chain) = Len(old) + 1 /\ chain[Len(old) + 1] = n
      /\ \A i \in 1 .. Len(old) : chain[i] = old[i]
  BY <1>1, <1>4
<1>7. Len(old) \in Nat
  BY <1>4
<1> DEFINE l == Len(old)
<1> HIDE DEF chain, l
<1>8. new \in [0 .. buckets - 1 -> Seq(1 .. N)] /\ new[s] = chain
      /\ \A b \in 0 .. buckets - 1 : b # s => new[b] = x[b]
  BY <1>2, <1>3, <1>5, <1>6
<1>9. ASSUME ChainsAs(x, entries, buckets, n - 1)
      PROVE  ChainsAs(new, entries, buckets, n)
  <2>1. \A b \in 0 .. buckets - 1 : \A i \in 1 .. Len(x[b]) :
          /\ x[b][i] \in 1 .. n - 1
          /\ Hash[entries[x[b][i]]] % buckets = b
          /\ \A j \in 1 .. Len(x[b]) : x[b][i] = x[b][j] => i = j
    BY <1>9 DEF ChainsAs
  <2>2. \A m \in 1 .. n - 1 : \E i \in 1 .. Len(x[Hash[entries[m]] % buckets]) :
          x[Hash[entries[m]] % buckets][i] = m
    BY <1>9 DEF ChainsAs
  <2>3. \A m \in 1 .. n - 1 : m \in 1 .. n /\ m # n
    BY <1>1
  <2>4. \A i \in 1 .. l : /\ chain[i] = old[i] /\ old[i] \in 1 .. n - 1 /\ Hash[entries[old[i]]] % buckets = s
                          /\ \A j \in 1 .. l : old[i] = old[j] => i = j
    BY <2>1, <1>2, <1>6 DEF old, l
  <2>5. Len(chain) = l + 1 /\ chain[l + 1] = n /\ l \in Nat
    BY <1>6, <1>7 DEF l
  <2>6. \A i \in 1 .. l + 1 : i \in 1 .. l \/ i = l + 1
    BY <2>5
  <2>7. ASSUME NEW b \in 0 .. buckets - 1, NEW i \in 1 .. Len(new[b])
        PROVE  /\ new[b][i] \in 1 .. n
               /\ Hash[entries[new[b][i]]] % buckets = b
               /\ \A j \in 1 .. Len(new[b]) : new[b][i] = new[b][j] => i = j
    <3>1. CASE b # s
      BY <3>1, <2>1, <2>3, <2>7, <1>8
    <3>2. CASE b = s
      <4>1. new[b] = chain /\ i \in 1 .. l + 1
        BY <3>2, <2>5, <2>7, <1>8
      <4>2. CASE i = l + 1
        <5>1. chain[i] = n /\ n \in 1 .. n
          BY <4>2, <2>5, <1>1
        <5>2. \A j \in 1 .. l + 1 : chain[j] = n => j = l + 1
          BY <2>3, <2>4, <2>6
        <5>3. Hash[entries[chain[i]]] % buckets = b
          BY <5>1, <3>2 DEF s
        <5>4. \A j \in 1 .. l + 1 : chain[i] = chain[j] => i = j
          BY <5>1, <5>2, <4>2
        <5> QED BY <5>1, <5>3, <5>4, <4>1, <2>5
      <4>3. CASE i \in 1 .. l
        <5>1. chain[i] = old[i] /\ chain[i] \in 1 .. n - 1
          BY <4>3, <2>4
        <5>2. \A j \in 1 .. l + 1 : chain[i] = chain[j] => i = j
          BY <5>1, <4>3, <2>3, <2>4, <2>5, <2>6
        <5>3. Hash[entries[chain[i]]] % buckets = b
          BY <5>1, <4>3, <3>2, <2>4
        <5> QED BY <5>1, <5>2, <5>3, <4>1, <2>3, <2>5
      <4> QED BY <4>1, <4>2, <4>3, <2>6
    <3> QED BY <3>1, <3>2
  <2>8. ASSUME NEW m \in 1 .. n
        PROVE  \E i \in 1 .. Len(new[Hash[entries[m]] % buckets]) : new[Hash[entries[m]] % buckets][i] = m
    <3>1. CASE m = n
      <4>1. Hash[entries[m]] % buckets = s
        BY <3>1 DEF s
      <4>2. l + 1 \in 1 .. Len(chain) /\ chain[l + 1] = m
        BY <3>1, <2>5
      <4> QED BY <4>1, <4>2, <1>8
    <3>2. CASE m # n
      <4>1. m \in 1 .. n - 1
        BY <3>2, <1>1
      <4> DEFINE b == Hash[entries[m]] % buckets
      <4>2. PICK i \in 1 .. Len(x[b]) : x[b][i] = m
        BY <4>1, <2>2
      <4>3. b \in 0 .. buckets - 1
        <5>1. m \in 1 .. Len(entries)
          BY <1>1 DEF N
        <5>2. entries[m] \in Terms
          BY <5>1
        <5> QED BY <5>2, HashOf
      <4> HIDE DEF b
      <4>4. CASE b # s
        BY <4>2, <4>3, <4>4, <1>8 DEF b
      <4>5. CASE b = s
        <5>1. x[b] = old /\ new[b] = chain
          BY <4>5, <1>8 DEF old
        <5>2. i \in 1 .. l /\ old[i] = m
          BY <4>2, <5>1 DEF l
        <5>3. i \in 1 .. Len(chain) /\ chain[i] = m
          BY <5>2, <2>4, <2>5
        <5> QED BY <5>1, <5>3 DEF b
      <4> QED BY <4>4, <4>5
    <3> QED BY <3>1, <3>2
  <2> QED BY <2>7, <2>8 DEF ChainsAs
<1> QED BY <1>8, <1>9 DEF ChainT, new, N

LEMMA ChainsAre ==
    ASSUME NEW entries \in Seq(Terms), NEW buckets \in Nat \ {0}
    PROVE  /\ Chains(entries, buckets) \in ChainT(Len(entries), buckets)
           /\ ChainsAs(Chains(entries, buckets), entries, buckets, Len(entries))
<1> DEFINE N == Len(entries)
           S == ChainT(N, buckets)
           base == EmptyTable(buckets)
           F(x, n) == Linked(x, entries, buckets, n)
           step == [n \in 1 .. N |-> [x \in S |-> F(x, n)]]
           Body(g) == [n \in 0 .. N |-> IF n = 0 THEN base
                          ELSE [g[n - 1] EXCEPT ![Hash[entries[n]] % buckets] = Append(@, n)]]
           after == CHOOSE g : g = Body(g)
           Q(x, n) == ChainsAs(x, entries, buckets, n)
<1>1. N \in Nat
  OBVIOUS
<1>2. \A n \in 1 .. N : \A x \in S : F(x, n) \in S /\ (Q(x, n - 1) => Q(F(x, n), n))
  <2> TAKE n \in 1 .. N
  <2> TAKE x \in S
  <2> QED BY ChainsStep
<1>3. base \in S /\ Q(base, 0)
  <2>1. base \in [0 .. buckets - 1 -> Seq(1 .. N)] /\ \A b \in 0 .. buckets - 1 : base[b] = <<>>
    BY DEF EmptyTable
  <2> HIDE DEF base
  <2>2. \A b \in 0 .. buckets - 1 : 1 .. Len(base[b]) = {}
    BY <2>1
  <2>3. 1 .. 0 = {}
    OBVIOUS
  <2> QED BY <2>1, <2>2, <2>3 DEF ChainT, ChainsAs
<1>4. Chains(entries, buckets) = after[N]
  BY Zenon DEF Chains
<1>5. \A g : Body(g) = [n \in 0 .. N |-> IF n = 0 THEN base ELSE F(g[n - 1], n)]
  BY DEF Linked
<1> HIDE DEF N, S, base, F, Q, Body
<1>6. step \in Steps(N, S)
  BY <1>2 DEF Steps
<1> HIDE DEF step
<1>7. PICK f : Leads(N, S, base, step, f)
  BY <1>1, <1>3, <1>6, Recursion
<1>8. f \in [0 .. N -> S] /\ f[0] = base /\ \A n \in 1 .. N : f[n] = F(f[n - 1], n)
  <2>1. f \in [0 .. N -> S] /\ f[0] = base /\ \A n \in 1 .. N : f[n] = step[n][f[n - 1]]
    BY <1>7 DEF Leads
  <2>2. \A n \in 1 .. N : n - 1 \in 0 .. N
    BY <1>1
  <2>3. \A n \in 1 .. N : f[n - 1] \in S
    BY <2>1, <2>2
  <2> QED BY <2>1, <2>3 DEF step
<1>9. f = Body(f)
  <2>1. \A n \in 0 .. N : f[n] = IF n = 0 THEN base ELSE F(f[n - 1], n)
    <3> TAKE n \in 0 .. N
    <3>1. n # 0 => n \in 1 .. N
      BY <1>1
    <3> QED BY <3>1, <1>8
  <2>2. f = [n \in 0 .. N |-> f[n]]
    BY <1>8
  <2> QED BY <2>1, <2>2, <1>5
<1>10. \E g : g = Body(g)
  BY <1>9
<1>11. after = Body(after)
  BY <1>10
<1> HIDE DEF after
<1>12. after[0] = base /\ \A n \in 1 .. N : after[n] = F(after[n - 1], n)
  <2>1. \A n \in 0 .. N : after[n] = IF n = 0 THEN base ELSE F(after[n - 1], n)
    BY <1>5, <1>11
  <2>2. 0 \in 0 .. N /\ \A n \in 1 .. N : n \in 0 .. N /\ n # 0
    BY <1>1
  <2> QED BY <2>1, <2>2
<1> DEFINE D == {n \in 0 .. N : after[n] \in S /\ Q(after[n], n)}
<1>13. 0 .. N \subseteq D
  <2>1. 0 \in D
    BY <1>1, <1>3, <1>12
  <2>2. \A n \in 1 .. N : n - 1 \in D => n \in D
    BY <1>1, <1>2, <1>12
  <2> HIDE DEF D
  <2> QED BY <1>1, <2>1, <2>2, Induction
<1>14. N \in 0 .. N
  BY <1>1
<1>15. after[N] \in S /\ Q(after[N], N)
  BY <1>13, <1>14
<1> QED BY <1>4, <1>15 DEF S, Q, N

-----------------------------------------------------------------------------
(* The links of a dictionary, and the walk along them. *)

LEMMA NoneIn ==
    ASSUME NEW T, NEW s \in Seq(T)
    PROVE  Len(s) \in Nat /\ (s = <<>> <=> Len(s) = 0)
OBVIOUS

\* A chain stands in the links after place k, and then a zero.
Run(links, c, k) ==
    /\ k + Len(c) + 1 <= Len(links)
    /\ \A j \in 1 .. Len(c) : links[k + j] = c[j]
    /\ links[k + Len(c) + 1] = 0

LinksAs(links, chains, buckets, n) ==
    /\ links \in Seq(0 .. n)
    /\ \A b \in 0 .. buckets - 1 : chains[b] # <<>> => \E k \in Nat : Run(links, chains[b], k)
    /\ \A p \in 1 .. Len(links) : links[p] # 0 => p < Len(links)
    /\ \A p, q \in 1 .. Len(links) : links[p] # 0 /\ links[p] = links[q] => p = q

LEMMA LinksAre ==
    ASSUME NEW n \in Nat, NEW buckets \in Nat \ {0}, NEW entries,
           NEW chains \in ChainT(n, buckets), ChainsAs(chains, entries, buckets, n)
    PROVE  LinksAs(Links(chains, buckets), chains, buckets, n)
<1> DEFINE seqs == [i \in 1 .. buckets |-> IF chains[i - 1] = <<>> THEN <<>> ELSE Append(chains[i - 1], 0)]
           links == FlattenSeq(seqs)
           T == 0 .. n
           at == Laid(0, Lens(seqs))
           W(i) == Len(chains[i - 1])
<1>1. chains \in [0 .. buckets - 1 -> Seq(1 .. n)]
  BY DEF ChainT
<1>2. \A b \in 0 .. buckets - 1 : \A i \in 1 .. Len(chains[b]) :
          /\ chains[b][i] \in 1 .. n
          /\ Hash[entries[chains[b][i]]] % buckets = b
          /\ \A j \in 1 .. Len(chains[b]) : chains[b][i] = chains[b][j] => i = j
  BY DEF ChainsAs
<1>3. Links(chains, buckets) = links
  BY Zenon DEF Links
<1>4. \A i \in 1 .. buckets : /\ i - 1 \in 0 .. buckets - 1
                              /\ W(i) \in Nat
                              /\ chains[i - 1] = <<>> <=> W(i) = 0
                              /\ chains[i - 1] \in Seq(1 .. n)
  <2> TAKE i \in 1 .. buckets
  <2>1. i - 1 \in 0 .. buckets - 1
    OBVIOUS
  <2>2. chains[i - 1] \in Seq(1 .. n)
    BY <2>1, <1>1
  <2> QED BY <2>1, <2>2, NoneIn
<1>5. \A i \in 1 .. buckets :
          /\ seqs[i] \in Seq(T)
          /\ W(i) = 0 => Len(seqs[i]) = 0
          /\ W(i) # 0 => /\ Len(seqs[i]) = W(i) + 1
                         /\ seqs[i][W(i) + 1] = 0
                         /\ \A j \in 1 .. W(i) : seqs[i][j] = chains[i - 1][j]
  <2> TAKE i \in 1 .. buckets
  <2> DEFINE c == chains[i - 1]
             s == IF c = <<>> THEN <<>> ELSE Append(c, 0)
  <2>1. seqs[i] = s
    OBVIOUS
  <2>2. c \in Seq(1 .. n) /\ Len(c) \in Nat /\ (c = <<>> <=> Len(c) = 0)
    BY <1>4
  <2> HIDE DEF c, seqs
  <2>3. c \in Seq(T) /\ 0 \in T
    BY <2>2
  <2> HIDE DEF T
  <2>4. CASE c = <<>>
    BY <2>1, <2>2, <2>4 DEF c
  <2>5. CASE c # <<>>
    <3>1. s = Append(c, 0)
      BY <2>5
    <3>2. s \in Seq(T) /\ Len(s) = Len(c) + 1 /\ s[Len(c) + 1] = 0 /\ \A j \in 1 .. Len(c) : s[j] = c[j]
      <4> HIDE DEF s
      <4>1. /\ Append(c, 0) \in Seq(T) /\ Len(Append(c, 0)) = Len(c) + 1
            /\ Append(c, 0)[Len(c) + 1] = 0 /\ \A j \in 1 .. Len(c) : Append(c, 0)[j] = c[j]
        BY <2>3
      <4> QED BY <3>1, <4>1
    <3> HIDE DEF s
    <3> QED BY <3>2, <2>1, <2>2, <2>5 DEF c
  <2> QED BY <2>4, <2>5
<1>6. seqs \in Seq(Seq(T)) /\ Len(seqs) = buckets
  <2>1. seqs = [i \in 1 .. buckets |-> seqs[i]]
    OBVIOUS
  <2> HIDE DEF seqs, T
  <2> QED BY <2>1, <1>5
<1> HIDE DEF seqs, T
<1>7. links \in Seq(T)
  <2>1. Strings(links, seqs, T)
    BY <1>6, FlattenIs
  <2> QED BY <2>1 DEF Strings
<1>8. \A p \in 1 .. Len(links) : \E i \in 1 .. buckets : \E j \in 1 .. Len(seqs[i]) :
          p = at[i] + j /\ links[p] = seqs[i][j]
  <2> TAKE p \in 1 .. Len(links)
  <2>1. \E i \in 1 .. Len(seqs) : \E j \in 1 .. Len(seqs[i]) : p = at[i] + j /\ links[p] = seqs[i][j]
    BY <1>6, FlattenFrom
  <2> HIDE DEF links, at
  <2> QED BY <2>1, <1>6
<1>9. \A i \in 1 .. buckets : \A j \in 1 .. Len(seqs[i]) :
          at[i] \in Nat /\ at[i] + j \in 1 .. Len(links) /\ links[at[i] + j] = seqs[i][j]
  <2> TAKE i \in 1 .. buckets
  <2> TAKE j \in 1 .. Len(seqs[i])
  <2>1. i \in 1 .. Len(seqs)
    BY <1>6
  <2>2. seqs \in Seq(Seq(T))
    BY <1>6
  <2> QED BY ONLY <2>1, <2>2, j \in 1 .. Len(seqs[i]), FlattenHas
<1> HIDE DEF links, at, W
<1>10. ASSUME NEW b \in 0 .. buckets - 1, chains[b] # <<>>
       PROVE  \E k \in Nat : Run(links, chains[b], k)
  <2> DEFINE i == b + 1
             w == Len(chains[b])
  <2>1. i \in 1 .. buckets /\ i - 1 = b
    OBVIOUS
  <2>2. W(i) = w /\ w \in Nat /\ w # 0
    BY <2>1, <1>4, <1>10 DEF W
  <2>3. Len(seqs[i]) = w + 1 /\ seqs[i][w + 1] = 0 /\ \A j \in 1 .. w : seqs[i][j] = chains[b][j]
    BY <2>1, <2>2, <1>5
  <2> HIDE DEF i
  <2> DEFINE k == at[i]
  <2>4. /\ k \in Nat /\ k + (w + 1) \in 1 .. Len(links) /\ links[k + (w + 1)] = 0
        /\ \A j \in 1 .. w : links[k + j] = chains[b][j]
    <3>1. w + 1 \in 1 .. Len(seqs[i]) /\ \A j \in 1 .. w : j \in 1 .. Len(seqs[i])
      BY <2>2, <2>3
    <3> HIDE DEF w
    <3> QED BY <3>1, <2>1, <2>3, <1>9
  <2> HIDE DEF k
  <2>5. k + (w + 1) = k + w + 1 /\ k + w + 1 <= Len(links)
    BY <2>2, <2>4, <1>7
  <2>6. Run(links, chains[b], k)
    BY <2>4, <2>5 DEF Run
  <2> QED BY <2>4, <2>6
<1>11. ASSUME NEW p \in 1 .. Len(links), links[p] # 0
       PROVE  \E i \in 1 .. buckets : \E j \in 1 .. W(i) :
                 /\ p = at[i] + j /\ links[p] = chains[i - 1][j]
                 /\ j + 1 \in 1 .. Len(seqs[i]) /\ j \in 1 .. Len(seqs[i])
  <2>1. PICK i \in 1 .. buckets : \E j \in 1 .. Len(seqs[i]) : p = at[i] + j /\ links[p] = seqs[i][j]
    BY <1>8
  <2>2. PICK j \in 1 .. Len(seqs[i]) : p = at[i] + j /\ links[p] = seqs[i][j]
    BY <2>1
  <2>3. W(i) # 0 /\ W(i) \in Nat
    BY <1>4, <1>5, <2>2
  <2>4. Len(seqs[i]) = W(i) + 1 /\ seqs[i][W(i) + 1] = 0
    BY <2>3, <1>5
  <2>5. j # W(i) + 1
    BY <2>2, <2>4, <1>11
  <2>6. j \in 1 .. W(i) /\ j + 1 \in 1 .. Len(seqs[i])
    BY <2>2, <2>3, <2>4, <2>5
  <2>7. seqs[i][j] = chains[i - 1][j]
    BY <2>3, <2>6, <1>5
  <2> QED BY <2>2, <2>6, <2>7
<1>12. \A p \in 1 .. Len(links) : links[p] # 0 => p < Len(links)
  <2> TAKE p \in 1 .. Len(links)
  <2> HAVE links[p] # 0
  <2>1. PICK i \in 1 .. buckets : \E j \in 1 .. W(i) : p = at[i] + j /\ j + 1 \in 1 .. Len(seqs[i])
    BY <1>11
  <2>2. PICK j \in 1 .. W(i) : p = at[i] + j /\ j + 1 \in 1 .. Len(seqs[i])
    BY <2>1
  <2> DEFINE m == j + 1
  <2>3. at[i] \in Nat /\ at[i] + m \in 1 .. Len(links)
    <3> HIDE DEF m
    <3>1. m \in 1 .. Len(seqs[i])
      BY <2>2 DEF m
    <3> QED BY <3>1, <1>9
  <2>4. j \in Nat
    BY <1>4
  <2>5. Len(links) \in Nat
    BY <1>7
  <2> DEFINE a == at[i]
             L == Len(links)
  <2>6. a \in Nat /\ a + (j + 1) <= L /\ L \in Nat /\ p = a + j
    BY <2>2, <2>3, <2>5
  <2> HIDE DEF a, L
  <2>7. p < L
    BY <2>4, <2>6
  <2> QED BY <2>7 DEF L
<1>13. \A p, q \in 1 .. Len(links) : links[p] # 0 /\ links[p] = links[q] => p = q
  <2> TAKE p, q \in 1 .. Len(links)
  <2> HAVE links[p] # 0 /\ links[p] = links[q]
  <2>1. PICK i \in 1 .. buckets : \E j \in 1 .. W(i) : p = at[i] + j /\ links[p] = chains[i - 1][j]
    BY <1>11
  <2>2. PICK j \in 1 .. W(i) : p = at[i] + j /\ links[p] = chains[i - 1][j]
    BY <2>1
  <2>3. PICK h \in 1 .. buckets : \E l \in 1 .. W(h) : q = at[h] + l /\ links[q] = chains[h - 1][l]
    BY <1>11
  <2>4. PICK l \in 1 .. W(h) : q = at[h] + l /\ links[q] = chains[h - 1][l]
    BY <2>3
  <2> DEFINE b == i - 1
             c == h - 1
  <2>5. b \in 0 .. buckets - 1 /\ c \in 0 .. buckets - 1 /\ j \in 1 .. Len(chains[b]) /\ l \in 1 .. Len(chains[c])
    BY <1>4, <2>2, <2>4 DEF W
  <2>6. chains[b][j] = chains[c][l]
    BY <2>2, <2>4
  <2>7. b = c => i = h
    OBVIOUS
  <2> HIDE DEF b, c
  <2>8. b = c
    BY <2>5, <2>6, <1>2
  <2>9. j = l
    BY <2>5, <2>6, <2>8, <1>2
  <2> QED BY <2>2, <2>4, <2>7, <2>8, <2>9
<1> QED BY <1>3, <1>7, <1>10, <1>12, <1>13 DEF LinksAs, T

\* The dictionary of a blob: the tuple of each link is at its own address, as long as
\* it is far to the next, and tells the word, its hash and where its list is.
TuplesAs(blob, links, entries, at, lists, n) ==
    /\ \A k, j \in 1 .. n : at[k] = at[j] => k = j
    /\ DOMAIN blob.tuples = {at[k] : k \in 1 .. n}
    /\ \A k \in 1 .. n : links[k] = 0 => blob.tuples[at[k]].length = 0
    /\ \A k \in 1 .. n : links[k] # 0 =>
          /\ k < n
          /\ blob.tuples[at[k]].length \in Nat \ {0}
          /\ at[k] + blob.tuples[at[k]].length = at[k + 1]
          /\ blob.tuples[at[k]].term = entries[links[k]]
          /\ blob.tuples[at[k]].hash = Hash[entries[links[k]]]
          /\ blob.tuples[at[k]].list = lists[links[k]]

WalkBody(blob, t, g) ==
    [off \in DOMAIN blob.tuples |->
        LET st == blob.tuples[off]
        IN  CASE st.length = 0 -> 0
              [] st.length > 0 /\ st.hash = Hash[t] /\ st.term = t -> st.list
              [] OTHER -> g[off + st.length]]

WalkFrom(blob, t) == CHOOSE g : g = WalkBody(blob, t, g)

\* What the walk for a word finds from each tuple on.
Reached(g, links, entries, at, lists, n, t) ==
    \A k \in 1 .. n :
        g[at[k]] = IF links[k] = 0 THEN 0
                   ELSE IF entries[links[k]] = t THEN lists[links[k]] ELSE g[at[k + 1]]

LEMMA BodyAt ==
    ASSUME NEW blob, NEW links, NEW entries, NEW at, NEW lists, NEW n \in Nat,
           TuplesAs(blob, links, entries, at, lists, n), NEW t, NEW g, NEW k \in 1 .. n
    PROVE  WalkBody(blob, t, g)[at[k]] =
               IF links[k] = 0 THEN 0
               ELSE IF entries[links[k]] = t THEN lists[links[k]] ELSE g[at[k + 1]]
<1> DEFINE off == at[k]
           st == blob.tuples[off]
<1>1. off \in DOMAIN blob.tuples
  BY DEF TuplesAs
<1>2. WalkBody(blob, t, g)[off] = CASE st.length = 0 -> 0
              [] st.length > 0 /\ st.hash = Hash[t] /\ st.term = t -> st.list
              [] OTHER -> g[off + st.length]
  BY <1>1 DEF WalkBody
<1>3. links[k] = 0 => st.length = 0
  BY DEF TuplesAs
<1>4. links[k] # 0 => /\ st.length \in Nat \ {0}
                      /\ off + st.length = at[k + 1]
                      /\ st.term = entries[links[k]]
                      /\ st.hash = Hash[entries[links[k]]]
                      /\ st.list = lists[links[k]]
  BY DEF TuplesAs
<1> HIDE DEF off, st
<1>5. CASE links[k] = 0
  BY <1>2, <1>3, <1>5 DEF off
<1>6. CASE links[k] # 0 /\ entries[links[k]] = t
  <2>1. st.length > 0 /\ ~(st.length = 0) /\ st.hash = Hash[t] /\ st.term = t
    BY <1>4, <1>6
  <2>2. WalkBody(blob, t, g)[off] = st.list
    BY <2>1, <1>2
  <2> QED BY <2>2, <1>4, <1>6 DEF off
<1>7. CASE links[k] # 0 /\ entries[links[k]] # t
  <2>1. ~(st.length = 0) /\ st.term # t
    BY <1>4, <1>7
  <2>2. WalkBody(blob, t, g)[off] = g[off + st.length]
    BY <2>1, <1>2
  <2> QED BY <2>2, <1>4, <1>7 DEF off
<1> QED BY <1>5, <1>6, <1>7

LEMMA WalkExists ==
    ASSUME NEW blob, NEW links, NEW entries, NEW at, NEW lists, NEW n \in Nat,
           TuplesAs(blob, links, entries, at, lists, n), NEW t,
           \A k \in 1 .. n : links[k] # 0 => lists[links[k]] \in Nat
    PROVE  \E g : g = WalkBody(blob, t, g)
<1> DEFINE F(x, k) == IF links[k] = 0 THEN 0 ELSE IF entries[links[k]] = t THEN lists[links[k]] ELSE x
           step == [m \in 1 .. n |-> [x \in Nat |-> F(x, n + 1 - m)]]
<1>1. \A m \in 1 .. n : n + 1 - m \in 1 .. n
  OBVIOUS
<1>2. \A k \in 1 .. n : \A x \in Nat : F(x, k) \in Nat
  OBVIOUS
<1>3. step \in Steps(n, Nat)
  <2> HIDE DEF F
  <2> QED BY <1>1, <1>2 DEF Steps
<1> HIDE DEF step
<1>4. PICK h : Leads(n, Nat, 0, step, h)
  BY <1>3, Recursion
<1>5. h \in [0 .. n -> Nat] /\ \A m \in 1 .. n : h[m] = F(h[m - 1], n + 1 - m)
  <2>1. h \in [0 .. n -> Nat] /\ \A m \in 1 .. n : h[m] = step[m][h[m - 1]]
    BY <1>4 DEF Leads
  <2>2. \A m \in 1 .. n : m - 1 \in 0 .. n
    OBVIOUS
  <2>3. \A m \in 1 .. n : h[m - 1] \in Nat
    BY <2>1, <2>2
  <2> HIDE DEF F
  <2> QED BY <2>1, <2>3 DEF step
<1> DEFINE num(off) == CHOOSE k \in 1 .. n : at[k] = off
           g == [off \in DOMAIN blob.tuples |-> h[n + 1 - num(off)]]
<1>6. DOMAIN blob.tuples = {at[k] : k \in 1 .. n} /\ \A k, j \in 1 .. n : at[k] = at[j] => k = j
  BY DEF TuplesAs
<1>7. \A k \in 1 .. n : num(at[k]) = k
  BY <1>6
<1> HIDE DEF num
<1>8. \A k \in 1 .. n : g[at[k]] = h[n + 1 - k]
  BY <1>6, <1>7
<1>9. \A k \in 1 .. n : g[at[k]] = WalkBody(blob, t, g)[at[k]]
  <2> TAKE k \in 1 .. n
  <2> HIDE DEF g
  <2>1. WalkBody(blob, t, g)[at[k]] = F(g[at[k + 1]], k)
    BY BodyAt
  <2> DEFINE m == n + 1 - k
  <2>2. m \in 1 .. n /\ n + 1 - m = k /\ m - 1 = n + 1 - (k + 1)
    OBVIOUS
  <2>3. h[m] = F(h[m - 1], k)
    <3> HIDE DEF m, F
    <3> QED BY <2>2, <1>5
  <2>4. links[k] # 0 => k + 1 \in 1 .. n
    BY DEF TuplesAs
  <2>5. links[k] # 0 => h[m - 1] = g[at[k + 1]]
    <3> HIDE DEF m
    <3> QED BY <2>2, <2>4, <1>8
  <2>6. F(h[m - 1], k) = F(g[at[k + 1]], k)
    <3> HIDE DEF m
    <3> QED BY <2>5
  <2> HIDE DEF F
  <2> QED BY <2>1, <2>3, <2>6, <1>8
<1>10. g = WalkBody(blob, t, g)
  <2>1. \A off \in DOMAIN blob.tuples : g[off] = WalkBody(blob, t, g)[off]
    <3> HIDE DEF g
    <3> QED BY <1>6, <1>9
  <2> DEFINE w == WalkBody(blob, t, g)
             D == DOMAIN blob.tuples
  <2> DEFINE E(off) == LET st == blob.tuples[off]
                       IN  CASE st.length = 0 -> 0
                             [] st.length > 0 /\ st.hash = Hash[t] /\ st.term = t -> st.list
                             [] OTHER -> g[off + st.length]
  <2>4. w = [off \in D |-> E(off)]
    BY Zenon DEF WalkBody
  <2>2. w = [off \in D |-> w[off]]
    <3> HIDE DEF E, w, D
    <3> QED BY <2>4
  <2>3. g = [off \in D |-> g[off]]
    OBVIOUS
  <2> HIDE DEF w, g
  <2> QED BY <2>1, <2>2, <2>3 DEF w
<1> HIDE DEF g
<1> QED BY <1>10

LEMMA WalkReaches ==
    ASSUME NEW blob, NEW links, NEW entries, NEW at, NEW lists, NEW n \in Nat,
           TuplesAs(blob, links, entries, at, lists, n), NEW t,
           \A k \in 1 .. n : links[k] # 0 => lists[links[k]] \in Nat
    PROVE  Reached(WalkFrom(blob, t), links, entries, at, lists, n, t)
<1> DEFINE g == WalkFrom(blob, t)
<1>1. \E f : f = WalkBody(blob, t, f)
  BY WalkExists
<1>2. g = WalkBody(blob, t, g)
  BY <1>1, Zenon DEF WalkFrom
<1> HIDE DEF g
<1>3. \A k \in 1 .. n : WalkBody(blob, t, g)[at[k]] =
               IF links[k] = 0 THEN 0
               ELSE IF entries[links[k]] = t THEN lists[links[k]] ELSE g[at[k + 1]]
  <2> TAKE k \in 1 .. n
  <2> QED BY BodyAt
<1>4. Reached(g, links, entries, at, lists, n, t)
  BY <1>2, <1>3 DEF Reached
<1> QED BY <1>4 DEF g

\* Along the chain of its bucket the walk finds the word, or the end.
LEMMA WalkIs ==
    ASSUME NEW n \in Nat, NEW N \in Nat, NEW links \in Seq(0 .. n), Len(links) = N,
           NEW g, NEW entries, NEW at, NEW lists, NEW t,
           Reached(g, links, entries, at, lists, N, t),
           NEW c \in Seq(1 .. n), NEW k \in Nat, Run(links, c, k)
    PROVE  /\ (\A j \in 1 .. Len(c) : entries[c[j]] # t) => g[at[k + 1]] = 0
           /\ \A i \in 1 .. Len(c) :
                 entries[c[i]] = t /\ (\A j \in 1 .. Len(c) : entries[c[j]] = t => j = i)
                     => g[at[k + 1]] = lists[c[i]]
<1> DEFINE L == Len(c)
<1>1. L \in Nat /\ \A j \in 1 .. L : c[j] \in 1 .. n
  OBVIOUS
<1>2. k + L + 1 <= N /\ (\A j \in 1 .. L : links[k + j] = c[j]) /\ links[k + L + 1] = 0
  BY DEF Run
<1>3. \A j \in 1 .. N : g[at[j]] = IF links[j] = 0 THEN 0
                   ELSE IF entries[links[j]] = t THEN lists[links[j]] ELSE g[at[j + 1]]
  BY DEF Reached
<1> HIDE DEF L
<1>4. \A j \in 1 .. L : g[at[k + j]] = IF entries[c[j]] = t THEN lists[c[j]] ELSE g[at[k + j + 1]]
  <2> TAKE j \in 1 .. L
  <2> DEFINE p == k + j
  <2>1. p \in 1 .. N /\ links[p] = c[j] /\ c[j] # 0
    BY <1>1, <1>2
  <2> HIDE DEF p
  <2>2. g[at[p]] = IF entries[c[j]] = t THEN lists[c[j]] ELSE g[at[p + 1]]
    BY <2>1, <1>3
  <2> QED BY <2>2 DEF p
<1>5. g[at[k + L + 1]] = 0
  <2> DEFINE p == k + L + 1
  <2>1. p \in 1 .. N /\ links[p] = 0
    BY <1>1, <1>2
  <2> HIDE DEF p
  <2>2. g[at[p]] = 0
    BY <2>1, <1>3
  <2> QED BY <2>2 DEF p
<1> DEFINE D == {m \in 0 .. L : (\A j \in 1 .. m : entries[c[j]] # t) => g[at[k + 1]] = g[at[k + m + 1]]}
<1>6. 0 .. L \subseteq D
  <2>1. 0 \in D
    <3>1. k + 0 + 1 = k + 1
      OBVIOUS
    <3> QED BY <3>1, <1>1
  <2>2. \A m \in 1 .. L : m - 1 \in D => m \in D
    <3> TAKE m \in 1 .. L
    <3> HAVE m - 1 \in D
    <3>1. SUFFICES ASSUME \A j \in 1 .. m : entries[c[j]] # t
                   PROVE  g[at[k + 1]] = g[at[k + m + 1]]
      BY <1>1
    <3>2. \A j \in 1 .. m - 1 : j \in 1 .. m
      BY <1>1
    <3>3. g[at[k + 1]] = g[at[k + (m - 1) + 1]]
      BY <3>1, <3>2
    <3>4. k + (m - 1) + 1 = k + m /\ m \in 1 .. m
      BY <1>1
    <3>5. g[at[k + m]] = g[at[k + m + 1]]
      BY <3>1, <3>4, <1>4
    <3> QED BY <3>3, <3>4, <3>5
  <2> HIDE DEF D
  <2> QED BY <1>1, <2>1, <2>2, Induction
<1>7. ASSUME \A j \in 1 .. L : entries[c[j]] # t
      PROVE  g[at[k + 1]] = 0
  <2>1. L \in 0 .. L
    BY <1>1
  <2>2. g[at[k + 1]] = g[at[k + L + 1]]
    BY <2>1, <1>6, <1>7
  <2> QED BY <2>2, <1>5
<1>8. ASSUME NEW i \in 1 .. L, entries[c[i]] = t, \A j \in 1 .. L : entries[c[j]] = t => j = i
      PROVE  g[at[k + 1]] = lists[c[i]]
  <2> DEFINE m == i - 1
  <2>1. m \in 0 .. L /\ k + m + 1 = k + i /\ \A j \in 1 .. m : j \in 1 .. L /\ j # i
    BY <1>1
  <2> HIDE DEF m
  <2>2. \A j \in 1 .. m : entries[c[j]] # t
    BY <2>1, <1>8
  <2>3. g[at[k + 1]] = g[at[k + m + 1]]
    BY <2>1, <2>2, <1>6
  <2>4. g[at[k + i]] = lists[c[i]]
    BY <1>4, <1>8
  <2> QED BY <2>1, <2>3, <2>4
<1> QED BY <1>7, <1>8 DEF L

-----------------------------------------------------------------------------
(* Strings in the arena. *)

ByteT == Seq(Terms) \X Nat

RefT == [offset : Nat, length : Nat]

RecordT == [start : Nat, end : Nat, bodyLength : Nat, url : RefT, titleFirst : Nat, titleCount : Nat]

StrungT == [arena : Seq(ByteT), refs : Seq(RefT), records : Seq(RecordT)]

LEMMA LastIs ==
    ASSUME NEW n \in Nat, NEW at \in [1 .. n + 1 -> Nat]
    PROVE  at \in Seq(Nat) /\ Len(at) = n + 1 /\ Last(at) = at[n + 1] /\ Last(at) \in Nat
<1> DEFINE N == n + 1
<1>1. N \in Nat /\ N \in 1 .. N /\ at \in [1 .. N -> Nat]
  OBVIOUS
<1> HIDE DEF N
<1>2. at \in Seq(Nat) /\ Len(at) = N
  BY <1>1
<1>3. Last(at) = at[N] /\ at[N] \in Nat
  BY <1>1, <1>2 DEF Last
<1> QED BY <1>2, <1>3 DEF N

\* The same things laid out from another address.
LEMMA LaidShift ==
    ASSUME NEW start \in Nat, NEW sizes \in Seq(Nat), NEW at, NEW bt,
           LaidAs(at, 0, sizes), LaidAs(bt, start, sizes)
    PROVE  \A i \in 1 .. Len(sizes) + 1 : bt[i] = start + at[i] /\ at[i] \in Nat
<1> DEFINE N == Len(sizes)
           D == {n \in 0 .. N : bt[n + 1] = start + at[n + 1]}
<1>1. N \in Nat /\ \A i \in 1 .. N : sizes[i] \in Nat
  OBVIOUS
<1>2. /\ \A i \in 1 .. N + 1 : at[i] \in Nat /\ bt[i] \in Nat
      /\ at[1] = 0 /\ bt[1] = start
      /\ \A i \in 1 .. N : at[i + 1] = at[i] + sizes[i] /\ bt[i + 1] = bt[i] + sizes[i]
  BY DEF LaidAs
<1> HIDE DEF N
<1>3. 0 \in D
  BY <1>1, <1>2
<1>4. \A n \in 1 .. N : n - 1 \in D => n \in D
  <2> TAKE n \in 1 .. N
  <2> HAVE n - 1 \in D
  <2>1. (n - 1) + 1 = n /\ n \in 1 .. N + 1
    BY <1>1
  <2>2. bt[n] = start + at[n] /\ at[n] \in Nat /\ sizes[n] \in Nat
    BY <2>1, <1>1, <1>2
  <2>3. at[n + 1] = at[n] + sizes[n] /\ bt[n + 1] = bt[n] + sizes[n]
    BY <1>2
  <2> DEFINE a == at[n]
             b == bt[n]
             s == sizes[n]
  <2>4. a \in Nat /\ b = start + a /\ s \in Nat /\ at[n + 1] = a + s /\ bt[n + 1] = b + s
    BY <2>2, <2>3
  <2> HIDE DEF a, b, s
  <2>5. bt[n + 1] = start + at[n + 1]
    BY <2>4
  <2> QED BY <2>5, <1>1
<1>5. 0 .. N \subseteq D
  <2> HIDE DEF D
  <2> QED BY <1>1, <1>3, <1>4, Induction
<1>6. \A i \in 1 .. N + 1 : bt[i] = start + at[i] /\ at[i] \in Nat
  <2> TAKE i \in 1 .. N + 1
  <2>1. i - 1 \in 0 .. N /\ (i - 1) + 1 = i
    BY <1>1
  <2> QED BY <2>1, <1>2, <1>5
<1> QED BY <1>6 DEF N

LEMMA LenOf ==
    ASSUME NEW t \in Terms
    PROVE  TermLen[t] \in Nat \ {0}
BY IndexAssumption

LEMMA SizeIs ==
    ASSUME NEW string \in Seq(Terms)
    PROVE  Size(string) \in Nat /\ (Size(string) = 0 <=> string = <<>>)
<1> DEFINE sizes == [i \in DOMAIN string |-> TermLen[string[i]]]
           at == Laid(0, sizes)
           N == Len(string)
<1>1. N \in Nat /\ DOMAIN string = 1 .. N /\ \A i \in 1 .. N : string[i] \in Terms
  OBVIOUS
<1>2. string = <<>> <=> N = 0
  OBVIOUS
<1> HIDE DEF N
<1>3. \A i \in 1 .. N : TermLen[string[i]] \in Nat \ {0}
  BY <1>1, LenOf
<1>4. sizes \in Seq(Nat) /\ Len(sizes) = N /\ \A i \in 1 .. N : sizes[i] \in Nat \ {0}
  <2>1. sizes = [i \in 1 .. N |-> sizes[i]] /\ \A i \in 1 .. N : sizes[i] \in Nat \ {0}
    BY <1>1, <1>3
  <2> HIDE DEF sizes
  <2> QED BY <2>1, <1>1
<1>5. Size(string) = Last(at)
  BY DEF Size
<1> HIDE DEF sizes
<1>6. LaidAs(at, 0, sizes)
  BY <1>4, LaidIs, 0 \in Nat
<1> HIDE DEF at
<1>7. at \in [1 .. N + 1 -> Nat] /\ at[1] = 0
  BY <1>4, <1>6 DEF LaidAs
<1>8. Last(at) = at[N + 1] /\ at[N + 1] \in Nat
  <2>1. N + 1 \in 1 .. N + 1
    BY <1>1
  <2> QED BY <2>1, <1>1, <1>7, LastIs
<1>9. N = 0 => at[N + 1] = 0
  BY <1>7
<1>10. N # 0 => at[N + 1] # 0
  <2> SUFFICES ASSUME N # 0 PROVE at[N + 1] # 0
    OBVIOUS
  <2>1. 1 \in 1 .. N + 1 /\ N + 1 \in 1 .. N + 1 /\ 1 <= N + 1 /\ 1 < N + 1 /\ 1 \in 1 .. N
    BY <1>1
  <2>2. at[1] + sizes[1] <= at[N + 1]
    BY <2>1, <1>4, <1>6, LaidGrows, 0 \in Nat
  <2>3. sizes[1] \in Nat \ {0}
    BY <2>1, <1>4
  <2> QED BY <2>2, <2>3, <1>7, <1>8
<1> QED BY <1>2, <1>5, <1>8, <1>9, <1>10

LEMMA BytesAre ==
    ASSUME NEW string \in Seq(Terms)
    PROVE  /\ Bytes(string) \in Seq(ByteT)
           /\ Len(Bytes(string)) = Size(string)
           /\ \A i \in 1 .. Size(string) : Bytes(string)[i] = <<string, i>>
<1> DEFINE n == Size(string)
           b == Bytes(string)
<1>1. n \in Nat
  BY SizeIs
<1>2. b = [i \in 1 .. n |-> <<string, i>>]
  BY DEF Bytes
<1> HIDE DEF n, b
<1>3. \A i \in 1 .. n : <<string, i>> \in ByteT
  BY <1>1 DEF ByteT
<1>4. b = [i \in 1 .. n |-> b[i]] /\ \A i \in 1 .. n : b[i] = <<string, i>> /\ b[i] \in ByteT
  BY <1>2, <1>3
<1>5. b \in Seq(ByteT) /\ Len(b) = n
  BY <1>1, <1>4
<1> QED BY <1>4, <1>5 DEF n, b

\* A string stands in the arena where a reference says.
Stands(arena, ref, string) ==
    /\ ref.offset + ref.length <= Len(arena)
    /\ ref.length = Size(string)
    /\ \A i \in 1 .. ref.length : arena[ref.offset + i] = <<string, i>>

LEMMA TextIs ==
    ASSUME NEW blob, blob.arena \in Seq(ByteT), NEW ref \in RefT, NEW string \in Seq(Terms),
           Stands(blob.arena, ref, string)
    PROVE  TextAt(blob, ref) = string
<1> DEFINE arena == blob.arena
           o == ref.offset
           l == ref.length
           bytes == SubSeq(arena, o + 1, o + l)
<1>1. o \in Nat /\ l \in Nat
  BY DEF RefT
<1>2. o + l <= Len(arena) /\ l = Size(string) /\ \A i \in 1 .. l : arena[o + i] = <<string, i>>
  BY DEF Stands
<1>3. TextAt(blob, ref) = IF bytes # <<>> /\ bytes = Bytes(bytes[1][1]) THEN bytes[1][1] ELSE <<>>
  BY Zenon DEF TextAt
<1> HIDE DEF arena, o, l
<1>4. arena \in Seq(ByteT)
  BY DEF arena
<1>5. /\ Len(bytes) = l
      /\ bytes \in Seq(ByteT)
      /\ \A i \in 1 .. l : bytes[i] = arena[o + i]
  <2>1. o + 1 \in Nat /\ o + l \in Nat /\ 1 <= o + 1 /\ (o + l) - (o + 1) + 1 = l
    BY <1>1
  <2>2. Len(arena) \in Nat
    BY <1>4
  <2>3. l # 0 => o + 1 <= o + l
    BY <1>1
  <2>4. CASE l = 0
    <3>1. o + l < o + 1
      BY <1>1, <2>4
    <3>2. bytes = <<>>
      BY <3>1, <1>1, <1>4, <2>1
    <3> HIDE DEF bytes
    <3>3. Len(bytes) = 0 /\ bytes \in Seq(ByteT) /\ 1 .. l = {}
      BY <3>2, <2>4
    <3> QED BY <3>3, <2>4
  <2>5. CASE l # 0
    <3>1. Len(bytes) = l /\ bytes \in Seq(ByteT)
      BY <2>1, <2>2, <2>3, <2>5, <1>1, <1>2, <1>4
    <3>2. \A i \in 1 .. l : bytes[i] = arena[(o + 1) + i - 1]
      BY <2>1, <2>2, <2>3, <2>5, <1>1, <1>2, <1>4
    <3>3. \A i \in 1 .. l : (o + 1) + i - 1 = o + i
      BY <1>1
    <3> QED BY <3>1, <3>2, <3>3
  <2> QED BY <2>4, <2>5
<1> HIDE DEF bytes
<1>6. bytes = <<>> <=> l = 0
  BY <1>5, NoneIn
<1>7. CASE l = 0
  <2>1. string = <<>>
    BY <1>2, <1>7, SizeIs
  <2> QED BY <2>1, <1>3, <1>6, <1>7
<1>8. CASE l # 0
  <2>1. 1 \in 1 .. l
    BY <1>1, <1>8
  <2>2. bytes[1] = <<string, 1>>
    BY <2>1, <1>2, <1>5
  <2>3. bytes[1][1] = string
    BY <2>2
  <2>4. /\ Bytes(string) \in Seq(ByteT) /\ Len(Bytes(string)) = l
        /\ \A i \in 1 .. l : Bytes(string)[i] = <<string, i>>
    BY <1>2, BytesAre
  <2>5. \A i \in 1 .. l : bytes[i] = Bytes(string)[i]
    BY <2>4, <1>2, <1>5
  <2> DEFINE b == Bytes(string)
  <2> HIDE DEF b
  <2>6. b \in Seq(ByteT) /\ Len(b) = Len(bytes) /\ \A i \in 1 .. Len(bytes) : bytes[i] = b[i]
    BY <2>4, <2>5, <1>5 DEF b
  <2>7. bytes = b
    BY <2>6, <1>5
  <2> QED BY <2>3, <2>7, <1>3, <1>6, <1>8 DEF b
<1> QED BY <1>7, <1>8

-----------------------------------------------------------------------------
(* The strings of documents. *)

\* A record of the blob describes a document.
RecordIs(so, rec, doc) ==
    /\ rec.start = doc.start /\ rec.end = doc.end /\ rec.bodyLength = doc.bodyLength
    /\ Stands(so.arena, rec.url, doc.url)
    /\ rec.titleCount = Len(doc.title)
    /\ rec.titleFirst + rec.titleCount <= Len(so.refs)
    /\ \A i \in 1 .. rec.titleCount : Stands(so.arena, so.refs[rec.titleFirst + i], <<doc.title[i]>>)

StrungAs(so, docs, n) ==
    /\ so \in StrungT
    /\ Len(so.records) = n
    /\ \A i \in 1 .. n : RecordIs(so, so.records[i], docs[i])

Grown(old, new) == Len(old) <= Len(new) /\ \A i \in 1 .. Len(old) : new[i] = old[i]

LEMMA StandsGrown ==
    ASSUME NEW old \in Seq(ByteT), NEW new \in Seq(ByteT), Grown(old, new),
           NEW ref \in RefT, NEW string, Stands(old, ref, string)
    PROVE  Stands(new, ref, string)
<1> DEFINE o == ref.offset
           l == ref.length
           a == Len(old)
           b == Len(new)
<1>1. o \in Nat /\ l \in Nat /\ a \in Nat /\ b \in Nat
  BY DEF RefT
<1>2. o + l <= a /\ a <= b /\ \A i \in 1 .. a : new[i] = old[i]
  BY DEF Stands, Grown
<1>3. l = Size(string) /\ \A i \in 1 .. l : old[o + i] = <<string, i>>
  BY DEF Stands
<1> HIDE DEF o, l, a, b
<1>4. \A i \in 1 .. l : o + i \in 1 .. a
  BY <1>1, <1>2
<1>5. o + l <= b
  BY <1>1, <1>2
<1>6. \A i \in 1 .. l : new[o + i] = <<string, i>>
  BY <1>2, <1>3, <1>4
<1> QED BY <1>3, <1>5, <1>6 DEF Stands, o, l, b

LEMMA RecordGrown ==
    ASSUME NEW old \in StrungT, NEW new \in StrungT,
           Grown(old.arena, new.arena), Grown(old.refs, new.refs),
           NEW rec \in RecordT, NEW doc, RecordIs(old, rec, doc)
    PROVE  RecordIs(new, rec, doc)
<1> DEFINE f == rec.titleFirst
           c == rec.titleCount
           r == old.refs
           s == new.refs
           a == old.arena
           b == new.arena
<1>1. f \in Nat /\ c \in Nat /\ rec.url \in RefT
  BY DEF RecordT
<1>2. r \in Seq(RefT) /\ s \in Seq(RefT) /\ a \in Seq(ByteT) /\ b \in Seq(ByteT)
  BY DEF StrungT
<1>3. /\ rec.start = doc.start /\ rec.end = doc.end /\ rec.bodyLength = doc.bodyLength
      /\ Stands(a, rec.url, doc.url)
      /\ c = Len(doc.title)
      /\ f + c <= Len(r)
      /\ \A i \in 1 .. c : Stands(a, r[f + i], <<doc.title[i]>>)
  BY DEF RecordIs
<1>4. Grown(a, b) /\ Len(r) <= Len(s) /\ \A i \in 1 .. Len(r) : s[i] = r[i]
  BY DEF Grown
<1> HIDE DEF f, c, r, s, a, b
<1>5. Len(r) \in Nat /\ Len(s) \in Nat
  BY <1>2
<1>6. f + c <= Len(s)
  BY <1>1, <1>3, <1>4, <1>5
<1>7. Stands(b, rec.url, doc.url)
  BY <1>1, <1>2, <1>3, <1>4, StandsGrown
<1>8. \A i \in 1 .. c : Stands(b, s[f + i], <<doc.title[i]>>)
  <2> TAKE i \in 1 .. c
  <2>1. f + i \in 1 .. Len(r)
    BY <1>1, <1>3, <1>5
  <2>2. s[f + i] = r[f + i] /\ r[f + i] \in RefT
    BY <2>1, <1>2, <1>4
  <2>3. Stands(a, r[f + i], <<doc.title[i]>>)
    BY <1>3
  <2>4. Stands(b, r[f + i], <<doc.title[i]>>)
    BY <2>2, <2>3, <1>2, <1>4, StandsGrown
  <2> QED BY <2>2, <2>4
<1> QED BY <1>3, <1>6, <1>7, <1>8 DEF RecordIs, f, c, s, b

\* What the strings of a document add: its address, then the words of its title.
LEMMA StrungUpIs ==
    ASSUME NEW so \in StrungT, NEW doc \in DocT
    PROVE  LET new == StrungUp(so, doc)
           IN  /\ new \in StrungT
               /\ Grown(so.arena, new.arena)
               /\ Grown(so.refs, new.refs)
               /\ Len(new.records) = Len(so.records) + 1
               /\ \A i \in 1 .. Len(so.records) : new.records[i] = so.records[i]
               /\ RecordIs(new, new.records[Len(so.records) + 1], doc)
<1> DEFINE n == Len(doc.title)
           a == Len(so.arena)
           r == Len(so.refs)
           u == Size(doc.url)
           words == [i \in DOMAIN doc.title |-> <<doc.title[i]>>]
           sizes == [i \in DOMAIN words |-> Size(words[i])]
           wordAt == Laid(a + u, sizes)
           seqs == [i \in DOMAIN words |-> Bytes(words[i])]
           flat == FlattenSeq(seqs)
           at == Laid(0, sizes)
           more == [i \in DOMAIN words |-> [offset |-> wordAt[i], length |-> Size(words[i])]]
           rec == [start |-> doc.start, end |-> doc.end, bodyLength |-> doc.bodyLength,
                   url |-> [offset |-> a, length |-> u],
                   titleFirst |-> r, titleCount |-> n]
           head == so.arena \o Bytes(doc.url)
           arena == head \o flat
           refs == so.refs \o more
           records == Append(so.records, rec)
           new == StrungUp(so, doc)
<1>1. /\ doc.start \in Nat /\ doc.end \in Nat /\ doc.bodyLength \in Nat
      /\ doc.url \in Seq(Terms) /\ doc.title \in Seq(Terms)
  BY DEF DocT
<1>2. so.arena \in Seq(ByteT) /\ so.refs \in Seq(RefT) /\ so.records \in Seq(RecordT)
  BY DEF StrungT
<1>3. n \in Nat /\ a \in Nat /\ r \in Nat /\ DOMAIN doc.title = 1 .. n /\ \A i \in 1 .. n : doc.title[i] \in Terms
  BY <1>1, <1>2
<1>4. u \in Nat
  BY <1>1, SizeIs
<1>5. new = [arena |-> arena, refs |-> refs, records |-> records]
  BY DEF StrungUp
<1>6. rec \in RecordT
  <2>1. [offset |-> a, length |-> u] \in RefT
    BY <1>3, <1>4 DEF RefT
  <2> HIDE DEF a, u, n, r
  <2> QED BY <2>1, <1>1, <1>3 DEF RecordT
<1>7. /\ rec.start = doc.start /\ rec.end = doc.end /\ rec.bodyLength = doc.bodyLength
      /\ rec.url = [offset |-> a, length |-> u] /\ rec.titleFirst = r /\ rec.titleCount = n
  OBVIOUS
<1> HIDE DEF n, a, r, u, rec, new
<1>8. DOMAIN words = 1 .. n /\ \A i \in 1 .. n : words[i] = <<doc.title[i]>> /\ words[i] \in Seq(Terms)
  BY <1>3
<1> HIDE DEF words
<1>9. \A i \in 1 .. n : Size(words[i]) \in Nat
  BY <1>8, SizeIs
<1>10. sizes \in Seq(Nat) /\ Len(sizes) = n /\ (\A i \in 1 .. n : sizes[i] = Size(words[i]))
       /\ sizes = [i \in 1 .. n |-> Size(words[i])]
  <2>1. sizes = [i \in 1 .. n |-> Size(words[i])]
    BY <1>8
  <2> HIDE DEF sizes
  <2> QED BY <2>1, <1>3, <1>9
<1>11. /\ seqs \in Seq(Seq(ByteT)) /\ Len(seqs) = n
       /\ \A i \in 1 .. n : seqs[i] = Bytes(words[i]) /\ Len(seqs[i]) = Size(words[i])
  <2>1. seqs = [i \in 1 .. n |-> Bytes(words[i])]
    BY <1>8
  <2>2. \A i \in 1 .. n : Bytes(words[i]) \in Seq(ByteT) /\ Len(Bytes(words[i])) = Size(words[i])
    BY <1>8, BytesAre
  <2> HIDE DEF seqs
  <2>3. seqs = [i \in 1 .. n |-> seqs[i]] /\ \A i \in 1 .. n : seqs[i] \in Seq(ByteT)
    BY <2>1, <2>2
  <2>4. seqs \in Seq(Seq(ByteT)) /\ Len(seqs) = n
    BY <2>3, <1>3
  <2> QED BY <2>1, <2>2, <2>4
<1> HIDE DEF sizes, seqs
<1>12. Lens(seqs) = sizes
  BY <1>10, <1>11 DEF Lens
<1>13. Strings(flat, seqs, ByteT)
  BY <1>11, FlattenIs
<1>14. /\ flat \in Seq(ByteT) /\ Len(flat) = at[n + 1]
       /\ \A i \in 1 .. n : \A j \in 1 .. Len(seqs[i]) : flat[at[i] + j] = seqs[i][j]
  BY <1>11, <1>12, <1>13 DEF Strings
<1>15. LaidAs(at, 0, sizes) /\ LaidAs(wordAt, a + u, sizes)
  <2>1. a + u \in Nat
    BY <1>3, <1>4
  <2> QED BY <2>1, <1>10, LaidIs, 0 \in Nat
<1> HIDE DEF flat, at, wordAt
<1>16. \A i \in 1 .. n + 1 : wordAt[i] = (a + u) + at[i] /\ at[i] \in Nat
  <2>1. a + u \in Nat
    BY <1>3, <1>4
  <2> QED BY <2>1, <1>10, <1>15, LaidShift
<1>17. more \in Seq(RefT) /\ Len(more) = n
       /\ \A i \in 1 .. n : more[i] = [offset |-> wordAt[i], length |-> Size(words[i])]
  <2>1. more = [i \in 1 .. n |-> [offset |-> wordAt[i], length |-> Size(words[i])]]
    BY <1>8
  <2>2. \A i \in 1 .. n : wordAt[i] \in Nat
    <3> TAKE i \in 1 .. n
    <3>1. i \in 1 .. n + 1
      BY <1>3
    <3> QED BY <3>1, <1>3, <1>4, <1>16
  <2> HIDE DEF more
  <2>3. \A i \in 1 .. n : more[i] \in RefT
    BY <2>1, <2>2, <1>9 DEF RefT
  <2>4. more = [i \in 1 .. n |-> more[i]]
    BY <2>1
  <2>5. more \in Seq(RefT) /\ Len(more) = n
    BY <2>3, <2>4, <1>3
  <2> QED BY <2>1, <2>5
<1> HIDE DEF more
<1>18. /\ Bytes(doc.url) \in Seq(ByteT) /\ Len(Bytes(doc.url)) = u
       /\ \A i \in 1 .. u : Bytes(doc.url)[i] = <<doc.url, i>>
  BY <1>1, BytesAre DEF u
<1>19. JoinedAs(head, so.arena, Bytes(doc.url)) /\ head \in Seq(ByteT)
  BY <1>2, <1>18, Joined
<1> HIDE DEF head
<1>20. JoinedAs(arena, head, flat) /\ arena \in Seq(ByteT)
  BY <1>14, <1>19, Joined
<1>21. JoinedAs(refs, so.refs, more) /\ refs \in Seq(RefT)
  BY <1>2, <1>17, Joined
<1>22. /\ records \in Seq(RecordT) /\ Len(records) = Len(so.records) + 1
       /\ \A i \in 1 .. Len(so.records) : records[i] = so.records[i]
       /\ records[Len(so.records) + 1] = rec
  BY <1>2, <1>6
<1> HIDE DEF arena, refs, records
<1>23. /\ Len(head) = a + u
       /\ \A i \in 1 .. a : head[i] = so.arena[i]
       /\ \A i \in 1 .. u : head[a + i] = <<doc.url, i>>
  BY <1>18, <1>19 DEF JoinedAs, a
<1>24. /\ Len(arena) = (a + u) + Len(flat)
       /\ \A i \in 1 .. a + u : arena[i] = head[i]
       /\ \A i \in 1 .. Len(flat) : arena[(a + u) + i] = flat[i]
  BY <1>20, <1>23 DEF JoinedAs
<1>25. /\ Len(refs) = r + n
       /\ \A i \in 1 .. r : refs[i] = so.refs[i]
       /\ \A i \in 1 .. n : refs[r + i] = more[i]
  BY <1>17, <1>21 DEF JoinedAs, r
<1>26. Len(flat) \in Nat
  BY <1>14
<1>27. Grown(so.arena, arena)
  <2>1. a <= Len(arena)
    BY <1>3, <1>4, <1>24, <1>26
  <2>2. \A i \in 1 .. a : arena[i] = so.arena[i]
    <3> TAKE i \in 1 .. a
    <3>1. i \in 1 .. a + u
      BY <1>3, <1>4
    <3> QED BY <3>1, <1>23, <1>24
  <2> QED BY <2>1, <2>2 DEF Grown, a
<1>28. Grown(so.refs, refs)
  <2>1. r <= Len(refs)
    BY <1>3, <1>25
  <2> QED BY <2>1, <1>25 DEF Grown, r
<1>29. Stands(arena, rec.url, doc.url)
  <2>1. a + u <= Len(arena)
    BY <1>3, <1>4, <1>24, <1>26
  <2>2. \A i \in 1 .. u : arena[a + i] = <<doc.url, i>>
    <3> TAKE i \in 1 .. u
    <3>1. a + i \in 1 .. a + u
      BY <1>3, <1>4
    <3> QED BY <3>1, <1>23, <1>24
  <2> DEFINE ref == [offset |-> a, length |-> u]
  <2>3. ref.offset = a /\ ref.length = u /\ rec.url = ref
    BY <1>7
  <2> HIDE DEF ref
  <2> QED BY <2>1, <2>2, <2>3 DEF Stands, u
<1>30. \A i \in 1 .. n : Stands(arena, refs[r + i], <<doc.title[i]>>)
  <2> TAKE i \in 1 .. n
  <2> DEFINE w == words[i]
             l == Size(w)
             o == wordAt[i]
             ref == [offset |-> o, length |-> l]
  <2>1. refs[r + i] = ref /\ w = <<doc.title[i]>> /\ w \in Seq(Terms) /\ l \in Nat
    BY <1>8, <1>9, <1>17, <1>25
  <2>2. ref.offset = o /\ ref.length = l
    OBVIOUS
  <2>3. i \in 1 .. n + 1 /\ i + 1 \in 1 .. n + 1 /\ n + 1 \in 1 .. n + 1 /\ i + 1 <= n + 1
    BY <1>3
  <2>4. at[i + 1] = at[i] + l /\ at[i] \in Nat /\ at[i + 1] <= at[n + 1]
    <3>1. at[i + 1] = at[i] + sizes[i]
      BY <1>10, <1>15 DEF LaidAs
    <3>2. at[i + 1] <= at[n + 1]
      BY <2>3, <1>10, <1>15, LaidGrows, 0 \in Nat
    <3> QED BY <3>1, <3>2, <2>3, <1>10, <1>16
  <2>5. o = (a + u) + at[i]
    BY <2>3, <1>16
  <2> DEFINE p == at[i]
             q == at[i + 1]
             z == Len(flat)
  <2>6. p \in Nat /\ q = p + l /\ q <= z /\ z \in Nat /\ o = (a + u) + p
    BY <2>4, <2>5, <1>14, <1>26
  <2>7. \A j \in 1 .. l : flat[p + j] = <<w, j>>
    <3>1. seqs[i] = Bytes(w) /\ Len(seqs[i]) = l
      BY <1>11
    <3>2. \A j \in 1 .. l : Bytes(w)[j] = <<w, j>>
      BY <2>1, BytesAre
    <3> HIDE DEF w, l
    <3> QED BY <3>1, <3>2, <1>14
  <2> HIDE DEF w, l, o, ref, p, q, z
  <2>8. o + l <= Len(arena)
    <3>1. Len(arena) = (a + u) + z
      BY <1>24 DEF z
    <3> QED BY <3>1, <2>1, <2>6, <1>3, <1>4
  <2>9. \A j \in 1 .. l : arena[o + j] = <<w, j>>
    <3> TAKE j \in 1 .. l
    <3>1. p + j \in 1 .. z /\ o + j = (a + u) + (p + j)
      BY <2>1, <2>6, <1>3, <1>4
    <3>2. arena[(a + u) + (p + j)] = flat[p + j]
      <4> DEFINE m == p + j
      <4> HIDE DEF m
      <4>1. m \in 1 .. Len(flat)
        BY <3>1 DEF m, z
      <4>2. arena[(a + u) + m] = flat[m]
        BY <4>1, <1>24
      <4> QED BY <4>2 DEF m
    <3> QED BY <3>1, <3>2, <2>7
  <2>10. Stands(arena, ref, w)
    BY <2>2, <2>8, <2>9 DEF Stands, l
  <2> QED BY <2>1, <2>10
<1>31. /\ new.arena = arena /\ new.refs = refs /\ new.records = records /\ new \in StrungT
  BY <1>5, <1>20, <1>21, <1>22 DEF StrungT
<1>32. RecordIs(new, rec, doc)
  <2>1. rec.titleFirst + rec.titleCount <= Len(refs)
    BY <1>3, <1>7, <1>25
  <2> QED BY <2>1, <1>7, <1>29, <1>30, <1>31 DEF RecordIs, n
<1> QED BY <1>22, <1>27, <1>28, <1>31, <1>32 DEF new

NoStrings == [arena |-> <<>>, refs |-> <<>>, records |-> <<>>]

LEMMA StrungStep ==
    ASSUME NEW docs \in Seq(DocT), NEW n \in 1 .. Len(docs), NEW so \in StrungT
    PROVE  /\ StrungUp(so, docs[n]) \in StrungT
           /\ StrungAs(so, docs, n - 1) => StrungAs(StrungUp(so, docs[n]), docs, n)
<1> DEFINE doc == docs[n]
           new == StrungUp(so, doc)
<1>1. doc \in DocT /\ n \in Nat
  OBVIOUS
<1>2. /\ new \in StrungT
      /\ Grown(so.arena, new.arena)
      /\ Grown(so.refs, new.refs)
      /\ Len(new.records) = Len(so.records) + 1
      /\ \A i \in 1 .. Len(so.records) : new.records[i] = so.records[i]
      /\ RecordIs(new, new.records[Len(so.records) + 1], doc)
  BY <1>1, StrungUpIs
<1> HIDE DEF new
<1>3. ASSUME StrungAs(so, docs, n - 1)
      PROVE  StrungAs(new, docs, n)
  <2>1. Len(so.records) = n - 1 /\ \A i \in 1 .. n - 1 : RecordIs(so, so.records[i], docs[i])
    BY <1>3 DEF StrungAs
  <2>2. Len(new.records) = n /\ Len(so.records) + 1 = n
    BY <1>1, <1>2, <2>1
  <2>3. so.records \in Seq(RecordT)
    BY DEF StrungT
  <2>4. \A i \in 1 .. n : RecordIs(new, new.records[i], docs[i])
    <3> TAKE i \in 1 .. n
    <3>1. CASE i = n
      BY <3>1, <2>2, <1>2
    <3>2. CASE i # n
      <4>1. i \in 1 .. n - 1
        BY <3>2, <1>1
      <4>2. new.records[i] = so.records[i] /\ so.records[i] \in RecordT /\ RecordIs(so, so.records[i], docs[i])
        BY <4>1, <2>1, <2>3, <1>2
      <4>3. RecordIs(new, so.records[i], docs[i])
        BY <4>2, <1>2, RecordGrown
      <4> QED BY <4>2, <4>3
    <3> QED BY <3>1, <3>2
  <2> QED BY <2>2, <2>4, <1>2 DEF StrungAs
<1> QED BY <1>2, <1>3 DEF new

LEMMA StrungIs ==
    ASSUME NEW docs \in Seq(DocT)
    PROVE  StrungAs(Strung(docs), docs, Len(docs))
<1> DEFINE N == Len(docs)
           S == StrungT
           base == NoStrings
           F(x, n) == StrungUp(x, docs[n])
           step == [n \in 1 .. N |-> [x \in S |-> F(x, n)]]
           Body(g) == [n \in 0 .. N |-> IF n = 0 THEN [arena |-> <<>>, refs |-> <<>>, records |-> <<>>]
                                        ELSE StrungUp(g[n - 1], docs[n])]
           after == CHOOSE g : g = Body(g)
           Q(x, n) == StrungAs(x, docs, n)
<1>1. N \in Nat
  OBVIOUS
<1>2. \A n \in 1 .. N : \A x \in S : F(x, n) \in S /\ (Q(x, n - 1) => Q(F(x, n), n))
  <2> TAKE n \in 1 .. N
  <2> TAKE x \in S
  <2> QED BY StrungStep
<1>3. base \in S /\ Q(base, 0)
  <2>1. <<>> \in Seq(ByteT) /\ <<>> \in Seq(RefT) /\ <<>> \in Seq(RecordT) /\ Len(<<>>) = 0 /\ 1 .. 0 = {}
    OBVIOUS
  <2>2. base \in S /\ base.records = <<>>
    BY <2>1 DEF StrungT, NoStrings
  <2> QED BY <2>1, <2>2 DEF StrungAs
<1>4. Strung(docs) = after[N]
  BY Zenon DEF Strung
<1>5. \A g : Body(g) = [n \in 0 .. N |-> IF n = 0 THEN base ELSE F(g[n - 1], n)]
  BY Zenon DEF NoStrings
<1> HIDE DEF N, S, base, F, Q, Body
<1>6. step \in Steps(N, S)
  BY <1>2 DEF Steps
<1> HIDE DEF step
<1>7. PICK f : Leads(N, S, base, step, f)
  BY <1>1, <1>3, <1>6, Recursion
<1>8. f \in [0 .. N -> S] /\ f[0] = base /\ \A n \in 1 .. N : f[n] = F(f[n - 1], n)
  <2>1. f \in [0 .. N -> S] /\ f[0] = base /\ \A n \in 1 .. N : f[n] = step[n][f[n - 1]]
    BY <1>7 DEF Leads
  <2>2. \A n \in 1 .. N : n - 1 \in 0 .. N
    BY <1>1
  <2>3. \A n \in 1 .. N : f[n - 1] \in S
    BY <2>1, <2>2
  <2> QED BY <2>1, <2>3 DEF step
<1>9. f = Body(f)
  <2>1. \A n \in 0 .. N : f[n] = IF n = 0 THEN base ELSE F(f[n - 1], n)
    <3> TAKE n \in 0 .. N
    <3>1. n # 0 => n \in 1 .. N
      BY <1>1
    <3> QED BY <3>1, <1>8
  <2>2. f = [n \in 0 .. N |-> f[n]]
    BY <1>8
  <2> QED BY <2>1, <2>2, <1>5
<1>10. \E g : g = Body(g)
  BY <1>9
<1>11. after = Body(after)
  BY <1>10
<1> HIDE DEF after
<1>12. after[0] = base /\ \A n \in 1 .. N : after[n] = F(after[n - 1], n)
  <2>1. \A n \in 0 .. N : after[n] = IF n = 0 THEN base ELSE F(after[n - 1], n)
    BY <1>5, <1>11
  <2>2. 0 \in 0 .. N /\ \A n \in 1 .. N : n \in 0 .. N /\ n # 0
    BY <1>1
  <2> QED BY <2>1, <2>2
<1> DEFINE D == {n \in 0 .. N : after[n] \in S /\ Q(after[n], n)}
<1>13. 0 .. N \subseteq D
  <2>1. 0 \in D
    BY <1>1, <1>3, <1>12
  <2>2. \A n \in 1 .. N : n - 1 \in D => n \in D
    BY <1>1, <1>2, <1>12
  <2> HIDE DEF D
  <2> QED BY <1>1, <2>1, <2>2, Induction
<1>14. N \in 0 .. N
  BY <1>1
<1>15. Q(after[N], N)
  BY <1>13, <1>14
<1> QED BY <1>4, <1>15 DEF Q, N

\* The words of a string, joined, are the string.
LEMMA WordsTogether ==
    ASSUME NEW string \in Seq(Terms)
    PROVE  FlattenSeq([i \in 1 .. Len(string) |-> <<string[i]>>]) = string
<1> DEFINE n == Len(string)
           seqs == [i \in 1 .. n |-> <<string[i]>>]
           flat == FlattenSeq(seqs)
           at == Laid(0, Lens(seqs))
<1>1. n \in Nat /\ \A i \in 1 .. n : string[i] \in Terms
  OBVIOUS
<1>2. seqs \in Seq(Seq(Terms)) /\ Len(seqs) = n
      /\ \A i \in 1 .. n : Len(seqs[i]) = 1 /\ seqs[i][1] = string[i]
  <2>1. seqs = [i \in 1 .. n |-> seqs[i]] /\ \A i \in 1 .. n : seqs[i] = <<string[i]>>
    OBVIOUS
  <2>2. \A i \in 1 .. n : seqs[i] \in Seq(Terms) /\ Len(seqs[i]) = 1 /\ seqs[i][1] = string[i]
    <3> HIDE DEF seqs, n
    <3> TAKE i \in 1 .. n
    <3> DEFINE x == string[i]
    <3>1. x \in Terms /\ seqs[i] = <<x>>
      BY <1>1, <2>1
    <3> HIDE DEF x
    <3>2. <<x>> \in Seq(Terms) /\ Len(<<x>>) = 1 /\ <<x>>[1] = x
      BY <3>1
    <3> QED BY <3>1, <3>2 DEF x
  <2> HIDE DEF seqs, n
  <2> DEFINE S == Seq(Terms)
  <2>3. \A i \in 1 .. n : seqs[i] \in S
    BY <2>2
  <2> HIDE DEF S
  <2>4. seqs \in Seq(S) /\ Len(seqs) = n
    BY <2>1, <2>3, <1>1
  <2> QED BY <2>2, <2>4 DEF S
<1> HIDE DEF seqs
<1>3. /\ at \in [1 .. n + 1 -> Nat] /\ at[1] = 0
      /\ \A i \in 1 .. n : at[i + 1] = at[i] + Len(seqs[i])
  BY <1>2, LensAre
<1>4. Strings(flat, seqs, Terms)
  BY <1>2, FlattenIs
<1>5. /\ flat \in Seq(Terms) /\ Len(flat) = at[n + 1]
      /\ \A i \in 1 .. n : \A j \in 1 .. Len(seqs[i]) : flat[at[i] + j] = seqs[i][j]
  BY <1>2, <1>4 DEF Strings
<1> HIDE DEF at, flat, n
<1>6. \A i \in 1 .. n : at[i + 1] = at[i] + 1 /\ flat[at[i] + 1] = string[i]
  <2> TAKE i \in 1 .. n
  <2>3. Len(seqs[i]) = 1
    BY <1>2
  <2>4. at[i + 1] = at[i] + Len(seqs[i])
    BY <1>3
  <2>1. 1 \in 1 .. Len(seqs[i]) /\ at[i + 1] = at[i] + 1
    BY <2>3, <2>4
  <2>2. flat[at[i] + 1] = seqs[i][1]
    BY <2>1, <1>5
  <2> QED BY <2>1, <2>2, <1>2
<1> DEFINE D == {m \in 0 .. n : at[m + 1] = m}
<1>7. 0 .. n \subseteq D
  <2>1. 0 \in D
    BY <1>1, <1>3
  <2>2. \A m \in 1 .. n : m - 1 \in D => m \in D
    <3> TAKE m \in 1 .. n
    <3> HAVE m - 1 \in D
    <3>1. (m - 1) + 1 = m
      BY <1>1
    <3>2. at[m] = m - 1
      BY <3>1
    <3>3. at[m + 1] = m
      BY <3>1, <3>2, <1>6
    <3> QED BY <3>3, <1>1
  <2> HIDE DEF D
  <2> QED BY <1>1, <2>1, <2>2, Induction
<1>8. \A i \in 1 .. n : flat[i] = string[i]
  <2> TAKE i \in 1 .. n
  <2>1. i - 1 \in 0 .. n /\ (i - 1) + 1 = i
    BY <1>1
  <2>2. at[i] = i - 1
    BY <2>1, <1>7
  <2> QED BY <2>1, <2>2, <1>6
<1>9. Len(flat) = n
  <2>1. n \in 0 .. n
    BY <1>1
  <2> QED BY <2>1, <1>5, <1>7
<1>10. flat = string
  BY <1>5, <1>8, <1>9 DEF n
<1> QED BY <1>10 DEF flat, seqs, n

\* What is read of a record is the document.
LEMMA MetadataIs ==
    ASSUME NEW blob, blob.arena \in Seq(ByteT), blob.refs \in Seq(RefT),
           NEW rec \in RecordT, NEW doc \in DocT, RecordIs(blob, rec, doc)
    PROVE  Metadata(blob, rec) = doc
<1> DEFINE n == Len(doc.title)
           f == rec.titleFirst
           texts == [i \in 1 .. rec.titleCount |-> TextAt(blob, blob.refs[f + i])]
           plain == [i \in 1 .. n |-> <<doc.title[i]>>]
<1>1. /\ doc.url \in Seq(Terms) /\ doc.title \in Seq(Terms) /\ n \in Nat
      /\ \A i \in 1 .. n : doc.title[i] \in Terms
  <2>1. doc.url \in Seq(Terms) /\ doc.title \in Seq(Terms)
    BY DEF DocT
  <2> QED BY <2>1
<1>2. rec.url \in RefT /\ f \in Nat
  BY DEF RecordT
<1>3. /\ rec.start = doc.start /\ rec.end = doc.end /\ rec.bodyLength = doc.bodyLength
      /\ Stands(blob.arena, rec.url, doc.url)
      /\ rec.titleCount = n
      /\ f + n <= Len(blob.refs)
      /\ \A i \in 1 .. n : Stands(blob.arena, blob.refs[f + i], <<doc.title[i]>>)
  BY DEF RecordIs
<1>4. TextAt(blob, rec.url) = doc.url
  BY <1>1, <1>2, <1>3, TextIs
<1>5. \A i \in 1 .. n : TextAt(blob, blob.refs[f + i]) = <<doc.title[i]>>
  <2> TAKE i \in 1 .. n
  <2> HIDE DEF n, f
  <2> DEFINE r == blob.refs
             w == doc.title[i]
             p == f + i
  <2>1. p \in 1 .. Len(r)
    <3>1. Len(r) \in Nat
      OBVIOUS
    <3> HIDE DEF r
    <3> QED BY <3>1, <1>1, <1>2, <1>3 DEF r
  <2>2. r[p] \in RefT
    <3> HIDE DEF p
    <3> QED BY <2>1
  <2>3. w \in Terms
    BY <1>1
  <2> HIDE DEF w
  <2>4. <<w>> \in Seq(Terms)
    BY <2>3
  <2>5. Stands(blob.arena, r[p], <<w>>)
    BY <1>3 DEF w
  <2> HIDE DEF r, p
  <2>6. TextAt(blob, r[p]) = <<w>>
    BY <2>2, <2>4, <2>5, TextIs
  <2> QED BY <2>6 DEF r, p, w
<1>6. texts = plain
  <2> HIDE DEF n, f
  <2> QED BY <1>3, <1>5
<1>7. FlattenSeq(texts) = doc.title
  <2>1. FlattenSeq(plain) = doc.title
    BY <1>1, WordsTogether
  <2> HIDE DEF texts, plain
  <2> QED BY <2>1, <1>6
<1> DEFINE url == TextAt(blob, rec.url)
           title == FlattenSeq(texts)
<1>8. Metadata(blob, rec) = [start |-> rec.start, end |-> rec.end, bodyLength |-> rec.bodyLength,
                             url |-> url, title |-> title]
  BY DEF Metadata
<1> HIDE DEF url, title
<1>9. Metadata(blob, rec) = [start |-> doc.start, end |-> doc.end, bodyLength |-> doc.bodyLength,
                             url |-> doc.url, title |-> doc.title]
  BY <1>3, <1>4, <1>7, <1>8 DEF url, title
<1> QED BY <1>9 DEF DocT

-----------------------------------------------------------------------------
(* The sections of a blob. *)

\* The sections of the blob of a builder.
EntriesOf(ib) == Entries(ib.dictionary)

BucketsOf(ib) == NumBuckets(Len(EntriesOf(ib)))

ChainsOf(ib) == Chains(EntriesOf(ib), BucketsOf(ib))

LinksOf(ib) == Links(ChainsOf(ib), BucketsOf(ib))

TitlesAt(ib) == 128 + 64 * Len(ib.docs)

DictAt(ib) == TitlesAt(ib) + 8 * Len(Strung(ib.docs).refs)

TupleSizes(ib) ==
    [k \in DOMAIN LinksOf(ib) |->
        IF LinksOf(ib)[k] = 0 THEN 8 ELSE TupleSize(EntriesOf(ib)[LinksOf(ib)[k]])]

TupleAt(ib) == Laid(DictAt(ib) + 8 + 8 * BucketsOf(ib), TupleSizes(ib))

ListSizes(ib) ==
    [i \in DOMAIN EntriesOf(ib) |-> RoundUp(ListBytes(ib.lists[EntriesOf(ib)[i]]))]

ListAt(ib) == Laid(Last(TupleAt(ib)), ListSizes(ib))

TupleStored(ib, i) ==
    IF i = 0 THEN [length |-> 0]
    ELSE [length |-> TupleSize(EntriesOf(ib)[i]), list |-> ListAt(ib)[i],
          hash |-> Hash[EntriesOf(ib)[i]], term |-> EntriesOf(ib)[i]]

LEMMA BlobIs ==
    ASSUME NEW ib
    PROVE  /\ Blob(ib).docs = Strung(ib.docs).records
           /\ Blob(ib).refs = Strung(ib.docs).refs
           /\ Blob(ib).arena = Strung(ib.docs).arena
           /\ Blob(ib).buckets =
                 [b \in 0 .. BucketsOf(ib) - 1 |->
                     IF ChainsOf(ib)[b] = <<>> THEN 0
                     ELSE TupleAt(ib)[CHOOSE k \in DOMAIN LinksOf(ib) :
                                         LinksOf(ib)[k] = ChainsOf(ib)[b][1]]]
           /\ Blob(ib).tuples =
                 [off \in {TupleAt(ib)[k] : k \in DOMAIN LinksOf(ib)} |->
                     TupleStored(ib, LinksOf(ib)[CHOOSE k \in DOMAIN LinksOf(ib) : TupleAt(ib)[k] = off])]
           /\ Blob(ib).lists =
                 [off \in {ListAt(ib)[i] : i \in DOMAIN EntriesOf(ib)} |->
                     ib.lists[EntriesOf(ib)[CHOOSE i \in DOMAIN EntriesOf(ib) : ListAt(ib)[i] = off]]]
  BY Zenon DEF Blob, EntriesOf, BucketsOf, ChainsOf, LinksOf, TitlesAt, DictAt, TupleSizes, TupleAt,
               ListSizes, ListAt, TupleStored

\* RoundUp leads to the next multiple of eight.
LEMMA RoundUpIs ==
    ASSUME NEW n \in Nat
    PROVE  RoundUp(n) \in Nat /\ RoundUp(n) >= n /\ RoundUp(n) % 8 = 0
<1> DEFINE q == (n + 7) \div 8
           r == (n + 7) % 8
<1>1. q \in Nat /\ r \in 0 .. 7 /\ n + 7 = 8 * q + r
  OBVIOUS
<1>2. RoundUp(n) = q * 8
  BY DEF RoundUp
<1> HIDE DEF q, r
<1>3. (q * 8) % 8 = 0 /\ q * 8 \in Nat /\ q * 8 >= n
  BY <1>1
<1> QED BY <1>2, <1>3

LEMMA TupleSizeIs ==
    ASSUME NEW t \in Terms
    PROVE  /\ TupleBytes(t) \in Nat \ {0}
           /\ TupleSize(t) \in Nat \ {0} /\ TupleSize(t) >= TupleBytes(t) /\ TupleSize(t) % 8 = 0
<1>1. TermLen[t] \in Nat \ {0}
  BY LenOf
<1>2. TupleBytes(t) \in Nat \ {0}
  <2> DEFINE l == TermLen[t]
  <2> HIDE DEF l
  <2>1. l \in Nat \ {0}
    BY <1>1 DEF l
  <2>2. TupleBytes(t) = 24 + l + 1
    BY DEF TupleBytes, l
  <2> QED BY <2>1, <2>2
<1> DEFINE b == TupleBytes(t)
<1>3. RoundUp(b) \in Nat /\ RoundUp(b) >= b /\ RoundUp(b) % 8 = 0
  BY <1>2, RoundUpIs
<1>4. TupleSize(t) = RoundUp(b)
  BY DEF TupleSize
<1> HIDE DEF b
<1> QED BY <1>2, <1>3, <1>4 DEF b

LEMMA ListBytesIs ==
    ASSUME NEW pl \in ListT
    PROVE  /\ ListBytes(pl) \in Nat \ {0}
           /\ RoundUp(ListBytes(pl)) \in Nat \ {0} /\ RoundUp(ListBytes(pl)) >= ListBytes(pl)
           /\ RoundUp(ListBytes(pl)) % 8 = 0
<1> DEFINE p == Len(pl.posts)
           s == Len(pl.seeks)
           b == ListBytes(pl)
<1>1. p \in Nat /\ s \in Nat
  <2>1. pl.posts \in Seq(PostT) /\ pl.seeks \in Seq(SeekT)
    BY DEF ListT
  <2> QED BY <2>1
<1>2. b = 24 + 4 * p + 8 * s
  BY DEF ListBytes
<1> HIDE DEF p, s, b
<1>3. b \in Nat \ {0}
  BY <1>1, <1>2
<1>4. RoundUp(b) \in Nat /\ RoundUp(b) >= b /\ RoundUp(b) % 8 = 0
  BY <1>3, RoundUpIs
<1> QED BY <1>3, <1>4 DEF b

LEMMA OfSequence ==
    ASSUME NEW T, NEW s \in Seq(T)
    PROVE  Len(s) \in Nat /\ DOMAIN s = 1 .. Len(s) /\ \A i \in 1 .. Len(s) : s[i] \in T
  OBVIOUS

\* The entries of a builder, and the chains and links of its dictionary.
LEMMA EntriesOfIs ==
    ASSUME NEW ib \in Builders
    PROVE  /\ Listing(EntriesOf(ib), ib.dictionary)
           /\ EntriesOf(ib) \in Seq(Terms)
           /\ Len(EntriesOf(ib)) \in Nat
           /\ DOMAIN EntriesOf(ib) = 1 .. Len(EntriesOf(ib))
           /\ \A i \in 1 .. Len(EntriesOf(ib)) : EntriesOf(ib)[i] \in Terms
           /\ BucketsOf(ib) \in Nat \ {0}
           /\ ChainsOf(ib) \in ChainT(Len(EntriesOf(ib)), BucketsOf(ib))
           /\ ChainsAs(ChainsOf(ib), EntriesOf(ib), BucketsOf(ib), Len(EntriesOf(ib)))
           /\ LinksAs(LinksOf(ib), ChainsOf(ib), BucketsOf(ib), Len(EntriesOf(ib)))
           /\ \A i \in 1 .. Len(EntriesOf(ib)) : ib.lists[EntriesOf(ib)[i]] \in ListT
<1>1. /\ ib.dictionary \in TableT /\ Sound(ib.dictionary)
      /\ ib.lists \in [Keys(ib.dictionary) -> ListT]
  BY BuilderIs
<1>2. PICK n \in Nat \ {0} : ib.dictionary \in Tables(n)
  BY <1>1 DEF TableT
<1> DEFINE entries == EntriesOf(ib)
<1>3. Listing(entries, ib.dictionary)
  BY <1>1, <1>2, EntriesAre DEF EntriesOf
<1>4. entries \in Seq(Terms)
  BY <1>3 DEF Listing
<1>5. Len(entries) \in Nat /\ DOMAIN entries = 1 .. Len(entries) /\ \A i \in 1 .. Len(entries) : entries[i] \in Terms
  BY <1>4, OfSequence
<1>6. BucketsOf(ib) \in Nat \ {0}
  BY <1>5, NumBucketsIs DEF BucketsOf
<1>7. /\ ChainsOf(ib) \in ChainT(Len(entries), BucketsOf(ib))
      /\ ChainsAs(ChainsOf(ib), entries, BucketsOf(ib), Len(entries))
  BY <1>4, <1>6, ChainsAre DEF ChainsOf
<1>8. LinksAs(LinksOf(ib), ChainsOf(ib), BucketsOf(ib), Len(entries))
  BY <1>5, <1>6, <1>7, LinksAre DEF LinksOf
<1>9. \A i \in 1 .. Len(entries) : ib.lists[entries[i]] \in ListT
  BY <1>1, <1>3 DEF Listing
<1> QED BY <1>3, <1>4, <1>5, <1>6, <1>7, <1>8, <1>9

\* Where the tuples and the lists are.
SpacedAs(at, sizes, n) ==
    /\ sizes \in Seq(Nat)
    /\ Len(sizes) = n
    /\ \A i \in 1 .. n : sizes[i] \in Nat \ {0} /\ sizes[i] % 8 = 0
    /\ LaidAs(at, at[1], sizes)
    /\ at \in [1 .. n + 1 -> Nat \ {0}]
    /\ at[1] % 8 = 0
    /\ Last(at) = at[n + 1]

TuplesLaid(ib) ==
    /\ SpacedAs(TupleAt(ib), TupleSizes(ib), Len(LinksOf(ib)))
    /\ TupleAt(ib)[1] = DictAt(ib) + 8 + 8 * BucketsOf(ib)

ListsLaid(ib) ==
    /\ SpacedAs(ListAt(ib), ListSizes(ib), Len(EntriesOf(ib)))
    /\ ListAt(ib)[1] = TupleAt(ib)[Len(LinksOf(ib)) + 1]

LEMMA SpacedIs ==
    ASSUME NEW start \in Nat \ {0}, start % 8 = 0, NEW sizes, NEW n \in Nat,
           DOMAIN sizes = 1 .. n, sizes = [i \in 1 .. n |-> sizes[i]],
           \A i \in 1 .. n : sizes[i] \in Nat \ {0} /\ sizes[i] % 8 = 0
    PROVE  SpacedAs(Laid(start, sizes), sizes, n) /\ Laid(start, sizes)[1] = start
<1> DEFINE at == Laid(start, sizes)
<1>1. sizes \in Seq(Nat) /\ Len(sizes) = n
  OBVIOUS
<1>2. LaidAs(at, start, sizes)
  BY <1>1, LaidIs
<1> HIDE DEF at
<1>3. at[1] = start /\ at \in [1 .. n + 1 -> Nat]
  BY <1>1, <1>2 DEF LaidAs
<1>4. \A i \in 1 .. n + 1 : at[i] \in Nat \ {0}
  <2> TAKE i \in 1 .. n + 1
  <2>1. at[1] <= at[i] /\ at[i] \in Nat
    <3>1. 1 \in 1 .. n + 1 /\ 1 <= i
      OBVIOUS
    <3> QED BY <1>1, <1>2, <1>3, <3>1, LaidGrows
  <2> QED BY <1>3, <2>1
<1>5. at \in [1 .. n + 1 -> Nat \ {0}]
  BY <1>3, <1>4
<1>6. Last(at) = at[n + 1]
  BY <1>3, LastIs
<1> QED BY <1>1, <1>2, <1>3, <1>5, <1>6 DEF SpacedAs, at

\* A thing after others is behind each of them, and the end after all.
LEMMA SpacedEnd ==
    ASSUME NEW at, NEW sizes, NEW n \in Nat, SpacedAs(at, sizes, n)
    PROVE  Last(at) \in Nat \ {0} /\ Last(at) % 8 = 0 /\ \A i \in 1 .. n + 1 : at[i] % 8 = 0
<1>1. \A i \in 1 .. n + 1 : at[i] % 8 = 0
  <2>1. at[1] \in Nat
    <3>1. 1 \in 1 .. n + 1
      OBVIOUS
    <3> QED BY <3>1 DEF SpacedAs
  <2>2. sizes \in Seq(Nat) /\ Len(sizes) = n /\ LaidAs(at, at[1], sizes) /\ at[1] % 8 = 0
        /\ \A i \in 1 .. n : sizes[i] % 8 = 0
    BY DEF SpacedAs
  <2> QED BY <2>1, <2>2, LaidAligned
<1>2. n + 1 \in 1 .. n + 1
  OBVIOUS
<1>3. Last(at) = at[n + 1] /\ at[n + 1] \in Nat \ {0}
  BY <1>2 DEF SpacedAs
<1> QED BY <1>1, <1>2, <1>3

\* Two of them are never at one address.
LEMMA AddressesDiffer ==
    ASSUME NEW at, NEW sizes, NEW n \in Nat, SpacedAs(at, sizes, n)
    PROVE  \A i, j \in 1 .. n : at[i] = at[j] => i = j
<1>1. \A i, j \in 1 .. n : i < j => at[i] # at[j]
  <2> TAKE i, j \in 1 .. n
  <2>1. HAVE i < j
  <2>2. at[1] \in Nat /\ at[i] \in Nat /\ at[j] \in Nat /\ sizes[i] \in Nat \ {0}
    <3>1. 1 \in 1 .. n + 1 /\ i \in 1 .. n + 1 /\ j \in 1 .. n + 1
      OBVIOUS
    <3> QED BY <3>1 DEF SpacedAs
  <2>3. sizes \in Seq(Nat) /\ Len(sizes) = n /\ LaidAs(at, at[1], sizes)
    BY DEF SpacedAs
  <2>4. i \in 1 .. Len(sizes) + 1 /\ j \in 1 .. Len(sizes) + 1 /\ i <= j
    BY <2>1, <2>3
  <2>5. at[i] + sizes[i] <= at[j]
    BY <2>1, <2>2, <2>3, <2>4, LaidGrows
  <2> QED BY <2>2, <2>5
<1> QED BY <1>1

LEMMA StrungTyped ==
    ASSUME NEW ib \in Builders
    PROVE  /\ Strung(ib.docs) \in StrungT
           /\ Len(Strung(ib.docs).refs) \in Nat /\ Len(Strung(ib.docs).arena) \in Nat
           /\ Len(ib.docs) \in Nat
<1>1. ib.docs \in Seq(DocT) /\ Len(ib.docs) \in Nat
  BY BuilderIs
<1>2. Strung(ib.docs) \in StrungT
  BY <1>1, StrungIs DEF StrungAs
<1>3. Strung(ib.docs).refs \in Seq(RefT) /\ Strung(ib.docs).arena \in Seq(ByteT)
  BY <1>2 DEF StrungT
<1> QED BY <1>1, <1>2, <1>3, OfSequence

LEMMA TuplesLaidIs ==
    ASSUME NEW ib \in Builders
    PROVE  TuplesLaid(ib)
<1> DEFINE entries == EntriesOf(ib)
           links == LinksOf(ib)
           n == Len(entries)
           N == Len(links)
           sizes == TupleSizes(ib)
           d == Len(ib.docs)
           r == Len(Strung(ib.docs).refs)
           b == BucketsOf(ib)
           start == DictAt(ib) + 8 + 8 * b
<1>1. d \in Nat /\ r \in Nat /\ b \in Nat
  BY StrungTyped, EntriesOfIs
<1>2. start = 128 + 64 * d + 8 * r + 8 + 8 * b
  BY DEF DictAt, TitlesAt
<1>3. \A i \in 1 .. n : entries[i] \in Terms
  BY EntriesOfIs
<1>4. links \in Seq(0 .. n)
  BY EntriesOfIs DEF LinksAs
<1>5. N \in Nat /\ DOMAIN links = 1 .. N /\ \A k \in 1 .. N : links[k] \in 0 .. n
  BY <1>4, OfSequence
<1>6. sizes = [k \in 1 .. N |-> IF links[k] = 0 THEN 8 ELSE TupleSize(entries[links[k]])]
  BY <1>5 DEF TupleSizes
<1>7. n \in Nat
  BY EntriesOfIs
<1> HIDE DEF d, r, b, n, N, sizes, start, links, entries
<1>8. start \in Nat \ {0} /\ start % 8 = 0
  <2> DEFINE q == 16 + 8 * d + r + 1 + b
  <2>1. q \in Nat \ {0} /\ start = q * 8
    BY <1>1, <1>2
  <2> HIDE DEF q
  <2> QED BY <2>1
<1>9. \A k \in 1 .. N : sizes[k] \in Nat \ {0} /\ sizes[k] % 8 = 0
  <2> TAKE k \in 1 .. N
  <2>1. CASE links[k] = 0
    <3>1. sizes[k] = 8
      BY <1>6, <2>1
    <3> QED BY <3>1
  <2>2. CASE links[k] # 0
    <3>1. links[k] \in 1 .. n
      BY <1>5, <1>7, <2>2
    <3>2. sizes[k] = TupleSize(entries[links[k]])
      BY <1>6, <2>2
    <3>3. entries[links[k]] \in Terms
      BY <1>3, <3>1
    <3> QED BY <3>2, <3>3, TupleSizeIs
  <2> QED BY <2>1, <2>2
<1>10. DOMAIN sizes = 1 .. N /\ sizes = [k \in 1 .. N |-> sizes[k]]
  BY <1>6
<1>11. SpacedAs(Laid(start, sizes), sizes, N) /\ Laid(start, sizes)[1] = start
  BY <1>5, <1>8, <1>9, <1>10, SpacedIs
<1> QED BY <1>11 DEF TuplesLaid, TupleAt, start, sizes, N, links, b

LEMMA ListsLaidIs ==
    ASSUME NEW ib \in Builders
    PROVE  ListsLaid(ib)
<1> DEFINE entries == EntriesOf(ib)
           n == Len(entries)
           sizes == ListSizes(ib)
           N == Len(LinksOf(ib))
           start == Last(TupleAt(ib))
<1>1. /\ n \in Nat /\ DOMAIN entries = 1 .. n
      /\ \A i \in 1 .. n : ib.lists[entries[i]] \in ListT
  BY EntriesOfIs
<1>2. N \in Nat
  <2>1. LinksOf(ib) \in Seq(0 .. n)
    BY EntriesOfIs DEF LinksAs
  <2> QED BY <2>1, OfSequence
<1>3. SpacedAs(TupleAt(ib), TupleSizes(ib), N)
  BY TuplesLaidIs DEF TuplesLaid
<1>4. start \in Nat \ {0} /\ start % 8 = 0
  BY <1>2, <1>3, SpacedEnd
<1>5. start = TupleAt(ib)[N + 1]
  BY <1>3 DEF SpacedAs
<1>6. sizes = [i \in 1 .. n |-> RoundUp(ListBytes(ib.lists[entries[i]]))]
  BY <1>1 DEF ListSizes
<1> HIDE DEF n, N, sizes, start, entries
<1>7. \A i \in 1 .. n : sizes[i] \in Nat \ {0} /\ sizes[i] % 8 = 0
  <2> TAKE i \in 1 .. n
  <2>1. ib.lists[entries[i]] \in ListT
    BY <1>1
  <2>2. sizes[i] = RoundUp(ListBytes(ib.lists[entries[i]]))
    BY <1>6
  <2> QED BY <2>1, <2>2, ListBytesIs
<1>8. DOMAIN sizes = 1 .. n /\ sizes = [i \in 1 .. n |-> sizes[i]]
  BY <1>6
<1>9. SpacedAs(Laid(start, sizes), sizes, n) /\ Laid(start, sizes)[1] = start
  BY <1>1, <1>4, <1>7, <1>8, SpacedIs
<1> QED BY <1>5, <1>9 DEF ListsLaid, ListAt, start, sizes, n, N, entries

-----------------------------------------------------------------------------
(* Looking a word up. *)

\* The tuples of a blob are where the links of its dictionary say.
LEMMA TuplesAsIs ==
    ASSUME NEW ib \in Builders
    PROVE  TuplesAs(Blob(ib), LinksOf(ib), EntriesOf(ib), TupleAt(ib), ListAt(ib), Len(LinksOf(ib)))
<1> DEFINE entries == EntriesOf(ib)
           links == LinksOf(ib)
           n == Len(entries)
           N == Len(links)
           at == TupleAt(ib)
           sizes == TupleSizes(ib)
           tuples == Blob(ib).tuples
<1>1. links \in Seq(0 .. n) /\ \A p \in 1 .. Len(links) : links[p] # 0 => p < Len(links)
  BY EntriesOfIs DEF LinksAs
<1>2. N \in Nat /\ DOMAIN links = 1 .. N /\ \A k \in 1 .. N : links[k] \in 0 .. n
  BY <1>1, OfSequence
<1>3. n \in Nat /\ \A i \in 1 .. n : entries[i] \in Terms
  BY EntriesOfIs
<1>4. SpacedAs(at, sizes, N)
  BY TuplesLaidIs DEF TuplesLaid
<1>5. \A k, j \in 1 .. N : at[k] = at[j] => k = j
  BY <1>2, <1>4, AddressesDiffer
<1>6. tuples = [off \in {at[k] : k \in 1 .. N} |->
                   TupleStored(ib, links[CHOOSE k \in 1 .. N : at[k] = off])]
  <2>1. tuples = [off \in {at[k] : k \in DOMAIN links} |->
                   TupleStored(ib, links[CHOOSE k \in DOMAIN links : at[k] = off])]
    BY BlobIs
  <2> HIDE DEF tuples, at, links
  <2> QED BY <1>2, <2>1
<1>7. \A k \in 1 .. N : at[k + 1] = at[k] + sizes[k] /\ sizes[k] \in Nat \ {0}
  <2>1. LaidAs(at, at[1], sizes) /\ Len(sizes) = N /\ \A k \in 1 .. N : sizes[k] \in Nat \ {0}
    BY <1>4 DEF SpacedAs
  <2> QED BY <2>1 DEF LaidAs
<1>8. sizes = [k \in 1 .. N |-> IF links[k] = 0 THEN 8 ELSE TupleSize(entries[links[k]])]
  <2>1. sizes = [k \in DOMAIN links |-> IF links[k] = 0 THEN 8 ELSE TupleSize(entries[links[k]])]
    BY DEF TupleSizes
  <2> HIDE DEF sizes, links, entries
  <2> QED BY <1>2, <2>1
<1> HIDE DEF n, N, at, sizes, tuples, links, entries
<1>9. DOMAIN tuples = {at[k] : k \in 1 .. N}
  BY <1>6
<1>10. \A k \in 1 .. N : tuples[at[k]] = TupleStored(ib, links[k])
  <2> TAKE k \in 1 .. N
  <2> DEFINE j == CHOOSE j \in 1 .. N : at[j] = at[k]
  <2>1. j \in 1 .. N /\ at[j] = at[k]
    OBVIOUS
  <2>2. tuples[at[k]] = TupleStored(ib, links[j])
    BY <1>6
  <2> HIDE DEF j
  <2>3. j = k
    BY <1>5, <2>1
  <2> QED BY <2>2, <2>3
<1>11. \A k \in 1 .. N : links[k] = 0 => tuples[at[k]].length = 0
  <2> TAKE k \in 1 .. N
  <2>1. HAVE links[k] = 0
  <2>2. tuples[at[k]] = [length |-> 0]
    BY <1>10, <2>1 DEF TupleStored
  <2> QED BY <2>2
<1>12. \A k \in 1 .. N : links[k] # 0 =>
          /\ k < N
          /\ tuples[at[k]].length \in Nat \ {0}
          /\ at[k] + tuples[at[k]].length = at[k + 1]
          /\ tuples[at[k]].term = entries[links[k]]
          /\ tuples[at[k]].hash = Hash[entries[links[k]]]
          /\ tuples[at[k]].list = ListAt(ib)[links[k]]
  <2> TAKE k \in 1 .. N
  <2>1. HAVE links[k] # 0
  <2>2. tuples[at[k]] = TupleStored(ib, links[k])
    BY <1>10
  <2>3. TupleStored(ib, links[k]) = [length |-> TupleSize(entries[links[k]]), list |-> ListAt(ib)[links[k]],
                                     hash |-> Hash[entries[links[k]]], term |-> entries[links[k]]]
    BY <2>1 DEF TupleStored, entries
  <2>4. sizes[k] = TupleSize(entries[links[k]])
    BY <1>8, <2>1
  <2>5. sizes[k] \in Nat \ {0} /\ at[k + 1] = at[k] + sizes[k]
    BY <1>7
  <2>6. k < N
    BY <1>1, <2>1 DEF N
  <2> QED BY <2>2, <2>3, <2>4, <2>5, <2>6
<1>13. TuplesAs(Blob(ib), links, entries, at, ListAt(ib), N)
  BY <1>5, <1>9, <1>11, <1>12 DEF TuplesAs, tuples
<1> QED BY <1>13 DEF links, entries, at, N

\* Each list is stored at its address.
LEMMA ListsStored ==
    ASSUME NEW ib \in Builders, NEW i \in 1 .. Len(EntriesOf(ib))
    PROVE  /\ ListAt(ib)[i] \in Nat \ {0}
           /\ Blob(ib).lists[ListAt(ib)[i]] = ib.lists[EntriesOf(ib)[i]]
<1> DEFINE entries == EntriesOf(ib)
           n == Len(entries)
           at == ListAt(ib)
           lists == Blob(ib).lists
<1>1. n \in Nat /\ DOMAIN entries = 1 .. n
  BY EntriesOfIs
<1>2. SpacedAs(at, ListSizes(ib), n)
  BY ListsLaidIs DEF ListsLaid
<1>3. \A k, j \in 1 .. n : at[k] = at[j] => k = j
  BY <1>1, <1>2, AddressesDiffer
<1>4. lists = [off \in {at[k] : k \in DOMAIN entries} |->
                  ib.lists[entries[CHOOSE k \in DOMAIN entries : at[k] = off]]]
  BY BlobIs
<1>5. i \in 1 .. n
  OBVIOUS
<1> HIDE DEF n, at, lists, entries
<1>6. at[i] \in Nat \ {0}
  <2>1. i \in 1 .. n + 1
    BY <1>1, <1>5
  <2> QED BY <1>2, <2>1 DEF SpacedAs
<1> DEFINE j == CHOOSE k \in DOMAIN entries : at[k] = at[i]
<1>7. j \in 1 .. n /\ at[j] = at[i]
  BY <1>1, <1>5
<1>8. lists[at[i]] = ib.lists[entries[j]]
  BY <1>1, <1>4, <1>5
<1> HIDE DEF j
<1>9. j = i
  BY <1>3, <1>5, <1>7
<1> QED BY <1>6, <1>8, <1>9 DEF at, lists, entries

LEMMA BucketsAre ==
    ASSUME NEW ib \in Builders
    PROVE  /\ Cardinality(DOMAIN Blob(ib).buckets) = BucketsOf(ib)
           /\ \A b \in 0 .. BucketsOf(ib) - 1 :
                 Blob(ib).buckets[b] =
                     IF ChainsOf(ib)[b] = <<>> THEN 0
                     ELSE TupleAt(ib)[CHOOSE k \in DOMAIN LinksOf(ib) :
                                         LinksOf(ib)[k] = ChainsOf(ib)[b][1]]
<1> DEFINE E(b) == IF ChainsOf(ib)[b] = <<>> THEN 0
                   ELSE TupleAt(ib)[CHOOSE k \in DOMAIN LinksOf(ib) : LinksOf(ib)[k] = ChainsOf(ib)[b][1]]
           buckets == Blob(ib).buckets
           B == BucketsOf(ib)
<1>1. buckets = [b \in 0 .. B - 1 |-> E(b)]
  BY BlobIs
<1>2. B \in Nat \ {0}
  BY EntriesOfIs
<1> HIDE DEF E, buckets, B
<1>3. DOMAIN buckets = 0 .. B - 1 /\ \A b \in 0 .. B - 1 : buckets[b] = E(b)
  BY <1>1
<1>4. Cardinality(0 .. B - 1) = B
  BY <1>2, FS_Interval
<1> QED BY <1>3, <1>4 DEF E, buckets, B

\* The bucket of a chain leads to the first tuple of the chain.
LEMMA ChainBegins ==
    ASSUME NEW ib \in Builders, NEW b \in 0 .. BucketsOf(ib) - 1, ChainsOf(ib)[b] # <<>>
    PROVE  \E k \in Nat : /\ Run(LinksOf(ib), ChainsOf(ib)[b], k)
                          /\ Blob(ib).buckets[b] = TupleAt(ib)[k + 1]
                          /\ TupleAt(ib)[k + 1] \in Nat \ {0}
<1> DEFINE entries == EntriesOf(ib)
           links == LinksOf(ib)
           chains == ChainsOf(ib)
           B == BucketsOf(ib)
           n == Len(entries)
           N == Len(links)
           c == chains[b]
           at == TupleAt(ib)
<1>1. /\ n \in Nat /\ B \in Nat \ {0} /\ chains \in ChainT(n, B)
      /\ LinksAs(links, chains, B, n)
      /\ ChainsAs(chains, entries, B, n)
  BY EntriesOfIs
<1>2. c \in Seq(1 .. n)
  BY <1>1 DEF ChainT
<1>3. Len(c) \in Nat \ {0}
  BY <1>2, NoneIn
<1>4. links \in Seq(0 .. n) /\ \A p, q \in 1 .. N : links[p] # 0 /\ links[p] = links[q] => p = q
  BY <1>1 DEF LinksAs
<1>5. N \in Nat /\ DOMAIN links = 1 .. N
  BY <1>4, OfSequence
<1>6. PICK k \in Nat : Run(links, c, k)
  BY <1>1 DEF LinksAs
<1>7. Blob(ib).buckets[b] = at[CHOOSE j \in DOMAIN links : links[j] = c[1]]
  BY BucketsAre
<1>8. SpacedAs(at, TupleSizes(ib), N)
  BY TuplesLaidIs DEF TuplesLaid
<1>9. c[1] \in 1 .. n
  BY <1>2, <1>3
<1> HIDE DEF n, N, at, links, entries, c, B, chains
<1>10. k + 1 \in 1 .. N /\ links[k + 1] = c[1]
  <2> DEFINE l == Len(c)
  <2>1. k + l + 1 <= Len(links) /\ \A j \in 1 .. l : links[k + j] = c[j]
    BY <1>6 DEF Run
  <2>2. l \in Nat \ {0} /\ Len(links) = N
    BY <1>3 DEF N
  <2> HIDE DEF l
  <2>3. 1 \in 1 .. l
    BY <2>2
  <2> QED BY <1>5, <2>1, <2>2, <2>3
<1> DEFINE j == CHOOSE j \in DOMAIN links : links[j] = c[1]
<1>11. j \in 1 .. N /\ links[j] = c[1]
  BY <1>5, <1>10
<1> HIDE DEF j
<1>12. j = k + 1
  BY <1>4, <1>9, <1>10, <1>11
<1>13. Blob(ib).buckets[b] = at[k + 1]
  BY <1>7, <1>12 DEF j
<1>14. at[k + 1] \in Nat \ {0}
  <2>1. k + 1 \in 1 .. N + 1
    BY <1>5, <1>10
  <2> QED BY <1>8, <2>1 DEF SpacedAs
<1> QED BY <1>6, <1>13, <1>14 DEF links, c, chains, at

\* The walk for a word finds the list of the word, and none for a word that is no key.
LEMMA FoundIs ==
    ASSUME NEW ib \in Builders, NEW t \in Terms
    PROVE  /\ t \notin Keys(ib.dictionary) => FindTermOffset(Blob(ib), t) = 0
           /\ \A i \in 1 .. Len(EntriesOf(ib)) :
                 EntriesOf(ib)[i] = t => FindTermOffset(Blob(ib), t) = ListAt(ib)[i]
<1> DEFINE blob == Blob(ib)
           entries == EntriesOf(ib)
           links == LinksOf(ib)
           chains == ChainsOf(ib)
           B == BucketsOf(ib)
           n == Len(entries)
           N == Len(links)
           at == TupleAt(ib)
           lists == ListAt(ib)
           g == WalkFrom(blob, t)
           b == Hash[t] % B
           c == chains[b]
<1>1. /\ n \in Nat /\ B \in Nat \ {0} /\ chains \in ChainT(n, B)
      /\ LinksAs(links, chains, B, n)
      /\ ChainsAs(chains, entries, B, n)
      /\ Listing(entries, ib.dictionary)
  BY EntriesOfIs
<1>2. b \in 0 .. B - 1
  BY <1>1, HashOf
<1>3. c \in Seq(1 .. n)
  BY <1>1, <1>2 DEF ChainT
<1>4. FindTermOffset(blob, t) = IF blob.buckets[BucketOf(blob, t)] = 0 THEN 0
                                ELSE g[blob.buckets[BucketOf(blob, t)]]
  BY Zenon DEF FindTermOffset, WalkFrom, WalkBody
<1>5. BucketOf(blob, t) = b
  BY BucketsAre DEF BucketOf
<1>6. links \in Seq(0 .. n) /\ N \in Nat
  <2>1. links \in Seq(0 .. n)
    BY <1>1 DEF LinksAs
  <2> QED BY <2>1, OfSequence
<1>7. TuplesAs(blob, links, entries, at, lists, N)
  BY TuplesAsIs
<1>8. \A i \in 1 .. n : lists[i] \in Nat
  BY ListsStored
<1>9. \A k \in 1 .. N : links[k] # 0 => lists[links[k]] \in Nat
  <2> TAKE k \in 1 .. N
  <2>1. HAVE links[k] # 0
  <2>2. links[k] \in 0 .. n
    BY <1>6
  <2> HIDE DEF n, links, lists
  <2>3. links[k] \in 1 .. n
    BY <1>1, <2>1, <2>2
  <2> QED BY <1>8, <2>3
<1>10. Reached(g, links, entries, at, lists, N, t)
  BY <1>6, <1>7, <1>9, WalkReaches
<1>11. blob.buckets[b] = IF c = <<>> THEN 0
                         ELSE at[CHOOSE k \in DOMAIN links : links[k] = c[1]]
  BY <1>2, BucketsAre
<1>12. c # <<>> => \E k \in Nat : Run(links, c, k) /\ blob.buckets[b] = at[k + 1] /\ at[k + 1] \in Nat \ {0}
  BY <1>2, ChainBegins
<1>13. /\ \A m \in 1 .. Len(c) : c[m] \in 1 .. n
       /\ \A m, j \in 1 .. Len(c) : c[m] = c[j] => m = j
  BY <1>1, <1>2 DEF ChainsAs
<1>14. /\ \A p \in 1 .. n : entries[p] \in Keys(ib.dictionary)
       /\ \A p, q \in 1 .. n : entries[p] = entries[q] => p = q
  BY <1>1 DEF Listing
<1>15. \A i \in 1 .. n : entries[i] = t => \E m \in 1 .. Len(c) : c[m] = i
  <2> TAKE i \in 1 .. n
  <2>1. HAVE entries[i] = t
  <2> QED BY <1>1, <2>1 DEF ChainsAs
<1>16. Len(c) \in Nat /\ (c = <<>> <=> Len(c) = 0)
  BY <1>3, NoneIn
<1> HIDE DEF g, n, N, at, lists, links, entries, c, b, B, chains, blob
<1>17. \A k \in Nat : Run(links, c, k) =>
          /\ (\A j \in 1 .. Len(c) : entries[c[j]] # t) => g[at[k + 1]] = 0
          /\ \A i \in 1 .. Len(c) :
                entries[c[i]] = t /\ (\A j \in 1 .. Len(c) : entries[c[j]] = t => j = i)
                    => g[at[k + 1]] = lists[c[i]]
  <2> TAKE k \in Nat
  <2>1. HAVE Run(links, c, k)
  <2>2. Len(links) = N
    BY DEF N
  <2> QED BY ONLY <1>1, <1>3, <1>6, <1>10, <2>1, <2>2, WalkIs, k \in Nat
<1>18. t \notin Keys(ib.dictionary) => FindTermOffset(blob, t) = 0
  <2>1. HAVE t \notin Keys(ib.dictionary)
  <2>2. \A j \in 1 .. Len(c) : entries[c[j]] # t
    BY <1>13, <1>14, <2>1
  <2>3. CASE c = <<>>
    BY <1>4, <1>5, <1>11, <2>3
  <2>4. CASE c # <<>>
    <3>1. PICK k \in Nat : Run(links, c, k) /\ blob.buckets[b] = at[k + 1] /\ at[k + 1] \in Nat \ {0}
      BY <1>12, <2>4
    <3>2. g[at[k + 1]] = 0
      BY <1>17, <2>2, <3>1
    <3> QED BY <1>4, <1>5, <3>1, <3>2
  <2> QED BY <2>3, <2>4
<1>19. ASSUME NEW i \in 1 .. n, entries[i] = t
       PROVE  FindTermOffset(blob, t) = lists[i]
  <2>1. PICK m \in 1 .. Len(c) : c[m] = i
    BY <1>15, <1>19
  <2>2. c # <<>>
    BY <1>16
  <2>3. PICK k \in Nat : Run(links, c, k) /\ blob.buckets[b] = at[k + 1] /\ at[k + 1] \in Nat \ {0}
    BY <1>12, <2>2
  <2>4. \A j \in 1 .. Len(c) : entries[c[j]] = t => j = m
    <3> TAKE j \in 1 .. Len(c)
    <3>1. HAVE entries[c[j]] = t
    <3>2. c[j] \in 1 .. n
      BY <1>13
    <3>3. c[j] = c[m]
      BY <1>14, <1>19, <2>1, <3>1, <3>2
    <3> QED BY <1>13, <3>3
  <2>5. entries[c[m]] = t
    BY <1>19, <2>1
  <2>6. g[at[k + 1]] = lists[c[m]]
    BY <1>17, <2>3, <2>4, <2>5
  <2> QED BY <1>4, <1>5, <2>1, <2>3, <2>6
<1> QED BY <1>18, <1>19 DEF blob, entries, lists, n

\* A word that is looked up has its list.
LEMMA ViewIs ==
    ASSUME NEW ib \in Builders, NEW t \in Terms
    PROVE  ViewOf(Blob(ib), t) = GetPostingList(ib, t)
<1>1. CASE t \in Keys(ib.dictionary)
  <2>1. GetPostingList(ib, t) = ib.lists[t]
    BY <1>1, Got
  <2>2. PICK i \in 1 .. Len(EntriesOf(ib)) : EntriesOf(ib)[i] = t
    BY <1>1, EntriesOfIs DEF Listing
  <2>3. FindTermOffset(Blob(ib), t) = ListAt(ib)[i]
    BY <2>2, FoundIs
  <2>4. ListAt(ib)[i] \in Nat \ {0} /\ Blob(ib).lists[ListAt(ib)[i]] = ib.lists[t]
    BY <2>2, ListsStored
  <2>5. ListAt(ib)[i] # 0
    BY <2>4
  <2> QED BY <2>1, <2>3, <2>4, <2>5 DEF ViewOf
<1>2. CASE t \notin Keys(ib.dictionary)
  <2>1. GetPostingList(ib, t) = EmptyList
    BY <1>2, Got
  <2>2. FindTermOffset(Blob(ib), t) = 0
    BY <1>2, FoundIs
  <2> QED BY <2>1, <2>2 DEF ViewOf
<1> QED BY <1>1, <1>2

-----------------------------------------------------------------------------
(* The extents of a blob. *)

ExtentT == Nat \X Nat

EndsBefore(e, f) == e[1] + e[2] <= f[1]

\* It is enough that each thing ends before the next.
LEMMA ApartFromNext ==
    ASSUME NEW ext \in Seq(ExtentT),
           \A i \in 1 .. Len(ext) : ext[i][1] % 8 = 0,
           \A i \in 1 .. Len(ext) : i + 1 \in 1 .. Len(ext) => EndsBefore(ext[i], ext[i + 1])
    PROVE  ApartIn(ext)
<1> DEFINE L == Len(ext)
           P(i, d) == i + 1 + d \in 1 .. L => ext[i][1] + ext[i][2] <= ext[i + 1 + d][1]
           D == {d \in 0 .. L : \A i \in 1 .. L : P(i, d)}
<1>1. L \in Nat /\ DOMAIN ext = 1 .. L /\ \A i \in 1 .. L : ext[i][1] \in Nat /\ ext[i][2] \in Nat
  <2>1. L \in Nat /\ DOMAIN ext = 1 .. L /\ \A i \in 1 .. L : ext[i] \in ExtentT
    BY OfSequence
  <2> HIDE DEF L
  <2> QED BY <2>1 DEF ExtentT
<1>2. 0 \in D
  <2> SUFFICES ASSUME NEW i \in 1 .. L PROVE P(i, 0)
    BY <1>1
  <2>1. i + 1 + 0 = i + 1
    OBVIOUS
  <2> QED BY <2>1 DEF EndsBefore
<1>3. ASSUME NEW d \in 1 .. L, d - 1 \in D PROVE d \in D
  <2> SUFFICES ASSUME NEW i \in 1 .. L PROVE P(i, d)
    BY <1>1
  <2> SUFFICES ASSUME i + 1 + d \in 1 .. L PROVE ext[i][1] + ext[i][2] <= ext[i + 1 + d][1]
    OBVIOUS
  <2> DEFINE m == i + d
  <2>1. m \in 1 .. L /\ i + 1 + (d - 1) = m /\ i + 1 + d = m + 1 /\ m + 1 \in 1 .. L
    BY <1>1
  <2>2. ext[i][1] + ext[i][2] <= ext[m][1]
    <3>1. P(i, d - 1)
      BY <1>3
    <3> HIDE DEF m
    <3> QED BY <2>1, <3>1
  <2> HIDE DEF m
  <2>3. ext[m][1] + ext[m][2] <= ext[m + 1][1]
    BY <2>1 DEF EndsBefore
  <2>4. ext[i][1] + ext[i][2] <= ext[m + 1][1]
    BY <1>1, <2>1, <2>2, <2>3
  <2> QED BY <2>1, <2>4
<1> HIDE DEF L
<1>4. 0 .. L \subseteq D
  <2> HIDE DEF D
  <2> QED BY <1>1, <1>2, <1>3, Induction
<1>5. ASSUME NEW i \in 1 .. L, NEW j \in i + 1 .. L
      PROVE  ext[i][1] + ext[i][2] <= ext[j][1]
  <2> DEFINE d == j - i - 1
  <2>1. d \in 0 .. L /\ i + 1 + d = j /\ j \in 1 .. L
    BY <1>1, <1>5
  <2> HIDE DEF d
  <2>2. P(i, d)
    BY <1>4, <2>1
  <2> QED BY <2>1, <2>2
<1> QED BY <1>1, <1>5 DEF ApartIn, L

HeadExtents(ib) == << <<0, 128>>, <<128, TitlesAt(ib) - 128>>,
                      <<TitlesAt(ib), 8 * Len(Strung(ib.docs).refs)>>,
                      <<DictAt(ib), 8 + 8 * BucketsOf(ib)>> >>

TupleExtents(ib) ==
    [k \in DOMAIN LinksOf(ib) |->
        <<TupleAt(ib)[k], IF LinksOf(ib)[k] = 0 THEN 8
                          ELSE TupleBytes(EntriesOf(ib)[LinksOf(ib)[k]])>>]

ListExtents(ib) ==
    [i \in DOMAIN EntriesOf(ib) |-> <<ListAt(ib)[i], ListBytes(ib.lists[EntriesOf(ib)[i]])>>]

LastExtent(ib) == <<Last(ListAt(ib)), Len(Strung(ib.docs).arena)>>

LEMMA ExtentsAre ==
    ASSUME NEW ib
    PROVE  Blob(ib).extents =
               ((HeadExtents(ib) \o TupleExtents(ib)) \o ListExtents(ib)) \o <<LastExtent(ib)>>
  BY Zenon DEF Blob, EntriesOf, BucketsOf, ChainsOf, LinksOf, TitlesAt, DictAt, TupleSizes, TupleAt,
               ListSizes, ListAt, HeadExtents, TupleExtents, ListExtents, LastExtent

\* Some things, each before the next and the last before an end.
Row(ext, n, end) ==
    /\ ext \in Seq(ExtentT)
    /\ Len(ext) = n
    /\ \A i \in 1 .. n : ext[i][1] % 8 = 0
    /\ \A i \in 1 .. n : i + 1 \in 1 .. n => EndsBefore(ext[i], ext[i + 1])
    /\ \A i \in 1 .. n : i = n => ext[i][1] + ext[i][2] <= end

LEMMA HeadIs ==
    ASSUME NEW ib \in Builders
    PROVE  Row(HeadExtents(ib), 4, TupleAt(ib)[1])
<1> DEFINE d == Len(ib.docs)
           r == Len(Strung(ib.docs).refs)
           b == BucketsOf(ib)
           t == TitlesAt(ib)
           dict == DictAt(ib)
           end == TupleAt(ib)[1]
           ext == HeadExtents(ib)
<1>1. d \in Nat /\ r \in Nat /\ b \in Nat
  BY StrungTyped, EntriesOfIs
<1>2. t = 128 + 64 * d /\ dict = t + 8 * r
  BY DEF TitlesAt, DictAt
<1>3. end = dict + 8 + 8 * b
  BY TuplesLaidIs DEF TuplesLaid
<1>4. ext = << <<0, 128>>, <<128, t - 128>>, <<t, 8 * r>>, <<dict, 8 + 8 * b>> >>
  BY DEF HeadExtents
<1> HIDE DEF d, r, b, t, dict, end, ext
<1>5. t \in Nat /\ dict \in Nat /\ t - 128 \in Nat /\ 8 * r \in Nat /\ 8 + 8 * b \in Nat
  BY <1>1, <1>2
<1>6. t % 8 = 0 /\ dict % 8 = 0
  <2> DEFINE q == 16 + 8 * d
             p == 16 + 8 * d + r
  <2>1. q \in Nat /\ p \in Nat /\ t = q * 8 /\ dict = p * 8
    BY <1>1, <1>2
  <2> HIDE DEF q, p
  <2> QED BY <2>1
<1>7. ext \in Seq(ExtentT) /\ Len(ext) = 4
  <2> DEFINE a1 == <<0, 128>>
             a2 == <<128, t - 128>>
             a3 == <<t, 8 * r>>
             a4 == <<dict, 8 + 8 * b>>
  <2>1. a1 \in ExtentT /\ a2 \in ExtentT /\ a3 \in ExtentT /\ a4 \in ExtentT
    BY <1>5 DEF ExtentT
  <2>2. ext = <<a1, a2, a3, a4>>
    BY <1>4
  <2> HIDE DEF a1, a2, a3, a4
  <2> QED BY <2>1, <2>2
<1>8. /\ ext[1] = <<0, 128>> /\ ext[2] = <<128, t - 128>>
      /\ ext[3] = <<t, 8 * r>> /\ ext[4] = <<dict, 8 + 8 * b>>
  BY <1>4
<1>9. ext[1][1] % 8 = 0 /\ ext[2][1] % 8 = 0 /\ ext[3][1] % 8 = 0 /\ ext[4][1] % 8 = 0
  BY <1>6, <1>8
<1>10. EndsBefore(ext[1], ext[2]) /\ EndsBefore(ext[2], ext[3]) /\ EndsBefore(ext[3], ext[4])
  BY <1>1, <1>2, <1>5, <1>8 DEF EndsBefore
<1>11. ext[4][1] + ext[4][2] <= end
  BY <1>1, <1>3, <1>5, <1>8
<1>12. \A i \in 1 .. 4 : i = 1 \/ i = 2 \/ i = 3 \/ i = 4
  OBVIOUS
<1>13. \A i \in 1 .. 4 : ext[i][1] % 8 = 0
  BY <1>9, <1>12
<1>14. \A i \in 1 .. 4 : i + 1 \in 1 .. 4 => EndsBefore(ext[i], ext[i + 1])
  <2> TAKE i \in 1 .. 4
  <2>1. HAVE i + 1 \in 1 .. 4
  <2>2. CASE i = 1
    BY <1>10, <2>2
  <2>3. CASE i = 2
    BY <1>10, <2>3
  <2>4. CASE i = 3
    BY <1>10, <2>4
  <2>5. i # 4
    BY <2>1
  <2> QED BY <1>12, <2>2, <2>3, <2>4, <2>5
<1> QED BY <1>7, <1>11, <1>13, <1>14 DEF Row, ext, end

\* Things of sizes that are not greater than the room there is for them.
LEMMA RowIs ==
    ASSUME NEW at, NEW sizes, NEW n \in Nat, SpacedAs(at, sizes, n),
           NEW ext, DOMAIN ext = 1 .. n,
           ext = [i \in 1 .. n |-> <<ext[i][1], ext[i][2]>>],
           \A i \in 1 .. n : ext[i][1] = at[i] /\ ext[i][2] \in Nat /\ ext[i][2] <= sizes[i]
    PROVE  Row(ext, n, at[n + 1])
<1>1. \A i \in 1 .. n + 1 : at[i] \in Nat
  BY DEF SpacedAs
<1>2. \A i \in 1 .. n : sizes[i] \in Nat /\ at[i + 1] = at[i] + sizes[i]
  BY DEF SpacedAs, LaidAs
<1>3. \A i \in 1 .. n + 1 : at[i] % 8 = 0
  BY SpacedEnd
<1>4. ext \in Seq(ExtentT) /\ Len(ext) = n
  <2>1. \A i \in 1 .. n : ext[i] \in ExtentT
    <3> TAKE i \in 1 .. n
    <3>1. ext[i] = <<ext[i][1], ext[i][2]>>
      BY Zenon
    <3>2. ext[i][1] \in Nat /\ ext[i][2] \in Nat
      <4>1. i \in 1 .. n + 1
        OBVIOUS
      <4> QED BY <1>1, <4>1
    <3> DEFINE a == ext[i][1]
               b == ext[i][2]
    <3> HIDE DEF a, b
    <3>3. <<a, b>> \in ExtentT
      BY <3>2 DEF ExtentT, a, b
    <3> QED BY <3>1, <3>3 DEF a, b
  <2>2. ext = [i \in 1 .. n |-> ext[i]]
    BY Zenon
  <2> QED BY <2>1, <2>2
<1>5. \A i \in 1 .. n : ext[i][1] + ext[i][2] <= at[i + 1]
  <2> TAKE i \in 1 .. n
  <2>1. i \in 1 .. n + 1
    OBVIOUS
  <2> QED BY <1>1, <1>2, <2>1
<1>6. \A i \in 1 .. n : ext[i][1] % 8 = 0
  <2> TAKE i \in 1 .. n
  <2>1. i \in 1 .. n + 1
    OBVIOUS
  <2> QED BY <1>3, <2>1
<1>7. \A i \in 1 .. n : i + 1 \in 1 .. n => EndsBefore(ext[i], ext[i + 1])
  BY <1>5 DEF EndsBefore
<1> QED BY <1>4, <1>5, <1>6, <1>7 DEF Row

LEMMA TupleExtentsAre ==
    ASSUME NEW ib \in Builders
    PROVE  /\ Row(TupleExtents(ib), Len(LinksOf(ib)), TupleAt(ib)[Len(LinksOf(ib)) + 1])
           /\ \A k \in 1 .. Len(LinksOf(ib)) : TupleExtents(ib)[k][1] = TupleAt(ib)[k]
<1> DEFINE entries == EntriesOf(ib)
           links == LinksOf(ib)
           n == Len(entries)
           N == Len(links)
           at == TupleAt(ib)
           sizes == TupleSizes(ib)
           ext == TupleExtents(ib)
           S(k) == IF links[k] = 0 THEN 8 ELSE TupleBytes(entries[links[k]])
<1>1. links \in Seq(0 .. n)
  BY EntriesOfIs DEF LinksAs
<1>2. N \in Nat /\ DOMAIN links = 1 .. N /\ \A k \in 1 .. N : links[k] \in 0 .. n
  BY <1>1, OfSequence
<1>3. n \in Nat /\ \A i \in 1 .. n : entries[i] \in Terms
  BY EntriesOfIs
<1>4. SpacedAs(at, sizes, N)
  BY TuplesLaidIs DEF TuplesLaid
<1>5. sizes = [k \in DOMAIN links |-> IF links[k] = 0 THEN 8 ELSE TupleSize(entries[links[k]])]
  BY DEF TupleSizes
<1>6. ext = [k \in DOMAIN links |-> <<at[k], S(k)>>]
  BY DEF TupleExtents
<1> HIDE DEF n, N, at, sizes, links, entries, ext
<1>7. \A k \in 1 .. N : S(k) \in Nat /\ S(k) <= sizes[k]
  <2> TAKE k \in 1 .. N
  <2>1. CASE links[k] = 0
    <3>1. sizes[k] = 8 /\ S(k) = 8
      BY <1>2, <1>5, <2>1
    <3> HIDE DEF S
    <3> QED BY <3>1
  <2>2. CASE links[k] # 0
    <3>1. links[k] \in 1 .. n
      BY <1>2, <1>3, <2>2
    <3>2. sizes[k] = TupleSize(entries[links[k]]) /\ S(k) = TupleBytes(entries[links[k]])
      BY <1>2, <1>5, <2>2
    <3>3. entries[links[k]] \in Terms
      BY <1>3, <3>1
    <3> HIDE DEF S
    <3>4. TupleBytes(entries[links[k]]) \in Nat /\ TupleBytes(entries[links[k]]) <= TupleSize(entries[links[k]])
      BY <3>3, TupleSizeIs
    <3> QED BY <3>2, <3>4
  <2> QED BY <2>1, <2>2
<1> HIDE DEF S
<1>8. DOMAIN ext = 1 .. N /\ \A k \in 1 .. N : ext[k] = <<at[k], S(k)>>
  BY <1>2, <1>6
<1>9. \A k \in 1 .. N : ext[k][1] = at[k] /\ ext[k][2] = S(k)
  BY <1>8
<1>10. ext = [k \in 1 .. N |-> <<ext[k][1], ext[k][2]>>]
  BY <1>2, <1>6, <1>9
<1>11. \A k \in 1 .. N : ext[k][1] = at[k] /\ ext[k][2] \in Nat /\ ext[k][2] <= sizes[k]
  BY <1>7, <1>9
<1>12. Row(ext, N, at[N + 1])
  BY <1>2, <1>4, <1>8, <1>10, <1>11, RowIs
<1> QED BY <1>9, <1>12 DEF ext, N, at, links

LEMMA ListExtentsAre ==
    ASSUME NEW ib \in Builders
    PROVE  /\ Row(ListExtents(ib), Len(EntriesOf(ib)), ListAt(ib)[Len(EntriesOf(ib)) + 1])
           /\ \A i \in 1 .. Len(EntriesOf(ib)) : ListExtents(ib)[i][1] = ListAt(ib)[i]
<1> DEFINE entries == EntriesOf(ib)
           n == Len(entries)
           at == ListAt(ib)
           sizes == ListSizes(ib)
           ext == ListExtents(ib)
           S(i) == ListBytes(ib.lists[entries[i]])
<1>1. /\ n \in Nat /\ DOMAIN entries = 1 .. n
      /\ \A i \in 1 .. n : ib.lists[entries[i]] \in ListT
  BY EntriesOfIs
<1>2. SpacedAs(at, sizes, n)
  BY ListsLaidIs DEF ListsLaid
<1>3. sizes = [i \in DOMAIN entries |-> RoundUp(S(i))]
  BY DEF ListSizes
<1>4. ext = [i \in DOMAIN entries |-> <<at[i], S(i)>>]
  BY DEF ListExtents
<1>5. \A i \in 1 .. n : S(i) \in Nat /\ S(i) <= RoundUp(S(i))
  <2> TAKE i \in 1 .. n
  <2> DEFINE pl == ib.lists[entries[i]]
  <2>1. pl \in ListT
    BY <1>1
  <2> HIDE DEF pl
  <2>2. ListBytes(pl) \in Nat \ {0} /\ RoundUp(ListBytes(pl)) \in Nat \ {0}
        /\ RoundUp(ListBytes(pl)) >= ListBytes(pl)
    BY <2>1, ListBytesIs
  <2>3. ListBytes(pl) \in Nat /\ ListBytes(pl) <= RoundUp(ListBytes(pl))
    BY <2>2
  <2> QED BY <2>3 DEF pl
<1> HIDE DEF n, at, sizes, entries, ext, S
<1>6. DOMAIN ext = 1 .. n /\ \A i \in 1 .. n : ext[i] = <<at[i], S(i)>>
  BY <1>1, <1>4
<1>7. \A i \in 1 .. n : ext[i][1] = at[i] /\ ext[i][2] = S(i)
  BY <1>6
<1>8. ext = [i \in 1 .. n |-> <<ext[i][1], ext[i][2]>>]
  BY <1>1, <1>4, <1>7
<1>9. \A i \in 1 .. n : ext[i][1] = at[i] /\ ext[i][2] \in Nat /\ ext[i][2] <= sizes[i]
  <2> TAKE i \in 1 .. n
  <2>1. sizes[i] = RoundUp(S(i))
    BY <1>1, <1>3
  <2> QED BY <1>5, <1>7, <2>1
<1>10. Row(ext, n, at[n + 1])
  BY <1>1, <1>2, <1>6, <1>8, <1>9, RowIs
<1> QED BY <1>7, <1>10 DEF ext, n, at, entries

\* Two rows, one after the other.
LEMMA RowsJoin ==
    ASSUME NEW e, NEW n \in Nat, NEW middle, NEW f, NEW m \in Nat, NEW end,
           Row(e, n, middle), Row(f, m, end), n > 0, end \in Nat, middle \in Nat,
           middle <= end, m > 0 => f[1][1] = middle
    PROVE  Row(e \o f, n + m, end)
<1> DEFINE ef == e \o f
<1>1. /\ e \in Seq(ExtentT) /\ Len(e) = n /\ f \in Seq(ExtentT) /\ Len(f) = m
      /\ \A i \in 1 .. n : e[i][1] % 8 = 0
      /\ \A i \in 1 .. m : f[i][1] % 8 = 0
  BY DEF Row
<1>2. /\ \A i \in 1 .. n : i + 1 \in 1 .. n => EndsBefore(e[i], e[i + 1])
      /\ \A i \in 1 .. n : i = n => e[i][1] + e[i][2] <= middle
      /\ \A i \in 1 .. m : i + 1 \in 1 .. m => EndsBefore(f[i], f[i + 1])
      /\ \A i \in 1 .. m : i = m => f[i][1] + f[i][2] <= end
  BY DEF Row
<1>3. JoinedAs(ef, e, f) /\ ef \in Seq(ExtentT)
  BY <1>1, Joined
<1> HIDE DEF ef
<1>4. /\ Len(ef) = n + m
      /\ \A i \in 1 .. n : ef[i] = e[i]
      /\ \A i \in 1 .. m : ef[n + i] = f[i]
  BY <1>1, <1>3 DEF JoinedAs
<1>5. \A i \in 1 .. n + m : i \notin 1 .. n => i - n \in 1 .. m /\ ef[i] = f[i - n]
  <2> TAKE i \in 1 .. n + m
  <2>1. HAVE i \notin 1 .. n
  <2> DEFINE k == i - n
  <2>2. k \in 1 .. m /\ n + k = i
    BY <2>1
  <2> HIDE DEF k
  <2>3. ef[n + k] = f[k]
    BY <1>4, <2>2
  <2> QED BY <2>2, <2>3 DEF k
<1>6. \A i \in 1 .. n + m : ef[i][1] % 8 = 0
  <2> TAKE i \in 1 .. n + m
  <2>1. CASE i \in 1 .. n
    BY <1>1, <1>4, <2>1
  <2>2. CASE i \notin 1 .. n
    BY <1>1, <1>5, <2>2
  <2> QED BY <2>1, <2>2
<1>7. e[n][1] \in Nat /\ e[n][2] \in Nat /\ e[n][1] + e[n][2] <= middle
  <2>1. n \in 1 .. n
    OBVIOUS
  <2>2. e[n] \in ExtentT
    BY <1>1, <2>1
  <2> QED BY <1>2, <2>1, <2>2 DEF ExtentT
<1>8. \A i \in 1 .. n + m : i + 1 \in 1 .. n + m => EndsBefore(ef[i], ef[i + 1])
  <2> TAKE i \in 1 .. n + m
  <2>1. HAVE i + 1 \in 1 .. n + m
  <2>2. CASE i + 1 \in 1 .. n
    <3>1. i \in 1 .. n
      BY <2>2
    <3> QED BY <1>2, <1>4, <2>2, <3>1
  <2>3. CASE i = n
    <3>1. 1 \in 1 .. m /\ n \in 1 .. n
      BY <2>1, <2>3
    <3>2. ef[n] = e[n] /\ ef[n + 1] = f[1]
      BY <1>4, <3>1
    <3>3. f[1][1] = middle
      BY <3>1
    <3> QED BY <1>7, <2>3, <3>2, <3>3 DEF EndsBefore
  <2>4. CASE i \notin 1 .. n
    <3>1. i - n \in 1 .. m /\ ef[i] = f[i - n]
      BY <1>5, <2>4
    <3>2. i + 1 \notin 1 .. n
      BY <2>4
    <3>3. (i + 1) - n \in 1 .. m /\ ef[i + 1] = f[(i + 1) - n]
      BY <1>5, <2>1, <3>2
    <3>4. (i + 1) - n = (i - n) + 1
      OBVIOUS
    <3>5. EndsBefore(f[i - n], f[(i - n) + 1])
      BY <1>2, <3>1, <3>3, <3>4
    <3> QED BY <3>1, <3>3, <3>4, <3>5
  <2>5. i + 1 \in 1 .. n \/ i = n \/ i \notin 1 .. n
    OBVIOUS
  <2> QED BY <2>2, <2>3, <2>4, <2>5
<1>9. \A i \in 1 .. n + m : i = n + m => ef[i][1] + ef[i][2] <= end
  <2> TAKE i \in 1 .. n + m
  <2>1. HAVE i = n + m
  <2>2. CASE m = 0
    <3>1. i = n /\ ef[n] = e[n]
      BY <1>4, <2>1, <2>2
    <3> QED BY <1>7, <3>1
  <2>3. CASE m > 0
    <3>1. m \in 1 .. m
      BY <2>3
    <3>2. ef[n + m] = f[m] /\ f[m][1] + f[m][2] <= end
      BY <1>2, <1>4, <3>1
    <3> QED BY <2>1, <3>2
  <2> QED BY <2>2, <2>3
<1> QED BY <1>3, <1>4, <1>6, <1>8, <1>9 DEF Row, ef

LEMMA SpacedRises ==
    ASSUME NEW at, NEW sizes, NEW n \in Nat, SpacedAs(at, sizes, n)
    PROVE  at[1] \in Nat /\ at[n + 1] \in Nat /\ at[1] <= at[n + 1]
<1>1. 1 \in 1 .. n + 1 /\ n + 1 \in 1 .. n + 1 /\ 1 <= n + 1
  OBVIOUS
<1>2. at[1] \in Nat /\ at[n + 1] \in Nat /\ sizes \in Seq(Nat) /\ Len(sizes) = n /\ LaidAs(at, at[1], sizes)
  BY <1>1 DEF SpacedAs
<1> QED BY <1>1, <1>2, LaidGrows

\* No two things in a blob share a byte.
LEMMA BlobApart ==
    ASSUME NEW ib \in Builders
    PROVE  ApartIn(Blob(ib).extents)
<1> DEFINE h == HeadExtents(ib)
           e == TupleExtents(ib)
           f == ListExtents(ib)
           z == <<LastExtent(ib)>>
           N == Len(LinksOf(ib))
           n == Len(EntriesOf(ib))
           tat == TupleAt(ib)
           lat == ListAt(ib)
           a == Len(Strung(ib.docs).arena)
<1>1. N \in Nat /\ n \in Nat /\ a \in Nat
  <2>1. LinksOf(ib) \in Seq(0 .. n) /\ n \in Nat
    BY EntriesOfIs DEF LinksAs
  <2> QED BY <2>1, OfSequence, StrungTyped
<1>2. SpacedAs(tat, TupleSizes(ib), N) /\ SpacedAs(lat, ListSizes(ib), n) /\ lat[1] = tat[N + 1]
  BY TuplesLaidIs, ListsLaidIs DEF TuplesLaid, ListsLaid
<1>3. /\ Row(h, 4, tat[1])
      /\ Row(e, N, tat[N + 1]) /\ \A k \in 1 .. N : e[k][1] = tat[k]
      /\ Row(f, n, lat[n + 1]) /\ \A i \in 1 .. n : f[i][1] = lat[i]
  BY HeadIs, TupleExtentsAre, ListExtentsAre
<1>4. Blob(ib).extents = ((h \o e) \o f) \o z
  BY ExtentsAre
<1>5. z = <<<<lat[n + 1], a>>>>
  BY <1>2 DEF LastExtent, SpacedAs
<1>6. lat[n + 1] % 8 = 0
  <2>1. n + 1 \in 1 .. n + 1
    BY <1>1
  <2> HIDE DEF n, lat
  <2> QED BY <1>1, <1>2, <2>1, SpacedEnd
<1> HIDE DEF h, e, f, z, N, n, tat, lat, a
<1>7. tat[1] \in Nat /\ tat[N + 1] \in Nat /\ tat[1] <= tat[N + 1]
  BY <1>1, <1>2, SpacedRises
<1>8. lat[1] \in Nat /\ lat[n + 1] \in Nat /\ lat[1] <= lat[n + 1]
  BY <1>1, <1>2, SpacedRises
<1> DEFINE s == lat[n + 1]
           end == s + a
<1>9. Row(z, 1, end)
  <2> HIDE DEF s
  <2>1. s \in Nat /\ s % 8 = 0 /\ z = <<<<s, a>>>>
    BY <1>5, <1>6, <1>8 DEF s
  <2>2. <<s, a>> \in ExtentT
    BY <1>1, <2>1 DEF ExtentT
  <2> DEFINE x == <<s, a>>
  <2>3. x[1] = s /\ x[2] = a
    OBVIOUS
  <2>4. z = <<x>>
    BY <2>1
  <2> HIDE DEF x
  <2>5. z \in Seq(ExtentT) /\ Len(z) = 1 /\ z[1] = x
    BY <2>2, <2>4 DEF x
  <2> QED BY <1>1, <2>1, <2>3, <2>5 DEF Row
<1>10. Row(h \o e, 4 + N, tat[N + 1])
  <2>1. 4 \in Nat /\ 4 > 0
    OBVIOUS
  <2>2. N > 0 => e[1][1] = tat[1]
    BY <1>1, <1>3
  <2> QED BY <1>1, <1>3, <1>7, <2>1, <2>2, RowsJoin
<1>11. Row((h \o e) \o f, (4 + N) + n, lat[n + 1])
  <2>1. 4 + N \in Nat /\ 4 + N > 0
    BY <1>1
  <2>2. n > 0 => f[1][1] = tat[N + 1]
    BY <1>1, <1>2, <1>3
  <2>3. tat[N + 1] <= lat[n + 1]
    BY <1>2, <1>8
  <2> QED BY <1>1, <1>3, <1>7, <1>8, <1>10, <2>1, <2>2, <2>3, RowsJoin
<1>12. Row(((h \o e) \o f) \o z, ((4 + N) + n) + 1, end)
  <2>1. (4 + N) + n \in Nat /\ (4 + N) + n > 0 /\ 1 \in Nat
    BY <1>1
  <2>2. z[1][1] = s /\ s \in Nat /\ end \in Nat /\ s <= end
    <3>1. z[1] = <<s, a>>
      BY <1>5
    <3>2. z[1][1] = s
      BY <3>1
    <3> HIDE DEF s
    <3>3. s \in Nat
      BY <1>8 DEF s
    <3> QED BY <1>1, <3>2, <3>3
  <2>3. Row((h \o e) \o f, (4 + N) + n, s)
    BY <1>11
  <2> HIDE DEF s, end
  <2> QED BY <1>9, <2>1, <2>2, <2>3, RowsJoin
<1> DEFINE ext == ((h \o e) \o f) \o z
           L == ((4 + N) + n) + 1
<1>13. Row(ext, L, end)
  BY <1>12
<1> HIDE DEF ext, L, end
<1>14. ApartIn(ext)
  <2>1. /\ ext \in Seq(ExtentT) /\ Len(ext) = L
        /\ \A i \in 1 .. L : ext[i][1] % 8 = 0
        /\ \A i \in 1 .. L : i + 1 \in 1 .. L => EndsBefore(ext[i], ext[i + 1])
    BY <1>13 DEF Row
  <2> QED BY <2>1, ApartFromNext
<1> QED BY <1>4, <1>14 DEF ext

-----------------------------------------------------------------------------
(* A level that was loaded. *)

\* What is read of the documents of a blob is what was written.
LEMMA DocsRead ==
    ASSUME NEW ib \in Builders
    PROVE  Level(Blob(ib)).docs = ib.docs
<1> DEFINE so == Strung(ib.docs)
           blob == Blob(ib)
           docs == ib.docs
           n == Len(docs)
           recs == so.records
           read == [i \in 1 .. n |-> Metadata(blob, recs[i])]
<1>1. docs \in Seq(DocT) /\ n \in Nat
  BY BuilderIs
<1>2. StrungAs(so, docs, n)
  BY <1>1, StrungIs
<1>3. so \in StrungT /\ Len(recs) = n /\ \A i \in 1 .. n : RecordIs(so, recs[i], docs[i])
  BY <1>2 DEF StrungAs
<1>4. so.arena \in Seq(ByteT) /\ so.refs \in Seq(RefT) /\ recs \in Seq(RecordT)
  BY <1>3 DEF StrungT
<1>5. blob.docs = recs /\ blob.refs = so.refs /\ blob.arena = so.arena
  BY BlobIs
<1>6. Level(blob).docs = [i \in DOMAIN blob.docs |-> Metadata(blob, blob.docs[i])]
  BY DEF Level
<1> HIDE DEF blob, docs, n, recs, so
<1>7. DOMAIN recs = 1 .. n
  BY <1>3, <1>4, OfSequence
<1>8. Level(blob).docs = read
  BY <1>5, <1>6, <1>7
<1>9. \A i \in 1 .. n : Metadata(blob, recs[i]) = docs[i]
  <2> TAKE i \in 1 .. n
  <2>1. recs[i] \in RecordT /\ docs[i] \in DocT
    BY <1>1, <1>3, <1>4 DEF n
  <2>2. RecordIs(blob, recs[i], docs[i])
    <3>1. RecordIs(so, recs[i], docs[i])
      BY <1>3
    <3> QED BY <1>5, <3>1 DEF RecordIs
  <2>3. blob.arena \in Seq(ByteT) /\ blob.refs \in Seq(RefT)
    BY <1>4, <1>5
  <2> QED BY <2>1, <2>2, <2>3, MetadataIs
<1>10. read = docs
  <2>1. docs = [i \in 1 .. n |-> docs[i]]
    BY <1>1 DEF n
  <2> HIDE DEF read
  <2>2. read = [i \in 1 .. n |-> docs[i]]
    BY <1>9 DEF read
  <2> QED BY <2>1, <2>2
<1> QED BY <1>8, <1>10 DEF blob, docs

\* A level that was loaded from the blob of a builder.
LevelOf(lv, ib, pages) ==
    /\ lv.pages = pages
    /\ lv.extents = Blob(ib).extents
    /\ lv.docs = ib.docs
    /\ \A t \in Terms : lv.lists[t] = GetPostingList(ib, t)

LEMMA LoadedIs ==
    ASSUME NEW pages \in Seq(PageType)
    PROVE  Built(pages) \in Builders /\ LevelOf(Loaded(pages), Built(pages), pages)
<1> DEFINE ib == Built(pages)
           lv == Loaded(pages)
           blob == Blob(ib)
           read == Level(blob)
<1>1. ib \in Builders
  <2>1. BuiltFrom(ib, pages, Len(pages))
    BY BuiltIs
  <2> HIDE DEF ib
  <2> QED BY <2>1 DEF BuiltFrom, Tells
<1>2. lv = [pages |-> pages, extents |-> blob.extents, docs |-> read.docs, lists |-> read.lists]
  BY Zenon DEF Loaded
<1>3. read.lists = [t \in Terms |-> ViewOf(blob, t)]
  BY DEF Level
<1> HIDE DEF ib, lv, read
<1>4. lv.pages = pages /\ lv.extents = blob.extents /\ lv.docs = read.docs /\ lv.lists = read.lists
  <2> HIDE DEF blob
  <2> QED BY <1>2
<1>5. \A t \in Terms : lv.lists[t] = ViewOf(blob, t)
  <2> HIDE DEF blob
  <2> QED BY <1>3, <1>4
<1>6. \A t \in Terms : ViewOf(blob, t) = GetPostingList(ib, t)
  BY <1>1, ViewIs
<1>7. read.docs = ib.docs
  BY <1>1, DocsRead DEF read
<1> QED BY <1>1, <1>4, <1>5, <1>6, <1>7 DEF LevelOf, ib, lv

LEMMA LevelLooksUp ==
    ASSUME NEW lv, NEW pages, LevelOf(lv, Built(pages), pages)
    PROVE  LooksUpIn(lv)
  BY DEF LevelOf, LooksUpIn

LEMMA LevelApart ==
    ASSUME NEW lv, NEW pages, NEW ib \in Builders, LevelOf(lv, ib, pages)
    PROVE  ApartIn(lv.extents)
<1>1. lv.extents = Blob(ib).extents
  BY DEF LevelOf
<1> QED BY <1>1, BlobApart

LEMMA LevelDescribes ==
    ASSUME NEW lv, NEW pages \in Seq(PageType), NEW ib, LevelOf(lv, ib, pages),
           BuiltFrom(ib, pages, Len(pages))
    PROVE  DescribesIn(lv)
<1>1. lv.pages = pages /\ lv.docs = ib.docs
  BY DEF LevelOf
<1>2. Chronicle(ib.docs, pages, Len(pages))
  BY DEF BuiltFrom
<1>3. DOMAIN pages = 1 .. Len(pages)
  BY OfSequence
<1> QED BY <1>1, <1>2, <1>3 DEF DescribesIn, Chronicle, NumDocs

-----------------------------------------------------------------------------
(* Reading a list. *)

\* A list whose posts are at the positions A, and whose distances fit in their bits.
Reads(pl, A) ==
    /\ A \in Seq(Nat)
    /\ Len(A) = Len(pl.posts)
    /\ \A i, j \in 1 .. Len(A) : i < j => A[i] < A[j]
    /\ \A i \in 1 .. Len(A) : pl.posts[i].delta = A[i] - Before1(A, i)
    /\ \A k \in 1 .. Len(pl.seeks) : /\ pl.seeks[k].index \in 1 .. Len(A)
                                     /\ pl.seeks[k].abs = A[pl.seeks[k].index]

\* A set of numbers up to N that is not empty has a greatest one.
LEMMA Greatest ==
    ASSUME NEW N \in Nat, NEW S, S \subseteq 1 .. N, S # {}
    PROVE  \E x \in S : \A y \in S : y <= x
<1> DEFINE M == {N - y : y \in S}
<1>1. M \subseteq Nat /\ M # {}
  <2>1. \A y \in S : N - y \in Nat
    OBVIOUS
  <2>2. PICK y \in S : TRUE
    OBVIOUS
  <2>3. N - y \in M
    OBVIOUS
  <2>4. M # {}
    BY <2>3
  <2> QED BY <2>1, <2>4
<1>2. PICK m \in M : \A k \in M : m <= k
  <2> HIDE DEF M
  <2> QED BY <1>1, Least
<1>3. PICK x \in S : m = N - x
  OBVIOUS
<1>4. \A y \in S : y <= x
  <2> TAKE y \in S
  <2>1. m <= N - y
    BY <1>2
  <2> QED BY <1>3, <2>1
<1> QED BY <1>4

LEMMA MaxIn ==
    ASSUME NEW S, NEW x \in S, \A y \in S : y <= x
    PROVE  Max(S) \in S /\ \A y \in S : Max(S) >= y
<1>1. \E z \in S : \A y \in S : z >= y
  OBVIOUS
<1> QED BY <1>1, Zenon DEF Max

LEMMA MinIs ==
    ASSUME NEW S, S \subseteq Nat, NEW x \in S, \A y \in S : x <= y
    PROVE  Min(S) = x
<1>1. \E z \in S : \A y \in S : z <= y
  OBVIOUS
<1>2. Min(S) \in S /\ \A y \in S : Min(S) <= y
  BY <1>1, Zenon DEF Min
<1> DEFINE m == Min(S)
<1>3. m \in S /\ m <= x /\ x <= m
  BY <1>2
<1> HIDE DEF m
<1>4. m = x
  BY <1>3
<1> QED BY <1>4 DEF m

LEMMA MinIn ==
    ASSUME NEW S, S \subseteq Nat, S # {}
    PROVE  Min(S) \in S /\ \A y \in S : Min(S) <= y
<1>1. PICK x \in S : \A y \in S : x <= y
  BY Least
<1>2. Min(S) = x
  BY <1>1, MinIs
<1> QED BY <1>1, <1>2

\* From a post whose position is known, the positions are found.
LEMMA AbsolutesIs ==
    ASSUME NEW pl, NEW A, Reads(pl, A), NEW known, known.index \in 1 .. Len(A),
           known.abs = A[known.index]
    PROVE  AbsolutesFrom(pl, known) = [i \in known.index .. Len(A) |-> A[i]]
<1> DEFINE c == known.index
           L == Len(A)
           m == L - c
           deltas == [k \in 1 .. m |-> pl.posts[c + k].delta]
           at == Laid(known.abs, deltas)
<1>1. L \in Nat /\ L = Len(pl.posts) /\ \A i \in 1 .. L : A[i] \in Nat
  BY DEF Reads
<1>2. c \in 1 .. L /\ m \in Nat
  <2> HIDE DEF L, c
  <2>1. c \in 1 .. L
    BY DEF L, c
  <2> QED BY <1>1, <2>1
<1>3. AbsolutesFrom(pl, known) = [i \in c .. L |-> at[i - c + 1]]
  <2>1. AbsolutesFrom(pl, known) = [i \in c .. Len(pl.posts) |->
            Laid(known.abs, [k \in 1 .. Len(pl.posts) - c |-> pl.posts[c + k].delta])[i - c + 1]]
    BY Zenon DEF AbsolutesFrom
  <2> QED BY <1>1, <2>1
<1>4. known.abs = A[c] /\ A[c] \in Nat
  BY <1>1, <1>2
<1>5. \A i, j \in 1 .. L : i < j => A[i] < A[j]
  BY DEF Reads
<1>6. \A i \in 1 .. L : pl.posts[i].delta = A[i] - Before1(A, i)
  BY DEF Reads
<1> HIDE DEF c, L, m
<1>7. \A k \in 1 .. m : pl.posts[c + k].delta = A[c + k] - A[c + k - 1] /\ pl.posts[c + k].delta \in Nat
  <2> TAKE k \in 1 .. m
  <2> DEFINE j == c + k
  <2>1. j \in 1 .. L /\ j - 1 \in 1 .. L /\ j # 1 /\ j - 1 < j
    BY <1>1, <1>2 DEF m
  <2> HIDE DEF j
  <2>2. pl.posts[j].delta = A[j] - A[j - 1]
    BY <1>6, <2>1 DEF Before1
  <2>3. A[j - 1] < A[j] /\ A[j] \in Nat /\ A[j - 1] \in Nat
    BY <1>1, <1>5, <2>1
  <2>4. A[j] - A[j - 1] \in Nat
    <3> DEFINE x == A[j]
               y == A[j - 1]
    <3> HIDE DEF x, y
    <3>1. x \in Nat /\ y \in Nat /\ y < x
      BY <2>3 DEF x, y
    <3>2. x - y \in Nat
      BY <3>1
    <3> QED BY <3>2 DEF x, y
  <2>5. pl.posts[j].delta \in Nat
    BY ONLY <2>2, <2>4
  <2>6. pl.posts[j].delta = A[j] - A[j - 1] /\ pl.posts[j].delta \in Nat
    BY ONLY <2>2, <2>5
  <2>7. c + k = j /\ c + k - 1 = j - 1
    BY <1>1, <1>2 DEF j
  <2> HIDE DEF deltas, at
  <2> QED BY ONLY <2>6, <2>7
<1>8. deltas \in Seq(Nat) /\ Len(deltas) = m
  <2>1. \A k \in 1 .. m : deltas[k] \in Nat
    BY <1>7
  <2>2. deltas = [k \in 1 .. m |-> deltas[k]]
    OBVIOUS
  <2> HIDE DEF deltas
  <2> QED BY <1>2, <2>1, <2>2
<1>9. \A k \in 1 .. m : deltas[k] = A[c + k] - A[c + k - 1]
  BY <1>7
<1>10. LaidAs(at, known.abs, deltas)
  BY <1>4, <1>8, LaidIs
<1> HIDE DEF at, deltas
<1>11. /\ at \in [1 .. m + 1 -> Nat] /\ at[1] = A[c]
       /\ \A k \in 1 .. m : at[k + 1] = at[k] + deltas[k]
  BY <1>4, <1>8, <1>10 DEF LaidAs
<1> DEFINE D == {k \in 0 .. m : at[k + 1] = A[c + k]}
<1>12. 0 \in D
  <2>1. 0 + 1 = 1 /\ c + 0 = c
    BY <1>1, <1>2
  <2> QED BY <1>2, <1>11, <2>1
<1>13. \A k \in 1 .. m : k - 1 \in D => k \in D
  <2> TAKE k \in 1 .. m
  <2>1. HAVE k - 1 \in D
  <2>2. (k - 1) + 1 = k /\ c + (k - 1) = c + k - 1
    BY <1>1, <1>2
  <2>3. at[k] = A[c + k - 1]
    BY <2>1, <2>2
  <2>4. at[k + 1] = A[c + k - 1] + (A[c + k] - A[c + k - 1])
    BY <1>9, <1>11, <2>3
  <2> DEFINE x == A[c + k]
             y == A[c + k - 1]
  <2>5. x \in Nat /\ y \in Nat
    <3>1. c + k \in 1 .. L /\ c + k - 1 \in 1 .. L
      BY <1>1, <1>2 DEF m
    <3> QED BY <1>1, <3>1
  <2> HIDE DEF x, y
  <2>6. at[k + 1] = x
    <3>1. at[k + 1] = y + (x - y)
      BY <2>4 DEF x, y
    <3> QED BY <2>5, <3>1
  <2> QED BY <2>6 DEF x
<1>14. 0 .. m \subseteq D
  <2> HIDE DEF D
  <2> QED BY <1>2, <1>12, <1>13, Induction
<1>15. \A i \in c .. L : at[i - c + 1] = A[i]
  <2> TAKE i \in c .. L
  <2> DEFINE k == i - c
  <2>1. k \in 0 .. m /\ c + k = i
    BY <1>1, <1>2 DEF m
  <2> HIDE DEF k
  <2>2. at[k + 1] = A[c + k]
    BY <1>14, <2>1
  <2> QED BY <2>1, <2>2 DEF k
<1>16. [i \in c .. L |-> at[i - c + 1]] = [i \in c .. L |-> A[i]]
  BY <1>15
<1> QED BY <1>3, <1>16 DEF c, L

\* The checkpoint for a location is at a post at or before it, or at the first.
LEMMA CheckpointIs ==
    ASSUME NEW pl \in ListT, NEW A, Reads(pl, A), pl.posts # <<>>, NEW loc \in Nat
    PROVE  LET known == Checkpoint(pl, loc)
           IN  /\ known.index \in 1 .. Len(A)
               /\ known.abs = A[known.index]
               /\ known.index = 1 \/ A[known.index] <= loc
<1> DEFINE known == Checkpoint(pl, loc)
           below == {k \in DOMAIN pl.seeks : pl.seeks[k].abs <= loc}
           m == Max(below)
<1>1. pl.posts \in Seq(PostT) /\ pl.seeks \in Seq(SeekT)
  BY DEF ListT
<1>2. Len(A) = Len(pl.posts) /\ Len(A) \in Nat \ {0} /\ A \in Seq(Nat)
  <2>1. Len(A) = Len(pl.posts) /\ A \in Seq(Nat)
    BY DEF Reads
  <2>2. Len(pl.posts) \in Nat /\ Len(pl.posts) # 0
    BY <1>1, NoneIn
  <2> QED BY <2>1, <2>2
<1>3. known = IF below = {} THEN [abs |-> pl.posts[1].delta, index |-> 1] ELSE pl.seeks[m]
  BY Zenon DEF Checkpoint
<1>4. DOMAIN pl.seeks = 1 .. Len(pl.seeks) /\ Len(pl.seeks) \in Nat
  BY <1>1, OfSequence
<1>5. CASE below = {}
  <2> DEFINE a == pl.posts[1].delta
  <2>1. a = A[1]
    <3>1. 1 \in 1 .. Len(A)
      BY <1>2
    <3>2. a = A[1] - 0
      BY <3>1 DEF Reads, Before1
    <3>3. A[1] \in Nat
      BY <1>2, <3>1
    <3> HIDE DEF a
    <3> QED BY <3>2, <3>3
  <2>2. known = [abs |-> a, index |-> 1]
    BY <1>3, <1>5
  <2> HIDE DEF known, a
  <2>3. known.abs = a /\ known.index = 1
    BY <2>2
  <2> QED BY <1>2, <2>1, <2>3 DEF known
<1>6. CASE below # {}
  <2>1. below \subseteq 1 .. Len(pl.seeks)
    BY <1>4
  <2> HIDE DEF below
  <2>2. PICK x \in below : \A y \in below : y <= x
    BY <1>4, <1>6, <2>1, Greatest
  <2>3. m \in below
    BY <2>2, MaxIn
  <2> HIDE DEF m
  <2>4. m \in 1 .. Len(pl.seeks) /\ pl.seeks[m].abs <= loc
    BY <2>1, <2>3 DEF below
  <2>5. known = pl.seeks[m]
    BY <1>3, <1>6
  <2>6. pl.seeks[m].index \in 1 .. Len(A) /\ pl.seeks[m].abs = A[pl.seeks[m].index]
    BY <2>4 DEF Reads
  <2> HIDE DEF known
  <2> QED BY <2>4, <2>5, <2>6 DEF known
<1> QED BY <1>5, <1>6

\* What is read from the checkpoint of a location on is all from the location on.
LEMMA FromCheckpoint ==
    ASSUME NEW pl \in ListT, NEW A, Reads(pl, A), pl.posts # <<>>, NEW loc \in Nat
    PROVE  \E c \in 1 .. Len(A) :
              /\ AbsolutesFrom(pl, Checkpoint(pl, loc)) = [i \in c .. Len(A) |-> A[i]]
              /\ \A i \in 1 .. Len(A) : A[i] >= loc => c <= i
<1> DEFINE known == Checkpoint(pl, loc)
           c == known.index
           L == Len(A)
<1>1. c \in 1 .. L /\ known.abs = A[c] /\ (c = 1 \/ A[c] <= loc)
  BY CheckpointIs
<1>2. A \in Seq(Nat) /\ \A i, j \in 1 .. L : i < j => A[i] < A[j]
  BY DEF Reads
<1>3. L \in Nat /\ \A i \in 1 .. L : A[i] \in Nat
  BY <1>2, OfSequence
<1> HIDE DEF known
<1>4. AbsolutesFrom(pl, known) = [i \in c .. L |-> A[i]]
  BY <1>1, AbsolutesIs
<1>5. \A i \in 1 .. L : A[i] >= loc => c <= i
  <2> TAKE i \in 1 .. L
  <2>1. HAVE A[i] >= loc
  <2> HIDE DEF c, L
  <2>2. CASE c = 1
    BY <1>3, <2>2
  <2>3. CASE A[c] <= loc
    <3>1. ~ (i < c)
      <4>1. SUFFICES ASSUME i < c PROVE FALSE
        OBVIOUS
      <4>2. A[i] < A[c]
        BY <1>1, <1>2, <4>1
      <4>3. A[i] \in Nat /\ A[c] \in Nat
        BY <1>1, <1>3
      <4> QED BY <2>1, <2>3, <4>2, <4>3
    <3> QED BY <1>1, <1>3, <3>1
  <2> QED BY <1>1, <2>2, <2>3
<1> QED BY <1>1, <1>4, <1>5 DEF known

-----------------------------------------------------------------------------
(* What a level tells. *)

\* A level whose lists tell what its pages say.
LevelTells(lv, pages, H) ==
    /\ pages \in Seq(PageType)
    /\ lv.pages = pages
    /\ Chronicle(lv.docs, pages, Len(pages))
    /\ H = History(lv.docs, pages, Len(pages))
    /\ H \subseteq EventT
    /\ \A t \in Terms : ListIs(lv.lists[t], Of(H, t), Len(pages))

LEMMA LevelTellsIs ==
    ASSUME NEW pages \in Seq(PageType), NEW lv, NEW ib, LevelOf(lv, ib, pages),
           BuiltFrom(ib, pages, Len(pages))
    PROVE  LevelTells(lv, pages, History(lv.docs, pages, Len(pages)))
<1> DEFINE n == Len(pages)
           H == History(lv.docs, pages, n)
<1>1. lv.pages = pages /\ lv.docs = ib.docs /\ \A t \in Terms : lv.lists[t] = GetPostingList(ib, t)
  BY DEF LevelOf
<1>2. Chronicle(ib.docs, pages, n) /\ Tells(ib, History(ib.docs, pages, n))
  BY DEF BuiltFrom
<1>3. Len(ib.docs) = n
  BY <1>2 DEF Chronicle
<1>4. Chronicle(lv.docs, pages, n) /\ Tells(ib, H)
  BY <1>1, <1>2
<1> HIDE DEF H, n
<1>5. H \subseteq EventT /\ \A t \in Terms : ListIs(lv.lists[t], Of(H, t), n)
  BY <1>1, <1>3, <1>4 DEF Tells
<1> QED BY <1>1, <1>4, <1>5 DEF LevelTells, H, n

LEMMA TokenAt ==
    ASSUME NEW pages \in Seq(PageType), NEW k \in 1 .. Len(pages)
    PROVE  /\ Len(Tokens(pages[k])) \in Nat
           /\ DOMAIN Tokens(pages[k]) = 1 .. Len(Tokens(pages[k]))
           /\ \A i \in 1 .. Len(Tokens(pages[k])) : /\ Tokens(pages[k])[i].term \in Terms
                                                    /\ Tokens(pages[k])[i].dec \in Decs
                                                    /\ Tokens(pages[k])[i].dec # "end"
<1> DEFINE pg == pages[k]
           tokens == Tokens(pg)
<1>1. pg \in PageType
  BY OfSequence
<1> HIDE DEF pg
<1>2. tokens \in Seq(Token)
  BY <1>1, TokensTyped
<1> HIDE DEF tokens
<1>3. Len(tokens) \in Nat /\ DOMAIN tokens = 1 .. Len(tokens) /\ \A i \in 1 .. Len(tokens) : tokens[i] \in Token
  BY <1>2, OfSequence
<1>4. \A i \in 1 .. Len(tokens) : tokens[i].term \in Terms /\ tokens[i].dec \in Decs
  BY <1>3 DEF Token
<1>5. \A dec \in Decs : dec # "end"
  BY DEF Decs
<1> QED BY <1>3, <1>4, <1>5 DEF tokens, pg

\* The word number i of document k, and the end of the document for it.
WordOf(docs, pages, k, i) == Event(docs[k].start + i - 1, Tokens(pages[k])[i], k - 1)

EndOf(docs, pages, k, i) ==
    [pos |-> docs[k].end, term |-> Tokens(pages[k])[i].term, dec |-> "end", doc |-> k - 1]

LEMMA WordOfIs ==
    ASSUME NEW docs, NEW pages \in Seq(PageType), NEW k \in 1 .. Len(pages),
           NEW i \in 1 .. Len(Tokens(pages[k]))
    PROVE  /\ WordOf(docs, pages, k, i).pos = docs[k].start + i - 1
           /\ WordOf(docs, pages, k, i).term = Tokens(pages[k])[i].term
           /\ WordOf(docs, pages, k, i).dec = Tokens(pages[k])[i].dec
           /\ WordOf(docs, pages, k, i).doc = k - 1
           /\ WordOf(docs, pages, k, i).dec # "end"
           /\ EndOf(docs, pages, k, i).pos = docs[k].end
           /\ EndOf(docs, pages, k, i).term = Tokens(pages[k])[i].term
           /\ EndOf(docs, pages, k, i).dec = "end"
           /\ EndOf(docs, pages, k, i).doc = k - 1
<1> DEFINE a == docs[k].start + i - 1
           b == docs[k].end
           token == Tokens(pages[k])[i]
           d == k - 1
<1>1. token.dec # "end"
  BY TokenAt
<1>2. /\ WordOf(docs, pages, k, i) = [pos |-> a, term |-> token.term, dec |-> token.dec, doc |-> d]
      /\ EndOf(docs, pages, k, i) = [pos |-> b, term |-> token.term, dec |-> "end", doc |-> d]
  BY Zenon DEF WordOf, EndOf, Event
<1> HIDE DEF a, b, token, d
<1>3. /\ WordOf(docs, pages, k, i).pos = a /\ WordOf(docs, pages, k, i).term = token.term
      /\ WordOf(docs, pages, k, i).dec = token.dec /\ WordOf(docs, pages, k, i).doc = d
      /\ EndOf(docs, pages, k, i).pos = b /\ EndOf(docs, pages, k, i).term = token.term
      /\ EndOf(docs, pages, k, i).dec = "end" /\ EndOf(docs, pages, k, i).doc = d
  BY <1>2
<1> QED BY <1>1, <1>3 DEF a, b, token, d

ToldOf(docs, pages, k, e) ==
    \E i \in 1 .. Len(Tokens(pages[k])) : e = WordOf(docs, pages, k, i) \/ e = EndOf(docs, pages, k, i)

LEMMA ToldIs ==
    ASSUME NEW docs, NEW pages, NEW k, NEW e
    PROVE  e \in Told(docs[k], pages[k], k - 1) <=> ToldOf(docs, pages, k, e)
  BY Zenon DEF Told, EventsOf, EndsOf, WordOf, EndOf, ToldOf

LEMMA HistoryIs ==
    ASSUME NEW docs, NEW pages, NEW n, NEW e
    PROVE  e \in History(docs, pages, n) <=>
               \E k \in 1 .. n : \E i \in 1 .. Len(Tokens(pages[k])) :
                  e = WordOf(docs, pages, k, i) \/ e = EndOf(docs, pages, k, i)
<1>1. e \in History(docs, pages, n) <=> \E k \in 1 .. n : e \in Told(docs[k], pages[k], k - 1)
  BY Zenon DEF History
<1>2. \A k \in 1 .. n : e \in Told(docs[k], pages[k], k - 1) <=> ToldOf(docs, pages, k, e)
  BY ToldIs
<1>3. e \in History(docs, pages, n) <=> \E k \in 1 .. n : ToldOf(docs, pages, k, e)
  BY Zenon, <1>1, <1>2
<1> QED BY Zenon, <1>3 DEF ToldOf

\* The words of a level are those of its history.
LEMMA OccurrencesAre ==
    ASSUME NEW lv, NEW pages, NEW H, LevelTells(lv, pages, H)
    PROVE  Occurrences(lv) = Words(H)
<1> DEFINE n == Len(pages)
           docs == lv.docs
<1>1. /\ pages \in Seq(PageType) /\ lv.pages = pages
      /\ H = History(docs, pages, n)
  BY DEF LevelTells
<1>2. DOMAIN pages = 1 .. n /\ n \in Nat
  BY <1>1, OfSequence
<1>3. ASSUME NEW e
      PROVE  e \in Occurrences(lv) <=>
                \E k \in 1 .. n : \E i \in 1 .. Len(Tokens(pages[k])) : e = WordOf(docs, pages, k, i)
  <2>1. e \in Occurrences(lv) <=>
           \E k \in DOMAIN pages : \E i \in DOMAIN Tokens(pages[k]) :
              e = [pos |-> DocStart(lv, k - 1) + i - 1, term |-> Tokens(pages[k])[i].term,
                   dec |-> Tokens(pages[k])[i].dec, doc |-> k - 1]
    <3> DEFINE x == lv.pages
    <3>1. e \in Occurrences(lv) <=>
           \E k \in DOMAIN x : \E i \in DOMAIN Tokens(x[k]) :
              e = [pos |-> DocStart(lv, k - 1) + i - 1, term |-> Tokens(x[k])[i].term,
                   dec |-> Tokens(x[k])[i].dec, doc |-> k - 1]
      <4> DEFINE W(k, i) == [pos |-> DocStart(lv, k - 1) + i - 1, term |-> Tokens(x[k])[i].term,
                             dec |-> Tokens(x[k])[i].dec, doc |-> k - 1]
                 S(k) == {W(k, i) : i \in DOMAIN Tokens(x[k])}
      <4>1. Occurrences(lv) = UNION {S(k) : k \in DOMAIN x}
        BY DEF Occurrences
      <4>2. \A k : e \in S(k) <=> \E i \in DOMAIN Tokens(x[k]) : e = W(k, i)
        <5> HIDE DEF W, x
        <5> QED OBVIOUS
      <4> HIDE DEF S, x
      <4>3. e \in Occurrences(lv) <=> \E k \in DOMAIN x : e \in S(k)
        BY Zenon, <4>1
      <4> HIDE DEF W
      <4>4. e \in Occurrences(lv) <=> \E k \in DOMAIN x : \E i \in DOMAIN Tokens(x[k]) : e = W(k, i)
        BY Zenon, <4>2, <4>3
      <4> QED BY Zenon, <4>4 DEF W
    <3>2. x = pages
      BY <1>1
    <3> HIDE DEF x
    <3> QED BY ONLY Zenon, <3>1, <3>2
  <2>2. \A k \in 1 .. n : DocStart(lv, k - 1) = docs[k].start
    <3> TAKE k \in 1 .. n
    <3>1. (k - 1) + 1 = k
      BY <1>2
    <3>2. DocStart(lv, k - 1) = docs[(k - 1) + 1].start
      BY DEF DocStart
    <3> HIDE DEF docs
    <3> QED BY ONLY <3>1, <3>2
  <2>3. \A k \in 1 .. n : DOMAIN Tokens(pages[k]) = 1 .. Len(Tokens(pages[k]))
    BY <1>1, TokenAt
  <2>4. \A k \in 1 .. n : \A i \in 1 .. Len(Tokens(pages[k])) :
           WordOf(docs, pages, k, i) =
              [pos |-> DocStart(lv, k - 1) + i - 1, term |-> Tokens(pages[k])[i].term,
               dec |-> Tokens(pages[k])[i].dec, doc |-> k - 1]
    <3> HIDE DEF docs
    <3> QED BY Zenon, <2>2 DEF WordOf, Event
  <2> HIDE DEF n, docs
  <2> QED BY Zenon, <1>2, <2>1, <2>3, <2>4
<1>4. ASSUME NEW e
      PROVE  e \in Words(H) <=>
                \E k \in 1 .. n : \E i \in 1 .. Len(Tokens(pages[k])) : e = WordOf(docs, pages, k, i)
  <2>1. e \in Words(H) <=> e \in H /\ e.dec # "end"
    BY DEF Words
  <2>2. e \in H <=> \E k \in 1 .. n : \E i \in 1 .. Len(Tokens(pages[k])) :
                  e = WordOf(docs, pages, k, i) \/ e = EndOf(docs, pages, k, i)
    BY <1>1, HistoryIs
  <2>3. \A k \in 1 .. n : \A i \in 1 .. Len(Tokens(pages[k])) :
           WordOf(docs, pages, k, i).dec # "end" /\ EndOf(docs, pages, k, i).dec = "end"
    BY <1>1, WordOfIs
  <2> HIDE DEF n, docs
  <2> QED BY Zenon, <2>1, <2>2, <2>3
<1>5. \A e : e \in Occurrences(lv) <=> e \in Words(H)
  <2> HIDE DEF n, docs
  <2> QED BY Zenon, <1>3, <1>4
<1>6. Occurrences(lv) \subseteq Words(H) /\ Words(H) \subseteq Occurrences(lv)
  BY <1>5
<1> QED BY <1>6

LEMMA OccurrencesOfAre ==
    ASSUME NEW lv, NEW pages, NEW H, LevelTells(lv, pages, H), NEW t
    PROVE  OccurrencesOf(lv, t) = Words(Of(H, t))
<1>1. Occurrences(lv) = Words(H)
  BY OccurrencesAre
<1> QED BY <1>1 DEF OccurrencesOf, Words, Of

\* The range of a document.
Within(docs, k, e) ==
    /\ docs[k] \in DocT
    /\ e.doc = k - 1
    /\ docs[k].start <= e.pos
    /\ IF e.dec = "end" THEN e.pos = docs[k].end ELSE e.pos < docs[k].end

LEMMA WordWithin ==
    ASSUME NEW lv, NEW pages, NEW H, LevelTells(lv, pages, H),
           NEW k \in 1 .. Len(pages), NEW i \in 1 .. Len(Tokens(pages[k]))
    PROVE  /\ Within(lv.docs, k, WordOf(lv.docs, pages, k, i))
           /\ Within(lv.docs, k, EndOf(lv.docs, pages, k, i))
           /\ WordOf(lv.docs, pages, k, i) \in H
           /\ EndOf(lv.docs, pages, k, i) \in H
<1> DEFINE docs == lv.docs
           word == WordOf(docs, pages, k, i)
           last == EndOf(docs, pages, k, i)
           m == Len(Tokens(pages[k]))
           a == docs[k].start
           b == docs[k].end
<1>1. /\ pages \in Seq(PageType) /\ Chronicle(docs, pages, Len(pages))
      /\ H = History(docs, pages, Len(pages))
  BY DEF LevelTells
<1>2. docs \in Seq(DocT) /\ Len(docs) = Len(pages) /\ b = a + m
  BY <1>1 DEF Chronicle
<1>3. docs[k] \in DocT
  BY <1>2, OfSequence
<1>4. a \in Nat /\ b \in Nat /\ m \in Nat
  BY <1>1, <1>3, TokenAt DEF DocT
<1>5. /\ word.pos = a + i - 1 /\ word.dec # "end" /\ word.doc = k - 1
      /\ last.pos = b /\ last.dec = "end" /\ last.doc = k - 1
  BY <1>1, WordOfIs
<1>6. word \in H /\ last \in H
  <2>1. i \in 1 .. Len(Tokens(pages[k]))
    OBVIOUS
  <2> QED BY <1>1, HistoryIs
<1>7. i \in 1 .. m
  OBVIOUS
<1> HIDE DEF a, b, m, word, last
<1>8. a <= word.pos /\ word.pos < b /\ a <= last.pos
  BY <1>2, <1>4, <1>5, <1>7
<1>9. Within(docs, k, word) /\ Within(docs, k, last)
  BY <1>3, <1>5, <1>8 DEF Within, a, b
<1> QED BY <1>6, <1>9 DEF word, last

LEMMA EventWithin ==
    ASSUME NEW lv, NEW pages, NEW H, LevelTells(lv, pages, H), NEW e \in H
    PROVE  \E k \in 1 .. Len(pages) : Within(lv.docs, k, e)
<1>1. H = History(lv.docs, pages, Len(pages))
  BY DEF LevelTells
<1>2. PICK k \in 1 .. Len(pages) : \E i \in 1 .. Len(Tokens(pages[k])) :
                  e = WordOf(lv.docs, pages, k, i) \/ e = EndOf(lv.docs, pages, k, i)
  BY <1>1, HistoryIs
<1>3. PICK i \in 1 .. Len(Tokens(pages[k])) :
                  e = WordOf(lv.docs, pages, k, i) \/ e = EndOf(lv.docs, pages, k, i)
  BY <1>2
<1>4. Within(lv.docs, k, WordOf(lv.docs, pages, k, i)) /\ Within(lv.docs, k, EndOf(lv.docs, pages, k, i))
  BY WordWithin
<1> QED BY <1>3, <1>4

\* The places of the posts of a word: where it is, and where its documents end.
LEMMA PostsAre ==
    ASSUME NEW lv, NEW pages, NEW H, LevelTells(lv, pages, H), NEW t
    PROVE  {o.pos : o \in Words(Of(H, t))} \cup {lv.docs[o.doc + 1].end : o \in Words(Of(H, t))}
               = {e.pos : e \in Of(H, t)}
<1> DEFINE n == Len(pages)
           docs == lv.docs
           W == Words(Of(H, t))
           P == {e.pos : e \in Of(H, t)}
<1>1. pages \in Seq(PageType) /\ H = History(docs, pages, n)
  BY DEF LevelTells
<1>2. \A e : e \in Of(H, t) <=> e \in H /\ e.term = t
  BY DEF Of
<1>3. \A e : e \in W <=> e \in Of(H, t) /\ e.dec # "end"
  BY DEF Words
<1>4. \A e \in H : \E k \in 1 .. n : \E i \in 1 .. Len(Tokens(pages[k])) :
                  e = WordOf(docs, pages, k, i) \/ e = EndOf(docs, pages, k, i)
  BY <1>1, HistoryIs
<1> HIDE DEF n, docs, W
<1>5. {o.pos : o \in W} \subseteq P
  BY <1>3
<1>6. ASSUME NEW o \in W
      PROVE  docs[o.doc + 1].end \in P
  <2>1. PICK k \in 1 .. n : \E i \in 1 .. Len(Tokens(pages[k])) :
                  o = WordOf(docs, pages, k, i) \/ o = EndOf(docs, pages, k, i)
    BY <1>2, <1>3, <1>4
  <2>2. PICK i \in 1 .. Len(Tokens(pages[k])) :
                  o = WordOf(docs, pages, k, i) \/ o = EndOf(docs, pages, k, i)
    BY <2>1
  <2> DEFINE word == WordOf(docs, pages, k, i)
             last == EndOf(docs, pages, k, i)
  <2>3. /\ word.term = Tokens(pages[k])[i].term /\ word.doc = k - 1
        /\ last.pos = docs[k].end /\ last.term = Tokens(pages[k])[i].term /\ last.dec = "end"
        /\ last.doc = k - 1
    BY <1>1, WordOfIs DEF n
  <2>4. last \in H
    BY WordWithin DEF n, docs
  <2>5. o = word
    BY <1>3, <2>2, <2>3
  <2> HIDE DEF word, last
  <2>6. last.term = t
    BY <1>2, <1>3, <2>3, <2>5
  <2>7. last.pos \in P
    BY <1>2, <2>4, <2>6
  <2>8. (k - 1) + 1 = k
    OBVIOUS
  <2>9. docs[o.doc + 1].end = last.pos
    BY <2>3, <2>5, <2>8
  <2> QED BY <2>7, <2>9
<1>7. ASSUME NEW e \in Of(H, t)
      PROVE  e.pos \in {o.pos : o \in W} \cup {docs[o.doc + 1].end : o \in W}
  <2>1. PICK k \in 1 .. n : \E i \in 1 .. Len(Tokens(pages[k])) :
                  e = WordOf(docs, pages, k, i) \/ e = EndOf(docs, pages, k, i)
    BY <1>2, <1>4
  <2>2. PICK i \in 1 .. Len(Tokens(pages[k])) :
                  e = WordOf(docs, pages, k, i) \/ e = EndOf(docs, pages, k, i)
    BY <2>1
  <2> DEFINE word == WordOf(docs, pages, k, i)
             last == EndOf(docs, pages, k, i)
  <2>3. /\ word.term = Tokens(pages[k])[i].term /\ word.doc = k - 1 /\ word.dec # "end"
        /\ last.pos = docs[k].end /\ last.term = Tokens(pages[k])[i].term
    BY <1>1, WordOfIs DEF n
  <2>4. word \in H
    BY WordWithin DEF n, docs
  <2>5. e = word \/ e = last
    BY <2>2
  <2> HIDE DEF word, last
  <2>6. word \in W
    BY <1>2, <1>3, <2>3, <2>4, <2>5
  <2>7. (k - 1) + 1 = k
    OBVIOUS
  <2>8. docs[word.doc + 1].end = docs[k].end
    BY <2>3, <2>7
  <2>9. CASE e = word
    BY <2>6, <2>9
  <2>10. CASE e = last
    BY <2>3, <2>6, <2>8, <2>10
  <2> QED BY <2>5, <2>9, <2>10
<1>8. P \subseteq {o.pos : o \in W} \cup {docs[o.doc + 1].end : o \in W}
  BY <1>7
<1>9. {docs[o.doc + 1].end : o \in W} \subseteq P
  BY <1>6
<1>10. {o.pos : o \in W} \cup {docs[o.doc + 1].end : o \in W} = P
  <2> HIDE DEF P
  <2> QED BY <1>5, <1>8, <1>9
<1> QED BY <1>10 DEF W, docs

\* Two documents do not meet.
LEMMA SameDocument ==
    ASSUME NEW lv, NEW pages, NEW H, LevelTells(lv, pages, H),
           NEW e, NEW j \in 1 .. Len(pages), NEW k \in 1 .. Len(pages), Within(lv.docs, k, e),
           e.pos \in Nat, lv.docs[j].start <= e.pos, e.pos <= lv.docs[j].end
    PROVE  j = k
<1> DEFINE docs == lv.docs
           n == Len(pages)
<1>1. Chronicle(docs, pages, n) /\ pages \in Seq(PageType)
  BY DEF LevelTells
<1>2. docs \in Seq(DocT) /\ Len(docs) = n /\ \A x, y \in 1 .. n : x < y => docs[x].end < docs[y].start
  BY <1>1 DEF Chronicle
<1>3. n \in Nat
  BY <1>1, OfSequence
<1>4. docs[j] \in DocT /\ docs[k] \in DocT
  BY <1>2, OfSequence
<1>5. docs[j].start \in Nat /\ docs[j].end \in Nat /\ docs[k].start \in Nat /\ docs[k].end \in Nat
  BY <1>4 DEF DocT
<1>6. docs[k].start <= e.pos /\ e.pos <= docs[k].end
  BY <1>5 DEF Within
<1> HIDE DEF n
<1>7. j \in 1 .. n /\ k \in 1 .. n
  BY DEF n
<1>8. ~ (j < k)
  <2>1. j < k => docs[j].end < docs[k].start
    BY <1>2, <1>7
  <2> QED BY <1>5, <1>6, <2>1
<1>9. ~ (k < j)
  <2>1. k < j => docs[k].end < docs[j].start
    BY <1>2, <1>7
  <2> QED BY <1>5, <1>6, <2>1
<1> QED BY <1>3, <1>7, <1>8, <1>9

\* Where the distances of a level fit in their bits, its lists can be read.
LEMMA ReadsIs ==
    ASSUME NEW lv, NEW pages, NEW H, LevelTells(lv, pages, H), InRange(lv), NEW t \in Terms,
           NEW A, Positioned(lv.lists[t], A, Of(H, t))
    PROVE  Reads(lv.lists[t], A)
<1> DEFINE pl == lv.lists[t]
           L == Len(A)
           P == {e.pos : e \in Of(H, t)}
<1>1. /\ A \in Seq(Nat) /\ L = Len(pl.posts)
      /\ \A i, j \in 1 .. L : i < j => A[i] < A[j]
      /\ \A i \in 1 .. L : pl.posts[i].delta = (A[i] - Before1(A, i)) % DeltaLimit
      /\ \A k \in 1 .. Len(pl.seeks) : /\ pl.seeks[k].index \in 1 .. L
                                       /\ pl.seeks[k].abs = A[pl.seeks[k].index]
  BY DEF Positioned
<1>2. /\ \A p \in P : \E i \in 1 .. L : A[i] = p
      /\ \A i \in 1 .. L : A[i] \in P
  BY DEF Positioned
<1>3. L \in Nat /\ \A i \in 1 .. L : A[i] \in Nat
  BY <1>1, OfSequence
<1>4. DeltaLimit \in Nat \ {0}
  BY Limit
<1>5. \A p \in P : p < DeltaLimit \/ \E q \in P : q < p /\ p - q < DeltaLimit
  <2> DEFINE W == OccurrencesOf(lv, t)
             Q == {o.pos : o \in W} \cup {lv.docs[o.doc + 1].end : o \in W}
  <2>1. \A p \in Q : p < DeltaLimit \/ \E q \in Q : q < p /\ p - q < DeltaLimit
    BY Zenon DEF InRange
  <2>2. W = Words(Of(H, t))
    BY OccurrencesOfAre
  <2> HIDE DEF W
  <2>3. Q = P
    <3>1. {o.pos : o \in Words(Of(H, t))} \cup {lv.docs[o.doc + 1].end : o \in Words(Of(H, t))} = P
      BY PostsAre
    <3> HIDE DEF P
    <3> QED BY ONLY <2>2, <3>1
  <2> HIDE DEF P, Q
  <2> QED BY <2>1, <2>3
<1> HIDE DEF P, L, pl
<1>6. ASSUME NEW i \in 1 .. L
      PROVE  A[i] - Before1(A, i) \in 0 .. DeltaLimit - 1
  <2>1. A[i] \in P /\ A[i] \in Nat
    BY <1>2, <1>3
  <2>2. A[i] < DeltaLimit \/ \E q \in P : q < A[i] /\ A[i] - q < DeltaLimit
    BY <1>5, <2>1
  <2>3. A[i] < DeltaLimit \/ \E j \in 1 .. L : A[j] < A[i] /\ A[i] - A[j] < DeltaLimit
    BY <1>2, <2>2
  <2>4. \A j \in 1 .. L : A[j] < A[i] => j < i
    <3> TAKE j \in 1 .. L
    <3>1. HAVE A[j] < A[i]
    <3>2. A[j] \in Nat
      BY <1>3
    <3>3. i # j
      BY <2>1, <3>1, <3>2
    <3>4. ~ (i < j)
      <4>1. i < j => A[i] < A[j]
        BY <1>1 DEF L
      <4> QED BY <2>1, <3>1, <3>2, <4>1
    <3> QED BY <3>3, <3>4
  <2>5. CASE i = 1
    <3>1. A[i] < DeltaLimit
      <4>1. \A j \in 1 .. L : ~ (j < i)
        BY <2>5
      <4> QED BY <2>3, <2>4, <4>1
    <3>2. Before1(A, i) = 0
      BY <2>5 DEF Before1
    <3> QED BY <1>4, <2>1, <3>1, <3>2
  <2>6. CASE i # 1
    <3> DEFINE m == i - 1
    <3>1. m \in 1 .. L /\ m < i /\ Before1(A, i) = A[m]
      BY <1>3, <2>6 DEF Before1
    <3>2. \A j \in 1 .. L : j < i => j = m \/ j < m
      BY <1>3
    <3> HIDE DEF m
    <3>3. A[m] < A[i] /\ A[m] \in Nat
      BY <1>1, <1>3, <3>1 DEF L
    <3>4. A[i] - A[m] < DeltaLimit
      <4>1. CASE A[i] < DeltaLimit
        BY <1>4, <2>1, <3>3, <4>1
      <4>2. CASE \E j \in 1 .. L : A[j] < A[i] /\ A[i] - A[j] < DeltaLimit
        <5>1. PICK j \in 1 .. L : A[j] < A[i] /\ A[i] - A[j] < DeltaLimit
          BY <4>2
        <5>2. j = m \/ A[j] < A[m]
          <6>1. j = m \/ j < m
            BY <2>4, <3>2, <5>1
          <6> QED BY <1>1, <3>1, <6>1 DEF L
        <5>3. A[j] \in Nat
          BY <1>3
        <5>4. A[j] <= A[m]
          BY <3>3, <5>2, <5>3
        <5> QED BY <1>4, <2>1, <3>3, <5>1, <5>3, <5>4
      <4> QED BY <2>3, <4>1, <4>2
    <3> QED BY <1>4, <2>1, <3>1, <3>3, <3>4
  <2> QED BY <2>5, <2>6
<1>7. \A i \in 1 .. L : pl.posts[i].delta = A[i] - Before1(A, i)
  <2> TAKE i \in 1 .. L
  <2>1. pl.posts[i].delta = (A[i] - Before1(A, i)) % DeltaLimit
    BY <1>1 DEF L, pl
  <2> DEFINE x == A[i] - Before1(A, i)
  <2>2. x \in 0 .. DeltaLimit - 1
    BY <1>6
  <2> HIDE DEF x
  <2>3. x % DeltaLimit = x
    BY <1>4, <2>2, Remainder
  <2> QED BY <2>1, <2>3 DEF x
<1> QED BY <1>1, <1>7 DEF Reads, L, pl

-----------------------------------------------------------------------------
(* Seeking and counting. *)

\* The positions of a list and the places of its word.
LEMMA PlacesAre ==
    ASSUME NEW lv, NEW pages, NEW H, LevelTells(lv, pages, H), InRange(lv), NEW t \in Terms
    PROVE  /\ lv.lists[t] \in ListT
           /\ lv.lists[t].posts \in Seq(PostT)
           /\ \E A : /\ Reads(lv.lists[t], A)
                     /\ Positioned(lv.lists[t], A, Of(H, t))
<1>1. ListIs(lv.lists[t], Of(H, t), Len(pages))
  BY DEF LevelTells
<1>2. lv.lists[t] \in ListT
  BY <1>1 DEF ListIs
<1>3. PICK A : Positioned(lv.lists[t], A, Of(H, t))
  BY <1>1 DEF ListIs
<1>4. Reads(lv.lists[t], A)
  BY <1>3, ReadsIs
<1> DEFINE pl == lv.lists[t]
<1>5. pl.posts \in Seq(PostT)
  <2>1. pl \in ListT
    BY <1>2
  <2> HIDE DEF pl
  <2> QED BY <2>1 DEF ListT
<1> QED BY <1>2, <1>3, <1>4, <1>5

\* The last place of a level is a number.
LEMMA LastPlace ==
    ASSUME NEW lv, NEW pages, NEW H, LevelTells(lv, pages, H)
    PROVE  Max({0} \cup {doc.end : doc \in Range(lv.docs)}) \in Nat
<1> DEFINE docs == lv.docs
           n == Len(pages)
           S == {0} \cup {doc.end : doc \in Range(docs)}
<1>1. Chronicle(docs, pages, n) /\ pages \in Seq(PageType)
  BY DEF LevelTells
<1>2. /\ docs \in Seq(DocT) /\ Len(docs) = n /\ n \in Nat
      /\ \A i \in 1 .. n : docs[i].end = docs[i].start + Len(Tokens(pages[i]))
      /\ \A x, y \in 1 .. n : x < y => docs[x].end < docs[y].start
  BY <1>1, OfSequence DEF Chronicle
<1>3. \A i \in 1 .. n : docs[i].start \in Nat /\ docs[i].end \in Nat
  <2> TAKE i \in 1 .. n
  <2>1. docs[i] \in DocT
    BY <1>2, OfSequence
  <2> QED BY <2>1 DEF DocT
<1>4. \A s \in S : s = 0 \/ \E i \in 1 .. n : s = docs[i].end
  <2>1. Range(docs) = {docs[i] : i \in 1 .. n}
    <3>1. DOMAIN docs = 1 .. n
      BY <1>2, OfSequence
    <3> QED BY <3>1 DEF Range
  <2> HIDE DEF docs, n
  <2> QED BY <2>1
<1>5. \A i \in 1 .. n : docs[i].end \in S
  <2> TAKE i \in 1 .. n
  <2>1. docs[i] \in Range(docs)
    <3>1. DOMAIN docs = 1 .. n
      BY <1>2, OfSequence
    <3> QED BY <3>1 DEF Range
  <2> HIDE DEF docs, n
  <2> QED BY <2>1
<1> HIDE DEF S
<1>6. \E x \in S : x \in Nat /\ \A y \in S : y <= x
  <2>1. CASE n = 0
    <3>1. 0 \in S
      BY DEF S
    <3>2. \A s \in S : s = 0
      BY <1>4, <2>1
    <3> QED BY <3>1, <3>2
  <2>2. CASE n # 0
    <3> HIDE DEF n
    <3>1. n \in 1 .. n
      BY <1>2, <2>2
    <3> DEFINE x == docs[n].end
    <3>2. x \in S /\ x \in Nat
      BY <1>3, <1>5, <3>1
    <3>3. docs[n].start <= x
      <4>1. Len(Tokens(pages[n])) \in Nat
        BY <1>1, <3>1, TokenAt DEF n
      <4>2. x = docs[n].start + Len(Tokens(pages[n])) /\ docs[n].start \in Nat
        BY <1>2, <1>3, <3>1
      <4> HIDE DEF x
      <4> QED BY <4>1, <4>2
    <3>4. ASSUME NEW i \in 1 .. n PROVE docs[i].end <= x
      <4>1. CASE i = n
        BY <3>2, <4>1
      <4>2. CASE i # n
        <5>1. i < n
          BY <1>2, <4>2
        <5>2. docs[i].end < docs[n].start
          BY <1>2, <3>1, <5>1
        <5>3. docs[i].end \in Nat /\ docs[n].start \in Nat
          BY <1>3, <3>1
        <5> HIDE DEF x
        <5> QED BY <3>2, <3>3, <5>2, <5>3
      <4> QED BY <4>1, <4>2
    <3>5. \A y \in S : y <= x
      <4> TAKE y \in S
      <4>1. y = 0 \/ \E i \in 1 .. n : y = docs[i].end
        BY <1>4
      <4> HIDE DEF x
      <4> QED BY <3>2, <3>4, <4>1
    <3> HIDE DEF x
    <3> QED BY <3>2, <3>5
  <2> QED BY <2>1, <2>2
<1>7. PICK x \in S : x \in Nat /\ \A y \in S : y <= x
  BY <1>6
<1>8. Max(S) \in S
  BY <1>7, MaxIn
<1>9. \A s \in S : s \in Nat
  BY <1>3, <1>4
<1>10. Max(S) \in Nat
  BY <1>8, <1>9
<1> QED BY <1>10 DEF S, docs

\* A reader at a post.
LEMMA WordAtIs ==
    ASSUME NEW lv, NEW t, NEW index, NEW abs
    PROVE  /\ WordAt(lv, t, index, abs).term = t
           /\ WordAt(lv, t, index, abs).index = index
           /\ WordAt(lv, t, index, abs).valid = (index <= Len(lv.lists[t].posts))
           /\ WordAt(lv, t, index, abs).start = abs
<1> DEFINE v == index <= Len(lv.lists[t].posts)
           dec == IF v THEN lv.lists[t].posts[index].dec ELSE NoDecoration
<1>1. WordAt(lv, t, index, abs) = [kind |-> "word", term |-> t, index |-> index, valid |-> v,
                                   start |-> abs, end |-> abs, dec |-> dec]
  BY Zenon DEF WordAt
<1> HIDE DEF v, dec
<1>2. /\ WordAt(lv, t, index, abs).term = t
      /\ WordAt(lv, t, index, abs).index = index
      /\ WordAt(lv, t, index, abs).valid = v
      /\ WordAt(lv, t, index, abs).start = abs
  BY <1>1
<1> QED BY <1>2 DEF v

\* A reader that seeks a location finds the first place of its word from there on.
SeeksTo(it, left) == it.valid = (left # {}) /\ (left # {} => it.start = Min(left))

\* A reader of a word is past the posts or at one of them, at the position of the post.
StandsAt(it, t, A) ==
    /\ it.term = t
    /\ it.valid \in BOOLEAN
    /\ it.valid => it.index \in 1 .. Len(A) /\ it.start = A[it.index]

\* The places of a word, those from a location on, and those after one.
PlacesOf(E) == {o.pos : o \in Words(E)}

FromOn(E, loc) == {p \in PlacesOf(E) : p >= loc}

PastPlace(E, pos) == {p \in PlacesOf(E) : p > pos}

\* The posts that are not ends are at the places of the word.
LEMMA WordPosts ==
    ASSUME NEW pl, NEW A, NEW E, Positioned(pl, A, E)
    PROVE  /\ \A i \in 1 .. Len(A) : pl.posts[i].dec # "end" => A[i] \in PlacesOf(E)
           /\ \A p \in PlacesOf(E) : \E i \in 1 .. Len(A) :
                 A[i] = p /\ pl.posts[i].dec # "end"
<1>1. /\ \A e \in E : \E i \in 1 .. Len(A) : A[i] = e.pos /\ pl.posts[i].dec = e.dec
      /\ \A i \in 1 .. Len(A) : \E e \in E : A[i] = e.pos /\ pl.posts[i].dec = e.dec
  BY DEF Positioned
<1> QED BY <1>1 DEF Words, PlacesOf

\* The first word among the posts that were reached is at the first place that was.
LEMMA FirstWordIs ==
    ASSUME NEW lv, NEW t, NEW A, NEW E, Reads(lv.lists[t], A), Positioned(lv.lists[t], A, E),
           NEW c \in 1 .. Len(A), NEW reached \in SUBSET (c .. Len(A)), NEW left,
           \A p : p \in left <=> /\ p \in PlacesOf(E)
                                 /\ \E i \in reached : A[i] = p
    PROVE  LET it == FirstWordAt(lv, t, reached, [i \in c .. Len(A) |-> A[i]])
           IN  SeeksTo(it, left) /\ StandsAt(it, t, A)
<1> DEFINE posts == lv.lists[t].posts
           places == PlacesOf(E)
           L == Len(A)
           abs == [i \in c .. L |-> A[i]]
           words == {i \in reached : posts[i].dec # "end"}
           m == Min(words)
           it == FirstWordAt(lv, t, reached, abs)
<1>1. A \in Seq(Nat) /\ L = Len(posts) /\ \A i, j \in 1 .. L : i < j => A[i] < A[j]
  BY DEF Reads
<1>2. L \in Nat /\ \A i \in 1 .. L : A[i] \in Nat
  BY <1>1, OfSequence
<1>3. \A i \in 1 .. L : posts[i].dec # "end" => A[i] \in places
  BY WordPosts
<1>4. \A p \in places : \E i \in 1 .. L : A[i] = p /\ posts[i].dec # "end"
  BY WordPosts
<1>5. reached \subseteq 1 .. L /\ reached \subseteq c .. L
  BY <1>2
<1>6. it = IF words = {} THEN WordAt(lv, t, Len(posts) + 1, 0) ELSE WordAt(lv, t, m, abs[m])
  <2> HIDE DEF abs
  <2> QED BY Zenon DEF FirstWordAt
<1>7. \A i, j \in 1 .. L : A[i] = A[j] => i = j
  <2> TAKE i, j \in 1 .. L
  <2>1. A[i] \in Nat /\ A[j] \in Nat /\ (i < j => A[i] < A[j]) /\ (j < i => A[j] < A[i])
    BY <1>1, <1>2
  <2>2. i < j \/ j < i \/ i = j
    BY <1>2
  <2> HIDE DEF L
  <2> QED BY <2>1, <2>2
<1> HIDE DEF L, posts, places
<1>8. \A i \in words : A[i] \in left
  BY <1>3, <1>5 DEF places
<1>9. \A p \in left : \E i \in words : A[i] = p
  <2> TAKE p \in left
  <2>1. PICK i \in reached : A[i] = p
    OBVIOUS
  <2>2. PICK j \in 1 .. L : A[j] = p /\ posts[j].dec # "end"
    BY <1>4 DEF places
  <2>3. i = j
    BY <1>5, <1>7, <2>1, <2>2
  <2> QED BY <2>1, <2>2, <2>3
<1>10. left \subseteq Nat
  BY <1>2, <1>5, <1>9
<1>11. words \subseteq reached
  OBVIOUS
<1> HIDE DEF words, m, abs, it
<1>12. CASE words = {}
  <2>1. left = {}
    BY <1>9, <1>12
  <2>2. it = WordAt(lv, t, L + 1, 0)
    BY <1>1, <1>6, <1>12
  <2>3. it.valid = (L + 1 <= L) /\ it.term = t
    BY <1>1, <2>2, WordAtIs DEF posts
  <2>4. (L + 1 <= L) = FALSE
    BY <1>2
  <2>5. it.valid = FALSE
    BY <2>3, <2>4
  <2>6. SeeksTo(it, left) /\ StandsAt(it, t, A)
    BY <2>1, <2>3, <2>5 DEF SeeksTo, StandsAt
  <2> QED BY <2>6 DEF it, abs, L
<1>13. CASE words # {}
  <2>1. words \subseteq Nat
    BY <1>5, <1>11
  <2>2. m \in words /\ \A i \in words : m <= i
    BY <1>13, <2>1, MinIn DEF m
  <2>3. m \in 1 .. L /\ m \in c .. L
    BY <1>5, <1>11, <2>2
  <2>4. abs[m] = A[m]
    BY <2>3 DEF abs
  <2>5. it = WordAt(lv, t, m, A[m])
    BY <1>6, <1>13, <2>4
  <2>6. it.valid = (m <= L) /\ it.start = A[m] /\ it.term = t /\ it.index = m
    BY <1>1, <2>5, WordAtIs DEF posts
  <2>7. (m <= L) = TRUE
    BY <1>2, <2>3
  <2>8. A[m] \in left
    BY <1>8, <2>2
  <2>9. \A p \in left : A[m] <= p
    <3> TAKE p \in left
    <3>1. PICK i \in words : A[i] = p
      BY <1>9
    <3>2. m <= i /\ i \in 1 .. L
      BY <1>5, <1>11, <2>2
    <3>3. m = i \/ m < i
      BY <2>3, <3>2
    <3>4. A[m] \in Nat /\ A[i] \in Nat
      BY <1>2, <2>3, <3>2
    <3>5. m < i => A[m] < A[i]
      BY <1>1, <2>3, <3>2
    <3> QED BY <3>1, <3>3, <3>4, <3>5
  <2>10. Min(left) = A[m]
    BY <1>10, <2>8, <2>9, MinIs
  <2>11. left # {}
    BY <2>8
  <2>12. it.valid = TRUE
    BY <2>6, <2>7
  <2>13. SeeksTo(it, left)
    BY <2>6, <2>10, <2>11, <2>12 DEF SeeksTo
  <2>14. StandsAt(it, t, A)
    BY <2>3, <2>6, <2>12 DEF StandsAt, L
  <2> QED BY <2>13, <2>14 DEF it, abs, L
<1> QED BY <1>12, <1>13

\* From wherever it is, a reader that seeks comes to the first place from there on.
LEMMA SeekFrom ==
    ASSUME NEW lv, NEW t, NEW A, NEW E, lv.lists[t] \in ListT, Reads(lv.lists[t], A),
           Positioned(lv.lists[t], A, E), NEW at, StandsAt(at, t, A), at.valid, NEW loc \in Nat
    PROVE  LET it == SeekWord(lv, at, loc)
           IN  /\ SeeksTo(it, FromOn(E, loc))
               /\ StandsAt(it, t, A)
<1> DEFINE pl == lv.lists[t]
           posts == pl.posts
           L == Len(A)
           abs == AbsolutesFrom(pl, Checkpoint(pl, loc))
           reached == {i \in DOMAIN abs : abs[i] >= loc}
           places == PlacesOf(E)
           left == FromOn(E, loc)
           it == SeekWord(lv, at, loc)
<1>1. A \in Seq(Nat) /\ L = Len(posts)
  BY DEF Reads
<1>2. L \in Nat /\ \A i \in 1 .. L : A[i] \in Nat
  BY <1>1, OfSequence
<1>3. at.term = t /\ at.index \in 1 .. L
  BY DEF StandsAt
<1>4. it = FirstWordAt(lv, t, reached, abs)
  <2>1. it = IF ~at.valid THEN at
             ELSE FirstWordAt(lv, at.term,
                      {i \in DOMAIN AbsolutesFrom(lv.lists[at.term], Checkpoint(lv.lists[at.term], loc)) :
                         AbsolutesFrom(lv.lists[at.term], Checkpoint(lv.lists[at.term], loc))[i] >= loc},
                      AbsolutesFrom(lv.lists[at.term], Checkpoint(lv.lists[at.term], loc)))
    BY Zenon DEF SeekWord
  <2>2. it = FirstWordAt(lv, at.term,
                      {i \in DOMAIN AbsolutesFrom(lv.lists[at.term], Checkpoint(lv.lists[at.term], loc)) :
                         AbsolutesFrom(lv.lists[at.term], Checkpoint(lv.lists[at.term], loc))[i] >= loc},
                      AbsolutesFrom(lv.lists[at.term], Checkpoint(lv.lists[at.term], loc)))
    <3> HIDE DEF it
    <3> QED BY <2>1, Zenon
  <2> HIDE DEF it
  <2> QED BY ONLY Zenon, <1>3, <2>2
<1>5. posts # <<>>
  <2>1. posts \in Seq(PostT)
    <3> HIDE DEF posts
    <3> QED BY DEF ListT, posts
  <2>2. posts = <<>> <=> L = 0
    BY <1>1, <2>1, NoneIn
  <2> HIDE DEF L, posts
  <2> QED BY <1>2, <1>3, <2>2
<1>6. PICK c \in 1 .. L : /\ abs = [i \in c .. L |-> A[i]]
                          /\ \A i \in 1 .. L : A[i] >= loc => c <= i
  <2> HIDE DEF abs
  <2> QED BY <1>5, FromCheckpoint DEF L, abs, posts
<1>7. \A i : i \in reached <=> i \in c .. L /\ A[i] >= loc
  <2> HIDE DEF abs
  <2> QED BY <1>6
<1> HIDE DEF abs, reached, it
<1>8. reached \in SUBSET (c .. L)
  BY <1>7
<1>9. \A p \in places : \E i \in 1 .. L : A[i] = p
  BY WordPosts
<1>10. \A p : p \in left <=> p \in places /\ \E i \in reached : A[i] = p
  <2>1. \A i \in 1 .. L : A[i] >= loc => i \in reached
    BY <1>2, <1>6, <1>7
  <2>2. \A p : p \in left <=> p \in places /\ p >= loc
    BY DEF FromOn
  <2> HIDE DEF L, places, left
  <2> QED BY <1>7, <1>9, <2>1, <2>2
<1>11. SeeksTo(FirstWordAt(lv, t, reached, [i \in c .. L |-> A[i]]), left)
       /\ StandsAt(FirstWordAt(lv, t, reached, [i \in c .. L |-> A[i]]), t, A)
  <2> HIDE DEF left
  <2> QED BY <1>8, <1>10, FirstWordIs
<1>12. SeeksTo(it, left) /\ StandsAt(it, t, A)
  <2> HIDE DEF left
  <2> QED BY <1>4, <1>6, <1>11
<1> QED BY <1>12 DEF it

\* From wherever it is, the next is the first place after it.
LEMMA NextFrom ==
    ASSUME NEW lv, NEW t, NEW A, NEW E, lv.lists[t] \in ListT, Reads(lv.lists[t], A),
           Positioned(lv.lists[t], A, E), NEW at, StandsAt(at, t, A), at.valid
    PROVE  LET it == NextWord(lv, at)
           IN  /\ SeeksTo(it, PastPlace(E, at.start))
               /\ StandsAt(it, t, A)
<1> DEFINE pl == lv.lists[t]
           L == Len(A)
           c == at.index
           known == [index |-> at.index, abs |-> at.start]
           abs == AbsolutesFrom(pl, known)
           reached == DOMAIN abs \ {c}
           places == PlacesOf(E)
           left == PastPlace(E, at.start)
           it == NextWord(lv, at)
<1>1. A \in Seq(Nat) /\ \A i, j \in 1 .. L : i < j => A[i] < A[j]
  BY DEF Reads
<1>2. L \in Nat /\ \A i \in 1 .. L : A[i] \in Nat
  BY <1>1, OfSequence
<1>3. at.term = t /\ c \in 1 .. L /\ at.start = A[c]
  BY DEF StandsAt
<1>4. it = FirstWordAt(lv, t, reached, abs)
  <2>1. it = FirstWordAt(lv, at.term,
                 DOMAIN AbsolutesFrom(lv.lists[at.term], [index |-> at.index, abs |-> at.start]) \ {at.index},
                 AbsolutesFrom(lv.lists[at.term], [index |-> at.index, abs |-> at.start]))
    BY Zenon DEF NextWord
  <2> HIDE DEF it
  <2> QED BY ONLY Zenon, <1>3, <2>1
<1>5. abs = [i \in c .. L |-> A[i]]
  <2>1. known.index = c /\ known.abs = at.start
    OBVIOUS
  <2>2. known.index \in 1 .. Len(A) /\ known.abs = A[known.index]
    BY <1>3, <2>1
  <2> HIDE DEF known
  <2>3. AbsolutesFrom(pl, known) = [i \in known.index .. Len(A) |-> A[i]]
    BY <2>2, AbsolutesIs
  <2> QED BY <2>1, <2>3
<1>6. \A i : i \in reached <=> i \in c .. L /\ i # c
  <2> HIDE DEF abs
  <2> QED BY <1>5
<1> HIDE DEF abs, reached, it, known
<1>7. reached \in SUBSET (c .. L)
  BY <1>6
<1>8. \A p \in places : \E i \in 1 .. L : A[i] = p
  BY WordPosts
<1>9. \A i \in 1 .. L : A[i] > A[c] <=> i \in reached
  <2> TAKE i \in 1 .. L
  <2>1. i \in reached <=> c < i
    BY <1>2, <1>3, <1>6
  <2>2. A[i] \in Nat /\ A[c] \in Nat /\ (c < i => A[c] < A[i]) /\ (i < c => A[i] < A[c])
    BY <1>1, <1>2, <1>3
  <2>3. c < i \/ i < c \/ i = c
    BY <1>2, <1>3
  <2> HIDE DEF L, c
  <2> QED BY <2>1, <2>2, <2>3
<1>10. \A p : p \in left <=> p \in places /\ \E i \in reached : A[i] = p
  <2>1. reached \subseteq 1 .. L
    BY <1>2, <1>3, <1>7
  <2>2. \A p : p \in left <=> p \in places /\ p > at.start
    BY DEF PastPlace
  <2> HIDE DEF L, places, c, left
  <2> QED BY <1>3, <1>8, <1>9, <2>1, <2>2
<1>11. SeeksTo(FirstWordAt(lv, t, reached, [i \in c .. L |-> A[i]]), left)
       /\ StandsAt(FirstWordAt(lv, t, reached, [i \in c .. L |-> A[i]]), t, A)
  <2> HIDE DEF left, c
  <2> QED BY <1>3, <1>7, <1>10, FirstWordIs
<1>12. SeeksTo(it, left) /\ StandsAt(it, t, A)
  <2> HIDE DEF left
  <2> QED BY <1>4, <1>5, <1>11
<1> QED BY <1>12 DEF it

\* A document does not end for a word before the word is in it.
LEMMA EndAfterWord ==
    ASSUME NEW lv, NEW pages, NEW H, LevelTells(lv, pages, H), NEW t \in Terms,
           NEW e \in Of(H, t), e.dec = "end"
    PROVE  \E w \in Of(H, t) : w.pos \in Nat /\ e.pos \in Nat /\ w.pos < e.pos
<1> DEFINE docs == lv.docs
<1>1. /\ pages \in Seq(PageType) /\ H = History(docs, pages, Len(pages)) /\ H \subseteq EventT
  BY DEF LevelTells
<1>2. e \in H /\ e.term = t
  BY DEF Of
<1>3. PICK k \in 1 .. Len(pages) : \E i \in 1 .. Len(Tokens(pages[k])) :
                  e = WordOf(docs, pages, k, i) \/ e = EndOf(docs, pages, k, i)
  BY <1>1, <1>2, HistoryIs
<1>4. PICK i \in 1 .. Len(Tokens(pages[k])) :
                  e = WordOf(docs, pages, k, i) \/ e = EndOf(docs, pages, k, i)
  BY <1>3
<1> DEFINE w == WordOf(docs, pages, k, i)
           z == EndOf(docs, pages, k, i)
<1>5. w.dec # "end" /\ w.term = z.term /\ z.pos = docs[k].end
  BY <1>1, WordOfIs
<1>6. Within(docs, k, w) /\ w \in H
  BY WordWithin
<1> HIDE DEF w, z
<1>7. e = z
  BY <1>4, <1>5 DEF w, z
<1>8. w \in Of(H, t)
  BY <1>2, <1>5, <1>6, <1>7 DEF Of
<1>9. w.pos < docs[k].end
  BY <1>5, <1>6 DEF Within
<1>10. \A x \in H : x.pos \in Nat
  BY <1>1 DEF EventT
<1> QED BY <1>2, <1>5, <1>6, <1>7, <1>8, <1>9, <1>10

\* A new reader is at the first place of its word.
LEMMA NewIs ==
    ASSUME NEW lv, NEW pages, NEW H, LevelTells(lv, pages, H), NEW t \in Terms,
           NEW A, Reads(lv.lists[t], A), Positioned(lv.lists[t], A, Of(H, t))
    PROVE  LET it == NewWord(lv, t)
           IN  /\ SeeksTo(it, PlacesOf(Of(H, t)))
               /\ StandsAt(it, t, A)
<1> DEFINE posts == lv.lists[t].posts
           L == Len(A)
           left == PlacesOf(Of(H, t))
           it == NewWord(lv, t)
<1>1. A \in Seq(Nat) /\ L = Len(posts) /\ \A i, j \in 1 .. L : i < j => A[i] < A[j]
  BY DEF Reads
<1>2. L \in Nat /\ \A i \in 1 .. L : A[i] \in Nat
  BY <1>1, OfSequence
<1>3. \A i \in 1 .. L : posts[i].dec # "end" => A[i] \in left
  BY WordPosts
<1>4. \A p \in left : \E i \in 1 .. L : A[i] = p
  BY WordPosts
<1>5. posts = <<>> <=> L = 0
  <2>1. ListIs(lv.lists[t], Of(H, t), Len(pages))
    BY DEF LevelTells
  <2>2. lv.lists[t] \in ListT
    BY <2>1 DEF ListIs
  <2>3. posts \in Seq(PostT)
    <3> HIDE DEF posts
    <3> QED BY <2>2 DEF ListT, posts
  <2> HIDE DEF posts, L
  <2> QED BY <1>1, <2>3, NoneIn
<1>6. it = IF posts = <<>> THEN WordAt(lv, t, 1, 0) ELSE WordAt(lv, t, 1, posts[1].delta)
  BY Zenon DEF NewWord
<1>7. \A x : /\ WordAt(lv, t, 1, x).term = t /\ WordAt(lv, t, 1, x).index = 1
             /\ WordAt(lv, t, 1, x).valid = (1 <= L) /\ WordAt(lv, t, 1, x).start = x
  <2> HIDE DEF L
  <2> QED BY <1>1, WordAtIs
<1> HIDE DEF L, posts, left, it
<1>8. CASE L = 0
  <2>1. it.term = t /\ it.valid = (1 <= L)
    BY <1>6, <1>7
  <2>2. (1 <= L) = FALSE
    BY <1>8
  <2>3. left = {}
    BY <1>4, <1>8
  <2>4. it.valid = FALSE
    BY <2>1, <2>2
  <2>5. SeeksTo(it, left) /\ StandsAt(it, t, A)
    BY <2>1, <2>3, <2>4 DEF SeeksTo, StandsAt
  <2> QED BY <2>5 DEF it, left
<1>9. CASE L # 0
  <2>1. 1 \in 1 .. L /\ (1 <= L) = TRUE
    BY <1>2, <1>9
  <2>2. posts[1].delta = A[1]
    <3>1. posts[1].delta = A[1] - Before1(A, 1)
      BY <2>1 DEF Reads, posts, L
    <3>2. Before1(A, 1) = 0
      BY DEF Before1
    <3>3. A[1] \in Nat
      BY <1>2, <2>1
    <3> QED BY <3>1, <3>2, <3>3
  <2>3. it.term = t /\ it.index = 1 /\ it.valid = TRUE /\ it.start = A[1]
    BY <1>5, <1>6, <1>7, <1>9, <2>1, <2>2
  <2>4. posts[1].dec # "end"
    <3> SUFFICES ASSUME posts[1].dec = "end" PROVE FALSE
      OBVIOUS
    <3>1. PICK e \in Of(H, t) : A[1] = e.pos /\ posts[1].dec = e.dec
      BY <2>1 DEF Positioned, L, posts
    <3>2. PICK w \in Of(H, t) : w.pos \in Nat /\ e.pos \in Nat /\ w.pos < e.pos
      BY <3>1, EndAfterWord
    <3>3. PICK j \in 1 .. L : A[j] = w.pos
      BY DEF Positioned, L
    <3>4. j = 1 \/ 1 < j
      BY <1>2
    <3>5. 1 < j => A[1] < A[j]
      BY <1>1, <2>1
    <3> QED BY <3>1, <3>2, <3>3, <3>4, <3>5
  <2>5. A[1] \in left
    BY <1>3, <2>1, <2>4
  <2>6. \A p \in left : A[1] <= p
    <3> TAKE p \in left
    <3>1. PICK j \in 1 .. L : A[j] = p
      BY <1>4
    <3>2. j = 1 \/ 1 < j
      BY <1>2
    <3>3. A[1] \in Nat /\ A[j] \in Nat /\ (1 < j => A[1] < A[j])
      BY <1>1, <1>2, <2>1
    <3> QED BY <3>1, <3>2, <3>3
  <2>7. left \subseteq Nat
    BY <1>2, <1>4
  <2>8. Min(left) = A[1] /\ left # {}
    BY <2>5, <2>6, <2>7, MinIs
  <2>9. SeeksTo(it, left)
    BY <2>3, <2>8 DEF SeeksTo
  <2>10. StandsAt(it, t, A)
    BY <2>1, <2>3 DEF StandsAt, L
  <2> QED BY <2>9, <2>10 DEF it, left
<1> QED BY <1>8, <1>9

LEMMA SeekIs ==
    ASSUME NEW lv, NEW pages, NEW H, LevelTells(lv, pages, H), InRange(lv), NEW t \in Terms,
           NEW loc \in Nat
    PROVE  SeeksTo(SeekWord(lv, NewWord(lv, t), loc), FromOn(Of(H, t), loc))
<1> DEFINE new == NewWord(lv, t)
           places == PlacesOf(Of(H, t))
           left == FromOn(Of(H, t), loc)
           it == SeekWord(lv, new, loc)
<1>1. lv.lists[t] \in ListT
  BY PlacesAre
<1>2. PICK A : Reads(lv.lists[t], A) /\ Positioned(lv.lists[t], A, Of(H, t))
  BY PlacesAre
<1>3. SeeksTo(new, places) /\ StandsAt(new, t, A)
  BY <1>2, NewIs
<1>4. CASE new.valid
  <2> HIDE DEF new
  <2>1. SeeksTo(SeekWord(lv, new, loc), left)
    BY <1>1, <1>2, <1>3, <1>4, SeekFrom
  <2> QED BY <2>1 DEF new
<1>5. CASE ~ new.valid
  <2>1. it = new
    <3>1. SeekWord(lv, new, loc) = new
      <4> HIDE DEF new
      <4> QED BY <1>5, Zenon DEF SeekWord
    <3> QED BY <3>1
  <2> HIDE DEF new, it, places
  <2>2. new.valid = FALSE /\ places = {}
    BY <1>3, <1>5 DEF SeeksTo, StandsAt
  <2>3. left = {}
    BY <2>2 DEF FromOn, places
  <2> HIDE DEF left
  <2>4. SeeksTo(it, left)
    BY <2>1, <2>2, <2>3 DEF SeeksTo
  <2> QED BY <2>4 DEF it, new, left
<1> QED BY <1>4, <1>5

LEMMA LevelSeeks ==
    ASSUME NEW lv, NEW pages, NEW H, LevelTells(lv, pages, H), InRange(lv)
    PROVE  SeeksExactlyIn(lv)
<1> DEFINE end == Max({0} \cup {doc.end : doc \in Range(lv.docs)})
<1>1. end \in Nat
  BY LastPlace
<1>2. SeeksExactlyIn(lv) <=>
        \A t \in Terms : \A loc \in 0 .. end + 1 :
            SeeksTo(SeekWord(lv, NewWord(lv, t), loc),
                    {p \in {o.pos : o \in OccurrencesOf(lv, t)} : p >= loc})
  BY Zenon DEF SeeksExactlyIn, SeeksTo
<1> HIDE DEF end
<1>3. ASSUME NEW t \in Terms, NEW loc \in 0 .. end + 1
      PROVE  SeeksTo(SeekWord(lv, NewWord(lv, t), loc),
                     {p \in {o.pos : o \in OccurrencesOf(lv, t)} : p >= loc})
  <2>1. loc \in Nat
    BY <1>1
  <2>2. OccurrencesOf(lv, t) = Words(Of(H, t))
    BY OccurrencesOfAre
  <2>3. SeeksTo(SeekWord(lv, NewWord(lv, t), loc),
                {p \in {o.pos : o \in Words(Of(H, t))} : p >= loc})
    BY <2>1, SeekIs DEF FromOn, PlacesOf
  <2> QED BY ONLY Zenon, <2>2, <2>3
<1> QED BY <1>2, <1>3

-----------------------------------------------------------------------------
(* Counting. *)

PositionsOf(here, d, dec) == {o.pos : o \in {p \in here : p.doc = d /\ p.dec = dec}}

LEMMA FieldIs ==
    ASSUME NEW lv, NEW pages, NEW H, LevelTells(lv, pages, H), InRange(lv), NEW t \in Terms,
           NEW d \in 0 .. Len(pages) - 1, NEW dec \in Decs
    PROVE  FieldPositions(lv, d, t, dec) = PositionsOf(Words(Of(H, t)), d, dec)
<1> DEFINE pl == lv.lists[t]
           posts == pl.posts
           n == Len(pages)
           k == d + 1
           doc == lv.docs[d + 1]
           here == Words(Of(H, t))
           abs == AbsolutesFrom(pl, Checkpoint(pl, doc.start))
           P == PositionsOf(here, d, dec)
           F == FieldPositions(lv, d, t, dec)
<1>1. pl \in ListT /\ posts \in Seq(PostT)
  BY PlacesAre
<1>2. PICK A : Reads(pl, A) /\ Positioned(pl, A, Of(H, t))
  BY PlacesAre
<1> DEFINE L == Len(A)
<1>3. A \in Seq(Nat) /\ L = Len(posts)
  BY <1>2 DEF Reads
<1>4. L \in Nat /\ \A i \in 1 .. L : A[i] \in Nat
  BY <1>3, OfSequence
<1>5. /\ \A e \in Of(H, t) : \E i \in 1 .. L : A[i] = e.pos /\ posts[i].dec = e.dec
      /\ \A i \in 1 .. L : \E e \in Of(H, t) : A[i] = e.pos /\ posts[i].dec = e.dec
  BY <1>2 DEF Positioned
<1>6. posts = <<>> <=> L = 0
  BY <1>1, <1>3, NoneIn
<1>7. F = IF posts = <<>> THEN {}
          ELSE {abs[i] : i \in {j \in DOMAIN abs : /\ doc.start <= abs[j] /\ abs[j] < doc.end
                                                   /\ posts[j].dec = dec}}
  BY Zenon DEF FieldPositions
<1>8. n \in Nat /\ k \in 1 .. n /\ k - 1 = d
  <2>1. pages \in Seq(PageType)
    BY DEF LevelTells
  <2>2. n \in Nat
    BY <2>1, OfSequence
  <2> HIDE DEF n
  <2>3. d \in 0 .. n - 1
    BY DEF n
  <2> QED BY <2>2, <2>3
<1>9. doc.start \in Nat /\ doc.end \in Nat
  <2>1. lv.docs \in Seq(DocT) /\ Len(lv.docs) = n
    BY DEF LevelTells, Chronicle
  <2>2. lv.docs[k] \in DocT
    BY <1>8, <2>1, OfSequence
  <2> QED BY <2>2 DEF DocT
<1>10. H \subseteq EventT
  BY DEF LevelTells
<1>11. \A e \in Of(H, t) : e \in H /\ e.pos \in Nat /\ (e \in here <=> e.dec # "end")
  BY <1>10 DEF Of, Words, EventT
<1>12. here \subseteq Of(H, t)
  BY DEF Words
<1>13. dec # "end"
  BY DEF Decs
<1>14. \A v : v \in P <=> \E o \in here : o.doc = d /\ o.dec = dec /\ v = o.pos
  <2> HIDE DEF here
  <2> QED BY DEF PositionsOf
<1>15. ASSUME NEW e \in Of(H, t), doc.start <= e.pos, e.pos < doc.end
       PROVE  e.doc = d
  <2>1. PICK j \in 1 .. n : Within(lv.docs, j, e)
    BY <1>11, EventWithin
  <2>2. e.pos <= doc.end /\ e.pos \in Nat
    BY <1>9, <1>11, <1>15
  <2>3. k = j
    BY <1>8, <1>15, <2>1, <2>2, SameDocument
  <2> QED BY <1>8, <2>1, <2>3 DEF Within
<1>16. ASSUME NEW o \in here, o.doc = d
       PROVE  doc.start <= o.pos /\ o.pos < doc.end
  <2>1. o \in H /\ o.dec # "end" /\ o.pos \in Nat
    BY <1>11, <1>12
  <2>2. PICK j \in 1 .. n : Within(lv.docs, j, o)
    BY <2>1, EventWithin
  <2> HIDE DEF n
  <2>3. j - 1 = k - 1
    BY <1>8, <1>16, <2>2 DEF Within
  <2> HIDE DEF k
  <2>4. j = k
    BY <1>8, <2>3
  <2> QED BY <2>1, <2>2, <2>4 DEF Within, k
<1> HIDE DEF here, P, F, L, posts, n, k, doc
<1>17. CASE L = 0
  <2>1. F = {}
    BY <1>6, <1>7, <1>17
  <2>2. \A v : v \notin P
    BY <1>5, <1>12, <1>14, <1>17
  <2>3. F = P
    BY <2>1, <2>2
  <2> QED BY <2>3 DEF F, P, here
<1>18. CASE L # 0
  <2>1. PICK c \in 1 .. L : /\ abs = [i \in c .. L |-> A[i]]
                            /\ \A i \in 1 .. L : A[i] >= doc.start => c <= i
    <3>1. posts # <<>>
      BY <1>6, <1>18
    <3> HIDE DEF abs
    <3> QED BY <1>1, <1>2, <1>9, <3>1, FromCheckpoint DEF L, abs, posts
  <2> HIDE DEF abs
  <2>2. DOMAIN abs = c .. L /\ \A i \in c .. L : abs[i] = A[i]
    BY <2>1
  <2>3. c .. L \subseteq 1 .. L /\ \A i \in 1 .. L : c <= i => i \in c .. L
    BY <1>4
  <2>4. F = {abs[i] : i \in {j \in DOMAIN abs : /\ doc.start <= abs[j] /\ abs[j] < doc.end
                                                /\ posts[j].dec = dec}}
    <3>1. posts # <<>>
      BY <1>6, <1>18
    <3> QED BY <1>7, <3>1
  <2>5. \A v : v \in F <=> \E i \in c .. L : /\ doc.start <= A[i] /\ A[i] < doc.end
                                             /\ posts[i].dec = dec /\ v = A[i]
    BY <2>2, <2>4
  <2>6. F \subseteq P
    <3> SUFFICES ASSUME NEW v \in F PROVE v \in P
      OBVIOUS
    <3>1. PICK i \in c .. L : doc.start <= A[i] /\ A[i] < doc.end /\ posts[i].dec = dec /\ v = A[i]
      BY <2>5
    <3>2. i \in 1 .. L
      BY <2>3
    <3>3. PICK e \in Of(H, t) : A[i] = e.pos /\ posts[i].dec = e.dec
      BY <1>5, <3>2
    <3>4. e \in here
      BY <1>11, <1>13, <3>1, <3>3
    <3>5. e.doc = d
      BY <1>15, <3>1, <3>3
    <3> QED BY <1>14, <3>1, <3>3, <3>4, <3>5
  <2>7. P \subseteq F
    <3> SUFFICES ASSUME NEW v \in P PROVE v \in F
      OBVIOUS
    <3>1. PICK o \in here : o.doc = d /\ o.dec = dec /\ v = o.pos
      BY <1>14
    <3>2. doc.start <= o.pos /\ o.pos < doc.end
      BY <1>16, <3>1
    <3>3. PICK i \in 1 .. L : A[i] = o.pos /\ posts[i].dec = o.dec
      BY <1>5, <1>12
    <3>4. A[i] >= doc.start
      <4>1. A[i] \in Nat
        BY <1>4
      <4> QED BY <1>9, <3>2, <3>3, <4>1
    <3>5. i \in c .. L
      BY <2>1, <2>3, <3>4
    <3> QED BY <2>5, <3>1, <3>2, <3>3, <3>5
  <2>8. F = P
    BY <2>6, <2>7
  <2> QED BY <2>8 DEF F, P, here
<1> QED BY <1>17, <1>18

LEMMA LevelCounts ==
    ASSUME NEW lv, NEW pages, NEW H, LevelTells(lv, pages, H), InRange(lv)
    PROVE  CountsIn(lv)
<1>1. NumDocs(lv) = Len(pages)
  BY DEF NumDocs, LevelTells, Chronicle
<1>2. ASSUME NEW t \in Terms
      PROVE  /\ \A d \in 0 .. NumDocs(lv) - 1 : \A dec \in Decs :
                  FieldPositions(lv, d, t, dec) = PositionsOf(OccurrencesOf(lv, t), d, dec)
             /\ lv.lists[t].numDocs = Cardinality({o.doc : o \in OccurrencesOf(lv, t)})
             /\ lv.lists[t].occurrences = Cardinality(OccurrencesOf(lv, t))
  <2>1. OccurrencesOf(lv, t) = Words(Of(H, t))
    BY OccurrencesOfAre
  <2>2. ASSUME NEW d \in 0 .. NumDocs(lv) - 1, NEW dec \in Decs
        PROVE  FieldPositions(lv, d, t, dec) = PositionsOf(OccurrencesOf(lv, t), d, dec)
    <3>1. d \in 0 .. Len(pages) - 1
      BY <1>1
    <3>2. FieldPositions(lv, d, t, dec) = PositionsOf(Words(Of(H, t)), d, dec)
      BY <3>1, FieldIs
    <3> QED BY <2>1, <3>2
  <2>3. Counted(lv.lists[t], Of(H, t), Len(pages))
    BY DEF LevelTells, ListIs
  <2>4. /\ lv.lists[t].occurrences = Cardinality(Words(Of(H, t)))
        /\ lv.lists[t].numDocs = Cardinality(DocsOf(Of(H, t)))
    BY <2>3 DEF Counted
  <2>5. DocsOf(Of(H, t)) = {o.doc : o \in Words(Of(H, t))}
    BY DEF DocsOf
  <2> QED BY <2>1, <2>2, <2>4, <2>5
<1> QED BY <1>2, Zenon DEF CountsIn, PositionsOf, Decs

-----------------------------------------------------------------------------

\* A level that was built from pages, written and loaded tells what is in them.
LEMMA LoadedTells ==
    ASSUME NEW pages \in Seq(PageType)
    PROVE  LevelTells(Loaded(pages), pages, History(Loaded(pages).docs, pages, Len(pages)))
<1> DEFINE lv == Loaded(pages)
           ib == Built(pages)
<1>1. ib \in Builders /\ LevelOf(lv, ib, pages) /\ BuiltFrom(ib, pages, Len(pages))
  BY LoadedIs, BuiltIs
<1> HIDE DEF lv, ib
<1>2. LevelTells(lv, pages, History(lv.docs, pages, Len(pages)))
  BY <1>1, LevelTellsIs
<1> QED BY <1>2 DEF lv

\* A level that was built from pages, written and loaded answers as the pages say.
LEMMA LevelAnswers ==
    ASSUME NEW pages \in Seq(PageType)
    PROVE  AnswersIn(Loaded(pages))
<1> DEFINE lv == Loaded(pages)
           ib == Built(pages)
           H == History(lv.docs, pages, Len(pages))
<1>1. ib \in Builders /\ LevelOf(lv, ib, pages) /\ BuiltFrom(ib, pages, Len(pages))
  BY LoadedIs, BuiltIs
<1>2. LooksUpIn(lv)
  BY <1>1, LevelLooksUp
<1> HIDE DEF lv, ib
<1>3. ApartIn(lv.extents)
  BY <1>1, LevelApart
<1>4. DescribesIn(lv)
  BY <1>1, LevelDescribes
<1>5. LevelTells(lv, pages, H)
  BY LoadedTells DEF lv
<1> HIDE DEF H
<1>6. InRange(lv) => SeeksExactlyIn(lv) /\ CountsIn(lv)
  BY <1>5, LevelSeeks, LevelCounts
<1>7. AnswersIn(lv)
  BY <1>2, <1>3, <1>4, <1>6 DEF AnswersIn
<1> QED BY <1>7 DEF lv



\* An index answers every lookup, seek and count as the pages say that it was built from,
\* after it was written and loaded, whatever the pages, the hashes and the lengths of the
\* words.  (NewDoc, addToken, WriteBlobV4, find_term_offset, ISRWord::Seek,
\* GetFieldTermFrequency.)
THEOREM IndexAnswersAlways == LevelsSpec => []IndexAnswers
<1>1. LoadLevels => IndexAnswers
  <2> SUFFICES ASSUME LoadLevels, NEW lv \in Range(levels) PROVE AnswersIn(lv)
    BY DEF IndexAnswers
  <2>1. levels = [i \in DOMAIN Corpora |-> Loaded(Corpora[i])]
    BY DEF LoadLevels
  <2>2. PICK i \in DOMAIN Corpora : lv = Loaded(Corpora[i])
    BY <2>1, Zenon DEF Range
  <2>3. Corpora[i] \in Seq(PageType)
    BY CorporaAssumption
  <2> QED BY <2>2, <2>3, LevelAnswers
<1>2. LoadLevels /\ [UNCHANGED levels]_levels => LoadLevels'
  BY DEF LoadLevels
<1> QED BY <1>1, <1>2, PTL DEF LevelsSpec

-----------------------------------------------------------------------------
(* A reader of a word, wherever it is. *)

\* Where the posts of a word are: from the first on, each a distance from the one before.
PostsAt(lv, t) ==
    AbsolutesFrom(lv.lists[t], [index |-> 1, abs |-> lv.lists[t].posts[1].delta])

\* A reader of the word: past its posts, or at one of them and where it is.
ReaderOf(lv, t, it) ==
    /\ it.term = t
    /\ it.valid \in BOOLEAN
    /\ it.valid => /\ it.index \in DOMAIN lv.lists[t].posts
                   /\ it.start = PostsAt(lv, t)[it.index]

\* A new reader is at the first place of its word; from any place, the next is the first
\* after it, and a location that is sought, behind or ahead, leads to the first from
\* there on.  What is returned is a reader of the word again, so this holds along any
\* calls, in any order.
MovesExactlyIn(lv) ==
    \A t \in Terms :
        LET places == {o.pos : o \in OccurrencesOf(lv, t)}
        IN  /\ ReaderOf(lv, t, NewWord(lv, t))
            /\ SeeksTo(NewWord(lv, t), places)
            /\ \A it : ReaderOf(lv, t, it) /\ it.valid =>
                  /\ ReaderOf(lv, t, NextWord(lv, it))
                  /\ SeeksTo(NextWord(lv, it), {p \in places : p > it.start})
                  /\ \A loc \in Nat :
                        /\ ReaderOf(lv, t, SeekWord(lv, it, loc))
                        /\ SeeksTo(SeekWord(lv, it, loc), {p \in places : p >= loc})

\* The two ways to say where a reader is.
LEMMA ReaderStands ==
    ASSUME NEW lv, NEW t, NEW A, lv.lists[t] \in ListT, Reads(lv.lists[t], A), NEW it
    PROVE  ReaderOf(lv, t, it) <=> StandsAt(it, t, A)
<1> DEFINE posts == lv.lists[t].posts
           L == Len(A)
           known == [index |-> 1, abs |-> posts[1].delta]
<1>1. A \in Seq(Nat) /\ L = Len(posts)
  BY DEF Reads
<1>2. L \in Nat /\ \A i \in 1 .. L : A[i] \in Nat
  BY <1>1, OfSequence
<1>3. DOMAIN posts = 1 .. L
  <2>1. posts \in Seq(PostT)
    <3> HIDE DEF posts
    <3> QED BY DEF ListT, posts
  <2> HIDE DEF posts, L
  <2> QED BY <1>1, <2>1, OfSequence
<1>4. ASSUME NEW i \in 1 .. L PROVE PostsAt(lv, t)[i] = A[i]
  <2>1. 1 \in 1 .. L
    BY <1>2
  <2>2. posts[1].delta = A[1]
    <3>1. posts[1].delta = A[1] - Before1(A, 1)
      BY <2>1 DEF Reads
    <3>2. Before1(A, 1) = 0
      BY DEF Before1
    <3>3. A[1] \in Nat
      BY <1>2, <2>1
    <3> QED BY <3>1, <3>2, <3>3
  <2>3. known.index = 1 /\ known.abs = A[1]
    BY <2>2
  <2>4. PostsAt(lv, t) = AbsolutesFrom(lv.lists[t], known)
    BY DEF PostsAt
  <2> HIDE DEF known
  <2>5. AbsolutesFrom(lv.lists[t], known) = [j \in known.index .. Len(A) |-> A[j]]
    <3>1. known.index \in 1 .. Len(A) /\ known.abs = A[known.index]
      BY <2>1, <2>3
    <3> QED BY <3>1, AbsolutesIs
  <2>6. i \in known.index .. Len(A)
    BY <2>3
  <2> QED BY <2>4, <2>5, <2>6
<1> QED BY <1>3, <1>4 DEF ReaderOf, StandsAt

LEMMA LevelMoves ==
    ASSUME NEW lv, NEW pages, NEW H, LevelTells(lv, pages, H), InRange(lv)
    PROVE  MovesExactlyIn(lv)
<1>1. ASSUME NEW t \in Terms
      PROVE  /\ ReaderOf(lv, t, NewWord(lv, t))
             /\ SeeksTo(NewWord(lv, t), PlacesOf(Of(H, t)))
             /\ \A it : ReaderOf(lv, t, it) /\ it.valid =>
                   /\ ReaderOf(lv, t, NextWord(lv, it))
                   /\ SeeksTo(NextWord(lv, it), PastPlace(Of(H, t), it.start))
                   /\ \A loc \in Nat :
                         /\ ReaderOf(lv, t, SeekWord(lv, it, loc))
                         /\ SeeksTo(SeekWord(lv, it, loc), FromOn(Of(H, t), loc))
  <2>1. lv.lists[t] \in ListT
    BY PlacesAre
  <2>2. PICK A : Reads(lv.lists[t], A) /\ Positioned(lv.lists[t], A, Of(H, t))
    BY PlacesAre
  <2>3. \A it : ReaderOf(lv, t, it) <=> StandsAt(it, t, A)
    BY <2>1, <2>2, ReaderStands
  <2>4. SeeksTo(NewWord(lv, t), PlacesOf(Of(H, t))) /\ StandsAt(NewWord(lv, t), t, A)
    BY <2>2, NewIs
  <2>5. ASSUME NEW it, ReaderOf(lv, t, it), it.valid
        PROVE  /\ ReaderOf(lv, t, NextWord(lv, it))
               /\ SeeksTo(NextWord(lv, it), PastPlace(Of(H, t), it.start))
    <3>1. StandsAt(it, t, A)
      BY <2>3, <2>5
    <3> QED BY <2>1, <2>2, <2>3, <2>5, <3>1, NextFrom
  <2>6. ASSUME NEW it, ReaderOf(lv, t, it), it.valid, NEW loc \in Nat
        PROVE  /\ ReaderOf(lv, t, SeekWord(lv, it, loc))
               /\ SeeksTo(SeekWord(lv, it, loc), FromOn(Of(H, t), loc))
    <3>1. StandsAt(it, t, A)
      BY <2>3, <2>6
    <3> QED BY <2>1, <2>2, <2>3, <2>6, <3>1, SeekFrom
  <2> QED BY <2>3, <2>4, <2>5, <2>6
<1>2. ASSUME NEW t \in Terms, NEW x
      PROVE  /\ {o.pos : o \in OccurrencesOf(lv, t)} = PlacesOf(Of(H, t))
             /\ {p \in {o.pos : o \in OccurrencesOf(lv, t)} : p > x} = PastPlace(Of(H, t), x)
             /\ {p \in {o.pos : o \in OccurrencesOf(lv, t)} : p >= x} = FromOn(Of(H, t), x)
  <2>1. OccurrencesOf(lv, t) = Words(Of(H, t))
    BY OccurrencesOfAre
  <2> QED BY <2>1, Zenon DEF PlacesOf, PastPlace, FromOn
<1>3. SUFFICES ASSUME NEW t \in Terms
      PROVE  /\ ReaderOf(lv, t, NewWord(lv, t))
             /\ SeeksTo(NewWord(lv, t), {o.pos : o \in OccurrencesOf(lv, t)})
             /\ \A it : ReaderOf(lv, t, it) /\ it.valid =>
                   /\ ReaderOf(lv, t, NextWord(lv, it))
                   /\ SeeksTo(NextWord(lv, it),
                              {p \in {o.pos : o \in OccurrencesOf(lv, t)} : p > it.start})
                   /\ \A loc \in Nat :
                         /\ ReaderOf(lv, t, SeekWord(lv, it, loc))
                         /\ SeeksTo(SeekWord(lv, it, loc),
                                    {p \in {o.pos : o \in OccurrencesOf(lv, t)} : p >= loc})
  BY Zenon DEF MovesExactlyIn
<1>4. SeeksTo(NewWord(lv, t), {o.pos : o \in OccurrencesOf(lv, t)})
  BY ONLY <1>1, <1>2, Zenon
<1>5. ASSUME NEW it, ReaderOf(lv, t, it), it.valid
      PROVE  SeeksTo(NextWord(lv, it), {p \in {o.pos : o \in OccurrencesOf(lv, t)} : p > it.start})
  <2>1. {p \in {o.pos : o \in OccurrencesOf(lv, t)} : p > it.start} = PastPlace(Of(H, t), it.start)
    BY <1>2
  <2>2. SeeksTo(NextWord(lv, it), PastPlace(Of(H, t), it.start))
    BY <1>1, <1>5
  <2> QED BY ONLY <2>1, <2>2, Zenon
<1>6. ASSUME NEW it, ReaderOf(lv, t, it), it.valid, NEW loc \in Nat
      PROVE  SeeksTo(SeekWord(lv, it, loc), {p \in {o.pos : o \in OccurrencesOf(lv, t)} : p >= loc})
  <2>1. {p \in {o.pos : o \in OccurrencesOf(lv, t)} : p >= loc} = FromOn(Of(H, t), loc)
    BY <1>2
  <2>2. SeeksTo(SeekWord(lv, it, loc), FromOn(Of(H, t), loc))
    BY <1>1, <1>6
  <2> QED BY ONLY <2>1, <2>2, Zenon
<1>7. /\ ReaderOf(lv, t, NewWord(lv, t))
      /\ \A it : ReaderOf(lv, t, it) /\ it.valid =>
            /\ ReaderOf(lv, t, NextWord(lv, it))
            /\ \A loc \in Nat : ReaderOf(lv, t, SeekWord(lv, it, loc))
  BY <1>1
<1> QED BY <1>4, <1>5, <1>6, <1>7

\* Where the distances of a level fit in their bits, a reader of a word that is told to go
\* on or to seek, as often and in whatever order, is at exactly the place the pages say.
\* (ISRWord::Next and Seek, of which the composed readers consist.)
THEOREM ReadersMoveAlways ==
    LevelsSpec => [](\A lv \in Range(levels) : InRange(lv) => MovesExactlyIn(lv))
<1>1. LoadLevels => \A lv \in Range(levels) : InRange(lv) => MovesExactlyIn(lv)
  <2> SUFFICES ASSUME LoadLevels, NEW lv \in Range(levels), InRange(lv) PROVE MovesExactlyIn(lv)
    OBVIOUS
  <2>1. levels = [i \in DOMAIN Corpora |-> Loaded(Corpora[i])]
    BY DEF LoadLevels
  <2>2. PICK i \in DOMAIN Corpora : lv = Loaded(Corpora[i])
    BY <2>1, Zenon DEF Range
  <2>3. Corpora[i] \in Seq(PageType)
    BY CorporaAssumption
  <2>4. LevelTells(lv, Corpora[i], History(lv.docs, Corpora[i], Len(Corpora[i])))
    BY <2>2, <2>3, LoadedTells
  <2> QED BY <2>4, LevelMoves
<1>2. LoadLevels /\ [UNCHANGED levels]_levels => LoadLevels'
  BY DEF LoadLevels
<1> QED BY <1>1, <1>2, PTL DEF LevelsSpec

-----------------------------------------------------------------------------
(* The page the leader makes of the merged results. *)

\* A shard's document number names one page: at most one of its levels has pages.
SingleBlob ==
    \A s \in Shards : \A l, k \in DOMAIN Corpus[s] :
        Len(Corpus[s][l]) > 0 /\ Len(Corpus[s][k]) > 0 => l = k

ResultsInv ==
    /\ phase \in {"collapse", "fetch", "stitch", "done"}
    /\ offset \in Nat
    /\ limit \in Nat
    /\ all \in Seq(AllResults)
    /\ page \in Seq(AllResults)

\* What came from a shard is what the shard makes of the number it was asked for.
FetchedInv ==
    /\ DOMAIN snippets = Shards
    /\ \A s \in Shards : \A d \in DOMAIN snippets[s] : snippets[s][d] = SnippetById(s, d)

\* Nothing is shown before the end, and then each snippet under its page.
ShownInv ==
    /\ phase # "done" => shown = <<>>
    /\ \A i \in DOMAIN shown : shown[i] \in {None, page[i].page}

PageInv == ResultsInv /\ FetchedInv /\ ShownInv

-----------------------------------------------------------------------------
(* The operators of the page. *)

\* The ranks in a set of numbers go from 1 to its size, each taken once, and grow with
\* the numbers.
LEMMA Ranks ==
    ASSUME NEW S, IsFiniteSet(S), S \subseteq Nat
    PROVE  /\ Cardinality(S) \in Nat
           /\ \A x \in S : x \in Nat /\ Rank(S, x) \in 1 .. Cardinality(S) /\ Rank(S, x) \in Nat
           /\ \A x, y \in S : x < y => Rank(S, x) < Rank(S, y)
           /\ \A k \in 1 .. Cardinality(S) : \E x \in S : Rank(S, x) = k
<1> DEFINE n == Cardinality(S)
           UpTo(x) == {y \in S : y <= x}
           f == [x \in S |-> Rank(S, x)]
<1>1. n \in Nat /\ IsFiniteSet(1 .. n) /\ Cardinality(1 .. n) = n
  <2>1. n \in Nat
    BY FS_CardinalityType
  <2>2. QED
    BY <2>1, FS_Interval
<1>2. ASSUME NEW x \in S
      PROVE  /\ x \in Nat /\ x \in UpTo(x)
             /\ IsFiniteSet(UpTo(x)) /\ Rank(S, x) = Cardinality(UpTo(x))
             /\ Rank(S, x) \in Nat /\ Rank(S, x) \in 1 .. n
  <2>1. IsFiniteSet(UpTo(x)) /\ Cardinality(UpTo(x)) <= n
    BY FS_Subset
  <2>2. x \in Nat /\ x \in UpTo(x)
    OBVIOUS
  <2>3. Cardinality(UpTo(x)) \in Nat /\ Cardinality(UpTo(x)) # 0
    BY <2>1, <2>2, FS_CardinalityType, FS_EmptySet
  <2>4. Rank(S, x) = Cardinality(UpTo(x))
    BY DEF Rank
  <2> HIDE DEF UpTo, n
  <2>5. QED
    BY <1>1, <2>1, <2>2, <2>3, <2>4
<1>3. ASSUME NEW x \in S, NEW y \in S, x < y PROVE y \notin UpTo(x) /\ UpTo(x) \cup {y} \subseteq UpTo(y)
  <2>1. x \in Nat /\ y \in Nat /\ ~(y <= x)
    BY <1>2, <1>3
  <2>2. \A z \in S : z <= x => z <= y
    BY <1>2, <1>3
  <2>3. y <= y
    BY <2>1
  <2>4. QED
    BY <2>1, <2>2, <2>3
<1> HIDE DEF UpTo, n
<1>4. ASSUME NEW x \in S, NEW y \in S, x < y PROVE Rank(S, x) < Rank(S, y)
  <2>1. Rank(S, x) \in Nat /\ Rank(S, y) \in Nat
    BY <1>2
  <2>2. Cardinality(UpTo(x) \cup {y}) = Rank(S, x) + 1
    BY <1>2, <1>3, <1>4, FS_AddElement
  <2>3. Cardinality(UpTo(x) \cup {y}) <= Rank(S, y)
    BY <1>2, <1>3, <1>4, FS_Subset
  <2>4. QED
    BY <2>1, <2>2, <2>3
<1>5. f \in Injection(S, 1 .. n)
  <2>1. f \in [S -> 1 .. n]
    BY <1>2
  <2>2. ASSUME NEW x \in S, NEW y \in S, Rank(S, x) = Rank(S, y) PROVE x = y
    <3>1. x \in Nat /\ y \in Nat /\ Rank(S, y) \in Nat
      BY <1>2
    <3>2. ~(x < y) /\ ~(y < x)
      BY <1>4, <2>2, <3>1
    <3>3. QED
      BY <3>1, <3>2
  <2>3. QED
    BY <2>1, <2>2 DEF Injection, IsInjective
<1>6. f \in Surjection(S, 1 .. n)
  <2>1. Cardinality(S) = Cardinality(1 .. n)
    BY <1>1 DEF n
  <2>2. QED
    BY <1>1, <1>5, <2>1, FS_Injection
<1>7. \A k \in 1 .. n : \E x \in S : Rank(S, x) = k
  BY <1>6 DEF Surjection
<1>8. QED
  BY <1>1, <1>2, <1>4, <1>7 DEF n

\* InOrder has a number of the set at each of its places.
LEMMA InOrderIn ==
    ASSUME NEW S, IsFiniteSet(S), S \subseteq Nat
    PROVE  /\ DOMAIN InOrder(S) = 1 .. Cardinality(S)
           /\ \A k \in 1 .. Cardinality(S) : InOrder(S)[k] \in S
<1>1. \A k \in 1 .. Cardinality(S) : \E x \in S : Rank(S, x) = k
  BY Ranks
<1>2. QED
  BY <1>1 DEF InOrder

\* Collapsing the hosts only leaves results out.
LEMMA CollapsedType ==
    ASSUME NEW results \in Seq(AllResults)
    PROVE  Collapsed(results) \in Seq(AllResults) /\ Len(Collapsed(results)) <= Len(results)
<1> DEFINE n == Len(results)
           K == {i \in 1 .. n : Kept(results, i)}
           c == Cardinality(K)
           at(k) == InOrder(K)[k]
<1>1. n \in Nat /\ DOMAIN results = 1 .. n /\ \A i \in 1 .. n : results[i] \in AllResults
  OBVIOUS
<1> HIDE DEF n
<1>2. IsFiniteSet(1 .. n) /\ Cardinality(1 .. n) = n
  BY <1>1, FS_Interval
<1>3. K \subseteq 1 .. n /\ K \subseteq Nat
  BY <1>1
<1>4. IsFiniteSet(K) /\ c <= n
  BY <1>2, <1>3, FS_Subset
<1>5. Collapsed(results) = [k \in DOMAIN InOrder(K) |-> results[at(k)]]
  BY <1>1 DEF Collapsed
<1> HIDE DEF K
<1>6. c \in Nat /\ DOMAIN InOrder(K) = 1 .. c /\ \A k \in 1 .. c : at(k) \in K
  BY <1>3, <1>4, InOrderIn, FS_CardinalityType
<1> HIDE DEF c, at
<1>7. Collapsed(results) \in [1 .. c -> AllResults]
  BY <1>1, <1>3, <1>5, <1>6
<1>8. QED
  BY <1>4, <1>6, <1>7 DEF n

\* The slice is of the same results.
LEMMA SliceType ==
    ASSUME offset \in Nat, limit \in Nat, NEW results \in Seq(AllResults)
    PROVE  Slice(results) \in Seq(AllResults)
<1> DEFINE n == IF offset + limit < Len(results) THEN offset + limit ELSE Len(results)
<1>1. n \in Nat /\ n <= Len(results) /\ offset + 1 \in 1 .. offset + 1
  OBVIOUS
<1>2. Slice(results) = SubSeq(results, offset + 1, n)
  BY DEF Slice
<1> HIDE DEF n
<1>3. Slice(results) \in Seq(AllResults)
  BY <1>1, <1>2
<1>4. QED
  BY <1>3

\* A shard with one blob makes no other page's snippet of the number of a result.
LEMMA SnippetOfResult ==
    ASSUME SingleBlob, NEW r \in AllResults
    PROVE  r.shard \in Shards /\ SnippetById(r.shard, r.doc) \in {None, r.page}
<1>1. PICK s \in Shards : \E l \in DOMAIN Corpus[s] : \E d \in 0 .. Len(Corpus[s][l]) - 1 :
                             r = ResultOf(s, l, d)
  BY DEF AllResults
<1>2. PICK l \in DOMAIN Corpus[s] : \E d \in 0 .. Len(Corpus[s][l]) - 1 : r = ResultOf(s, l, d)
  BY <1>1
<1>3. PICK d \in 0 .. Len(Corpus[s][l]) - 1 : r = ResultOf(s, l, d)
  BY <1>2
<1>4. r.shard = s /\ r.doc = d /\ r.page = Corpus[s][l][d + 1]
  BY <1>3 DEF ResultOf
<1>5. \A k \in DOMAIN Corpus[s] : k \in Nat /\ Len(Corpus[s][k]) \in Nat
  BY PageAssumption
<1>6. LevelsWith(s, d) \subseteq {l}
  <2>1. d \in Nat /\ Len(Corpus[s][l]) > 0
    BY <1>3, <1>5
  <2>2. \A k \in DOMAIN Corpus[s] : d < Len(Corpus[s][k]) => Len(Corpus[s][k]) > 0
    BY <1>5, <2>1
  <2>3. QED
    BY <2>1, <2>2 DEF LevelsWith, SingleBlob
<1>7. CASE LevelsWith(s, d) = {}
  BY <1>4, <1>7 DEF SnippetById
<1>8. CASE LevelsWith(s, d) = {l}
  <2>1. (CHOOSE k \in LevelsWith(s, d) : \A m \in LevelsWith(s, d) : k <= m) = l
    BY <1>5, <1>8
  <2>2. SnippetById(s, d) = Corpus[s][l][d + 1]
    BY <1>8, <2>1 DEF SnippetById
  <2>3. QED
    BY <1>4, <2>2
<1>9. QED
  BY <1>6, <1>7, <1>8

-----------------------------------------------------------------------------
(* Steps *)

LEMMA InitPage == Init => PageInv
<1> SUFFICES ASSUME Init PROVE PageInv
  OBVIOUS
<1>1. ResultsInv
  BY PageAssumption DEF Init, ResultsInv
<1>2. FetchedInv
  BY DEF Init, FetchedInv
<1>3. ShownInv
  BY DEF Init, ShownInv
<1>4. QED
  BY <1>1, <1>2, <1>3 DEF PageInv

LEMMA CollapseStep ==
    ASSUME PageInv, Collapse
    PROVE  PageInv'
<1>1. /\ phase = "collapse" /\ phase' \in {"done", "fetch"}
      /\ all' = Collapsed(all)
      /\ page' = Slice(Collapsed(all))
      /\ UNCHANGED <<offset, limit, asked, snippets, shown>>
  BY DEF Collapse
<1>2. Collapsed(all) \in Seq(AllResults)
  BY CollapsedType DEF PageInv, ResultsInv
<1>3. Slice(Collapsed(all)) \in Seq(AllResults)
  BY <1>2, SliceType DEF PageInv, ResultsInv
<1>4. ResultsInv'
  BY <1>1, <1>2, <1>3 DEF PageInv, ResultsInv
<1>5. FetchedInv'
  BY <1>1 DEF PageInv, FetchedInv
<1>6. ShownInv'
  BY <1>1 DEF PageInv, ShownInv
<1>7. QED
  BY <1>4, <1>5, <1>6 DEF PageInv

LEMMA FetchStep ==
    ASSUME PageInv, NEW s \in Shards, FetchSnippets(s)
    PROVE  PageInv'
<1>1. UNCHANGED <<phase, offset, limit, all, page, shown>>
  BY DEF FetchSnippets
<1>2. PICK D : snippets' = [snippets EXCEPT ![s] = [d \in D |-> SnippetById(s, d)]]
  BY DEF FetchSnippets
<1>3. FetchedInv'
  BY <1>2 DEF PageInv, FetchedInv
<1>4. QED
  BY <1>1, <1>3 DEF PageInv, ResultsInv, ShownInv

LEMMA StitchStep ==
    ASSUME SingleBlob, PageInv, Stitch
    PROVE  PageInv'
<1>1. /\ phase' = "done"
      /\ shown' = [i \in DOMAIN page |-> Takes(i)]
      /\ UNCHANGED <<offset, limit, all, page, asked, snippets>>
  BY DEF Stitch
<1>2. ASSUME NEW i \in DOMAIN page PROVE Takes(i) \in {None, page[i].page}
  <2> DEFINE r == page[i]
  <2>1. r \in AllResults
    BY DEF PageInv, ResultsInv
  <2>2. r.shard \in Shards /\ SnippetById(r.shard, r.doc) \in {None, r.page}
    BY <2>1, SnippetOfResult
  <2>3. r.doc \in DOMAIN snippets[r.shard] => snippets[r.shard][r.doc] \in {None, r.page}
    BY <2>2 DEF PageInv, FetchedInv
  <2>4. QED
    BY <2>3 DEF Takes
<1>3. ResultsInv' /\ FetchedInv'
  BY <1>1 DEF PageInv, ResultsInv, FetchedInv
<1>4. ShownInv'
  BY <1>1, <1>2 DEF ShownInv
<1>5. QED
  BY <1>3, <1>4 DEF PageInv

LEMMA NextPage == SingleBlob /\ PageInv /\ [Next]_vars => PageInv'
<1> SUFFICES ASSUME SingleBlob, PageInv, [Next]_vars PROVE PageInv'
  OBVIOUS
<1>1. CASE AllAsked \/ UNCHANGED vars
  BY <1>1 DEF AllAsked, vars, PageInv, ResultsInv, FetchedInv, ShownInv
<1>2. QED
  BY <1>1, CollapseStep, FetchStep, StitchStep DEF Next

-----------------------------------------------------------------------------
(* Theorems *)

\* Where each shard has its pages in one blob, a snippet on the page was made from the page
\* it stands under, whichever shards answered and however far (fetch_page_snippets and
\* fetch_snippet_by_id).
THEOREM OwnSnippetShown == ASSUME SingleBlob PROVE Spec => []OwnSnippet
<1>1. PageInv => OwnSnippet
  BY DEF PageInv, ShownInv, OwnSnippet
<1>2. PageInv /\ [Next]_vars => PageInv'
  BY NextPage
<1>3. QED
  BY <1>1, <1>2, InitPage, PTL DEF Spec
=============================================================================
