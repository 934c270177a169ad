----------------------------- MODULE HashTable -----------------------------
(***************************************************************************)
(* The hash table of the index builder (src/index/HashTable.h): buckets    *)
(* with a chain of keys each, which grows as it fills and is rebuilt       *)
(* before it is written.  A table is the function from buckets to chains;  *)
(* what is stored under a key stays where it is when its chain moves, and  *)
(* is kept by the user of the table.                                       *)
(***************************************************************************)
EXTENDS Integers, Sequences, SequencesExt, FiniteSets

CONSTANT Hash   \* str_hash, of each key

EmptyTable(numBuckets) == [b \in 0 .. numBuckets - 1 |-> <<>>]

NumberOfBuckets(table) == Cardinality(DOMAIN table)

\* The iterator goes through the buckets, and through the chain of each.
Entries(table) == FlattenSeq([i \in 1 .. NumberOfBuckets(table) |-> table[i - 1]])

UniqueKeys(table) == Len(Entries(table))

Slot(table, key) == Hash[key] % NumberOfBuckets(table)

\* Find without an initial value.
Has(table, key) == key \in Range(table[Slot(table, key)])

\* A key goes to the front of its chain.
ToFront(table, key) == [table EXCEPT ![Slot(table, key)] = <<key>> \o @]

\* Optimize, with the loading in halves: each key goes to the front of its new chain.
Optimize(table, halves) ==
    LET target == (halves * UniqueKeys(table) + 1) \div 2
        entries == Entries(table)
        after[n \in 0 .. Len(entries)] ==
            IF n = 0 THEN EmptyTable(IF target = 0 THEN 1 ELSE target)
            ELSE ToFront(after[n - 1], entries[n])
    IN  after[Len(entries)]

\* Find with an initial value: a new key goes to the end of its chain, and a table with
\* more than two keys for each bucket grows.
Find(table, key) ==
    LET longer == [table EXCEPT ![Slot(table, key)] = Append(@, key)]
    IN  CASE Has(table, key) -> table
          [] ~Has(table, key) /\ UniqueKeys(longer) > 2 * NumberOfBuckets(table) -> Optimize(longer, 4)
          [] OTHER -> longer
=============================================================================
