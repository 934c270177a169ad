----------------------------- MODULE MCCrawler -----------------------------
(***************************************************************************)
(* Small instances of Crawler: two workers, pages of two ranks.  A vector  *)
(* of rank 0 is over its limit with one page, one of rank 1 with two.      *)
(***************************************************************************)
EXTENDS Crawler, TLC

CONSTANTS t1, t2, p1, p2, p3, p4

MCRankOf == [p \in Pages |-> IF p = p1 THEN 0 ELSE 1]
MCSizeOf == [p \in Pages |-> 1]
MCSizeLimit == [r \in 0 .. 1 |-> r]
MCThreads == {t1, t2}
=============================================================================
