------------------------ MODULE MCDistributedSearch ------------------------
(***************************************************************************)
(* Two shards, one of them with three levels, of which it searches two.    *)
(* Scores 2 and above are good.                                            *)
(***************************************************************************)
EXTENDS DistributedSearch

MCShards == {"a", "b"}
MCGood == {2, 3}

Hit(s, d, u, n) == [shard |-> s, doc |-> d, url |-> u, score |-> n]

\* A page that both shards have, scored differently, and one that is not good.
Overlapping == [s \in MCShards |->
    IF s = "a" THEN << <<Hit("a", 0, "t", 1)>>, <<Hit("a", 0, "p", 2)>>, <<Hit("a", 0, "v", 1)>> >>
               ELSE << <<Hit("b", 0, "p", 3)>> >>]
=============================================================================
