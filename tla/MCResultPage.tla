---------------------------- MODULE MCResultPage ----------------------------
(***************************************************************************)
(* Two shards; pages "a1" .. of host "a" and so on.  Answers are all the   *)
(* orders of all the sets of three or four results.                        *)
(***************************************************************************)
EXTENDS ResultPage

MCShards == {"s", "t"}
MCHostOf == [p \in {"a1", "a2", "a3", "b1", "b2"} |-> IF p \in {"b1", "b2"} THEN "b" ELSE "a"]
MCHasData == {"a1", "a3", "b1", "b2"}

\* One blob on each shard ...
OneLevel == [x \in MCShards |-> IF x = "s" THEN << <<"a1", "a2", "b1">> >> ELSE << <<"a3", "b2">> >>]
\* ... or the blobs of several ranks.
TwoLevels == [x \in MCShards |-> IF x = "s" THEN << <<"a1", "a2">>, <<"b1">> >>
                                            ELSE << <<"a3">>, <<"b2">> >>]

MCAnswers == UNION {SetToSeqs(S) : S \in {T \in SUBSET AllResults : Cardinality(T) \in {3, 4}}}
=============================================================================
