----------------------------- MODULE MCFrontier -----------------------------
(***************************************************************************)
(* Small instances of Frontier.  With two ranks and NUM_URLS_PER_FILE = 1  *)
(* a URL of rank 0 is written out at once and the URLs of rank 1 in pairs. *)
(***************************************************************************)
EXTENDS Frontier, TLC

CONSTANT MCUrls     \* the URLs of the run

CONSTANTS t1, t2    \* threads

\* One site of two pages, x and y, and a page z elsewhere, linked as http too.
MCStrings == {"x", "y", "z", "http z", "site"}

MCHttps == [u \in MCUrls |-> IF u = "http z" THEN "z" ELSE u]
MCRanksOf == [u \in MCUrls |-> IF u \in {"x", "y"} THEN {1} ELSE {0}]
MCLookups == [u \in MCUrls |-> IF u \in {"x", "y"} THEN {u, "site"} ELSE {u}]

\* No URL has a special character.
MCStem == [u \in MCUrls |-> u]

\* Distinct hashes, except that x is a false positive once both z are in.
MCBits == [s \in MCStrings |->
            CASE s = "x" -> {3, 5} [] s = "y" -> {1, 2} [] s = "z" -> {3, 4}
              [] s = "http z" -> {5} [] s = "site" -> {6}]

NoSeeds == <<>>
HttpSeed == <<"http z">>

Symmetry == Permutations(Threads)
=============================================================================
