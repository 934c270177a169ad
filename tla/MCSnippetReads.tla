--------------------------- MODULE MCSnippetReads ---------------------------
(***************************************************************************)
(* Two ranks: a whole file and a torn one, and a file with an empty one    *)
(* beside it.  Of the older documents one has its page torn and one lies   *)
(* past the end of its file.                                               *)
(***************************************************************************)
EXTENDS SnippetReads

MCFiles == {"r0n0", "r0n1", "r1n0", "r1n1"}
MCFilesOf == [r \in 0 .. 1 |-> IF r = 0 THEN {"r0n0", "r0n1"} ELSE {"r1n0", "r1n1"}]
MCOffsets == [f \in MCFiles |-> CASE f = "r0n0" -> <<1, 3, 4, 6>>
                                  [] f = "r0n1" -> <<1, 2, 4>>
                                  [] f = "r1n0" -> <<1, 4, 5>>
                                  [] OTHER -> <<1>>]
MCClaims == [f \in MCFiles |-> IF f = "r0n1" THEN 3 ELSE Len(MCOffsets[f]) - 1]
MCTornTail == [f \in MCFiles |-> IF f = "r0n1" THEN 2 ELSE 0]
MCUnfit == {<<"r0n0", 2>>}
MCStaleDocs == {Doc("r0n1", 4), Doc("r1n1", 4)}
=============================================================================
