------------------------- MODULE MCLinkDistributor -------------------------
(***************************************************************************)
(* A small instance of LinkDistributor: two crawlers that find each other's*)
(* links, one of them with two workers.                                    *)
(***************************************************************************)
EXTENDS LinkDistributor

CONSTANTS m1, m2,       \* machines
          a1, a2, b1    \* workers

MCMachineOf == [t \in {a1, a2, b1} |-> IF t = b1 THEN m2 ELSE m1]

\* On m1: four links to m2, with one of its own among them; on m2: two links to m1.
MCLinks == 1 .. 7
MCFoundOn == [l \in MCLinks |-> IF l <= 5 THEN m1 ELSE m2]
MCOwner == [l \in MCLinks |-> IF l \in {1, 2, 4, 5} THEN m2 ELSE m1]
=============================================================================
