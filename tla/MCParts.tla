------------------------------- MODULE MCParts ------------------------------
(***************************************************************************)
(* An instance of Parts for TLC.                                           *)
(***************************************************************************)
EXTENDS Parts, TLC

CONSTANTS u1, u2, d1, d2, d3

\* The first user may have two dogs, the second one.
Owners == (d1 :> u1) @@ (d2 :> u1) @@ (d3 :> u2)

\* Every grouping of four steps, with and without callbacks, one step without a method.
Groupings == SUBSET (1 .. N - 1) \cup {1 .. N}
AllShapes ==
    [ends : Groupings, callbacks : {1 .. N, 1 .. 2}, methods : {1 .. N, (1 .. N) \ {2}}]
=============================================================================
