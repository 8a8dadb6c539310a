--------------------------- MODULE MCBlockEndpoint ---------------------------
(***************************************************************************)
(* Genesis with two branches of two blocks.  The queries reach every       *)
(* route, both branches by hash, a height both branches have, and a height *)
(* no block has.                                                           *)
(***************************************************************************)
EXTENDS BlockEndpoint, TLC

CONSTANTS g, a1, a2, b1, b2

MCHeight == (g :> 0) @@ (a1 :> 1) @@ (a2 :> 2) @@ (b1 :> 1) @@ (b2 :> 2)

MCChain == (g :> {g}) @@ (a1 :> {g, a1}) @@ (a2 :> {g, a1, a2})
             @@ (b1 :> {g, b1}) @@ (b2 :> {g, b1, b2})

MCQueries ==
  {[route |-> "head", finalized |-> f] : f \in BOOLEAN}
    \cup {[route |-> "block", id |-> i, finalizedKey |-> TRUE] : i \in {a1, b2, 2}}
    \cup {[route |-> "block", id |-> a1, finalizedKey |-> FALSE],
          [route |-> "extrinsic", id |-> a1],
          [route |-> "extrinsic", id |-> 3]}

Symmetry == Permutations(Requests)
=============================================================================
