------------------------------ MODULE MCRcBlock ------------------------------
(***************************************************************************)
(* A relay chain of two forks of two blocks.  The Asset Hub block x1 is    *)
(* included on both, a2 includes two Asset Hub blocks, b2 none.            *)
(***************************************************************************)
EXTENDS RcBlock, TLC

CONSTANTS g, a1, a2, b1, b2, x1, x2, x3

MCHeight == g :> 0 @@ a1 :> 1 @@ a2 :> 2 @@ b1 :> 1 @@ b2 :> 2

MCChain == g :> {g} @@ a1 :> {g, a1} @@ a2 :> {g, a1, a2}
             @@ b1 :> {g, b1} @@ b2 :> {g, b1, b2}

MCIncluded == g :> <<>> @@ a1 :> <<x1>> @@ a2 :> <<x2, x3>>
                @@ b1 :> <<x1, x2>> @@ b2 :> <<>>

MCAt == {a2, b1, b2, 0, 1, 2}

MCQueries ==
  HeadQuery \cup [route : {"block"}, at : MCAt, object : BOOLEAN]
            \cup [route : {"state"}, at : MCAt \cup {None}, object : BOOLEAN]
=============================================================================
