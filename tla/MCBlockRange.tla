---------------------------- MODULE MCBlockRange ----------------------------
(***************************************************************************)
(* Two forks of two blocks over genesis, ranges of two to four numbers and *)
(* one above every block.  x1 is included at height 1 of one fork and  *)
(* at height 2 of the other, so that a reorganisation may answer it twice. *)
(***************************************************************************)
EXTENDS BlockRange, TLC

CONSTANTS g, a1, a2, b1, b2, x1, x2, x3

MCHeight == g :> 0 @@ a1 :> 1 @@ a2 :> 2 @@ b1 :> 1 @@ b2 :> 2

MCChain == g :> {g} @@ a1 :> {g, a1} @@ a2 :> {g, a1, a2}
             @@ b1 :> {g, b1} @@ b2 :> {g, b1, b2}

MCAhNumber == x1 :> 1 @@ x2 :> 2 @@ x3 :> 3

MCIncluded == g :> <<>> @@ a1 :> <<x1, x2>> @@ a2 :> <<x3>>
                @@ b1 :> <<>> @@ b2 :> <<x1>>

MCRanges == {<<0, 2>>, <<1, 2>>, <<1, 3>>, <<2, 2>>, <<2, 1>>, <<0, 4>>, <<0, 0>>,
             <<NaN, 2>>, <<1>>}

MCQueries == {[range |-> r, useRc |-> u, object |-> u] : r \in MCRanges, u \in BOOLEAN}
               \cup {[range |-> <<1, 2>>, useRc |-> TRUE, object |-> FALSE]}
=============================================================================
