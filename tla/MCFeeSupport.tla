---------------------------- MODULE MCFeeSupport ----------------------------
(***************************************************************************)
(* Runtimes 1 to 4, the first with queryFeeDetails is 3, fees are          *)
(* supported from 2 on.  Among the blocks are the one that enacts the      *)
(* upgrade from 2 to 3, blocks with more extrinsics than the queue has     *)
(* slots, and one of each extrinsic that needs no query.  On the relay     *)
(* chain, which counts its runtimes for itself, it is runtime 4.           *)
(***************************************************************************)
EXTENDS FeeSupport

MCBlock(v, pv, extrinsics) ==
  [version |-> v, parentVersion |-> pv, firstWithCall |-> 3, extrinsics |-> extrinsics]

MCBlocks == {MCBlock(1, 1, <<"query">>),
             MCBlock(2, 2, <<"query", "query", "query">>),
             MCBlock(3, 2, <<"query", "query">>),
             MCBlock(3, 3, <<"feeEvent", "query", "missing">>),
             MCBlock(4, 4, <<"query", "noFee", "query">>)}

MCTwoChains == MCBlocks \cup
  {[version |-> v, parentVersion |-> v, firstWithCall |-> 4, extrinsics |-> <<"query">>] :
     v \in 3..4}
=============================================================================
