--------------------------- MODULE DocumentedAnswers ---------------------------
(***************************************************************************)
(* What the guides, the OpenAPI document and the comments of the source    *)
(* promise of single answers, asked of the computations that give them.    *)
(* A behaviour asks every promise of all its inputs, and keeps one input   *)
(* of each that is broken.                                                 *)
(***************************************************************************)
EXTENDS RangeQuery, StakingClaims, Amounts, Paras, Requests

CONSTANT Inputs  \* Inputs[p]: what the promise p is asked of

VARIABLE counterexamples  \* [promise, input], one of each broken promise

-----------------------------------------------------------------------------
\* "There is a max limit of 500 blocks per request."
RangeLimited(parts) == RangeAccepted(parts) => Len(RangeOfNums(parts)) <= MaxRange

\* "The initial loop starts from eraStart up until eraStart + eraDepth": it comes
\* to an end, where a round that changes nothing is followed by its like for ever.
ErasLoopEnds(r) == Ended(r, Rounds(r)) \/ Round(r, Rounds(r)) # Rounds(r)

\* "The returned era should have status partially claimed" if only some pages, or
\* none, are among the claimed ones.
PartlyClaimed(r) ==
  \A era \in DOMAIN r.own.pages :
    r.own.pages[era] > 0 /\ Cardinality(r.own.claimed[era]) # r.own.pages[era]
      => ValidatorStatus(r, r.own, era) = "partially claimed"

\* "partial_fee = base_fee + len_fee + ((adjusted_weight_fee/estimated_weight)
\* *actual_weight)", up to what a Perbill may round away.
FeeByFormula(f) ==
  LET formula == f.base + f.len + (f.adjusted * f.actual) \div f.estimated
      slack == f.adjusted \div Accuracy + 1
  IN  CalcRaw(f.base, f.len, f.adjusted, f.estimated, f.actual) - formula \in (-slack)..slack

\* The error for an address that is not supported is an HttpError, of status 400.
AddressRefused(ethereum) == AnswerTo(ErrorForAddr(ethereum), FALSE) = 400

\* "Both startPeriod, and endPeriod have valid offsets": in both the winning bids
\* are answered.
AuctionShowsWinning(a) ==
  LET answer == AuctionsCurrent(a.now, a.auction, a.winningAt)
  IN  answer.phase \in {"startPeriod", "endPeriod"} => answer.winning # Null

\* Of 'Failed to submit transaction': "the transaction queue rejected the
\* transaction".  It is told of a transaction that was submitted.
SubmitFailureExplained(s) ==
  Submissions(s.body) = 1 /\ ~Submit(s.body, s.node).ok => ~s.node.takes

-----------------------------------------------------------------------------
Promises == {"range", "loop", "pages", "fee", "address", "winning", "submit"}

Keeps(promise, input) ==
  CASE promise = "range" -> RangeLimited(input)
    [] promise = "loop" -> ErasLoopEnds(input)
    [] promise = "pages" -> PartlyClaimed(input)
    [] promise = "fee" -> FeeByFormula(input)
    [] promise = "address" -> AddressRefused(input)
    [] promise = "winning" -> AuctionShowsWinning(input)
    [] promise = "submit" -> SubmitFailureExplained(input)

Broken == {p \in Promises : \E i \in Inputs[p] : ~Keeps(p, i)}

Init == counterexamples = {}

Ask == counterexamples' = {[promise |-> p, input |-> CHOOSE i \in Inputs[p] : ~Keeps(p, i)] :
                             p \in Broken}

Spec == Init /\ [][Ask]_counterexamples

-----------------------------------------------------------------------------
(***************************************************************************)
(* Every promise is kept: a range has at most 500 blocks, the loop over    *)
(* the eras ends, a partly claimed era is called so, a fee is the formula  *)
(* of calc_partial_fee, an address that is not supported is the client's   *)
(* fault, an auction that runs shows its winning bids, and a submission is *)
(* said to have failed only if it was rejected.                            *)
(***************************************************************************)
PromisesKept == counterexamples = {}
=============================================================================
