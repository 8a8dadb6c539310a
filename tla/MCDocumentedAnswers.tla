-------------------------- MODULE MCDocumentedAnswers --------------------------
(***************************************************************************)
(* The limit of the code, 500, around which the ranges lie; a history of   *)
(* four eras from era 2 on; an auction whose ending period has 6 blocks.   *)
(***************************************************************************)
EXTENDS DocumentedAnswers, TLC

\* By era, a validator of two pages, of which claimed are claimed.
MCValidator(legacy, claimed) ==
  LET by(x) == [era \in 0..6 |-> x]
  IN  [bonded |-> TRUE, legacy |-> legacy, pages |-> by(2), total |-> by(FALSE),
       claimed |-> by(claimed), page |-> by(1)]

MCClaims ==
  {[hub |-> hub, claims |-> "claimedRewards", start |-> 2, depth |-> 4,
    isValidator |-> targets = <<>>, legacy |-> <<>>, own |-> MCValidator(<<>>, claimed),
    targets |-> targets] :
      hub \in BOOLEAN, claimed \in SUBSET {0, 1},
      targets \in {<<>>} \cup {<<MCValidator(legacy, {0})>> : legacy \in {<<>>, <<1>>, <<1, 2>>, <<4>>}}}

MCFees ==
  {[base |-> 1, len |-> 2, adjusted |-> adjusted, estimated |-> 4, actual |-> actual] :
     adjusted \in {0, 7, 1000}, actual \in 1..4}

MCAuctions ==
  {[now |-> now, auction |-> <<first, 20>>, winningAt |-> [s \in 0..2 |-> <<s, Null, Null>>]] :
     now \in 16..28, first \in 0..2}

MCSubmissions ==
  {[body |-> [tx |-> tx, parses |-> parses], node |-> [takes |-> takes, lost |-> lost]] :
     tx, parses, takes, lost \in BOOLEAN}

MCInputs ==
  "range" :> {<<1, max>> : max \in 490..510} @@ "loop" :> MCClaims @@ "pages" :> MCClaims
    @@ "fee" :> MCFees @@ "address" :> BOOLEAN @@ "winning" :> MCAuctions
    @@ "submit" :> MCSubmissions
=============================================================================
