--------------------------- MODULE MCStakingPayouts ---------------------------
(***************************************************************************)
(* Five eras, two validators and the account itself as a third.  The       *)
(* account nominates one validator, both, one of them twice, or nobody, or *)
(* is elected; a validator may have two pages.  The migration is in era 2, *)
(* which both chains know.                                                 *)
(***************************************************************************)
EXTENDS StakingPayouts

CONSTANTS acc, val1, val2

On(x, value) == [validator |-> x, others |-> <<[who |-> "other", value |-> 9],
                                               [who |-> acc, value |-> value]>>]
Twice(x) == [validator |-> x, others |-> <<[who |-> acc, value |-> 1],
                                           [who |-> "other", value |-> 9],
                                           [who |-> acc, value |-> 4]>>]
Not(x) == [validator |-> x, others |-> <<[who |-> "other", value |-> 9]>>]

Own == acc :> 3 @@ val1 :> 5 @@ val2 :> 6

InfoOf(pages, reward, points, claimed) ==
  [pages |-> pages, own |-> Own, reward |-> reward,
   points |-> acc :> 2 @@ val1 :> points @@ val2 :> 7,
   claimed |-> acc :> 0 @@ val1 :> claimed @@ val2 :> 0]

Nobody == InfoOf(<<Not(val1)>>, FALSE, 0, 0)

\* The pages of the eras 0 to 4, with those of the relay chain's copy.
WorldOf(pages, points, claimed, active, depth, ledgers) ==
  [current |-> 4, active |-> active, historyDepth |-> depth, last |-> 2, first |-> 2,
   bad |-> FALSE, bonded |-> [c \in Chains |-> ledgers \cup {val2}],
   ledgers |-> "own" :> ledgers @@ "relay" :> ledgers \cup {val2},
   state |-> "own" :> [e \in Eras |-> InfoOf(pages[e + 1], e < active /\ e # 3, points, claimed)]
          @@ "relay" :> [e \in Eras |-> InfoOf(pages[e + 1], e < 2, points, claimed)]]

Mixed == <<<<On(val1, 2)>>, <<Twice(val1)>>, <<On(val1, 2), On(val2, 1)>>,
           <<Not(val1)>>, <<On(val2, 1)>>>>
Elected == <<<<Not(acc)>>, <<Not(acc), Not(val1)>>, <<Not(acc)>>,
             <<Not(val1)>>, <<Not(acc)>>>>
\* val1 has two pages, the account is on the first.
Paged == <<<<On(val1, 2)>>, <<On(val1, 2), Not(val1)>>, <<Not(val1), On(val1, 2)>>,
           <<Not(val2)>>, <<Not(val1)>>>>
\* The account is on the later page.
LastPage == <<<<On(val1, 2)>>, <<Not(val1), On(val1, 2)>>, <<Not(val1), On(val1, 2)>>,
              <<Not(val2)>>, <<Not(val1)>>>>

OnePage == {WorldOf(p, 5, 1, 4, 3, {acc, val1}) : p \in {Mixed, Elected, LastPage}}
           \cup {WorldOf(p, 5, 0, 3, 0, {val2}) : p \in {Mixed, LastPage}}
           \cup {[WorldOf(Mixed, 0, 0, 4, 4, {val1, val2}) EXCEPT !.bad = b, !.first = f] :
                   b \in BOOLEAN, f \in {2, 3}}

MCWorlds == OnePage \cup {WorldOf(Paged, 5, 0, 4, 4, {val1, val2})}

MCRequests ==
  [kusama : {FALSE}, migrated : BOOLEAN, unclaimedOnly : BOOLEAN,
   depth : {Absent, 3}, era : {Absent, 2}]
    \cup [kusama : BOOLEAN, migrated : {FALSE}, unclaimedOnly : {TRUE},
          depth : {Absent, 0, 4}, era : {Absent, 0, 4}]
    \cup [kusama : {FALSE}, migrated : {TRUE}, unclaimedOnly : {FALSE},
          depth : {2, 4, 5}, era : {1, 3}]
=============================================================================
