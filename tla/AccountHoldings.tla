--------------------------- MODULE AccountHoldings ---------------------------
(***************************************************************************)
(* What an account has: its balance, with its locks and in denominated      *)
(* units, and its assets; and the comparison of addresses.                  *)
(***************************************************************************)
EXTENDS Answer, Sequences, FiniteSets, SequencesExt

CONSTANT MaxAddresses  \* how many addresses a comparison takes

-----------------------------------------------------------------------------
(* Denomination.  A text is [digits, after]: so many digits come after the    *)
(* point.  The decimals are Null for a token the chain does not list.         *)

Denominations == [digits : Seq(Nat), after : Nat]

ASSUME DenominationAssumption == Null \notin Denominations

Padded(digits, length) ==
  [k \in 1..(IF Len(digits) < length THEN length - Len(digits) ELSE 0) |-> 0] \o digits

\* Faulty: a balance with as many digits as there are decimals is not padded.
DenominatedUnpadded(balance, decimals) ==
  [digits |-> Digits(balance), after |-> IF decimals = Null THEN 0 ELSE decimals - 1]

\* With undefined decimals the point comes before the first digit.
Denominated(balance, decimals) ==
  LET digits == Digits(balance)
  IN  IF balance = 0 \/ decimals = 0 THEN [digits |-> digits, after |-> 0]
      ELSE IF decimals = Null THEN [digits |-> digits, after |-> Len(digits)]
      ELSE [digits |-> Padded(digits, decimals), after |-> decimals]

InDenomination(denominate, balance, decimals) ==
  IF denominate THEN Denominated(balance, decimals) ELSE balance

-----------------------------------------------------------------------------
(* fetchAccountBalanceInfo.  An account is [data, nonce] with data [free,     *)
(* reserved, frozen] or, in old runtimes, [free, reserved, miscFrozen,        *)
(* feeFrozen]; a lock is [amount, until], until Null if it does not expire.   *)

MaxAmount == 999  \* the amount of a lock that holds everything

Larger(a, b) == IF a > b THEN a ELSE b

\* Whether a lock has expired is decided at the head, whatever block is asked for.
\* The head and the locks are asked for once more, by themselves; head is Null if
\* one of these calls fails, and then nothing counts as locked.
IsAllLocked(locks, head) ==
  /\ head # Null
  /\ \E lock \in ToSet(locks) :
       (lock.until = Null \/ lock.until > head) /\ lock.amount = MaxAmount

\* Faulty: the reserve does not count towards what is frozen.
TransferableOfFrozen(data, locks, head, existentialDeposit) ==
  IF IsAllLocked(locks, head) THEN 0 ELSE Larger(0, data.free - data.frozen)

Transferable(data, locks, head, existentialDeposit) ==
  LET kept == IF data.frozen = 0 /\ data.reserved = 0 THEN 0 ELSE existentialDeposit
  IN  IF IsAllLocked(locks, head) THEN 0
      ELSE Larger(0, data.free - Larger(kept, data.frozen - data.reserved))

\* at: the state of the block, with the shape of its runtime: "freeBalance" has a
\* map of free balances, "withoutAt" storage entries that cannot be asked at a
\* hash, and "modern" the rest.  Only the last looks at the token.
BalanceOf(at, token) ==
  IF at.runtime = "modern" /\ token # at.native
  THEN IF token \in DOMAIN at.tokens THEN at.tokens[token] ELSE Error
  ELSE [data |-> at.data, locks |-> at.locks]

AccountBalanceInfo(at, head, token, denominate) ==
  LET balance == BalanceOf(at, token)
      has(field) == field \in DOMAIN balance.data
      decimals == IF token \in DOMAIN at.decimals THEN at.decimals[token] ELSE Null
      told(amount) == InDenomination(denominate, amount, decimals)
      told1(field) == IF has(field) /\ at.runtime # "freeBalance"
                      THEN told(balance.data[field]) ELSE Null
  IN  IF at.unread \/ (denominate /\ DOMAIN at.decimals = {}) \/ balance = Error THEN Error
      ELSE [token |-> token,
            free |-> told(balance.data.free), reserved |-> told(balance.data.reserved),
            frozen |-> told1("frozen"), miscFrozen |-> told1("miscFrozen"),
            feeFrozen |-> told1("feeFrozen"),
            transferable |->
              IF told1("frozen") = Null THEN Null
              ELSE told(Transferable(balance.data, at.locks, head, at.existentialDeposit)),
            locks |-> [k \in DOMAIN balance.locks |-> told(balance.locks[k].amount)]]

-----------------------------------------------------------------------------
(* Assets, pool assets and foreign assets.  What is stored of an account has   *)
(* the shape of its runtime, and is Null where the account has nothing.        *)

\* unknown: what is told of isFrozen if the runtime has a status in its place.
AssetBalance(id, stored, unknown) ==
  IF stored = Null
  THEN [asset |-> id, balance |-> 0, isFrozen |-> FALSE, isSufficient |-> FALSE]
  ELSE [asset |-> id, balance |-> stored.balance, isSufficient |-> stored.isSufficient,
        isFrozen |-> IF stored.shape = "status" THEN unknown ELSE stored.isFrozen]

QueryAssets(accounts, ids, unknown) ==
  [k \in DOMAIN ids |-> AssetBalance(ids[k], accounts[ids[k]], unknown)]

\* Without a list of ids all assets of the chain are asked for.
AssetBalances(assets, accounts, ids) ==
  QueryAssets(accounts, IF ids = <<>> THEN assets ELSE ids, Null)

\* Foreign assets leave out those of which the account has nothing.
ForeignAssetBalances(assets, accounts, ids) ==
  LET all == QueryAssets(accounts, IF ids = <<>> THEN assets ELSE ids, FALSE)
  IN  Kept(all, {k \in DOMAIN all : all[k].balance # 0})

-----------------------------------------------------------------------------
(* Addresses.  One is [kind, account, long, upper]: "ss58" or "hex" of an      *)
(* account, "ethereum", of which no account can be told, or "malformed"; with  *)
(* a network prefix of two bytes, or in upper case.                            *)

\* checkAddress, the middleware of the route.
AddressAccepted(address) == address.kind # "malformed"

\* What is told of the account of an address, if anything.  That of an address in
\* hex is cut out of its text, one byte of prefix and in the case it is written in.
AccountOf(address) ==
  CASE address.kind = "ss58" -> {[id |-> address.account, long |-> FALSE, upper |-> FALSE]}
    [] address.kind = "hex" ->
         {[id |-> address.account, long |-> address.long, upper |-> address.upper]}
    [] OTHER -> {}

Compared(addresses) ==
  IF Len(addresses) \notin 2..MaxAddresses \/ \E a \in ToSet(addresses) : ~AddressAccepted(a)
  THEN Error
  ELSE [areEqual |-> \A a \in ToSet(addresses) : AccountOf(a) = AccountOf(addresses[1])]

-----------------------------------------------------------------------------
(* Properties. *)

ValueOf(text) == FoldLeft(LAMBDA n, digit : 10 * n + digit, 0, text.digits)

\* A text is worth so much of a token: it has the digits of the amount, and its
\* point stands where the decimals say.
Denotes(text, amount, decimals) ==
  /\ ValueOf(text) = amount
  /\ Len(text.digits) >= text.after
  /\ amount # 0 => text.after = decimals

\* A denominated amount is worth the amount, for a token whose decimals the chain
\* lists.  Of another token the point comes before all digits, whatever they are.
DenominationExact(balance, decimals) ==
  decimals # Null => Denotes(Denominated(balance, decimals), balance, decimals)

\* What is said to be transferable leaves what is frozen beyond the reserve, and
\* the deposit an account with obligations must keep.  It is nothing under a lock
\* of everything, unless that has expired at the head, and otherwise the most there
\* is.  If the head or the locks cannot be read the answer is given all the same,
\* and says nothing of such a lock.
TransferableSound(at, head) ==
  LET told == AccountBalanceInfo(at, head, at.native, FALSE)
      holdsAll(l) == l.amount = MaxAmount /\ (l.until = Null \/ l.until > head)
      left(amount) == at.data.free - amount
      allowed(amount) ==
        /\ left(amount) + at.data.reserved >= at.data.frozen
        /\ at.data.frozen + at.data.reserved > 0 => left(amount) >= at.existentialDeposit
  IN  told # Error /\ told.transferable # Null =>
        /\ told.transferable \in 0..at.data.free
        /\ told.transferable > 0 => allowed(told.transferable)
        /\ head # Null =>
             IF \E l \in ToSet(at.locks) : holdsAll(l) THEN told.transferable = 0
             ELSE told.transferable < at.data.free => ~allowed(told.transferable + 1)

\* A token's amounts are those of that token, on runtimes that tell them apart,
\* and denominated they are worth the same if the chain lists its decimals.
TokenExact(at, head, token) ==
  LET plain == AccountBalanceInfo(at, head, token, FALSE)
      denominated == AccountBalanceInfo(at, head, token, TRUE)
  IN  /\ plain # Error /\ at.runtime = "modern" =>
           plain.free = (IF token = at.native THEN at.data ELSE at.tokens[token].data).free
      /\ plain # Error /\ denominated # Error =>
           /\ denominated.transferable = Null <=> plain.transferable = Null
           /\ token \in DOMAIN at.decimals =>
                /\ Denotes(denominated.free, plain.free, at.decimals[token])
                /\ denominated.transferable # Null =>
                     Denotes(denominated.transferable, plain.transferable, at.decimals[token])

\* Each asset asked for is answered with its own balance, in the order of the
\* request, and all that an account has is answered if none is asked for.
AssetsComplete(assets, accounts, ids) ==
  LET plain == AssetBalances(assets, accounts, ids)
      foreign == ForeignAssetBalances(assets, accounts, ids)
      balance(id) == IF accounts[id] = Null THEN 0 ELSE accounts[id].balance
      asked == IF ids = <<>> THEN assets ELSE ids
  IN  /\ [k \in DOMAIN plain |-> plain[k].asset] = asked
      /\ \A k \in DOMAIN plain : plain[k].balance = balance(asked[k])
      /\ [k \in DOMAIN foreign |-> foreign[k].asset] =
           Kept(asked, {k \in DOMAIN asked : balance(asked[k]) > 0})

\* Addresses are told to be equal exactly if they are of one account, as long as
\* an account can be told of any of them and hex is short and in lower case.
ComparedSoundly(addresses) ==
  LET compared == Compared(addresses)
      plain == \A a \in ToSet(addresses) : a.kind = "ss58" \/ ~(a.long \/ a.upper)
      same == \A a, b \in ToSet(addresses) : a.account = b.account
      ethereum == {a \in ToSet(addresses) : a.kind = "ethereum"}
  IN  compared # Error =>
        /\ compared.areEqual => same \/ ToSet(addresses) = ethereum
        /\ same /\ plain /\ ethereum = {} => compared.areEqual
=============================================================================
