------------------------------- MODULE Rewards -------------------------------
(***************************************************************************)
(* The block reward in account balances (pallets/rewards/src/lib.rs): when *)
(* a block is initialized, pallet_authorship looks for its author among    *)
(* the pre-runtime digests of the header and tells the rewards pallet,     *)
(* which deposits the reward with pallet_balances.  This author is not the *)
(* one of BlockAuthor, who is paid in unspent outputs.                     *)
(***************************************************************************)
EXTENDS Integers, Sequences, FiniteSetsExt

CONSTANTS
    Account,
    NoAccount,
    Unreadable,             \* a digest that does not decode to an account
    MaxBalance,             \* the top of a balance
    ExistentialDeposit,
    RewardValues,           \* what root may set the reward to
    GenesisReward,
    GenesisBalances,
    MaxBlocks               \* the bound on blocks

Balance == 0 .. MaxBalance

(* What is assumed of the constants.                                         *)
RewardsConstants ==
    /\ MaxBalance \in Nat /\ ExistentialDeposit \in Balance \ {0} /\ MaxBlocks \in Nat
    /\ RewardValues \subseteq Balance /\ GenesisReward \in RewardValues
    /\ GenesisBalances \in [Account -> Balance]
    /\ \A a \in Account : GenesisBalances[a] = 0 \/ GenesisBalances[a] >= ExistentialDeposit
    /\ NoAccount \notin Account /\ Unreadable \notin Account /\ IsFiniteSet(Account)

VARIABLES
    reward,         \* Reward
    free,           \* the free balance of each account; 0 without an account
    issuance,       \* pallet_balances::TotalIssuance
    author,         \* pallet_authorship::Author, during a block
    announced,      \* whom an AuthorRewarded event of this block names
    block           \* the number of blocks begun

rewardVars == <<reward, free, issuance, author, announced, block>>

Supply == MapThenSumSet(LAMBDA a : free[a], Account)

RewardsTypeOK ==
    /\ reward \in RewardValues
    /\ \A a \in Account : free[a] \in Balance \ 1 .. ExistentialDeposit - 1
    /\ author \in Account \cup {NoAccount} /\ announced \in Account \cup {NoAccount}
    /\ block \in 0 .. MaxBlocks

(* The total issuance is a balance itself, and saturates at both ends.       *)
Issued(value) == IF issuance + value > MaxBalance THEN MaxBalance ELSE issuance + value
Burnt(value) == IF issuance > value THEN issuance - value ELSE 0

RewardsInit ==
    /\ reward = GenesisReward
    /\ free = GenesisBalances
    /\ issuance = IF Supply > MaxBalance THEN MaxBalance ELSE Supply
    /\ author = NoAccount /\ announced = NoAccount /\ block = 0

(* find_author: the first pre-runtime digest that decodes, of any engine.    *)
FindAuthor(digests) ==
    LET readable == {i \in DOMAIN digests : digests[i] # Unreadable}
    IN  IF readable = {} THEN NoAccount ELSE digests[Min(readable)]

Exists(a) == free[a] # 0

(* deposit_creating is a no-op if it would open an account with less than    *)
(* the existential deposit, or overflow.                                     *)
CanDeposit(a, value) ==
    /\ value > 0 /\ free[a] + value <= MaxBalance
    /\ Exists(a) \/ value >= ExistentialDeposit

(* Mutants: the issuance forgets the imbalance; the deposit replaces.        *)
NoteAuthorUnissued(a) ==
    /\ free' = IF CanDeposit(a, reward) THEN [free EXCEPT ![a] = @ + reward] ELSE free
    /\ announced' = a /\ UNCHANGED issuance
NoteAuthorTwice(a) ==
    /\ IF CanDeposit(a, 2 * reward)
       THEN free' = [free EXCEPT ![a] = @ + 2 * reward] /\ issuance' = Issued(2 * reward)
       ELSE UNCHANGED <<free, issuance>>
    /\ announced' = a

(* note_author: what the deposit did is not looked at.                       *)
NoteAuthor(a) ==
    /\ IF CanDeposit(a, reward)
       THEN free' = [free EXCEPT ![a] = @ + reward] /\ issuance' = Issued(reward)
       ELSE UNCHANGED <<free, issuance>>
    /\ announced' = a

(* A block ends and the next begins: on_initialize of pallet_authorship.     *)
NextBlock(digests) ==
    /\ block < MaxBlocks /\ block' = block + 1
    /\ author' = FindAuthor(digests)
    /\ IF author' = NoAccount THEN announced' = NoAccount /\ UNCHANGED <<free, issuance>>
       ELSE NoteAuthor(author')
    /\ UNCHANGED reward

(* set_reward, from root only.                                               *)
SetReward(origin, value) ==
    /\ block > 0 /\ origin = "root"
    /\ reward' = value
    /\ UNCHANGED <<free, issuance, author, announced, block>>

(* A transfer; what is left below the existential deposit is burnt.          *)
Transfer(from, to, value) ==
    /\ block > 0 /\ from # to
    /\ value \in 1 .. free[from] /\ CanDeposit(to, value)
    /\ LET rest == free[from] - value
           dust == IF rest < ExistentialDeposit THEN rest ELSE 0
       IN  /\ free' = [free EXCEPT ![from] = rest - dust, ![to] = @ + value]
           /\ issuance' = Burnt(dust)
    /\ UNCHANGED <<reward, author, announced, block>>

Digests == UNION {[1 .. n -> Account \cup {Unreadable}] : n \in 0 .. 2}

RewardsNext ==
    \/ \E digests \in Digests : NextBlock(digests)
    \/ \E origin \in {"signed", "root"}, value \in RewardValues : SetReward(origin, value)
    \/ \E from, to \in Account, value \in Balance : Transfer(from, to, value)

RewardsSpec == RewardsInit /\ [][RewardsNext]_rewardVars

-----------------------------------------------------------------------------
(* Rewards that are paid or dropped, fees and dust move the issuance as they *)
(* move what the accounts hold, except against an end of the range: there it *)
(* starts, for the genesis gives u128::MAX to one account of the EVM alone.  *)
IssuanceFollowsSupply ==
    [][issuance' \in 1 .. MaxBalance - 1 =>
          issuance' - issuance = Supply' - Supply]_rewardVars

(* Only the beginning of a block makes money: the reward that stands when    *)
(* it begins, once, and for the author that its digests name.                *)
OneRewardPerBlock ==
    [][Supply' > Supply =>
          /\ block' = block + 1 /\ author' # NoAccount
          /\ free' = [free EXCEPT ![author'] = @ + reward]]_rewardVars

(* "A block author has just been rewarded": the author that the event names  *)
(* is given the reward.                                                      *)
AnnouncedIsPaid ==
    [][block' # block /\ announced' # NoAccount =>
          free'[announced'] = free[announced'] + reward]_rewardVars

==============================================================================
