------------------------------- MODULE Runtime -------------------------------
(***************************************************************************)
(* The runtime that construct_runtime! composes (runtime/src/lib.rs): the  *)
(* pallets of UtxoChain, the account balances with the block reward        *)
(* (Rewards), the difficulty and the template pallet, driven by extrinsics.*)
(* An extrinsic is checked as SignedExtra says, pays its fee, and is then  *)
(* dispatched with the origin that its signature gives; a call that fails  *)
(* leaves nothing behind but the fee and the nonce.                        *)
(*                                                                         *)
(* A block that a node can import has no unsigned set_author in it:        *)
(* is_inherent of the block author pallet is todo!(), and looking for the  *)
(* inherents of the block panics.  The node provides no data for one.      *)
(***************************************************************************)
EXTENDS UtxoChain

CONSTANTS
    Account, NoAccount,
    Unreadable,         \* a digest that does not decode to an account
    MaxBalance, ExistentialDeposit,
    ExtrinsicFee,       \* what every signed extrinsic is charged
    RewardValues,
    MaxU256,
    MaxSomething,       \* u32::MAX
    NoValue,            \* a storage value that is not set
    NoTx, NoExtrinsic,
    Genesis,            \* TestnetGenesis of the chain specification
    HeaderDigests,      \* the pre-runtime digests of a header
    Extrinsics,         \* the extrinsics that blocks may hold
    MaxBody             \* the bound on different extrinsics in a block

VARIABLES
    blockReward, free, supply, rewardAuthor, announced,     \* see Rewards
    difficulty,         \* see Difficulty
    something,          \* the storage item of the template pallet
    nonce,              \* the nonce of each account, 0 without one
    executing,          \* the extrinsic between pre_dispatch and dispatch
    body,               \* the extrinsics applied in this block
    since               \* history: signed extrinsics applied since their signer's
                        \*          account was last opened

walletState == <<blockReward, free, supply, rewardAuthor, announced>>
runtimeVars ==
    <<chainVars, walletState, difficulty, something, nonce, executing, body, since>>

(* GenesisBuild of pallet_balances, and of pallet_evm for its own accounts.  *)
GenesisFree ==
    LET Part(b, a) == IF a \in DOMAIN b THEN b[a] ELSE 0
    IN  [a \in Account |-> Part(Genesis.balances, a) + Part(Genesis.evm, a)]

Wallet == INSTANCE Rewards WITH
    GenesisReward <- Genesis.reward, GenesisBalances <- GenesisFree, MaxBlocks <- MaxBlock,
    reward <- blockReward, issuance <- supply, author <- rewardAuthor, block <- number

(* No seal is decoded here.                                                  *)
NoHash(raw) == 0
NoWork(d, pre, n) == 0
Pow == INSTANCE Difficulty WITH
    GenesisDifficulty <- Genesis.difficulty, PreHash <- {}, RawSeal <- {}, NoSeal <- NoTx,
    Decode <- NoHash, Sha3 <- NoWork, Blake2 <- NoHash

CallName ==
    {"spend", "transfer", "set_reward", "set_difficulty", "set_author",
     "do_something", "cause_error"}

(* `sudo` is a call of pallet_sudo around the call.                          *)
Extrinsic ==
    [signer : Account \cup {NoAccount}, nonce : Nat, sudo : BOOLEAN, call : CallName,
     tx : Transactions \cup {NoTx}, to : Account \cup {NoAccount}, value : Nat]

Importable(x) == x.call = "set_author" => x.signer # NoAccount

ASSUME RuntimeAssumption ==
    /\ ExtrinsicFee \in Nat /\ MaxSomething \in Nat /\ MaxBody \in Nat
    /\ NoValue \notin 0 .. MaxSomething
    /\ MaxU256 \in Nat /\ Genesis.difficulty \in Pow!U256 /\ Wallet!RewardsConstants
    /\ Genesis.utxos = GenesisUtxos /\ Genesis.sudo \in Account
    /\ Extrinsics \subseteq Extrinsic /\ NoExtrinsic \notin Extrinsics
    /\ HeaderDigests \subseteq Seq(Account \cup {Unreadable})
    /\ \A x \in Extrinsics :
          /\ Importable(x) /\ (x.call = "spend") = (x.tx # NoTx)
          /\ x.call = "set_difficulty" => x.value \in Pow!U256
          /\ x.call = "set_reward" => x.value \in RewardValues
          /\ x.call = "transfer" => x.to \in Account
          /\ x.call = "do_something" => x.value \in 0 .. MaxSomething

RuntimeTypeOK ==
    /\ TypeOK
    /\ Wallet!RewardsTypeOK
    /\ Pow!DifficultyTypeOK
    /\ something \in 0 .. MaxSomething \cup {NoValue}
    /\ \A a \in Account : nonce[a] \in Nat /\ (free[a] = 0 => nonce[a] = 0)
    /\ executing \in Extrinsics \cup {NoExtrinsic}
    /\ body \subseteq Extrinsics /\ since \subseteq Extrinsics

RuntimeInit ==
    /\ Init
    /\ Wallet!RewardsInit
    /\ Pow!DifficultyInit
    /\ something = NoValue
    /\ nonce = [a \in Account |-> 0]
    /\ executing = NoExtrinsic /\ body = {} /\ since = {}

-----------------------------------------------------------------------------
(* initialize_block: the hooks in the order of construct_runtime!.           *)
Begin(digests) ==
    /\ Wallet!NextBlock(digests)
    /\ InitializeBlock
    /\ body' = {}
    /\ UNCHANGED <<difficulty, something, nonce, executing, since>>

IsSigned(x) == x.signer # NoAccount
ByRoot(x) == IsSigned(x) /\ x.sudo /\ x.signer = Genesis.sudo
OriginOf(x) == IF ~IsSigned(x) THEN "none" ELSE IF x.sudo THEN "root" ELSE "signed"

(* A call that the sudo key makes as root is paid back in full.              *)
FeeOf(x) == IF ByRoot(x) THEN 0 ELSE ExtrinsicFee

(* Mutant: a stale nonce passes.                                             *)
NonceNotAhead(x) == x.nonce <= nonce[x.signer]

(* CheckNonce.                                                               *)
CheckNonce(x) == x.nonce = nonce[x.signer]

(* ChargeTransactionPayment: the fee may not reap the account.               *)
CanPay(x) == free[x.signer] >= ExtrinsicFee + ExistentialDeposit

(* apply_extrinsic up to the call.  An extrinsic that is refused here is not *)
(* part of the block.  An unsigned one is not checked at all.                *)
PreDispatch(x) ==
    /\ phase = "open" /\ executing = NoExtrinsic
    /\ IF IsSigned(x)
       THEN /\ CheckNonce(x) /\ CanPay(x)
            /\ nonce' = [nonce EXCEPT ![x.signer] = @ + 1]
            /\ free' = [free EXCEPT ![x.signer] = @ - FeeOf(x)]
            /\ supply' = Wallet!Burnt(FeeOf(x))
            /\ since' = since \cup {x}
       ELSE UNCHANGED <<nonce, free, supply, since>>
    /\ executing' = x /\ body' = body \cup {x} /\ Cardinality(body') <= MaxBody
    /\ UNCHANGED <<chainVars, blockReward, rewardAuthor, announced, difficulty, something>>

(* Mutant: an unchecked addition.                                            *)
CanCountForever == something # NoValue

(* cause_error counts up what do_something stored, if that does not overflow. *)
CanCount == something \notin {NoValue, MaxSomething}

(* Whether the call returns Ok; set_author does with no origin only.         *)
Accepts(x) ==
    /\ x.sudo => ByRoot(x)
    /\ \/ x.call = "spend" /\ Ready(x.tx) /\ rewardTotal + Priority(x.tx) \in Value
       \/ /\ x.call = "transfer" /\ OriginOf(x) = "signed" /\ x.to # x.signer
          /\ x.value \in 1 .. free[x.signer] /\ Wallet!CanDeposit(x.to, x.value)
       \/ x.call \in {"set_reward", "set_difficulty"} /\ OriginOf(x) = "root"
       \/ x.call = "do_something" /\ OriginOf(x) = "signed"
       \/ x.call = "cause_error" /\ OriginOf(x) = "signed" /\ CanCount

(* What the call does: `spend` looks at no origin.                           *)
SpendCall(x) ==
    /\ x.call = "spend" /\ ApplySpend(x.tx)
    /\ UNCHANGED <<walletState, difficulty, something, nonce, since>>

(* A reaped account takes its nonce with it.                                 *)
TransferCall(x) ==
    /\ x.call = "transfer" /\ Wallet!Transfer(x.signer, x.to, x.value)
    /\ LET reaped == {a \in Account : free[a] # 0 /\ free'[a] = 0}
       IN  /\ nonce' = [a \in Account |-> IF a \in reaped THEN 0 ELSE nonce[a]]
           /\ since' = {y \in since : y.signer \notin reaped}
    /\ UNCHANGED <<chainVars, difficulty, something>>

SetRewardCall(x) ==
    /\ x.call = "set_reward" /\ Wallet!SetReward(OriginOf(x), x.value)
    /\ UNCHANGED <<chainVars, difficulty, something, nonce, since>>

SetDifficultyCall(x) ==
    /\ x.call = "set_difficulty" /\ Pow!SetDifficulty(OriginOf(x), x.value)
    /\ UNCHANGED <<chainVars, walletState, something, nonce, since>>

SomethingCall(x) ==
    /\ x.call \in {"do_something", "cause_error"}
    /\ something' = IF x.call = "do_something" THEN x.value ELSE something + 1
    /\ UNCHANGED <<chainVars, walletState, difficulty, nonce, since>>

Dispatch ==
    /\ executing # NoExtrinsic
    /\ IF Accepts(executing)
       THEN \/ SpendCall(executing) \/ TransferCall(executing) \/ SetRewardCall(executing)
            \/ SetDifficultyCall(executing) \/ SomethingCall(executing)
       ELSE UNCHANGED <<chainVars, walletState, difficulty, something, nonce, since>>
    /\ executing' = NoExtrinsic /\ UNCHANGED body

End ==
    /\ executing = NoExtrinsic
    /\ FinalizeBlock
    /\ UNCHANGED <<walletState, difficulty, something, nonce, executing, body, since>>

RuntimeNext ==
    \/ \E digests \in HeaderDigests : Begin(digests)
    \/ \E x \in Extrinsics : PreDispatch(x)
    \/ Dispatch
    \/ End

RuntimeSpec == RuntimeInit /\ [][RuntimeNext]_runtimeVars

-----------------------------------------------------------------------------
(* Rewards, fees and reaped dust move the issuance as they move what the     *)
(* accounts hold, from where the genesis has put it, at the top of its range. *)
IssuanceFollowsSupply == Wallet!IssuanceFollowsSupply

(* Nothing but the beginning of a block makes money, and it makes the reward *)
(* that stands then, once, for the author in its digests.                    *)
OneRewardPerBlock == Wallet!OneRewardPerBlock

(* Whatever root makes of the difficulty, exactly the hashes up to the       *)
(* quotient of U256::MAX win a block, and every hash if it is 0.             *)
TargetIsQuotient == Pow!TargetIsQuotient

(* Raising the difficulty never lets a hash win that lost before.            *)
HarderIsHarder == Pow!HarderIsHarder

(* A signed extrinsic is applied once in the life of its signer's account:   *)
(* only CheckNonce stands against a second time, and a nonce is forgotten    *)
(* with its account.                                                         *)
NoReplay ==
    [][executing' \in Extrinsics /\ executing' # executing /\ IsSigned(executing') =>
          \A x \in since : x.signer = executing'.signer => x.nonce # executing'.nonce]_runtimeVars

==============================================================================
