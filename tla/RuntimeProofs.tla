---------------------------- MODULE RuntimeProofs ----------------------------
(***************************************************************************)
(* For every set of extrinsics: what the nonces and the balances of the    *)
(* runtime's accounts promise, which hashes its difficulty lets win, and   *)
(* that the pool in front of it forgets no spend that is still possible.   *)
(* Runtime is built from the actions of UtxoChain, and its theorems hold   *)
(* of the runtime's runs.                                                  *)
(***************************************************************************)
EXTENDS TxPool, UtxoChainProofs

(* Only extrinsics of the catalogue are executed.                            *)
ExecutingOK == executing \in Extrinsics \cup {NoExtrinsic}

LEMMA ExecutingInit == RuntimeInit => ExecutingOK
BY DEF RuntimeInit, ExecutingOK

LEMMA ExecutingStep == ExecutingOK /\ [RuntimeNext]_runtimeVars => ExecutingOK'
<1> SUFFICES ASSUME ExecutingOK, [RuntimeNext]_runtimeVars PROVE ExecutingOK'
  OBVIOUS
<1>1. CASE \E digests \in HeaderDigests : Begin(digests)
  BY <1>1 DEF Begin, ExecutingOK
<1>2. CASE \E x \in Extrinsics : PreDispatch(x)
  BY <1>2 DEF PreDispatch, ExecutingOK
<1>3. CASE Dispatch
  BY <1>3 DEF Dispatch, ExecutingOK
<1>4. CASE End
  BY <1>4 DEF End, ExecutingOK
<1>5. CASE UNCHANGED runtimeVars
  BY <1>5 DEF runtimeVars, ExecutingOK
<1> QED
  BY <1>1, <1>2, <1>3, <1>4, <1>5 DEF RuntimeNext

LEMMA OnlySpendsReachTheChain ==
    ASSUME ExecutingOK, Dispatch
    PROVE  (\E tx \in Transactions : ApplySpend(tx)) \/ UNCHANGED chainVars
<1>1. executing \in Extrinsics
  BY DEF ExecutingOK, Dispatch
<1>2. CASE SpendCall(executing)
  <2>1. executing.tx \in Transactions
    BY <1>1, <1>2, RuntimeAssumption DEF SpendCall, Extrinsic
  <2> QED
    BY <1>2, <2>1 DEF SpendCall
<1>3. CASE ~SpendCall(executing)
  BY <1>3 DEF Dispatch, TransferCall, SetRewardCall, SetDifficultyCall, SomethingCall
<1> QED
  BY <1>2, <1>3

LEMMA ChainStep == ExecutingOK /\ [RuntimeNext]_runtimeVars => [Next]_chainVars
<1> SUFFICES ASSUME ExecutingOK, [RuntimeNext]_runtimeVars PROVE [Next]_chainVars
  OBVIOUS
<1>1. CASE \E digests \in HeaderDigests : Begin(digests)
  BY <1>1 DEF Begin, Next
<1>2. CASE \E x \in Extrinsics : PreDispatch(x)
  BY <1>2 DEF PreDispatch
<1>3. CASE Dispatch
  BY <1>3, OnlySpendsReachTheChain DEF Next
<1>4. CASE End
  BY <1>4 DEF End, Next
<1>5. CASE UNCHANGED runtimeVars
  BY <1>5 DEF runtimeVars
<1> QED
  BY <1>1, <1>2, <1>3, <1>4, <1>5 DEF RuntimeNext

(* Runtime is built from the actions of UtxoChain, so that the theorems of   *)
(* UtxoChainProofs hold of its runs.                                         *)
LEMMA RuntimeIsChain == RuntimeSpec => Spec
<1>1. RuntimeInit => Init
  BY DEF RuntimeInit
<1> QED
  BY <1>1, ExecutingInit, ExecutingStep, ChainStep, PTL DEF RuntimeSpec, Spec

(* No outpoint is consumed twice in the runtime: by an unsigned spend, a     *)
(* signed one or one inside a sudo call.                                     *)
THEOREM RuntimeNeverSpendsTwice == RuntimeSpec => [](NoDoubleSpend /\ SpentStaysSpent)
BY RuntimeIsChain, NeverSpentTwice, NeverRevived, PTL

-----------------------------------------------------------------------------
(* What was applied since the account was opened has a nonce below the       *)
(* account's: NoReplay follows, because a nonce only grows with the account. *)
NonceInv ==
    /\ ExecutingOK
    /\ nonce \in [Account -> Nat]
    /\ since \subseteq Extrinsics
    /\ \A x \in since : x.signer \in Account /\ x.nonce < nonce[x.signer]

LEMMA NonceInit == RuntimeInit => NonceInv
BY ExecutingInit DEF RuntimeInit, NonceInv

LEMMA SignedApplied ==
    ASSUME NonceInv, NEW x \in Extrinsics, PreDispatch(x), IsSigned(x)
    PROVE  /\ x.signer \in Account /\ x.nonce \in Nat /\ x.nonce = nonce[x.signer]
           /\ nonce' = [nonce EXCEPT ![x.signer] = @ + 1]
           /\ since' = since \cup {x}
BY RuntimeAssumption DEF PreDispatch, CheckNonce, IsSigned, Extrinsic

LEMMA NoncePreDispatch ==
    ASSUME NonceInv, NEW x \in Extrinsics, PreDispatch(x)
    PROVE  /\ nonce' \in [Account -> Nat] /\ since' \subseteq Extrinsics
           /\ \A y \in since' : y.signer \in Account /\ y.nonce < nonce'[y.signer]
<1>1. CASE ~IsSigned(x)
  BY <1>1 DEF PreDispatch, NonceInv
<1>2. CASE IsSigned(x)
  <2>1. nonce' \in [Account -> Nat] /\ since' \subseteq Extrinsics
    BY <1>2, SignedApplied DEF NonceInv
  <2>2. ASSUME NEW y \in since PROVE y.signer \in Account /\ y.nonce < nonce'[y.signer]
    <3>1. y.nonce \in Nat /\ y.signer \in Account /\ y.nonce < nonce[y.signer]
      BY <2>2, RuntimeAssumption DEF NonceInv, Extrinsic
    <3> QED
      BY <1>2, <3>1, SignedApplied DEF NonceInv
  <2>3. x.signer \in Account /\ x.nonce < nonce'[x.signer]
    BY <1>2, SignedApplied DEF NonceInv
  <2> QED
    BY <1>2, <2>1, <2>2, <2>3, SignedApplied
<1> QED
  BY <1>1, <1>2

LEMMA NonceTransfer ==
    ASSUME NonceInv, NEW x, TransferCall(x)
    PROVE  /\ nonce' \in [Account -> Nat] /\ since' \subseteq Extrinsics
           /\ \A y \in since' : y.signer \in Account /\ y.nonce < nonce'[y.signer]
<1>1. PICK reaped \in SUBSET Account :
        /\ nonce' = [a \in Account |-> IF a \in reaped THEN 0 ELSE nonce[a]]
        /\ since' = {y \in since : y.signer \notin reaped}
  BY DEF TransferCall
<1> QED
  BY <1>1 DEF NonceInv

LEMMA NonceStep == NonceInv /\ [RuntimeNext]_runtimeVars => NonceInv'
<1> SUFFICES ASSUME NonceInv, [RuntimeNext]_runtimeVars PROVE NonceInv'
  OBVIOUS
<1>1. ExecutingOK'
  BY ExecutingStep DEF NonceInv
<1>2. ASSUME UNCHANGED <<nonce, since>> PROVE NonceInv'
  BY <1>1, <1>2 DEF NonceInv
<1>3. CASE \E digests \in HeaderDigests : Begin(digests)
  BY <1>2, <1>3 DEF Begin
<1>4. CASE \E x \in Extrinsics : PreDispatch(x)
  BY <1>1, <1>4, NoncePreDispatch DEF NonceInv
<1>5. CASE Dispatch
  <2>1. CASE TransferCall(executing)
    BY <1>1, <2>1, NonceTransfer DEF NonceInv
  <2>2. CASE ~TransferCall(executing)
    BY <1>2, <1>5, <2>2
       DEF Dispatch, SpendCall, SetRewardCall, SetDifficultyCall, SomethingCall
  <2> QED
    BY <2>1, <2>2
<1>6. CASE End
  BY <1>2, <1>6 DEF End
<1>7. CASE UNCHANGED runtimeVars
  BY <1>2, <1>7 DEF runtimeVars
<1> QED
  BY <1>3, <1>4, <1>5, <1>6, <1>7 DEF RuntimeNext

(* A signed extrinsic is applied once in the life of its signer's account,   *)
(* whatever the blocks hold: a nonce does not go back while it lives.        *)
THEOREM NeverReplayed == RuntimeSpec => NoReplay
<1>1. NonceInv /\ [RuntimeNext]_runtimeVars =>
        [executing' \in Extrinsics /\ executing' # executing /\ IsSigned(executing') =>
            \A x \in since : x.signer = executing'.signer => x.nonce # executing'.nonce]_runtimeVars
  <2> SUFFICES ASSUME NonceInv, RuntimeNext, executing' \in Extrinsics,
                      executing' # executing, IsSigned(executing'),
                      NEW x \in since, x.signer = executing'.signer
               PROVE  x.nonce # executing'.nonce
    BY DEF IsSigned
  <2>1. PreDispatch(executing')
    <3>1. \A digests : ~Begin(digests)
      BY DEF Begin
    <3>2. ~Dispatch /\ ~End
      BY RuntimeAssumption DEF Dispatch, End
    <3> QED
      BY <3>1, <3>2 DEF RuntimeNext, PreDispatch
  <2>2. executing'.nonce = nonce[executing'.signer]
    BY <2>1, SignedApplied
  <2>3. x.nonce < nonce[x.signer] /\ x.nonce \in Nat /\ nonce[x.signer] \in Nat
    BY RuntimeAssumption DEF NonceInv, Extrinsic
  <2> QED
    BY <2>2, <2>3
<1> QED
  BY <1>1, NonceInit, NonceStep, PTL DEF RuntimeSpec, NoReplay

-----------------------------------------------------------------------------
(* Balances: no account is left with less than the existential deposit, and  *)
(* one without a balance has no nonce.                                       *)
Sound(f, n) ==
    /\ f \in [Account -> 0 .. MaxBalance] /\ n \in [Account -> Nat]
    /\ \A a \in Account : f[a] = 0 \/ f[a] >= ExistentialDeposit
    /\ \A a \in Account : f[a] = 0 => n[a] = 0

AccountsInv ==
    /\ ExecutingOK
    /\ Sound(free, nonce)
    /\ blockReward \in RewardValues
    /\ rewardAuthor \in Account \cup {NoAccount} /\ announced \in Account \cup {NoAccount}
    /\ difficulty \in Pow!U256
    /\ something \in 0 .. MaxSomething \cup {NoValue}
    /\ body \subseteq Extrinsics /\ since \subseteq Extrinsics

LEMMA WalletConstants ==
    /\ MaxBalance \in Nat /\ ExistentialDeposit \in 1 .. MaxBalance
    /\ RewardValues \subseteq 0 .. MaxBalance
    /\ ExtrinsicFee \in Nat /\ MaxSomething \in Nat
BY RuntimeAssumption DEF Wallet!RewardsConstants, Wallet!Balance

LEMMA AccountsInit == RuntimeInit => AccountsInv
<1> SUFFICES ASSUME RuntimeInit PROVE AccountsInv
  OBVIOUS
<1>1. /\ free = GenesisFree /\ nonce = [a \in Account |-> 0] /\ blockReward = Genesis.reward
      /\ rewardAuthor = NoAccount /\ announced = NoAccount
  BY DEF RuntimeInit, Wallet!RewardsInit
<1>2. Sound(free, nonce) /\ blockReward \in RewardValues
  BY <1>1, RuntimeAssumption, WalletConstants
     DEF Sound, Wallet!RewardsConstants, Wallet!Balance
<1> QED
  BY <1>1, <1>2, RuntimeAssumption
     DEF AccountsInv, RuntimeInit, ExecutingOK, Pow!DifficultyInit

(* The first digest that can be read is an account.                          *)
LEMMA AuthorFound ==
    ASSUME NEW digests \in Seq(Account \cup {Unreadable})
    PROVE  Wallet!FindAuthor(digests) \in Account \cup {NoAccount}
<1> DEFINE readable == {i \in DOMAIN digests : digests[i] # Unreadable}
<1>1. CASE readable = {}
  BY <1>1 DEF Wallet!FindAuthor
<1>2. CASE readable # {}
  <2>1. readable \in SUBSET Nat
    OBVIOUS
  <2>2. \E i \in readable : \A j \in readable : i <= j
    <3>1. PICK i \in readable : \A j \in readable : ~(<<j, i>> \in OpToRel(<, Nat))
      BY <1>2, <2>1, NatLessThanWellFounded, WFMin
    <3> HIDE DEF readable
    <3>2. ASSUME NEW j \in readable, j < i PROVE FALSE
      <4>1. <<j, i>> \in {s \in Nat \X Nat : s[1] < s[2]}
        BY <2>1, <3>1, <3>2
      <4> QED
        BY <3>1, <4>1 DEF OpToRel
    <3>3. ASSUME NEW j \in readable PROVE i <= j
      <4>1. i \in Nat /\ j \in Nat
        BY <2>1, <3>1, <3>3
      <4> QED
        BY <3>2, <4>1
    <3> QED
      BY <3>1, <3>3
  <2>3. Wallet!Min(readable) \in readable
    BY <2>2 DEF Wallet!Min
  <2> QED
    BY <1>2, <2>3 DEF Wallet!FindAuthor
<1> QED
  BY <1>1, <1>2

LEMMA DepositSound ==
    ASSUME AccountsInv, NEW a \in Account, NEW v \in Nat, Wallet!CanDeposit(a, v)
    PROVE  Sound([free EXCEPT ![a] = @ + v], nonce)
<1>1. free[a] \in Nat /\ v > 0 /\ free[a] + v <= MaxBalance
  BY DEF Wallet!CanDeposit, AccountsInv, Sound
<1>2. free[a] + v >= ExistentialDeposit
  BY <1>1, WalletConstants DEF Wallet!CanDeposit, Wallet!Exists, AccountsInv, Sound
<1> QED
  BY <1>1, <1>2, WalletConstants DEF AccountsInv, Sound

LEMMA BeginAccounts ==
    ASSUME AccountsInv, NEW digests \in HeaderDigests, Begin(digests)
    PROVE  AccountsInv'
<1>1. rewardAuthor' \in Account \cup {NoAccount}
  BY AuthorFound, RuntimeAssumption DEF Begin, Wallet!NextBlock
<1>2. Sound(free', nonce) /\ announced' \in Account \cup {NoAccount}
  <2>1. CASE rewardAuthor' = NoAccount
    BY <2>1 DEF Begin, Wallet!NextBlock, AccountsInv
  <2>2. CASE rewardAuthor' # NoAccount
    <3>1. Wallet!NoteAuthor(rewardAuthor') /\ rewardAuthor' \in Account
      BY <1>1, <2>2 DEF Begin, Wallet!NextBlock
    <3>2. blockReward \in Nat
      BY WalletConstants DEF AccountsInv
    <3> QED
      BY <3>1, <3>2, DepositSound DEF Wallet!NoteAuthor, AccountsInv
  <2> QED
    BY <2>1, <2>2
<1> QED
  BY <1>1, <1>2 DEF Begin, Wallet!NextBlock, AccountsInv, ExecutingOK

LEMMA PayAccounts ==
    ASSUME AccountsInv, NEW x \in Extrinsics, PreDispatch(x)
    PROVE  AccountsInv'
<1>1. Sound(free', nonce')
  <2>1. CASE ~IsSigned(x)
    BY <2>1 DEF PreDispatch, AccountsInv
  <2>2. CASE IsSigned(x)
    <3>1. x.signer \in Account
      BY <2>2, RuntimeAssumption DEF IsSigned, Extrinsic
    <3>2. /\ nonce' = [nonce EXCEPT ![x.signer] = @ + 1]
          /\ free' = [free EXCEPT ![x.signer] = @ - FeeOf(x)]
          /\ free[x.signer] >= ExtrinsicFee + ExistentialDeposit
      BY <2>2 DEF PreDispatch, CanPay
    <3>3. FeeOf(x) \in 0 .. ExtrinsicFee
      BY WalletConstants DEF FeeOf
    <3>4. free[x.signer] - FeeOf(x) \in ExistentialDeposit .. MaxBalance
      BY <3>1, <3>2, <3>3, WalletConstants DEF AccountsInv, Sound
    <3> QED
      BY <3>1, <3>2, <3>4, WalletConstants DEF AccountsInv, Sound
  <2> QED
    BY <2>1, <2>2
<1>2. since' \subseteq Extrinsics
  BY DEF PreDispatch, AccountsInv
<1> QED
  BY <1>1, <1>2 DEF PreDispatch, AccountsInv, ExecutingOK

LEMMA TransferAccounts ==
    ASSUME AccountsInv, NEW x \in Extrinsics, TransferCall(x), IsSigned(x)
    PROVE  Sound(free', nonce')
<1> DEFINE rest == free[x.signer] - x.value
           left == IF rest < ExistentialDeposit THEN 0 ELSE rest
<1>1. x.signer \in Account /\ x.to \in Account /\ x.signer # x.to
  BY RuntimeAssumption DEF IsSigned, Extrinsic, TransferCall, Wallet!Transfer
<1>2. x.value \in 1 .. free[x.signer] /\ Wallet!CanDeposit(x.to, x.value)
  BY DEF TransferCall, Wallet!Transfer
<1>3. free[x.signer] \in 0 .. MaxBalance /\ free[x.to] \in 0 .. MaxBalance
  BY <1>1 DEF AccountsInv, Sound
<1>4. rest \in 0 .. MaxBalance /\ x.value \in Nat
  BY <1>2, <1>3, WalletConstants
<1>5. free' = [free EXCEPT ![x.signer] = left, ![x.to] = @ + x.value]
  <2>1. left = rest - (IF rest < ExistentialDeposit THEN rest ELSE 0)
    BY <1>4, WalletConstants
  <2> HIDE DEF left
  <2> QED
    BY <2>1 DEF TransferCall, Wallet!Transfer
<1>6. left \in 0 .. MaxBalance /\ (left = 0 \/ left >= ExistentialDeposit)
  BY <1>4, WalletConstants
<1>7. free[x.to] + x.value \in ExistentialDeposit .. MaxBalance
  BY <1>1, <1>2, <1>3, <1>4, WalletConstants
     DEF Wallet!CanDeposit, Wallet!Exists, AccountsInv, Sound
<1> HIDE DEF left
<1>8. /\ free' \in [Account -> 0 .. MaxBalance]
      /\ \A a \in Account : free'[a] = 0 \/ free'[a] >= ExistentialDeposit
  BY <1>1, <1>5, <1>6, <1>7, WalletConstants DEF AccountsInv, Sound
<1>9. nonce' = [a \in Account |-> IF free[a] # 0 /\ free'[a] = 0 THEN 0 ELSE nonce[a]]
  BY DEF TransferCall
<1> QED
  BY <1>8, <1>9 DEF AccountsInv, Sound

LEMMA DispatchAccounts ==
    ASSUME AccountsInv, Dispatch
    PROVE  AccountsInv'
<1>1. executing \in Extrinsics /\ ExecutingOK'
  BY DEF AccountsInv, ExecutingOK, Dispatch
<1>2. ASSUME UNCHANGED <<walletState, difficulty, something, nonce, since, body>>
      PROVE  AccountsInv'
  BY <1>1, <1>2 DEF walletState, AccountsInv
<1>3. CASE TransferCall(executing) /\ Accepts(executing)
  <2>1. IsSigned(executing)
    BY <1>3 DEF TransferCall, Accepts, OriginOf
  <2>2. since' \subseteq Extrinsics
    BY <1>3 DEF TransferCall, AccountsInv
  <2>3. UNCHANGED <<blockReward, rewardAuthor, announced, difficulty, something, body>>
    BY <1>3 DEF TransferCall, Wallet!Transfer, Dispatch
  <2> QED
    BY <1>1, <1>3, <2>1, <2>2, <2>3, TransferAccounts DEF AccountsInv
<1>4. CASE SetRewardCall(executing)
  BY <1>1, <1>4, RuntimeAssumption
     DEF SetRewardCall, Wallet!SetReward, AccountsInv, Dispatch
<1>5. CASE SetDifficultyCall(executing)
  BY <1>1, <1>5, RuntimeAssumption
     DEF SetDifficultyCall, Pow!SetDifficulty, walletState, AccountsInv, Dispatch
<1>6. CASE SomethingCall(executing) /\ Accepts(executing)
  <2>1. something' \in 0 .. MaxSomething
    <3>1. CASE executing.call = "do_something"
      BY <1>1, <1>6, <3>1, RuntimeAssumption DEF SomethingCall
    <3>2. CASE executing.call = "cause_error"
      <4>1. something \in 0 .. MaxSomething /\ something # MaxSomething
        BY <1>6, <3>2 DEF Accepts, CanCount, AccountsInv
      <4> QED
        BY <1>6, <3>2, <4>1, WalletConstants DEF SomethingCall
    <3> QED
      BY <1>6, <3>1, <3>2 DEF SomethingCall
  <2> QED
    BY <1>1, <1>6, <2>1 DEF SomethingCall, walletState, AccountsInv, Dispatch
<1> QED
  BY <1>2, <1>3, <1>4, <1>5, <1>6 DEF Dispatch, SpendCall

LEMMA AccountsStep == AccountsInv /\ [RuntimeNext]_runtimeVars => AccountsInv'
<1> SUFFICES ASSUME AccountsInv, [RuntimeNext]_runtimeVars PROVE AccountsInv'
  OBVIOUS
<1>1. CASE \E digests \in HeaderDigests : Begin(digests)
  BY <1>1, BeginAccounts
<1>2. CASE \E x \in Extrinsics : PreDispatch(x)
  BY <1>2, PayAccounts
<1>3. CASE Dispatch
  BY <1>3, DispatchAccounts
<1>4. CASE End
  BY <1>4 DEF End, walletState, AccountsInv, ExecutingOK
<1>5. CASE UNCHANGED runtimeVars
  BY <1>5 DEF runtimeVars, walletState, AccountsInv, ExecutingOK
<1> QED
  BY <1>1, <1>2, <1>3, <1>4, <1>5 DEF RuntimeNext

LEMMA AccountsInvariance == RuntimeSpec => []AccountsInv
BY AccountsInit, AccountsStep, PTL DEF RuntimeSpec

(* Whatever is called, every pallet keeps to its types; of the balances this *)
(* says that fees, rewards, transfers and reaping leave no account between 0 *)
(* and the existential deposit, and none that is gone with a nonce.          *)
THEOREM RuntimeTypeCorrect == RuntimeSpec => []RuntimeTypeOK
<1>1. AccountsInv /\ TypeOK => RuntimeTypeOK
  <2> SUFFICES ASSUME AccountsInv, TypeOK PROVE RuntimeTypeOK
    OBVIOUS
  <2>1. \A a \in Account : free[a] \in Wallet!Balance \ 1 .. ExistentialDeposit - 1
    BY WalletConstants DEF AccountsInv, Sound, Wallet!Balance
  <2>2. Wallet!RewardsTypeOK
    BY <2>1 DEF AccountsInv, TypeOK, Wallet!RewardsTypeOK
  <2> QED
    BY <2>2 DEF AccountsInv, Sound, ExecutingOK, RuntimeTypeOK, Pow!DifficultyTypeOK
<1> QED
  BY <1>1, AccountsInvariance, RuntimeIsChain, TypeCorrect, PTL

-----------------------------------------------------------------------------
(* The supply is a sum, of which a step changes one or two terms.            *)
LEMMA SupplyIsSum ==
    /\ Wallet!Supply = SumFunctionOnSet(free, Account)
    /\ Wallet!Supply' = SumFunctionOnSet(free', Account)
<1>1. Wallet!Supply = SumFunctionOnSet(free, Account)
  BY DEF Wallet!Supply, Wallet!MapThenSumSet, Wallet!MapThenFoldSet,
         SumFunctionOnSet, FoldFunctionOnSet, MapThenFoldSet
<1>2. Wallet!Supply' = SumFunctionOnSet(free', Account)
  BY DEF Wallet!Supply, Wallet!MapThenSumSet, Wallet!MapThenFoldSet,
         SumFunctionOnSet, FoldFunctionOnSet, MapThenFoldSet
<1> QED
  BY <1>1, <1>2

LEMMA AccountsFinite == IsFiniteSet(Account)
BY RuntimeAssumption DEF Wallet!RewardsConstants, Wallet!IsFiniteSet, IsFiniteSet

(* One balance changes by v.                                                 *)
LEMMA SupplyWithOneChanged ==
    ASSUME AccountsInv, NEW a \in Account, NEW v \in Int, free[a] + v \in Nat,
           free' = [free EXCEPT ![a] = @ + v]
    PROVE  Wallet!Supply \in Nat /\ Wallet!Supply' = Wallet!Supply + v
<1> DEFINE s == SumFunctionOnSet(free, Account)
<1>1. \A b \in Account : free[b] \in Nat /\ free[b] \in Int
  BY WalletConstants DEF AccountsInv, Sound
<1>2. s \in Nat
  BY <1>1, AccountsFinite, SumOfNaturals
<1>3. ASSUME NEW e, e = [free EXCEPT ![a] = @ + v]
      PROVE  SumFunctionOnSet(e, Account) = s + v
  <2>1. /\ \A b \in Account : free[b] \in Int /\ e[b] \in Int
        /\ \A b \in Account \ {a} : e[b] = free[b]
        /\ e[a] = free[a] + v
    BY <1>1, <1>3 DEF AccountsInv, Sound
  <2> DEFINE t == SumFunctionOnSet(e, Account)
  <2>2. t = s + e[a] - free[a]
    BY ONLY <2>1, AccountsFinite, SumWithOneChanged, a \in Account
  <2> HIDE DEF s, t
  <2>3. t = s + v
    BY <1>1, <1>2, <2>1, <2>2
  <2> QED
    BY <2>3 DEF t
<1> HIDE DEF s
<1>4. SumFunctionOnSet(free', Account) = s + v
  BY <1>3
<1> QED
  BY <1>2, <1>4, SupplyIsSum DEF s

SupplyInv == AccountsInv /\ supply \in Nat

LEMMA SupplyType == AccountsInv => Wallet!Supply \in Nat
<1> SUFFICES ASSUME AccountsInv PROVE SumFunctionOnSet(free, Account) \in Nat
  BY SupplyIsSum
<1>1. \A b \in Account : free[b] \in Nat
  BY WalletConstants DEF AccountsInv, Sound
<1> QED
  BY <1>1, AccountsFinite, SumOfNaturals

LEMMA SupplyInit == RuntimeInit => SupplyInv
<1> SUFFICES ASSUME RuntimeInit PROVE supply \in Nat
  BY AccountsInit DEF SupplyInv
<1> QED
  BY AccountsInit, SupplyType, WalletConstants DEF RuntimeInit, Wallet!RewardsInit

(* What a step does to the supply and to the total issuance: nothing, or the *)
(* reward of a new block, or something is taken away.                        *)
Rewarded ==
    /\ number' = number + 1 /\ rewardAuthor' # NoAccount
    /\ free' = [free EXCEPT ![rewardAuthor'] = @ + blockReward]
    /\ Wallet!Supply' = Wallet!Supply + blockReward
    /\ supply' = Wallet!Issued(blockReward)

Takes(v) ==
    /\ Wallet!Supply' = Wallet!Supply - v
    /\ supply' = Wallet!Burnt(v)

Taken == \E v \in Nat : Takes(v)

Untouched == Wallet!Supply' = Wallet!Supply /\ supply' = supply

LEMMA SameSupply == ASSUME UNCHANGED <<free, supply>> PROVE Untouched
BY SupplyIsSum DEF Untouched

LEMMA BeginSupply ==
    ASSUME SupplyInv, NEW digests \in HeaderDigests, Begin(digests)
    PROVE  Rewarded \/ Untouched
<1>1. rewardAuthor' \in Account \cup {NoAccount} /\ number' = number + 1
  BY AuthorFound, RuntimeAssumption DEF Begin, Wallet!NextBlock
<1>2. CASE rewardAuthor' = NoAccount
  BY <1>2, SameSupply DEF Begin, Wallet!NextBlock
<1>3. CASE rewardAuthor' # NoAccount
  <2>1. Wallet!NoteAuthor(rewardAuthor') /\ rewardAuthor' \in Account
    BY <1>1, <1>3 DEF Begin, Wallet!NextBlock
  <2>2. CASE ~Wallet!CanDeposit(rewardAuthor', blockReward)
    BY <2>1, <2>2, SameSupply DEF Wallet!NoteAuthor
  <2>3. CASE Wallet!CanDeposit(rewardAuthor', blockReward)
    <3>1. /\ free' = [free EXCEPT ![rewardAuthor'] = @ + blockReward]
          /\ supply' = Wallet!Issued(blockReward)
      BY <2>1, <2>3 DEF Wallet!NoteAuthor
    <3>2. blockReward \in Nat /\ free[rewardAuthor'] \in Nat
      BY <2>1, WalletConstants DEF SupplyInv, AccountsInv, Sound
    <3>3. blockReward \in Int /\ free[rewardAuthor'] + blockReward \in Nat
      BY <3>2
    <3>4. Wallet!Supply' = Wallet!Supply + blockReward
      BY <2>1, <3>1, <3>3, SupplyWithOneChanged DEF SupplyInv
    <3> QED
      BY <1>1, <1>3, <3>1, <3>4 DEF Rewarded
  <2> QED
    BY <2>2, <2>3
<1> QED
  BY <1>2, <1>3

LEMMA FeeSupply ==
    ASSUME SupplyInv, NEW x \in Extrinsics, PreDispatch(x)
    PROVE  Taken \/ Untouched
<1>1. CASE ~IsSigned(x)
  BY <1>1, SameSupply DEF PreDispatch
<1>2. CASE IsSigned(x)
  <2> DEFINE v == -FeeOf(x)
  <2>1. x.signer \in Account /\ FeeOf(x) \in Nat /\ FeeOf(x) <= ExtrinsicFee
    BY <1>2, RuntimeAssumption, WalletConstants DEF IsSigned, Extrinsic, FeeOf
  <2>2. /\ free' = [free EXCEPT ![x.signer] = @ - FeeOf(x)]
        /\ supply' = Wallet!Burnt(FeeOf(x))
        /\ free[x.signer] >= ExtrinsicFee + ExistentialDeposit
    BY <1>2 DEF PreDispatch, CanPay
  <2>3. free[x.signer] \in Nat
    BY <2>1, WalletConstants DEF SupplyInv, AccountsInv, Sound
  <2>4. v \in Int /\ free[x.signer] + v \in Nat /\ free[x.signer] - FeeOf(x) = free[x.signer] + v
    BY <2>1, <2>2, <2>3, WalletConstants
  <2>5. free' = [free EXCEPT ![x.signer] = @ + v]
    BY <2>2, <2>4
  <2> HIDE DEF v
  <2>6. Wallet!Supply \in Nat /\ Wallet!Supply' = Wallet!Supply + v
    BY <2>1, <2>4, <2>5, SupplyWithOneChanged DEF SupplyInv
  <2>7. Wallet!Supply' = Wallet!Supply - FeeOf(x)
    BY <2>1, <2>6 DEF v
  <2>8. Takes(FeeOf(x))
    BY <2>2, <2>7 DEF Takes
  <2> QED
    BY <2>1, <2>8 DEF Taken
<1> QED
  BY <1>1, <1>2

(* What moves from account to account stays in the sum, and the dust goes.   *)
LEMMA TransferSupply ==
    ASSUME SupplyInv, NEW x \in Extrinsics, TransferCall(x), IsSigned(x)
    PROVE  Taken
<1> DEFINE rest == free[x.signer] - x.value
           dust == IF rest < ExistentialDeposit THEN rest ELSE 0
           half == [free EXCEPT ![x.signer] = rest - dust]
           s == SumFunctionOnSet(free, Account)
           m == SumFunctionOnSet(half, Account)
           t == SumFunctionOnSet(free', Account)
<1>1. x.signer \in Account /\ x.to \in Account /\ x.signer # x.to
  BY RuntimeAssumption DEF IsSigned, Extrinsic, TransferCall, Wallet!Transfer
<1>2. /\ x.value \in 1 .. free[x.signer] /\ supply' = Wallet!Burnt(dust)
      /\ free' = [free EXCEPT ![x.signer] = rest - dust, ![x.to] = @ + x.value]
  BY DEF TransferCall, Wallet!Transfer
<1>3. /\ free \in [Account -> 0 .. MaxBalance]
      /\ \A b \in Account : free[b] \in Nat /\ free[b] \in Int
  BY WalletConstants DEF SupplyInv, AccountsInv, Sound
<1>4. rest \in Nat /\ dust \in Nat /\ rest - dust \in Nat /\ x.value \in Nat
  BY <1>1, <1>2, <1>3, WalletConstants
<1> HIDE DEF dust
<1>5. /\ \A b \in Account : half[b] \in Int
      /\ \A b \in Account \ {x.signer} : half[b] = free[b]
      /\ half[x.signer] = rest - dust
  BY <1>1, <1>3, <1>4
<1>6. /\ \A b \in Account : free'[b] \in Int
      /\ \A b \in Account \ {x.to} : free'[b] = half[b]
      /\ free'[x.to] = half[x.to] + x.value
  BY <1>1, <1>2, <1>3, <1>4
<1> HIDE DEF half
<1>7. m = s + half[x.signer] - free[x.signer]
  BY <1>1, <1>3, <1>5, AccountsFinite, SumWithOneChanged
<1>8. t = m + free'[x.to] - half[x.to]
  BY <1>1, <1>5, <1>6, AccountsFinite, SumWithOneChanged
<1>9. s \in Nat /\ m \in Int
  BY <1>3, <1>5, AccountsFinite, SumOfNaturals, SumLaws
<1>10. t = s - dust
  <2> HIDE DEF s, t, m
  <2>1. half[x.to] \in Int /\ free[x.signer] \in Int
    BY <1>1, <1>3, <1>5
  <2> QED
    BY <1>4, <1>5, <1>6, <1>7, <1>8, <1>9, <2>1
<1>11. Takes(dust)
  BY <1>2, <1>10, SupplyIsSum DEF Takes
<1> QED
  BY <1>4, <1>11 DEF Taken

LEMMA SupplyMoves ==
    ASSUME SupplyInv, [RuntimeNext]_runtimeVars
    PROVE  Rewarded \/ Taken \/ Untouched
<1>1. CASE \E digests \in HeaderDigests : Begin(digests)
  BY <1>1, BeginSupply
<1>2. CASE \E x \in Extrinsics : PreDispatch(x)
  BY <1>2, FeeSupply
<1>3. CASE Dispatch
  <2>1. executing \in Extrinsics
    BY <1>3 DEF SupplyInv, AccountsInv, ExecutingOK, Dispatch
  <2>2. CASE TransferCall(executing) /\ Accepts(executing)
    <3>1. IsSigned(executing)
      BY <2>2 DEF TransferCall, Accepts, OriginOf
    <3> QED
      BY <2>1, <2>2, <3>1, TransferSupply
  <2>3. CASE ~(TransferCall(executing) /\ Accepts(executing))
    <3>1. UNCHANGED <<free, supply>>
      BY <1>3, <2>3
         DEF Dispatch, SpendCall, SetRewardCall, SetDifficultyCall, SomethingCall, walletState,
             Wallet!SetReward
    <3> QED
      BY <3>1, SameSupply
  <2> QED
    BY <2>2, <2>3
<1>4. CASE End
  BY <1>4, SameSupply DEF End, walletState
<1>5. CASE UNCHANGED runtimeVars
  BY <1>5, SameSupply DEF runtimeVars, walletState
<1> QED
  BY <1>1, <1>2, <1>3, <1>4, <1>5 DEF RuntimeNext

LEMMA SupplyStep == SupplyInv /\ [RuntimeNext]_runtimeVars => SupplyInv'
<1> SUFFICES ASSUME SupplyInv, [RuntimeNext]_runtimeVars PROVE supply' \in Nat
  BY AccountsStep DEF SupplyInv
<1>1. blockReward \in Nat /\ MaxBalance \in Nat /\ supply \in Nat
  BY WalletConstants DEF SupplyInv, AccountsInv
<1> QED
  BY <1>1, SupplyMoves
     DEF Rewarded, Taken, Takes, Untouched, Wallet!Issued, Wallet!Burnt

LEMMA SupplyInvariance == RuntimeSpec => []SupplyInv
BY SupplyInit, SupplyStep, PTL DEF RuntimeSpec

(* Whatever fees, rewards, transfers, failed deposits and reaped accounts a  *)
(* block holds, the total issuance moves as the sum of all balances does,    *)
(* except against an end of its range.                                       *)
THEOREM IssuanceIsSupply == RuntimeSpec => IssuanceFollowsSupply
<1>1. SupplyInv /\ [RuntimeNext]_runtimeVars =>
        [supply' \in 1 .. MaxBalance - 1 =>
            supply' - supply = Wallet!Supply' - Wallet!Supply]_(Wallet!rewardVars)
  <2> SUFFICES ASSUME SupplyInv, [RuntimeNext]_runtimeVars, supply' \in 1 .. MaxBalance - 1
               PROVE  supply' - supply = Wallet!Supply' - Wallet!Supply
    OBVIOUS
  <2>1. Wallet!Supply \in Nat /\ supply \in Nat /\ MaxBalance \in Nat /\ blockReward \in Nat
    BY SupplyType, WalletConstants DEF SupplyInv, AccountsInv
  <2> QED
    BY <2>1, SupplyMoves
       DEF Rewarded, Taken, Takes, Untouched, Wallet!Issued, Wallet!Burnt
<1> QED
  BY <1>1, SupplyInvariance, PTL DEF RuntimeSpec, IssuanceFollowsSupply, Wallet!IssuanceFollowsSupply

(* No call and no fee makes money: the sum of all balances grows only when a *)
(* block begins, by the reward that stands then, in the account of the       *)
(* author that the digests name.                                             *)
THEOREM MoneyIsRewardOnly == RuntimeSpec => OneRewardPerBlock
<1>1. SupplyInv /\ [RuntimeNext]_runtimeVars =>
        [Wallet!Supply' > Wallet!Supply =>
            /\ number' = number + 1 /\ rewardAuthor' # NoAccount
            /\ free' = [free EXCEPT ![rewardAuthor'] = @ + blockReward]]_(Wallet!rewardVars)
  <2> SUFFICES ASSUME SupplyInv, [RuntimeNext]_runtimeVars, Wallet!Supply' > Wallet!Supply
               PROVE  Rewarded
    BY DEF Rewarded
  <2>1. Wallet!Supply \in Nat
    BY SupplyType DEF SupplyInv
  <2> QED
    BY <2>1, SupplyMoves DEF Taken, Takes, Untouched
<1> QED
  BY <1>1, SupplyInvariance, PTL DEF RuntimeSpec, OneRewardPerBlock, Wallet!OneRewardPerBlock

-----------------------------------------------------------------------------
LEMMA DifficultyIsNat ==
    MaxU256 \in Nat /\ Pow!U256 = 0 .. MaxU256
BY RuntimeAssumption DEF Pow!U256

LEMMA WinnersUpToQuotient == difficulty \in Pow!U256 => TargetIsQuotient
<1> SUFFICES ASSUME difficulty \in Pow!U256 PROVE TargetIsQuotient
  OBVIOUS
<1>1. MaxU256 \in Nat /\ difficulty \in Nat
  BY DifficultyIsNat
<1>2. CASE difficulty = 0
  BY <1>1, <1>2
     DEF TargetIsQuotient, Pow!TargetIsQuotient, Pow!Winners, Pow!HashMeetsDifficulty, Pow!U256
<1>3. CASE difficulty # 0
  <2>1. MaxU256 \div difficulty \in Nat /\ MaxU256 \div difficulty <= MaxU256
    BY <1>1, <1>3, QuotientBounds, QuotientAtMost
  <2>2. \A hash \in Pow!U256 :
            Pow!HashMeetsDifficulty(hash, difficulty) <=> hash <= MaxU256 \div difficulty
    BY <1>1, <1>3, ProductFits DEF Pow!HashMeetsDifficulty, Pow!U256
  <2> QED
    BY <1>1, <1>3, <2>1, <2>2
       DEF TargetIsQuotient, Pow!TargetIsQuotient, Pow!Winners, Pow!U256
<1> QED
  BY <1>2, <1>3

(* Whatever root makes of the difficulty, the test of hash_meets_difficulty  *)
(* on an overflowing product is the test against a target; difficulty 0 lets *)
(* all hashes win.                                                           *)
THEOREM TargetCorrect == RuntimeSpec => []TargetIsQuotient
<1>1. AccountsInv => TargetIsQuotient
  BY WinnersUpToQuotient DEF AccountsInv
<1> QED
  BY <1>1, AccountsInvariance, PTL

LEMMA MeetsLess ==
    ASSUME NEW d \in Pow!U256, NEW e \in Pow!U256, d <= e,
           NEW hash \in Pow!U256, Pow!HashMeetsDifficulty(hash, e)
    PROVE  Pow!HashMeetsDifficulty(hash, d)
<1>1. MaxU256 \in Nat /\ d \in Nat /\ e \in Nat /\ hash \in Nat
  BY DifficultyIsNat
<1>2. hash * d <= hash * e
  BY <1>1, ProductGrows
<1>3. hash * d \in Nat /\ hash * e \in Nat
  BY <1>1
<1> QED
  BY <1>1, <1>2, <1>3 DEF Pow!HashMeetsDifficulty

(* When root raises the difficulty no hash wins that lost before.            *)
THEOREM HarderTarget == RuntimeSpec => HarderIsHarder
<1>1. AccountsInv /\ AccountsInv' /\ [RuntimeNext]_runtimeVars =>
        [difficulty' >= difficulty => Pow!Winners' \subseteq Pow!Winners]_difficulty
  <2> SUFFICES ASSUME AccountsInv, AccountsInv', difficulty' >= difficulty
               PROVE  Pow!Winners' \subseteq Pow!Winners
    OBVIOUS
  <2>1. difficulty \in Pow!U256 /\ difficulty' \in Pow!U256 /\ difficulty <= difficulty'
    BY DifficultyIsNat DEF AccountsInv, Pow!U256
  <2> QED
    BY <2>1, MeetsLess DEF Pow!Winners
<1> QED
  BY <1>1, AccountsInvariance, PTL DEF RuntimeSpec, HarderIsHarder, Pow!HarderIsHarder

-----------------------------------------------------------------------------
(* The pool stands in front of the runtime: its steps leave the runtime's    *)
(* variables alone or are steps of the runtime.                              *)
LEMMA PoolStepOfRuntime ==
    [PoolNext]_<<runtimeVars, poolVars>> => [RuntimeNext]_runtimeVars
BY DEF PoolNext, RuntimeNext, Submit, Revalidate, BeginBlock, InBlock, EndBlock

LEMMA PoolKeepsRuntime == PoolSpec => RuntimeSpec
<1>1. PoolInit => RuntimeInit
  BY DEF PoolInit
<1> QED
  BY <1>1, PoolStepOfRuntime, PTL DEF PoolSpec, RuntimeSpec

(* What is executed is in the body of the open block.                        *)
BodyOK ==
    /\ executing # NoExtrinsic => phase = "open" /\ executing \in body
    /\ body \subseteq Extrinsics

LEMMA BodyInit == RuntimeInit => BodyOK
BY DEF RuntimeInit, BodyOK

LEMMA BodyStep == ExecutingOK /\ BodyOK /\ [RuntimeNext]_runtimeVars => BodyOK'
<1> SUFFICES ASSUME ExecutingOK, BodyOK, [RuntimeNext]_runtimeVars PROVE BodyOK'
  OBVIOUS
<1>1. CASE \E digests \in HeaderDigests : Begin(digests)
  BY <1>1 DEF Begin, InitializeBlock, BodyOK
<1>2. CASE \E x \in Extrinsics : PreDispatch(x)
  BY <1>2 DEF PreDispatch, chainVars, BodyOK
<1>3. CASE Dispatch
  BY <1>3 DEF Dispatch, BodyOK
<1>4. CASE End
  BY <1>4 DEF End, BodyOK
<1>5. CASE UNCHANGED runtimeVars
  BY <1>5 DEF runtimeVars, chainVars, BodyOK
<1> QED
  BY <1>1, <1>2, <1>3, <1>4, <1>5 DEF RuntimeNext

(* What a dispatched call does to the store.                                 *)
LEMMA DispatchedSpend ==
    ASSUME ExecutingOK, BodyOK, Dispatch, utxoStore' # utxoStore
    PROVE  /\ executing \in Extrinsics /\ executing \in body /\ executing.call = "spend"
           /\ executing.tx \in Transactions /\ ApplySpend(executing.tx)
<1>1. executing \in Extrinsics /\ executing \in body
  BY DEF ExecutingOK, BodyOK, Dispatch
<1>2. SpendCall(executing)
  BY DEF Dispatch, TransferCall, SetRewardCall, SetDifficultyCall, SomethingCall, chainVars
<1> QED
  BY <1>1, <1>2, RuntimeAssumption DEF SpendCall, Extrinsic

-----------------------------------------------------------------------------
(* The tags that extrinsics in the pool wait for.                            *)
WaitsOK ==
    /\ DOMAIN waits \subseteq Extrinsics /\ IsFiniteSet(DOMAIN waits)
    /\ \A x \in DOMAIN waits : IsSpend(x) => waits[x] \subseteq Outpoints(x.tx)

(* A spend that was refused at the parent of the open block is not accepted  *)
(* in the block either, so a spend of the block has tags for the pool.       *)
RefusedAreDoomed ==
    phase = "open" => \A x \in Extrinsics \ valid : IsSpend(x) => Doomed(x.tx)

(* An output that a spend waits for is not in the store, unless it came      *)
(* without a tag, or the open block has just made it and will tell the pool. *)
StillToHear ==
    \A x \in DOMAIN waits : IsSpend(x) =>
        \A t \in (waits[x] \ untagged) \cap DOMAIN utxoStore :
            phase = "open" /\ \E z \in body \cap valid : IsSpend(z) /\ t \in OutputKeys(z.tx)

PoolInv == IInv /\ ExecutingOK /\ BodyOK /\ WaitsOK /\ RefusedAreDoomed /\ StillToHear

LEMMA SpendsHaveTransactions ==
    ASSUME NEW x \in Extrinsics, x.call = "spend" PROVE x.tx \in Transactions
BY RuntimeAssumption DEF Extrinsic

LEMMA PoolInit1 == PoolInit => PoolInv
<1> SUFFICES ASSUME PoolInit PROVE PoolInv
  OBVIOUS
<1>1. DOMAIN waits = {} /\ phase = "idle"
  BY DEF PoolInit, RuntimeInit, Init
<1>2. IInv /\ ExecutingOK /\ BodyOK
  BY InitInv, ExecutingInit, BodyInit DEF PoolInit, RuntimeInit
<1> QED
  BY <1>1, <1>2, FS_EmptySet DEF PoolInv, WaitsOK, RefusedAreDoomed, StillToHear

LEMMA BaseStep ==
    ASSUME PoolInv, [PoolNext]_<<runtimeVars, poolVars>>
    PROVE  IInv' /\ ExecutingOK' /\ BodyOK' /\ [Next]_chainVars
BY PoolStepOfRuntime, ChainStep, NextInv, ExecutingStep, BodyStep DEF PoolInv

(* An extrinsic that is validated, and one that is dropped.                  *)
LEMMA AmongStep ==
    ASSUME WaitsOK, StillToHear, phase = "idle", NEW gone,
           NEW x \in Extrinsics, waits' = Among(Without(waits, gone), x),
           UNCHANGED <<runtimeVars, valid, untagged>>
    PROVE  WaitsOK' /\ StillToHear'
<1> DEFINE w == Without(waits, gone)
<1>1. DOMAIN w = DOMAIN waits \ gone /\ \A y \in DOMAIN w : w[y] = waits[y]
  BY DEF Without
<1> HIDE DEF w
<1>2. /\ DOMAIN waits' = DOMAIN w \cup {x} /\ waits'[x] = Requires(x)
      /\ \A y \in DOMAIN w \ {x} : waits'[y] = w[y]
  BY DEF Among, w
<1>3. IsFiniteSet(DOMAIN waits')
  <2>1. IsFiniteSet(DOMAIN w)
    BY <1>1, FS_Subset DEF WaitsOK
  <2> QED
    BY <1>2, <2>1, FS_AddElement
<1>4. IsSpend(x) => waits'[x] \subseteq Outpoints(x.tx) /\ waits'[x] \cap DOMAIN utxoStore = {}
  BY <1>2 DEF Requires, Missing
<1>5. UNCHANGED <<utxoStore, phase, body>>
  BY DEF runtimeVars, chainVars
<1>6. WaitsOK'
  BY <1>1, <1>2, <1>3, <1>4 DEF WaitsOK
<1>7. StillToHear'
  BY <1>1, <1>2, <1>4, <1>5 DEF StillToHear
<1> QED
  BY <1>6, <1>7

LEMMA WithoutStep ==
    ASSUME WaitsOK, StillToHear, NEW gone, waits' = Without(waits, gone),
           UNCHANGED <<runtimeVars, valid, untagged>>
    PROVE  WaitsOK' /\ StillToHear'
<1>1. DOMAIN waits' = DOMAIN waits \ gone /\ \A y \in DOMAIN waits' : waits'[y] = waits[y]
  BY DEF Without
<1>2. IsFiniteSet(DOMAIN waits')
  BY <1>1, FS_Subset DEF WaitsOK
<1>3. UNCHANGED <<utxoStore, phase, body>>
  BY DEF runtimeVars, chainVars
<1> QED
  BY <1>1, <1>2, <1>3 DEF WaitsOK, StillToHear

LEMMA SubmitStep ==
    ASSUME PoolInv, NEW x \in Extrinsics, Submit(x) \/ Revalidate(x)
    PROVE  WaitsOK' /\ StillToHear'
<1>1. phase = "idle" /\ UNCHANGED <<runtimeVars, valid, untagged>> /\ WaitsOK /\ StillToHear
  BY DEF Submit, Revalidate, PoolInv
<1>2. CASE Submit(x)
  BY <1>1, <1>2, AmongStep DEF Submit
<1>3. CASE Revalidate(x)
  <2>1. CASE ValidExtrinsic(x)
    <3>1. waits' = Among(waits, x)
      BY <1>3, <2>1 DEF Revalidate
    <3>2. waits' = Among(Without(waits, {}), x)
      BY <3>1 DEF Among, Without
    <3> QED
      BY <1>1, <3>2, AmongStep
  <2>2. CASE ~ValidExtrinsic(x)
    BY <1>1, <1>3, <2>2, WithoutStep DEF Revalidate
  <2> QED
    BY <2>1, <2>2
<1> QED
  BY <1>2, <1>3

(* A call of the open block that makes outputs is a spend of the block: one  *)
(* inside a sudo call, which has no tags for them, or one that the pool will *)
(* hear of, since it was not refused at the parent.                          *)
LEMMA DispatchHeard ==
    ASSUME PoolInv, InBlock, Dispatch
    PROVE  StillToHear'
<1>1. /\ phase = "open" /\ phase' = phase /\ body' = body /\ UNCHANGED <<waits, valid>>
      /\ untagged \subseteq untagged'
      /\ executing.sudo => Arrived \subseteq untagged'
  <2>1. phase = "open"
    BY DEF PoolInv, BodyOK, Dispatch
  <2>2. phase' = phase
    BY DEF Dispatch, SpendCall, ApplySpend, TransferCall, SetRewardCall, SetDifficultyCall,
           SomethingCall, chainVars
  <2>3. executing # NoExtrinsic /\ executing' = NoExtrinsic
    BY DEF Dispatch
  <2>4. untagged' = IF executing.sudo THEN untagged \cup Arrived ELSE untagged
    <3>1. CASE Dispatch /\ untagged' = IF executing.sudo THEN untagged \cup Arrived ELSE untagged
      BY <3>1
    <3>2. ASSUME NEW x \in Extrinsics, PreDispatch(x) PROVE FALSE
      BY <2>3, <3>2 DEF PreDispatch
    <3> QED
      BY <3>1, <3>2 DEF InBlock
  <2> QED
    BY <2>1, <2>2, <2>4 DEF Dispatch, InBlock
<1>2. CASE utxoStore' = utxoStore
  BY <1>1, <1>2 DEF PoolInv, StillToHear
<1>3. CASE utxoStore' # utxoStore
  <2> DEFINE tx == executing.tx
  <2>1. /\ executing \in Extrinsics /\ executing \in body /\ executing.call = "spend"
        /\ tx \in Transactions /\ ApplySpend(tx)
    BY <1>3, DispatchedSpend DEF PoolInv
  <2>2. /\ ValidateTransaction(tx) /\ Missing(tx) = {}
        /\ DOMAIN utxoStore' = (DOMAIN utxoStore \ Outpoints(tx)) \cup OutputKeys(tx)
    BY <2>1, SpendEffect DEF ApplySpend, Spend, PoolInv, IInv, TypeOK
  <2>3. ~Doomed(tx)
    BY <2>1, <2>2, ReadyInputs DEF Doomed, PoolInv, IInv, SpentStaysSpent
  <2>4. executing.sudo \in BOOLEAN
    BY <2>1, RuntimeAssumption DEF Extrinsic
  <2>5. ASSUME ~executing.sudo PROVE executing \in body \cap valid /\ IsSpend(executing)
    BY <1>1, <2>1, <2>3, <2>5 DEF IsSpend, PoolInv, RefusedAreDoomed
  <2>6. ASSUME NEW x \in DOMAIN waits, IsSpend(x),
               NEW t \in (waits[x] \ untagged') \cap DOMAIN utxoStore'
        PROVE  \E z \in body \cap valid : IsSpend(z) /\ t \in OutputKeys(z.tx)
    <3>1. CASE t \notin DOMAIN utxoStore
      BY <1>1, <2>2, <2>4, <2>5, <2>6, <3>1 DEF Arrived
    <3>2. CASE t \in DOMAIN utxoStore
      BY <1>1, <2>6, <3>2 DEF PoolInv, StillToHear
    <3> QED
      BY <3>1, <3>2
  <2> QED
    BY <1>1, <2>6 DEF StillToHear
<1> QED
  BY <1>2, <1>3

(* What the block has made is told to the pool when it is imported; its      *)
(* payout comes without a tag.                                               *)
LEMMA EndHeard ==
    ASSUME PoolInv, EndBlock
    PROVE  WaitsOK' /\ StillToHear'
<1> DEFINE tags == UNION {Provides(x) : x \in body \cap (DOMAIN waits \cup valid)}
           pruned == {x \in ReadyAmong(waits) : Provides(x) \cap tags # {}}
<1>1. /\ DOMAIN waits' = DOMAIN waits \ pruned
      /\ \A x \in DOMAIN waits' : waits'[x] = waits[x] \ tags
  BY DEF EndBlock
<1>2. FinalizeBlock /\ phase = "open" /\ WaitsOK /\ StillToHear /\ IInv
  BY DEF EndBlock, End, FinalizeBlock, PoolInv
<1> HIDE DEF pruned
<1>3. WaitsOK'
  <2>1. IsFiniteSet(DOMAIN waits')
    BY <1>1, <1>2, FS_Subset DEF WaitsOK
  <2> QED
    BY <1>1, <1>2, <2>1 DEF WaitsOK
<1>4. DOMAIN utxoStore' \ untagged' \subseteq DOMAIN utxoStore \ untagged
  BY DEF EndBlock, Arrived
<1>5. ASSUME NEW x \in DOMAIN waits', IsSpend(x),
             NEW t \in (waits'[x] \ untagged') \cap DOMAIN utxoStore'
      PROVE  FALSE
  <2>1. t \in (waits[x] \ untagged) \cap DOMAIN utxoStore /\ t \notin tags
    BY <1>1, <1>4, <1>5
  <2>2. PICK z \in body \cap valid : IsSpend(z) /\ t \in OutputKeys(z.tx)
    BY <1>1, <1>2, <1>5, <2>1 DEF StillToHear
  <2>3. t \in Provides(z)
    BY <2>2 DEF Provides
  <2> QED
    BY <2>1, <2>2, <2>3
<1>6. StillToHear'
  BY <1>5 DEF StillToHear
<1> QED
  BY <1>3, <1>6

LEMMA PoolWaits ==
    ASSUME PoolInv, [PoolNext]_<<runtimeVars, poolVars>>
    PROVE  WaitsOK' /\ StillToHear'
<1>1. CASE \E x \in Extrinsics : Submit(x) \/ Revalidate(x)
  BY <1>1, SubmitStep
<1>2. CASE \E digests \in HeaderDigests : BeginBlock(digests)
  BY <1>2 DEF BeginBlock, Begin, InitializeBlock, PoolInv, WaitsOK, StillToHear
<1>3. CASE InBlock
  <2>1. WaitsOK'
    BY <1>3 DEF InBlock, PoolInv, WaitsOK
  <2>2. CASE (\E x \in Extrinsics : PreDispatch(x)) /\ untagged' = untagged
    BY <1>3, <2>1, <2>2 DEF InBlock, PreDispatch, chainVars, PoolInv, StillToHear
  <2>3. CASE Dispatch
    BY <1>3, <2>1, <2>3, DispatchHeard
  <2> QED
    BY <1>3, <2>1, <2>2, <2>3 DEF InBlock
<1>4. CASE EndBlock
  BY <1>4, EndHeard
<1>5. CASE UNCHANGED <<runtimeVars, poolVars>>
  BY <1>5 DEF runtimeVars, chainVars, poolVars, PoolInv, WaitsOK, StillToHear
<1> QED
  BY <1>1, <1>2, <1>3, <1>4, <1>5 DEF PoolNext

LEMMA PoolRefusals ==
    ASSUME PoolInv, [PoolNext]_<<runtimeVars, poolVars>>
    PROVE  RefusedAreDoomed'
<1>1. [Next]_chainVars
  BY BaseStep
<1>2. CASE \E digests \in HeaderDigests : BeginBlock(digests)
  <2>1. valid' = {x \in Extrinsics : ValidExtrinsic(x)} /\ UNCHANGED <<utxoStore, log>>
    BY <1>2 DEF BeginBlock, Begin, InitializeBlock
  <2>2. ASSUME NEW x \in Extrinsics \ valid', IsSpend(x) PROVE Doomed(x.tx)'
    <3>1. ~ValidateTransaction(x.tx) /\ x.tx \in Transactions
      BY <2>1, <2>2, SpendsHaveTransactions DEF ValidExtrinsic, IsSpend
    <3> QED
      BY <1>1, <3>1, DoomStep DEF Doomed, PoolInv
  <2> QED
    BY <2>2 DEF RefusedAreDoomed
<1>3. CASE phase' = "open" /\ phase = "open" /\ valid' = valid
  <2>1. ASSUME NEW x \in Extrinsics \ valid, IsSpend(x) PROVE Doomed(x.tx)'
    <3>1. Doomed(x.tx) /\ x.tx \in Transactions
      BY <1>3, <2>1, SpendsHaveTransactions DEF PoolInv, RefusedAreDoomed, IsSpend
    <3> QED
      BY <1>1, <3>1, DoomStep DEF PoolInv
  <2> QED
    BY <1>3, <2>1 DEF RefusedAreDoomed
<1>4. CASE phase' # "open"
  BY <1>4 DEF RefusedAreDoomed
<1>5. ASSUME InBlock PROVE phase = "open" /\ valid' = valid
  BY <1>5 DEF InBlock, PreDispatch, Dispatch, PoolInv, BodyOK
<1>6. ASSUME EndBlock PROVE phase' # "open"
  BY <1>6 DEF EndBlock, End, FinalizeBlock
<1>7. ASSUME NEW x \in Extrinsics, Submit(x) \/ Revalidate(x) PROVE phase' # "open"
  BY <1>7 DEF Submit, Revalidate, runtimeVars, chainVars
<1>8. CASE UNCHANGED <<runtimeVars, poolVars>>
  BY <1>3, <1>4, <1>8 DEF runtimeVars, chainVars, poolVars
<1> QED
  BY <1>2, <1>3, <1>4, <1>5, <1>6, <1>7, <1>8 DEF PoolNext

LEMMA PoolInvariance == PoolSpec => []PoolInv
<1>1. PoolInv /\ [PoolNext]_<<runtimeVars, poolVars>> => PoolInv'
  BY BaseStep, PoolWaits, PoolRefusals DEF PoolInv
<1> QED
  BY <1>1, PoolInit1, PTL DEF PoolSpec

-----------------------------------------------------------------------------
(* Which extrinsics are ready: the rounds of ReadyAmong.                     *)
Woken(w, ready) == {x \in DOMAIN w : w[x] \subseteq UNION {Provides(y) : y \in ready}}

IsRounds(w, g) == g = [n \in Nat |-> IF n = 0 THEN {} ELSE Woken(w, g[n - 1])]

LEMMA ReadyRounds ==
    ASSUME NEW w
    PROVE  \E g \in [Nat -> SUBSET DOMAIN w] :
              /\ g[0] = {} /\ \A n \in Nat : g[n + 1] = Woken(w, g[n])
              /\ ReadyAmong(w) = g[Cardinality(DOMAIN w)]
<1> DEFINE A == SUBSET DOMAIN w
           step == [n \in Nat |-> [r \in A |-> Woken(w, r)]]
<1>1. {} \in A /\ \A r \in A : Woken(w, r) \in A
  BY DEF Woken
<1> HIDE DEF A
<1>2. step \in [Nat -> [A -> A]]
  BY <1>1
<1>3. PICK g \in [Nat -> A] : g = [n \in Nat |-> IF n = 0 THEN {} ELSE step[n][g[n - 1]]]
  <2> DEFINE a == {}
  <2>1. a \in A
    BY <1>1
  <2> HIDE DEF a, step
  <2>2. \E g \in [Nat -> A] : g = [n \in Nat |-> IF n = 0 THEN a ELSE step[n][g[n - 1]]]
    BY <1>2, <2>1, RecursionExists
  <2> QED
    BY <2>2 DEF a
<1>4. IsRounds(w, g)
  <2>1. ASSUME NEW n \in Nat PROVE g[n] = IF n = 0 THEN {} ELSE Woken(w, g[n - 1])
    <3>1. CASE n = 0
      BY <1>3, <3>1
    <3>2. CASE n # 0
      <4>1. n - 1 \in Nat /\ g[n - 1] \in A
        BY <1>3, <3>2
      <4> QED
        BY <1>3, <3>2, <4>1
    <3> QED
      BY <3>1, <3>2
  <2>2. g = [n \in Nat |-> g[n]]
    BY <1>3
  <2> QED
    BY <2>1, <2>2 DEF IsRounds
<1> DEFINE round == CHOOSE f : IsRounds(w, f)
<1>5. ReadyAmong(w) = round[Cardinality(DOMAIN w)]
  BY DEF ReadyAmong, IsRounds, Woken
<1>6. IsRounds(w, round)
  BY <1>4
<1> HIDE DEF round
<1>7. round[0] = {} /\ \A n \in Nat : round[n + 1] = Woken(w, round[n])
  <2>1. round[0] = {}
    BY <1>6 DEF IsRounds
  <2>2. ASSUME NEW n \in Nat PROVE round[n + 1] = Woken(w, round[n])
    <3>1. n + 1 \in Nat /\ n + 1 # 0 /\ (n + 1) - 1 = n
      OBVIOUS
    <3> QED
      BY <1>6, <3>1 DEF IsRounds
  <2> QED
    BY <2>1, <2>2
<1>8. round \in [Nat -> A]
  <2>1. ASSUME NEW n \in Nat PROVE round[n] \in A
    <3>1. CASE n = 0
      BY <1>1, <1>7, <3>1
    <3>2. CASE n # 0
      <4>1. n - 1 \in Nat /\ (n - 1) + 1 = n
        BY <3>2
      <4>2. round[n] = Woken(w, round[n - 1])
        BY <1>7, <4>1
      <4> QED
        BY <4>2 DEF Woken, A
    <3> QED
      BY <3>1, <3>2
  <2>2. round = [n \in Nat |-> round[n]]
    BY <1>6 DEF IsRounds
  <2> QED
    BY <2>1, <2>2
<1> QED
  BY <1>5, <1>7, <1>8 DEF A

(* As many rounds as there are extrinsics are enough: nothing is woken that  *)
(* is not ready, and what is ready stands on what is ready.                  *)
LEMMA ReadyIsClosed ==
    ASSUME NEW w, IsFiniteSet(DOMAIN w)
    PROVE  ReadyAmong(w) = Woken(w, ReadyAmong(w))
<1> PICK g \in [Nat -> SUBSET DOMAIN w] :
       /\ g[0] = {} /\ \A n \in Nat : g[n + 1] = Woken(w, g[n])
       /\ ReadyAmong(w) = g[Cardinality(DOMAIN w)]
  BY ReadyRounds
<1> DEFINE size == Cardinality(DOMAIN w)
           Settled(n) == g[n + 1] = g[n]
           H == {n \in Nat : g[n] \subseteq g[n + 1]}
           J == {n \in Nat : Settled(n) \/ Cardinality(g[n]) >= n}
<1>1. /\ size \in Nat
      /\ \A n \in Nat : /\ n + 1 \in Nat /\ g[n] \subseteq DOMAIN w
                        /\ IsFiniteSet(g[n]) /\ Cardinality(g[n]) \in Nat
                        /\ Cardinality(g[n]) <= size
  <2>1. size \in Nat
    BY FS_CardinalityType
  <2>2. ASSUME NEW n \in Nat
        PROVE  /\ n + 1 \in Nat /\ g[n] \subseteq DOMAIN w
               /\ IsFiniteSet(g[n]) /\ Cardinality(g[n]) \in Nat /\ Cardinality(g[n]) <= size
    <3>1. g[n] \in SUBSET DOMAIN w
      OBVIOUS
    <3>2. IsFiniteSet(g[n]) /\ Cardinality(g[n]) <= Cardinality(DOMAIN w)
      BY <3>1, FS_Subset
    <3>3. Cardinality(g[n]) \in Nat
      BY <3>2, FS_CardinalityType
    <3> QED
      BY <3>1, <3>2, <3>3
  <2> QED
    BY <2>1, <2>2
<1>2. Nat \subseteq H
  <2>1. 0 \in H
    OBVIOUS
  <2>2. ASSUME NEW n \in Nat, n \in H PROVE n + 1 \in H
    <3>1. g[n] \subseteq g[n + 1] /\ n + 1 \in Nat
      BY <2>2
    <3>2. g[n + 1] = Woken(w, g[n]) /\ g[(n + 1) + 1] = Woken(w, g[n + 1])
      BY <3>1
    <3> QED
      BY <3>1, <3>2 DEF Woken
  <2> HIDE DEF H
  <2> QED
    BY <2>1, <2>2, NatSetInduction
<1>3. Nat \subseteq J
  <2>1. 0 \in J
    BY <1>1
  <2>2. ASSUME NEW n \in Nat, n \in J PROVE n + 1 \in J
    <3>1. n + 1 \in Nat /\ g[n + 1] = Woken(w, g[n]) /\ g[(n + 1) + 1] = Woken(w, g[n + 1])
      OBVIOUS
    <3>2. CASE Settled(n)
      BY <3>1, <3>2
    <3>3. CASE ~Settled(n)
      <4>1. Cardinality(g[n]) >= n /\ g[n] \subseteq g[n + 1] /\ g[n] # g[n + 1]
        BY <1>2, <2>2, <3>3
      <4>2. Cardinality(g[n]) < Cardinality(g[n + 1])
        <5>1. /\ Cardinality(g[n]) <= Cardinality(g[n + 1])
              /\ Cardinality(g[n]) = Cardinality(g[n + 1]) => g[n] = g[n + 1]
          <6>1. IsFiniteSet(g[n + 1]) /\ g[n] \in SUBSET g[n + 1]
            BY <1>1, <3>1, <4>1
          <6> QED
            BY <6>1, FS_Subset
        <5>2. Cardinality(g[n]) \in Nat /\ Cardinality(g[n + 1]) \in Nat
          BY <1>1, <3>1
        <5> QED
          BY <4>1, <5>1, <5>2
      <4> QED
        BY <1>1, <3>1, <4>1, <4>2
    <3> QED
      BY <3>2, <3>3
  <2> HIDE DEF J
  <2> QED
    BY <2>1, <2>2, NatSetInduction
<1>4. Settled(size)
  <2>1. SUFFICES ASSUME ~Settled(size) PROVE FALSE
    OBVIOUS
  <2>2. Cardinality(g[size]) = size
    BY <1>1, <1>3, <2>1
  <2>3. g[size] = DOMAIN w
    BY <1>1, <2>2, FS_Subset
  <2>4. g[size] \subseteq g[size + 1] /\ g[size + 1] \subseteq DOMAIN w
    BY <1>1, <1>2
  <2> QED
    BY <2>1, <2>3, <2>4
<1> QED
  BY <1>1, <1>4

(* No spend is forgotten: when all that it needs is in the store, and what   *)
(* it waits for did not come there without a tag, it waits for nothing and   *)
(* may be built into the next block, although nobody validates it again.     *)
THEOREM PoolForgetsNothing == PoolSpec => []NothingForgotten
<1>1. PoolInv => NothingForgotten
  <2> SUFFICES ASSUME PoolInv, phase = "idle", NEW x \in DOMAIN waits, IsSpend(x),
                      Missing(x.tx) = {}, waits[x] \cap untagged = {}
               PROVE  x \in ReadyAmong(waits)
    BY DEF NothingForgotten
  <2>1. waits[x] \subseteq DOMAIN utxoStore
    BY DEF PoolInv, WaitsOK, Missing
  <2>2. waits[x] = {}
    BY <2>1 DEF PoolInv, StillToHear
  <2>3. ReadyAmong(waits) = Woken(waits, ReadyAmong(waits))
    BY ReadyIsClosed DEF PoolInv, WaitsOK
  <2> QED
    BY <2>2, <2>3 DEF Woken
<1> QED
  BY <1>1, PoolInvariance, PTL

==============================================================================
