# POW-EVM: models and proofs

POW-EVM is a Substrate chain with SHA-3 proof of work, block rewards, a UTXO
ledger and the Frontier EVM. This directory holds TLA+ models of its node and
runtime, TLC configurations that check them on small instances, and TLAPS
proofs about them. Paths below are relative to `src/`.

## Inventory

| Component | State | Operations | Works with |
|---|---|---|---|
| UTXO ledger, `runtime/src/utxo.rs` | `UtxoStore`, `RewardTotal` | genesis build, `validate_transaction`, `spend`, `on_finalize` | asks block author for a key and issuance for a value; the pool and dispatch share the validation |
| block author, `runtime/src/block_author.rs` | `Author` | `on_initialize`, `set_author`, `block_author` | written by an inherent, read by the UTXO ledger |
| issuance, `runtime/src/issuance.rs` | none | `issuance(block)` | read by the UTXO ledger |
| SHA-3 proof of work, `node/sha3pow/src/lib.rs` | none | `compute`, `verify`, `hash_meets_difficulty`, `break_tie`, `difficulty` | used by block import and miner; asks the runtime for the difficulty |
| difficulty pallet, `pallets/difficulty/src/lib.rs` | `Difficulty` | genesis build, `set_difficulty` | read through `DifficultyApi` |
| block import and fork choice, `node/src/service.rs` around `sc_consensus_pow` | blocks, `PowAux`, best block | import: verify, compare, commit | fed by the import queue and by the miner; read by the authoring task |
| miner, `node/src/service.rs` | the slot of the mining worker, the thread's nonce | authoring task, mining thread, `submit` | wakes on imports; hands its blocks to the block import |
| rewards pallet, `pallets/rewards/src/lib.rs` | `Reward` | genesis build, `set_reward`, `find_author`, `note_author` | called by `pallet_authorship`, deposits with `pallet_balances` |
| transaction pool and block building, `runtime/src/lib.rs`, `node/src/service.rs` | ready and waiting extrinsics | `validate_transaction`, submission, revalidation, pruning by blocks | asks the runtime for a verdict, is told of every block |
| node startup and keys, `node/src/{main,cli,command,service}.rs` | databases, Frontier's mapping, keystore; how far the process is | subcommands, `new_partial`, `decode_author`, `new_full` | builds the import and the miner |
| timestamps, `node/src/service.rs`, `runtime/src/lib.rs` | `pallet_timestamp::Now`, the clocks of nodes | inherent of a template, check of an import | between miner, import and runtime |
| chain specification, `node/src/chain_spec.rs` | genesis values | `testnet_genesis` | initial state of the pallets |
| runtime composition, `runtime/src/lib.rs` | none of its own | hooks in the order of `construct_runtime!`; nonce, fee, origin and dispatch of an extrinsic | drives every pallet |
| template pallet, `pallets/template/src/lib.rs` | `Something` | `do_something`, `cause_error` | dispatched by the runtime |
| EVM and contracts, RPC, benchmarking | see `PROJECT.json` | external pallets, wiring | - |

What is hard in each, and the properties that make it correct:

| Component | Hard behaviour | Properties |
|---|---|---|
| UTXO ledger | no nonces: replay and double spends are stopped by the store alone; inserts are unconditional; a verdict outlives the state it was computed in; sums, fees and payouts at the width of their integers | `NoDoubleSpend`, `SpentStaysSpent`, `NothingVanishes`, `OutputsImmutable`, `ValidityIsStable`, `BooksBalance`, `ImplementsLifecycle`, `OnlyIssuanceAddsValue`, `PotDispersed` |
| block author | an author left over from an earlier block | `AuthorIsCurrent` |
| issuance | the first block of each halving; the width of the shift | `MatchesSchedule`, `ZeroWhenShiftUndefined` |
| proof of work, difficulty | the target is an overflow test; difficulties 0 and 1, whenever root sets them | `TargetIsQuotient`, `HarderIsHarder` (proved only) |
| block import | any order of arrival; ties; saturated totals; two importers that compared with one best block | `BestIsHeaviest`, `SameBlocksSameBest`, `Convergence`, `TiesAreBroken` |
| miner | template replaced between verification and taking; templates of an old best block; empty slot; nonce wrap | `OnlyOutdatedWorkIsLost`, `WorkCounts`, `CurrentTemplateStays`, `StaleWorkEnds`, `ChainGrows` |
| rewards | deposits that are silently nothing; reward changes; dust and reaped accounts; a total issuance that saturates | `IssuanceFollowsSupply`, `OneRewardPerBlock`, `AnnouncedIsPaid` |
| runtime | one call of several pallets fails after its fee and nonce are taken; a spend comes unsigned, signed or by sudo; a nonce is forgotten with its account | `NoReplay`, `IssuanceFollowsSupply`, `RuntimeTypeOK` |
| pool | a waiting extrinsic is never validated again: only tags wake it | `NothingForgotten` |
| timestamps | seals found faster than time passes; clocks that differ; blocks refused now and fine later | `NotAheadOfClock`, `RateIsBounded`, `GrowsWithTime` |
| startup | the process ends at any step; what a purge takes and leaves; a base path that goes with the process; a late error of the author argument; a mapping filled from behind, from tips that are kept on disk | `KeysSurvive`, `MappingOfOwnChain`, `MappingCatchesUp`, `StartupSettles` |

## Modules

Definitions keep the source's names where there is one; `map` in `PROJECT.json`
gives the lines of each. A failing call writes nothing before its error and so
is a step that changes nothing. Each checked property has a mutant, an operator
named for a plausible bug and marked `Mutant:` in a comment, under which TLC
finds the property violated.

**`Utxo`, `BlockAuthor`, `UtxoChain`.** `Utxo` holds the store, the pot and
the pallet's operations: `ValidateTransaction` is the pool's verdict and the
first half of `Spend`, `UpdateStorage` removes the inputs and inserts the
outputs, `DisperseReward` pays the pot and the issuance to the author under a
fresh key. `BlockAuthor` is the `Author` item, its hook and its inherent.
`UtxoChain` runs both as a block does: `InitializeBlock` (the hooks), any
number of `ApplySetAuthor` and `ApplySpend`, `FinalizeBlock`. `log` (dispatched
transactions) and `authorSetAt` are history. Hashes, signatures, transactions
and issuance are constants. The three kinds of preimages are assumed collision
free (`CollisionFree`). `InherentAuthors` is the set of keys blocks may name: it is
nonempty to exercise the pallet as written, and empty in `utxo_pot`, as
the node provides no author inherent.

**`OutpointLifecycle`** is the promise of a ledger in its own terms, sets of
unspent and spent outpoints and whether a block is open: a transfer consumes at
least one unspent outpoint and creates at least one that is fresh; closing a
block mints at most one. `UtxoChain` implements it with `unspent` the domain
of the store and `spent` the outpoints consumed in `log`.

**`UtxoAudit`** extends the chain with books: what was issued, what was cut by
`reward as u64` or by a payout that wrapped, what was counted twice.
**`UtxoCatalogue`** is the set of transactions of the runs: conflicting, chained,
re-signed and reward-spending ones, and one for each error of
`validate_transaction`. **`MCUtxoChain`** joins the two.

**`Issuance`, `IssuanceSchedule`.** `BitcoinHalving` with the shift of a `u32` as a
release build executes it (the count modulo 32), and a chain that mints block by
block against the schedule the comments state.

**`Sha3Pow`, `Difficulty`.** The target test, seals, verification and the tie break,
over a bounded `U256`. `Decode` is a parameter, and may map several byte
strings to one seal: `Seal::decode` ignores trailing bytes. `Difficulty` is the
pallet's one item and the set of hashes each value lets through; `Runtime` drives it.

**`ForkChoice`.** A node imports a block in two steps. `BeginImport` is
`PowBlockImport`: the block is new, its parent is there, the seal verifies, and its
total difficulty is compared with the best block. `CommitImport` is the client,
which writes the block, its total and, if the comparison was won, the best block.
The import lock covers the second step only, and a node has several importers:
the import queue and the mining worker hold clones of one block import. A tie
with genesis, which has no seal, is an error: a chain whose genesis difficulty
is 0 never starts. `FrontierBlockImport` is built by the node but is not in the path of an
import.

**`Mining`.** The authoring task (`Wake`, `OnBuild`, `ProposingFails`), the slot
it shares with the mining thread (`build`), and the thread's loop, one action
per access to the slot or to the client: `ReadMetadata`, `TryNonce`,
`SubmitVerify`, `TakeBuild`, `ImportOwn`. `NetworkImport` and `SyncChanges` are
the environment. Between any two steps the slot may be refilled or cleared, so the seal that was
verified for one template may be put on another. `OnlyOutdatedWorkIsLost` is about this window: outside a major sync
it costs only work on a template that a new best block had outdated. As in
the code, the nonce restarts at 0 after a hit and not with a new template, and
`U256::MAX` is never tried.

**`Rewards`.** `NextBlock` is the start of a block, where `pallet_authorship` finds the
first pre-runtime digest that decodes and `note_author` deposits the reward;
`SetReward` is root's call; `Transfer` is the part of `pallet_balances` that opens
and reaps accounts and burns dust. `announced` is the account that the event
names. The total issuance saturates as the imbalances of `pallet_balances` do when they are
dropped (`Issued`, `Burnt`). That matters: the genesis of the chain specification
gives `u128::MAX` to one account of the EVM, so the real issuance starts at its
top, below what the accounts hold.

**`ChainSpec`.** The two configurations, `load_spec`, and the part of
`testnet_genesis` that the modules are about. `Node` takes the chain ids from it
and `MCTxPool` its genesis.

**`Runtime`** extends `UtxoChain` with instances of `Rewards` and `Difficulty` and the
template pallet's item. A block is `Begin` (the hooks of `construct_runtime!`, in its order),
any number of extrinsics, `End`. An extrinsic is two steps, for the UTXO ledger sees them apart:
`PreDispatch` is `SignedExtra` (nonce, fee) and `Dispatch` the call with the
origin its signature gives, or nothing if the call fails. `executing` is the
extrinsic between the two. A call of the sudo key is charged nothing. A transfer
that reaps an account resets its nonce. Not every block is importable: `Importable` keeps
unsigned `set_author` out, because `is_inherent` of the block author is a `todo!()`.
`body` holds the extrinsics of the block and `since` those a living account has signed (history).

**`TxPool`** extends `Runtime` with the pool, a function from extrinsics to the
tags they wait for. `ValidExtrinsic`, `Requires` and `Provides` are the verdict of
`validate_transaction`: for a spend the UTXO ledger's alone, without a look at signature, nonce
or fee; for others a nonce tag. `Submit`, `Revalidate` and `EndBlock` stand for the external pool.
A spend inside a sudo call has the nonce tag of its signer and none for its outputs, and a payout has no
tag at all: `untagged` (history) holds the outpoints that came into the store in one of these ways, of which nobody tells the pool.
Blocks are built of any extrinsics, of the pool or not, so a block of another miner is covered.

**`Node`.** Processes one after the other on one disk. `Start` takes any subcommand and one of the
configurations of `CommandLine`; the steps of `new_partial` and `new_full` follow in the code's
order, each with its early return, and `Die` may come between any two. Mining begins with
`StartMiningWorker`, before the network is started, as in the code. The keystore
is on disk or in memory (`keystore_path`). A base path may be temporary (`tmp`), as that of `--dev`
is without a path (`README.md:52-60,76-90`): what is under it goes with the process (`Discard`), the keystore
and the mining key included. `KeysSurvive` exempts the rewards of such a process, and of a keystore without a path; the log of
`decode_author` warns of the second and not of the first, where `keystore.path()` is there and is printed as the place to find the
seed phrase. A keystore that an operator puts outside of a temporary base path is exempted with it.

`MapBlock` is a round of Frontier's mapping worker, which is external like the store it works on. It keeps the tips that it has still to
map in Frontier's database (`tips`), goes from each down to what is mapped, and takes the leaves of the chain's database when it has
none left. It fails on a tip without a header. `purge-chain` leaves Frontier's database where it is, so a node that was killed
while it caught up, purged and started again maps nothing until its old tip is imported again (`HeaderMissing`). A process that ends between the two
writes of a round (`DieMapping`) leaves a tip that is mapped over a parent that is not: what is below is never mapped (`torn`).
`MappingCatchesUp` excepts exactly these two. `stored`, `torn` and `rewarded` are history.

**`Clock`.** One chain of timestamps, of which each node has a prefix, and a clock for each node.
`InherentTime` is `create_inherent` of the timestamp; `CheckInherents` the check of the import,
which a node's own blocks pass through as well; a template that fails it is lost and built again.

The code of `sc_consensus_pow`, the client, `pallet_authorship` and
`pallet_balances` is not in the repository: the definitions that stand for it
follow from how `service.rs` and the pallets use it, and are marked external in
`map`.

## Runs

Run with `tlc -config <name>.cfg <module>`.

| Run | Module | Shows | Bounds |
|---|---|---|---|
| `utxo_chain` | `MCUtxoChain` | over all interleavings of the catalogue, every property of the UTXO ledger and the block author, and the refinement | 3 blocks, 2 keys, 26 transactions, values up to 6, priorities modulo 5 |
| `utxo_doubled` | `MCUtxoChain` | violation of `OnlyIssuanceAddsValue` | the same |
| `utxo_pot` | `MCUtxoChain` | violation of `PotDispersed` | the same, no author inherent |
| `issuance` | `IssuanceSchedule` | the schedule holds block by block up to the 31st halving | interval 5, 159 blocks |
| `issuance_wraps` | `IssuanceSchedule` | violation of `ZeroWhenShiftUndefined` | 330 blocks |
| `fork_choice` | `MCForkChoice` | nodes with one importer each choose the heaviest block and agree in the end | 2 nodes, 11 blocks in every order |
| `fork_race` | `MCForkChoice` | violation of `TiesAreBroken` | 1 node, 2 importers |
| `mining` | `MCMining` | safety and progress of the miner | 3 best blocks, 3 contents, hashes of 3 bits |
| `rewards_unpaid` | `MCRewards` | violation of `AnnouncedIsPaid` | 4 blocks, 3 accounts, balances up to 12 |
| `runtime` | `MCTxPool` | replay, rewards, issuance, the target at the difficulties root sets; the pool's wake-ups | 2 blocks of up to 2 of 13 extrinsics, 2 in the pool, 7 accounts |
| `node` | `MCNode` | disk and startup through crashes, purges and restarts | 3 processes, 2 chains, 4 blocks, 10 configurations |
| `clock` | `Clock` | how timestamps bound the rate of blocks, and let a chain go on | 2 nodes, 5 blocks, clocks from 1 to 9 |

Why these bounds are enough:

- *UTXO*. Three blocks let a reward of block 1 be spent in block 2 and a later block
  pay a reward with the same value. Values up to 6 over genesis outputs of 3
  reach the overflow of a `checked_add` and a payout that wraps; priorities modulo 5 let a fee
  of 5 be cut, as one of 2^64 or more is. The halving interval is two blocks, so the issuance
  changes on the way.
- *Issuance*. The code computes with `block / HALVING_INTERVAL` only; an interval of
  5 has its first, last and inner blocks. `issuance` stops before the halving where the shift
  count leaves its width, `issuance_wraps` goes through it.
- *Fork choice*. `MaxU256` is 15. The tree has two branches that tie, totals that saturate
  on both, a block of difficulty 0, a block sealed twice under other bytes and a block
  with another block's work, which must be rejected. Two nodes see every pair of orders.
- *Mining*. Two heads beyond the first allow a template to be outdated while
  another is already outdated. One content is solved early, one after most of the
  nonce range, one by no nonce that is tried.
- *Rewards*. The scale is 1:100. The reward of the chain specification (100) is less than
  the existential deposit (500), so the deposit to a new account is a no-op.
- *Runtime and pool*. The miner has no account, so a reward is dropped, opens an
  account once root has raised it, or goes to one that a transfer opened. A transfer of 5 of 7 leaves
  less than the existential deposit after the fee: the account is reaped, its nonce forgotten,
  and its first extrinsic applied again. Spends come unsigned, signed and inside a sudo call, in conflict and in a chain; calls fail
  for their origin, their key, their nonce and their operands. The issuance starts at its top and comes off
  it with the first fee. Five bits of difficulty hold products on both sides of the bound, at
  the difficulties 10, 1 and 0 that come about; at 1 the hash 31 gives exactly the largest product. A call that would set 3 is
not by the sudo key and fails.
- *Node*. Three processes are a run, a purge or import of its chain, and a run again, or two
  chains in turn. One of the chains branches, so the worker has more than one tip, and a branch is left to map when another
is. The configurations (`MCCommandLine`) have every form of author on a kept disk, a keystore in memory and a remote one, and the temporary base path.
One generated key and one of the operator suffice, since keys are only compared.
- *Clock*. A minimum period of 2, a drift of 3 and a skew of 2: five blocks can push
  the chain beyond every clock at once, and beyond the slower one alone.

`CHECK_DEADLOCK FALSE` is set where a bounded chain ends (`utxo_*`, `issuance*`,
`rewards_unpaid`, `runtime`, `clock`), the last process has ended (`node`) or every block has been
imported (`fork_*`). The miner's run checks for
deadlock.

### Fairness

- `ForkChoice`: `BeginImport` is weakly fair for every block and importer, `CommitImport`
  for every importer: the sync protocol offers each block until it is in the chain,
  and an import that has begun is a future that the import queue drives to its end.
  Fairness says nothing of the order. `Convergence` is stated for
  nodes that receive all blocks of the tree.
- `Mining`: `MinerStep` is weakly fair (a thread of its own in an endless loop),
  `Wake` is weakly fair (the task is woken by imports and by a timer of ten
  seconds). `OnBuild` is strongly fair: a proposal may fail or time out any number of times,
  not forever. Nothing is assumed of the network or of syncing. `ChainGrows` has the
  premises that the node eventually stays out of a major sync and has templates
  with a nonce to find.
- `Node`: the main thread (`Startup`) and the mapping worker (`MapBlock`) are weakly fair: threads that
  run, and a worker woken by imports and every six seconds. Starting, mining, the network and death are free;
  `MappingCatchesUp` has the premise that a process stays up. The fairness is of rounds, not of blocks: a round may fail, or go to any tip,
and that every block is reached is the work of the tips (the mutant that forgets a parent stops short).
- `Clock`: time passes (`Tick`), refused blocks are offered again (`ImportBlock`), and every node goes on building
  and sealing, each weakly fair. This is the mining run's `ChainGrows`, assumed here for one node
  at a time.

### Violations

1. `utxo_doubled`: the duplicate check compares whole inputs, outpoint and
   signature. One outpoint under two valid signatures is summed twice and removed once.
2. `issuance_wraps`: the cut-off is 64 halvings, the shifted integer is 32 bits wide.
   At halving 32 the full initial issuance is paid again.
3. `utxo_pot`: no block of this node names an author, so fees are never dispersed.
4. `fork_race`: an import of the queue and one of the miner that compared with the
   same best block both become the best; the last commit wins and the tie is not broken. In the same way a block that won its
   comparison, or its tie, and is committed after a heavier one makes the best block lighter, so `BestIsHeaviest` and what follows from it are
   claimed of one importer at a time only.
5. `rewards_unpaid`: `AuthorRewarded` is emitted although the deposit was a no-op.

## Proofs

`tlapm <module>.tla` checks them: 4498 obligations in eight modules.
Each theorem holds for every value of the constants that meets the named
assumptions next to their declarations. Every safety invariant and every action property
of a passing run is stated by a theorem, and so is `OnlyOutdatedWorkIsLost`.

**`DataLemmas`** is what the others build on, without a variable in it: induction over
numbers and over finite sets with the hypothesis given as a set, which the provers can
instantiate; that a function defined by recursion exists and unfolds (`RecursionExists`),
and likewise a fold over a finite set (`FoldExists`, `FoldsAgree`); the laws of sums
(`SumLaws`, `SumDisjoint`, `SumReindexed`, `SumWithOneChanged`, `SumOverSubset`); and the
arithmetic of quotients.

**`UtxoChainProofs`** (from `SizeAssumption`, `DataAssumption`, `HashesAreOutpoints`,
`CollisionFree`, `KeyAssumption`, `AuthorAssumption`). `NoDoubleSpend` and
`SpentStaysSpent` are not inductive: a state may hold an outpoint that a dispatched
transaction would make again. The invariant `IInv` adds `Provenance` (an outpoint
that is or was in the store comes from genesis, from the reward of a finalized block or
from a dispatched transaction), `Accounted` (what was made is unspent or spent) and
`LogHasInputs`. The argument: a transaction that dispatches has an unspent input;
were it in the log already, that input would be spent; so it is new, and
by `CollisionFree` its outputs are fresh (`FreshOutputs`); a block that is finalized has
not paid before, so its reward is fresh (`FreshReward`). Freshness gives
`NeverSpentTwice`, `NeverRevived`, `NeverOverwritten`, `NeverLost` and, with one
lemma per action, the refinement `ChainRefinesLifecycle`. `ValidityLasts` needs
that a ready transaction depends on the store only through its own inputs and
output keys. Its converse is `RefusedForGood`: what validation refuses now, or what lost an
input, no later block accepts. Nothing that is found leaves the store without being spent, so what is
found can only grow (`FoundStay`), and with it the sum of the inputs. A found input with a bad
signature stays; outputs that are known imply that an input is spent (`KnownOutputs`); a sum that overflows goes on
doing so. `FeesOnlyEnter` is what the run `utxo_pot` shows,
for any chain: under the hypothesis `InherentAuthors = {}`, which is how the node provides its inherents,
the pot never decreases.

**`AuditProofs`** (from the same assumptions). `BooksAlwaysBalance`: `AuditInv` adds that the store is finite,
and the proof follows the sums through a spend (`SpendMovesValue`) and a payout (`FinalizeMovesValue`).
A sum over the store is split into what stays, what leaves and what enters. The inputs are summed by
position and leave by outpoint, and the difference of the two is what `doubled` records.
`OnlyDuplicatesAddValue` turns the finding of `utxo_doubled` around: under the hypothesis `DistinctOutpoints` (no
transaction lists an outpoint twice) `OnlyIssuanceAddsValue` does hold, so that is the only way to
add value. Two genesis outputs with one hash would lose one, hence `CollisionFree` covers them too.

**`IssuanceProofs`** (from `IssuanceAssumption`, `LastBlockAssumption`). `ScheduleTypeCorrect` needs nothing more.
`IssuesWhatIsScheduled` has the hypothesis `WithinShiftWidth`, a chain
shorter than the interval times the width of the shifted integer. `MatchesSchedule` speaks of
the ends of intervals only; `PartlyScheduled` is its inductive form, for any block. `HalvedUnfolds` and
`ScheduleUnfolds` give the recursive functions their equations. Beyond the hypothesis,
`IssuanceRestarts` shows for any interval and initial issuance what the run `issuance_wraps` shows for one: with a
cut-off above the width, the issuance of the first block comes back. `IssuanceEnds`: at the cut-off it does end.

**`ForkChoiceProofs`** (from `Sha3PowAssumption`, `BlockAssumption`, `BlockIdentity`). For
any number of importers, `IInv` says that imported and pending blocks stand on
imported, verified ancestors, that totals are sums and positive, and that nodes agree on them. It
gives `ForkTypeCorrect`. Under the hypothesis `OneImporter`, `SerialInv` adds
that a pending comparison still stands (`Decided`) and `BestIsHeaviest`, which gives
`ChoiceIsMaximal`, `TiesGoToTheLowestHash` and `NodesAgree`. The hypothesis is needed: `fork_race`
shows what two importers do. `Positive` and `Started` are needed for ties with
genesis, and `SealIdentifies` (a verified seal belongs to one header) makes the order of seals total.

**`MiningProofs`** (from `Sha3PowAssumption`, `MiningAssumption`). `MiningInv` adds `InHand` (what
the thread holds at each step) and `NotAhead` (slot and task are never ahead of the best
block, and the task never builds where the slot's template is). It gives `MinerTypeCorrect`,
`NoWorkIsWasted` and `SearchIsNotRestarted`. `WindowIsHarmless` is `OnlyOutdatedWorkIsLost` under its premise that the node does not
sync: while the thread is between its steps, the slot holds what it verified or a newer template, and one of the same best block is never replaced (`SlotKeepsUp`).

**`RuntimeProofs`** (from `RuntimeAssumption`, `MaxPoolAssumption` and those of `UtxoChainProofs`).
Only `SpendCall` touches the ledger, whatever is called around it (`OnlySpendsReachTheChain`,
which needs that what is executed is from the catalogue), so each step is a step of `UtxoChain` or a stutter (the lemma
`RuntimeIsChain`, which holds by how `Runtime` is composed); `RuntimeNeverSpendsTwice` carries the theorems above over to the runtime by it. `NoReplay` is not inductive by itself: `NonceInv`
adds that everything an account has signed has a lower nonce than the account, which a reaping keeps because
it forgets both. `AccountsInv` gives `RuntimeTypeCorrect`: balances are 0 or at least the
existential deposit, through fees, rewards and transfers, and an account without a balance has no nonce; that the
author is an account needs the first readable digest to exist (`AuthorFound`). It also bounds the difficulty, from
which `TargetCorrect` and `HarderTarget` follow: a product fits in the width exactly if the hash is at most the quotient.

The balances are summed over a finite set of accounts. `SupplyMoves` says of every step that it takes from one account
(and the total issuance with it, down to 0 at most), moves between two with or without dust, or rewards one (up to the
top at most); `IssuanceIsSupply` and `MoneyIsRewardOnly` follow.

The pool's steps leave the runtime alone by construction (the lemma `PoolKeepsRuntime`). `PoolForgetsNothing`
is about three things that happen at different times: when a spend was submitted, which block made
its inputs, and what that block's verdicts announced. Its invariant `PoolInv` has `StillToHear`: an
outpoint that a spend waits for is not in the store, unless it came without a tag or the open block has just made it in a spend
whose verdict was taken at the parent. That this verdict exists is `RefusedAreDoomed`, which is where `RefusedForGood` is
needed: a spend that was refused at the parent cannot have been dispatched in the block. At the end of
the block the pool is told, and nothing is left to hear. `ReadyIsClosed` shows that the rounds of `ReadyAmong` end in a fixed
point, so a spend that waits for nothing is ready.

**`NodeProofs`** (from `NodeAssumption`). `KeysSurvive` needs `KeyKept`: a process that mines has
a key that is the operator's or, on a disk that is kept, in the keystore already; the one directory that goes with a process is none of a chain's. `MappingOfOwnChain` needs `DatabaseOfChain`.
They give `NodeTypeCorrect`, `RewardKeysSurvive` and `MappingsApart`, for any chains and number of processes.
The same module has the proofs about `Clock` (from `ClockAssumption`). `ClockInv` is `ClockTypeOK`, `NotAheadOfClock` and `Spaced`: each
timestamp is as many minimum periods after the first as there are blocks between. It gives
`ClockTypeCorrect`, `NeverAhead` and `RateBounded`, for any number of nodes, any clocks and any drift.

Only model-checked: liveness (`StaleWorkEnds`, `ChainGrows`, `Convergence`, `StartupSettles`, `MappingCatchesUp`,
`GrowsWithTime`), which the prover does not do under fairness. What TLC finds violated (`OnlyIssuanceAddsValue`,
`PotDispersed`, `ZeroWhenShiftUndefined`, `TiesAreBroken`, `AnnouncedIsPaid`) has no theorem, but the first
and the fourth have one under the hypothesis that excludes the violation, and the second and third have one that says
for all constants what goes wrong (`FeesOnlyEnter`, `IssuanceRestarts`).

Some assumptions are there for the proofs. The genesis outputs and the accounts are finite sets, as lists and storage
maps are, and the hashes of genesis outputs do not collide. `RuntimeAssumption` asks of a catalogue of extrinsics only what
their types say, and that a node can import a block with them (`Importable`).

## Not modelled

- EVM, Ethereum and contracts: external pallets that the runtime configures; the self-contained call
  delegates each method to `pallet_ethereum`. Of the EVM only the balances it has at genesis are there.
- The treasury's spending and the account it opens for itself at genesis.
- RPC, benchmarking, docker and scripts: wiring and I/O. The subcommands `key`, `build-spec`, `chain-info` and
  `benchmark` touch no state of the modules.
- `create_inherent` of the block author: no one provides its data.
- Weights, lengths, eras and events, except the one event that a property is about. Fees are one constant.
- Of the pool: submissions and maintenance that overlap, retraction of blocks on a fork, limits by size, and the
  short memory for tags of blocks just pruned. Priorities are left open where they decide between rivals.
- Of the node: two processes on one database (it is locked), a disk that loses writes.
- The implementations of `Issuance` for `()`, which return 0.
- Genesis values are constants, scaled down as said above.

## What remains

1. `PowNode`: `Mining` over `ForkChoice`, where the best block comes from the tree and
   `Mining`'s numbered heads become a refinement mapping; two nodes that mine and
   exchange blocks, with the timestamps of `Clock`.
2. Forks in `TxPool`: blocks that are retracted give their extrinsics back to the pool.
3. Calls of the EVM and contracts as abstract transfers between accounts of `Runtime`.
