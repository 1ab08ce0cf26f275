------------------------------ MODULE MCTxPool ------------------------------
(***************************************************************************)
(* The development chain on a scale of one to a few: an endowment of 7, an *)
(* existential deposit of 3, a fee of 1.  Users are the strings of         *)
(* ChainSpec; the miner has no account at first.                           *)
(***************************************************************************)
EXTENDS TxPool, UtxoCatalogue

NoFile(path) == NoTx

INSTANCE ChainSpec WITH
    Endowment <- 7, InitialDifficulty <- 10, InitialReward <- 1, OutputValue <- 3,
    EvmEndowment <- 40, EvmOtherEndowment <- 15, FileSpec <- NoFile

MCGenesis == TestnetGenesis(LoadSpec("dev"))
MCAccount == DOMAIN MCGenesis.balances \cup DOMAIN MCGenesis.evm \cup {"Miner"}

Extr(signer, n, call) ==
    [signer |-> signer, nonce |-> n, sudo |-> FALSE, call |-> call,
     tx |-> NoTx, to |-> NoAccount, value |-> 0]
SpendOf(signer, n, tx) == [Extr(signer, n, "spend") EXCEPT !.tx = tx]
Sudo(signer, n, call, v) == [Extr(signer, n, call) EXCEPT !.sudo = TRUE, !.value = v]
Pay(signer, n, to, v) == [Extr(signer, n, "transfer") EXCEPT !.to = to, !.value = v]

Spends == {SpendOf(NoAccount, 0, Keep), SpendOf(NoAccount, 0, Split),
           SpendOf(NoAccount, 0, Second), SpendOf(bob, 0, Chain2),
           [SpendOf(alice, 0, Split) EXCEPT !.sudo = TRUE]}

(* Difficulty 0, where every hash wins, and 1, where the product with the    *)
(* largest hash just fits; bob is not the sudo key.                          *)
RootCalls == {Sudo(alice, 0, "set_reward", 6), Sudo(alice, 1, "set_difficulty", 0),
              Sudo(alice, 1, "set_difficulty", 1), Sudo(bob, 0, "set_difficulty", 3)}

SignedCalls == {Pay(bob, 0, "Miner", 5), Pay(alice, 1, bob, 4),
                Extr(bob, 0, "cause_error"), Extr(bob, 1, "set_reward"),
                [Extr(alice, 0, "do_something") EXCEPT !.value = 2]}

MCExtrinsics == Spends \cup RootCalls \cup SignedCalls
MCTxs == {Keep, Split, Second, Chain2}
MCDigests == {<<Unreadable>>, <<Unreadable, "Miner">>}

PoolH256 ==
    GenesisKeys \cup (UNION {OutputKeys(tx) : tx \in Transactions})
    \cup (UNION {RewardKeys(n) : n \in BlockNumber})
PoolH512 ==
    {ZeroSig} \cup UNION {{tx.inputs[i].sigscript : i \in DOMAIN tx.inputs} : tx \in Transactions}

=============================================================================
