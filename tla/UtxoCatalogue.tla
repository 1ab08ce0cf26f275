----------------------------- MODULE UtxoCatalogue -----------------------------
(***************************************************************************)
(* A small catalogue of transactions for the runs of the UTXO chain.  An   *)
(* outpoint is the preimage of its hash, a signature is the signer, what   *)
(* was signed and a salt (sr25519 signatures are randomized).              *)
(***************************************************************************)
EXTENDS Utxo

CONSTANTS alice, bob        \* the two keys

Keys == {alice, bob}

MCHashGenesis(out)     == <<"genesis", out>>
MCHashOutput(tx, i)    == <<"output", tx, i>>
MCHashReward(utxo, n)  == <<"reward", utxo, n>>

MCVerify(sig, message, key) ==
    sig # ZeroSig /\ sig.signer = key /\ sig.message = message

(* issuance.rs with an interval of two blocks and an initial issuance of 2.  *)
BitcoinHalving == INSTANCE Issuance WITH
    HalvingInterval <- 2, InitialIssuance <- 2, ShiftWidth <- 32, CutOff <- 64

MCIssuance(n) == BitcoinHalving!IssuanceAt(n)

Out(value, key) == [value |-> value, pubkey |-> key]

MCGenesisUtxos == {Out(3, alice), Out(3, bob)}

G1 == MCHashGenesis(Out(3, alice))
G2 == MCHashGenesis(Out(3, bob))

-----------------------------------------------------------------------------
(* A transaction with input i signed by signers[i], with a salt per input.   *)
Unsigned(outpoints, outs) ==
    [inputs  |-> [i \in DOMAIN outpoints |->
                    [outpoint |-> outpoints[i], sigscript |-> ZeroSig]],
     outputs |-> outs]

SignedFor(message, signers, salts) ==
    [message EXCEPT !.inputs = [i \in DOMAIN message.inputs |->
        [message.inputs[i] EXCEPT !.sigscript =
            [signer |-> signers[i], message |-> message, salt |-> salts[i]]]]]

Signed(outpoints, signers, outs) ==
    SignedFor(Unsigned(outpoints, outs), signers, [i \in DOMAIN outpoints |-> 1])

(* The same inputs and signatures with other outputs.                        *)
Tampered(tx, outs) == [tx EXCEPT !.outputs = outs]

Keep   == Signed(<<G1>>, <<alice>>, <<Out(2, alice)>>)
Split  == Signed(<<G1>>, <<alice>>, <<Out(1, bob), Out(1, alice)>>)
Join   == Signed(<<G1, G2>>, <<alice, bob>>, <<Out(6, bob)>>)
JoinTip == Signed(<<G1, G2>>, <<alice, bob>>, <<Out(1, bob)>>)
Tip    == Signed(<<G2>>, <<bob>>, <<Out(1, bob)>>)
Chain  == Signed(<<MCHashOutput(Keep, 0)>>, <<alice>>, <<Out(2, bob)>>)
Chain2 == Signed(<<MCHashOutput(Keep, 0), G2>>, <<alice, bob>>, <<Out(1, alice)>>)
Back   == Signed(<<MCHashOutput(Chain, 0)>>, <<bob>>, <<Out(1, alice)>>)
Second == Signed(<<MCHashOutput(Split, 1)>>, <<alice>>, <<Out(1, bob)>>)

(* A reward is spent like any other output, once its value is known.         *)
SpendReward(v) ==
    Signed(<<MCHashReward(Out(v, alice), 1)>>, <<alice>>, <<Out(1, alice)>>)

(* One outpoint twice, under two valid signatures, for a fee of 6 - value.   *)
Twice(value) ==
    SignedFor(Unsigned(<<G1, G1>>, <<Out(value, alice)>>), <<alice, alice>>, <<1, 2>>)

(* The same transfer signed again is another transaction.                    *)
KeepAgain == SignedFor(Unsigned(<<G1>>, <<Out(2, alice)>>), <<alice>>, <<2>>)

Accepted == {Keep, Split, Join, JoinTip, Tip, Chain, Chain2, Back, Second, KeepAgain}
                \cup {Twice(value) : value \in {1, 2, 6}}
                \cup {SpendReward(v) : v \in 1 .. 3}

(* One for each error of validate_transaction.                               *)
Rejected ==
    {Signed(<<>>, <<>>, <<Out(1, bob)>>),
     Signed(<<G1>>, <<alice>>, <<>>),
     Signed(<<G1, G1>>, <<alice, alice>>, <<Out(5, alice)>>),
     Signed(<<G1>>, <<alice>>, <<Out(1, bob), Out(1, bob)>>),
     Signed(<<G1>>, <<bob>>, <<Out(1, bob)>>),
     Tampered(Keep, <<Out(2, bob)>>),
     Signed(<<G1>>, <<alice>>, <<Out(0, bob)>>),
     Signed(<<G1>>, <<alice>>, <<Out(4, bob)>>),
     Signed(<<G1>>, <<alice>>, <<Out(MaxValue, bob), Out(1, bob)>>),
     Signed(<<<<"nowhere">>>>, <<bob>>, <<Out(1, bob)>>)}

MCTransactions == Accepted \cup Rejected

MCH256 ==
    GenesisKeys \cup {<<"nowhere">>}
    \cup (UNION {OutputKeys(tx) : tx \in MCTransactions})
    \cup (UNION {RewardKeys(n) : n \in BlockNumber})

MCH512 == {ZeroSig} \cup UNION {{tx.inputs[i].sigscript : i \in DOMAIN tx.inputs} : tx \in MCTransactions}

==============================================================================
