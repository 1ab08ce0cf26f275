----------------------------- MODULE ForkChoice -----------------------------
(***************************************************************************)
(* How a node imports blocks and chooses its best one: the proof-of-work   *)
(* block import that node/src/service.rs sets up around the client, with   *)
(* the algorithm of node/sha3pow/src/lib.rs.  A block is imported in two   *)
(* steps: it is verified and compared with the best block, and later the   *)
(* client commits it with the outcome of that comparison.  A node has      *)
(* several importers, the import queue and its own mining thread, and the  *)
(* import lock covers the commit only.                                     *)
(*                                                                         *)
(* The tree of blocks is a parameter.  The difficulty of a block is the    *)
(* one that the runtime state of its parent asks for.                      *)
(***************************************************************************)
EXTENDS Sha3Pow

CONSTANTS
    Node,
    Importer,           \* what imports blocks on a node
    Block,
    Genesis,
    NoImport,           \* an importer with nothing to import
    Parent(_),
    PreHashOf(_),       \* the hash of the header without its seal
    SealOf(_),          \* the seal digest, RawSeal
    NextDifficulty(_)   \* DifficultyApi::difficulty in the state of a block

Sealed == Block \ {Genesis}

ASSUME BlockAssumption ==
    /\ Genesis \in Block
    /\ NoImport \notin [block : Sealed, wins : BOOLEAN]
    /\ \A b \in Block : NextDifficulty(b) \in U256
    /\ \A b \in Sealed :
          Parent(b) \in Block /\ PreHashOf(b) \in PreHash /\ SealOf(b) \in RawSeal

(* A block is its header and its seal, and the hashes are collision free.    *)
ASSUME BlockIdentity ==
    /\ \A b, c \in Sealed : PreHashOf(b) = PreHashOf(c) /\ SealOf(b) = SealOf(c) => b = c
    /\ \A d, e, m, n \in U256, p, q \in PreHash : Sha3(d, p, m) = Sha3(e, q, n) => p = q
    /\ \A r, s \in RawSeal : Blake2(r) = Blake2(s) => r = s

VARIABLES
    imported,       \* the blocks in the node's database
    total,          \* PowAux.total_difficulty of those blocks
    best,           \* the best block, which LongestChain reads
    importing       \* what each importer has compared and not yet committed

forkVars == <<imported, total, best, importing>>

Import == [block : Sealed, wins : BOOLEAN]

ForkTypeOK ==
    /\ imported \in [Node -> SUBSET Block]
    /\ total \in [Node -> [Block -> U256]]
    /\ best \in [Node -> Block]
    /\ importing \in [Node -> [Importer -> Import \cup {NoImport}]]

Init ==
    /\ imported = [n \in Node |-> {Genesis}]
    /\ total = [n \in Node |-> [b \in Block |-> 0]]
    /\ best = [n \in Node |-> Genesis]
    /\ importing = [n \in Node |-> [i \in Importer |-> NoImport]]

(* Mutant: the sum does not saturate.                                        *)
PlainAdd(x, y) == x + y

(* The sum of total difficulties saturates.                                  *)
SaturatingAdd(x, y) == IF x + y > MaxU256 THEN MaxU256 ELSE x + y

(* The total difficulty that the import of b would record.                   *)
TotalAt(n, b) == SaturatingAdd(total[n][Parent(b)], NextDifficulty(Parent(b)))

(* Does a block of this total difficulty win against the best block?         *)
Wins(n, b) ==
    \/ TotalAt(n, b) > total[n][best[n]]
    \/ TotalAt(n, b) = total[n][best[n]] /\ BreakTie(SealOf(best[n]), SealOf(b))

(* Against an unsealed best block a tie is an error, and the import fails.   *)
TieWithGenesis(n, b) == best[n] = Genesis /\ TotalAt(n, b) = total[n][best[n]]

BeginImport(n, i, b) ==
    /\ importing[n][i] = NoImport
    /\ b \notin imported[n]
    /\ Parent(b) \in imported[n]
    /\ VerifySeal(PreHashOf(b), SealOf(b), NextDifficulty(Parent(b)))
    /\ ~TieWithGenesis(n, b)
    /\ importing' = [importing EXCEPT ![n][i] = [block |-> b, wins |-> Wins(n, b)]]
    /\ UNCHANGED <<imported, total, best>>

(* Mutant: the block imported last is the best one.                          *)
CommitAsBest(n, i) ==
    /\ importing[n][i] # NoImport
    /\ LET b == importing[n][i].block
       IN  /\ imported' = [imported EXCEPT ![n] = @ \cup {b}]
           /\ total' = [total EXCEPT ![n][b] = TotalAt(n, b)]
           /\ best' = [best EXCEPT ![n] = b]
    /\ importing' = [importing EXCEPT ![n][i] = NoImport]

(* The client commits the block, its total difficulty and, if it won, the    *)
(* new best block.  A block that is already in the chain changes nothing.    *)
CommitImport(n, i) ==
    /\ importing[n][i] # NoImport
    /\ LET b == importing[n][i].block
       IN  IF b \in imported[n] THEN UNCHANGED <<imported, total, best>> ELSE
              /\ imported' = [imported EXCEPT ![n] = @ \cup {b}]
              /\ total' = [total EXCEPT ![n][b] = TotalAt(n, b)]
              /\ best' = IF importing[n][i].wins THEN [best EXCEPT ![n] = b] ELSE best
    /\ importing' = [importing EXCEPT ![n][i] = NoImport]

Next ==
    \E n \in Node, i \in Importer :
        CommitImport(n, i) \/ \E b \in Sealed : BeginImport(n, i, b)

Spec == Init /\ [][Next]_forkVars

(* The network delivers every block, again and again until it is imported,   *)
(* and an import that has begun is committed.                                *)
Fairness ==
    \A n \in Node, i \in Importer :
        WF_forkVars(CommitImport(n, i)) /\ \A b \in Sealed : WF_forkVars(BeginImport(n, i, b))

FairSpec == Spec /\ Fairness

-----------------------------------------------------------------------------
(* The order of the fork choice: more total difficulty, then the lower hash  *)
(* of the seal.                                                              *)
Heavier(n, b, c) ==
    \/ total[n][b] > total[n][c]
    \/ total[n][b] = total[n][c] /\ b # Genesis /\ c # Genesis /\ BreakTie(SealOf(c), SealOf(b))

(* The incremental choice finds the maximum: whatever the order of arrival,  *)
(* the best block is heavier than every other imported block.  This is for a *)
(* node that imports one block at a time; see TiesAreBroken for two.         *)
BestIsHeaviest ==
    \A n \in Node : \A b \in imported[n] \ {best[n]} : Heavier(n, best[n], b)

(* "Break a tie situation when choosing a chain fork": among the blocks of    *)
(* the best block's total difficulty, the lowest hash of a seal is the best. *)
TiesAreBroken ==
    \A n \in Node : \A b \in imported[n] \ {Genesis} :
        total[n][b] = total[n][best[n]] => ~BreakTie(SealOf(best[n]), SealOf(b))

(* Nodes that have the same blocks agree on the best one.                    *)
SameBlocksSameBest ==
    \A m, n \in Node : imported[m] = imported[n] => best[m] = best[n]

(* All nodes end up with one best block and stay there.                      *)
Convergence == <>[](\A m, n \in Node : best[m] = best[n])

==============================================================================
