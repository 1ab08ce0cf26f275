---------------------------- MODULE MCForkChoice ----------------------------
(***************************************************************************)
(* ForkChoice on a tree with two branches of equal weight, a branch sealed *)
(* twice, a rejected block and totals that saturate:                       *)
(*                                                                         *)
(*     genesis - a1 - a2 - a3 - a4        totals  2, 4, 6, 15              *)
(*             - b1 - b2 - b3 - b4        totals  2, 6, 15, 15             *)
(*             - x1                       a1 under other bytes, total 2    *)
(*             - bad                      another block's work             *)
(***************************************************************************)
EXTENDS ForkChoice

Row(name, parent, pre, next) == [name |-> name, parent |-> parent, pre |-> pre, next |-> next]

(* pre is the hash of the unsealed header, and also its work at any nonce:   *)
(* low enough to meet the difficulty of the parent.                          *)
Rows ==
    {Row("genesis", "genesis", 15, 2),
     Row("a1", "genesis", 4, 2), Row("a2", "a1", 7, 2), Row("a3", "a2", 6, 15), Row("a4", "a3", 0, 1),
     Row("b1", "genesis", 5, 4), Row("b2", "b1", 3, 15), Row("b3", "b2", 1, 0), Row("b4", "b3", 2, 1),
     Row("x1", "genesis", 4, 2), Row("bad", "genesis", 8, 2)}

RowOf(name) == CHOOSE row \in Rows : row.name = name

Names == {row.name : row \in Rows}

MCParent(b)  == RowOf(b).parent
MCPreHash(b) == RowOf(b).pre
MCNext(b)    == RowOf(b).next

(* A raw seal: what it decodes to, and the bytes that follow it, which       *)
(* Seal::decode leaves unread.                                               *)
Raw(difficulty, work, tail) ==
    [seal |-> [difficulty |-> difficulty, work |-> work, nonce |-> 0], tail |-> tail]

MCSeal(b) ==
    LET row == RowOf(b)
    IN  Raw(MCNext(row.parent), IF b = "bad" THEN 4 ELSE row.pre, IF b = "x1" THEN 1 ELSE 0)

MCPreHashes == {row.pre : row \in Rows}
MCRawSeals == {MCSeal(b) : b \in Names \ {"genesis"}}

MCDecode(raw) == raw.seal
MCSha3(d, pre, nonce) == pre
MCBlake2(raw) == raw.seal.work * 2 + raw.tail

=============================================================================
