------------------------------ MODULE MCMining ------------------------------
(***************************************************************************)
(* Mining with hashes of three bits.  Each content has one nonce to find,  *)
(* the "dud" has the last nonce only, which the miner never tries.         *)
(***************************************************************************)
EXTENDS Mining

Contents == {"early", "late", "dud"}

MCPreHash(t) == <<t.parent, t.content>>
MCPreHashes == {<<h, c>> : h \in 0 .. MaxHead, c \in Content}
MCDifficulty(h) == 2 + h

WinningNonce == [early |-> 1, late |-> 5, dud |-> MaxU256]

MCSha3(d, pre, n) == IF n = WinningNonce[pre[2]] THEN 1 ELSE MaxU256

MCEncode(s) == [seal |-> s, tail |-> 0]
MCDecode(raw) == raw.seal
MCRawSeals == [seal : Seal, tail : {0}]
MCBlake2(raw) == raw.seal.work

=============================================================================
