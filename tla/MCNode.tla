------------------------------- MODULE MCNode -------------------------------
(***************************************************************************)
(* Two chains under one base path; the local testnet is started from a file *)
(* that build-spec wrote, and has two branches.                            *)
(***************************************************************************)
EXTENDS Node

MCFileSpec(path) == LocalTestnetConfig

MCParent(b) == IF b \in {"t2", "t3"} THEN "t1" ELSE "genesis"

(* What a node is started with: no author, addresses of each kind, keystores *)
(* of each kind, and both sorts of base path.                                *)
MCCommandLine ==
    LET conf(arg, author, remote, path, tmp) ==
            [chain |-> arg, author |-> author, keystore_remote |-> remote,
             keystore_path |-> path, tmp |-> tmp]
    IN  {ForCommand(arg) : arg \in {"dev", "raw.json"}} \cup
        {conf("dev", "None", FALSE, TRUE, TRUE), conf("dev", "0x", FALSE, TRUE, TRUE),
         conf("raw.json", "None", FALSE, FALSE, FALSE), conf("raw.json", "None", TRUE, TRUE, FALSE)}
        \cup {conf("raw.json", author, FALSE, TRUE, FALSE) : author \in Author}

MCChainOf(b) == IF b = "d1" THEN "dev" ELSE "local_testnet"

=============================================================================
