--------------------------- MODULE MCTransaction ---------------------------
(***************************************************************************)
(* Small instances of Transaction for TLC: transactions with each of the   *)
(* resolvers, in two processes.                                            *)
(***************************************************************************)
EXTENDS Transaction

CONSTANTS f, g, o, r,   \* transactions: f, g Fail, o Overwrite, r Rebase
          p1, p2        \* processes

MCProcOf   == [t \in Txns |-> IF t \in {f, o} THEN p1 ELSE p2]
MCResolver == [t \in Txns |-> IF t = o THEN "Overwrite"
                              ELSE IF t = r THEN "Rebase" ELSE "Fail"]
=============================================================================
