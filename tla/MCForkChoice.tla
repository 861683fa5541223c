---------------------------- MODULE MCForkChoice ----------------------------
(* Model-checking instance of ForkChoice: a canonical chain g <- a1 <- a2 *)
(* and a side block b2 at height 2.                                       *)
EXTENDS ForkChoice

CONSTANTS g, a1, a2, b2

MCBlocks == {g, a1, a2, b2}
MCBlockNumber == [b \in MCBlocks |-> IF b = g THEN 0 ELSE IF b = a1 THEN 1 ELSE 2]

\* response and request are outputs of a step: no action reads them, so
\* states that differ only in them have the same successors
MCView == <<stored, canonical, finalized, safe, payloads>>
=============================================================================
