----------------------------- MODULE MCEthTxRpc -----------------------------
(* The chain of MCForkChoice, g <- a1 <- a2 with the side block b2 at     *)
(* height 2, with transactions: t2 is in both a2 and b2, at different     *)
(* indices, and t3 only in b2.                                            *)
EXTENDS EthTxRpc

CONSTANTS g, a1, a2, b2, t1, t2, t3

MCBlocks == {g, a1, a2, b2}
MCBlockNumber == [b \in MCBlocks |-> IF b = g THEN 0 ELSE IF b = a1 THEN 1 ELSE 2]
MCTxs == {t1, t2, t3}
MCBody == [b \in MCBlocks |->
             CASE b = a1 -> <<t1>>
               [] b = a2 -> <<t2>>
               [] b = b2 -> <<t3, t2>>
               [] OTHER  -> <<>>]
MCIndices == {0, 1}
MCOutcomes == {"success", "revert", "halt", "evmError"}

\* response, request and answer are outputs of a step that no action
\* reads, so states that differ only in them have the same successors
MCView == <<stored, canonical, finalized, safe, payloads, txLocation>>

\* The invariant on answers needs them in the state's identity
MCAnswerView == <<MCView, answer>>
====
