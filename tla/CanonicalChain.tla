---------------------------- MODULE CanonicalChain ----------------------------
(***************************************************************************)
(* What the chain store promises the consensus client through             *)
(* engine_newPayload, block import and engine_forkchoiceUpdated, while     *)
(* the node handles no re-orgs:                                           *)
(*  - stored blocks stay stored, and the canonical chain only grows, one  *)
(*    stored block of the next height at a time;                          *)
(*  - the finalized and safe marks, once set, name heights on the chain;  *)
(*  - a payload is only ever built on the head of the chain.              *)
(* A forkchoice update may move either mark, both or neither, and may    *)
(* build a payload: which of these a request does is the handler's       *)
(* business, not part of the promise.                                     *)
(***************************************************************************)
EXTENDS Integers, Sequences

CONSTANTS Blocks, BlockNumber, Genesis

VARIABLES blocks, chain, finalized, safe, built

vars == <<blocks, chain, finalized, safe, built>>

NoNumber == -1

ChainHead == chain[Len(chain)]
Heights == 0..(Len(chain) - 1)

\* A mark keeps its height or moves to a height on the chain
Mark(m) == m' \in {m} \cup Heights

Init ==
    /\ blocks = {Genesis}
    /\ chain = <<Genesis>>
    /\ finalized = NoNumber
    /\ safe = NoNumber
    /\ built = {}

Store(b) ==
    /\ blocks' = blocks \cup {b}
    /\ UNCHANGED <<chain, finalized, safe, built>>

Extend(b) ==
    /\ b \in blocks
    /\ BlockNumber[b] = Len(chain)
    /\ chain' = Append(chain, b)
    /\ UNCHANGED <<blocks, finalized, safe, built>>

Forkchoice ==
    /\ Mark(finalized)
    /\ Mark(safe)
    /\ built' \in {built, built \cup {ChainHead}}
    /\ UNCHANGED <<blocks, chain>>

Next ==
    \/ \E b \in Blocks : Store(b) \/ Extend(b)
    \/ Forkchoice

Spec == Init /\ [][Next]_vars
=============================================================================
