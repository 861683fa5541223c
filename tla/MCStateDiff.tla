----------------------------- MODULE MCStateDiff -----------------------------
(* State diffs over two accounts with one field set each, one withdrawal   *)
(* and one deposit at most: every sample diff is an initial state.         *)
EXTENDS StateDiff

VARIABLE diff

Addresses == {1, 2}
NoLogs == <<>>

SampleAccounts ==
    {[new_balance |-> nb, nonce_diff |-> nd, storage |-> <<>>, bytecode |-> <<>>, bytecode_hash |-> <<>>]
        : nb \in {<<>>, <<5>>}, nd \in {<<>>, <<1>>}}

SampleDiffs ==
    [version : {1},
     modified_accounts : UNION {[S -> SampleAccounts] : S \in SUBSET Addresses},
     withdrawal_logs : {NoLogs, <<[address |-> 1, amount |-> 7, tx_hash |-> 9]>>},
     deposit_logs : {NoLogs, <<[address |-> 2, amount |-> 7]>>}]

Init == diff \in SampleDiffs
Next == UNCHANGED diff
Spec == Init /\ [][Next]_diff

\* StateDiff::encode gives one result for a diff, whatever the iteration
\* order of its modified_accounts HashMap: the encoded diff is what the
\* sequencer commits to, so equal diffs must encode to equal bytes.
EncodingDeterministic == Cardinality(Encodings(diff)) = 1
=============================================================================
