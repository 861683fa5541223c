----------------------------- MODULE MCNodeCodec -----------------------------
(* Round trips of the storage codec over a small set of nodes of each     *)
(* variant: the node stays fixed, every sample is an initial state.        *)
EXTENDS NodeCodec

VARIABLE node

Hashes == {<<>>, <<7>>}           \* a dirty slot and a computed one
Refs == {0, 1}
NoChild == 99                     \* stands for NodeRef::default()

SampleNodes ==
    [kind : {"branch"}, hash : Hashes,
     choices : {[i \in 1..Radix |-> IF i = c THEN r ELSE NoChild] : c \in 1..Radix, r \in Refs},
     path : {<<>>, <<1>>}, value : {<<>>, <<5>>}]
    \cup [kind : {"ext"}, hash : Hashes, prefix : {<<0>>, <<1, 0>>}, child : Refs]
    \cup [kind : {"leaf"}, hash : Hashes, path : {<<1>>, <<0, 1>>}, value : {<<5>>, <<6>>}]

Init == node \in SampleNodes
Next == UNCHANGED node
Spec == Init /\ [][Next]_node

\* What TrieDB::insert_node writes (Node::encode_to_vec), TrieDB::get_node
\* reads back (Node::decode) as the very same node.
NodeRoundTrip ==
    LET e == NodeEncode(node) IN e.ok /\ NodeDecode(e.val) = Ok(node)

\* Each variant's own encoder and decoder (rlp.rs) round-trip every field
\* of the node, as the storage encoding of spec section 6 lists them.
VariantRoundTrip == VariantDecode(node, VariantEncode(node)) = Ok(node)
=============================================================================
