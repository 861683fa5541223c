------------------------------- MODULE MCTrie -------------------------------
(* Model-checking instance of Trie: binary nibbles and a handful of keys. *)
EXTENDS Trie

CONSTANTS v1, v2

\* Fixed-length keys (Radix 3), as in the state and storage tries (keccak-hashed
\* keys): no key is a prefix of another, so no branch carries a value.
MCFixedKeys == {<<0, 0, 0>>, <<0, 0, 1>>, <<0, 0, 2>>, <<1, 0, 0>>}

\* Keys of different lengths, one a prefix of others, as the generic trie
\* API allows: the branch where <<0>> ends carries a value.
\* That branch has leaves in several of its slots (Radix 3).
MCValueBranchLeavesKeys == {<<0>>, <<0, 0>>, <<0, 1>>, <<0, 2>>}

MCValues == {v1, v2}

MCSymmetry == Permutations(MCValues)

(***************************************************************************)
(* Without a restart, NodeRefs are only ever compared with the sentinel  *)
(* and fresh ones never collide with stored ones, so two states whose     *)
(* current and committed roots reach the same subtries behave alike:     *)
(* orphans and the numbering of refs are left out of the state identity. *)
(***************************************************************************)
MCView ==
    <<Shape(nodes, root, 0), [h \in DOMAIN roots |-> Shape(nodes, roots[h], 0)]>>
=============================================================================
