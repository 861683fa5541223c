------------------------------ MODULE NodeCodec ------------------------------
(***************************************************************************)
(* The storage encoding of trie nodes (crates/storage/trie/rlp.rs), used  *)
(* by TrieDB::insert_node (encode_to_vec) and TrieDB::get_node (decode).  *)
(* An RLP list is a tuple of its fields (the RLP codec of each field is   *)
(* the core library's and is taken to round-trip); an encoding is the     *)
(* node-type tag byte followed by that list.                              *)
(***************************************************************************)
EXTENDS Naturals, Sequences

CONSTANTS
    Radix,          \* NodeRefs in a branch's choices (16 in the code)
    MaxStackDepth   \* call frames before the thread's stack overflows

\* NodeType discriminants
BranchTag == 0
ExtensionTag == 1
LeafTag == 2

\* Result of an encoder or decoder: ok, or the error that stopped it
Ok(x) == [ok |-> TRUE, val |-> x]
Err(e) == [ok |-> FALSE, val |-> e]

\* impl RLPEncode for BranchNode / ExtensionNode / LeafNode
BranchEncode(n) == <<n.hash, n.choices, n.path>>
ExtensionEncode(n) == <<n.hash, n.prefix, n.child>>
LeafEncode(n) == <<n.hash, n.path>>

\* The fields a decoded node gets; ValueRLP is not among those decoded, so
\* a decoded node carries the empty value
BranchDecode(l) ==
    IF Len(l) = 3 /\ Len(l[2]) = Radix
    THEN Ok([kind |-> "branch", hash |-> l[1], choices |-> l[2], path |-> l[3], value |-> <<>>])
    ELSE Err("choices: Invalid Length")

ExtensionDecode(l) ==
    Ok([kind |-> "ext", hash |-> l[1], prefix |-> l[2], child |-> l[3]])

LeafDecode(l) ==
    Ok([kind |-> "leaf", hash |-> l[1], path |-> l[2], value |-> <<>>])

Tag(n) == CASE n.kind = "branch" -> BranchTag
            [] n.kind = "ext"    -> ExtensionTag
            [] n.kind = "leaf"   -> LeafTag

\* impl RLPEncode for Node: put the tag byte, then self.encode(buf), which
\* resolves to this same method; each frame writes one more tag byte
RECURSIVE NodeEncodeFrame(_, _)
NodeEncodeFrame(n, depth) ==
    IF depth >= MaxStackDepth
    THEN Err("stack overflow")
    ELSE LET inner == NodeEncodeFrame(n, depth + 1)
         IN IF inner.ok THEN Ok(<<Tag(n)>> \o inner.val) ELSE inner

NodeEncode(n) == NodeEncodeFrame(n, 0)

\* impl RLPDecode for Node: dispatch on the leading tag byte
NodeDecode(bytes) ==
    CASE Len(bytes) = 0         -> Err("InvalidLength")
      [] bytes[1] = BranchTag   -> BranchDecode(bytes[2])
      [] bytes[1] = ExtensionTag -> ExtensionDecode(bytes[2])
      [] bytes[1] = LeafTag     -> LeafDecode(bytes[2])
      [] OTHER                  -> Err("MalformedData")

VariantEncode(n) ==
    CASE n.kind = "branch" -> BranchEncode(n)
      [] n.kind = "ext"    -> ExtensionEncode(n)
      [] n.kind = "leaf"   -> LeafEncode(n)

VariantDecode(n, l) ==
    CASE n.kind = "branch" -> BranchDecode(l)
      [] n.kind = "ext"    -> ExtensionDecode(l)
      [] n.kind = "leaf"   -> LeafDecode(l)
=============================================================================
