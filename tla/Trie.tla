-------------------------------- MODULE Trie --------------------------------
(***************************************************************************)
(* The Patricia Merkle Trie of crates/storage/trie: the node store TrieDB *)
(* (db.rs), the node algebra (Branch in node/branch.rs; Extension and     *)
(* Leaf as the spec describes them) and the Trie facade.                  *)
(*                                                                        *)
(* The store is append-only: insert_node writes a node at next_node_ref   *)
(* and bumps it.  A mutation never changes a stored node: it threads the  *)
(* store through the recursion, writes every rewritten node at a fresh    *)
(* NodeRef, children before parents, and finally moves the facade's root. *)
(* Operators below therefore take a store value db = [nodes, next] and    *)
(* return the rewritten node together with the store after its writes.   *)
(*                                                                        *)
(* Paths are NibbleSlice cursors: a key (sequence of nibbles) and the     *)
(* number `off` of nibbles already consumed.  Leaves and branch values    *)
(* keep the full key (path.data()).  Keccak is abstracted to an injective *)
(* digest: the hash of a node is its consensus preimage with children     *)
(* replaced by their own digests.                                         *)
(***************************************************************************)
EXTENDS Naturals, Sequences, SequencesExt, FiniteSets, TLC

CONSTANTS
    Radix,       \* number of nibbles a branch fans out on (16 in the code)
    Keys,        \* the keys callers use: non-empty sequences of nibbles
    Values,      \* the (non-empty) values callers insert
    NoValue,     \* the empty ValueRLP, i.e. "no value"
    MaxNodeRef,  \* bound on the NodeRefs next_node_ref may hand out
    MaxRoots     \* bound on the number of hashes RootNodes records

VARIABLES
    nodes,        \* the Nodes table: NodeRef -> Node
    nextNodeRef,  \* TrieDB.next_node_ref
    roots,        \* the RootNodes table: root hash -> NodeRef
    root          \* the facade's root NodeRef

vars == <<nodes, nextNodeRef, roots, root>>

Nibbles == 0..(Radix - 1)
NodeRefs == 0..(MaxNodeRef - 1)
NoRef == -1          \* NodeRef::default(): is_valid() is false
NoNode == [kind |-> "none"]   \* Option<Node>::None returned by remove

MaxKeyLen == CHOOSE n \in {Len(k) : k \in Keys} : \A k \in Keys : Len(k) <= n

PathRest(key, off) == SubSeq(key, off + 1, Len(key))
LcpLen(a, b) == Len(LongestCommonPrefix({a, b}))

Leaf(path, value) == [kind |-> "leaf", path |-> path, value |-> value]
Extension(prefix, child) == [kind |-> "ext", prefix |-> prefix, child |-> child]
Branch(choices, path, value) ==
    [kind |-> "branch", choices |-> choices, path |-> path, value |-> value]
NoChoices == [i \in Nibbles |-> NoRef]

-----------------------------------------------------------------------------
(* TrieDB (db.rs)                                                          *)

\* Mutant: insert_node forgets to bump next_node_ref
InsertNodeNoBump(db, n) == [nodes |-> (db.next :> n) @@ db.nodes, next |-> db.next]

\* insert_node: write at next_node_ref, then bump it; the ref is db.next
InsertNode(db, n) == [nodes |-> (db.next :> n) @@ db.nodes, next |-> db.next + 1]

GetNode(db, r) == db.nodes[r]

\* The facade wraps a rewritten branch in an extension when a prefix is shared
WrapInExtension(db, prefix, branch) ==
    IF Len(prefix) > 0
    THEN [node |-> Extension(prefix, db.next), db |-> InsertNode(db, branch)]
    ELSE [node |-> branch, db |-> db]

-----------------------------------------------------------------------------
(* Lookup: Node::get                                                       *)
(* Each level of the descent is one step: it either ends the lookup with  *)
(* a value or names the child to fetch through get_node (one read        *)
(* transaction) and the nibbles consumed so far.                          *)

Found(v) == [done |-> TRUE, value |-> v]
Descend(r, off) == [done |-> FALSE, ref |-> r, off |-> off]

\* Mutant: the child is searched without consuming the branch's nibble
BranchGetNoAdvance(n, key, off) ==
    IF off < Len(key) /\ n.choices[key[off + 1]] # NoRef
    THEN Descend(n.choices[key[off + 1]], off)
    ELSE Found(IF off < Len(key) THEN NoValue ELSE n.value)

BranchGet(n, key, off) ==
    IF off < Len(key)
    THEN IF n.choices[key[off + 1]] # NoRef
         THEN Descend(n.choices[key[off + 1]], off + 1)
         ELSE Found(NoValue)
    ELSE Found(n.value)

ExtensionGet(n, key, off) ==
    IF IsPrefix(n.prefix, PathRest(key, off))
    THEN Descend(n.child, off + Len(n.prefix))
    ELSE Found(NoValue)

LeafGet(n, key, off) ==
    Found(IF PathRest(n.path, off) = PathRest(key, off) THEN n.value ELSE NoValue)

NodeStep(n, key, off) ==
    CASE n.kind = "branch" -> BranchGet(n, key, off)
      [] n.kind = "ext"    -> ExtensionGet(n, key, off)
      [] n.kind = "leaf"   -> LeafGet(n, key, off)

\* Node::get from the node at ref r: the steps taken back to back against
\* one store value, each child fetched through get_node
NodeGet(db, r, key, off) ==
    LET walk[p \in (DOMAIN db.nodes) \X (0..Len(key))] ==
            LET s == NodeStep(GetNode(db, p[1]), key, p[2])
            IN IF s.done THEN s.value ELSE walk[<<s.ref, s.off>>]
    IN walk[<<r, off>>]

-----------------------------------------------------------------------------
(* Insertion: Node::insert returns the new subtrie root, not yet written  *)

RECURSIVE NodeInsert(_, _, _, _, _)

\* Mutant: a new leaf below a branch stores only the key's tail (spec 4.1)
BranchInsertTailLeaf(db, n, key, off, v) ==
    IF off < Len(key) /\ n.choices[key[off + 1]] = NoRef
    THEN [node |-> [n EXCEPT !.choices[key[off + 1]] = db.next],
          db   |-> InsertNode(db, Leaf(PathRest(key, off + 1), v))]
    ELSE [node |-> n, db |-> db]

\* Mutant: the child is entered without consuming the branch's nibble
BranchInsertNoAdvance(db, n, key, off, v) ==
    IF off < Len(key) /\ n.choices[key[off + 1]] # NoRef
    THEN LET i == key[off + 1]
             r == NodeInsert(db, GetNode(db, n.choices[i]), key, off, v)
         IN [node |-> [n EXCEPT !.choices[i] = r.db.next], db |-> InsertNode(r.db, r.node)]
    ELSE [node |-> n, db |-> db]

BranchInsert(db, n, key, off, v) ==
    IF off < Len(key)
    THEN LET i == key[off + 1] IN
         IF n.choices[i] = NoRef
         THEN [node |-> [n EXCEPT !.choices[i] = db.next],
               db   |-> InsertNode(db, Leaf(key, v))]
         ELSE LET r == NodeInsert(db, GetNode(db, n.choices[i]), key, off + 1, v)
              IN [node |-> [n EXCEPT !.choices[i] = r.db.next],
                  db   |-> InsertNode(r.db, r.node)]
    ELSE [node |-> [n EXCEPT !.path = key, !.value = v], db |-> db]

\* Split an extension whose prefix diverges from the key after lcp nibbles
ExtensionSplit(db, n, key, off, v, lcp) ==
    LET rest == PathRest(key, off)
        old  == IF Len(n.prefix) - lcp = 1
                THEN [ref |-> n.child, db |-> db]
                ELSE [ref |-> db.next,
                      db  |-> InsertNode(db, Extension(SubSeq(n.prefix, lcp + 2, Len(n.prefix)), n.child))]
        choices == [NoChoices EXCEPT ![n.prefix[lcp + 1]] = old.ref]
        br == IF lcp < Len(rest)
              THEN [node |-> Branch([choices EXCEPT ![rest[lcp + 1]] = old.db.next], <<>>, NoValue),
                    db   |-> InsertNode(old.db, Leaf(key, v))]
              ELSE [node |-> Branch(choices, key, v), db |-> old.db]
    IN WrapInExtension(br.db, SubSeq(n.prefix, 1, lcp), br.node)

ExtensionInsert(db, n, key, off, v) ==
    LET lcp == LcpLen(n.prefix, PathRest(key, off)) IN
    IF lcp = Len(n.prefix)
    THEN LET r == NodeInsert(db, GetNode(db, n.child), key, off + lcp, v)
         IN [node |-> [n EXCEPT !.child = r.db.next], db |-> InsertNode(r.db, r.node)]
    ELSE ExtensionSplit(db, n, key, off, v, lcp)

LeafInsert(db, n, key, off, v) ==
    LET a   == PathRest(n.path, off)
        b   == PathRest(key, off)
        lcp == LcpLen(a, b)
        mine == IF lcp < Len(a) THEN [ref |-> db.next, db |-> InsertNode(db, n)]
                ELSE [ref |-> NoRef, db |-> db]
        new  == IF lcp < Len(b) THEN [ref |-> mine.db.next, db |-> InsertNode(mine.db, Leaf(key, v))]
                ELSE [ref |-> NoRef, db |-> mine.db]
        choices == [i \in Nibbles |->
                      CASE lcp < Len(a) /\ i = a[lcp + 1] -> mine.ref
                        [] lcp < Len(b) /\ i = b[lcp + 1] -> new.ref
                        [] OTHER -> NoRef]
        br == CASE lcp = Len(a) -> Branch(choices, n.path, n.value)
                [] lcp = Len(b) -> Branch(choices, key, v)
                [] OTHER        -> Branch(choices, <<>>, NoValue)
    IN IF a = b
       THEN [node |-> [n EXCEPT !.value = v], db |-> db]
       ELSE WrapInExtension(new.db, SubSeq(b, 1, lcp), br)

NodeInsert(db, n, key, off, v) ==
    CASE n.kind = "branch" -> BranchInsert(db, n, key, off, v)
      [] n.kind = "ext"    -> ExtensionInsert(db, n, key, off, v)
      [] n.kind = "leaf"   -> LeafInsert(db, n, key, off, v)

-----------------------------------------------------------------------------
(* Removal: Node::remove returns the new subtrie root (or NoNode) and the *)
(* removed value (or NoValue)                                              *)

RECURSIVE NodeRemove(_, _, _, _)

\* Mutant: a rewritten child is stored back at its old ref
BranchRemoveValueInPlace(db, n, key, off) ==
    IF off < Len(key) /\ n.choices[key[off + 1]] # NoRef
    THEN LET i == key[off + 1]
             r == NodeRemove(db, GetNode(db, n.choices[i]), key, off + 1)
         IN IF r.node # NoNode
            THEN [self |-> n, db |-> [r.db EXCEPT !.nodes = (n.choices[i] :> r.node) @@ @],
                  value |-> r.value]
            ELSE [self |-> [n EXCEPT !.choices[i] = NoRef], db |-> r.db, value |-> r.value]
    ELSE [self |-> n, db |-> db, value |-> NoValue]

\* Step 1 of BranchNode::remove: take the value out of a child or of self
BranchRemoveValue(db, n, key, off) ==
    IF off < Len(key)
    THEN LET i == key[off + 1] IN
         IF n.choices[i] # NoRef
         THEN LET r == NodeRemove(db, GetNode(db, n.choices[i]), key, off + 1) IN
              IF r.node # NoNode
              THEN [self |-> [n EXCEPT !.choices[i] = r.db.next],
                    db |-> InsertNode(r.db, r.node), value |-> r.value]
              ELSE [self |-> [n EXCEPT !.choices[i] = NoRef], db |-> r.db, value |-> r.value]
         ELSE [self |-> n, db |-> db, value |-> NoValue]
    ELSE IF n.path # <<>>
         THEN [self |-> [n EXCEPT !.path = <<>>, !.value = NoValue], db |-> db, value |-> n.value]
         ELSE [self |-> n, db |-> db, value |-> NoValue]

\* Mutant: step 2 is skipped; the branch is returned as step 1 left it
BranchRestructureSkipped(s, db, value) == [node |-> s, value |-> value, db |-> db]

\* Step 2 of BranchNode::remove: restructure self.  Only a single remaining
\* child is examined; with none or several, a branch with a path becomes a
\* leaf and one without stays as it is.
BranchRestructure(s, db, value) ==
    LET kids == {i \in Nibbles : s.choices[i] # NoRef} IN
    IF Cardinality(kids) = 1
    THEN LET i     == CHOOSE i \in kids : TRUE
             child == GetNode(db, s.choices[i])
         IN CASE child.kind = "branch" ->
                   LET d  == InsertNode(db, Extension(<<i>>, s.choices[i]))
                       s2 == [s EXCEPT !.choices[i] = db.next]
                   IN IF s2.path # <<>>
                      THEN [node |-> s2, value |-> value, db |-> d]
                      ELSE [node |-> GetNode(d, s2.choices[i]), value |-> value, db |-> d]
              [] child.kind = "ext" ->
                   [node |-> [child EXCEPT !.prefix = <<i>> \o @], value |-> value, db |-> db]
              [] OTHER ->
                   [node |-> IF s.path # <<>> THEN s ELSE child, value |-> value, db |-> db]
    ELSE [node |-> IF s.path # <<>> THEN Leaf(s.path, s.value) ELSE s, value |-> value, db |-> db]

BranchRemove(db, n, key, off) ==
    LET r == BranchRemoveValue(db, n, key, off)
    IN BranchRestructure(r.self, r.db, r.value)

ExtensionRemove(db, n, key, off) ==
    IF IsPrefix(n.prefix, PathRest(key, off))
    THEN LET r == NodeRemove(db, GetNode(db, n.child), key, off + Len(n.prefix)) IN
         CASE r.node = NoNode ->
                [node |-> NoNode, value |-> r.value, db |-> r.db]
           [] r.node.kind = "branch" ->
                [node |-> [n EXCEPT !.child = r.db.next], value |-> r.value,
                 db |-> InsertNode(r.db, r.node)]
           [] r.node.kind = "ext" ->
                [node |-> Extension(n.prefix \o r.node.prefix, r.node.child),
                 value |-> r.value, db |-> r.db]
           [] r.node.kind = "leaf" ->
                [node |-> r.node, value |-> r.value, db |-> r.db]
    ELSE [node |-> n, value |-> NoValue, db |-> db]

LeafRemove(db, n, key, off) ==
    IF PathRest(n.path, off) = PathRest(key, off)
    THEN [node |-> NoNode, value |-> n.value, db |-> db]
    ELSE [node |-> n, value |-> NoValue, db |-> db]

NodeRemove(db, n, key, off) ==
    CASE n.kind = "branch" -> BranchRemove(db, n, key, off)
      [] n.kind = "ext"    -> ExtensionRemove(db, n, key, off)
      [] n.kind = "leaf"   -> LeafRemove(db, n, key, off)

-----------------------------------------------------------------------------
(* Hashing: Node::compute_hash(db, path_offset).  A digest is the node's  *)
(* consensus preimage with keccak taken as injective.  A reference cycle  *)
(* (possible only once refs are reused) would recurse without end in the  *)
(* code; past MaxKeyLen nibbles the digest is marked Unterminated.        *)

Unterminated == <<"unterminated">>
EmptyTrieHash == <<"empty">>    \* keccak256(RLP(""))

RECURSIVE NodeHash(_, _, _)

BranchHash(nodes_, n, off) ==
    <<"branch",
      [i \in Nibbles |-> IF n.choices[i] # NoRef
                         THEN NodeHash(nodes_, n.choices[i], off + 1)
                         ELSE <<>>],
      n.value>>

ExtensionHash(nodes_, n, off) ==
    <<"ext", n.prefix, NodeHash(nodes_, n.child, off + Len(n.prefix))>>

LeafHash(n, off) == <<"leaf", PathRest(n.path, off), n.value>>

NodeHash(nodes_, r, off) ==
    LET n == nodes_[r] IN
    CASE off > MaxKeyLen      -> Unterminated
      [] n.kind = "branch"    -> BranchHash(nodes_, n, off)
      [] n.kind = "ext"       -> ExtensionHash(nodes_, n, off)
      [] n.kind = "leaf"      -> LeafHash(n, off)

(***************************************************************************)
(* The subtrie reachable from r with every NodeRef replaced by the node   *)
(* it names: what the trie is, independently of which refs were handed   *)
(* out and of the orphans earlier writes left in the Nodes table.         *)
(***************************************************************************)
RECURSIVE Shape(_, _, _)
Shape(nodes_, r, depth) ==
    IF r = NoRef \/ depth > MaxKeyLen THEN <<>>
    ELSE LET n == nodes_[r] IN
         CASE n.kind = "branch" ->
                [n EXCEPT !.choices = [i \in Nibbles |-> Shape(nodes_, n.choices[i], depth + 1)]]
           [] n.kind = "ext" -> [n EXCEPT !.child = Shape(nodes_, n.child, depth + 1)]
           [] n.kind = "leaf" -> n

-----------------------------------------------------------------------------
(* The trie facade                                                         *)

Store == [nodes |-> nodes, next |-> nextNodeRef]

\* Trie::get on the trie rooted at r
TrieGet(r, key) == IF r = NoRef THEN NoValue ELSE NodeGet(Store, r, key, 0)

\* Trie::compute_root_hash for the trie rooted at r
RootHash(r) == IF r = NoRef THEN EmptyTrieHash ELSE NodeHash(nodes, r, 0)

\* Trie::insert: the new root after writing the rewritten root node
TrieInsert(key, v) ==
    IF root = NoRef
    THEN [root |-> nextNodeRef, db |-> InsertNode(Store, Leaf(key, v))]
    ELSE LET r == NodeInsert(Store, nodes[root], key, 0, v)
         IN [root |-> r.db.next, db |-> InsertNode(r.db, r.node)]

\* Trie::remove: NoNode resets the root to the sentinel
TrieRemove(key) ==
    LET r == NodeRemove(Store, nodes[root], key, 0) IN
    IF r.node = NoNode
    THEN [root |-> NoRef, db |-> r.db]
    ELSE [root |-> r.db.next, db |-> InsertNode(r.db, r.node)]

\* Every write of an operation succeeded: the root moves to the new node
Apply(op) ==
    /\ op.db.next <= MaxNodeRef
    /\ nodes' = op.db.nodes
    /\ nextNodeRef' = op.db.next
    /\ root' = op.root
    /\ UNCHANGED roots

\* A store write fails (StoreError) after the first k writes: those stay,
\* next_node_ref was not bumped for the failed one, the root is not moved
Fail(op) ==
    /\ \E k \in 0..(op.db.next - nextNodeRef - 1) :
          /\ nextNodeRef + k <= MaxNodeRef
          /\ nodes' = Restrict(op.db.nodes, nextNodeRef..(nextNodeRef + k - 1)) @@ nodes
          /\ nextNodeRef' = nextNodeRef + k
    /\ UNCHANGED <<roots, root>>

Insert(k, v) == Apply(TrieInsert(k, v))

InsertFails(k, v) == Fail(TrieInsert(k, v))

RemoveKey(k) ==
    /\ root # NoRef
    /\ Apply(TrieRemove(k))

RemoveKeyFails(k) ==
    /\ root # NoRef
    /\ Fail(TrieRemove(k))

\* compute_root_hash: records hash -> root in RootNodes (insert_root_ref)
ComputeRootHash ==
    /\ root # NoRef
    /\ Cardinality(DOMAIN roots \cup {RootHash(root)}) <= MaxRoots
    /\ roots' = (RootHash(root) :> root) @@ roots
    /\ UNCHANGED <<nodes, nextNodeRef, root>>

\* Trie::new_at(store, hash): seat the trie at a committed root
OpenAt ==
    /\ \E h \in DOMAIN roots : root' = roots[h]
    /\ UNCHANGED <<nodes, nextNodeRef, roots>>

\* A process restart: TrieDB::init on the same directory keeps both tables
\* but starts next_node_ref at 0 again; the trie is reopened at a committed
\* root or started empty
Restart ==
    /\ nextNodeRef' = 0
    /\ \E r \in {roots[h] : h \in DOMAIN roots} \cup {NoRef} : root' = r
    /\ UNCHANGED <<nodes, roots>>

Init ==
    /\ nodes = <<>>
    /\ nextNodeRef = 0
    /\ roots = <<>>
    /\ root = NoRef

Next ==
    \/ \E k \in Keys, v \in Values : Insert(k, v) \/ InsertFails(k, v)
    \/ \E k \in Keys : RemoveKey(k) \/ RemoveKeyFails(k)
    \/ ComputeRootHash
    \/ OpenAt

NextWithRestart == Next \/ Restart

Spec == Init /\ [][Next]_vars
SpecWithRestart == Init /\ [][NextWithRestart]_vars

-----------------------------------------------------------------------------
(* Properties                                                              *)

NodeRefOrNone == NodeRefs \cup {NoRef}
NodeType ==
    [kind : {"leaf"}, path : Keys, value : Values]
    \cup [kind : {"ext"}, prefix : BoundedSeq(Nibbles, MaxKeyLen) \ {<<>>}, child : NodeRefs]
    \cup [kind : {"branch"}, choices : [Nibbles -> NodeRefOrNone],
          path : Keys \cup {<<>>}, value : Values \cup {NoValue}]

TypeOK ==
    /\ DOMAIN nodes \subseteq NodeRefs
    /\ \A r \in DOMAIN nodes : nodes[r] \in NodeType
    /\ nextNodeRef \in 0..MaxNodeRef
    /\ \A h \in DOMAIN roots : roots[h] \in DOMAIN nodes
    /\ root \in NodeRefOrNone

\* The key/value map the trie rooted at r returns through get
Contents(r) == [k \in Keys |-> TrieGet(r, k)]

\* Refinement: get on the current root returns the abstract map, and get on
\* every root recorded in RootNodes returns a committed version of it
Abstract == INSTANCE TrieMap WITH
    map <- Contents(root),
    committed <- {Contents(roots[h]) : h \in DOMAIN roots}

\* Insert, remove, a failed store write, compute_root_hash and new_at all
\* behave as operations of a versioned map: each insert/remove changes
\* exactly the key it names and no committed version ever changes.
TrieMapSpec == Abstract!Spec

(***************************************************************************)
(* Reference definition: the hash of the one canonical trie holding the  *)
(* entries S below offset off.  A single entry is a leaf; otherwise the   *)
(* nibbles all remaining keys share become an extension over a branch    *)
(* that keeps the entry ending there as its own value.                    *)
(***************************************************************************)
RECURSIVE CanonicalHash(_, _)
CanonicalHash(S, off) ==
    IF Cardinality(S) = 1
    THEN LET e == CHOOSE e \in S : TRUE IN <<"leaf", PathRest(e[1], off), e[2]>>
    ELSE LET lcp == LongestCommonPrefix({PathRest(e[1], off) : e \in S})
             d   == off + Len(lcp)
             own == {e \in S : Len(e[1]) = d}
             Below(i) == {e \in S : Len(e[1]) > d /\ e[1][d + 1] = i}
             br  == <<"branch",
                     [i \in Nibbles |-> IF Below(i) = {} THEN <<>> ELSE CanonicalHash(Below(i), d + 1)],
                     IF own = {} THEN NoValue ELSE (CHOOSE e \in own : TRUE)[2]>>
         IN IF Len(lcp) > 0 THEN <<"ext", lcp, br>> ELSE br

ContentHash(m) ==
    LET S == {<<k, m[k]>> : k \in {k \in Keys : m[k] # NoValue}}
    IN IF S = {} THEN EmptyTrieHash ELSE CanonicalHash(S, 0)

\* History independence (spec section 8, properties 1, 4, 5, 6): whatever
\* sequence of inserts, removes and failed writes led here, the root hash
\* compute_root_hash would return is the hash of the canonical trie of the
\* contents get returns: no stray extension, no single-child branch
\* without a value, no leaf left where a collapse was due.
Canonical == RootHash(root) = ContentHash(Contents(root))

\* Every hash recorded in RootNodes by compute_root_hash still is the hash
\* of the subtrie its NodeRef reaches: later inserts, removes and partial
\* writes never disturb a committed root (spec section 3, last invariant).
CommittedRootsIntact == \A h \in DOMAIN roots : RootHash(roots[h]) = h

\* No step rewrites or drops a node already in the Nodes table: insert_node
\* always writes at a NodeRef never handed out before (spec section 3,
\* Lifecycle; section 4.2, insert_node).
NodesImmutable ==
    [][\A r \in DOMAIN nodes : r \in DOMAIN nodes' /\ nodes'[r] = nodes[r]]_vars

\* A Trie::insert(k, v) whose writes all succeed makes get(k) return v and
\* leaves get of every other key as it was; a Trie::remove(k) whose writes
\* all succeed does the same with None.  Each operation must descend to the
\* key's own slot at every level and rebuild exactly that path.
WriteSemantics ==
    [][ /\ \A k \in Keys, v \in Values :
             Insert(k, v) => Contents(root)' = [Contents(root) EXCEPT ![k] = v]
        /\ \A k \in Keys :
             RemoveKey(k) => Contents(root)' = [Contents(root) EXCEPT ![k] = NoValue] ]_vars
=============================================================================
