# TLA+ models of ethereum_rust

This directory holds TLA+ models of the parts of `src/` whose state and
control are worth model checking. TLC checks each one. `PROJECT.json` lists:
- every component;
- every run and what it expects;
- the mutants that show each passing property can fail;
- the source lines each definition translates;
- the findings;
- the hazards of the code.

## 1. The system and its parts

The source snapshot has four groups of code. They interact as follows.

| Part | Source | State | Operations | Interacts with |
|---|---|---|---|---|
| Trie node store `TrieDB` | `storage/trie/db.rs` | `Nodes: NodeRef -> bytes`, `RootNodes: hash -> NodeRef`, `next_node_ref` | `init`, `insert_node`, `get_node`, `insert_root_ref`, `get_root_ref`, `write`/`read` (one libmdbx txn each) | node algebra, codec |
| Storage codec | `storage/trie/rlp.rs` | none | `Node::encode`/`decode`, per-variant field lists | `insert_node` / `get_node` |
| Branch node | `storage/trie/node/branch.rs` | `hash` cache, `choices[16]`, `path`, `value` | `get`, `insert`, `remove` (extract, then restructure), `compute_hash` | the store, Extension and Leaf nodes |
| Extension / Leaf nodes, nibbles, `Trie` facade | not in this snapshot; described by `spec.md` §4.1, §4.4–4.6 | root `NodeRef` | `get`, `insert`, `remove`, `compute_root_hash`, `new_at` | everything above |
| Engine `forkchoiceUpdatedV3` | `rpc/engine/fork_choice.rs` | the store's finalized and safe block numbers, local payloads | `handle` with its early returns; `set_finalized_block`, `set_safe_block` | the chain store |
| L1 deposit watcher | `l2/proposer/l1_watcher.rs` | `last_block_fetched`; reads the operator's nonce | `get_logs`, `process_logs` in an endless loop | L1 RPC, the L2 store, the mempool and the block producer |
| State diff encoder | `l2/proposer/state_diff.rs` | none | `StateDiff::encode`, `AccountStateDiff::encode` (`decode` is `unimplemented!`) | the proposer |
| Blob gas price | `levm/src/block.rs` | `BlockEnv` | `calc_excess_blob_gas`, `fake_exponential` | the EVM |
| eth transaction RPC | `rpc/eth/transaction.rs` | none of its own | `handle` of by-number-and-index, by-hash-and-index, by-hash, receipt, call, createAccessList | the chain store that block import and `forkchoiceUpdated` write |
| KECCAK256 opcode, EF report | `vm/levm/.../keccak.rs`, `vm/levm/tests/ef/report.rs` | none of their own | single sequential handlers | — |

### Hard behaviours

The hard behaviours are these (each is a hazard in `PROJECT.json`):
- **Trie.** The store is append-only and mutations are copy-on-write. A
  mutation writes every rewritten node at a fresh ref, children first, and
  then moves the root.
  - A failing write in the middle leaves orphans and must not move the root.
  - A restart resets `next_node_ref` (`db.rs:39`).
  - Each `get_node` opens its own read transaction, so a get is one read
    per level; it sees one version only because stored nodes never change.
  - The remove/restructure logic must keep the trie canonical: the root hash
    must depend only on the contents.
- **Codec.** A node must come back from storage as it was written.
- **Fork choice.**
  - The finalized number is persisted before the safe-block check can fail.
  - Nothing orders finalized ≤ safe ≤ head.
- **eth transaction RPC.**
  - Every handler reads the store in several calls while block import
    and `forkchoiceUpdated` run.
  - Lookups by hash see side blocks; lookups by number see only the
    canonical chain, and the handlers mix the two.
- **L1 watcher.**
  - Its cursor is volatile.
  - Its nonce comes from mined state while earlier mints are still pending.
  - A failed mempool add leaves a nonce gap.
  - Its cursor can move backwards.
- **State diff.**
  - Counts are truncated to u16.
  - The withdrawal and deposit lists carry no counts.
  - HashMap iteration order decides the bytes.
- **Blob gas.** The u128 Taylor series can overflow.

### Properties per component

- **Trie:**
  - canonical root hash (history independence, spec §8.1, 8.4–8.6);
  - committed roots still hash to their key (spec §3);
  - stored nodes never change (spec §3 Lifecycle);
  - refinement of a versioned key/value map;
  - get-after-insert and get-after-remove (spec §8.2, 8.3);
  - snapshot reads: a get on a committed root, fetching one node per read
    transaction while the writer runs, returns what that version held
    (spec §5).
- **Codec:** encode then decode is the identity (spec §6).
- **Fork choice:**
  - an error response leaves the store unchanged;
  - an ignored update changes nothing, and a VALID-with-hash answer means
    the request was applied.
- **eth transaction RPC:**
  - every answer names a transaction of the block it names;
  - the by-number handler names a canonical block, whatever tag it resolves;
  - refinement of an append-only chain whose finalized and safe marks name
    heights on it and whose payloads are built on its head.
- **L1 watcher:**
  - no L1 block is skipped by `get_logs`;
  - the cursor eventually reaches the L1 head;
  - every deposit is minted at most once;
  - every deposit is eventually minted.
- **State diff:** the encoding is a function of the diff.

## 2. Modules

| Module | Models | Kind |
|---|---|---|
| `TrieMap` | what the trie promises: a key/value map plus the set of committed versions. Actions `Insert`, `Remove`, `Commit`, `Reopen`. | abstract spec |
| `Trie` | `TrieDB` + Branch (from the code) + Extension, Leaf and facade (from the spec). | component, refines `TrieMap` |
| `MCTrie` | key sets, values, symmetry and a VIEW for TLC. | MC module |
| `NodeCodec` | `rlp.rs` encoders, decoders and the tag dispatch. | pure operators |
| `MCNodeCodec` | one sample node per initial state. | MC module |
| `ForkChoice` | `fork_choice.rs`: `handle`, `set_finalized_block`, `set_safe_block`, `total_difficulty_check`, plus the chain store it reads and writes. | component |
| `CanonicalChain` | what the chain store promises: a growing chain, finalized and safe marks on it, payloads on its head. Actions `Store`, `Extend`, `Forkchoice`. | abstract spec |
| `MCForkChoice` | blocks `g <- a1 <- a2` and a side block `b2`; a VIEW without the step outputs. | MC module |
| `EthTxRpc` | `transaction.rs`: the `handle` of each eth_ transaction handler, over the chain store of `ForkChoice` (which it EXTENDS), composed with block import and `forkchoiceUpdated`. | component, composition |
| `MCEthTxRpc` | the blocks of `MCForkChoice` with transactions: `a1 = [t1]`, `a2 = [t2]`, side block `b2 = [t3, t2]`. | MC module |
| `L1Watcher` | `l1_watcher.rs`: the `start_l1_watcher` loop, `get_logs`, `process_logs` split at its awaits, and a later start of the watcher on the same store after a panic ends it; L1 chain, mempool and block producer as environment. | component |
| `MCL1Watcher` | deposits in L1 blocks 1, 1, 3 and 4. | MC module |
| `StateDiff` | `state_diff.rs`: `StateDiff::encode` and `AccountStateDiff::encode` over byte sequences. | pure operators |
| `MCStateDiff` | one sample diff per initial state. | MC module |

### `Trie` in detail

**State.**
- `nodes` is the `Nodes` table.
- `nextNodeRef` is `TrieDB.next_node_ref`.
- `roots` is the `RootNodes` table.
- `root` is the facade's root ref.

A NodeRef is an integer. The sentinel `NoRef = -1` is distinct from every
ref.

**Representation.** The store holds decoded nodes; the codec is checked on
its own, in `NodeCodec`. Leaves and branch values keep the full key, as
`LeafNode::new(path.data(), …)` and the restructure code use it. Keccak is
an injective digest: a node's digest is its consensus preimage with its
children's digests in place. The inline rule and the compact encoding are
byte layout and are left out.

**Operations.** Each operation is a recursive operator. It takes a store
value `db = [nodes, next]` and returns the rewritten node together with the
store after its writes. This reproduces the order in which the code calls
`insert_node`: children first, fresh refs in sequence.
- `BranchInsert` is `BranchNode::insert`.
- `BranchRemoveValue` is step 1 of `BranchNode::remove`.
- `BranchRestructure` is step 2, translated line for line. This includes the
  `_ => None` arm for two or more children, the extension that is written
  before the value check, and the early return for an extension child.

**Actions.**
- `Insert(k, v)` and `RemoveKey(k)` apply the whole facade operation.
  `Apply` moves the root only after the last write.
- `InsertFails` and `RemoveKeyFails` model a `StoreError` from `TrieDB::write`
  after the first `k` writes. Those writes and the bumped `next_node_ref`
  stay; the root does not move. `k = 0` is a failure before any write.
- `ComputeRootHash` is `insert_root_ref(hash, root)`.
- `OpenAt` is `new_at` through `get_root_ref`.
- `Restart` is `TrieDB::init` on an existing directory. It is only in
  `SpecWithRestart`.

**Lookups.** `Node::get` is written as one level at a time. `NodeStep`
dispatches on the node kind. `BranchGet`, `ExtensionGet` and `LeafGet` each
either end the lookup (`Found`) or name the child to fetch and the nibbles
consumed (`Descend`). `NodeGet` takes these steps back to back against one
store value; `TrieGet` and the refinement mapping use it. It is a recursive
function over (ref, offset) rather than a recursive operator, because TLC
then evaluates each level once. A get that interleaves with the writer, one
read transaction per `get_node` (`db.rs:81–84`), is not a separate process
of the model: every node it could read is covered by `NodesImmutable`, which
says a stored ref never changes its node.

### `ForkChoice` in detail

**State.**
- `stored` is the set of blocks `get_block_by_hash` finds.
- `canonical` is the canonical chain; `CanonicalAt(n)` is
  `get_canonical_block(n)`.
- `finalized` and `safe` are the store's block numbers. `-1` means not set.
- `payloads` is the set of heads that `add_local_block` stored a payload
  for.
- `response` and `request` are the last answer and the request it answered.
  They are outputs: no action reads them.

**The handler.** `ForkChoiceUpdated(head, safe, finalized, attrs, fail)` is
one call of `handle`. It threads a record through `CheckHead`,
`TotalDifficultyCheck`, `SetFinalizedBlock`, `SetSafeBlock` and
`BuildOnHead`. Each early return sets `done`, and later stages pass the
record on untouched. This reproduces the code's `return`s and `?`s in their
order.

**Store failures.** `fail` names the store call, among the twelve the
handler makes, that returns a `StoreError`, or none. Writes made before the
failure persist.

**Atomicity.** The handler is one atomic step. The environment (`StoreBlock`
for `engine_newPayload`, `ExtendCanonical` for block import) only adds
blocks and appends to the canonical chain. In the code each store call is
its own transaction, so a block imported between the read of the latest
canonical block (`fork_choice.rs:67`) and payload building would let the
handler build on a head that is no longer the tip. The model does not
represent that interleaving; it is listed as a hazard with no property.

**Refinement.** `CanonicalChain` states what the store promises, and says
nothing of responses. Stored blocks stay stored. The chain grows one
stored block of the next height at a time. A forkchoice update may move
the finalized mark, the safe mark, both or neither, each to a height on
the chain, and may build a payload on the head. `ForkChoice` maps onto it
by renaming alone (`Chain == INSTANCE CanonicalChain WITH blocks <- stored,
chain <- canonical, built <- payloads`), so `CanonicalChainSpec` checks
that every step of the handler, including an aborted one, keeps the
store within that promise. An error after `set_finalized_block` has
written is such a step: the promise allows a mark to move on its own.
The partial update is judged separately, against the Engine API, by
`forkchoice_partial`.

### `EthTxRpc` in detail

**Composition.** `EthTxRpc` EXTENDS `ForkChoice`. `RpcNext` is every
`ForkChoice` action, with block storage replaced by `AddBlock`, plus one
action per eth_ handler. The handlers only read, so they compose with
`forkchoiceUpdated` and block import through the store: the chain that
block import grows, and the `finalized` and `safe` numbers that the tags
resolve to.

**Store behind the handlers.** The `Store` is not in this snapshot. The
module header states what the handlers rely on:
- lookups by number go through the canonical hash of that number;
- lookups by hash see every stored block;
- `add_block` writes each transaction's location into a table keyed by
  transaction hash (`txLocation`), so the last block stored wins.

**Handlers.** One action per `handle`, each an atomic step. The canonical
chain is only appended to (the code handles no re-orgs), so reads made in
separate store calls see what they would see together. Every `None` from
the store is the `Ok(Value::Null)` early return. `Call` and
`CreateAccessList` abstract the EVM to its outcome: success, revert, halt or
an `EvmError`. `answer` is the value returned. Its `by` field records which
handler answered; it is history, not part of the JSON value.

### `L1Watcher` in detail

**State.**
- `lastBlockFetched` is `last_block_fetched`.
- `pc`, `logs` and `operatorNonce` are where the watcher task is, the logs
  `get_logs` returned, and `process_logs`' local nonce.
- `l1Height` is the L1 head.
- `mempool` holds pending mints `[deposit, nonce]`.
- `l2Nonce[n + 1]` is the operator's nonce in the state of L2 block `n`.
- `minted[d]` counts the included mints of deposit `d`.
- `fetched[d]` counts how often `get_logs` returned `d`. It is a history
  variable for the properties.

**Actions.**
- `GetLogs(current)` is `get_logs`, given the answer of `get_block_number`.
  It takes the logs of `last_block_fetched + 1 ..= new_last_block` and moves
  the cursor.
- `ReadNonce(current)` is the start of `process_logs`. It returns at once on
  no logs; otherwise it reads the nonce with
  `get_account_info(current, …).unwrap_or_default()`. Here `current` is an
  *L1* block number, looked up in the *L2* store (`NonceAt`).
- `AddMint` is one iteration of the loop over the logs. It bumps the nonce,
  then hands the mint to the mempool. The add may fail, which is logged, and
  the loop continues.
- `Restart` is a panic of the task: every `?` and `expect` on an RPC or
  store error. The panic ends the watcher. Its caller is not in this
  snapshot (`operator/mod.rs` starts a different watcher), so `Restart` is
  any later start on the same store, a relaunch of the node. It starts with `last_block_fetched = 0`, and the store (mempool,
  L2 chain) survives.
- **Environment, not in this repository:**
  - `NewL1Block` adds an L1 block.
  - `IncludeMint` is the block producer including the pending mint whose
    nonce is the operator's next nonce.
  - `EmptyBlock` is an empty L2 block.

`process_logs` awaits RPC calls between these steps, so the producer and L1
move in between. That is why it is split.

### `StateDiff` in detail

- `Encode(diff, order)` is `StateDiff::encode`. `order` is the iteration
  order of the `modified_accounts` HashMap, which the code does not fix;
  `Encodings(diff)` collects the results over all orders.
- `AccountEncode` is `AccountStateDiff::encode`. Each set field adds its
  flag to the type byte and its bytes to the encoding, in code order. The
  two error returns are kept.
- Numbers are big-endian at their real widths (`BE`). Counts keep their
  `as u16` truncation.

## 3. Runs

| Run | Expect | What it shows |
|---|---|---|
| `trie_fixed` (`MCTrie_fixed.cfg`) | pass | The checked properties are `TypeOK`, `Canonical`, `CommittedRootsIntact`, `NodesImmutable`, `TrieMapSpec` and `WriteSemantics`. They hold in every interleaving of inserts, removes, failing writes, commits and reopens, over 4 fixed-length keys with Radix 3. That run reaches every path of Branch insert (new leaf in an empty slot, recursion into a child), Extension splits, and the leaf/extension/branch collapses of remove. |
| `trie_value_branch_leaves` | violation of `TrieMapSpec` | Removing any key at a branch that ends a key and has ≥2 children turns it into a leaf (`branch.rs:227,232`). |
| `trie_restart` | violation of `CommittedRootsIntact` | After `TrieDB::init` the next insert overwrites node 0 of a committed root (`db.rs:39`). |
| `codec_dispatch` | violation of `NodeRoundTrip` | `Node::encode` calls itself (`rlp.rs:113`). |
| `codec_fields` | violation of `VariantRoundTrip` | Branch and leaf lose their value (`rlp.rs:27–36, 48–55, 57–103`). |
| `chain_rpc` (`MCEthTxRpc.cfg`) | pass | `IgnoredUpdateChangesNothing`, `AppliedMeansRequested` and `CanonicalChainSpec` hold over every `forkchoiceUpdated` request (any hashes, with or without attributes, any failing store call), interleaved with block storage, chain growth and every eth_ transaction handler. A VALID answer means the request was applied exactly, and the store implements `CanonicalChain`. |
| `forkchoice_partial` | violation of `ErrorLeavesForkchoiceUnchanged` | An INVALID answer (unknown safe block) follows a finalized number already written (`fork_choice.rs:75–83`). |
| `rpc_side_block` | violation of `AnswerMatchesStore` | Once the side block `b2` is stored, `getTransactionByBlockHashAndIndex(b2, 0)` answers with `t2`, the transaction of the canonical `a2`, under the hash `b2` (`transaction.rs:174–187`). |
| `watcher` (`MCL1Watcher.cfg`) | pass | `NoDepositSkipped` and `CatchesUp` hold with up to two watcher restarts and two failed mempool adds. `get_logs` never skips a block, and under weak fairness the cursor reaches the L1 head once L1 stops. |
| `watcher_restart` | violation of `MintedAtMostOnce` | After a restart `last_block_fetched` is 0 again. Deposits already minted are fetched again and minted a second time with a fresh nonce (`l1_watcher.rs:54`). |
| `watcher_nonce` | violation of `EveryDepositMinted` | The nonce read from the L2 state at the L1 block number is 0 while mints 0 and 1 are pending. The next mint reuses nonce 0 and is included first, and deposit 1 is never minted (`l1_watcher.rs:104–111`). This needs no fault at all. |
| `statediff_order` | violation of `EncodingDeterministic` | A diff with two modified accounts encodes to two different byte strings, depending on HashMap order (`state_diff.rs:82`). |

The `value_branch` run uses keys of different lengths, where one key is
a prefix of another. The generic trie API allows this; spec §8 has such a
scenario, "16 leaves plus a Branch-own value". The state and storage tries
key by keccak hashes of fixed length. There, no branch ever carries a value,
which is why `trie_fixed` can pass while the bug exists. Two more remove
bugs of the same kind are listed as hazards (`branch.rs:206–214`, where an
extension with one extra nibble goes under a valued branch, and
`branch.rs:216–220`, where the value is lost under an extension child).
TLC finds them through `TrieMapSpec` with the key sets
`{0, 00, 000, 001}` and `{0, 000, 0000, 0001}`. The project keeps one run
per finding kind.

### Bounds and why they suffice

- **Keys.** `trie_fixed` uses `{000, 001, 002, 100}` with Radix 3. Two
  values with value symmetry give overwrite and re-insert of the same value.
  These four keys produce:
  - an extension with a two-nibble prefix;
  - a split at offset 0 that leaves a one-nibble extension remainder;
  - a branch receiving a third leaf in an empty slot;
  - every collapse of remove (leaf child, extension child, branch child).
- **MaxRoots = 1.** One committed version, so commit/reopen interleave with
  every mutation. A second version only multiplied the states (4.5 minutes)
  without adding a case.
- **MaxNodeRef.** It is large and never binding: orphans and ref numbering
  are outside the state identity. The VIEW `MCView` keeps only the ref-free
  shape of the current and committed roots. Without a restart, refs are
  only compared with the sentinel and fresh refs never collide with stored
  ones. Two states with equal shapes therefore have the same futures up to
  renaming, and the properties do not depend on the numbering.
  `trie_restart` has no VIEW, because refs do matter there.
- **Fork choice.** Four blocks give:
  - a canonical head;
  - a canonical non-head (the resync branch);
  - a side block at a canonical height (the reorg branch and "not in
    canonical chain");
  - a block not yet stored.

  The zero hash is added to the requested hashes. `fail` ranges over all 12
  store calls plus none. The VIEW drops `response` and `request`, because no
  action reads them.
- **L1 watcher.**
  - Two deposits in block 1 make one batch of two logs, so nonces are
    bumped inside a batch. A third deposit in block 3 with
    `max_block_step = 2` makes the step bound and the empty block 2 matter.
    A fourth deposit in block 4, the last L1 block, is only fetched by a
    call whose range ends at the head.
  - Three empty L2 blocks let the L2 chain run ahead of or behind L1
    heights, which is what `NonceAt` compares.
  - The pass run allows two restarts and two failed adds, so a fault can
    hit a cursor that a first fault already reset. It has about 2.1 million
    distinct states and takes under a minute.
  - The violation runs keep the smaller bounds in their own cfgs.
    `RpcMayLag` is FALSE in every run. A lagging endpoint re-fetches logs
    like a restart does, but with it `CatchesUp` would not hold.
- **eth transaction RPC.** The side block `b2` shares `t2` with the
  canonical `a2`, at another index, and holds `t3`, which no canonical
  block has. That is the least needed for a location overwritten by a side
  block and for a transaction only a side block holds. Indices 0 and 1 ask
  for a present and an absent transaction. The VIEW of the pass run drops
  `answer`, which no action reads. The violation run keeps `answer` in
  its VIEW, because its invariant is about it. The pass run has 964
  distinct states and takes about 20 seconds.
- **State diff.** Two addresses, each account diff with a balance and/or a
  nonce, at most one withdrawal and one deposit. Two accounts are all that
  order needs.

### Fairness and liveness

- **Trie, fork choice and eth RPC.** No fairness is assumed. The trie is called
  synchronously by a single writer (spec §5), and the fork-choice and eth_ handlers
  answer requests the consensus client may or may not send. In neither is
  a step obliged to happen.
- **L1 watcher.** `Spec` has `WF_vars(WatcherStep)` and
  `WF_vars(IncludeMint)`.
  - `start_l1_watcher` is an endless `loop` in its own tokio task, and each
    of its steps is enabled until taken.
  - The block producer is assumed to keep producing blocks; it is not in
    `l1_watcher.rs`, and a node that includes no transactions mints nothing.
  - L1 growth, empty blocks and restarts get no fairness: they may stop.
  - `CatchesUp` (`<>[]`) and `EveryDepositMinted` (`~>`) are checked under
    these assumptions.

## 4. Mutants

Each property of a passing run is broken by a plausible bug in a mapped
definition. The bug operator is defined just before the definition it
replaces.

| Property | Mutant | The bug |
|---|---|---|
| `TypeOK` | `BranchInsertTailLeaf` | A new leaf stores only the key's tail, as spec §4.1's wording suggests. |
| `Canonical` | `BranchRestructureSkipped` | Step 2 of remove is dropped. |
| `CommittedRootsIntact` | `InsertNodeNoBump` | `insert_node` forgets to bump `next_node_ref`. |
| `NodesImmutable` | `BranchRemoveValueInPlace` | A child rewritten by remove is stored back at its old ref. |
| `TrieMapSpec` | `BranchGetNoAdvance` | `get` enters a child without consuming the branch's nibble. |
| `WriteSemantics` | `BranchInsertNoAdvance` | The cursor is not advanced past the branch nibble. |
| `AppliedMeansRequested` | `SetBlockNoCanonicalCheck` | The "not in canonical chain" guard is dropped. |
| `IgnoredUpdateChangesNothing` | `HandleFinalizeFirst` | The finalized block is set before the head checks. |
| `CanonicalChainSpec` | `CheckHeadNoResync` | The resync branch (head canonical but not the latest) is dropped, so a payload is built on a block below the tip. |
| `NoDepositSkipped` | `GetLogsSkipFirst` | The range starts one block too late. |
| `CatchesUp` | `GetLogsShort` | `new_last_block` stops one block short of the current block. |

## 5. Not modelled, and why

- **Hash cache (`NodeHash` dirty/inline/hashed).** Digests are recomputed
  from the nodes. The stale-cache hazard at `branch.rs:192` is listed but
  not yet covered.
- **Compact encoding, RLP byte layout, the <32-byte inline rule.** These
  are data layout. The digest keeps the structure the hash commits to.
- **NodeRef sentinel.** `node_ref.rs` is not in the snapshot, so whether
  ref 0 is "no child" cannot be read. The model uses a distinct sentinel.
- **KECCAK256 opcode, EF report.** These are single sequential handlers
  with no state of their own. The opcode's gas and memory functions
  (`gas_cost::keccak256`, `Memory::load_range`) are not in this snapshot,
  and the report is formatting.
- **Request parsing.** The eth_ handlers' `parse` (JSON, hex index) is left
  out. The model enumerates the parsed requests.
- **Blob gas price (`levm/src/block.rs`).** `fake_exponential` works in
  u128 with the real constant 3338477. TLC's integers stop at 2^31, and the
  first product `3338477 · excess` already passes that for an excess of one
  blob. The price only rises above its minimum from an excess of about 2.3
  million, and the u128 overflow needs an excess near 2·10^8. Scaling the
  constants down would change the function that is checked. The hazard
  (`block.rs:100`) stays listed without a property. Also unchecked:
  `calculate_blob_gas_price` applies `calc_excess_blob_gas` to the block's
  own fields, where its doc comment names the header's excess field.
- **finalized ≤ safe.** `handle` never compares the two. `CanonicalChainSpec`
  only bounds each mark by the head. The Engine API
  does not list that order among its `-38002` conditions, so no run asserts
  it.
- **TTD check.** `total_difficulty_check` has its body commented out. With
  only post-merge blocks in `MCForkChoice` the missing check changes
  nothing, and a run with a pre-merge block would only restate that it is
  absent.
- **State diff sizes.** 65536 accounts or slots, where the u16 counts wrap,
  are beyond enumeration. So are the 13 withdrawals from which the
  uncounted log lists can be split two ways (13·84 = 21·52).

## 6. Plan for the following sittings

1. The eth_ block handlers (`getBlockByNumber`, `getBlockReceipts`), should
   `block.rs` of the RPC crate come into the snapshot: they read the same
   store and share `resolve_block_number`.
2. `Trie`: the hash cache slot, should `node_hash.rs` come into the
   snapshot.
3. The `Store` semantics the eth_ handlers rely on are stated, not read
   from code. A later snapshot with `storage/` would let `AddBlock` and the
   lookups be mapped to their lines.
