------------------------------ MODULE ForkChoice ------------------------------
(***************************************************************************)
(* engine_forkchoiceUpdatedV3 (crates/rpc/engine/fork_choice.rs) over the *)
(* chain store.  The handler is a chain of store calls and early returns; *)
(* any store call may fail with a StoreError, which `?` turns into an     *)
(* Err response after the writes made so far.  It is one atomic step: the *)
(* rest of the node only stores blocks and extends the canonical chain,   *)
(* so the values the handler reads cannot change in a way it could see.   *)
(***************************************************************************)
EXTENDS Integers, Sequences

CONSTANTS
    Blocks,       \* block hashes the consensus client may name
    BlockNumber,  \* header.number of each block
    Genesis,      \* the block the store starts with
    ZeroHash      \* H256::zero()

VARIABLES
    stored,      \* blocks the store holds (get_block_by_hash is Some)
    canonical,   \* canonical chain: canonical[n + 1] is the block numbered n
    finalized,   \* the store's finalized block number
    safe,        \* the store's safe block number
    payloads,    \* heads of the payloads built by add_local_block
    response,    \* kind of the last response the handler returned
    request      \* the last request handled (self.fork_choice_state)

vars == <<stored, canonical, finalized, safe, payloads, response, request>>

NoNumber == -1    \* number not yet set in the store
Hashes == Blocks \cup {ZeroHash}
NoRequest == [head |-> ZeroHash, safe |-> ZeroHash, finalized |-> ZeroHash, attrs |-> FALSE]

\* Store calls of one request, numbered in the order the handler makes them
GetHead == 1
GetHeadCanonical == 2
GetLatest == 3
GetLatestCanonical == 4
GetFinalized == 5
GetFinalizedCanonical == 6
UpdateFinalized == 7
GetSafe == 8
GetSafeCanonical == 9
UpdateSafe == 10
BuildPayload == 11
AddLocalBlock == 12
NoFailure == 0
StoreCalls == {NoFailure} \cup GetHead..AddLocalBlock

\* Store::get_canonical_block(n)
CanonicalAt(n) == IF n < Len(canonical) THEN canonical[n + 1] ELSE ZeroHash

\* The state the handler threads through its calls: the store's fields it
\* writes, the response, and whether it has returned
Running(st) == ~st.done
Return(st, kind) == [st EXCEPT !.response = kind, !.done = TRUE]

\* Mutant: the resync check (head canonical but not the latest) is dropped
CheckHeadNoResync(st, head, fail) ==
    IF head = ZeroHash THEN Return(st, "invalid")
    ELSE IF fail = GetHead \/ head \notin stored THEN Return(st, "error")
    ELSE IF fail \in {GetHeadCanonical, GetLatest, GetLatestCanonical} THEN Return(st, "error")
    ELSE IF CanonicalAt(BlockNumber[head]) \notin {ZeroHash, head} THEN Return(st, "error")
    ELSE st

\* The checks of handle up to "Set finalized block" (lines 41-71)
CheckHead(st, head, fail) ==
    IF head = ZeroHash THEN Return(st, "invalid")
    ELSE IF fail = GetHead \/ head \notin stored THEN Return(st, "error")
    ELSE IF fail \in {GetHeadCanonical, GetLatest, GetLatestCanonical} THEN Return(st, "error")
    ELSE IF CanonicalAt(BlockNumber[head]) \notin {ZeroHash, head} THEN Return(st, "error")
    ELSE IF CanonicalAt(Len(canonical) - 1) # head THEN Return(st, "valid")
    ELSE st

\* total_difficulty_check: its body is commented out; it returns Ok(None)
TotalDifficultyCheck(st, head) == st

\* set_finalized_block and set_safe_block share their shape: look the block
\* up, check it is canonical, then write its number
\* Mutant: the number is written without checking the block is canonical
SetBlockNoCanonicalCheck(st, hash, field, fail, getCall, canonCall, updateCall) ==
    IF ~Running(st) \/ hash = ZeroHash THEN st
    ELSE IF fail = getCall THEN Return(st, "error")
    ELSE IF hash \notin stored THEN Return(st, "invalid")
    ELSE IF fail \in {canonCall, updateCall} THEN Return(st, "error")
    ELSE [st EXCEPT ![field] = BlockNumber[hash]]

SetBlock(st, hash, field, fail, getCall, canonCall, updateCall) ==
    IF ~Running(st) \/ hash = ZeroHash THEN st
    ELSE IF fail = getCall THEN Return(st, "error")
    ELSE IF hash \notin stored THEN Return(st, "invalid")
    ELSE IF fail = canonCall THEN Return(st, "error")
    ELSE IF CanonicalAt(BlockNumber[hash]) # hash THEN Return(st, "invalid")
    ELSE IF fail = updateCall THEN Return(st, "error")
    ELSE [st EXCEPT ![field] = BlockNumber[hash]]

SetFinalizedBlock(st, hash, fail) ==
    SetBlock(st, hash, "finalized", fail, GetFinalized, GetFinalizedCanonical, UpdateFinalized)

SetSafeBlock(st, hash, fail) ==
    SetBlock(st, hash, "safe", fail, GetSafe, GetSafeCanonical, UpdateSafe)

\* Build a payload on the head when attributes are given (lines 84-105)
BuildOnHead(st, head, attrs, fail) ==
    IF ~Running(st) THEN st
    ELSE IF ~attrs THEN Return(st, "validWithHash")
    ELSE IF fail \in {BuildPayload, AddLocalBlock} THEN Return(st, "error")
    ELSE Return([st EXCEPT !.payloads = @ \cup {head}], "validWithHash")

\* Mutant: the finalized block is set before the head checks
HandleFinalizeFirst(head, safeHash, finHash, attrs, fail) ==
    LET st0 == [finalized |-> finalized, safe |-> safe, payloads |-> payloads,
                response |-> "none", done |-> FALSE]
        st1 == SetFinalizedBlock(st0, finHash, fail)
        st2 == IF Running(st1) THEN CheckHead(st1, head, fail) ELSE st1
        st3 == SetSafeBlock(st2, safeHash, fail)
    IN BuildOnHead(st3, head, attrs, fail)

\* ForkChoiceUpdatedV3::handle for one request
Handle(head, safeHash, finHash, attrs, fail) ==
    LET st0 == [finalized |-> finalized, safe |-> safe, payloads |-> payloads,
                response |-> "none", done |-> FALSE]
        st1 == CheckHead(st0, head, fail)
        st2 == IF Running(st1) THEN TotalDifficultyCheck(st1, head) ELSE st1
        st3 == SetFinalizedBlock(st2, finHash, fail)
        st4 == SetSafeBlock(st3, safeHash, fail)
    IN BuildOnHead(st4, head, attrs, fail)

ForkChoiceUpdated(head, safeHash, finHash, attrs, fail) ==
    LET st == Handle(head, safeHash, finHash, attrs, fail) IN
    /\ finalized' = st.finalized
    /\ safe' = st.safe
    /\ payloads' = st.payloads
    /\ response' = st.response
    /\ request' = [head |-> head, safe |-> safeHash, finalized |-> finHash, attrs |-> attrs]
    /\ UNCHANGED <<stored, canonical>>

\* engine_newPayload stores a block whose parent height exists
StoreBlock(b) ==
    /\ b \notin stored
    /\ BlockNumber[b] <= Len(canonical)
    /\ stored' = stored \cup {b}
    /\ UNCHANGED <<canonical, finalized, safe, payloads, response, request>>

\* Importing a stored block on top of the canonical chain
ExtendCanonical(b) ==
    /\ b \in stored
    /\ BlockNumber[b] = Len(canonical)
    /\ canonical' = Append(canonical, b)
    /\ UNCHANGED <<stored, finalized, safe, payloads, response, request>>

Init ==
    /\ stored = {Genesis}
    /\ canonical = <<Genesis>>
    /\ finalized = NoNumber
    /\ safe = NoNumber
    /\ payloads = {}
    /\ response = "none"
    /\ request = NoRequest

Next ==
    \/ \E h, s, f \in Hashes, attrs \in BOOLEAN, fail \in StoreCalls :
          ForkChoiceUpdated(h, s, f, attrs, fail)
    \/ \E b \in Blocks : StoreBlock(b) \/ ExtendCanonical(b)

Spec == Init /\ [][Next]_vars

-----------------------------------------------------------------------------
(* Properties                                                              *)

Numbers == {BlockNumber[b] : b \in Blocks}
Responses == {"none", "invalid", "error", "valid", "validWithHash"}

TypeOK ==
    /\ stored \subseteq Blocks
    /\ canonical \in Seq(Blocks)
    /\ finalized \in Numbers \cup {NoNumber}
    /\ safe \in Numbers \cup {NoNumber}
    /\ payloads \subseteq Blocks
    /\ response \in Responses
    /\ request \in [head : Hashes, safe : Hashes, finalized : Hashes, attrs : BOOLEAN]

\* A step of the handler that returned the given kind
Answered(kind) == response' = kind /\ UNCHANGED <<stored, canonical>>

\* When the head is canonical but not the latest block, handle ignores the
\* update (the beacon client is resyncing, lines 67-71): such a VALID
\* answer leaves finalized, safe and the built payloads untouched.
IgnoredUpdateChangesNothing ==
    [][Answered("valid") => UNCHANGED <<finalized, safe, payloads>>]_vars

\* A VALID-with-hash answer means the request was applied: the head is the
\* latest canonical block, every non-zero finalized or safe hash named a
\* canonical block whose number the store now holds, a zero hash left the
\* number as it was, and a payload was built on the head if asked for.
AppliedMeansRequested ==
    [][Answered("validWithHash") =>
          LET r == request' IN
          /\ CanonicalAt(Len(canonical) - 1) = r.head
          /\ finalized' = IF r.finalized = ZeroHash THEN finalized ELSE BlockNumber[r.finalized]
          /\ safe' = IF r.safe = ZeroHash THEN safe ELSE BlockNumber[r.safe]
          /\ r.finalized # ZeroHash => CanonicalAt(BlockNumber[r.finalized]) = r.finalized
          /\ r.safe # ZeroHash => CanonicalAt(BlockNumber[r.safe]) = r.safe
          /\ payloads' = IF r.attrs THEN payloads \cup {r.head} ELSE payloads]_vars

\* A request answered with an error (INVALID status or an RPC error) leaves
\* the forkchoice state of the store as it was: Engine API
\* forkchoiceUpdated must not apply part of an invalid forkchoice state.
ErrorLeavesForkchoiceUnchanged ==
    [][(Answered("invalid") \/ Answered("error")) => UNCHANGED <<finalized, safe>>]_vars

\* Refinement: the store as handle, engine_newPayload and block import
\* leave it is a chain that only grows, whose finalized and safe marks name
\* heights on it and whose payloads are built on its head.  This needs
\* every early return of handle in its place: the canonical checks of
\* set_finalized_block and set_safe_block before each write, and the
\* resync check before a payload is built.
Chain == INSTANCE CanonicalChain WITH blocks <- stored, chain <- canonical, built <- payloads

CanonicalChainSpec == Chain!Spec
=============================================================================
