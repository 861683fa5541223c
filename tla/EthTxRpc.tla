------------------------------ MODULE EthTxRpc ------------------------------
(***************************************************************************)
(* The eth_ transaction RPC handlers (crates/rpc/eth/transaction.rs) over *)
(* the chain store that ForkChoice models, composed with engine_newPayload *)
(* storing blocks, the canonical chain growing and forkchoiceUpdated.     *)
(*                                                                         *)
(* The Store is not in this snapshot.  What the handlers rely on:         *)
(*  - lookups by number (get_block_header, get_block_body) go through the *)
(*    canonical hash of that number; lookups by hash see every stored     *)
(*    block, canonical or not;                                            *)
(*  - add_block writes the location (number, index) of each of the        *)
(*    block's transactions into a table keyed by transaction hash;        *)
(*  - BlockIdentifier::resolve_block_number gives a Number as it is, and  *)
(*    the latest, finalized and safe tags as the store holds them.        *)
(* Each handler is one step: the canonical chain is only ever appended to *)
(* (the code handles no re-orgs), so reads made in separate calls see the *)
(* same blocks they would see together.                                   *)
(***************************************************************************)
EXTENDS ForkChoice

CONSTANTS
    Txs,        \* transaction hashes
    Body,       \* Body[b]: the transactions of block b, in order
    Indices,    \* transaction indices a client may ask for
    Outcomes    \* what the EVM gives a simulated call: an ExecutionResult
                \* kind (success, revert, halt) or an EvmError

VARIABLES
    txLocation, \* TransactionLocations: tx hash -> [number, index] or NoLocation
    answer      \* the last value an eth_ handler returned

rpcVars == <<txLocation, answer>>
allVars == <<vars, rpcVars>>

NoLocation == [number |-> NoNumber, index |-> NoNumber]
Null == [kind |-> "null"]

\* Block identifiers: a number, or a tag the store resolves
BlockIds ==
    {[tag |-> "number", number |-> BlockNumber[b]] : b \in Blocks}
        \cup {[tag |-> t, number |-> NoNumber] : t \in {"latest", "finalized", "safe"}}

\* BlockIdentifier::resolve_block_number; NoNumber stands for None
ResolveBlockNumber(id) ==
    CASE id.tag = "latest"    -> Len(canonical) - 1
      [] id.tag = "finalized" -> finalized
      [] id.tag = "safe"      -> safe
      [] OTHER                -> id.number

\* get_block_header(n) / get_block_body(n): the canonical block numbered n
HasCanonical(n) == n # NoNumber /\ CanonicalAt(n) # ZeroHash

\* block_body.transactions.get(i)
HasTx(b, i) == i < Len(Body[b])

\* RpcTransaction::build(tx, block_number, block_hash, index); `by` names
\* the handler that answered (a history field, not part of the value)
RpcTx(by, tx, n, h, i) ==
    [kind |-> "tx", by |-> by, tx |-> tx, blockNumber |-> n, blockHash |-> h, index |-> i]

\* Store::add_block: the block and the location of each of its transactions
AddBlock(b) ==
    /\ StoreBlock(b)
    /\ txLocation' = [t \in Txs |->
                        IF \E i \in DOMAIN Body[b] : Body[b][i] = t
                        THEN [number |-> BlockNumber[b],
                              index |-> CHOOSE i \in 0..Len(Body[b]) - 1 : Body[b][i + 1] = t]
                        ELSE txLocation[t]]
    /\ UNCHANGED answer

-----------------------------------------------------------------------------
(* Handlers                                                                *)

\* GetTransactionByBlockNumberAndIndexRequest::handle
ByBlockNumberAndIndex(id, i) ==
    LET n == ResolveBlockNumber(id) IN
    /\ answer' = IF HasCanonical(n) /\ HasTx(CanonicalAt(n), i)
                 THEN RpcTx("number", Body[CanonicalAt(n)][i + 1], n, CanonicalAt(n), i)
                 ELSE Null
    /\ UNCHANGED <<vars, txLocation>>

\* GetTransactionByBlockHashAndIndexRequest::handle: the number of the
\* block with that hash, then the body of the block with that number
ByBlockHashAndIndex(h, i) ==
    LET n == BlockNumber[h] IN
    /\ answer' = IF h \in stored /\ HasCanonical(n) /\ HasTx(CanonicalAt(n), i)
                 THEN RpcTx("hashIndex", Body[CanonicalAt(n)][i + 1], n, h, i)
                 ELSE Null
    /\ UNCHANGED <<vars, txLocation>>

\* GetTransactionByHashRequest::handle: the transaction, its location, and
\* the hash of the header with the location's number
ByHash(t) ==
    LET loc == txLocation[t] IN
    /\ answer' = IF \E b \in stored : \E i \in DOMAIN Body[b] : Body[b][i] = t
                    /\ loc # NoLocation /\ HasCanonical(loc.number)
                 THEN RpcTx("hash", t, loc.number, CanonicalAt(loc.number), loc.index)
                 ELSE Null
    /\ UNCHANGED <<vars, txLocation>>

\* GetTransactionReceiptRequest::handle: the receipts of the block with
\* the location's number, and the one at the location's index (null if
\* there is none)
Receipt(t) ==
    LET loc == txLocation[t]
        b == CanonicalAt(loc.number)
    IN
    /\ answer' = IF loc # NoLocation /\ HasCanonical(loc.number) /\ HasTx(b, loc.index)
                 THEN [kind |-> "receipt", of |-> t, tx |-> Body[b][loc.index + 1]]
                 ELSE Null
    /\ UNCHANGED <<vars, txLocation>>

\* CallRequest::handle and CreateAccessListRequest::handle: resolve the
\* block (latest by default), read its header, simulate the call on it
Call(id, outcome) ==
    LET n == ResolveBlockNumber(id) IN
    /\ answer' = CASE ~HasCanonical(n)      -> Null
                   [] outcome = "evmError" -> [kind |-> "error"]
                   [] outcome = "revert"   -> [kind |-> "revertError"]
                   [] outcome = "halt"     -> [kind |-> "output", empty |-> TRUE]
                   [] OTHER                -> [kind |-> "output", empty |-> FALSE]
    /\ UNCHANGED <<vars, txLocation>>

CreateAccessList(id, outcome) ==
    LET n == ResolveBlockNumber(id) IN
    /\ answer' = CASE ~HasCanonical(n)      -> Null
                   [] outcome = "evmError" -> [kind |-> "error"]
                   [] OTHER                -> [kind |-> "accessList", error |-> outcome # "success"]
    /\ UNCHANGED <<vars, txLocation>>

-----------------------------------------------------------------------------

RpcInit ==
    /\ Init
    /\ txLocation = [t \in Txs |-> NoLocation]
    /\ answer = Null

RpcStep ==
    \/ \E id \in BlockIds, i \in Indices : ByBlockNumberAndIndex(id, i)
    \/ \E h \in Blocks, i \in Indices : ByBlockHashAndIndex(h, i)
    \/ \E t \in Txs : ByHash(t) \/ Receipt(t)
    \/ \E id \in BlockIds, o \in Outcomes : Call(id, o) \/ CreateAccessList(id, o)

RpcNext ==
    \/ \E h, s, f \in Hashes, attrs \in BOOLEAN, fail \in StoreCalls :
          ForkChoiceUpdated(h, s, f, attrs, fail) /\ UNCHANGED rpcVars
    \/ \E b \in Blocks : AddBlock(b)
    \/ \E b \in Blocks : ExtendCanonical(b) /\ UNCHANGED rpcVars
    \/ RpcStep

RpcSpec == RpcInit /\ [][RpcNext]_allVars

-----------------------------------------------------------------------------
(* Properties                                                              *)

\* An answer names a transaction of the block it names: the block hash is
\* a stored block with the answered number whose body holds the answered
\* transaction at the answered index; a receipt is the receipt of the
\* transaction asked for.
TxMatchesBlock(a) ==
    /\ a.blockHash \in stored
    /\ BlockNumber[a.blockHash] = a.blockNumber
    /\ HasTx(a.blockHash, a.index)
    /\ Body[a.blockHash][a.index + 1] = a.tx

AnswerMatchesStore ==
    /\ answer.kind = "tx" => TxMatchesBlock(answer)
    /\ answer.kind = "receipt" => answer.tx = answer.of
====
