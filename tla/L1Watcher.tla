------------------------------ MODULE L1Watcher ------------------------------
(***************************************************************************)
(* The L2 operator's L1 deposit watcher (crates/l2/proposer/l1_watcher.rs) *)
(* in its environment.  The watcher task loops get_logs; process_logs.     *)
(* process_logs awaits RPC calls between its steps, so the block producer  *)
(* task and the L1 chain move between them: it is split at those awaits.   *)
(* Every `?` and `expect` on an error ends in a panic of the task.  The   *)
(* caller of start_l1_watcher(store) is not in this snapshot; Restart is  *)
(* any later start of the watcher on the same store (a relaunch of the    *)
(* node): the watcher is built again and the store (mempool, L2 chain)     *)
(* survives.                                                               *)
(*                                                                         *)
(* Environment, not in this repository: the L1 chain grows; the block      *)
(* producer includes a pending mint whose nonce is the operator's next     *)
(* nonce (the usual account-nonce rule), or produces an empty block.      *)
(***************************************************************************)
EXTENDS Naturals, Sequences, SequencesExt

CONSTANTS
    DepositBlock,   \* DepositBlock[d]: L1 block holding deposit log d, in log order
    MaxL1Block,     \* height the L1 chain stops at
    MaxBlockStep,   \* max_block_step
    MaxEmptyBlocks, \* empty L2 blocks the producer may build
    MaxRestarts,    \* operator restarts (panics of the watcher task)
    MaxAddFailures, \* mempool::add_transaction calls that fail
    RpcMayLag       \* get_block_number may answer below an earlier answer

Deposits == DOMAIN DepositBlock

VARIABLES
    l1Height,         \* number of the latest L1 block
    lastBlockFetched, \* L1Watcher.last_block_fetched
    pc,               \* where the watcher task is: "get_logs", "read_nonce" or "add"
    logs,             \* deposits returned by get_logs not yet turned into mints
    operatorNonce,    \* process_logs' local operator_nonce
    mempool,          \* pending mint transactions [deposit, nonce]
    l2Nonce,          \* l2Nonce[n + 1]: operator nonce in the state of L2 block n
    minted,           \* minted[d]: mint transactions of d included in L2 blocks
    fetched,          \* fetched[d]: times get_logs returned d (history)
    restarts,         \* restarts so far
    addFailures       \* failed mempool additions so far

vars == <<l1Height, lastBlockFetched, pc, logs, operatorNonce, mempool,
          l2Nonce, minted, fetched, restarts, addFailures>>

\* Answers get_block_number may give: the latest block, or with a lagging
\* RPC endpoint any earlier one
RpcBlockNumbers == IF RpcMayLag THEN 0..l1Height ELSE {l1Height}

\* The deposit logs eth_getLogs returns for blocks from..to, in log order
LogsInRange(from, to) ==
    SelectSeq([i \in 1..Len(DepositBlock) |-> i], LAMBDA d : DepositBlock[d] \in from..to)

\* store.get_account_info(n, l2_proposer_address).map(nonce).unwrap_or_default():
\* the nonce in the state of L2 block n, or 0 when there is no such block
NonceAt(n) == IF n < Len(l2Nonce) THEN l2Nonce[n + 1] ELSE 0

-----------------------------------------------------------------------------
(* The watcher task                                                        *)

\* new_last_block: at most max_block_step past last_block_fetched, and not
\* past the block get_block_number answered
NewLastBlock(current) == Min({lastBlockFetched + MaxBlockStep, current})

\* eth_getLogs over blocks from..to, then last_block_fetched := last
Fetch(from, to, last) ==
    LET found == LogsInRange(from, to) IN
    /\ pc = "get_logs"
    /\ logs' = found
    /\ fetched' = [d \in Deposits |-> fetched[d] + (IF d \in ToSet(found) THEN 1 ELSE 0)]
    /\ lastBlockFetched' = last
    /\ pc' = "read_nonce"
    /\ UNCHANGED <<l1Height, operatorNonce, mempool, l2Nonce, minted, restarts, addFailures>>

\* Mutant: the range starts one block after the block after last_block_fetched
GetLogsSkipFirst(current) == Fetch(lastBlockFetched + 2, NewLastBlock(current), NewLastBlock(current))

\* Mutant: the range stops one block short of the RPC's current block
GetLogsShort(current) == Fetch(lastBlockFetched + 1, NewLastBlock(current - 1), NewLastBlock(current - 1))

\* get_logs, given the block number get_block_number answered
GetLogs(current) == Fetch(lastBlockFetched + 1, NewLastBlock(current), NewLastBlock(current))

\* process_logs up to its loop: return at once on no logs, else read the
\* operator nonce in the L2 state at the L1 block number get_block_number gave
ReadNonce(current) ==
    \/ /\ pc = "read_nonce"
       /\ logs = <<>>
       /\ pc' = "get_logs"
       /\ UNCHANGED <<l1Height, lastBlockFetched, logs, operatorNonce, mempool,
                      l2Nonce, minted, fetched, restarts, addFailures>>
    \/ /\ pc = "read_nonce"
       /\ logs # <<>>
       /\ operatorNonce' = NonceAt(current)
       /\ pc' = "add"
       /\ UNCHANGED <<l1Height, lastBlockFetched, logs, mempool, l2Nonce, minted,
                      fetched, restarts, addFailures>>

\* One iteration of the loop over the logs: build the mint of the first log
\* with the next nonce, bump the nonce, and hand the mint to the mempool; on
\* failure log a warning and continue with the nonce already bumped
AddMint ==
    LET tx == [deposit |-> Head(logs), nonce |-> operatorNonce] IN
    /\ pc = "add"
    /\ operatorNonce' = operatorNonce + 1
    /\ logs' = Tail(logs)
    /\ pc' = IF Tail(logs) = <<>> THEN "get_logs" ELSE "add"
    /\ \/ /\ mempool' = mempool \cup {tx}
          /\ UNCHANGED addFailures
       \/ /\ addFailures < MaxAddFailures
          /\ addFailures' = addFailures + 1
          /\ UNCHANGED mempool
    /\ UNCHANGED <<l1Height, lastBlockFetched, l2Nonce, minted, fetched, restarts>>

\* The watcher is started again on the same store after its task ended;
\* new_from_config starts last_block_fetched at zero, the store keeps
\* mempool and chain
Restart ==
    /\ restarts < MaxRestarts
    /\ restarts' = restarts + 1
    /\ lastBlockFetched' = 0
    /\ pc' = "get_logs"
    /\ logs' = <<>>
    /\ operatorNonce' = 0
    /\ UNCHANGED <<l1Height, mempool, l2Nonce, minted, fetched, addFailures>>

-----------------------------------------------------------------------------
(* Environment                                                             *)

NewL1Block ==
    /\ l1Height < MaxL1Block
    /\ l1Height' = l1Height + 1
    /\ UNCHANGED <<lastBlockFetched, pc, logs, operatorNonce, mempool, l2Nonce,
                   minted, fetched, restarts, addFailures>>

\* The block producer includes the pending mint carrying the next nonce
IncludeMint ==
    \E tx \in mempool :
        /\ tx.nonce = Last(l2Nonce)
        /\ mempool' = mempool \ {tx}
        /\ minted' = [minted EXCEPT ![tx.deposit] = @ + 1]
        /\ l2Nonce' = Append(l2Nonce, Last(l2Nonce) + 1)
        /\ UNCHANGED <<l1Height, lastBlockFetched, pc, logs, operatorNonce,
                       fetched, restarts, addFailures>>

EmptyBlock ==
    /\ Len(l2Nonce) <= MaxEmptyBlocks
    /\ l2Nonce' = Append(l2Nonce, Last(l2Nonce))
    /\ UNCHANGED <<l1Height, lastBlockFetched, pc, logs, operatorNonce, mempool,
                   minted, fetched, restarts, addFailures>>

-----------------------------------------------------------------------------

Init ==
    /\ l1Height = 0
    /\ lastBlockFetched = 0
    /\ pc = "get_logs"
    /\ logs = <<>>
    /\ operatorNonce = 0
    /\ mempool = {}
    /\ l2Nonce = <<0>>
    /\ minted = [d \in Deposits |-> 0]
    /\ fetched = [d \in Deposits |-> 0]
    /\ restarts = 0
    /\ addFailures = 0

WatcherStep ==
    \/ \E current \in RpcBlockNumbers : GetLogs(current) \/ ReadNonce(current)
    \/ AddMint

Next ==
    \/ WatcherStep
    \/ Restart
    \/ NewL1Block
    \/ IncludeMint
    \/ EmptyBlock

\* The watcher loop never ends and the producer keeps building blocks
Spec == Init /\ [][Next]_vars /\ WF_vars(WatcherStep) /\ WF_vars(IncludeMint)

-----------------------------------------------------------------------------
(* Properties                                                              *)

TypeOK ==
    /\ l1Height \in 0..MaxL1Block
    /\ lastBlockFetched \in 0..MaxL1Block
    /\ pc \in {"get_logs", "read_nonce", "add"}
    /\ logs \in Seq(Deposits)
    /\ operatorNonce \in Nat
    /\ mempool \subseteq [deposit : Deposits, nonce : Nat]
    /\ l2Nonce \in Seq(Nat)
    /\ minted \in [Deposits -> Nat]
    /\ fetched \in [Deposits -> Nat]

\* get_logs asks for last_block_fetched + 1 ..= new_last_block and then
\* moves last_block_fetched to new_last_block: no block is skipped, so every
\* deposit log up to last_block_fetched has been returned by some call, also
\* across restarts and failed mempool additions.
NoDepositSkipped ==
    \A d \in Deposits : DepositBlock[d] <= lastBlockFetched => fetched[d] >= 1

\* No deposit is minted twice on L2: process_logs builds a mint for every
\* log get_logs returns, and nothing else prevents a second mint of the
\* same deposit from being included.
MintedAtMostOnce ==
    \A d \in Deposits : minted[d] <= 1

\* The watcher loop keeps calling get_logs, each call advancing at most
\* max_block_step blocks: once L1 stops growing, last_block_fetched
\* reaches its latest block and stays there.
CatchesUp ==
    <>[](lastBlockFetched = l1Height)

\* Every deposit made on L1 is eventually minted on L2 (the purpose of the
\* watcher; the mint's nonce comes from process_logs' operator_nonce).
EveryDepositMinted ==
    \A d \in Deposits : (DepositBlock[d] <= l1Height) ~> (minted[d] > 0)
====
