----------------------------- MODULE MCL1Watcher -----------------------------
(* Deposits d1, d2 in L1 block 1, d3 in block 3 and d4 in block 4, so     *)
(* that one get_logs call returns two logs, max_block_step 2 skips over   *)
(* an empty block, and a deposit lands in the last block of a range.      *)
EXTENDS L1Watcher

MCDepositBlock == <<1, 1, 3, 4>>
====
