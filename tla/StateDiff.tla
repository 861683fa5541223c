------------------------------ MODULE StateDiff ------------------------------
(***************************************************************************)
(* The L2 state diff wire format (crates/l2/proposer/state_diff.rs):      *)
(* StateDiff::encode and AccountStateDiff::encode as operators over byte   *)
(* sequences.  An Option is a sequence of at most one element.  Numbers    *)
(* are kept below 2^31, so a 32-byte big-endian word has zero bytes above  *)
(* its last four; `as u16` keeps its truncation.  The iteration order of   *)
(* the modified_accounts HashMap is an argument: the code does not fix it. *)
(***************************************************************************)
EXTENDS Naturals, Sequences, SequencesExt

\* x.to_be_bytes() / U256::to_big_endian into a w-byte buffer
BE(x, w) == [i \in 1..w |-> IF w - i >= 4 THEN 0 ELSE (x \div 256^(w - i)) % 256]

AsU16(n) == n % 65536
Word(x) == BE(x, 32)          \* U256 and H256
AddressBytes(a) == BE(a, 20)  \* Address.0

\* AccountStateDiffType
NewBalance == 1
NonceDiff == 2
Storage == 4
Bytecode == 8
BytecodeHash == 16

Ok(x) == [ok |-> TRUE, val |-> x]
Err(e) == [ok |-> FALSE, val |-> e]

\* The fields AccountStateDiff::encode writes when they are set, in order:
\* the flag each adds to the type byte and the bytes it appends
AccountFields(a) ==
    << [flag |-> NewBalance, set |-> a.new_balance # <<>>,
        bytes |-> IF a.new_balance = <<>> THEN <<>> ELSE Word(a.new_balance[1])],
       [flag |-> NonceDiff, set |-> a.nonce_diff # <<>>,
        bytes |-> IF a.nonce_diff = <<>> THEN <<>> ELSE BE(a.nonce_diff[1], 2)],
       [flag |-> Storage, set |-> a.storage # <<>>,
        bytes |-> BE(AsU16(Len(a.storage)), 2)
                  \o FlattenSeq([i \in DOMAIN a.storage |-> Word(a.storage[i][1]) \o Word(a.storage[i][2])])],
       [flag |-> Bytecode, set |-> a.bytecode # <<>>,
        bytes |-> IF a.bytecode = <<>> THEN <<>>
                  ELSE BE(AsU16(Len(a.bytecode[1])), 2) \o a.bytecode[1]],
       [flag |-> BytecodeHash, set |-> a.bytecode_hash # <<>>,
        bytes |-> IF a.bytecode_hash = <<>> THEN <<>> ELSE Word(a.bytecode_hash[1])] >>

\* AccountStateDiff::encode: the type byte and the bytes of the set fields
AccountEncode(a) ==
    LET present == SelectSeq(AccountFields(a), LAMBDA f : f.set)
        type == FoldLeft(LAMBDA t, f : t + f.flag, 0, present)
    IN IF a.bytecode # <<>> /\ a.bytecode_hash # <<>> THEN Err("BytecodeAndBytecodeHashSet")
       ELSE IF type = 0 THEN Err("EmptyAccountDiff")
       ELSE Ok([type |-> type, bytes |-> FlattenSeq([i \in DOMAIN present |-> present[i].bytes])])

WithdrawalBytes(w) == AddressBytes(w.address) \o Word(w.amount) \o Word(w.tx_hash)
DepositBytes(d) == AddressBytes(d.address) \o Word(d.amount)

\* StateDiff::encode, visiting modified_accounts in the given order; the
\* first account whose encode fails ends it with that error
Encode(diff, order) ==
    LET accounts == [i \in DOMAIN order |-> AccountEncode(diff.modified_accounts[order[i]])]
        failed == {i \in DOMAIN accounts : ~accounts[i].ok}
    IN IF diff.version # 1 THEN Err("UnsupportedVersion")
       ELSE IF failed # {} THEN accounts[Min(failed)]
       ELSE Ok(<<diff.version>> \o BE(AsU16(Len(order)), 2)
               \o FlattenSeq([i \in DOMAIN accounts |->
                                 BE(accounts[i].val.type, 1) \o AddressBytes(order[i])
                                 \o accounts[i].val.bytes])
               \o FlattenSeq([i \in DOMAIN diff.withdrawal_logs |-> WithdrawalBytes(diff.withdrawal_logs[i])])
               \o FlattenSeq([i \in DOMAIN diff.deposit_logs |-> DepositBytes(diff.deposit_logs[i])]))

\* The results encode can give for a diff, over every HashMap order
Encodings(diff) == {Encode(diff, order) : order \in SetToSeqs(DOMAIN diff.modified_accounts)}
=============================================================================
