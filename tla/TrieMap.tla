------------------------------ MODULE TrieMap ------------------------------
(***************************************************************************)
(* What the trie facade promises its callers: a map from keys to values   *)
(* that can be committed (compute_root_hash records the current root in   *)
(* the RootNodes table) and later reopened at any committed version       *)
(* (new_at).  A trie seated on a fresh root (Trie::new) is the empty map. *)
(* Lookups are not steps: the map itself is what get must return.         *)
(***************************************************************************)
CONSTANTS Keys, Values, NoValue

VARIABLES map, committed

vars == <<map, committed>>

EmptyMap == [k \in Keys |-> NoValue]

TypeOK ==
    /\ map \in [Keys -> Values \cup {NoValue}]
    /\ committed \subseteq [Keys -> Values \cup {NoValue}]

Init ==
    /\ map = EmptyMap
    /\ committed = {}

Insert(k, v) ==
    /\ map' = [map EXCEPT ![k] = v]
    /\ UNCHANGED committed

Remove(k) ==
    /\ map' = [map EXCEPT ![k] = NoValue]
    /\ UNCHANGED committed

Commit ==
    /\ committed' = committed \cup {map}
    /\ UNCHANGED map

Reopen ==
    /\ \E m \in committed \cup {EmptyMap} : map' = m
    /\ UNCHANGED committed

Next ==
    \/ \E k \in Keys, v \in Values : Insert(k, v)
    \/ \E k \in Keys : Remove(k)
    \/ Commit
    \/ Reopen

Spec == Init /\ [][Next]_vars
=============================================================================
