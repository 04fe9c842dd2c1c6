------------------------------- MODULE KeyMap -------------------------------
(***************************************************************************)
(* What a hash table promises to its callers: a map from keys to data in   *)
(* which the first insertion of a key counts until the key is removed.     *)
(* HashTable.tla is shown to implement this module.                        *)
(***************************************************************************)
CONSTANTS Keys, Data, NoData, MayFail

VARIABLES
  map,   \* key -> data, NoData for a key that is not there
  res    \* what the last call returned

vars == <<map, res>>

Init == map = [k \in Keys |-> NoData] /\ res = "ok"

Insert(k, d) ==
  /\ map[k] = NoData
  /\ map' = [map EXCEPT ![k] = d] /\ res' = "ok"

(* The key is there already, or memory is short: nothing is changed.       *)
Refuse(k) ==
  /\ MayFail \/ map[k] # NoData
  /\ res' = "error" /\ UNCHANGED map

Lookup(k) == res' = map[k] /\ UNCHANGED map

Remove(k) ==
  /\ res' = map[k]
  /\ map' = [map EXCEPT ![k] = NoData]

Erase == map' = [k \in Keys |-> NoData] /\ res' = "ok"

Next ==
  \/ \E k \in Keys, d \in Data : Insert(k, d)
  \/ \E k \in Keys : Refuse(k) \/ Lookup(k) \/ Remove(k)
  \/ Erase

Spec == Init /\ [][Next]_vars
=============================================================================
