----------------------------- MODULE MCHashTable -----------------------------
(***************************************************************************)
(* A table of one to three buckets and up to four keys, two of which share *)
(* their hash value: it grows with the third key.                          *)
(***************************************************************************)
EXTENDS HashTable, TLC

CONSTANTS k1, k2, k3, k4

MCHashVal == k1 :> 0 @@ k2 :> 1 @@ k3 :> 5 @@ k4 :> 5
MCPrimes  == <<1, 2, 3>>
==============================================================================
