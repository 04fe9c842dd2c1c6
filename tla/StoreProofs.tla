----------------------------- MODULE StoreProofs -----------------------------
(***************************************************************************)
(* What the program keeps its cells and names in, for every size of it.    *)
(*                                                                         *)
(* The table of hash.c for any keys, hash function and table of sizes:     *)
(* every entry is where it is looked for, also half way through a resize,  *)
(* and the table is the map KeyMap describes.                              *)
(*                                                                         *)
(* The grid of sheet.c for grids of any size and any number of columns in  *)
(* the INI file: the counts rows and cols always enclose every entry,      *)
(* reading never meets a missing cell, and neither trimming nor reading    *)
(* changes what the sheet says.                                            *)
(***************************************************************************)
EXTENDS HashTable, Sheet, FiniteSetTheorems, TLAPS

(* The chains a resize has passed are empty.                               *)
PassedEmpty == pc = "move" => \A h \in 0 .. at - 1 : buckets[h] = {}

IInv ==
  TypeOK /\ SlotsRight /\ KeysOnce /\ PassedEmpty /\ IsFiniteSet(Entries) /\ Counted

(* A slot is the index of a bucket.                                        *)
LEMMA SlotInRange ==
  ASSUME NEW k \in Keys, NEW n \in Nat \ {0}
  PROVE  Slot(k, n) \in 0 .. n - 1
<1>1. HashVal[k] \in Nat
  BY HashAssumption
<1>2. \A v \in Nat : v % n \in 0 .. n - 1
  OBVIOUS
<1> QED
  BY <1>1, <1>2 DEF Slot

(* A size is one of the primes.                                            *)
LEMMA SizesPositive ==
  ASSUME NEW n \in Nat
  PROVE  SizeFor(n) \subseteq Nat \ {0}
  BY PrimesAssumption DEF SizeFor

(* What a chain holds, and what the table holds, are entries.              *)
LEMMA EntriesTyped ==
  ASSUME TypeOK
  PROVE  Entries \subseteq Entry
  BY DEF TypeOK, Entries, OldEntries, NewEntries

(* Between two calls a key is in the table if and only if the chain of its *)
(* slot has it: looking in one chain is enough.                            *)
LEMMA FoundIsThere ==
  ASSUME IInv, pc # "move", NEW k \in Keys
  PROVE  Found(k) = {e \in Entries : e.key = k}
<1>1. Slot(k, nbucks) \in 0 .. nbucks - 1
  BY SlotInRange DEF IInv, TypeOK
<1>2. Entries = OldEntries
  BY DEF Entries
<1>3. ASSUME NEW e \in OldEntries, e.key = k PROVE e \in buckets[Slot(k, nbucks)]
  <2>1. PICK h \in 0 .. nbucks - 1 : e \in buckets[h]
    BY <1>3 DEF OldEntries
  <2>2. Slot(e.key, nbucks) = h
    BY <2>1 DEF IInv, SlotsRight
  <2> QED
    BY <1>3, <2>1, <2>2
<1>4. buckets[Slot(k, nbucks)] \subseteq OldEntries
  BY <1>1 DEF OldEntries
<1> QED
  BY <1>2, <1>3, <1>4 DEF Found

(* An insertion adds one entry, whose key the table did not have, and puts *)
(* it where it belongs.                                                    *)
LEMMA InsertStep ==
  ASSUME IInv, NEW k \in Keys, NEW d \in Data, Insert(k, d)
  PROVE  /\ [key |-> k, data |-> d] \in Entry
         /\ \A e \in Entries : e.key # k
         /\ Entries' = Entries \cup {[key |-> k, data |-> d]}
         /\ TypeOK' /\ SlotsRight'
<1> DEFINE new == [key |-> k, data |-> d]
<1> DEFINE slot == Slot(k, nbucks)
<1>1. new \in Entry /\ new.key = k
  BY DEF Entry
<1>2. slot \in 0 .. nbucks - 1
  BY SlotInRange DEF IInv, TypeOK
<1>3. \A e \in Entries : e.key # k
  BY FoundIsThere DEF Insert
<1> HIDE DEF new, slot
<1>4. /\ pc = "idle" /\ pc' = "resize" /\ nbucks' = nbucks /\ nkeys' = nkeys + 1
      /\ buckets' = [buckets EXCEPT ![slot] = @ \cup {new}]
      /\ new_size' = new_size /\ new_bucks' = new_bucks /\ at' = at
  BY DEF Insert, resizing, new, slot
<1>5. buckets' \in [0 .. nbucks - 1 -> SUBSET Entry]
  BY <1>1, <1>2, <1>4 DEF IInv, TypeOK
<1>6. \A h \in 0 .. nbucks - 1 :
        buckets'[h] = IF h = slot THEN buckets[h] \cup {new} ELSE buckets[h]
  BY <1>2, <1>4 DEF IInv, TypeOK
<1>7. OldEntries' = OldEntries \cup {new}
  BY <1>2, <1>4, <1>6 DEF OldEntries
<1>8. TypeOK'
  BY <1>4, <1>5 DEF IInv, TypeOK
<1>9. SlotsRight'
  BY <1>1, <1>4, <1>6 DEF IInv, SlotsRight, slot
<1> QED
  BY <1>1, <1>3, <1>4, <1>7, <1>8, <1>9 DEF Entries, new

(* A removal takes the entry of the key away and no other one.             *)
LEMMA RemoveStep ==
  ASSUME IInv, NEW k \in Keys, Remove(k)
  PROVE  \E e \in Entries :
           /\ e.key = k /\ res' = e.data
           /\ Entries' = Entries \ {e}
           /\ TypeOK' /\ SlotsRight'
<1> DEFINE slot == Slot(k, nbucks)
<1>1. PICK e \in Found(k) :
        /\ buckets' = [buckets EXCEPT ![slot] = @ \ {e}]
        /\ res' = e.data
  BY DEF Remove
<1>2. pc = "idle" /\ Entries = OldEntries
  BY DEF Remove, Entries
<1>3. e \in Entries /\ e.key = k
  BY <1>2, FoundIsThere
<1>4. slot \in 0 .. nbucks - 1
  BY SlotInRange DEF IInv, TypeOK
<1> HIDE DEF slot
<1>5. /\ pc' = "resize" /\ nbucks' = nbucks /\ nkeys' = nkeys - 1
      /\ new_size' = new_size /\ new_bucks' = new_bucks /\ at' = at
  BY DEF Remove, resizing
<1>6. \A h \in 0 .. nbucks - 1 :
        buckets'[h] = IF h = slot THEN buckets[h] \ {e} ELSE buckets[h]
  BY <1>1, <1>4 DEF IInv, TypeOK
<1>7. \A h \in 0 .. nbucks - 1 : h # slot => e \notin buckets[h]
  BY <1>3 DEF IInv, SlotsRight, slot
<1>8. OldEntries' = OldEntries \ {e}
  BY <1>5, <1>6, <1>7, ZenonT(30) DEF OldEntries
<1>9. nkeys - 1 \in Nat
  <2>1. Cardinality(Entries) \in Nat /\ Cardinality(Entries) # 0
    BY <1>3, FS_CardinalityType, FS_EmptySet DEF IInv
  <2> QED
    BY <2>1 DEF IInv, Counted
<1>10. TypeOK'
  BY <1>1, <1>4, <1>5, <1>9 DEF IInv, TypeOK
<1>11. SlotsRight'
  BY <1>5, <1>6 DEF IInv, SlotsRight
<1> QED
  BY <1>1, <1>2, <1>3, <1>5, <1>8, <1>10, <1>11 DEF Entries

(* Erasing leaves no entry.                                                *)
LEMMA EraseStep ==
  ASSUME IInv, Erase
  PROVE  Entries' = {} /\ TypeOK' /\ SlotsRight'
<1>1. /\ pc' = "resize" /\ nbucks' = nbucks /\ nkeys' = 0
      /\ buckets' = [h \in 0 .. nbucks - 1 |-> {}]
      /\ new_size' = new_size /\ new_bucks' = new_bucks /\ at' = at
  BY DEF Erase, resizing, NoBucks
<1>2. \A h \in 0 .. nbucks - 1 : buckets'[h] = {}
  BY <1>1
<1> QED
  BY <1>1, <1>2 DEF IInv, TypeOK, SlotsRight, Entries, OldEntries

(* The steps of a resize keep the entries.                                 *)
LEMMA ResizeStep ==
  ASSUME IInv, Resize
  PROVE  Entries' = Entries /\ TypeOK' /\ SlotsRight' /\ KeysOnce' /\ PassedEmpty'
<1>1. CASE KeepSize
  <2>1. /\ pc = "resize" /\ pc' = "idle"
        /\ nbucks' = nbucks /\ buckets' = buckets /\ nkeys' = nkeys
        /\ new_size' = new_size /\ new_bucks' = new_bucks /\ at' = at
    BY <1>1 DEF KeepSize, resizing
  <2>2. Entries' = Entries
    BY <2>1 DEF Entries, OldEntries
  <2>3. TypeOK' /\ SlotsRight'
    BY <2>1 DEF IInv, TypeOK, SlotsRight
  <2>4. KeysOnce' /\ PassedEmpty'
    BY <2>1, <2>2 DEF IInv, KeysOnce, PassedEmpty
  <2> QED
    BY <2>2, <2>3, <2>4
<1>2. CASE BeginMove
  <2>1. /\ pc = "resize" /\ pc' = "move" /\ at' = 0
        /\ nbucks' = nbucks /\ buckets' = buckets /\ nkeys' = nkeys
        /\ new_bucks' = [h \in 0 .. new_size' - 1 |-> {}]
    BY <1>2 DEF BeginMove, NoBucks
  <2>2. new_size' \in Nat \ {0}
    BY <1>2, SizesPositive DEF BeginMove, IInv, TypeOK
  <2>3. \A h \in 0 .. new_size' - 1 : new_bucks'[h] = {}
    BY <2>1
  <2>4. OldEntries' = OldEntries /\ NewEntries' = {}
    BY <2>1, <2>3 DEF OldEntries, NewEntries
  <2>5. Entries' = Entries
    BY <2>1, <2>4 DEF Entries
  <2>6. TypeOK'
    BY <2>1, <2>2 DEF IInv, TypeOK
  <2>7. SlotsRight'
    BY <2>1, <2>3 DEF IInv, SlotsRight
  <2>8. KeysOnce' /\ PassedEmpty'
    BY <2>1, <2>4, <2>5 DEF IInv, KeysOnce, PassedEmpty
  <2> QED
    BY <2>5, <2>6, <2>7, <2>8
<1>3. CASE MoveEntry
  <2>1. /\ pc = "move" /\ at < nbucks /\ pc' = pc /\ at' = at
        /\ nbucks' = nbucks /\ nkeys' = nkeys /\ new_size' = new_size
    BY <1>3 DEF MoveEntry
  <2>2. PICK e \in buckets[at] :
          /\ buckets' = [buckets EXCEPT ![at] = @ \ {e}]
          /\ new_bucks' = [new_bucks EXCEPT ![Slot(e.key, new_size)] = @ \cup {e}]
    BY <1>3 DEF MoveEntry
  <2> DEFINE slot == Slot(e.key, new_size)
  <2>3. at \in 0 .. nbucks - 1 /\ e \in Entry
    BY <2>1, <2>2 DEF IInv, TypeOK
  <2>4. slot \in 0 .. new_size - 1
    BY <2>3, SlotInRange DEF IInv, TypeOK, Entry
  <2> HIDE DEF slot
  <2>5. \A h \in 0 .. nbucks - 1 :
          buckets'[h] = IF h = at THEN buckets[h] \ {e} ELSE buckets[h]
    BY <2>2, <2>3 DEF IInv, TypeOK
  <2>6. \A h \in 0 .. new_size - 1 :
          new_bucks'[h] = IF h = slot THEN new_bucks[h] \cup {e} ELSE new_bucks[h]
    BY <2>2, <2>4 DEF IInv, TypeOK, slot
  <2>7. \A h \in 0 .. nbucks - 1 : h # at => e \notin buckets[h]
    BY <2>2, <2>3 DEF IInv, SlotsRight
  <2>8. OldEntries' = OldEntries \ {e} /\ e \in OldEntries
    BY <2>1, <2>2, <2>3, <2>5, <2>7 DEF OldEntries
  <2>9. NewEntries' = NewEntries \cup {e}
    BY <2>1, <2>4, <2>6 DEF NewEntries
  <2>10. Entries' = Entries
    BY <2>1, <2>8, <2>9 DEF Entries
  <2>11. TypeOK'
    <3>1. buckets' \in [0 .. nbucks - 1 -> SUBSET Entry]
      BY <2>2, <2>3 DEF IInv, TypeOK
    <3>2. new_bucks' \in [0 .. new_size - 1 -> SUBSET Entry]
      BY <2>2, <2>3, <2>4 DEF IInv, TypeOK, slot
    <3> QED
      BY <2>1, <3>1, <3>2 DEF IInv, TypeOK
  <2>12. SlotsRight'
    <3>1. \A h \in 0 .. nbucks - 1 : \A f \in buckets'[h] : Slot(f.key, nbucks) = h
      BY <2>5 DEF IInv, SlotsRight
    <3>2. ASSUME NEW h \in 0 .. new_size - 1, NEW f \in new_bucks'[h]
          PROVE  Slot(f.key, new_size) = h
      <4>1. CASE f \in new_bucks[h]
        BY <2>1, <4>1 DEF IInv, SlotsRight
      <4>2. CASE f = e /\ h = slot
        BY <4>2 DEF slot
      <4> QED
        BY <2>6, <4>1, <4>2
    <3> QED
      BY <2>1, <3>1, <3>2 DEF SlotsRight
  <2>13. KeysOnce'
    BY <2>1, <2>8, <2>9, <2>10 DEF IInv, KeysOnce
  <2>14. PassedEmpty'
    <3>1. \A h \in 0 .. at - 1 : h \in 0 .. nbucks - 1 /\ h # at
      BY <2>3 DEF IInv, TypeOK
    <3>2. \A h \in 0 .. at - 1 : buckets'[h] = buckets[h] /\ buckets[h] = {}
      BY <2>1, <2>5, <3>1 DEF IInv, PassedEmpty
    <3> QED
      BY <2>1, <3>2 DEF PassedEmpty
  <2> QED
    BY <2>10, <2>11, <2>12, <2>13, <2>14
<1>4. CASE NextChain
  <2>1. /\ pc = "move" /\ at < nbucks /\ buckets[at] = {} /\ at' = at + 1
        /\ nbucks' = nbucks /\ buckets' = buckets /\ nkeys' = nkeys /\ pc' = pc
        /\ new_size' = new_size /\ new_bucks' = new_bucks
    BY <1>4 DEF NextChain
  <2>2. OldEntries' = OldEntries /\ NewEntries' = NewEntries /\ Entries' = Entries
    BY <2>1 DEF Entries, OldEntries, NewEntries
  <2>3. TypeOK'
    BY <2>1 DEF IInv, TypeOK
  <2>4. SlotsRight'
    BY <2>1 DEF IInv, SlotsRight
  <2>5. KeysOnce'
    BY <2>1, <2>2 DEF IInv, KeysOnce
  <2>6. PassedEmpty'
    <3>1. \A h \in 0 .. at : h \in 0 .. at - 1 \/ h = at
      BY DEF IInv, TypeOK
    <3> QED
      BY <2>1, <3>1 DEF IInv, PassedEmpty, TypeOK
  <2> QED
    BY <2>2, <2>3, <2>4, <2>5, <2>6
<1>5. CASE EndMove
  <2>1. /\ pc = "move" /\ at = nbucks /\ pc' = "idle" /\ nkeys' = nkeys
        /\ buckets' = new_bucks /\ nbucks' = new_size
        /\ new_size' = new_size /\ new_bucks' = new_bucks /\ at' = at
    BY <1>5 DEF EndMove, resizing
  <2>2. OldEntries = {}
    BY <2>1 DEF IInv, PassedEmpty, OldEntries
  <2>3. OldEntries' = NewEntries
    BY <2>1 DEF OldEntries, NewEntries
  <2>4. Entries' = Entries
    BY <2>1, <2>2, <2>3 DEF Entries
  <2>5. TypeOK' /\ SlotsRight' /\ PassedEmpty'
    BY <2>1 DEF IInv, TypeOK, SlotsRight, PassedEmpty
  <2>6. KeysOnce'
    BY <2>1, <2>4 DEF IInv, KeysOnce
  <2> QED
    BY <2>4, <2>5, <2>6
<1> QED
  BY <1>1, <1>2, <1>3, <1>4, <1>5 DEF Resize

(* A call that does not change the table.                                  *)
LEMMA SameTable ==
  ASSUME IInv, UNCHANGED <<nbucks, buckets, nkeys, pc, resizing>>
  PROVE  IInv' /\ Entries' = Entries
<1>1. Entries' = Entries /\ OldEntries' = OldEntries /\ NewEntries' = NewEntries
  BY DEF resizing, Entries, OldEntries, NewEntries
<1>2. TypeOK' /\ SlotsRight' /\ PassedEmpty'
  BY DEF resizing, IInv, TypeOK, SlotsRight, PassedEmpty
<1>3. KeysOnce'
  BY <1>1 DEF resizing, IInv, KeysOnce
<1>4. IsFiniteSet(Entries)' /\ Counted'
  BY <1>1 DEF resizing, IInv, Counted
<1> QED
  BY <1>1, <1>2, <1>3, <1>4 DEF IInv

(* A new table is empty.                                                   *)
LEMMA InvInit == Init => IInv /\ Entries = {}
<1> SUFFICES ASSUME Init PROVE IInv /\ Entries = {}
  OBVIOUS
<1>1. Primes[1] \in Nat \ {0}
  BY PrimesAssumption
<1>2. /\ nbucks = Primes[1] /\ buckets = [h \in 0 .. nbucks - 1 |-> {}]
      /\ nkeys = 0 /\ pc = "idle" /\ at = 0 /\ new_size = Primes[1]
      /\ new_bucks = [h \in 0 .. new_size - 1 |-> {}]
  BY DEF Init, NoBucks
<1>3. Entries = {}
  BY <1>2 DEF Entries, OldEntries
<1>4. TypeOK /\ SlotsRight
  BY <1>1, <1>2 DEF TypeOK, SlotsRight
<1>5. KeysOnce /\ PassedEmpty
  BY <1>2, <1>3 DEF KeysOnce, PassedEmpty
<1>6. IsFiniteSet(Entries) /\ Counted
  BY <1>2, <1>3, FS_EmptySet DEF Counted
<1> QED
  BY <1>3, <1>4, <1>5, <1>6 DEF IInv

(* Every call and every step of a resize preserves the invariant.          *)
LEMMA InvStep == IInv /\ [Next]_vars => IInv'
<1> SUFFICES ASSUME IInv, [Next]_vars PROVE IInv'
  OBVIOUS
<1>1. ASSUME NEW k \in Keys, NEW d \in Data, Insert(k, d) PROVE IInv'
  <2> DEFINE new == [key |-> k, data |-> d]
  <2>1. /\ \A e \in Entries : e.key # k
        /\ Entries' = Entries \cup {new}
        /\ TypeOK' /\ SlotsRight'
    BY <1>1, InsertStep
  <2>2. nkeys' = nkeys + 1 /\ pc' = "resize"
    BY <1>1 DEF Insert
  <2>3. new.key = k /\ new \notin Entries
    BY <2>1
  <2> HIDE DEF new
  <2>4. KeysOnce' /\ PassedEmpty'
    BY <2>1, <2>2, <2>3 DEF IInv, KeysOnce, PassedEmpty
  <2>5. IsFiniteSet(Entries') /\ Cardinality(Entries') = Cardinality(Entries) + 1
    BY <2>1, <2>3, FS_AddElement DEF IInv
  <2> QED
    BY <2>1, <2>2, <2>4, <2>5 DEF IInv, Counted
<1>2. ASSUME NEW k \in Keys, Remove(k) PROVE IInv'
  <2>1. PICK e \in Entries :
          Entries' = Entries \ {e} /\ TypeOK' /\ SlotsRight'
    BY <1>2, RemoveStep
  <2>2. nkeys' = nkeys - 1 /\ pc' = "resize"
    BY <1>2 DEF Remove
  <2>3. KeysOnce' /\ PassedEmpty'
    BY <2>1, <2>2 DEF IInv, KeysOnce, PassedEmpty
  <2>4. IsFiniteSet(Entries') /\ Cardinality(Entries') = Cardinality(Entries) - 1
    BY <2>1, FS_RemoveElement DEF IInv
  <2> QED
    BY <2>1, <2>2, <2>3, <2>4 DEF IInv, Counted
<1>3. CASE Erase
  <2>1. Entries' = {} /\ TypeOK' /\ SlotsRight'
    BY <1>3, EraseStep
  <2>2. nkeys' = 0 /\ pc' = "resize"
    BY <1>3 DEF Erase
  <2>3. KeysOnce' /\ PassedEmpty'
    BY <2>1, <2>2 DEF KeysOnce, PassedEmpty
  <2> QED
    BY <2>1, <2>2, <2>3, FS_EmptySet DEF IInv, Counted
<1>4. CASE Resize
  <2>1. Entries' = Entries /\ TypeOK' /\ SlotsRight' /\ KeysOnce' /\ PassedEmpty'
    BY <1>4, ResizeStep
  <2>2. nkeys' = nkeys
    BY <1>4 DEF Resize, KeepSize, BeginMove, MoveEntry, NextChain, EndMove
  <2> QED
    BY <2>1, <2>2 DEF IInv, Counted
<1>5. ASSUME NEW k \in Keys, InsertRefused(k) \/ Lookup(k) \/ RemoveMissing(k)
      PROVE  IInv'
  BY <1>5, SameTable DEF InsertRefused, Lookup, RemoveMissing
<1>6. CASE UNCHANGED vars
  BY <1>6, SameTable DEF vars
<1> QED
  BY <1>1, <1>2, <1>3, <1>4, <1>5, <1>6 DEF Next, Call

(* The table stays in order through any calls: every entry is where it is  *)
(* looked for, no key is there twice and nkeys counts them.                *)
THEOREM TableInvariance == Spec => []IInv
  BY InvInit, InvStep, PTL DEF Spec

(* Type correctness, for every hash function and table of sizes.           *)
THEOREM TableTyped == Spec => []TypeOK
<1>1. IInv => TypeOK
  BY DEF IInv
<1> QED
  BY TableInvariance, <1>1, PTL

(* For every hash function, table of sizes and order of calls, an entry is *)
(* in the chain of its slot, a key is there once and nkeys counts them.    *)
THEOREM ChainsStaySound == Spec => []ChainsSound
<1>1. IInv => ChainsSound
  BY DEF IInv, ChainsSound
<1> QED
  BY TableInvariance, <1>1, PTL

-----------------------------------------------------------------------------
(* What a key is mapped to depends on the entries only, of which there is  *)
(* at most one for the key.                                                *)
LEMMA MappedTo ==
  ASSUME IInv
  PROVE  /\ \A e \in Entries : Mapped(e.key) = e.data
         /\ \A k \in Keys : (\A e \in Entries : e.key # k) => Mapped(k) = NoData
         /\ \A e \in Entries : e.data # NoData
<1>1. ASSUME NEW e \in Entries PROVE Mapped(e.key) = e.data
  <2>1. (CHOOSE f \in Entries : f.key = e.key) = e
    BY DEF IInv, KeysOnce
  <2> QED
    BY <2>1 DEF Mapped
<1>2. \A e \in Entries : e.data # NoData
  BY EntriesTyped, DataAssumption DEF IInv, Entry
<1> QED
  BY <1>1, <1>2 DEF Mapped

(* The same of the state after a step.                                     *)
LEMMA MappedToNext ==
  ASSUME IInv'
  PROVE  \A e \in Entries' : Mapped(e.key)' = e.data
<1>1. ASSUME NEW e \in Entries' PROVE Mapped(e.key)' = e.data
  <2>1. (CHOOSE f \in Entries' : f.key = e.key) = e
    BY DEF IInv, KeysOnce
  <2> QED
    BY <2>1 DEF Mapped
<1> QED
  BY <1>1

(* With the same entries a key is mapped to the same data.                 *)
LEMMA MappedSame ==
  ASSUME Entries' = Entries
  PROVE  [k \in Keys |-> Mapped(k)]' = [k \in Keys |-> Mapped(k)]
  BY DEF Mapped

(* Each step of the table is a step of the map, or is not seen.            *)
LEMMA MapStep == IInv /\ IInv' /\ [Next]_vars => [Map!Next]_(Map!vars)
<1> SUFFICES ASSUME IInv, IInv', [Next]_vars PROVE [Map!Next]_(Map!vars)
  OBVIOUS
<1> DEFINE map == [k \in Keys |-> Mapped(k)]
<1>1. ASSUME NEW k \in Keys, NEW d \in Data, Insert(k, d) PROVE Map!Insert(k, d)
  <2> DEFINE new == [key |-> k, data |-> d]
  <2>1. (\A e \in Entries : e.key # k) /\ Entries' = Entries \cup {new}
    BY <1>1, InsertStep
  <2>2. Mapped(k) = NoData
    BY <2>1, MappedTo
  <2>3. Mapped(k)' = d
    <3>1. new \in Entries' /\ new.key = k /\ new.data = d
      BY <2>1
    <3> QED
      BY <3>1, MappedToNext
  <2>4. ASSUME NEW q \in Keys, q # k PROVE Mapped(q)' = Mapped(q)
    <3>1. \A e : e \in Entries' /\ e.key = q <=> e \in Entries /\ e.key = q
      BY <2>1, <2>4
    <3> QED
      BY <3>1 DEF Mapped
  <2>5. map' = [map EXCEPT ![k] = d]
    BY <2>3, <2>4
  <2>6. map[k] = NoData /\ res' = "ok"
    BY <1>1, <2>2 DEF Insert
  <2> QED
    BY <2>5, <2>6 DEF Map!Insert
<1>2. ASSUME NEW k \in Keys, Remove(k) PROVE Map!Remove(k)
  <2>1. PICK e \in Entries : e.key = k /\ res' = e.data /\ Entries' = Entries \ {e}
    BY <1>2, RemoveStep
  <2>2. Mapped(k) = e.data
    BY <2>1, MappedTo
  <2>3. \A f \in Entries' : f.key # k
    BY <2>1 DEF IInv, KeysOnce
  <2>4. Mapped(k)' = NoData
    BY <2>3 DEF Mapped
  <2>5. ASSUME NEW q \in Keys, q # k PROVE Mapped(q)' = Mapped(q)
    <3>1. \A f : f \in Entries' /\ f.key = q <=> f \in Entries /\ f.key = q
      BY <2>1, <2>5
    <3> QED
      BY <3>1 DEF Mapped
  <2>6. map' = [map EXCEPT ![k] = NoData]
    BY <2>4, <2>5
  <2> QED
    BY <2>1, <2>2, <2>6 DEF Map!Remove
<1>3. ASSUME Erase PROVE Map!Erase
  <2>1. Entries' = {} /\ res' = "ok"
    BY <1>3, EraseStep DEF Erase
  <2>2. \A k \in Keys : Mapped(k)' = NoData
    BY <2>1 DEF Mapped
  <2> QED
    BY <2>1, <2>2 DEF Map!Erase
<1>4. ASSUME NEW k \in Keys, InsertRefused(k) PROVE Map!Refuse(k)
  <2>1. pc = "idle" /\ res' = "error" /\ map' = map
    BY <1>4, SameTable, MappedSame DEF InsertRefused
  <2>2. CASE MayFail
    BY <2>1, <2>2 DEF Map!Refuse
  <2>3. CASE Found(k) # {}
    <3>1. PICK e \in Entries : e.key = k
      BY <2>1, <2>3, FoundIsThere
    <3>2. map[k] # NoData
      BY <3>1, MappedTo
    <3> QED
      BY <2>1, <3>2 DEF Map!Refuse
  <2> QED
    BY <1>4, <2>2, <2>3 DEF InsertRefused
<1>5. ASSUME NEW k \in Keys, Lookup(k) PROVE Map!Lookup(k)
  <2>1. pc = "idle" /\ map' = map
    BY <1>5, SameTable, MappedSame DEF Lookup
  <2>2. CASE Found(k) = {} /\ res' = NoData
    <3>1. Mapped(k) = NoData
      BY <2>1, <2>2, FoundIsThere, MappedTo
    <3> QED
      BY <2>1, <2>2, <3>1 DEF Map!Lookup
  <2>3. ASSUME NEW e \in Found(k), res' = e.data PROVE Map!Lookup(k)
    <3>1. Mapped(k) = e.data
      BY <2>1, FoundIsThere, MappedTo
    <3> QED
      BY <2>1, <2>3, <3>1 DEF Map!Lookup
  <2> QED
    BY <1>5, <2>2, <2>3 DEF Lookup
<1>6. ASSUME NEW k \in Keys, RemoveMissing(k) PROVE Map!Remove(k)
  <2>1. pc = "idle" /\ Found(k) = {} /\ res' = NoData /\ map' = map
    BY <1>6, SameTable, MappedSame DEF RemoveMissing
  <2>2. Mapped(k) = NoData
    BY <2>1, FoundIsThere, MappedTo
  <2>3. map' = [map EXCEPT ![k] = NoData]
    BY <2>1, <2>2
  <2> QED
    BY <2>1, <2>2, <2>3 DEF Map!Remove
<1>7. CASE Resize
  <2>1. map' = map
    BY <1>7, ResizeStep, MappedSame
  <2>2. res' = res
    BY <1>7 DEF Resize, KeepSize, BeginMove, MoveEntry, NextChain, EndMove
  <2> QED
    BY <2>1, <2>2 DEF Map!vars
<1>8. CASE UNCHANGED vars
  <2>1. map' = map /\ res' = res
    BY <1>8, SameTable, MappedSame DEF vars
  <2> QED
    BY <2>1 DEF Map!vars
<1> QED
  BY <1>1, <1>2, <1>3, <1>4, <1>5, <1>6, <1>7, <1>8 DEF Next, Call, Map!Next

(* libsl4/hash.c implements the map its callers take it for, whatever the  *)
(* keys, their hash values and the table of bucket counts are.             *)
THEOREM TableIsMap == Spec => ImplementsMap
<1>1. Init => Map!Init
  <2> SUFFICES ASSUME Init PROVE Map!Init
    OBVIOUS
  <2>1. Entries = {} /\ res = "ok"
    BY InvInit DEF Init
  <2>2. \A k \in Keys : Mapped(k) = NoData
    BY <2>1 DEF Mapped
  <2> QED
    BY <2>1, <2>2 DEF Map!Init
<1> QED
  BY <1>1, TableInvariance, MapStep, PTL DEF Spec, ImplementsMap, Map!Spec

-----------------------------------------------------------------------------
(* While rows are read, the rows proc_sheet() counted are still there and  *)
(* every column before the next one has been made.                         *)
Reading ==
  phase = "read" => nrows <= rows /\ (i < nrows => j <= cols)

SheetInv == GridTypeOK /\ InBounds /\ Reading /\ NoCellMissing

(* The greater of two counts, which set_cell() keeps in rows and cols.     *)
LEMMA AtLeastBounds ==
  ASSUME NEW n \in Nat, NEW m \in Nat
  PROVE  /\ AtLeast(n, m) \in {n, m}
         /\ n <= AtLeast(n, m) /\ m <= AtLeast(n, m)
  BY DEF AtLeast

(* A new sheet has no cell, no row and no column.                          *)
LEMMA SheetInit == GridInit => SheetInv
<1> SUFFICES ASSUME GridInit PROVE SheetInv
  OBVIOUS
<1>1. cells \in [Pos -> Texts \cup {Blank, Absent}]
  BY DEF GridInit
<1>2. rows = 0 /\ cols = 0 /\ phase = "load" /\ nrows = 0 /\ i = 1 /\ j = 0
  BY DEF GridInit
<1>3. missing = FALSE /\ \A x \in Pos : cells[x] = Absent
  BY DEF GridInit
<1>4. GridTypeOK
  <2>1. /\ rows \in 0 .. LastRow + 1 /\ cols \in 0 .. LastCol + 1
        /\ nrows \in 0 .. LastRow + 1 /\ i \in 1 .. LastRow + 2 /\ j \in 0 .. NCol
    BY <1>2, BoundsAssumption
  <2>2. missing \in BOOLEAN
    BY <1>3
  <2> QED
    BY <1>1, <1>2, <2>1, <2>2 DEF GridTypeOK
<1> QED
  BY <1>2, <1>3, <1>4 DEF SheetInv, InBounds, Reading, NoCellMissing

(* A probe keeps the type of the grid and adds entries in P only.          *)
LEMMA ProbedCells ==
  ASSUME GridTypeOK, NEW P
  PROVE  /\ Probed(P) \in [Pos -> Texts \cup {Blank, Absent}]
         /\ \A x \in Pos : Probed(P)[x] # Absent => x \in P \/ cells[x] # Absent
         /\ \A x \in Pos : cells[x] # Absent => Probed(P)[x] = cells[x]
         /\ \A x \in Pos : cells[x] = Absent => Probed(P)[x] \in {Absent, Blank}
  BY DEF Probed, GridTypeOK

(* Removing P leaves no entry in P and every other one as it was.          *)
LEMMA WithoutCells ==
  ASSUME GridTypeOK, NEW P
  PROVE  /\ Without(P) \in [Pos -> Texts \cup {Blank, Absent}]
         /\ \A x \in Pos : Without(P)[x] # Absent => x \notin P /\ cells[x] # Absent
         /\ \A x \in Pos : x \notin P => Without(P)[x] = cells[x]
         /\ \A x \in Pos : x \in P => Without(P)[x] = Absent
  BY DEF Without, GridTypeOK

(* A record that sets a cell keeps the invariant: rows and cols grow to    *)
(* take the new position in, or nothing changes.                           *)
LEMMA SetCellStep ==
  ASSUME SheetInv, NEW x \in Pos, NEW t \in Texts \cup {Blank},
         SetCell(x[1], x[2], t)
  PROVE  SheetInv'
<1> USE DEF SheetInv, SetCell
<1>1. /\ x[1] \in 0 .. LastRow /\ x[2] \in 0 .. LastCol
      /\ x = <<x[1], x[2]>>
      /\ rows \in Nat /\ cols \in Nat
  BY BoundsAssumption DEF Pos, GridTypeOK
<1>2. CASE cells[x] # Absent
  BY <1>1, <1>2 DEF GridTypeOK, InBounds, Reading, NoCellMissing
<1>3. CASE cells[x] = Absent
  <2>1. /\ cells' = [cells EXCEPT ![x] = t]
        /\ rows' = AtLeast(rows, x[1] + 1) /\ cols' = AtLeast(cols, x[2] + 1)
        /\ UNCHANGED <<phase, nrows, i, j, missing>> /\ phase = "load"
    BY <1>1, <1>3
  <2>2. /\ rows' \in {rows, x[1] + 1} /\ rows <= rows' /\ x[1] + 1 <= rows'
        /\ cols' \in {cols, x[2] + 1} /\ cols <= cols' /\ x[2] + 1 <= cols'
    BY <1>1, <2>1, AtLeastBounds
  <2>3. GridTypeOK'
    BY <1>1, <2>1, <2>2, BoundsAssumption DEF GridTypeOK
  <2>4. InBounds'
    <3>1. rows' # 0 /\ cols' # 0
      BY <1>1, <2>2
    <3>2. ASSUME NEW y \in Pos, cells'[y] # Absent
          PROVE  y[1] < rows' /\ y[2] < cols'
      BY <1>1, <2>1, <2>2, <3>2, BoundsAssumption DEF GridTypeOK, InBounds, Pos
    <3> QED
      BY <3>1, <3>2 DEF InBounds
  <2> QED
    BY <2>1, <2>3, <2>4 DEF Reading, NoCellMissing
<1> QED
  BY <1>2, <1>3

(* Every step of the trim keeps the invariant: the cells of a row or a     *)
(* column are gone before it stops being counted.                          *)
LEMMA TrimStep ==
  ASSUME SheetInv, Loaded \/ RemoveLastRow \/ RowsTrimmed \/ RemoveLastCol \/ ColsTrimmed
  PROVE  SheetInv'
<1> USE BoundsAssumption DEF SheetInv
<1>1. CASE Loaded
  BY <1>1 DEF Loaded, GridTypeOK, InBounds, Reading, NoCellMissing
<1>2. CASE RemoveLastRow
  <2>1. /\ cells' = Without(LastRowPos) /\ rows' = rows - 1 /\ rows > 0
        /\ cols' = IF rows = 1 THEN 0 ELSE cols
        /\ phase = "trimrows" /\ UNCHANGED <<phase, nrows, i, j, missing>>
    BY <1>2 DEF RemoveLastRow, LastRowEmpty
  <2>2. GridTypeOK'
    BY <2>1, WithoutCells DEF GridTypeOK
  <2>3. InBounds'
    <3>1. rows' = 0 <=> cols' = 0
      BY <2>1 DEF GridTypeOK, InBounds
    <3>2. ASSUME NEW y \in Pos, cells'[y] # Absent
          PROVE  y[1] < rows' /\ y[2] < cols'
      <4>1. y \notin LastRowPos /\ y[1] < rows /\ y[2] < cols
        BY <2>1, <3>2, WithoutCells DEF InBounds
      <4>2. y[1] < rows - 1
        BY <4>1 DEF LastRowPos, Pos, GridTypeOK
      <4> QED
        BY <2>1, <4>1, <4>2 DEF Pos, GridTypeOK
    <3> QED
      BY <3>1, <3>2 DEF InBounds
  <2> QED
    BY <2>1, <2>2, <2>3 DEF Reading, NoCellMissing
<1>3. CASE RowsTrimmed
  <2>1. /\ cells' = Probed(SeenInLastRow) /\ UNCHANGED <<rows, cols>>
        /\ phase' = "trimcols" /\ UNCHANGED <<nrows, i, j, missing>>
    BY <1>3 DEF RowsTrimmed
  <2>2. \A y \in SeenInLastRow : y[1] < rows /\ y[2] < cols
    BY DEF SeenInLastRow, LastRowPos, GridTypeOK
  <2>3. GridTypeOK'
    BY <2>1, ProbedCells DEF GridTypeOK
  <2>4. InBounds'
    BY <2>1, <2>2, ProbedCells DEF InBounds
  <2> QED
    BY <2>1, <2>3, <2>4 DEF Reading, NoCellMissing
<1>4. CASE RemoveLastCol
  <2>1. /\ cells' = Without(LastColPos) /\ cols' = cols - 1 /\ cols > 0
        /\ rows' = IF cols = 1 THEN 0 ELSE rows
        /\ phase = "trimcols" /\ UNCHANGED <<phase, nrows, i, j, missing>>
    BY <1>4 DEF RemoveLastCol, LastColEmpty
  <2>2. GridTypeOK'
    BY <2>1, WithoutCells DEF GridTypeOK
  <2>3. InBounds'
    <3>1. rows' = 0 <=> cols' = 0
      BY <2>1 DEF GridTypeOK, InBounds
    <3>2. ASSUME NEW y \in Pos, cells'[y] # Absent
          PROVE  y[1] < rows' /\ y[2] < cols'
      <4>1. y \notin LastColPos /\ y[1] < rows /\ y[2] < cols
        BY <2>1, <3>2, WithoutCells DEF InBounds
      <4>2. y[2] < cols - 1
        BY <4>1 DEF LastColPos, Pos, GridTypeOK
      <4> QED
        BY <2>1, <4>1, <4>2 DEF Pos, GridTypeOK
    <3> QED
      BY <3>1, <3>2 DEF InBounds
  <2> QED
    BY <2>1, <2>2, <2>3 DEF Reading, NoCellMissing
<1>5. CASE ColsTrimmed
  <2>1. /\ cells' = Probed(SeenInLastCol) /\ UNCHANGED <<rows, cols, missing>>
        /\ phase' = "read" /\ nrows' = rows /\ i' = 1 /\ j' = 0
    BY <1>5 DEF ColsTrimmed
  <2>2. \A y \in SeenInLastCol : y[1] < rows /\ y[2] < cols
    BY DEF SeenInLastCol, LastColPos, GridTypeOK
  <2>3. GridTypeOK'
    BY <2>1, ProbedCells DEF GridTypeOK
  <2>4. InBounds'
    BY <2>1, <2>2, ProbedCells DEF InBounds
  <2> QED
    BY <2>1, <2>3, <2>4 DEF GridTypeOK, Reading, NoCellMissing
<1> QED
  BY <1>1, <1>2, <1>3, <1>4, <1>5

(* The growing read: the cell just past the last column is made, and with  *)
(* it cols moves, before the next column is asked for.                     *)
LEMMA ReadStep ==
  ASSUME SheetInv, ReadCell \/ NextRow \/ AllRead
  PROVE  SheetInv'
<1> USE BoundsAssumption DEF SheetInv
<1>1. CASE ReadCell
  <2>1. /\ phase = "read" /\ i \in Nat /\ j \in Nat /\ i < nrows /\ j < NCol
        /\ rows \in Nat /\ cols \in Nat /\ nrows \in Nat /\ nrows <= LastRow + 1
    BY <1>1 DEF ReadCell, GridTypeOK
  <2>2. <<i, j>> \in Pos
    BY <2>1 DEF Pos
  <2>3. ~OutOfSheet(i, j)
    BY <2>1 DEF OutOfSheet, Reading
  <2>4. /\ cells' = Probed({<<i, j>>}) /\ missing' = FALSE
        /\ rows' = IF cells[<<i, j>>] = Absent THEN AtLeast(rows, i + 1) ELSE rows
        /\ cols' = IF cells[<<i, j>>] = Absent THEN AtLeast(cols, j + 1) ELSE cols
        /\ j' = j + 1 /\ UNCHANGED <<phase, nrows, i>>
    BY <1>1, <2>3 DEF ReadCell
  <2>5. cells[<<i, j>>] # Absent => i < rows /\ j < cols
    BY <2>2 DEF InBounds
  <2>6. /\ rows' \in {rows, i + 1} /\ rows <= rows' /\ i + 1 <= rows'
        /\ cols' \in {cols, j + 1} /\ cols <= cols' /\ j + 1 <= cols'
    BY <2>1, <2>4, <2>5, AtLeastBounds
  <2>7. GridTypeOK'
    <3>1. cells' \in [Pos -> Texts \cup {Blank, Absent}]
      BY <2>4, ProbedCells
    <3>2. /\ rows' \in 0 .. LastRow + 1 /\ cols' \in 0 .. LastCol + 1
          /\ j' \in 0 .. NCol
      BY <2>1, <2>4, <2>6 DEF GridTypeOK
    <3> QED
      BY <2>4, <3>1, <3>2 DEF GridTypeOK
  <2>8. InBounds'
    <3>1. rows' # 0 /\ cols' # 0
      BY <2>1, <2>6
    <3>2. ASSUME NEW y \in Pos, cells'[y] # Absent
          PROVE  y[1] < rows' /\ y[2] < cols'
      <4>1. CASE y = <<i, j>>
        BY <2>1, <2>6, <4>1
      <4>2. CASE y # <<i, j>>
        <5>1. y[1] < rows /\ y[2] < cols
          BY <2>4, <3>2, <4>2, ProbedCells DEF InBounds
        <5> QED
          BY <5>1, <2>1, <2>6 DEF Pos
      <4> QED
        BY <4>1, <4>2
    <3> QED
      BY <3>1, <3>2 DEF InBounds
  <2> QED
    BY <2>1, <2>4, <2>6, <2>7, <2>8 DEF Reading, NoCellMissing
<1>2. CASE NextRow
  BY <1>2 DEF NextRow, GridTypeOK, InBounds, Reading, NoCellMissing
<1>3. CASE AllRead
  BY <1>3 DEF AllRead, GridTypeOK, InBounds, Reading, NoCellMissing
<1> QED
  BY <1>1, <1>2, <1>3

(* The inductive invariant of the grid holds in every reachable state.     *)
THEOREM SheetInvariance == GridSpec => []SheetInv
<1>1. ASSUME SheetInv, GridNext PROVE SheetInv'
  <2>1. CASE \E x \in Pos, t \in Texts \cup {Blank} : SetCell(x[1], x[2], t)
    BY <1>1, <2>1, SetCellStep
  <2>2. CASE Loaded \/ RemoveLastRow \/ RowsTrimmed \/ RemoveLastCol \/ ColsTrimmed
    BY <1>1, <2>2, TrimStep
  <2>3. CASE ReadCell \/ NextRow \/ AllRead
    BY <1>1, <2>3, ReadStep
  <2>4. CASE Finished
    BY <1>1, <2>4
    DEF Finished, gridVars, SheetInv, GridTypeOK, InBounds, Reading, NoCellMissing
  <2> QED
    BY <1>1, <2>1, <2>2, <2>3, <2>4 DEF GridNext, Use
<1>2. ASSUME SheetInv, UNCHANGED gridVars PROVE SheetInv'
  BY <1>2 DEF gridVars, SheetInv, GridTypeOK, InBounds, Reading, NoCellMissing
<1> QED
  BY SheetInit, <1>1, <1>2, PTL DEF GridSpec

(* The type invariant, for grids of every size.                            *)
THEOREM SheetTypes == GridSpec => []GridTypeOK
<1>1. SheetInv => GridTypeOK
  BY DEF SheetInv
<1> QED
  BY SheetInvariance, <1>1, PTL

(* No entry of the hash table ever lies outside rows x cols, whatever is   *)
(* set, removed by the trim, or made by a look past the edge.              *)
THEOREM CellsEnclosed == GridSpec => []InBounds
<1>1. SheetInv => InBounds
  BY DEF SheetInv
<1> QED
  BY SheetInvariance, <1>1, PTL

(* template_assign() never takes the "Cell Not Found" exit: the sheet      *)
(* grows under it as long as the columns are asked for in order.           *)
THEOREM EveryCellFound == GridSpec => []NoCellMissing
<1>1. SheetInv => NoCellMissing
  BY DEF SheetInv
<1> QED
  BY SheetInvariance, <1>1, PTL

-----------------------------------------------------------------------------
(* Cells may turn from no entry into an empty one and back; as long as     *)
(* that is all, the content is the same.                                   *)
LEMMA SameContent ==
  ASSUME \A x \in Pos : IF Empty(x) THEN Empty(x)' ELSE cells'[x] = cells[x]
  PROVE  Content' = Content
<1>1. \A x \in Pos : Empty(x)' <=> Empty(x)
  BY DEF Empty
<1>2. {y \in Pos : ~Empty(y)'} = {y \in Pos : ~Empty(y)}
  BY <1>1
<1> QED
  BY <1>2 DEF Content

(* A step that is not part of loading leaves every text where it is.       *)
LEMMA ContentStep ==
  ASSUME SheetInv, GridNext, phase # "load"
  PROVE  Content' = Content
<1>1. ASSUME NEW P, cells' = Probed(P) PROVE Content' = Content
  <2>1. \A x \in Pos : cells'[x] = IF x \in P /\ cells[x] = Absent THEN Blank ELSE cells[x]
    BY <1>1 DEF Probed
  <2> QED
    BY <2>1, SameContent DEF Empty
<1>2. ASSUME NEW P, cells' = Without(P), \A x \in P : x \in Pos => Empty(x)
      PROVE  Content' = Content
  <2>1. \A x \in Pos : cells'[x] = IF x \in P THEN Absent ELSE cells[x]
    BY <1>2 DEF Without
  <2> QED
    BY <1>2, <2>1, SameContent DEF Empty
<1>3. ASSUME UNCHANGED cells PROVE Content' = Content
  BY <1>3 DEF Content, Empty
<1>4. CASE RemoveLastRow
  BY <1>2, <1>4 DEF RemoveLastRow, LastRowEmpty
<1>5. CASE RemoveLastCol
  BY <1>2, <1>5 DEF RemoveLastCol, LastColEmpty
<1>6. CASE RowsTrimmed
  BY <1>1, <1>6 DEF RowsTrimmed
<1>7. CASE ColsTrimmed
  BY <1>1, <1>7 DEF ColsTrimmed
<1>8. CASE ReadCell
  BY <1>1, <1>3, <1>8 DEF ReadCell
<1>9. CASE NextRow \/ AllRead \/ Finished
  BY <1>3, <1>9 DEF NextRow, AllRead, Finished, gridVars
<1>10. ~Loaded /\ \A x \in Pos, u \in Texts \cup {Blank} : ~SetCell(x[1], x[2], u)
  BY DEF Loaded, SetCell
<1> QED
  BY <1>4, <1>5, <1>6, <1>7, <1>8, <1>9, <1>10 DEF GridNext, Use

(* Trimming and reading never lose, move or invent a text of the sheet.    *)
THEOREM ContentPreserved == GridSpec => ContentKept
<1>1. SheetInv /\ [GridNext]_gridVars => [phase # "load" => Content' = Content]_gridVars
  BY ContentStep
<1> QED
  BY SheetInvariance, <1>1, PTL DEF GridSpec, ContentKept

-----------------------------------------------------------------------------
(* Once the rows are trimmed the last row holds a text, and removing empty *)
(* columns does not change that.                                           *)
RowsTight ==
  phase = "trimcols" =>
    rows = 0 \/ \E x \in Pos : x[1] = rows - 1 /\ x[2] < cols /\ ~Empty(x)

(* The row trim stops at a row with a text, and taking empty columns away  *)
(* cannot take that text.                                                  *)
LEMMA RowsTightStep ==
  ASSUME SheetInv, RowsTight, GridNext
  PROVE  RowsTight'
<1> USE DEF RowsTight
<1>1. CASE RowsTrimmed
  <2>1. /\ cells' = Probed(SeenInLastRow) /\ UNCHANGED <<rows, cols>>
        /\ ~LastRowEmpty
    BY <1>1 DEF RowsTrimmed
  <2>2. CASE rows = 0
    BY <2>1, <2>2
  <2>3. CASE rows # 0
    <3>1. PICK x \in LastRowPos : ~Empty(x)
      BY <2>1, <2>3 DEF LastRowEmpty, SheetInv, GridTypeOK
    <3>2. x \in Pos /\ x[1] = rows - 1 /\ x[2] < cols /\ cells[x] # Absent
      BY <3>1 DEF LastRowPos, Empty
    <3>3. cells'[x] = cells[x]
      BY <2>1, <3>2, ProbedCells DEF SheetInv
    <3> QED
      BY <2>1, <3>1, <3>2, <3>3 DEF Empty
  <2> QED
    BY <2>2, <2>3
<1>2. CASE RemoveLastCol
  <2>1. /\ cells' = Without(LastColPos) /\ cols' = cols - 1 /\ phase = "trimcols"
        /\ rows' = IF cols = 1 THEN 0 ELSE rows
        /\ cols > 0 /\ \A x \in LastColPos : Empty(x)
    BY <1>2 DEF RemoveLastCol, LastColEmpty
  <2>2. CASE cols = 1 \/ rows = 0
    BY <2>1, <2>2
  <2>3. CASE ~(cols = 1 \/ rows = 0)
    <3>1. PICK x \in Pos : x[1] = rows - 1 /\ x[2] < cols /\ ~Empty(x)
      BY <2>1, <2>3
    <3>2. x \notin LastColPos
      BY <2>1, <3>1
    <3>3. x[2] < cols - 1 /\ cells'[x] = cells[x]
      <4>1. x[2] \in Nat /\ x[1] \in Nat /\ rows \in Nat /\ cols \in Nat
        BY BoundsAssumption DEF Pos, SheetInv, GridTypeOK
      <4>2. x[2] # cols - 1
        BY <3>1, <3>2, <4>1 DEF LastColPos
      <4>3. cells'[x] = cells[x]
        BY <2>1, <3>2, WithoutCells DEF SheetInv
      <4> QED
        BY <3>1, <4>1, <4>2, <4>3
    <3> QED
      BY <2>1, <2>3, <3>1, <3>3 DEF Empty
  <2> QED
    BY <2>2, <2>3
<1>3. CASE ~(RowsTrimmed \/ RemoveLastCol)
  <2>1. phase' # "trimcols" \/ UNCHANGED gridVars
    BY <1>3
    DEF GridNext, Use, SetCell, Loaded, RemoveLastRow, ColsTrimmed, ReadCell,
        NextRow, AllRead, Finished
  <2> QED
    BY <2>1 DEF gridVars, Empty
<1> QED
  BY <1>1, <1>2, <1>3

(* Trimming ends with the smallest grid that holds every text: there is    *)
(* one in the last row and one in the last column, or no text at all.      *)
THEOREM TrimIsTight == GridSpec => TrimmedTight
<1>1. GridInit => RowsTight
  BY DEF GridInit, RowsTight
<1>2. SheetInv /\ RowsTight /\ [GridNext]_gridVars => RowsTight'
  <2>1. RowsTight /\ UNCHANGED gridVars => RowsTight'
    BY DEF RowsTight, gridVars, Empty
  <2> QED
    BY <2>1, RowsTightStep
<1>3. ASSUME SheetInv, RowsTight, GridNext, phase = "trimcols", phase' = "read"
      PROVE  Tight'
  <2>1. ColsTrimmed
    BY <1>3
    DEF GridNext, Use, SetCell, Loaded, RemoveLastRow, RowsTrimmed, RemoveLastCol,
        ReadCell, NextRow, AllRead, Finished, gridVars
  <2>2. /\ cells' = Probed(SeenInLastCol) /\ UNCHANGED <<rows, cols>>
        /\ ~LastColEmpty
    BY <2>1 DEF ColsTrimmed
  <2>3. \A x \in Pos : Empty(x)' <=> Empty(x)
    <3>1. \A x \in Pos : cells'[x] = IF x \in SeenInLastCol /\ cells[x] = Absent
                                     THEN Blank ELSE cells[x]
      BY <2>2 DEF Probed
    <3> QED
      BY <3>1 DEF Empty
  <2>4. CASE rows = 0
    <3>1. \A x \in Pos : cells[x] = Absent
      BY <1>3, <2>4, BoundsAssumption DEF SheetInv, InBounds, Pos
    <3> QED
      BY <2>2, <2>3, <2>4, <3>1 DEF Tight, Empty
  <2>5. CASE rows # 0
    <3>1. \E x \in Pos : x[1] = rows - 1 /\ ~Empty(x)
      BY <1>3, <2>5 DEF RowsTight
    <3>2. \E x \in Pos : x[2] = cols - 1 /\ ~Empty(x)
      <4>1. cols > 0
        BY <1>3, <2>5 DEF SheetInv, InBounds, GridTypeOK
      <4> QED
        BY <2>2, <4>1 DEF LastColEmpty, LastColPos
    <3> QED
      BY <2>2, <2>3, <3>1, <3>2 DEF Tight
  <2> QED
    BY <2>4, <2>5
<1>4. SheetInv /\ RowsTight /\ [GridNext]_gridVars =>
        [phase = "trimcols" /\ phase' = "read" => Tight']_gridVars
  BY <1>3
<1> QED
  BY <1>1, <1>2, <1>4, SheetInvariance, PTL DEF GridSpec, TrimmedTight


=============================================================================
