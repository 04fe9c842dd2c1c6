------------------------------ MODULE HashTable ------------------------------
(***************************************************************************)
(* libsl4/hash.c: a table of chained buckets that is resized by the calls  *)
(* that insert and remove.  A resize is the loop it is in the code, one    *)
(* step for each entry moved to the new buckets; no call is made meanwhile. *)
(*                                                                         *)
(* A chain is the set of its entries: their order decides nothing but the  *)
(* order of a walk.  The data are not NULL (as in every call of the        *)
(* program): insert() would take a NULL for a missing key.                 *)
(***************************************************************************)
EXTENDS Integers, FiniteSets, Sequences

CONSTANTS
  Keys, Data, NoData,
  HashVal,   \* hash_func()
  Primes,    \* _sl4_hash_primes, from HASH_BUCKETSIZE_MIN to ..._MAX
  MayFail    \* malloc() may return NULL

ASSUME HashAssumption    == HashVal \in [Keys -> Nat]
ASSUME PrimesAssumption  == Primes \in Seq(Nat \ {0}) /\ Len(Primes) > 0
ASSUME DataAssumption    == NoData \notin Data
ASSUME MayFailAssumption == MayFail \in BOOLEAN

VARIABLES
  nbucks, buckets, nkeys,
  pc,          \* "idle" between two calls, "resize" or "move" inside one
  new_size, new_bucks,
  at,          \* the old bucket the resize has reached
  res          \* what the last call returned

resizing == <<new_size, new_bucks, at>>
vars == <<nbucks, buckets, nkeys, pc, resizing, res>>

Entry  == [key : Keys, data : Data]
NoBucks(n) == [h \in 0 .. n - 1 |-> {}]

Init ==
  /\ nbucks = Primes[1] /\ buckets = NoBucks(nbucks) /\ nkeys = 0
  /\ pc = "idle"
  /\ new_size = Primes[1] /\ new_bucks = NoBucks(new_size) /\ at = 0
  /\ res = "ok"

-----------------------------------------------------------------------------
Slot(k, size) == HashVal[k] % size

(* Every call looks for a key in the chain of its slot only.               *)
Found(k) == {e \in buckets[Slot(k, nbucks)] : e.key = k}

Insert(k, d) ==
  /\ pc = "idle" /\ Found(k) = {}
  /\ buckets' = [buckets EXCEPT ![Slot(k, nbucks)] = @ \cup {[key |-> k, data |-> d]}]
  /\ nkeys' = nkeys + 1 /\ res' = "ok" /\ pc' = "resize"
  /\ UNCHANGED <<nbucks, resizing>>

InsertRefused(k) ==
  /\ pc = "idle"
  /\ Found(k) # {} \/ MayFail
  /\ res' = "error"
  /\ UNCHANGED <<nbucks, buckets, nkeys, pc, resizing>>

Lookup(k) ==
  /\ pc = "idle"
  /\ \/ Found(k) = {} /\ res' = NoData
     \/ \E e \in Found(k) : res' = e.data
  /\ UNCHANGED <<nbucks, buckets, nkeys, pc, resizing>>

RemoveMissing(k) ==
  /\ pc = "idle" /\ Found(k) = {}
  /\ res' = NoData
  /\ UNCHANGED <<nbucks, buckets, nkeys, pc, resizing>>

Remove(k) ==
  /\ pc = "idle"
  /\ \E e \in Found(k) :
       /\ buckets' = [buckets EXCEPT ![Slot(k, nbucks)] = @ \ {e}]
       /\ res' = e.data
  /\ nkeys' = nkeys - 1 /\ pc' = "resize"
  /\ UNCHANGED <<nbucks, resizing>>

Erase ==
  /\ pc = "idle"
  /\ buckets' = NoBucks(nbucks)
  /\ nkeys' = 0 /\ res' = "ok" /\ pc' = "resize"
  /\ UNCHANGED <<nbucks, resizing>>

-----------------------------------------------------------------------------
(* nkeys / nbucks lies between 0.3 and 3.0.                                *)
WellFilled == 3 * nbucks < 10 * nkeys /\ nkeys < 3 * nbucks

(* _sl4_hash_create_prime(): the prime before the first one that is not    *)
(* less than n.                                                            *)
SizeFor(n) ==
  IF n < Primes[1] THEN {Primes[1]}
  ELSE IF \A q \in 2 .. Len(Primes) : Primes[q] < n THEN {Primes[Len(Primes)]}
  ELSE {Primes[q - 1] : q \in {m \in 2 .. Len(Primes) :
                                 n <= Primes[m] /\ \A x \in 2 .. m - 1 : Primes[x] < n}}

KeepSize ==
  /\ pc = "resize"
  /\ WellFilled \/ nbucks \in SizeFor(nkeys) \/ MayFail
  /\ pc' = "idle"
  /\ UNCHANGED <<nbucks, buckets, nkeys, resizing, res>>

BeginMove ==
  /\ pc = "resize" /\ ~WellFilled
  /\ new_size' \in SizeFor(nkeys) \ {nbucks}
  /\ new_bucks' = NoBucks(new_size') /\ at' = 0
  /\ pc' = "move"
  /\ UNCHANGED <<nbucks, buckets, nkeys, res>>

\* Mutant: the slot of the old size.
MoveEntryOldSlot ==
  /\ pc = "move" /\ at < nbucks
  /\ \E e \in buckets[at] :
       /\ buckets' = [buckets EXCEPT ![at] = @ \ {e}]
       /\ new_bucks' = [new_bucks EXCEPT ![at % new_size] = @ \cup {e}]
  /\ UNCHANGED <<nbucks, nkeys, pc, new_size, at, res>>
MoveEntry ==
  /\ pc = "move" /\ at < nbucks
  /\ \E e \in buckets[at] :
       /\ buckets' = [buckets EXCEPT ![at] = @ \ {e}]
       /\ new_bucks' = [new_bucks EXCEPT ![Slot(e.key, new_size)] = @ \cup {e}]
  /\ UNCHANGED <<nbucks, nkeys, pc, new_size, at, res>>

\* Mutants: a chain is left after its first entry; the counter wraps.
NextChainEarly ==
  /\ pc = "move" /\ at < nbucks
  /\ at' = at + 1
  /\ UNCHANGED <<nbucks, buckets, nkeys, pc, new_size, new_bucks, res>>
NextChainWrapped ==
  /\ pc = "move" /\ at < nbucks /\ buckets[at] = {}
  /\ at' = (at + 1) % nbucks
  /\ UNCHANGED <<nbucks, buckets, nkeys, pc, new_size, new_bucks, res>>
NextChain ==
  /\ pc = "move" /\ at < nbucks /\ buckets[at] = {}
  /\ at' = at + 1
  /\ UNCHANGED <<nbucks, buckets, nkeys, pc, new_size, new_bucks, res>>

EndMove ==
  /\ pc = "move" /\ at = nbucks
  /\ buckets' = new_bucks /\ nbucks' = new_size
  /\ pc' = "idle"
  /\ UNCHANGED <<nkeys, resizing, res>>

Call ==
  \/ \E k \in Keys, d \in Data : Insert(k, d)
  \/ \E k \in Keys : InsertRefused(k) \/ Lookup(k) \/ RemoveMissing(k) \/ Remove(k)
  \/ Erase
Resize == KeepSize \/ BeginMove \/ MoveEntry \/ NextChain \/ EndMove

Next == Call \/ Resize

Spec == Init /\ [][Next]_vars

(* A call that was made runs to its end; nobody need make another one.     *)
FairSpec == Spec /\ WF_vars(Resize)

-----------------------------------------------------------------------------
OldEntries == UNION {buckets[h] : h \in 0 .. nbucks - 1}
NewEntries == UNION {new_bucks[h] : h \in 0 .. new_size - 1}
Entries    == IF pc = "move" THEN OldEntries \cup NewEntries ELSE OldEntries

TypeOK ==
  /\ nbucks \in Nat \ {0} /\ buckets \in [0 .. nbucks - 1 -> SUBSET Entry]
  /\ new_size \in Nat \ {0} /\ new_bucks \in [0 .. new_size - 1 -> SUBSET Entry]
  /\ nkeys \in Nat /\ at \in Nat
  /\ pc \in {"idle", "resize", "move"}
  /\ pc = "move" => at \in 0 .. nbucks

(* Every entry is in the bucket its key will be looked for in, also half   *)
(* way through a resize, when it is for the old size or for the new one.   *)
SlotsRight ==
  /\ \A h \in 0 .. nbucks - 1 : \A e \in buckets[h] : Slot(e.key, nbucks) = h
  /\ pc = "move" =>
       \A h \in 0 .. new_size - 1 : \A e \in new_bucks[h] : Slot(e.key, new_size) = h

(* No key is in the table twice, or in the old and in the new buckets.     *)
KeysOnce ==
  /\ \A e, f \in Entries : e.key = f.key => e = f
  /\ pc = "move" => OldEntries \cap NewEntries = {}

(* nkeys, on which the resize and the callers' loops rely, is the number   *)
(* of entries.                                                             *)
Counted == nkeys = Cardinality(Entries)

(* An entry is in the chain it will be looked for in, once, and counted    *)
(* once: in every step of a resize too, which any call may end in.         *)
ChainsSound == SlotsRight /\ KeysOnce /\ Counted

(* What the table maps a key to.                                           *)
Mapped(k) ==
  IF \E e \in Entries : e.key = k
  THEN (CHOOSE e \in Entries : e.key = k).data ELSE NoData

Map == INSTANCE KeyMap WITH map <- [k \in Keys |-> Mapped(k)]

(* The table is a map, and a resize is not noticed.                        *)
ImplementsMap == Map!Spec

(* A call returns, however the table is resized in it.                     *)
CallsReturn == pc # "idle" ~> pc = "idle"
=============================================================================
