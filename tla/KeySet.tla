--------------------------------- MODULE KeySet ---------------------------------
(***************************************************************************)
(* What a hash table promises to the approximate index: a key that is put  *)
(* in is found from the end of that call on until it is taken out, and no  *)
(* call changes anything about the others.                                 *)
(***************************************************************************)
CONSTANTS
  Keys,
  Idle, Busy     \* no keys

VARIABLES
  keys,
  call           \* the key that is being put in; Busy while a call goes on
                 \* that has put in or taken out what it is about

vars == <<keys, call>>

Init == keys = {} /\ call = Idle

Has(k) == k \in keys

Insert(k) == call = Idle /\ ~Has(k) /\ call' = k /\ UNCHANGED keys

Inserted == call \in Keys /\ keys' = keys \cup {call} /\ call' = Idle

Erase(k) == call = Idle /\ Has(k) /\ keys' = keys \ {k} /\ call' \in {Idle, Busy}

Erased == call = Busy /\ call' = Idle /\ UNCHANGED keys

Next == Inserted \/ Erased \/ \E k \in Keys : Insert(k) \/ Erase(k)

Spec == Init /\ [][Next]_vars
=============================================================================
