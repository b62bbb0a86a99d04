--------------------------- MODULE MCTableMemory ---------------------------
(***************************************************************************)
(* The memory of all tables of tables.c: the relocations, and one of the   *)
(* two string tables.  They share nothing, so only one of them is at work  *)
(* in a behaviour.  Tables of two entries to start with, and names of up   *)
(* to two bytes, with an empty one and one that is too long: enough for    *)
(* every array to grow twice.                                              *)
(***************************************************************************)
EXTENDS StringTable, RelocationGrowth

VARIABLE atWork

(* Zeros, rubbish without an end, and rubbish that ends or begins with a NUL. *)
MCLeftovers(n) ==
  {[k \in 0 .. n - 1 |-> 0],
   [k \in 0 .. n - 1 |-> 9],
   [k \in 0 .. n - 1 |-> IF k = n - 1 THEN 0 ELSE 9],
   [k \in 0 .. n - 1 |-> IF k = 0 THEN 0 ELSE 9]}

MCNames == {<<>>, <<1>>, <<2>>, <<1, 2>>, <<2, 1>>, <<1, 2, 1>>}

MemoryInit ==
  /\ atWork \in {"names", "relocations"}
  /\ Init
  /\ GrowthInit

MemoryNext ==
  \/ atWork = "names" /\ Next /\ UNCHANGED <<atWork, growthVars>>
  \/ atWork = "relocations" /\ GrowthNext /\ UNCHANGED <<atWork, vars>>

MemorySpec == MemoryInit /\ [][MemoryNext]_<<atWork, vars, growthVars>>
=============================================================================
