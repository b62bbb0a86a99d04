-------------------------- MODULE RelocationGrowth --------------------------
(***************************************************************************)
(* The memory behind the relocation table of tables.c: an array of records *)
(* that initRelocationTable prepares and resizeRelocationsTable enlarges,  *)
(* each with an array of relocations of its own.  What Assembler says of   *)
(* the relocations holds as long as these arrays are used within bounds.   *)
(***************************************************************************)
EXTENDS TableSizes, Sequences

CONSTANTS
  RecordSize,      \* sizeof(RelocationSection)
  TableSize,       \* sizeof(RELOCATIONS)
  U8,              \* number of values of cur_sndx
  MaxItems         \* bound: relocations of one section

ASSUME SizesAssumption ==
  /\ U8 \in Nat \ {0} /\ MaxItems \in Nat
  /\ RecordSize \in Nat \ {0} /\ TableSize \in Nat \ {0}
  /\ RecordSize <= 2 * TableSize

VARIABLES
  cur_sndx,   \* CONTEXT.cur_sndx
  bytes,      \* the size of RELOCATIONS.sections in bytes
  records,    \* RELOCATIONS.capacity
  used,       \* the sections of the records in use: count is its length
  items,      \* count of every record in use
  room,       \* capacity of every record in use
  wrapped,    \* history: cur_sndx has passed its largest value
  faults      \* the ways memory has been misused so far

growthVars == <<cur_sndx, bytes, records, used, items, room, wrapped, faults>>

GrowthInit ==
  /\ cur_sndx = 0
  /\ bytes = StartSize * RecordSize
  /\ records = StartSize
  /\ used = <<>> /\ items = <<>> /\ room = <<>>
  /\ wrapped = FALSE
  /\ faults = {}

Section ==
  /\ cur_sndx' = (cur_sndx + 1) % U8
  /\ wrapped' = (wrapped \/ cur_sndx' = 0)
  /\ UNCHANGED <<bytes, records, used, items, room, faults>>

(* The record of the current section, or the next one. *)
Record ==
  IF \E i \in DOMAIN used : used[i] = cur_sndx
  THEN CHOOSE i \in DOMAIN used : used[i] = cur_sndx /\ \A j \in 1 .. i - 1 : used[j] # cur_sndx
  ELSE Len(used) + 1

(* Mutant: the table grows before it is full. *)
TableFullEarly == Len(used) + 1 >= records

TableFull == Len(used) = records

(* Mutant: the array of the first record is enlarged. *)
EnlargedFirst(r) == [r EXCEPT ![1] = 2 * @]

(* The last record is enlarged, whichever is full. *)
Enlarged(r) == [r EXCEPT ![Len(r)] = 2 * @]

IsNew == Record > Len(used)
Counts == IF IsNew THEN Append(items, 0) ELSE items
Rooms == IF IsNew THEN Append(room, StartSize) ELSE room

(* resizeRelocationsTable, before addRelocation looks for anything. *)
Grow ==
  /\ records' = IF TableFull THEN 2 * records ELSE records
  /\ bytes' = IF TableFull THEN records' * TableSize ELSE bytes

(* addRelocation.  A record behind the first StartSize holds anything; one *)
(* outcome is that it looks like one of them.                              *)
AddRelocation ==
  /\ faults \subseteq {"unset"}
  /\ Counts[Record] < MaxItems
  /\ Grow
  /\ used' = IF IsNew THEN Append(used, cur_sndx) ELSE used
  /\ items' = [Counts EXCEPT ![Record] = @ + 1]
  /\ room' = IF Counts[Record] = Rooms[Record] THEN Enlarged(Rooms) ELSE Rooms
  /\ faults' = faults
       \cup (IF Record > StartSize THEN {"unset"} ELSE {})
       \cup (IF Record * RecordSize > bytes' THEN {"outside"} ELSE {})
       \cup (IF items'[Record] > room'[Record] THEN {"items"} ELSE {})
  /\ UNCHANGED <<cur_sndx, wrapped>>

(* addRelocation for a label that is nowhere declared. *)
UnknownLabel ==
  /\ Grow
  /\ UNCHANGED <<cur_sndx, used, items, room, wrapped, faults>>

GrowthNext == Section \/ AddRelocation \/ UnknownLabel

GrowthSpec == GrowthInit /\ [][GrowthNext]_growthVars
-----------------------------------------------------------------------------
(* Properties. *)

GrowthTypeOK ==
  /\ cur_sndx \in 0 .. U8 - 1
  /\ bytes \in Nat /\ records \in Nat \ {0}
  /\ used \in Seq(0 .. U8 - 1) /\ items \in Seq(Nat) /\ room \in Seq(Nat)
  /\ Len(items) = Len(used) /\ Len(room) = Len(used) /\ Len(used) <= records
  /\ wrapped \in BOOLEAN
  /\ faults \subseteq {"unset", "outside", "items"}

(* Files with relocations in up to StartSize sections never misuse the     *)
(* table, however many relocations there are, although the array that      *)
(* grows is always that of the last record (resizeRelocationsSection).     *)
SafeUntilGrown ==
  ~wrapped /\ Len(used) <= StartSize => faults = {}

(* freeRelocationTable frees the arrays of all records of the capacity:    *)
(* as long as a record is left free all of them were set.                  *)
FreesWhatWasSet ==
  Len(used) < StartSize => records = StartSize
=============================================================================
