----------------------------- MODULE FilterLoop -----------------------------
(***************************************************************************)
(* The loop of onItemSelected (SlaveActivity.java:125-176, and the same in *)
(* ManageStatusActivity.java): one pass over the current list that keeps   *)
(* the records with the largest (filters 1, 2) or smallest (3, 4) value.   *)
(* values are the coins or goods of the list; the records kept are given   *)
(* by their positions.                                                     *)
(***************************************************************************)
EXTENDS Integers, Sequences

CONSTANT Lists    \* the lists the loop may be run on

ASSUME ListsAssumption == Lists \subseteq Seq(Int) \ {<<>>}

VARIABLES
  pos,      \* the filter: 1 and 2 keep the largest, 3 and 4 the smallest
  values,   \* the coins or goods of currentList
  i,        \* "i", counted from 1
  base,     \* "baseCoin" or "baseGoods"
  kept      \* the positions of newRawDataList

vars == <<pos, values, i, base, kept>>

(* The list is not empty (the early return); the base is its first value.  *)
Init ==
  /\ pos \in 1..4
  /\ values \in Lists
  /\ i = 1 /\ base = values[1] /\ kept = <<>>

Beats(a, b) == IF pos <= 2 THEN a > b ELSE a < b

(* Mutant of Better: the list is not cleared.                              *)
Better_NoClear ==
  /\ i <= Len(values) /\ Beats(values[i], base)
  /\ base' = values[i] /\ kept' = Append(kept, i)
  /\ i' = i + 1 /\ UNCHANGED <<pos, values>>

(* A value beats the base: the list starts again with it.                  *)
Better ==
  /\ i <= Len(values) /\ Beats(values[i], base)
  /\ base' = values[i] /\ kept' = <<i>>
  /\ i' = i + 1 /\ UNCHANGED <<pos, values>>

(* A value equal to the base is added.                                     *)
Equal ==
  /\ i <= Len(values) /\ values[i] = base
  /\ kept' = Append(kept, i)
  /\ i' = i + 1 /\ UNCHANGED <<pos, values, base>>

(* Any other is passed over.                                               *)
Worse ==
  /\ i <= Len(values) /\ Beats(base, values[i])
  /\ i' = i + 1 /\ UNCHANGED <<pos, values, base, kept>>

Next == Better \/ Equal \/ Worse

Spec == Init /\ [][Next]_vars

-----------------------------------------------------------------------------
(* At the end of the loop the records kept are those that none of the list *)
(* beats, all of them, each once and in the order of the list.             *)
KeptExact ==
  i > Len(values) =>
    /\ {kept[k] : k \in 1..Len(kept)} =
         {j \in 1..Len(values) :
            \A l \in 1..Len(values) : ~Beats(values[l], values[j])}
    /\ \A k \in 1..(Len(kept) - 1) : kept[k] < kept[k + 1]

=============================================================================
