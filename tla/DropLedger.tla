----------------------------- MODULE DropLedger -----------------------------
(***************************************************************************)
(* What the machine's bookkeeping promises, whatever the clock, the        *)
(* network and the power supply do: a shipment is counted once, under an   *)
(* identity of its own; from then on it is open (counted, not yet          *)
(* reported), until it becomes reported or lost.  Reporting some shipments *)
(* may lose others that were reported before, as a PUT replaces the record *)
(* at its key.  Nothing that is lost or reported becomes open again, and   *)
(* nothing that is lost is ever reported.                                  *)
(***************************************************************************)
EXTENDS Naturals

VARIABLES counted,   \* number of shipments counted so far
          open,      \* those that are neither reported nor lost
          reported,  \* those a stored record stands for
          lost       \* those that no record will ever stand for

vars == <<counted, open, reported, lost>>

Init == counted = 0 /\ open = {} /\ reported = {} /\ lost = {}

(* The sensor sees a doll fall.                                            *)
Count ==
  /\ counted' = counted + 1
  /\ open' = open \cup {counted'}
  /\ UNCHANGED <<reported, lost>>

(* The shipments S are reported, at the expense of T.                      *)
Report(S, T) ==
  /\ open' = open \ S
  /\ reported' = (reported \ T) \cup S
  /\ lost' = lost \cup T
  /\ UNCHANGED counted

(* The shipments S are lost before they were reported.                     *)
Lose(S) ==
  /\ open' = open \ S
  /\ lost' = lost \cup S
  /\ UNCHANGED <<counted, reported>>

Next ==
  \/ Count
  \/ \E S \in SUBSET open, T \in SUBSET reported : Report(S, T)
  \/ \E S \in SUBSET open : Lose(S)

Spec == Init /\ [][Next]_vars

=============================================================================
