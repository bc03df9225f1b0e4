--------------------------- MODULE MCRecordScreen ---------------------------
(***************************************************************************)
(* An instance of RecordScreen for TLC.  The 86400 seconds are two, and    *)
(* there is a day of that length, one that is longer and one that is       *)
(* shorter.  m1 stores records at both seconds of the first day, at the    *)
(* first and the odd one of the second and at the second after the third,  *)
(* then a record of a clock that was not set, at a smaller key, and one    *)
(* stamped before the clock was set, which replaces another.  m2 stores    *)
(* one record.  Coins and goods have ties and their extremes at different  *)
(* places.                                                                 *)
(***************************************************************************)
EXTENDS RecordScreen

CONSTANTS m1, m2

MCCalendar == <<2, 4, 7, 8>>

Rec(m, k, t, c, g) == [machine |-> m, key |-> k, time |-> t, coin |-> c, goods |-> g]
morning == Rec(m1, 2, 2, 0, 1)
last == Rec(m1, 3, 3, 1, 0)
first == Rec(m1, 4, 4, 0, 1)
odd == Rec(m1, 6, 6, 1, 1)
next == Rec(m1, 8, 8, 1, 2)
unset == Rec(m1, 1, 1, 1, 1)
straddler == Rec(m1, 4, 1, 0, 1)

MCContents ==
  (m1 :> << <<last, first>>, <<morning, last, first, odd, next>>,
            <<unset, last, straddler, odd, next>> >>) @@
  (m2 :> << <<Rec(m2, 7, 7, 2, 2)>> >>)

=============================================================================
