---------------------------- MODULE MCFilterLoop ----------------------------
(* FilterLoop on all lists of at most four values out of three.            *)
EXTENDS FilterLoop

MCLists == UNION {[1..n -> 0..2] : n \in 1..4}

=============================================================================
