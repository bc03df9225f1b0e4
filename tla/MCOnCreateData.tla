--------------------------- MODULE MCOnCreateData ---------------------------
(***************************************************************************)
(* An instance of OnCreateData for TLC: a record of each of two machines,  *)
(* whose events may be delivered twice.                                    *)
(***************************************************************************)
EXTENDS OnCreateData, TLC

CONSTANTS m1, m2, r1, r2, t1, t2, i1

OneEach == (r1 :> m1) @@ (r2 :> m2)

=============================================================================
