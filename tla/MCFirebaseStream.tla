--------------------------- MODULE MCFirebaseStream ---------------------------
(***************************************************************************)
(* An instance of FirebaseStream for TLC.                                  *)
(***************************************************************************)
EXTENDS FirebaseStream

CONSTANTS p1, p2
MCPaths == {p1, p2}

=============================================================================
