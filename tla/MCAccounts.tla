----------------------------- MODULE MCAccounts -----------------------------
(***************************************************************************)
(* Instances of Accounts for TLC: the master's number is the largest, so   *)
(* that the other records come before it in the list.                      *)
(***************************************************************************)
EXTENDS Accounts, TLC

CONSTANTS boss, ann, bob, d1, d2

(* ann has number 1; bob has no account yet.                               *)
MCRegistered == (boss :> 2) @@ (ann :> 1) @@ (bob :> NoAccount)

(* "1", "01" and a number that is too large.                               *)
MCTexts == {[num |-> 1, canonical |-> TRUE], [num |-> 1, canonical |-> FALSE],
            [num |-> NotANumber, canonical |-> TRUE]}

(* The bound on taps: three, and a fourth one where an owner has been, or  *)
(* is about to be, removed and nobody signed up.                           *)
SignUps == {p \in UNION {tasks[d] : d \in Devices} : p.op = "create"}
Removals == {d \in Devices : \E k \in DOMAIN outbox[d] : outbox[d][k].op = "remove"}
Removed == {n \in Keys : user[n] = NoRecord \/ user[n].email = NoEmail}
Explored ==
  taps = MaxTaps => /\ accounts = Registered /\ SignUps = {}
                    /\ Removals # {} \/ Removed # {}

(* A phone is only known by its token.                                     *)
Symmetry == Permutations(Devices)

=============================================================================
