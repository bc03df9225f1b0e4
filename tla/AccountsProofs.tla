--------------------------- MODULE AccountsProofs ---------------------------
(***************************************************************************)
(* Proofs of the safety properties of Accounts, for any number of phones,  *)
(* accounts and machines, and any sequence of taps, answers, refusals and  *)
(* lost processes.                                                         *)
(***************************************************************************)
EXTENDS Accounts, WellFoundedInduction, TLAPS

-----------------------------------------------------------------------------
(* The inductive invariant.  A are the accounts, S is who has signed in.   *)

(* The owner of an account made for number k has signed in on phone t.     *)
SignedInFor(A, S, t, k) == \E e \in S[t] : A[e] = k

(* The record r may be found at user/<k>: it is that of the account made   *)
(* for k, or what an upload of a token left of one.                        *)
RecordFits(A, S, k, r) ==
  /\ r \in User
  /\ r.email # NoEmail => A[r.email] = k /\ r.num = k
  /\ r.email = NoEmail => r.right = 0 /\ r.num = 0 /\ r.token # NoToken
  /\ r.token # NoToken => SignedInFor(A, S, r.token, k)
ListFits(A, S, list) ==
  \A k \in Keys : list[k] # NoRecord => RecordFits(A, S, k, list[k])

(* An operation that is on its way makes such records only.                *)
OpFits(A, S, x) ==
  /\ x.op = "put" => A[x.email] = x.num
  /\ x.op = "token" /\ x.token # NoToken => SignedInFor(A, S, x.token, x.num)

RecordsInv ==
  /\ ListFits(accounts, signed, user)
  /\ \A d \in Devices : ListFits(accounts, signed, userList[d])
OutboxInv ==
  \A d \in Devices : \A i \in 1..Len(outbox[d]) : OpFits(accounts, signed, outbox[d][i])

(* The cached user is one whose account has signed in here; there is one   *)
(* while a main activity is in front, and none after signing out.          *)
UserFits(A, owners, u, front, a) ==
  /\ u # NoRecord => u.email \in owners /\ A[u.email] = u.num /\ u.num \in Keys
  /\ front \in {"master", "slave"} => u # NoRecord
  /\ a = NoEmail => u = NoRecord
UserInv ==
  \A d \in Devices : UserFits(accounts, signed[d], mUser[d], screen[d], auth[d])

(* Only SignUpActivity listens to a creation.                              *)
TasksFit(T, front) == \A p \in T : p.op = "create" /\ p.live => front = "signup"
TasksInv == \A d \in Devices : TasksFit(tasks[d], screen[d])

AccountsInv == TypeOK /\ RecordsInv /\ OutboxInv /\ UserInv /\ TasksInv

-----------------------------------------------------------------------------
(* Induction.  The least number principle, without an operator parameter.  *)
LEMMA LeastNat ==
  ASSUME NEW T, T \subseteq Nat, T # {}
  PROVE  \E x \in T : \A y \in T : x <= y
<1> DEFINE R == OpToRel(<, Nat)
<1>1. IsWellFoundedOn(R, Nat)
  BY NatLessThanWellFounded
<1>2. \A x, y \in Nat : <<y, x>> \in R <=> y < x
  BY DEF OpToRel
<1> HIDE DEF R
<1>3. PICK x \in T : \A y \in T : ~(<<y, x>> \in R)
  BY <1>1, WFMin
<1>4. ASSUME NEW y \in T PROVE x <= y
  <2>1. x \in Nat /\ y \in Nat
    OBVIOUS
  <2>2. ~(y < x)
    BY <1>2, <1>3, <2>1
  <2> QED BY <2>1, <2>2
<1> QED BY <1>4

-----------------------------------------------------------------------------
(* Operations and records.                                                 *)
Records == [Keys -> User \cup {NoRecord}]

LEMMA OpFields ==
  ASSUME NEW x \in Op
  PROVE  /\ x.op \in {"load", "remove", "token", "put"}
         /\ x.op = "remove" => x.num \in Keys \cup {0}
         /\ x.op = "token" => x.num \in Keys /\ x.token \in Devices \cup {NoToken}
         /\ x.op = "put" => x.num \in Keys /\ x.email \in Emails
<1>1. CASE x \in [op : {"load"}]
  BY <1>1
<1>2. CASE x \in [op : {"remove"}, num : Keys \cup {0}]
  BY <1>2
<1>3. CASE x \in [op : {"token"}, num : Keys, token : Devices \cup {NoToken}]
  BY <1>3
<1>4. CASE x \in [op : {"put"}, num : Keys, email : Emails]
  BY <1>4
<1> QED BY <1>1, <1>2, <1>3, <1>4 DEF Op

LEMMA OpType ==
  /\ Load \in Op
  /\ \A n \in Keys \cup {0} : [op |-> "remove", num |-> n] \in Op
  /\ \A n \in Keys, t \in Devices \cup {NoToken} : UpdateToken(n, t) \in Op
  /\ \A n \in Keys, e \in Emails : [op |-> "put", num |-> n, email |-> e] \in Op
<1>1. Load \in [op : {"load"}]
  BY DEF Load
<1>2. \A n \in Keys \cup {0} :
        [op |-> "remove", num |-> n] \in [op : {"remove"}, num : Keys \cup {0}]
  OBVIOUS
<1>3. \A n \in Keys, t \in Devices \cup {NoToken} :
        UpdateToken(n, t) \in [op : {"token"}, num : Keys, token : Devices \cup {NoToken}]
  BY DEF UpdateToken
<1>4. \A n \in Keys, e \in Emails :
        [op |-> "put", num |-> n, email |-> e] \in [op : {"put"}, num : Keys, email : Emails]
  OBVIOUS
<1> QED BY <1>1, <1>2, <1>3, <1>4 DEF Op

(* A new record fits its number; it has no token.                          *)
LEMMA NewUserFits ==
  ASSUME NEW A, NEW S, NEW k \in Keys, NEW e \in Emails, NEW right \in 0..2, A[e] = k
  PROVE  RecordFits(A, S, k, NewUser(e, right, k))
<1>1. NewUser(e, right, k) \in User
  BY DEF NewUser, User
<1> QED BY <1>1, NullAssumption DEF RecordFits, NewUser

(* A token that may be written to user/<k> leaves a record that fits, or   *)
(* none.                                                                   *)
LEMMA WithTokenFits ==
  ASSUME NEW A, NEW S, NEW k \in Keys, NEW r \in User \cup {NoRecord},
         r # NoRecord => RecordFits(A, S, k, r),
         NEW t \in Devices \cup {NoToken}, t # NoToken => SignedInFor(A, S, t, k)
  PROVE  WithToken(r, t) = NoRecord \/ RecordFits(A, S, k, WithToken(r, t))
<1> DEFINE old == IF r = NoRecord THEN Bare ELSE r
           new == [old EXCEPT !.token = t]
<1>1. Bare \in User /\ Bare.email = NoEmail /\ Bare.right = 0 /\ Bare.num = 0
  BY DEF Bare, NewUser, User
<1>2. /\ old \in User
      /\ old.email # NoEmail => A[old.email] = k /\ old.num = k
      /\ old.email = NoEmail => old.right = 0 /\ old.num = 0
  BY <1>1 DEF RecordFits
<1> HIDE DEF old
<1>3. /\ new \in User /\ new.token = t /\ new.email = old.email
      /\ new.right = old.right /\ new.num = old.num
  BY <1>2 DEF User
<1>4. new.email = NoEmail /\ t = NoToken => new = Bare
  BY <1>2, <1>3 DEF User, Bare, NewUser
<1>5. new = Bare \/ RecordFits(A, S, k, new)
  BY <1>2, <1>3, <1>4 DEF RecordFits
<1>6. WithToken(r, t) = IF new = Bare THEN NoRecord ELSE new
  BY DEF WithToken, old
<1> QED BY <1>5, <1>6

(* What an operation that fits makes of records that do.                   *)
LEMMA ApplyFits ==
  ASSUME NEW A, NEW S, NEW db \in Records, ListFits(A, S, db), NEW x \in Op, OpFits(A, S, x)
  PROVE  Apply(db, x) \in Records /\ ListFits(A, S, Apply(db, x))
<1> USE DEF Records
<1>1. CASE x.op = "put"
  <2>1. x.num \in Keys /\ x.email \in Emails /\ A[x.email] = x.num
    BY <1>1, OpFields DEF OpFits
  <2> DEFINE r == NewUser(x.email, 1, x.num)
  <2>2. RecordFits(A, S, x.num, r)
    BY <2>1, NewUserFits
  <2>r. r \in User
    BY <2>2 DEF RecordFits
  <2> HIDE DEF r
  <2>3. Apply(db, x) = [db EXCEPT ![x.num] = r]
    BY <1>1 DEF Apply, r
  <2> QED BY <2>1, <2>2, <2>r, <2>3 DEF ListFits
<1>2. CASE x.op = "remove"
  <2>1. Apply(db, x) = [k \in Keys |-> IF k = x.num THEN NoRecord ELSE db[k]]
    BY <1>2 DEF Apply
  <2> QED BY <2>1 DEF ListFits
<1>3. CASE x.op = "token"
  <2>1. x.num \in Keys /\ x.token \in Devices \cup {NoToken}
    BY <1>3, OpFields
  <2> DEFINE r == WithToken(db[x.num], x.token)
  <2>2. r = NoRecord \/ RecordFits(A, S, x.num, r)
    <3>1. db[x.num] \in User \cup {NoRecord}
          /\ (db[x.num] # NoRecord => RecordFits(A, S, x.num, db[x.num]))
      BY <2>1 DEF ListFits
    <3> QED BY <1>3, <2>1, <3>1, WithTokenFits DEF OpFits
  <2>3. r \in User \cup {NoRecord}
    BY <2>2 DEF RecordFits
  <2> HIDE DEF r
  <2>4. Apply(db, x) = [db EXCEPT ![x.num] = r]
    BY <1>3 DEF Apply, r
  <2> QED BY <2>1, <2>2, <2>3, <2>4 DEF ListFits
<1>4. CASE x.op = "load"
  BY <1>4 DEF Apply
<1> QED BY <1>1, <1>2, <1>3, <1>4, OpFields

(* The recursive function of Applied exists.                               *)
After(f, db, ops, n) ==
  f = [i \in 0..n |-> IF i = 0 THEN db ELSE Apply(f[i - 1], ops[i])]

LEMMA AfterExtends ==
  ASSUME NEW db, NEW ops, NEW m \in Nat \ {0}, NEW f, After(f, db, ops, m - 1)
  PROVE  \E g : After(g, db, ops, m)
<1> DEFINE g == [i \in 0..m |-> IF i = m THEN Apply(f[m - 1], ops[m]) ELSE f[i]]
           h == [i \in 0..m |-> IF i = 0 THEN db ELSE Apply(g[i - 1], ops[i])]
<1>1. ASSUME NEW i \in 0..m PROVE g[i] = h[i]
  <2>1. CASE i = 0
    <3>1. g[i] = f[0] /\ h[i] = db
      BY <2>1
    <3>2. f[0] = db
      BY DEF After
    <3> QED BY <3>1, <3>2
  <2>2. CASE i # 0 /\ i < m
    <3>1. g[i] = f[i] /\ i - 1 \in 0..m /\ i - 1 # m /\ i \in 0..(m - 1)
      BY <2>2
    <3>2. g[i - 1] = f[i - 1]
      BY <3>1
    <3>3. h[i] = Apply(f[i - 1], ops[i])
      BY <2>2, <3>2
    <3>4. f[i] = Apply(f[i - 1], ops[i])
      BY <2>2, <3>1 DEF After
    <3> QED BY <3>1, <3>3, <3>4
  <2>3. CASE i = m
    <3>1. g[m - 1] = f[m - 1]
      OBVIOUS
    <3> QED BY <2>3, <3>1
  <2> QED BY <2>1, <2>2, <2>3
<1>2. g = h
  <2>1. DOMAIN g = 0..m /\ DOMAIN h = 0..m
    OBVIOUS
  <2> HIDE DEF g, h
  <2>2. g = [i \in 0..m |-> g[i]] /\ h = [i \in 0..m |-> h[i]]
    <3>1. g = [i \in 0..m |-> g[i]]
      BY DEF g
    <3>2. h = [i \in 0..m |-> h[i]]
      BY DEF h
    <3> QED BY <3>1, <3>2
  <2> QED BY <1>1, <2>2
<1>3. After(g, db, ops, m)
  BY <1>2 DEF After
<1> QED BY <1>3

LEMMA AfterExists ==
  ASSUME NEW db, NEW ops, NEW n \in Nat
  PROVE  \E f : After(f, db, ops, n)
<1> DEFINE Bad == {m \in Nat : ~\E f : After(f, db, ops, m)}
<1>1. 0 \notin Bad
  <2>1. After([i \in 0..0 |-> db], db, ops, 0)
    BY DEF After
  <2> QED BY <2>1
<1>2. ASSUME Bad # {} PROVE FALSE
  <2>1. PICK m \in Bad : \A y \in Bad : m <= y
    BY <1>2, LeastNat
  <2>2. m \in Nat \ {0} /\ m - 1 \notin Bad /\ m - 1 \in Nat
    BY <1>1, <2>1
  <2>3. \E f : After(f, db, ops, m - 1)
    BY <2>2
  <2>4. \E g : After(g, db, ops, m)
    BY <2>2, <2>3, AfterExtends
  <2> QED BY <2>1, <2>4
<1> QED BY <1>2

(* The list that a load shows fits, own unsent writes included.            *)
LEMMA AppliedFits ==
  ASSUME NEW A, NEW S, NEW db \in Records, ListFits(A, S, db), NEW ops \in Seq(Op),
         \A i \in 1..Len(ops) : OpFits(A, S, ops[i])
  PROVE  Applied(db, ops) \in Records /\ ListFits(A, S, Applied(db, ops))
<1> DEFINE n == Len(ops)
           f == CHOOSE g : g = [i \in 0..n |-> IF i = 0 THEN db ELSE Apply(g[i - 1], ops[i])]
<1>1. n \in Nat
  OBVIOUS
<1>2. Applied(db, ops) = f[n]
  BY DEF Applied
<1>3. f = [i \in 0..n |-> IF i = 0 THEN db ELSE Apply(f[i - 1], ops[i])]
  <2>1. \E g : g = [i \in 0..n |-> IF i = 0 THEN db ELSE Apply(g[i - 1], ops[i])]
    <3>1. \E g : After(g, db, ops, n)
      BY <1>1, AfterExists
    <3> QED BY <3>1 DEF After
  <2> QED BY <2>1
<1> HIDE DEF f
<1> DEFINE Bad == {i \in 0..n : ~(f[i] \in Records /\ ListFits(A, S, f[i]))}
<1>4. ASSUME Bad # {} PROVE FALSE
  <2>1. PICK m \in Bad : \A y \in Bad : m <= y
    <3>1. Bad \subseteq Nat
      BY <1>1
    <3> QED BY <1>4, <3>1, LeastNat
  <2>2. m # 0
    BY <1>1, <1>3, <2>1
  <2>3. m \in 1..n /\ m - 1 \in 0..n /\ m - 1 \notin Bad
    BY <1>1, <2>1, <2>2
  <2>4. /\ f[m - 1] \in Records /\ ListFits(A, S, f[m - 1])
        /\ ops[m] \in Op /\ OpFits(A, S, ops[m])
    BY <2>3
  <2>5. f[m] = Apply(f[m - 1], ops[m])
    BY <1>1, <1>3, <2>3
  <2> QED BY <2>1, <2>4, <2>5, ApplyFits
<1> QED BY <1>1, <1>2, <1>4

-----------------------------------------------------------------------------
(* Accounts are made once and sign-ins are not forgotten: what fits goes   *)
(* on fitting.                                                             *)
Grows(A, S, A2, S2) ==
  /\ \A e \in Emails : A[e] \in Keys => A2[e] = A[e]
  /\ \A d \in Devices : S[d] \subseteq S2[d]

SignedType == [Devices -> SUBSET Emails]

LEMMA SignedInGrows ==
  ASSUME NEW A, NEW S \in SignedType, NEW A2, NEW S2, Grows(A, S, A2, S2),
         NEW t \in Devices, NEW k \in Keys, SignedInFor(A, S, t, k)
  PROVE  SignedInFor(A2, S2, t, k)
  BY DEF SignedInFor, Grows, SignedType

LEMMA ListGrows ==
  ASSUME NEW A, NEW S \in SignedType, NEW A2, NEW S2, Grows(A, S, A2, S2),
         NEW list \in Records, ListFits(A, S, list)
  PROVE  ListFits(A2, S2, list)
<1> SUFFICES ASSUME NEW k \in Keys, list[k] # NoRecord
             PROVE  RecordFits(A2, S2, k, list[k])
  BY DEF ListFits
<1>1. RecordFits(A, S, k, list[k])
  BY DEF ListFits
<1> DEFINE r == list[k]
<1>2. r \in User /\ r.email \in Emails \cup {NoEmail} /\ r.token \in Devices \cup {NoToken}
  BY <1>1 DEF RecordFits, User
<1> HIDE DEF r
<1>3. r.email # NoEmail => A2[r.email] = k /\ r.num = k
  BY <1>1, <1>2 DEF RecordFits, Grows, r
<1>4. r.token # NoToken => SignedInFor(A2, S2, r.token, k)
  BY <1>1, <1>2, SignedInGrows DEF RecordFits, r
<1> QED BY <1>1, <1>2, <1>3, <1>4 DEF RecordFits, r

LEMMA OpGrows ==
  ASSUME NEW A, NEW S \in SignedType, NEW A2, NEW S2, Grows(A, S, A2, S2),
         NEW x \in Op, OpFits(A, S, x)
  PROVE  OpFits(A2, S2, x)
<1>1. CASE x.op = "put"
  BY <1>1, OpFields DEF OpFits, Grows
<1>2. CASE x.op = "token"
  BY <1>2, OpFields, SignedInGrows DEF OpFits
<1> QED BY <1>1, <1>2 DEF OpFits

(* Steps that do not touch the database.                                   *)
LEMMA RecordsStep ==
  ASSUME TypeOK, RecordsInv, Grows(accounts, signed, accounts', signed'),
         user' = user, \A d \in Devices : userList'[d] \in {userList[d], EmptyList}
  PROVE  RecordsInv'
<1>1. signed \in SignedType /\ user \in Records /\ \A d \in Devices : userList[d] \in Records
  BY DEF TypeOK, SignedType, Records
<1>2. ListFits(accounts', signed', user')
  BY <1>1, ListGrows DEF RecordsInv
<1>3. ASSUME NEW d \in Devices PROVE ListFits(accounts', signed', userList'[d])
  <2>1. CASE userList'[d] = userList[d]
    BY <1>1, <2>1, ListGrows DEF RecordsInv
  <2>2. CASE userList'[d] = EmptyList
    BY <2>2 DEF EmptyList, ListFits
  <2> QED BY <2>1, <2>2
<1> QED BY <1>2, <1>3 DEF RecordsInv

LEMMA OutboxLater ==
  ASSUME TypeOK, OutboxInv, Grows(accounts, signed, accounts', signed'),
         \A c \in Devices : \A i \in 1..Len(outbox'[c]) :
           \E j \in 1..Len(outbox[c]) : outbox'[c][i] = outbox[c][j]
  PROVE  OutboxInv'
<1>1. signed \in SignedType /\ outbox \in [Devices -> Seq(Op)]
  BY DEF TypeOK, SignedType
<1>2. ASSUME NEW c \in Devices, NEW i \in 1..Len(outbox'[c])
      PROVE  OpFits(accounts', signed', outbox'[c][i])
  <2>1. PICK j \in 1..Len(outbox[c]) : outbox'[c][i] = outbox[c][j]
    BY <1>2
  <2>2. outbox[c][j] \in Op /\ OpFits(accounts, signed, outbox[c][j])
    BY <1>1 DEF OutboxInv
  <2> QED BY <1>1, <2>1, <2>2, OpGrows
<1> QED BY <1>2 DEF OutboxInv

LEMMA OutboxKept ==
  ASSUME TypeOK, OutboxInv, Grows(accounts, signed, accounts', signed'), outbox' = outbox
  PROVE  OutboxInv' /\ outbox' \in [Devices -> Seq(Op)]
<1>1. \A c \in Devices : \A i \in 1..Len(outbox'[c]) :
        \E j \in 1..Len(outbox[c]) : outbox'[c][i] = outbox[c][j]
  OBVIOUS
<1>2. OutboxInv'
  BY <1>1, OutboxLater
<1> QED BY <1>2 DEF TypeOK

LEMMA OutboxLost ==
  ASSUME TypeOK, OutboxInv, Grows(accounts, signed, accounts', signed'),
         NEW d \in Devices, outbox' = [outbox EXCEPT ![d] = <<>>]
  PROVE  OutboxInv' /\ outbox' \in [Devices -> Seq(Op)]
<1>1. outbox' \in [Devices -> Seq(Op)]
  BY DEF TypeOK
<1>2. ASSUME NEW c \in Devices, NEW i \in 1..Len(outbox'[c])
      PROVE  \E j \in 1..Len(outbox[c]) : outbox'[c][i] = outbox[c][j]
  <2>1. CASE c = d
    <3>1. outbox'[c] = <<>>
      BY <2>1 DEF TypeOK
    <3> QED BY <1>2, <3>1
  <2>2. CASE c # d
    <3>1. outbox'[c] = outbox[c]
      BY <2>2 DEF TypeOK
    <3> QED BY <1>2, <3>1
  <2> QED BY <2>1, <2>2
<1>3. OutboxInv'
  BY <1>2, OutboxLater
<1> QED BY <1>1, <1>3

LEMMA OutboxTail ==
  ASSUME TypeOK, OutboxInv, Grows(accounts, signed, accounts', signed'),
         NEW d \in Devices, outbox[d] # <<>>, outbox' = [outbox EXCEPT ![d] = Tail(@)]
  PROVE  OutboxInv' /\ outbox' \in [Devices -> Seq(Op)]
<1>1. outbox[d] \in Seq(Op) /\ Tail(outbox[d]) \in Seq(Op)
  BY DEF TypeOK
<1>2. outbox' \in [Devices -> Seq(Op)]
  BY <1>1 DEF TypeOK
<1>3. ASSUME NEW c \in Devices, NEW i \in 1..Len(outbox'[c])
      PROVE  \E j \in 1..Len(outbox[c]) : outbox'[c][i] = outbox[c][j]
  <2>1. CASE c = d
    <3>1. outbox'[c] = Tail(outbox[c]) /\ outbox[c] # <<>> /\ outbox[c] \in Seq(Op)
      BY <1>1, <2>1 DEF TypeOK
    <3> DEFINE q == outbox[c]
    <3>2. q \in Seq(Op) /\ q # <<>> /\ i \in 1..Len(Tail(q))
      BY <1>3, <3>1
    <3> HIDE DEF q
    <3>3. i + 1 \in 1..Len(q) /\ Tail(q)[i] = q[i + 1]
      BY <3>2
    <3> QED BY <3>1, <3>3 DEF q
  <2>2. CASE c # d
    <3>1. outbox'[c] = outbox[c]
      BY <2>2 DEF TypeOK
    <3> QED BY <1>3, <3>1
  <2> QED BY <2>1, <2>2
<1>4. OutboxInv'
  BY <1>3, OutboxLater
<1> QED BY <1>2, <1>4

LEMMA IssueStep ==
  ASSUME TypeOK, OutboxInv, Grows(accounts, signed, accounts', signed'),
         NEW d \in Devices, NEW ops \in Seq(Op), Issue(d, ops),
         \A i \in 1..Len(ops) : OpFits(accounts', signed', ops[i])
  PROVE  OutboxInv' /\ outbox' \in [Devices -> Seq(Op)]
<1>1. signed \in SignedType /\ outbox \in [Devices -> Seq(Op)]
  BY DEF TypeOK, SignedType
<1>2. outbox' = [outbox EXCEPT ![d] = outbox[d] \o ops]
  BY DEF Issue
<1>3. outbox' \in [Devices -> Seq(Op)]
  <2>1. outbox[d] \o ops \in Seq(Op)
    BY <1>1
  <2> QED BY <1>1, <1>2, <2>1
<1>4. ASSUME NEW c \in Devices, NEW i \in 1..Len(outbox[c])
      PROVE  OpFits(accounts', signed', outbox[c][i])
  <2>1. outbox[c][i] \in Op /\ OpFits(accounts, signed, outbox[c][i])
    BY <1>1 DEF OutboxInv
  <2> QED BY <1>1, <2>1, OpGrows
<1>5. ASSUME NEW c \in Devices, NEW i \in 1..Len(outbox'[c])
      PROVE  OpFits(accounts', signed', outbox'[c][i])
  <2>1. CASE c # d
    <3>1. outbox'[c] = outbox[c]
      BY <1>1, <1>2, <2>1
    <3> QED BY <1>4, <3>1
  <2>2. CASE c = d
    <3> DEFINE q == outbox[d]
    <3>1. outbox'[c] = q \o ops /\ q \in Seq(Op)
      BY <1>1, <1>2, <2>2
    <3>2. \A j \in 1..Len(q) : OpFits(accounts', signed', q[j])
      BY <1>4
    <3>i. i \in 1..Len(q \o ops)
      BY <3>1
    <3> HIDE DEF q
    <3>3. CASE i <= Len(q)
      <4>1. (q \o ops)[i] = q[i] /\ i \in 1..Len(q)
        BY <3>1, <3>i, <3>3
      <4> QED BY <3>1, <3>2, <4>1
    <3>4. CASE i > Len(q)
      <4>1. (q \o ops)[i] = ops[i - Len(q)] /\ i - Len(q) \in 1..Len(ops)
        BY <3>1, <3>i, <3>4
      <4> QED BY <3>1, <4>1
    <3>5. i \in Nat /\ Len(q) \in Nat
      BY <3>1
    <3> QED BY <3>3, <3>4, <3>5
  <2> QED BY <2>1, <2>2
<1> QED BY <1>3, <1>5 DEF OutboxInv

-----------------------------------------------------------------------------
(* What a step of phone d has to show.                                     *)
LEMMA UserGrows ==
  ASSUME NEW A, NEW A2, NEW owners \in SUBSET Emails, NEW more, owners \subseteq more,
         \A e \in Emails : A[e] \in Keys => A2[e] = A[e],
         NEW u, NEW front, NEW a, UserFits(A, owners, u, front, a)
  PROVE  UserFits(A2, more, u, front, a)
  BY DEF UserFits

OthersSame(d) ==
  \A c \in Devices \ {d} : /\ mUser'[c] = mUser[c] /\ screen'[c] = screen[c]
                           /\ auth'[c] = auth[c] /\ tasks'[c] = tasks[c]

LEMMA PhoneStep ==
  ASSUME AccountsInv, TypeOK', NEW d \in Devices,
         Grows(accounts, signed, accounts', signed'),
         user' = user, \A c \in Devices : userList'[c] \in {userList[c], EmptyList},
         OutboxInv', OthersSame(d),
         UserFits(accounts', signed'[d], mUser'[d], screen'[d], auth'[d]),
         TasksFit(tasks'[d], screen'[d])
  PROVE  AccountsInv'
<1> USE DEF AccountsInv
<1>1. RecordsInv'
  BY RecordsStep
<1>2. ASSUME NEW c \in Devices
      PROVE  UserFits(accounts', signed'[c], mUser'[c], screen'[c], auth'[c])
  <2>1. CASE c = d
    BY <2>1
  <2>2. CASE c # d
    <3>1. signed[c] \in SUBSET Emails /\ signed[c] \subseteq signed'[c]
      BY DEF TypeOK, Grows
    <3>2. UserFits(accounts, signed[c], mUser[c], screen[c], auth[c])
      BY DEF UserInv
    <3>3. UserFits(accounts', signed'[c], mUser[c], screen[c], auth[c])
      BY <3>1, <3>2, UserGrows DEF Grows
    <3> QED BY <2>2, <3>3 DEF OthersSame
  <2> QED BY <2>1, <2>2
<1>3. ASSUME NEW c \in Devices PROVE TasksFit(tasks'[c], screen'[c])
  <2>1. CASE c = d
    BY <2>1
  <2>2. CASE c # d
    BY <2>2 DEF OthersSame, TasksInv
  <2> QED BY <2>1, <2>2
<1> QED BY <1>1, <1>2, <1>3 DEF UserInv, TasksInv

LEMMA GrowsSame == ASSUME UNCHANGED <<accounts, signed>>
                   PROVE  Grows(accounts, signed, accounts', signed')
  BY DEF Grows

LEMMA TaskFields ==
  ASSUME NEW p \in Task
  PROVE  /\ p.op \in {"signIn", "create"} /\ p.email \in Emails /\ p.live \in BOOLEAN
         /\ p.op = "create" => p.text \in Texts /\ p.text.num \in Keys \cup {NotANumber}
<1>1. CASE p \in [op : {"signIn"}, email : Emails, live : BOOLEAN]
  BY <1>1
<1>2. CASE p \in [op : {"create"}, email : Emails, text : Texts, live : BOOLEAN]
  <2>1. p.text \in Text
    BY <1>2, NumbersAssumption
  <2>2. p.text.num \in Keys \cup {NotANumber}
    BY <2>1 DEF Text
  <2> QED BY <1>2, <2>2
<1> QED BY <1>1, <1>2 DEF Task

LEMMA DetachedFacts ==
  ASSUME NEW T, T \subseteq Task
  PROVE  /\ Detached(T) \subseteq Task /\ \A front : TasksFit(Detached(T), front)
         /\ Detached(T) = {} => T = {}
<1>1. ASSUME NEW p \in T PROVE /\ [p EXCEPT !.live = FALSE] \in Task
                               /\ ~[p EXCEPT !.live = FALSE].live
  <2>1. CASE p \in [op : {"signIn"}, email : Emails, live : BOOLEAN]
    <3>1. [p EXCEPT !.live = FALSE] \in [op : {"signIn"}, email : Emails, live : BOOLEAN]
      BY <2>1
    <3>2. ~[p EXCEPT !.live = FALSE].live
      BY <2>1
    <3> QED BY <3>1, <3>2 DEF Task
  <2>2. CASE p \in [op : {"create"}, email : Emails, text : Texts, live : BOOLEAN]
    <3>1. [p EXCEPT !.live = FALSE]
            \in [op : {"create"}, email : Emails, text : Texts, live : BOOLEAN]
      BY <2>2
    <3>2. ~[p EXCEPT !.live = FALSE].live
      BY <2>2
    <3> QED BY <3>1, <3>2 DEF Task
  <2> QED BY <2>1, <2>2 DEF Task
<1>2. ASSUME NEW q \in Detached(T) PROVE q \in Task /\ ~q.live
  <2>1. PICK p \in T : q = [p EXCEPT !.live = FALSE]
    BY DEF Detached
  <2> QED BY <1>1, <2>1
<1>3. Detached(T) = {} => T = {}
  BY DEF Detached
<1> QED BY <1>2, <1>3 DEF TasksFit

LEMMA ListNumsType ==
  ASSUME NEW list \in Records PROVE ListNums(list) \subseteq Keys \cup {0}
<1>1. ASSUME NEW k \in Keys, list[k] # NoRecord PROVE list[k].num \in Keys \cup {0}
  BY <1>1 DEF Records, User
<1> QED BY <1>1 DEF ListNums

-----------------------------------------------------------------------------
(* The steps.                                                              *)
LEMMA TapType == ASSUME TypeOK, Tap \/ UNCHANGED taps PROVE taps' \in 0..MaxTaps
<1>1. MaxTaps \in Nat /\ taps \in 0..MaxTaps
  BY NumbersAssumption DEF TypeOK
<1> QED BY <1>1 DEF Tap

LEMMA EmptyListType == EmptyList \in Records
  BY DEF EmptyList, Records

LEMMA AccountsInit == ASSUME Init PROVE AccountsInv
<1>1. TypeOK
  <2>1. accounts \in [Emails -> Keys \cup {NoAccount, NotANumber}]
    BY RegisteredAssumption DEF Init
  <2>2. userList \in [Devices -> [Keys -> User \cup {NoRecord}]]
    BY EmptyListType DEF Init, Records
  <2>3. taps \in 0..MaxTaps
    BY NumbersAssumption DEF Init
  <2>4. outbox \in [Devices -> Seq(Op)] /\ tasks \in [Devices -> SUBSET Task]
    BY DEF Init
  <2>5. /\ auth \in [Devices -> Emails \cup {NoEmail}] /\ signed \in [Devices -> SUBSET Emails]
        /\ mUser \in [Devices -> User \cup {NoRecord}]
        /\ screen \in [Devices -> {"login", "master", "slave", "signup", "closed"}]
        /\ rows \in [Devices -> SUBSET (Keys \cup {0})]
    BY DEF Init
  <2>6. user \in [Keys -> User \cup {NoRecord}]
    BY DEF Init
  <2> QED BY <2>1, <2>2, <2>3, <2>4, <2>5, <2>6 DEF TypeOK
<1>2. ListFits(accounts, signed, user)
  <2> SUFFICES ASSUME NEW k \in Keys, user[k] # NoRecord
               PROVE  RecordFits(accounts, signed, k, user[k])
    BY DEF ListFits
  <2>1. PICK e \in Emails : /\ Registered[e] = k
                            /\ user[k] = NewUser(e, IF e = Master THEN 2 ELSE 1, k)
    BY DEF Init
  <2>2. accounts[e] = k /\ (IF e = Master THEN 2 ELSE 1) \in 0..2
    BY <2>1 DEF Init
  <2> QED BY <2>1, <2>2, NewUserFits
<1>3. RecordsInv
  BY <1>2 DEF RecordsInv, Init, ListFits, EmptyList
<1>4. OutboxInv
  BY DEF OutboxInv, Init
<1>5. UserInv /\ TasksInv
  BY DEF UserInv, UserFits, TasksInv, TasksFit, Init
<1> QED BY <1>1, <1>3, <1>4, <1>5 DEF AccountsInv

(* The client of a phone gets an operation done: the only step that writes *)
(* to the database, and the only one that fills a list.                    *)
LEMMA ExecuteStep ==
  ASSUME AccountsInv, NEW d \in Devices, Execute(d) PROVE AccountsInv'
<1> USE DEF AccountsInv
<1> DEFINE q == outbox[d]
           x == Head(q)
           db == Apply(user, x)
<1>1. /\ q # <<>> /\ outbox' = [outbox EXCEPT ![d] = Tail(@)] /\ user' = db
      /\ userList' = IF x.op = "load" THEN [userList EXCEPT ![d] = Applied(db, Tail(q))]
                     ELSE userList
      /\ UNCHANGED <<accounts, auth, signed, mUser, screen, rows, tasks, taps>>
  BY DEF Execute
<1>2. q \in Seq(Op) /\ \A i \in 1..Len(q) : OpFits(accounts, signed, q[i])
  BY DEF TypeOK, OutboxInv
<1> HIDE DEF q, x, db
<1>3. /\ x \in Op /\ OpFits(accounts, signed, x) /\ Tail(q) \in Seq(Op)
      /\ \A i \in 1..Len(Tail(q)) : OpFits(accounts, signed, Tail(q)[i])
  <2>1. x = q[1] /\ Len(q) > 0 /\ Tail(q) \in Seq(Op) /\ Len(Tail(q)) = Len(q) - 1
    BY <1>1, <1>2 DEF x
  <2>2. ASSUME NEW i \in 1..Len(Tail(q)) PROVE OpFits(accounts, signed, Tail(q)[i])
    <3>1. Tail(q)[i] = q[i + 1] /\ i + 1 \in 1..Len(q)
      BY <1>1, <1>2, <2>1
    <3> QED BY <1>2, <3>1
  <2> QED BY <1>2, <2>1, <2>2
<1>4. db \in Records /\ ListFits(accounts, signed, db)
  <2>1. user \in Records /\ ListFits(accounts, signed, user)
    BY DEF TypeOK, Records, RecordsInv
  <2> QED BY <1>3, <2>1, ApplyFits DEF db
<1>5. Applied(db, Tail(q)) \in Records /\ ListFits(accounts, signed, Applied(db, Tail(q)))
  BY <1>3, <1>4, AppliedFits
<1>6. /\ userList' \in [Devices -> Records]
      /\ \A c \in Devices : ListFits(accounts, signed, userList'[c])
  <2>1. userList \in [Devices -> Records]
        /\ \A c \in Devices : ListFits(accounts, signed, userList[c])
    BY DEF TypeOK, Records, RecordsInv
  <2> QED BY <1>1, <1>5, <2>1
<1>7. RecordsInv'
  BY <1>1, <1>4, <1>6 DEF RecordsInv
<1>8. OutboxInv' /\ outbox' \in [Devices -> Seq(Op)]
  BY <1>1, GrowsSame, OutboxTail DEF q
<1>9. TypeOK'
  BY <1>1, <1>4, <1>6, <1>8 DEF TypeOK, Records
<1>10. UserInv' /\ TasksInv'
  BY <1>1 DEF UserInv, TasksInv
<1> QED BY <1>7, <1>8, <1>9, <1>10

(* Steps that leave the phone's statics, sign-in and database alone.       *)
LEMMA QuietStep ==
  ASSUME AccountsInv, NEW d \in Devices,
         UNCHANGED <<accounts, user, auth, signed, mUser, userList>>,
         OutboxInv', outbox' \in [Devices -> Seq(Op)],
         screen' \in [Devices -> {"login", "master", "slave", "signup", "closed"}],
         rows' \in [Devices -> SUBSET (Keys \cup {0})],
         tasks' \in [Devices -> SUBSET Task],
         taps' \in 0..MaxTaps,
         \A c \in Devices \ {d} : screen'[c] = screen[c] /\ tasks'[c] = tasks[c],
         screen'[d] \in {"master", "slave"} => mUser[d] # NoRecord,
         TasksFit(tasks'[d], screen'[d])
  PROVE  AccountsInv'
<1> USE DEF AccountsInv
<1>1. TypeOK'
  BY DEF TypeOK
<1>2. UserFits(accounts', signed'[d], mUser'[d], screen'[d], auth'[d])
  BY DEF UserInv, UserFits
<1>3. OthersSame(d)
  BY DEF OthersSame
<1> QED BY <1>1, <1>2, <1>3, GrowsSame, PhoneStep

LEMMA RefuseStep ==
  ASSUME AccountsInv, NEW d \in Devices, Refuse(d) PROVE AccountsInv'
<1> USE DEF AccountsInv
<1>1. OutboxInv' /\ outbox' \in [Devices -> Seq(Op)]
  BY GrowsSame, OutboxTail DEF Refuse
<1>2. screen[d] \in {"master", "slave"} => mUser[d] # NoRecord
  BY DEF UserInv, UserFits
<1> QED BY <1>1, <1>2, QuietStep DEF Refuse, TypeOK, TasksInv

(* What the invariant says of phone d.                                     *)
LEMMA PhoneFacts ==
  ASSUME AccountsInv, NEW d \in Devices
  PROVE  /\ UserFits(accounts, signed[d], mUser[d], screen[d], auth[d])
         /\ TasksFit(tasks[d], screen[d])
         /\ userList[d] \in Records /\ ListFits(accounts, signed, userList[d])
         /\ mUser[d] \in User \cup {NoRecord}
         /\ tasks[d] \subseteq Task /\ signed[d] \subseteq Emails
         /\ rows[d] \subseteq Keys \cup {0}
  BY DEF AccountsInv, UserInv, TasksInv, RecordsInv, TypeOK, Records

LEMMA OutboxSame ==
  ASSUME AccountsInv, UNCHANGED <<accounts, signed, outbox>>
  PROVE  OutboxInv' /\ outbox' \in [Devices -> Seq(Op)]
  BY DEF AccountsInv, OutboxInv, TypeOK

(* Operations that fit whoever has signed in.                              *)
LEMMA PlainOps ==
  ASSUME NEW A, NEW S, NEW n \in Keys \cup {0}
  PROVE  /\ <<Load>> \in Seq(Op) /\ \A i \in 1..Len(<<Load>>) : OpFits(A, S, <<Load>>[i])
         /\ LET ops == <<[op |-> "remove", num |-> n], Load>> IN
            ops \in Seq(Op) /\ \A i \in 1..Len(ops) : OpFits(A, S, ops[i])
<1> DEFINE rm == [op |-> "remove", num |-> n]
<1>1. Load \in Op /\ rm \in Op /\ Load.op = "load" /\ rm.op = "remove"
  BY OpType DEF Load
<1>2. OpFits(A, S, Load) /\ OpFits(A, S, rm)
  BY <1>1 DEF OpFits
<1> HIDE DEF rm
<1>3. <<Load>> \in Seq(Op) /\ <<rm, Load>> \in Seq(Op)
  BY <1>1
<1>4. \A i \in 1..Len(<<Load>>) : OpFits(A, S, <<Load>>[i])
  BY <1>2
<1>5. \A i \in 1..Len(<<rm, Load>>) : OpFits(A, S, <<rm, Load>>[i])
  BY <1>2
<1> QED BY <1>3, <1>4, <1>5 DEF rm

LEMMA LoginStep ==
  ASSUME AccountsInv, NEW d \in Devices, NEW e \in Emails \cup {NoEmail}, LoginClick(d, e)
  PROVE  AccountsInv'
<1> DEFINE p == [op |-> "signIn", email |-> e, live |-> TRUE]
<1>1. /\ screen[d] = "login" /\ Tap /\ Issue(d, <<Load>>)
      /\ UNCHANGED <<accounts, user, auth, signed, mUser, userList, screen, rows>>
  BY DEF LoginClick, cloudVars, statics
<1>2. OutboxInv' /\ outbox' \in [Devices -> Seq(Op)]
  <2>1. <<Load>> \in Seq(Op) /\ \A i \in 1..Len(<<Load>>) : OpFits(accounts', signed', <<Load>>[i])
    BY PlainOps
  <2> QED BY <1>1, <2>1, GrowsSame, IssueStep DEF AccountsInv
<1>3. e \in Emails => p \in Task /\ p.op = "signIn"
  BY DEF Task
<1>4. tasks' = tasks \/ (e \in Emails /\ tasks' = [tasks EXCEPT ![d] = @ \cup {p}])
  BY DEF LoginClick
<1> HIDE DEF p
<1>5. /\ tasks' \in [Devices -> SUBSET Task]
      /\ \A c \in Devices \ {d} : tasks'[c] = tasks[c]
      /\ tasks'[d] = tasks[d] \/ (tasks'[d] = tasks[d] \cup {p} /\ p.op = "signIn")
  <2>1. tasks \in [Devices -> SUBSET Task]
    BY DEF AccountsInv, TypeOK
  <2>2. CASE tasks' = tasks
    BY <2>1, <2>2
  <2>3. CASE e \in Emails /\ tasks' = [tasks EXCEPT ![d] = @ \cup {p}]
    BY <1>3, <2>1, <2>3
  <2> QED BY <1>4, <2>2, <2>3
<1>6. TasksFit(tasks'[d], screen'[d])
  BY <1>1, <1>5, PhoneFacts DEF TasksFit
<1>7. taps' \in 0..MaxTaps
  BY <1>1, TapType DEF AccountsInv
<1> QED BY <1>1, <1>2, <1>5, <1>6, <1>7, QuietStep DEF AccountsInv, TypeOK

LEMMA SignUpStep ==
  ASSUME AccountsInv, NEW d \in Devices, NEW e \in Emails, NEW text \in Texts,
         SignUp(d, e, text)
  PROVE  AccountsInv'
<1> DEFINE p == [op |-> "create", email |-> e, text |-> text, live |-> TRUE]
<1>1. /\ screen[d] = "signup" /\ Tap /\ tasks' = [tasks EXCEPT ![d] = @ \cup {p}]
      /\ UNCHANGED <<accounts, user, auth, signed, mUser, userList, screen, rows, outbox>>
  BY DEF SignUp, cloudVars, statics
<1>2. OutboxInv' /\ outbox' \in [Devices -> Seq(Op)]
  BY <1>1, OutboxSame
<1>3. p \in Task
  BY DEF Task
<1> HIDE DEF p
<1>4. /\ tasks' \in [Devices -> SUBSET Task]
      /\ \A c \in Devices \ {d} : tasks'[c] = tasks[c]
  BY <1>1, <1>3 DEF AccountsInv, TypeOK
<1>5. TasksFit(tasks'[d], screen'[d])
  BY <1>1 DEF TasksFit
<1>6. taps' \in 0..MaxTaps
  BY <1>1, TapType DEF AccountsInv
<1> QED BY <1>1, <1>2, <1>4, <1>5, <1>6, QuietStep DEF AccountsInv, TypeOK

LEMMA AuthFailsStep ==
  ASSUME AccountsInv, NEW d \in Devices, NEW p, AuthFails(d, p) PROVE AccountsInv'
<1>1. /\ tasks' = [tasks EXCEPT ![d] = @ \ {p}]
      /\ UNCHANGED <<accounts, user, auth, signed, mUser, userList, screen, rows, outbox, taps>>
  BY DEF AuthFails, cloudVars, statics
<1>2. OutboxInv' /\ outbox' \in [Devices -> Seq(Op)]
  BY <1>1, OutboxSame
<1>3. /\ tasks' \in [Devices -> SUBSET Task] /\ tasks'[d] \subseteq tasks[d]
      /\ \A c \in Devices \ {d} : tasks'[c] = tasks[c]
  BY <1>1 DEF AccountsInv, TypeOK
<1>4. TasksFit(tasks'[d], screen'[d])
  BY <1>1, <1>3, PhoneFacts DEF TasksFit
<1>5. screen[d] \in {"master", "slave"} => mUser[d] # NoRecord
  BY PhoneFacts DEF UserFits
<1> QED BY <1>1, <1>2, <1>3, <1>4, <1>5, QuietStep DEF AccountsInv, TypeOK

LEMMA ScreenStep ==
  ASSUME AccountsInv, NEW d \in Devices, OpenSignUp(d) \/ Launch(d) PROVE AccountsInv'
<1>1. UNCHANGED <<accounts, user, auth, signed, mUser, userList, rows, outbox, tasks, taps>>
  BY DEF OpenSignUp, Launch, cloudVars, statics
<1>2. \/ screen[d] = "master" /\ screen' = [screen EXCEPT ![d] = "signup"]
      \/ screen[d] = "closed" /\ screen' = [screen EXCEPT ![d] = "login"]
  BY DEF OpenSignUp, Launch
<1>3. OutboxInv' /\ outbox' \in [Devices -> Seq(Op)]
  BY <1>1, OutboxSame
<1>4. /\ screen' \in [Devices -> {"login", "master", "slave", "signup", "closed"}]
      /\ \A c \in Devices \ {d} : screen'[c] = screen[c]
      /\ screen'[d] \in {"signup", "login"} /\ screen[d] # "signup"
  BY <1>2 DEF AccountsInv, TypeOK
<1>5. TasksFit(tasks'[d], screen'[d])
  BY <1>1, <1>4, PhoneFacts DEF TasksFit
<1> QED BY <1>1, <1>3, <1>4, <1>5, QuietStep DEF AccountsInv, TypeOK

LEMMA ReloadStep ==
  ASSUME AccountsInv, NEW d \in Devices,
         Reload(d) \/ \E n \in rows[d] : RemoveUser(d, n)
  PROVE  AccountsInv'
<1>1. /\ screen[d] = "master" /\ Tap
      /\ UNCHANGED <<accounts, user, auth, signed, mUser, userList, screen, tasks>>
  BY DEF Reload, RemoveUser, cloudVars, statics
<1>2. rows' \in [Devices -> SUBSET (Keys \cup {0})]
  <2>1. ListNums(userList[d]) \subseteq Keys \cup {0}
    BY PhoneFacts, ListNumsType
  <2> QED BY <2>1 DEF Reload, RemoveUser, AccountsInv, TypeOK
<1>3. OutboxInv' /\ outbox' \in [Devices -> Seq(Op)]
  <2>1. CASE Reload(d)
    <3>1. <<Load>> \in Seq(Op) /\ \A i \in 1..Len(<<Load>>) : OpFits(accounts', signed', <<Load>>[i])
      BY PlainOps
    <3> QED BY <1>1, <2>1, <3>1, GrowsSame, IssueStep DEF AccountsInv, Reload
  <2>2. ASSUME NEW n \in rows[d], RemoveUser(d, n) PROVE OutboxInv' /\ outbox' \in [Devices -> Seq(Op)]
    <3> DEFINE ops == <<[op |-> "remove", num |-> n], Load>>
    <3>1. n \in Keys \cup {0}
      BY PhoneFacts
    <3>2. ops \in Seq(Op) /\ \A i \in 1..Len(ops) : OpFits(accounts', signed', ops[i])
      BY <3>1, PlainOps
    <3>3. Issue(d, ops)
      BY <2>2 DEF RemoveUser
    <3> HIDE DEF ops
    <3> QED BY <1>1, <3>2, <3>3, GrowsSame, IssueStep DEF AccountsInv
  <2> QED BY <2>1, <2>2
<1>4. taps' \in 0..MaxTaps
  BY <1>1, TapType DEF AccountsInv
<1>5. mUser[d] # NoRecord
  BY <1>1, PhoneFacts DEF UserFits
<1> QED BY <1>1, <1>2, <1>3, <1>4, <1>5, PhoneFacts, QuietStep DEF AccountsInv, TypeOK

(* The token of this phone goes to the number of the user u who has signed *)
(* in on it.                                                               *)
LEMMA TokenOps ==
  ASSUME NEW A, NEW S, NEW d \in Devices, NEW t \in {d, NoToken}, NEW n \in Keys,
         SignedInFor(A, S, d, n)
  PROVE  /\ <<UpdateToken(n, t)>> \in Seq(Op)
         /\ \A i \in 1..Len(<<UpdateToken(n, t)>>) : OpFits(A, S, <<UpdateToken(n, t)>>[i])
<1> DEFINE x == UpdateToken(n, t)
<1>1. x \in Op /\ x.op = "token" /\ x.num = n /\ x.token = t
  BY OpType DEF UpdateToken
<1>2. OpFits(A, S, x)
  BY <1>1 DEF OpFits
<1> HIDE DEF x
<1>3. <<x>> \in Seq(Op) /\ \A i \in 1..Len(<<x>>) : OpFits(A, S, <<x>>[i])
  BY <1>1, <1>2
<1> QED BY <1>3 DEF x

LEMMA RecreateStep ==
  ASSUME AccountsInv, NEW d \in Devices, NEW t \in {d, NoToken}, Recreate(d, t)
  PROVE  AccountsInv'
<1>1. /\ Tap /\ UNCHANGED <<accounts, user, auth, signed, mUser, userList, screen>>
      /\ tasks' = [tasks EXCEPT ![d] = Detached(tasks[d])]
  BY DEF Recreate, cloudVars, statics
<1>2. rows' \in [Devices -> SUBSET (Keys \cup {0})]
  <2>1. ListNums(userList[d]) \subseteq Keys \cup {0}
    BY PhoneFacts, ListNumsType
  <2> QED BY <2>1 DEF Recreate, AccountsInv, TypeOK
<1>3. /\ tasks' \in [Devices -> SUBSET Task] /\ TasksFit(tasks'[d], screen'[d])
      /\ \A c \in Devices \ {d} : tasks'[c] = tasks[c]
  <2>1. Detached(tasks[d]) \subseteq Task /\ TasksFit(Detached(tasks[d]), screen'[d])
    BY PhoneFacts, DetachedFacts
  <2> QED BY <1>1, <2>1 DEF AccountsInv, TypeOK
<1>4. screen[d] \in {"master", "slave"} => mUser[d] # NoRecord
  BY PhoneFacts DEF UserFits
<1>5. OutboxInv' /\ outbox' \in [Devices -> Seq(Op)]
  <2>1. CASE screen[d] \in {"master", "slave"}
    <3>1. mUser[d].num \in Keys /\ SignedInFor(accounts', signed', d, mUser[d].num)
      BY <1>1, <1>4, <2>1, PhoneFacts DEF UserFits, SignedInFor
    <3> DEFINE ops == <<UpdateToken(mUser[d].num, t)>>
    <3>2. ops \in Seq(Op) /\ \A i \in 1..Len(ops) : OpFits(accounts', signed', ops[i])
      BY <3>1, TokenOps
    <3>3. Issue(d, ops)
      BY <2>1 DEF Recreate
    <3> HIDE DEF ops
    <3> QED BY <1>1, <3>2, <3>3, GrowsSame, IssueStep DEF AccountsInv
  <2>2. CASE screen[d] \notin {"master", "slave"}
    <3>1. UNCHANGED outbox
      BY <2>2 DEF Recreate
    <3> QED BY <1>1, <3>1, OutboxSame
  <2> QED BY <2>1, <2>2
<1>6. taps' \in 0..MaxTaps
  BY <1>1, TapType DEF AccountsInv
<1> QED BY <1>1, <1>2, <1>3, <1>4, <1>5, <1>6, QuietStep DEF AccountsInv, TypeOK

(* The process of a phone is lost, whatever else the step does to who is   *)
(* signed in there.                                                        *)
LEMMA LostStep ==
  ASSUME AccountsInv, NEW d \in Devices, ProcessGone(d),
         Grows(accounts, signed, accounts', signed'),
         tasks' = [tasks EXCEPT ![d] = {}],
         accounts' \in [Emails -> Keys \cup {NoAccount, NotANumber}], user' = user,
         NEW a \in Emails \cup {NoEmail}, auth' = [auth EXCEPT ![d] = a],
         signed' \in [Devices -> SUBSET Emails], UNCHANGED taps,
         NEW front \in {"login", "signup", "closed"}, screen' = [screen EXCEPT ![d] = front]
  PROVE  AccountsInv'
<1>1. /\ mUser' = [mUser EXCEPT ![d] = NoRecord]
      /\ userList' = [userList EXCEPT ![d] = EmptyList]
      /\ rows' = [rows EXCEPT ![d] = {}] /\ outbox' = [outbox EXCEPT ![d] = <<>>]
  BY DEF ProcessGone
<1>2. OutboxInv' /\ outbox' \in [Devices -> Seq(Op)]
  <2>1. TypeOK /\ OutboxInv /\ outbox' = [outbox EXCEPT ![d] = <<>>]
    BY <1>1 DEF AccountsInv
  <2> QED BY <2>1, OutboxLost
<1>3. /\ userList' \in [Devices -> Records]
      /\ \A c \in Devices : userList'[c] \in {userList[c], EmptyList}
  BY <1>1, EmptyListType DEF AccountsInv, TypeOK, Records
<1>4. /\ mUser' \in [Devices -> User \cup {NoRecord}]
      /\ auth' \in [Devices -> Emails \cup {NoEmail}]
      /\ screen' \in [Devices -> {"login", "master", "slave", "signup", "closed"}]
      /\ rows' \in [Devices -> SUBSET (Keys \cup {0})]
      /\ tasks' \in [Devices -> SUBSET Task]
  BY <1>1 DEF AccountsInv, TypeOK
<1>5. TypeOK'
  BY <1>2, <1>3, <1>4 DEF AccountsInv, TypeOK, Records
<1>6. mUser'[d] = NoRecord /\ tasks'[d] = {} /\ screen'[d] = front
  BY <1>1 DEF AccountsInv, TypeOK
<1>7. UserFits(accounts', signed'[d], mUser'[d], screen'[d], auth'[d])
      /\ TasksFit(tasks'[d], screen'[d])
  BY <1>6 DEF UserFits, TasksFit
<1>8. OthersSame(d)
  BY <1>1 DEF OthersSame, AccountsInv, TypeOK
<1> QED BY <1>2, <1>3, <1>5, <1>7, <1>8, PhoneStep

LEMMA CallGoneStep ==
  ASSUME AccountsInv, NEW d \in Devices, \E n \in rows[d] : CallGone(d, n)
  PROVE  AccountsInv'
<1>1. /\ ProcessGone(d) /\ tasks' = [tasks EXCEPT ![d] = {}]
      /\ screen' = [screen EXCEPT ![d] = "closed"]
      /\ UNCHANGED <<accounts, user, auth, signed, taps>>
  BY DEF CallGone, Crash, cloudVars
<1>2. auth' = [auth EXCEPT ![d] = auth[d]] /\ auth[d] \in Emails \cup {NoEmail}
  BY <1>1 DEF AccountsInv, TypeOK
<1>3. /\ accounts' \in [Emails -> Keys \cup {NoAccount, NotANumber}]
      /\ signed' \in [Devices -> SUBSET Emails]
  BY <1>1 DEF AccountsInv, TypeOK
<1> QED BY <1>1, <1>2, <1>3, GrowsSame, LostStep

LEMMA ProcessDeathStep ==
  ASSUME AccountsInv, NEW d \in Devices, ProcessDeath(d) PROVE AccountsInv'
<1> DEFINE front == IF screen[d] \in {"master", "slave"} THEN "closed" ELSE screen[d]
<1>1. /\ ProcessGone(d) /\ tasks' = [tasks EXCEPT ![d] = {}]
      /\ screen' = [screen EXCEPT ![d] = front]
      /\ UNCHANGED <<accounts, user, auth, signed, taps>>
  BY DEF ProcessDeath, cloudVars
<1>2. front \in {"login", "signup", "closed"}
  BY DEF AccountsInv, TypeOK
<1> HIDE DEF front
<1>3. auth' = [auth EXCEPT ![d] = auth[d]] /\ auth[d] \in Emails \cup {NoEmail}
  BY <1>1 DEF AccountsInv, TypeOK
<1>4. /\ accounts' \in [Emails -> Keys \cup {NoAccount, NotANumber}]
      /\ signed' \in [Devices -> SUBSET Emails]
  BY <1>1 DEF AccountsInv, TypeOK
<1> QED BY <1>1, <1>2, <1>3, <1>4, GrowsSame, LostStep

LEMMA BackStep ==
  ASSUME AccountsInv, NEW d \in Devices, Back(d) PROVE AccountsInv'
<1>1. UNCHANGED <<accounts, user, auth, signed, taps>> /\ screen[d] # "closed"
  BY DEF Back, cloudVars
<1>2. CASE screen[d] = "signup" /\ mUser[d] = NoRecord
  <2>1. /\ ProcessGone(d) /\ tasks' = [tasks EXCEPT ![d] = {}]
        /\ screen' = [screen EXCEPT ![d] = "closed"]
    BY <1>2 DEF Back, Crash
  <2>2. auth' = [auth EXCEPT ![d] = auth[d]] /\ auth[d] \in Emails \cup {NoEmail}
    BY <1>1 DEF AccountsInv, TypeOK
  <2>3. /\ accounts' \in [Emails -> Keys \cup {NoAccount, NotANumber}]
        /\ signed' \in [Devices -> SUBSET Emails]
    BY <1>1 DEF AccountsInv, TypeOK
  <2> QED BY <1>1, <2>1, <2>2, <2>3, GrowsSame, LostStep
<1>3. CASE ~(screen[d] = "signup" /\ mUser[d] = NoRecord)
  <2>1. /\ screen' = [screen EXCEPT ![d] = IF @ = "signup" THEN "master" ELSE "closed"]
        /\ rows' = IF screen[d] = "signup" THEN rows ELSE [rows EXCEPT ![d] = {}]
        /\ tasks' = [tasks EXCEPT ![d] = Detached(tasks[d])]
        /\ UNCHANGED <<outbox, mUser, userList>>
    BY <1>3 DEF Back, statics
  <2>2. Detached(tasks[d]) \subseteq Task /\ TasksFit(Detached(tasks[d]), screen'[d])
    BY PhoneFacts, DetachedFacts
  <2>3. /\ tasks' \in [Devices -> SUBSET Task] /\ TasksFit(tasks'[d], screen'[d])
        /\ \A c \in Devices \ {d} : tasks'[c] = tasks[c]
    BY <2>1, <2>2 DEF AccountsInv, TypeOK
  <2>4. /\ screen' \in [Devices -> {"login", "master", "slave", "signup", "closed"}]
        /\ \A c \in Devices \ {d} : screen'[c] = screen[c]
        /\ screen'[d] \in {"master", "slave"} => mUser[d] # NoRecord
    BY <1>3, <2>1 DEF AccountsInv, TypeOK
  <2>5. rows' \in [Devices -> SUBSET (Keys \cup {0})]
    BY <2>1 DEF AccountsInv, TypeOK
  <2>6. OutboxInv' /\ outbox' \in [Devices -> Seq(Op)]
    BY <1>1, <2>1, OutboxSame
  <2> QED BY <1>1, <2>1, <2>3, <2>4, <2>5, <2>6, QuietStep DEF AccountsInv, TypeOK
<1> QED BY <1>2, <1>3

LEMMA SignOutStep ==
  ASSUME AccountsInv, NEW d \in Devices, SignOut(d) PROVE AccountsInv'
<1>1. /\ mUser' = [mUser EXCEPT ![d] = NoRecord]
      /\ userList' = [userList EXCEPT ![d] = EmptyList]
      /\ auth' = [auth EXCEPT ![d] = NoEmail]
      /\ screen' = [screen EXCEPT ![d] = "login"] /\ rows' = [rows EXCEPT ![d] = {}]
      /\ UNCHANGED <<accounts, user, signed, outbox, tasks, taps>>
      /\ screen[d] \in {"master", "slave"}
  BY DEF SignOut, cloudVars
<1>2. OutboxInv' /\ outbox' \in [Devices -> Seq(Op)]
  BY <1>1, OutboxSame
<1>3. /\ userList' \in [Devices -> Records]
      /\ \A c \in Devices : userList'[c] \in {userList[c], EmptyList}
  BY <1>1, EmptyListType DEF AccountsInv, TypeOK, Records
<1>4. TypeOK'
  BY <1>1, <1>2, <1>3 DEF AccountsInv, TypeOK, Records
<1>5. mUser'[d] = NoRecord /\ screen'[d] = "login"
  BY <1>1 DEF AccountsInv, TypeOK
<1>6. UserFits(accounts', signed'[d], mUser'[d], screen'[d], auth'[d])
  BY <1>5 DEF UserFits
<1>7. TasksFit(tasks'[d], screen'[d])
  BY <1>1, PhoneFacts DEF TasksFit
<1>8. OthersSame(d)
  BY <1>1 DEF OthersSame, AccountsInv, TypeOK
<1> QED BY <1>1, <1>2, <1>3, <1>4, <1>6, <1>7, <1>8, GrowsSame, PhoneStep

(* An account is made: its record may be written under its number.         *)
LEMMA CreateStep ==
  ASSUME AccountsInv, NEW d \in Devices, NEW p \in tasks[d], CreateOk(d, p)
  PROVE  AccountsInv'
<1>p. /\ p \in Task /\ p.op = "create" /\ p.email \in Emails
      /\ p.text.num \in Keys \cup {NotANumber}
  BY PhoneFacts, TaskFields DEF CreateOk
<1>1. /\ accounts[p.email] = NoAccount
      /\ accounts' = [accounts EXCEPT ![p.email] = p.text.num]
      /\ auth' = [auth EXCEPT ![d] = p.email] /\ UNCHANGED <<user, signed, taps>>
  BY DEF CreateOk
<1>2. /\ accounts' \in [Emails -> Keys \cup {NoAccount, NotANumber}]
      /\ signed' \in [Devices -> SUBSET Emails] /\ accounts'[p.email] = p.text.num
  BY <1>p, <1>1 DEF AccountsInv, TypeOK
<1>3. Grows(accounts, signed, accounts', signed')
  BY <1>p, <1>1, NullAssumption DEF Grows, AccountsInv, TypeOK
<1>4. CASE p.live /\ p.text.num = NotANumber
  <2>1. /\ ProcessGone(d) /\ tasks' = [tasks EXCEPT ![d] = {}]
        /\ screen' = [screen EXCEPT ![d] = "closed"]
    BY <1>4 DEF CreateOk, Crash
  <2> QED BY <1>p, <1>1, <1>2, <1>3, <2>1, LostStep
<1>5. CASE ~(p.live /\ p.text.num = NotANumber)
  <2>1. /\ tasks' = [tasks EXCEPT ![d] = @ \ {p}]
        /\ UNCHANGED <<screen, rows, mUser, userList>>
    BY <1>5 DEF CreateOk, statics
  <2>2. OutboxInv' /\ outbox' \in [Devices -> Seq(Op)]
    <3>0. TypeOK /\ OutboxInv
      BY DEF AccountsInv
    <3>1. CASE p.live
      <4> DEFINE x == [op |-> "put", num |-> p.text.num, email |-> p.email]
      <4>1. x \in Op /\ OpFits(accounts', signed', x)
        <5>1. p.text.num \in Keys
          BY <1>p, <1>5, <3>1
        <5>2. x \in Op
          BY <1>p, <5>1, OpType
        <5> QED BY <1>2, <5>2 DEF OpFits
      <4>2. Issue(d, <<x>>)
        BY <1>5, <3>1 DEF CreateOk
      <4> HIDE DEF x
      <4>3. <<x>> \in Seq(Op) /\ \A i \in 1..Len(<<x>>) : OpFits(accounts', signed', <<x>>[i])
        BY <4>1
      <4> QED BY <1>3, <3>0, <4>2, <4>3, IssueStep
    <3>2. CASE ~p.live
      <4>1. outbox' = outbox
        BY <1>5, <3>2 DEF CreateOk
      <4> QED BY <1>3, <3>0, <4>1, OutboxKept
    <3> QED BY <3>1, <3>2
  <2>3. TypeOK'
    BY <1>p, <1>1, <1>2, <2>1, <2>2 DEF AccountsInv, TypeOK
  <2>4. OthersSame(d)
    BY <1>1, <2>1 DEF OthersSame, AccountsInv, TypeOK
  <2>5. /\ auth'[d] # NoEmail /\ tasks'[d] \subseteq tasks[d]
        /\ signed[d] \in SUBSET Emails
    BY <1>p, <1>1, <2>1, NullAssumption DEF AccountsInv, TypeOK
  <2>6. UserFits(accounts', signed'[d], mUser'[d], screen'[d], auth'[d])
    <3>1. UserFits(accounts, signed[d], mUser[d], screen[d], auth[d])
      BY PhoneFacts
    <3>2. UserFits(accounts', signed'[d], mUser[d], screen[d], auth[d])
      BY <1>1, <1>3, <2>5, <3>1, UserGrows DEF Grows
    <3> QED BY <2>1, <2>5, <3>2 DEF UserFits
  <2>7. TasksFit(tasks'[d], screen'[d])
    BY <2>1, <2>5, PhoneFacts DEF TasksFit
  <2> QED BY <1>1, <1>3, <2>1, <2>2, <2>3, <2>4, <2>6, <2>7, PhoneStep
<1> QED BY <1>4, <1>5

(* The user getCurrentUser returns has signed in here, now or before.      *)
LEMMA CurrentUser ==
  ASSUME AccountsInv, NEW d \in Devices, NEW e \in Emails, NEW u \in Known(d),
         GetCurrentUser(d, e, u)
  PROVE  /\ u \in User /\ u # NoRecord /\ u.num \in Keys /\ accounts[u.email] = u.num
         /\ u.email \in signed[d] \cup {e}
<1>1. u # NoRecord
  BY DEF Known
<1>2. CASE mUser[d] # NoRecord
  <2>1. u = mUser[d]
    BY <1>2 DEF GetCurrentUser
  <2> QED BY <1>1, <2>1, PhoneFacts DEF UserFits
<1>3. CASE mUser[d] = NoRecord
  <2>1. Finds(userList[d], e, u)
    BY <1>3 DEF GetCurrentUser
  <2>2. PICK k \in Keys : userList[d][k] = u /\ u.email = e
    BY <2>1 DEF Finds
  <2>3. RecordFits(accounts, signed, k, u)
    BY <1>1, <2>2, PhoneFacts DEF ListFits
  <2>4. e # NoEmail
    BY NullAssumption
  <2> QED BY <1>1, <2>2, <2>3, <2>4 DEF RecordFits
<1> QED BY <1>2, <1>3

LEMMA SignInStep ==
  ASSUME AccountsInv, NEW d \in Devices, NEW p \in tasks[d], NEW t \in {d, NoToken},
         SignInOk(d, p, t)
  PROVE  AccountsInv'
<1>p. p \in Task /\ p.op = "signIn" /\ p.email \in Emails /\ p.email # NoEmail
  BY PhoneFacts, TaskFields, NullAssumption DEF SignInOk
<1>1. /\ auth' = [auth EXCEPT ![d] = p.email]
      /\ signed' = [signed EXCEPT ![d] = @ \cup {p.email}]
      /\ UNCHANGED <<accounts, user, taps>>
  BY DEF SignInOk, cloudVars
<1>2. /\ accounts' \in [Emails -> Keys \cup {NoAccount, NotANumber}]
      /\ signed' \in [Devices -> SUBSET Emails]
      /\ signed'[d] = signed[d] \cup {p.email} /\ signed[d] \in SUBSET Emails
      /\ auth' \in [Devices -> Emails \cup {NoEmail}] /\ auth'[d] = p.email
  BY <1>p, <1>1 DEF AccountsInv, TypeOK
<1>3. Grows(accounts, signed, accounts', signed')
  BY <1>p, <1>1 DEF Grows, AccountsInv, TypeOK
<1>4. CASE p.live /\ Crash(d)
  <2>1. /\ ProcessGone(d) /\ tasks' = [tasks EXCEPT ![d] = {}]
        /\ screen' = [screen EXCEPT ![d] = "closed"]
    BY <1>4 DEF Crash
  <2> QED BY <1>p, <1>1, <1>2, <1>3, <2>1, LostStep
<1>5. CASE ~p.live /\ tasks' = [tasks EXCEPT ![d] = @ \ {p}]
           /\ UNCHANGED <<mUser, userList, screen, rows, outbox>>
  <2>2. OutboxInv' /\ outbox' \in [Devices -> Seq(Op)]
    <3>1. TypeOK /\ OutboxInv /\ outbox' = outbox
      BY <1>5 DEF AccountsInv
    <3> QED BY <1>3, <3>1, OutboxKept
  <2>3. TypeOK'
    BY <1>1, <1>2, <1>5, <2>2 DEF AccountsInv, TypeOK
  <2>4. OthersSame(d)
    BY <1>1, <1>5 DEF OthersSame, AccountsInv, TypeOK
  <2>5. UserFits(accounts', signed'[d], mUser'[d], screen'[d], auth'[d])
    BY <1>p, <1>1, <1>2, <1>5, PhoneFacts DEF UserFits
  <2>6. TasksFit(tasks'[d], screen'[d])
    <3>1. tasks'[d] \subseteq tasks[d]
      BY <1>5 DEF AccountsInv, TypeOK
    <3> QED BY <1>5, <3>1, PhoneFacts DEF TasksFit
  <2> QED BY <1>1, <1>3, <1>5, <2>2, <2>3, <2>4, <2>5, <2>6, PhoneStep
<1>6. ASSUME NEW u \in Known(d), p.live, GetCurrentUser(d, p.email, u),
             mUser' = [mUser EXCEPT ![d] = u],
             screen' = [screen EXCEPT ![d] = IF u.right = 2 THEN "master" ELSE "slave"],
             rows' = [rows EXCEPT ![d] = IF u.right = 2 THEN ListNums(userList[d]) ELSE {}],
             Issue(d, <<UpdateToken(u.num, t)>>),
             tasks' = [tasks EXCEPT ![d] = Detached(@ \ {p})], UNCHANGED userList
      PROVE  AccountsInv'
  <2>1. /\ u \in User /\ u # NoRecord /\ u.num \in Keys /\ accounts[u.email] = u.num
        /\ u.email \in signed'[d]
    BY <1>p, <1>2, <1>6, CurrentUser
  <2>2. OutboxInv' /\ outbox' \in [Devices -> Seq(Op)]
    <3> DEFINE ops == <<UpdateToken(u.num, t)>>
    <3>1. SignedInFor(accounts', signed', d, u.num)
      BY <1>1, <2>1 DEF SignedInFor
    <3>2. ops \in Seq(Op) /\ \A i \in 1..Len(ops) : OpFits(accounts', signed', ops[i])
      BY <2>1, <3>1, TokenOps
    <3>3. Issue(d, ops) /\ TypeOK /\ OutboxInv
      BY <1>6 DEF AccountsInv
    <3> HIDE DEF ops
    <3> QED BY <1>3, <3>2, <3>3, IssueStep
  <2>3. /\ tasks' \in [Devices -> SUBSET Task] /\ TasksFit(tasks'[d], screen'[d])
    <3>1. tasks[d] \ {p} \subseteq Task
      BY PhoneFacts
    <3>2. /\ Detached(tasks[d] \ {p}) \subseteq Task
          /\ TasksFit(Detached(tasks[d] \ {p}), screen'[d])
      BY <3>1, DetachedFacts
    <3> QED BY <1>6, <3>2 DEF AccountsInv, TypeOK
  <2>4. rows' \in [Devices -> SUBSET (Keys \cup {0})]
    <3>1. ListNums(userList[d]) \subseteq Keys \cup {0}
      BY PhoneFacts, ListNumsType
    <3> QED BY <1>6, <3>1 DEF AccountsInv, TypeOK
  <2>5. /\ mUser' \in [Devices -> User \cup {NoRecord}] /\ mUser'[d] = u
        /\ screen' \in [Devices -> {"login", "master", "slave", "signup", "closed"}]
    BY <1>6, <2>1 DEF AccountsInv, TypeOK
  <2>6. TypeOK'
    BY <1>1, <1>2, <1>6, <2>2, <2>3, <2>4, <2>5 DEF AccountsInv, TypeOK
  <2>7. OthersSame(d)
    BY <1>1, <1>6 DEF OthersSame, AccountsInv, TypeOK
  <2>8. UserFits(accounts', signed'[d], mUser'[d], screen'[d], auth'[d])
    BY <1>p, <1>1, <1>2, <2>1, <2>5 DEF UserFits
  <2> QED BY <1>1, <1>3, <1>6, <2>2, <2>3, <2>6, <2>7, <2>8, PhoneStep
<1> QED BY <1>4, <1>5, <1>6 DEF SignInOk

(* Every step keeps the invariant.                                         *)
LEMMA AccountsStep == ASSUME AccountsInv, [Next]_vars PROVE AccountsInv'
<1>1. ASSUME NEW d \in Devices, Phone(d) PROVE AccountsInv'
  <2>1. CASE Execute(d)
    BY <2>1, ExecuteStep
  <2>2. CASE Refuse(d)
    BY <2>2, RefuseStep
  <2>3. ASSUME NEW e \in Emails \cup {NoEmail}, LoginClick(d, e) PROVE AccountsInv'
    BY <2>3, LoginStep
  <2>4. ASSUME NEW p \in tasks[d], NEW t \in {d, NoToken}, SignInOk(d, p, t)
        PROVE  AccountsInv'
    BY <2>4, SignInStep
  <2>5. ASSUME NEW p \in tasks[d], AuthFails(d, p) PROVE AccountsInv'
    BY <2>5, AuthFailsStep
  <2>6. ASSUME NEW p \in tasks[d], CreateOk(d, p) PROVE AccountsInv'
    BY <2>6, CreateStep
  <2>7. CASE OpenSignUp(d) \/ Launch(d)
    BY <2>7, ScreenStep
  <2>8. ASSUME NEW e \in Emails, NEW text \in Texts, SignUp(d, e, text) PROVE AccountsInv'
    BY <2>8, SignUpStep
  <2>9. CASE Reload(d) \/ \E n \in rows[d] : RemoveUser(d, n)
    BY <2>9, ReloadStep
  <2>10. CASE \E n \in rows[d] : CallGone(d, n)
    BY <2>10, CallGoneStep
  <2>11. CASE SignOut(d)
    BY <2>11, SignOutStep
  <2>12. CASE Back(d)
    BY <2>12, BackStep
  <2>13. ASSUME NEW t \in {d, NoToken}, Recreate(d, t) PROVE AccountsInv'
    BY <2>13, RecreateStep
  <2>14. CASE ProcessDeath(d)
    BY <2>14, ProcessDeathStep
  <2> QED
    BY <1>1, <2>1, <2>2, <2>3, <2>4, <2>5, <2>6, <2>7, <2>8, <2>9, <2>10, <2>11, <2>12,
       <2>13, <2>14 DEF Phone
<1>2. CASE UNCHANGED vars
  BY <1>2 DEF vars, AccountsInv, TypeOK, RecordsInv, OutboxInv, UserInv, TasksInv
<1> QED BY <1>1, <1>2 DEF Next

-----------------------------------------------------------------------------
(* The theorems.                                                           *)
LEMMA AlwaysInv == Spec => []AccountsInv
<1>1. Init => AccountsInv
  BY AccountsInit
<1>2. AccountsInv /\ [Next]_vars => AccountsInv'
  BY AccountsStep
<1> QED BY <1>1, <1>2, PTL DEF Spec

(* The caches, the requests under way and the database have their types,   *)
(* after any number of taps, answers and lost processes.                   *)
THEOREM TypeCorrect == Spec => []TypeOK
<1>1. AccountsInv => TypeOK
  BY DEF AccountsInv
<1> QED BY <1>1, AlwaysInv, PTL

(* A record with an owner is that of the account made for its number       *)
(* (SignUpActivity creates one before it writes the other), on any number  *)
(* of phones.                                                              *)
THEOREM RecordsOfTheirAccounts == Spec => []RecordOfAccount
<1>1. AccountsInv => RecordOfAccount
  BY DEF AccountsInv, RecordsInv, ListFits, RecordFits, RecordOfAccount
<1> QED BY <1>1, AlwaysInv, PTL

(* UserManager.getCurrentUser never gives a phone a user who has not       *)
(* signed in on it.                                                        *)
THEOREM ActsOnlyForSignedIn == Spec => []ActsForSignedIn
<1>1. AccountsInv => ActsForSignedIn
  BY DEF AccountsInv, UserInv, UserFits, ActsForSignedIn
<1> QED BY <1>1, AlwaysInv, PTL

(* updateToken registers a phone for a machine only where an owner of its  *)
(* account has signed in.                                                  *)
THEOREM TokensOfSignedIn == Spec => []TokenOfSignedIn
<1>1. AccountsInv => TokenOfSignedIn
  BY DEF AccountsInv, RecordsInv, ListFits, RecordFits, SignedInFor, TokenOfSignedIn
<1> QED BY <1>1, AlwaysInv, PTL

(* Nothing that ends after signOut() brings the cached user back.          *)
THEOREM SignOutIsFinal == Spec => []SignedOutIsNobody
<1>1. AccountsInv => SignedOutIsNobody
  BY DEF AccountsInv, UserInv, UserFits, SignedOutIsNobody
<1> QED BY <1>1, AlwaysInv, PTL

(* LoginActivity is lost with its tasks only in a sign-in that finds no    *)
(* current user.                                                           *)
LEMMA ThrowsInSignIn ==
  ASSUME AccountsInv, NEW c \in Devices, Phone(c), NEW d \in Devices,
         screen[d] = "login", screen'[d] = "closed", tasks[d] # {}, tasks'[d] = {}
  PROVE  /\ auth'[d] \in Emails
         /\ ~\E u \in Known(d) : GetCurrentUser(d, auth'[d], u)
<1>0. /\ screen \in [Devices -> {"login", "master", "slave", "signup", "closed"}]
      /\ tasks \in [Devices -> SUBSET Task] /\ auth \in [Devices -> Emails \cup {NoEmail}]
  BY DEF AccountsInv, TypeOK
<1>1. ASSUME screen' = screen PROVE FALSE
  BY <1>1
<1>2. ASSUME NEW p \in tasks[c], NEW t \in {c, NoToken}, SignInOk(c, p, t)
      PROVE  /\ auth'[d] \in Emails
             /\ ~\E u \in Known(d) : GetCurrentUser(d, auth'[d], u)
  <2>1. p.op = "signIn" /\ p.email \in Emails /\ auth' = [auth EXCEPT ![c] = p.email]
    BY <1>0, <1>2, TaskFields DEF SignInOk
  <2>2. CASE screen' = screen
    BY <1>1, <2>2
  <2>3. CASE (~\E u \in Known(c) : GetCurrentUser(c, p.email, u)) /\ Crash(c)
    <3>1. c = d
      BY <1>0, <2>3 DEF Crash
    <3>2. auth'[d] = p.email
      BY <1>0, <2>1, <3>1
    <3> QED BY <2>1, <2>3, <3>1, <3>2
  <2>4. ASSUME NEW u \in Known(c),
               screen' = [screen EXCEPT ![c] = IF u.right = 2 THEN "master" ELSE "slave"]
        PROVE  FALSE
    BY <1>0, <2>4
  <2> QED BY <1>2, <2>2, <2>3, <2>4 DEF SignInOk
<1>3. ASSUME NEW p \in tasks[c], CreateOk(c, p) PROVE FALSE
  <2>1. CASE screen' = screen
    BY <1>1, <2>1
  <2>2. CASE p.live /\ Crash(c)
    <3>1. c = d
      BY <1>0, <2>2 DEF Crash
    <3>2. screen[c] = "signup"
      BY <1>3, <2>2, PhoneFacts DEF CreateOk, TasksFit
    <3> QED BY <3>1, <3>2
  <2> QED BY <1>3, <2>1, <2>2 DEF CreateOk
<1>4. ASSUME Back(c) PROVE FALSE
  <2>1. CASE screen[c] = "signup" /\ Crash(c)
    BY <1>0, <2>1 DEF Crash
  <2>2. CASE /\ screen' = [screen EXCEPT ![c] = IF @ = "signup" THEN "master" ELSE "closed"]
             /\ tasks' = [tasks EXCEPT ![c] = Detached(@)]
    <3>1. c = d
      BY <1>0, <2>2
    <3>2. tasks'[d] = Detached(tasks[d]) /\ tasks[d] \subseteq Task
      BY <1>0, <2>2, <3>1
    <3> QED BY <3>2, DetachedFacts
  <2> QED BY <1>4, <2>1, <2>2 DEF Back
<1>5. ASSUME NEW n \in rows[c], CallGone(c, n) PROVE FALSE
  BY <1>0, <1>5 DEF CallGone, Crash
<1>6. ASSUME ProcessDeath(c) PROVE FALSE
  BY <1>0, <1>6 DEF ProcessDeath
<1>7. ASSUME OpenSignUp(c) \/ Launch(c) \/ SignOut(c) PROVE FALSE
  BY <1>0, <1>7 DEF OpenSignUp, Launch, SignOut
<1>8. ASSUME \/ Execute(c) \/ Refuse(c) \/ Reload(c)
             \/ \E n \in rows[c] : RemoveUser(c, n)
             \/ \E e \in Emails \cup {NoEmail} : LoginClick(c, e)
             \/ \E e \in Emails, text \in Texts : SignUp(c, e, text)
             \/ \E p \in tasks[c] : AuthFails(c, p)
             \/ \E t \in {c, NoToken} : Recreate(c, t)
      PROVE  FALSE
  <2>1. screen' = screen
    BY <1>8 DEF Execute, Refuse, Reload, RemoveUser, LoginClick, SignUp, AuthFails, Recreate
  <2> QED BY <1>1, <2>1
<1> QED BY <1>2, <1>3, <1>4, <1>5, <1>6, <1>7, <1>8 DEF Phone

(* A lookup that fails although the e-mail is in the list has met a record *)
(* without e-mail: the least key that has the e-mail is not found.         *)
LEMMA LookupStopsAtOrphan ==
  ASSUME NEW list \in Records, NEW e \in Emails, ~\E u : Finds(list, e, u),
         \E k \in Keys : list[k] # NoRecord /\ list[k].email = e
  PROVE  \E j \in Keys : list[j] # NoRecord /\ list[j].email = NoEmail
<1> DEFINE Owned == {k \in Keys : list[k] # NoRecord /\ list[k].email = e}
<1>1. Owned # {} /\ Owned \subseteq Nat
  BY NumbersAssumption
<1>2. PICK k \in Owned : \A y \in Owned : k <= y
  BY <1>1, LeastNat
<1>3. k \in Keys /\ list[k] # NoRecord /\ list[k].email = e
  OBVIOUS
<1>4. ~Finds(list, e, list[k])
  OBVIOUS
<1>5. PICK j \in Keys : j < k /\ list[j] # NoRecord /\ list[j].email \in {e, NoEmail}
  BY <1>3, <1>4 DEF Finds
<1>6. j \notin Owned
  <2>1. j \in Nat /\ k \in Nat
    BY <1>3, NumbersAssumption
  <2> QED BY <1>2, <1>5, <2>1
<1> QED BY <1>5, <1>6

(* A sign-in whose user is in the list throws only at what updateToken     *)
(* left of a user who is gone, whatever the phones did before.             *)
THEOREM SignInThrowsOnlyAtOrphan == Spec => ThrowsOnlyAtOrphan
<1> DEFINE Throw(d) ==
      /\ screen[d] = "login" /\ screen'[d] = "closed"
      /\ tasks[d] # {} /\ tasks'[d] = {}
      /\ \E k \in Keys : userList[d][k] # NoRecord /\ userList[d][k].email = auth'[d]
    Orphan(d) ==
      \E j \in Keys :
        /\ userList[d][j] # NoRecord /\ userList[d][j].email = NoEmail
        /\ \E e \in signed[userList[d][j].token] : accounts[e] = j
<1>1. ASSUME AccountsInv, [Next]_vars, NEW d \in Devices, Throw(d) PROVE Orphan(d)
  <2>1. PICK c \in Devices : Phone(c)
    <3>1. CASE UNCHANGED vars
      BY <1>1, <3>1 DEF vars
    <3> QED BY <1>1, <3>1 DEF Next
  <2>2. auth'[d] \in Emails /\ ~\E u \in Known(d) : GetCurrentUser(d, auth'[d], u)
    BY <1>1, <2>1, ThrowsInSignIn
  <2>3. mUser[d] = NoRecord
    BY <2>2 DEF Known, GetCurrentUser
  <2>4. ~\E u : Finds(userList[d], auth'[d], u)
    <3> SUFFICES ASSUME NEW u, Finds(userList[d], auth'[d], u) PROVE FALSE
      OBVIOUS
    <3>1. u \in Known(d)
      BY DEF Finds, Known
    <3> QED BY <2>2, <2>3, <3>1 DEF GetCurrentUser
  <2>5. userList[d] \in Records /\ ListFits(accounts, signed, userList[d])
    BY <1>1, PhoneFacts
  <2>6. PICK j \in Keys : userList[d][j] # NoRecord /\ userList[d][j].email = NoEmail
    BY <1>1, <2>2, <2>4, <2>5, LookupStopsAtOrphan
  <2>7. RecordFits(accounts, signed, j, userList[d][j])
    BY <2>5, <2>6 DEF ListFits
  <2>8. \E e \in signed[userList[d][j].token] : accounts[e] = j
    BY <2>6, <2>7 DEF RecordFits, SignedInFor
  <2> QED BY <2>6, <2>8
<1>2. AccountsInv /\ [Next]_vars => [\A d \in Devices : Throw(d) => Orphan(d)]_vars
  BY <1>1
<1> QED BY <1>2, AlwaysInv, PTL DEF Spec, ThrowsOnlyAtOrphan

=============================================================================
