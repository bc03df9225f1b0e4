------------------------------ MODULE Accounts ------------------------------
(***************************************************************************)
(* Who may use the app: UserManager, LoginActivity, SignUpActivity and the *)
(* account part of MasterActivity and SlaveActivity, on several phones.    *)
(*                                                                         *)
(* The statics of UserManager (mUser, userList) live as long as the        *)
(* process, the e-mail FirebaseAuth remembers longer, an activity shorter. *)
(* Each phone's database client is external: it executes the writes and    *)
(* loads in the order they were issued, later than that, and shows its own *)
(* unsent writes in what it loads.  Sign-in and account creation are       *)
(* separate requests, unordered with these.  Their listeners belong to the *)
(* activity that asked, and are dropped with it.                           *)
(***************************************************************************)
EXTENDS Naturals, Sequences

CONSTANTS
  Devices,
  Emails,
  Keys,         \* machine numbers: the children of "user"
  Texts,        \* what may be typed as machine number, see Text
  Registered,   \* the number of each account there is at first, or NoAccount
  Master,       \* the e-mail of the right 2 account
  NoAccount, NoEmail, NoRecord, NoToken,
  NotANumber,   \* digits that parseInt refuses
  MaxTaps       \* bound: taps that issue requests

(* A typed number: its value, and whether it is spelt as String.valueOf    *)
(* spells that value ("7" and not "07").                                   *)
Text == [num : Keys \cup {NotANumber}, canonical : BOOLEAN]

ASSUME NumbersAssumption ==
  Keys \subseteq Nat \ {0} /\ Texts \subseteq Text /\ MaxTaps \in Nat
ASSUME RegisteredAssumption ==
  /\ Registered \in [Emails -> Keys \cup {NoAccount}]
  /\ Registered[Master] # NoAccount
  /\ \A e, f \in Emails :
       Registered[e] = Registered[f] /\ Registered[e] # NoAccount => e = f

ASSUME NullAssumption ==
  /\ NoEmail \notin Emails /\ NoToken \notin Devices /\ NotANumber \notin Keys
  /\ NoAccount \notin Keys \cup {NotANumber}

VARIABLES
  accounts,  \* FirebaseAuth: the number each account was created for
  user,      \* the database: user/<num>
  auth,      \* the e-mail signed in on each phone
  signed,    \* all the e-mails whose owner has ever signed in there
  mUser,     \* the cached user
  userList,  \* the cached users, by key
  screen,    \* the activity in front; "closed" if there is none
  rows,      \* machineNumMap: the numbers the list of MasterActivity shows
  outbox,    \* operations the database client has not finished
  tasks,     \* sign-ins and creations under way
  taps       \* number of taps (bounded)

vars == <<accounts, user, auth, signed, mUser, userList, screen, rows, outbox,
          tasks, taps>>
cloudVars == <<accounts, user>>
statics == <<mUser, userList>>

(* A child of "user" as User.class reads it: what is missing is null or 0. *)
User == [email : Emails \cup {NoEmail}, right : 0..2, num : Keys \cup {0},
         token : Devices \cup {NoToken}]
EmptyList == [k \in Keys |-> NoRecord]

(* live: the activity that asked still listens.                            *)
Task == [op : {"signIn"}, email : Emails, live : BOOLEAN] \cup
        [op : {"create"}, email : Emails, text : Texts, live : BOOLEAN]

Op == [op : {"load"}] \cup [op : {"remove"}, num : Keys \cup {0}] \cup
      [op : {"token"}, num : Keys, token : Devices \cup {NoToken}] \cup
      [op : {"put"}, num : Keys, email : Emails]

NewUser(e, right, n) == [email |-> e, right |-> right, num |-> n, token |-> NoToken]

Init ==
  /\ accounts = Registered
  /\ user \in [Keys -> User \cup {NoRecord}]
  /\ \A k \in Keys : \/ /\ \A e \in Emails : Registered[e] # k
                        /\ user[k] = NoRecord
                     \/ \E e \in Emails :
                          /\ Registered[e] = k
                          /\ user[k] = NewUser(e, IF e = Master THEN 2 ELSE 1, k)
  /\ auth = [d \in Devices |-> NoEmail] /\ signed = [d \in Devices |-> {}]
  /\ mUser = [d \in Devices |-> NoRecord]
  /\ userList = [d \in Devices |-> EmptyList]
  /\ screen = [d \in Devices |-> "login"] /\ rows = [d \in Devices |-> {}]
  /\ outbox = [d \in Devices |-> <<>>] /\ tasks = [d \in Devices |-> {}]
  /\ taps = 0

-----------------------------------------------------------------------------
(* A token is written to the node r.  setValue on a child makes the node   *)
(* if it is not there; a node with no child left is not there.             *)
Bare == NewUser(NoEmail, 0, 0)
WithToken(r, t) ==
  LET new == [(IF r = NoRecord THEN Bare ELSE r) EXCEPT !.token = t] IN
  IF new = Bare THEN NoRecord ELSE new

(* What an operation does to the database.                                 *)
Apply(db, x) ==
  CASE x.op = "put"    -> [db EXCEPT ![x.num] = NewUser(x.email, 1, x.num)]
    [] x.op = "remove" -> [k \in Keys |-> IF k = x.num THEN NoRecord ELSE db[k]]
    [] x.op = "token"  -> [db EXCEPT ![x.num] = WithToken(@, x.token)]
    [] OTHER -> db

(* The database as the operations ops leave it, one after the other.       *)
Applied(db, ops) ==
  LET after[i \in 0..Len(ops)] == IF i = 0 THEN db ELSE Apply(after[i - 1], ops[i])
  IN  after[Len(ops)]

(* The client of phone d gets its oldest operation done; onDataChange      *)
(* replaces the list, whatever is on the screen.                           *)
Execute(d) ==
  LET x == Head(outbox[d])
      db == Apply(user, x) IN
  /\ outbox[d] # <<>>
  /\ outbox' = [outbox EXCEPT ![d] = Tail(@)]
  /\ user' = db
  /\ userList' = IF x.op = "load"
                 THEN [userList EXCEPT ![d] = Applied(db, Tail(outbox[d]))]
                 ELSE userList
  /\ UNCHANGED <<accounts, auth, signed, mUser, screen, rows, tasks, taps>>

(* It is refused: onCancelled is empty, and no write has a listener.       *)
Refuse(d) ==
  /\ outbox[d] # <<>>
  /\ outbox' = [outbox EXCEPT ![d] = Tail(@)]
  /\ UNCHANGED <<accounts, user, auth, signed, mUser, userList, screen, rows,
                 tasks, taps>>

Issue(d, ops) == outbox' = [outbox EXCEPT ![d] = @ \o ops]
Tap == taps < MaxTaps /\ taps' = taps + 1
Load == [op |-> "load"]
UpdateToken(n, t) == [op |-> "token", num |-> n, token |-> t]

(* Tasks S after their activity is gone.                                   *)
Detached(S) == {[p EXCEPT !.live = FALSE] : p \in S}

(* The process of phone d is gone, with its statics, requests and unsent   *)
(* writes.                                                                 *)
ProcessGone(d) ==
  /\ mUser' = [mUser EXCEPT ![d] = NoRecord]
  /\ userList' = [userList EXCEPT ![d] = EmptyList]
  /\ rows' = [rows EXCEPT ![d] = {}]
  /\ outbox' = [outbox EXCEPT ![d] = <<>>]

(* An exception no one catches.                                            *)
Crash(d) ==
  /\ ProcessGone(d)
  /\ tasks' = [tasks EXCEPT ![d] = {}]
  /\ screen' = [screen EXCEPT ![d] = "closed"]

-----------------------------------------------------------------------------
(* Mutant of Finds: the first user whatever the e-mail.                    *)
Finds_First(list, e, u) ==
  \E k \in Keys : list[k] = u /\ u # NoRecord /\ \A j \in Keys : j < k => list[j] = NoRecord

(* Mutant of Finds: the loop ends at the first record.                     *)
Finds_OneTurn(list, e, u) ==
  \E k \in Keys :
    /\ list[k] = u /\ u # NoRecord /\ u.email = e
    /\ \A j \in Keys : j < k => list[j] = NoRecord

(* getUserData(e) returns u: the records before it in key order have other *)
(* e-mails, and have one (equals is called on it).                         *)
Finds(list, e, u) ==
  \E k \in Keys :
    /\ list[k] = u /\ u # NoRecord /\ u.email = e
    /\ \A j \in Keys :
         j < k /\ list[j] # NoRecord => list[j].email \notin {e, NoEmail}

(* getCurrentUser() returns u, for the e-mail e that is signed in.         *)
GetCurrentUser(d, e, u) ==
  IF mUser[d] # NoRecord THEN u = mUser[d] ELSE Finds(userList[d], e, u)

(* The users the caches hold.                                              *)
Known(d) == ({mUser[d]} \cup {userList[d][k] : k \in Keys}) \ {NoRecord}
ListNums(list) == {list[k].num : k \in {j \in Keys : list[j] # NoRecord}}

(* The login button: the users are loaded, and the sign-in is started if   *)
(* the fields are filled in.                                               *)
LoginClick(d, e) ==
  /\ screen[d] = "login" /\ Tap
  /\ Issue(d, <<Load>>)
  /\ tasks' = IF e = NoEmail THEN tasks
              ELSE [tasks EXCEPT ![d] =
                      @ \cup {[op |-> "signIn", email |-> e, live |-> TRUE]}]
  /\ UNCHANGED <<auth, signed, screen, rows>>
  /\ UNCHANGED cloudVars /\ UNCHANGED statics

(* The sign-in succeeds.  Its listener looks up the current user, opens    *)
(* the activity of that user's right, whose onCreate uploads the token t   *)
(* (null at first); without a user there it throws.                        *)
SignInOk(d, p, t) ==
  /\ p.op = "signIn" /\ accounts[p.email] # NoAccount
  /\ auth' = [auth EXCEPT ![d] = p.email]
  /\ signed' = [signed EXCEPT ![d] = @ \cup {p.email}]
  /\ \/ /\ ~p.live
        /\ tasks' = [tasks EXCEPT ![d] = @ \ {p}]
        /\ UNCHANGED <<mUser, userList, screen, rows, outbox>>
     \/ \E u \in Known(d) :
          /\ p.live /\ GetCurrentUser(d, p.email, u)
          /\ mUser' = [mUser EXCEPT ![d] = u]
          /\ screen' = [screen EXCEPT ![d] = IF u.right = 2 THEN "master" ELSE "slave"]
          /\ rows' = [rows EXCEPT ![d] =
                        IF u.right = 2 THEN ListNums(userList[d]) ELSE {}]
          /\ Issue(d, <<UpdateToken(u.num, t)>>)
          /\ tasks' = [tasks EXCEPT ![d] = Detached(@ \ {p})]
          /\ UNCHANGED userList
     \/ /\ p.live /\ ~\E u \in Known(d) : GetCurrentUser(d, p.email, u)
        /\ Crash(d)
  /\ UNCHANGED taps /\ UNCHANGED cloudVars

(* Mutant of AuthFails: a failed creation goes on as a successful one.     *)
AuthFails_GoesOn(d, p) ==
  /\ tasks' = [tasks EXCEPT ![d] = @ \ {p}]
  /\ IF p.op = "create" /\ p.live /\ p.text.num # NotANumber
     THEN Issue(d, <<[op |-> "put", num |-> p.text.num, email |-> p.email]>>)
     ELSE UNCHANGED outbox
  /\ UNCHANGED <<auth, signed, screen, rows, taps>>
  /\ UNCHANGED cloudVars /\ UNCHANGED statics

(* A sign-in or a creation fails: a message at most.                       *)
AuthFails(d, p) ==
  /\ tasks' = [tasks EXCEPT ![d] = @ \ {p}]
  /\ UNCHANGED <<auth, signed, screen, rows, outbox, taps>>
  /\ UNCHANGED cloudVars /\ UNCHANGED statics

-----------------------------------------------------------------------------
(* The menu of MasterActivity opens SignUpActivity on top of it.           *)
OpenSignUp(d) ==
  /\ screen[d] = "master"
  /\ screen' = [screen EXCEPT ![d] = "signup"]
  /\ UNCHANGED <<auth, signed, rows, outbox, tasks, taps>>
  /\ UNCHANGED cloudVars /\ UNCHANGED statics

(* The sign-up button: the number as typed must not be in the list.        *)
SignUp(d, e, text) ==
  /\ screen[d] = "signup" /\ Tap
  /\ ~(text.canonical /\ text.num \in ListNums(userList[d]))
  /\ tasks' = [tasks EXCEPT ![d] =
       @ \cup {[op |-> "create", email |-> e, text |-> text, live |-> TRUE]}]
  /\ UNCHANGED <<auth, signed, screen, rows, outbox>>
  /\ UNCHANGED cloudVars /\ UNCHANGED statics

(* Mutant of CreateOk: the number is taken as it was typed.                *)
CreateOk_NoParse(d, p) ==
  /\ p.op = "create" /\ accounts[p.email] = NoAccount
  /\ accounts' = [accounts EXCEPT ![p.email] = p.text.num]
  /\ auth' = [auth EXCEPT ![d] = p.email]
  /\ IF p.live
     THEN Issue(d, <<[op |-> "put", num |-> p.text.num, email |-> p.email]>>)
     ELSE UNCHANGED outbox
  /\ tasks' = [tasks EXCEPT ![d] = @ \ {p}]
  /\ UNCHANGED <<user, signed, screen, rows, taps>> /\ UNCHANGED statics

(* The account is created, which signs its owner in on this phone.  The    *)
(* listener writes the record, or throws if the number is not an int.      *)
CreateOk(d, p) ==
  /\ p.op = "create" /\ accounts[p.email] = NoAccount
  /\ accounts' = [accounts EXCEPT ![p.email] = p.text.num]
  /\ auth' = [auth EXCEPT ![d] = p.email]
  /\ IF p.live /\ p.text.num = NotANumber
     THEN Crash(d)
     ELSE /\ IF p.live
             THEN Issue(d, <<[op |-> "put", num |-> p.text.num, email |-> p.email]>>)
             ELSE UNCHANGED outbox
          /\ tasks' = [tasks EXCEPT ![d] = @ \ {p}]
          /\ UNCHANGED <<screen, rows>> /\ UNCHANGED statics
  /\ UNCHANGED <<user, signed, taps>>

-----------------------------------------------------------------------------
(* MasterActivity's reload button lays out the list as it is, the answer   *)
(* is shown by the next one.                                               *)
Reload(d) ==
  /\ screen[d] = "master" /\ Tap
  /\ Issue(d, <<Load>>)
  /\ rows' = [rows EXCEPT ![d] = ListNums(userList[d])]
  /\ UNCHANGED <<auth, signed, screen, tasks>>
  /\ UNCHANGED cloudVars /\ UNCHANGED statics

(* "移除台主" on the row of number n, which stays on the screen.            *)
RemoveUser(d, n) ==
  /\ screen[d] = "master" /\ n \in rows[d] /\ Tap
  /\ Issue(d, <<[op |-> "remove", num |-> n], Load>>)
  /\ UNCHANGED <<auth, signed, screen, rows, tasks>>
  /\ UNCHANGED cloudVars /\ UNCHANGED statics

(* "聯絡台主" on a row that has left the list meanwhile: getUserData(n) is  *)
(* null.  Otherwise it only opens the dialler.                             *)
CallGone(d, n) ==
  /\ screen[d] = "master" /\ n \in rows[d] \ ListNums(userList[d])
  /\ Crash(d)
  /\ UNCHANGED <<auth, signed, taps>> /\ UNCHANGED cloudVars

(* Mutant of SignOut: the cached user is kept.                             *)
SignOut_KeepsUser(d) ==
  /\ screen[d] \in {"master", "slave"}
  /\ userList' = [userList EXCEPT ![d] = EmptyList]
  /\ auth' = [auth EXCEPT ![d] = NoEmail]
  /\ screen' = [screen EXCEPT ![d] = "login"]
  /\ rows' = [rows EXCEPT ![d] = {}]
  /\ UNCHANGED <<signed, mUser, outbox, tasks, taps>> /\ UNCHANGED cloudVars

(* signOut() clears the caches; loads under way will still be answered.    *)
SignOut(d) ==
  /\ screen[d] \in {"master", "slave"}
  /\ mUser' = [mUser EXCEPT ![d] = NoRecord]
  /\ userList' = [userList EXCEPT ![d] = EmptyList]
  /\ auth' = [auth EXCEPT ![d] = NoEmail]
  /\ screen' = [screen EXCEPT ![d] = "login"]
  /\ rows' = [rows EXCEPT ![d] = {}]
  /\ UNCHANGED <<signed, outbox, tasks, taps>> /\ UNCHANGED cloudVars

(* Back: from SignUpActivity to the MasterActivity below, which has to be  *)
(* made again, and throws, if the process was lost; else out of the app.   *)
Back(d) ==
  /\ screen[d] # "closed"
  /\ IF screen[d] = "signup" /\ mUser[d] = NoRecord
     THEN Crash(d)
     ELSE /\ screen' = [screen EXCEPT ![d] =
                          IF @ = "signup" THEN "master" ELSE "closed"]
          /\ rows' = IF screen[d] = "signup" THEN rows
                     ELSE [rows EXCEPT ![d] = {}]
          /\ tasks' = [tasks EXCEPT ![d] = Detached(@)]
          /\ UNCHANGED outbox /\ UNCHANGED statics
  /\ UNCHANGED <<auth, signed, taps>> /\ UNCHANGED cloudVars

(* The app is opened again.                                                *)
Launch(d) ==
  /\ screen[d] = "closed"
  /\ screen' = [screen EXCEPT ![d] = "login"]
  /\ UNCHANGED <<auth, signed, rows, outbox, tasks, taps>>
  /\ UNCHANGED cloudVars /\ UNCHANGED statics

(* A configuration change makes the activity again; onCreate of the two    *)
(* main activities uploads the token.                                      *)
Recreate(d, t) ==
  /\ screen[d] # "closed" /\ Tap
  /\ tasks' = [tasks EXCEPT ![d] = Detached(@)]
  /\ rows' = IF screen[d] = "master"
             THEN [rows EXCEPT ![d] = ListNums(userList[d])] ELSE rows
  /\ IF screen[d] \in {"master", "slave"}
     THEN Issue(d, <<UpdateToken(mUser[d].num, t)>>)
     ELSE UNCHANGED outbox
  /\ UNCHANGED <<auth, signed, screen>>
  /\ UNCHANGED cloudVars /\ UNCHANGED statics

(* The system ends the process while the app is in the background.  The    *)
(* activity in front is restored: MasterActivity and SlaveActivity throw,  *)
(* getCurrentUser() finding no list.                                       *)
ProcessDeath(d) ==
  /\ ProcessGone(d)
  /\ tasks' = [tasks EXCEPT ![d] = {}]
  /\ screen' = [screen EXCEPT ![d] = IF @ \in {"master", "slave"} THEN "closed" ELSE @]
  /\ UNCHANGED <<auth, signed, taps>> /\ UNCHANGED cloudVars

Phone(d) ==
  \/ Execute(d) \/ Refuse(d)
  \/ \E e \in Emails \cup {NoEmail} : LoginClick(d, e)
  \/ \E p \in tasks[d] : \/ \E t \in {d, NoToken} : SignInOk(d, p, t)
                         \/ AuthFails(d, p) \/ CreateOk(d, p)
  \/ OpenSignUp(d) \/ \E e \in Emails, text \in Texts : SignUp(d, e, text)
  \/ Reload(d) \/ \E n \in rows[d] : RemoveUser(d, n) \/ CallGone(d, n)
  \/ SignOut(d) \/ Back(d) \/ Launch(d)
  \/ \E t \in {d, NoToken} : Recreate(d, t)
  \/ ProcessDeath(d)

Next == \E d \in Devices : Phone(d)

Spec == Init /\ [][Next]_vars

-----------------------------------------------------------------------------
TypeOK ==
  /\ accounts \in [Emails -> Keys \cup {NoAccount, NotANumber}]
  /\ user \in [Keys -> User \cup {NoRecord}]
  /\ auth \in [Devices -> Emails \cup {NoEmail}]
  /\ signed \in [Devices -> SUBSET Emails]
  /\ mUser \in [Devices -> User \cup {NoRecord}]
  /\ userList \in [Devices -> [Keys -> User \cup {NoRecord}]]
  /\ screen \in [Devices -> {"login", "master", "slave", "signup", "closed"}]
  /\ rows \in [Devices -> SUBSET (Keys \cup {0})]
  /\ outbox \in [Devices -> Seq(Op)]
  /\ tasks \in [Devices -> SUBSET Task]
  /\ taps \in 0..MaxTaps

(* A record with an owner is that of the account created for its number:   *)
(* an account has one record at most, on whichever phones, however often   *)
(* and with whatever failures its sign-up was tried, and no lost process,  *)
(* removal or late token upload gives a record another owner.              *)
RecordOfAccount ==
  \A n \in Keys : (user[n] # NoRecord /\ user[n].email # NoEmail) =>
    accounts[user[n].email] = n /\ user[n].num = n

(* A phone acts for the cached user only if that user has signed in on it, *)
(* and so opens MasterActivity only where the right 2 account has: stale   *)
(* lists, late answers, crashes and sign-ups notwithstanding.              *)
ActsForSignedIn ==
  \A d \in Devices : mUser[d] # NoRecord => mUser[d].email \in signed[d]

(* A machine's notifications go to a phone (its token is at user/<num>)    *)
(* only if the owner of an account created for that machine has signed in  *)
(* on that phone.                                                          *)
TokenOfSignedIn ==
  \A n \in Keys : (user[n] # NoRecord /\ user[n].token # NoToken) =>
    \E e \in signed[user[n].token] : accounts[e] = n

(* Signing out is final: until the next sign-in the phone has no current   *)
(* user, although loads, sign-ins and creations that were under way before *)
(* it still end afterwards.                                                *)
SignedOutIsNobody ==
  \A d \in Devices : auth[d] = NoEmail => mUser[d] = NoRecord

(* A sign-in whose user is in the list throws (the process is lost, and   *)
(* its tasks with it) only for one cause: the list has a record without    *)
(* e-mail, at which getUserData(email) stops.  Such a record is always     *)
(* what updateToken left of a user who is gone, for a phone on which that  *)
(* user has signed in (UserManager.java:81, 114).                          *)
ThrowsOnlyAtOrphan ==
  [][\A d \in Devices :
       (/\ screen[d] = "login" /\ screen'[d] = "closed"
        /\ tasks[d] # {} /\ tasks'[d] = {}
        /\ \E k \in Keys : userList[d][k] # NoRecord /\ userList[d][k].email = auth'[d])
       => \E j \in Keys :
            /\ userList[d][j] # NoRecord /\ userList[d][j].email = NoEmail
            /\ \E e \in signed[userList[d][j].token] : accounts[e] = j]_vars

(* "驗證機台編號是否被使用" (SignUpActivity.java:85): a number in use is not *)
(* given to another account.                                               *)
SignUpNeverOverwrites ==
  [][\A n \in Keys :
       (user[n] # NoRecord /\ user[n].email # NoEmail /\ user'[n] # NoRecord)
       => user'[n].email = user[n].email]_vars

(* "回傳目前user資料" (UserManager.java:99): the user whose right decides    *)
(* which activity a sign-in opens is the one who has just signed in.       *)
CurrentUserIsAuthUser ==
  [][\A d \in Devices :
       (screen[d] = "login" /\ screen'[d] \in {"master", "slave"})
       => mUser'[d].email = auth'[d]]_vars

=============================================================================
