---------------------------- MODULE OnCreateData ----------------------------
(***************************************************************************)
(* The cloud function of FIRFunctions/functions/index.js: every record     *)
(* created under rawData/<machine> registers, in the instance that gets    *)
(* the event, a listener on user/<machine>/token that is never removed;    *)
(* each value the listener is given sends one notification.                *)
(*                                                                         *)
(* The platform is external: it delivers an event at least once, runs      *)
(* several instances, and may stop one whenever no handler is running,     *)
(* which is always, since the handler returns at once (index.js:26).  The  *)
(* database SDK keeps one synchronised value per instance and path and     *)
(* hands it to all the listeners there; a value arrives later than it was  *)
(* written, and a reconnecting client may skip some.                       *)
(***************************************************************************)
EXTENDS Naturals, Sequences, FiniteSets

CONSTANTS
  Machines, Records, Instances, Tokens,
  MachineOf,      \* the machine_num of each record
  Null,           \* no token child: never signed in, or the user was removed
  MaxValues,      \* bound: values a machine's token takes
  MaxDeliveries,  \* bound: times the platform delivers one event
  MaxKills        \* bound: times one instance is stopped

ASSUME MachineAssumption == MachineOf \in [Records -> Machines]
ASSUME NullAssumption == Null \notin Tokens
ASSUME LimitAssumption ==
  MaxValues \in Nat \ {0} /\ MaxDeliveries \in Nat \ {0} /\ MaxKills \in Nat

VARIABLES
  history,    \* values of user/<machine>/token, the last one is current
  created,    \* records created so far
  events,     \* records whose onCreate event is to be delivered (again)
  delivered,  \* number of deliveries of each record's event
  listeners,  \* deliveries whose callback is registered, by instance
  view,       \* index in history of the value the SDK holds; 0 for none
  sent,       \* the notifications of each delivery, in order
  kills,      \* number of times each instance has been stopped
  dead        \* deliveries whose instance was stopped

vars == <<history, created, events, delivered, listeners, view, sent, kills,
          dead>>

Value == Tokens \cup {Null}
Delivery == [record : Records, n : 1..MaxDeliveries]
(* A notification: index is the position of its recipient in history.      *)
Message == [index : 1..MaxValues, recipient : Value]

Current(m) == history[m][Len(history[m])]

Init ==
  /\ history \in [Machines -> {<<v>> : v \in Value}]
  /\ created = {} /\ events = {}
  /\ delivered = [r \in Records |-> 0]
  /\ listeners = [i \in Instances |-> {}]
  /\ view = [i \in Instances |-> [m \in Machines |-> 0]]
  /\ sent = [d \in Delivery |-> <<>>]
  /\ kills = [i \in Instances |-> 0] /\ dead = {}

-----------------------------------------------------------------------------
(* The sketch's PUT creates a child of rawData/<machine>.                  *)
CreateRecord(r) ==
  /\ r \notin created
  /\ created' = created \cup {r}
  /\ events' = events \cup {r}
  /\ UNCHANGED <<history, delivered, listeners, view, sent, kills, dead>>

(* A device signs in (updateToken) or the user is removed (removeUserData). *)
(* The SDKs report changes of the value only.                              *)
SetToken(m, v) ==
  /\ Len(history[m]) < MaxValues
  /\ v # Current(m)
  /\ history' = [history EXCEPT ![m] = Append(@, v)]
  /\ UNCHANGED <<created, events, delivered, listeners, view, sent, kills, dead>>

(* The platform delivers an event it has delivered already.                *)
Redeliver(r) ==
  /\ r \in created \ events
  /\ delivered[r] < MaxDeliveries
  /\ events' = events \cup {r}
  /\ UNCHANGED <<history, created, delivered, listeners, view, sent, kills, dead>>

(* The callbacks registered at user/<m>/token in instance i.               *)
ListenersOn(i, m) == {d \in listeners[i] : MachineOf[d.record] = m}

(* Mutant of SendMessage: the test for null is missing.                    *)
SendMessage_NoTest(D, m, k) ==
  [d \in Delivery |-> IF d \in D
     THEN Append(sent[d], [index |-> k, recipient |-> history[m][k]])
     ELSE sent[d]]

(* sendMessage, called by the callbacks of D with the k-th value of m's    *)
(* token: nothing for a null recipient.  How send() ends is only logged.   *)
SendMessage(D, m, k) ==
  [d \in Delivery |-> IF d \in D /\ history[m][k] # Null
     THEN Append(sent[d], [index |-> k, recipient |-> history[m][k]])
     ELSE sent[d]]

(* Mutants of OnCreate: the event is never acknowledged; the token is      *)
(* looked up at its first value; no callback stays registered when a value *)
(* is at hand.                                                             *)
OnCreate_NotAcknowledged(i, r) ==
  LET m == MachineOf[r]
      d == [record |-> r, n |-> delivered[r] + 1] IN
  /\ r \in events
  /\ delivered' = [delivered EXCEPT ![r] = @ + 1]
  /\ listeners' = [listeners EXCEPT ![i] = @ \cup {d}]
  /\ sent' = IF view[i][m] = 0 THEN sent ELSE SendMessage({d}, m, view[i][m])
  /\ UNCHANGED <<history, created, events, view, kills, dead>>
OnCreate_FirstValue(i, r) ==
  LET m == MachineOf[r]
      d == [record |-> r, n |-> delivered[r] + 1] IN
  /\ r \in events
  /\ events' = events \ {r}
  /\ delivered' = [delivered EXCEPT ![r] = @ + 1]
  /\ listeners' = [listeners EXCEPT ![i] = @ \cup {d}]
  /\ sent' = IF view[i][m] = 0 THEN sent ELSE SendMessage({d}, m, 1)
  /\ UNCHANGED <<history, created, view, kills, dead>>
OnCreate_Once(i, r) ==
  LET m == MachineOf[r]
      d == [record |-> r, n |-> delivered[r] + 1] IN
  /\ r \in events
  /\ events' = events \ {r}
  /\ delivered' = [delivered EXCEPT ![r] = @ + 1]
  /\ IF view[i][m] = 0
     THEN listeners' = [listeners EXCEPT ![i] = @ \cup {d}] /\ UNCHANGED sent
     ELSE sent' = SendMessage({d}, m, view[i][m]) /\ UNCHANGED listeners
  /\ UNCHANGED <<history, created, view, kills, dead>>

(* The handler: on('value', ...) registers the callback, and calls it at   *)
(* once if the SDK holds a value of that path.  The record exists, so the  *)
(* early return of index.js:14-17 is not taken.                            *)
OnCreate(i, r) ==
  LET m == MachineOf[r]
      d == [record |-> r, n |-> delivered[r] + 1] IN
  /\ r \in events
  /\ events' = events \ {r}
  /\ delivered' = [delivered EXCEPT ![r] = @ + 1]
  /\ listeners' = [listeners EXCEPT ![i] = @ \cup {d}]
  /\ sent' = IF view[i][m] = 0 THEN sent ELSE SendMessage({d}, m, view[i][m])
  /\ UNCHANGED <<history, created, view, kills, dead>>

(* A value of the token arrives in an instance that listens to it: the     *)
(* first one is the current one, a later one may skip some.  The callbacks *)
(* are called if the value differs from the one held.                      *)
OnValue(i, m, k) ==
  LET now == view[i][m] IN
  /\ ListenersOn(i, m) # {}
  /\ now < k
  /\ now = 0 => k = Len(history[m])
  /\ view' = [view EXCEPT ![i][m] = k]
  /\ sent' = IF now = 0 \/ history[m][now] # history[m][k]
             THEN SendMessage(ListenersOn(i, m), m, k) ELSE sent
  /\ UNCHANGED <<history, created, events, delivered, listeners, kills, dead>>

(* The platform stops an instance: its callbacks are gone.                 *)
Kill(i) ==
  /\ kills[i] < MaxKills
  /\ listeners[i] # {}
  /\ kills' = [kills EXCEPT ![i] = @ + 1]
  /\ listeners' = [listeners EXCEPT ![i] = {}]
  /\ view' = [view EXCEPT ![i] = [m \in Machines |-> 0]]
  /\ dead' = dead \cup listeners[i]
  /\ UNCHANGED <<history, created, events, delivered, sent>>

Handle(r) == \E i \in Instances : OnCreate(i, r)
Receive(i, m) == \E k \in 1..Len(history[m]) : OnValue(i, m, k)

Next ==
  \/ \E r \in Records : CreateRecord(r) \/ Redeliver(r) \/ Handle(r)
  \/ \E m \in Machines, v \in Value : SetToken(m, v)
  \/ \E i \in Instances, m \in Machines : Receive(i, m)
  \/ \E i \in Instances : Kill(i)

Spec == Init /\ [][Next]_vars

(* Events get delivered and values reach the instances that listen.        *)
(* Nothing makes a record or a token appear, or an instance stop.          *)
FairSpec ==
  /\ Spec
  /\ \A r \in Records : WF_vars(Handle(r))
  /\ \A i \in Instances, m \in Machines : WF_vars(Receive(i, m))

-----------------------------------------------------------------------------
TypeOK ==
  /\ history \in [Machines -> Seq(Value)]
  /\ created \subseteq Records /\ events \subseteq created
  /\ delivered \in [Records -> 0..MaxDeliveries]
  /\ listeners \in [Instances -> SUBSET Delivery]
  /\ view \in [Instances -> [Machines -> 0..MaxValues]]
  /\ sent \in [Delivery -> Seq(Message)]
  /\ kills \in [Instances -> 0..MaxKills] /\ dead \subseteq Delivery

(* The notifications of one delivery go to devices of the record's own     *)
(* machine, never to nobody (index.js:22, 31), and follow the order in     *)
(* which the tokens were written, one for each value at most: a listener   *)
(* that is never removed repeats itself only when the token has changed.   *)
OnePerToken ==
  \A d \in Delivery : LET h == history[MachineOf[d.record]] IN
    /\ \A j \in 1..Len(sent[d]) : LET x == sent[d][j] IN
         x.index <= Len(h) /\ x.recipient = h[x.index] /\ x.recipient # Null
    /\ \A j, k \in 1..Len(sent[d]) : j < k => sent[d][j].index < sent[d][k].index

(* One step of an instance tells no owner older than one it has told.      *)
OwnerOrder ==
  \A i \in Instances : \A d, e \in listeners'[i] :
    (/\ MachineOf[d.record] = MachineOf[e.record]
     /\ Len(sent'[d]) > Len(sent[d]) /\ sent[e] # <<>>)
    => sent'[d][Len(sent'[d])].index >= sent[e][Len(sent[e])].index

(* While an instance runs, once it has told a new owner of any record it   *)
(* tells the former owner of none, although the listeners of the records   *)
(* were registered at different times, some of them with a value at hand   *)
(* that is out of date.                                                    *)
NewOwnerFirst == [][OwnerOrder]_vars

(* A delivery, unless its instance is stopped, ends up having told the     *)
(* current owner, however often the owner changes: no listener misses the  *)
(* last value because of when it was registered.                           *)
OwnerIsTold ==
  \A r \in Records, n \in 1..MaxDeliveries :
    LET d == [record |-> r, n |-> n]
        m == MachineOf[r] IN
    delivered[r] >= n ~>
      \/ d \in dead
      \/ Current(m) = Null
      \/ \E j \in 1..Len(sent[d]) : sent[d][j].recipient = Current(m)

=============================================================================
