------------------------- MODULE OnCreateDataProofs -------------------------
(***************************************************************************)
(* Theorems about OnCreateData, for any number of machines, records,       *)
(* instances, token changes, deliveries and stops.                         *)
(***************************************************************************)
EXTENDS OnCreateData, TLAPS

(* A token always has a value, and what an instance holds is one of them;  *)
(* an event that is due may still be delivered.                            *)
CloudInv ==
  /\ \A m \in Machines : Len(history[m]) \in 1..MaxValues
  /\ \A i \in Instances, m \in Machines : view[i][m] <= Len(history[m])
  /\ \A r \in events : delivered[r] < MaxDeliveries
  /\ \A r \in Records \ created : delivered[r] = 0

(* A listener belongs to one delivery that has taken place, and to one     *)
(* instance; what a delivery to come has sent is nothing.                  *)
ListenerInv ==
  /\ \A i \in Instances : \A d \in listeners[i] : d.n <= delivered[d.record]
  /\ \A i, j \in Instances : \A d \in listeners[i] : d \in listeners[j] => i = j
  /\ \A d \in Delivery : d.n > delivered[d.record] => sent[d] = <<>>

(* No listener has been given a later value than its instance holds.       *)
ViewInv ==
  \A i \in Instances : \A d \in listeners[i] : \A j \in 1..Len(sent[d]) :
    sent[d][j].index <= view[i][MachineOf[d.record]]

CloudTypes == TypeOK /\ CloudInv

(* What is to be proved of the notifications of one delivery.              *)
GoodMessages(q, h) ==
  /\ \A j \in 1..Len(q) : q[j].index <= Len(h) /\ q[j].recipient = h[q[j].index]
                           /\ q[j].recipient # Null
  /\ \A j, k \in 1..Len(q) : j < k => q[j].index < q[k].index

SentInv == CloudTypes /\ ListenerInv /\ ViewInv /\ OnePerToken

-----------------------------------------------------------------------------
(* sendMessage appends one notification, to the deliveries asked for and   *)
(* only if there is a recipient.                                           *)
LEMMA SendMessageType ==
  ASSUME TypeOK, CloudInv, NEW D \in SUBSET Delivery, NEW m \in Machines,
         NEW k \in 1..Len(history[m])
  PROVE  /\ [index |-> k, recipient |-> history[m][k]] \in Message
         /\ SendMessage(D, m, k) \in [Delivery -> Seq(Message)]
<1>1. history[m] \in Seq(Value) /\ Len(history[m]) \in 1..MaxValues
  BY DEF TypeOK, CloudInv
<1>2. history[m][k] \in Value
  BY <1>1
<1>3. k \in 1..MaxValues
  BY <1>1, LimitAssumption
<1>4. [index |-> k, recipient |-> history[m][k]] \in Message
  BY <1>2, <1>3 DEF Message
<1>5. ASSUME NEW d \in Delivery
      PROVE  Append(sent[d], [index |-> k, recipient |-> history[m][k]]) \in Seq(Message)
  <2>1. sent[d] \in Seq(Message)
    BY DEF TypeOK
  <2> QED BY <1>4, <2>1
<1>6. ASSUME NEW d \in Delivery PROVE sent[d] \in Seq(Message)
  BY DEF TypeOK
<1> QED BY <1>4, <1>5, <1>6 DEF SendMessage

(* The delivery that the handler of r is called for.                       *)
LEMMA NewDelivery ==
  ASSUME TypeOK, CloudInv, NEW r \in events
  PROVE  /\ r \in Records /\ MachineOf[r] \in Machines
         /\ delivered[r] \in Nat /\ delivered[r] + 1 \in 1..MaxDeliveries
         /\ [record |-> r, n |-> delivered[r] + 1] \in Delivery
<1>1. r \in Records /\ MachineOf[r] \in Machines
  BY MachineAssumption DEF TypeOK
<1>2. delivered[r] \in 0..MaxDeliveries /\ delivered[r] < MaxDeliveries
  BY <1>1 DEF TypeOK, CloudInv
<1>3. delivered[r] + 1 \in 1..MaxDeliveries
  BY <1>2, LimitAssumption
<1> QED BY <1>1, <1>2, <1>3, LimitAssumption DEF Delivery

(* The initial state of the function and of the database has its types.    *)
LEMMA CloudInit == ASSUME Init PROVE CloudTypes
<1>1. history \in [Machines -> {<<v>> : v \in Value}]
  BY DEF Init
<1>2. ASSUME NEW m \in Machines
      PROVE  history[m] \in Seq(Value) /\ Len(history[m]) = 1
  <2>1. PICK v \in Value : history[m] = <<v>>
    BY <1>1
  <2> QED BY <2>1
<1>3. /\ created \subseteq Records /\ events \subseteq created
      /\ delivered \in [Records -> 0..MaxDeliveries]
      /\ kills \in [Instances -> 0..MaxKills] /\ dead \subseteq Delivery
  BY LimitAssumption DEF Init
<1>4. /\ listeners \in [Instances -> SUBSET Delivery]
      /\ sent \in [Delivery -> Seq(Message)]
  BY DEF Init
<1>5. view \in [Instances -> [Machines -> 0..MaxValues]]
  BY LimitAssumption DEF Init
<1>6. CloudInv
  <2>1. \A i \in Instances, m \in Machines : view[i][m] = 0
    BY DEF Init
  <2>2. \A m \in Machines : Len(history[m]) \in 1..MaxValues /\ 0 <= Len(history[m])
    <3>1. 1 \in 1..MaxValues /\ 0 <= 1
      BY LimitAssumption
    <3> QED BY <1>2, <3>1
  <2>3. events = {} /\ \A r \in Records : delivered[r] = 0
    BY DEF Init
  <2> QED BY <2>1, <2>2, <2>3 DEF CloudInv
<1> QED BY <1>1, <1>2, <1>3, <1>4, <1>5, <1>6 DEF CloudTypes, TypeOK

(* Every action of the function, the platform and the app keeps them.      *)
LEMMA CloudStep == ASSUME CloudTypes, [Next]_vars PROVE CloudTypes'
<1> USE DEF CloudTypes
<1>1. ASSUME NEW r \in Records, CreateRecord(r) PROVE CloudTypes'
  <2>1. delivered[r] < MaxDeliveries
    BY <1>1, LimitAssumption DEF CreateRecord, CloudInv
  <2>2. CloudInv'
    BY <1>1, <2>1 DEF CreateRecord, CloudInv
  <2>3. TypeOK'
    BY <1>1 DEF CreateRecord, TypeOK
  <2> QED BY <2>2, <2>3
<1>2. ASSUME NEW r \in Records, Redeliver(r) PROVE CloudTypes'
  <2>1. CloudInv'
    BY <1>2 DEF Redeliver, CloudInv
  <2>2. TypeOK'
    BY <1>2 DEF Redeliver, TypeOK
  <2> QED BY <2>1, <2>2
<1>3. ASSUME NEW i \in Instances, NEW r \in Records, OnCreate(i, r) PROVE CloudTypes'
  <2> DEFINE m == MachineOf[r]
             d == [record |-> r, n |-> delivered[r] + 1]
  <2>1. /\ r \in events /\ events' = events \ {r}
        /\ delivered' = [delivered EXCEPT ![r] = @ + 1]
        /\ listeners' = [listeners EXCEPT ![i] = @ \cup {d}]
        /\ sent' = IF view[i][m] = 0 THEN sent ELSE SendMessage({d}, m, view[i][m])
        /\ UNCHANGED <<history, created, view, kills, dead>>
    BY <1>3 DEF OnCreate
  <2>2. /\ m \in Machines /\ d \in Delivery /\ delivered[r] + 1 \in 1..MaxDeliveries
        /\ r \in created
    BY <2>1, NewDelivery DEF TypeOK
  <2> HIDE DEF d, m
  <2>3. delivered' \in [Records -> 0..MaxDeliveries]
    <3>1. delivered[r] + 1 \in 0..MaxDeliveries
      BY <2>2, LimitAssumption
    <3> QED BY <2>1, <3>1 DEF TypeOK
  <2>4. listeners' \in [Instances -> SUBSET Delivery]
    BY <2>1, <2>2 DEF TypeOK
  <2>5. sent' \in [Delivery -> Seq(Message)]
    <3>1. CASE view[i][m] = 0
      BY <2>1, <3>1 DEF TypeOK
    <3>2. CASE view[i][m] # 0
      <4>1. view[i][m] \in 1..Len(history[m])
        BY <2>2, <3>2, LimitAssumption DEF TypeOK, CloudInv
      <4> QED BY <2>1, <2>2, <3>2, <4>1, SendMessageType
    <3> QED BY <3>1, <3>2
  <2>6. CloudInv'
    <3>1. \A x \in events' : delivered'[x] < MaxDeliveries
      BY <2>1 DEF TypeOK, CloudInv
    <3>2. \A x \in Records \ created' : delivered'[x] = 0
      BY <2>1, <2>2 DEF TypeOK, CloudInv
    <3> QED BY <2>1, <3>1, <3>2 DEF CloudInv
  <2> QED BY <2>1, <2>3, <2>4, <2>5, <2>6 DEF TypeOK
<1>4. ASSUME NEW m \in Machines, NEW v \in Value, SetToken(m, v) PROVE CloudTypes'
  <2>1. history[m] \in Seq(Value) /\ Len(history[m]) \in 1..MaxValues
    BY DEF TypeOK, CloudInv
  <2>2. /\ Append(history[m], v) \in Seq(Value)
        /\ Len(Append(history[m], v)) = Len(history[m]) + 1
    BY <2>1
  <2>3. /\ Len(history[m]) < MaxValues
        /\ history' = [history EXCEPT ![m] = Append(@, v)]
        /\ UNCHANGED <<created, events, delivered, listeners, view, sent, kills, dead>>
    BY <1>4 DEF SetToken
  <2>4. history' \in [Machines -> Seq(Value)]
    BY <2>2, <2>3 DEF TypeOK
  <2>5. \A x \in Machines : Len(history'[x]) \in 1..MaxValues
    <3>1. Len(history'[m]) = Len(history[m]) + 1
      BY <2>2, <2>3 DEF TypeOK
    <3>2. Len(history'[m]) \in 1..MaxValues
      BY <2>1, <2>3, <3>1, LimitAssumption
    <3>3. \A x \in Machines \ {m} : history'[x] = history[x]
      BY <2>3 DEF TypeOK
    <3> QED BY <3>2, <3>3 DEF CloudInv
  <2>6. CloudInv'
    <3>1. ASSUME NEW j \in Instances, NEW x \in Machines
          PROVE  view[j][x] <= Len(history'[x])
      <4>1. view[j][x] \in Nat /\ view[j][x] <= Len(history[x])
        BY LimitAssumption DEF TypeOK, CloudInv
      <4>2. CASE x = m
        <5>1. Len(history'[m]) = Len(history[m]) + 1
          BY <2>2, <2>3 DEF TypeOK
        <5> QED BY <2>1, <4>1, <4>2, <5>1
      <4>3. CASE x # m
        BY <2>3, <4>1, <4>3 DEF TypeOK
      <4> QED BY <4>2, <4>3
    <3> QED BY <2>3, <2>5, <3>1 DEF CloudInv
  <2>7. TypeOK'
    BY <2>3, <2>4 DEF TypeOK
  <2> QED BY <2>6, <2>7
<1>5. ASSUME NEW i \in Instances, NEW m \in Machines, NEW k \in 1..Len(history[m]),
             OnValue(i, m, k) PROVE CloudTypes'
  <2>1. /\ view' = [view EXCEPT ![i][m] = k]
        /\ sent' = IF view[i][m] = 0 \/ history[m][view[i][m]] # history[m][k]
                   THEN SendMessage(ListenersOn(i, m), m, k) ELSE sent
        /\ UNCHANGED <<history, created, events, delivered, listeners, kills, dead>>
    BY <1>5 DEF OnValue
  <2>2. ListenersOn(i, m) \in SUBSET Delivery
    BY DEF ListenersOn, TypeOK
  <2>3. sent' \in [Delivery -> Seq(Message)]
    <3>1. SendMessage(ListenersOn(i, m), m, k) \in [Delivery -> Seq(Message)]
      BY <2>2, SendMessageType
    <3> QED BY <2>1, <3>1 DEF TypeOK
  <2>4. view' \in [Instances -> [Machines -> 0..MaxValues]]
    <3>1. k \in 0..MaxValues
      BY LimitAssumption DEF CloudInv
    <3> QED BY <2>1, <3>1 DEF TypeOK
  <2>5. CloudInv'
    <3>1. \A j \in Instances, x \in Machines : view'[j][x] <= Len(history[x])
      BY <2>1 DEF TypeOK, CloudInv
    <3> QED BY <2>1, <3>1 DEF CloudInv
  <2> QED BY <2>1, <2>3, <2>4, <2>5 DEF TypeOK
<1>6. ASSUME NEW i \in Instances, Kill(i) PROVE CloudTypes'
  <2>1. /\ kills[i] < MaxKills /\ kills' = [kills EXCEPT ![i] = @ + 1]
        /\ listeners' = [listeners EXCEPT ![i] = {}]
        /\ view' = [view EXCEPT ![i] = [m \in Machines |-> 0]]
        /\ dead' = dead \cup listeners[i]
        /\ UNCHANGED <<history, created, events, delivered, sent>>
    BY <1>6 DEF Kill
  <2>2. kills' \in [Instances -> 0..MaxKills]
    BY <2>1, LimitAssumption DEF TypeOK
  <2>3. view' \in [Instances -> [Machines -> 0..MaxValues]]
    <3>1. [m \in Machines |-> 0] \in [Machines -> 0..MaxValues]
      BY LimitAssumption
    <3> QED BY <2>1, <3>1 DEF TypeOK
  <2>4. listeners' \in [Instances -> SUBSET Delivery] /\ dead' \subseteq Delivery
    BY <2>1 DEF TypeOK
  <2>5. CloudInv'
    <3>1. \A j \in Instances, x \in Machines : view'[j][x] <= Len(history[x])
      <4>1. \A x \in Machines : 0 <= Len(history[x])
        BY DEF CloudInv
      <4> QED BY <2>1, <4>1 DEF TypeOK, CloudInv
    <3> QED BY <2>1, <3>1 DEF CloudInv
  <2> QED BY <2>1, <2>2, <2>3, <2>4, <2>5 DEF TypeOK
<1>7. CASE UNCHANGED vars
  BY <1>7 DEF vars, TypeOK, CloudInv
<1> QED BY <1>1, <1>2, <1>3, <1>4, <1>5, <1>6, <1>7 DEF Next, Handle, Receive

(* The listeners, the values held and the notifications have their types;  *)
(* in particular no event is handled more often than it is delivered.      *)
THEOREM TypeCorrect == Spec => []TypeOK
<1>1. CloudTypes => TypeOK
  BY DEF CloudTypes
<1> QED BY <1>1, CloudInit, CloudStep, PTL DEF Spec

-----------------------------------------------------------------------------
(* OnePerToken says that the messages of all deliveries are good.          *)
LEMMA OnePerTokenMessages ==
  OnePerToken <=> \A d \in Delivery : GoodMessages(sent[d], history[MachineOf[d.record]])
BY DEF OnePerToken, GoodMessages

(* One more notification, of a later value than all before, is good.       *)
LEMMA AppendGood ==
  ASSUME NEW q \in Seq(Message), NEW h \in Seq(Value), NEW k \in 1..Len(h),
         NEW new \in Message, new.index = k, new.recipient = h[k],
         GoodMessages(q, h), h[k] # Null, \A j \in 1..Len(q) : q[j].index < k
  PROVE  LET x == Append(q, new) IN
         /\ GoodMessages(x, h)
         /\ \A j \in 1..Len(x) : x[j].index <= k
         /\ Len(x) = Len(q) + 1 /\ x[Len(x)].index = k
<1> DEFINE x == Append(q, new)
<1>1. /\ Len(q) \in Nat /\ Len(x) = Len(q) + 1 /\ x[Len(q) + 1] = new
      /\ \A j \in 1..Len(q) : x[j] = q[j]
  OBVIOUS
<1>2. new.index = k /\ new.recipient = h[k] /\ k \in Nat /\ Len(h) \in Nat /\ k <= Len(h)
  OBVIOUS
<1>3. ASSUME NEW j \in 1..Len(x) PROVE j \in 1..Len(q) \/ j = Len(q) + 1
  BY <1>1
<1>4. \A j \in 1..Len(q) : q[j].index \in Nat
  <2>1. \A j \in 1..Len(q) : q[j] \in Message
    OBVIOUS
  <2> QED BY <2>1, LimitAssumption DEF Message
<1> HIDE DEF x
<1>5. ASSUME NEW j \in 1..Len(x)
      PROVE  /\ x[j].index <= Len(h) /\ x[j].recipient = h[x[j].index]
             /\ x[j].recipient # Null /\ x[j].index <= k
  <2>1. CASE j \in 1..Len(q)
    BY <1>1, <1>2, <1>4, <2>1 DEF GoodMessages
  <2>2. CASE j = Len(q) + 1
    BY <1>1, <1>2, <2>2
  <2> QED BY <1>3, <2>1, <2>2
<1>6. ASSUME NEW j \in 1..Len(x), NEW l \in 1..Len(x), j < l
      PROVE  x[j].index < x[l].index
  <2>1. j \in 1..Len(q)
    BY <1>1, <1>6
  <2>2. CASE l \in 1..Len(q)
    BY <1>1, <1>6, <2>1, <2>2 DEF GoodMessages
  <2>3. CASE l = Len(q) + 1
    BY <1>1, <1>2, <2>1, <2>3
  <2> QED BY <1>3, <2>2, <2>3
<1>7. GoodMessages(x, h) /\ \A j \in 1..Len(x) : x[j].index <= k
  BY <1>5, <1>6 DEF GoodMessages
<1>8. Len(x) = Len(q) + 1 /\ x[Len(x)].index = k
  BY <1>1, <1>2
<1> QED BY <1>7, <1>8 DEF x

(* Messages stay good when the token gets another value.                   *)
LEMMA HistoryGrows ==
  ASSUME NEW q \in Seq(Message), NEW h \in Seq(Value), NEW v \in Value,
         GoodMessages(q, h)
  PROVE  GoodMessages(q, Append(h, v))
<1>1. /\ Len(h) \in Nat /\ Len(Append(h, v)) = Len(h) + 1
      /\ \A j \in 1..Len(h) : Append(h, v)[j] = h[j]
  OBVIOUS
<1>2. \A j \in 1..Len(q) : q[j].index \in Nat \ {0}
  <2>1. \A j \in 1..Len(q) : q[j] \in Message
    OBVIOUS
  <2> QED BY <2>1, LimitAssumption DEF Message
<1>3. ASSUME NEW j \in 1..Len(q)
      PROVE  /\ q[j].index <= Len(Append(h, v))
             /\ q[j].recipient = Append(h, v)[q[j].index]
  <2>1. q[j].index <= Len(h) /\ q[j].recipient = h[q[j].index]
    BY DEF GoodMessages
  <2>2. q[j].index \in 1..Len(h)
    BY <1>1, <1>2, <2>1
  <2> QED BY <1>1, <2>1, <2>2
<1> QED BY <1>3 DEF GoodMessages

(* sendMessage for listeners of one machine, none of which has been given  *)
(* the value or a later one: all messages stay good, only those listeners  *)
(* send, and what they send is that value.                                 *)
LEMMA SendGood ==
  ASSUME CloudTypes, OnePerToken, NEW m \in Machines, NEW k \in 1..Len(history[m]),
         NEW D \in SUBSET Delivery,
         \A d \in D : MachineOf[d.record] = m /\ \A j \in 1..Len(sent[d]) : sent[d][j].index < k
  PROVE  \A d \in Delivery :
           LET q == SendMessage(D, m, k)[d] IN
           /\ GoodMessages(q, history[MachineOf[d.record]])
           /\ d \notin D => q = sent[d]
           /\ d \in D => \A j \in 1..Len(q) : q[j].index <= k
           /\ \/ q = sent[d]
              \/ Len(q) = Len(sent[d]) + 1 /\ q[Len(q)].index = k
<1> SUFFICES ASSUME NEW d \in Delivery
             PROVE  LET q == SendMessage(D, m, k)[d] IN
                    /\ GoodMessages(q, history[MachineOf[d.record]])
                    /\ d \notin D => q = sent[d]
                    /\ d \in D => \A j \in 1..Len(q) : q[j].index <= k
                    /\ \/ q = sent[d]
                       \/ Len(q) = Len(sent[d]) + 1 /\ q[Len(q)].index = k
  OBVIOUS
<1> DEFINE new == [index |-> k, recipient |-> history[m][k]]
<1>1. GoodMessages(sent[d], history[MachineOf[d.record]])
  BY OnePerTokenMessages
<1>2. /\ sent[d] \in Seq(Message) /\ history[m] \in Seq(Value)
      /\ k \in Nat
  BY DEF CloudTypes, TypeOK
<1>3. SendMessage(D, m, k)[d] = IF d \in D /\ history[m][k] # Null
                                THEN Append(sent[d], new) ELSE sent[d]
  BY DEF SendMessage
<1>4. CASE d \in D /\ history[m][k] # Null
  <2>1. new \in Message
    BY SendMessageType DEF CloudTypes
  <2>2. MachineOf[d.record] = m /\ \A j \in 1..Len(sent[d]) : sent[d][j].index < k
    BY <1>4
  <2>3. /\ GoodMessages(sent[d], history[m]) /\ history[m][k] # Null
        /\ new.index = k /\ new.recipient = history[m][k]
    BY <1>1, <1>4, <2>2
  <2> HIDE DEF new
  <2>4. /\ GoodMessages(Append(sent[d], new), history[m])
        /\ \A j \in 1..Len(Append(sent[d], new)) : Append(sent[d], new)[j].index <= k
        /\ Len(Append(sent[d], new)) = Len(sent[d]) + 1
        /\ Append(sent[d], new)[Len(Append(sent[d], new))].index = k
    BY <1>2, <2>1, <2>2, <2>3, AppendGood
  <2> QED BY <1>3, <1>4, <2>2, <2>4
<1>5. CASE ~(d \in D /\ history[m][k] # Null)
  <2>1. SendMessage(D, m, k)[d] = sent[d]
    BY <1>3, <1>5
  <2>2. \A j \in 1..Len(sent[d]) : sent[d][j].index \in Nat
    <3>1. \A j \in 1..Len(sent[d]) : sent[d][j] \in Message
      BY <1>2
    <3> QED BY <3>1, LimitAssumption DEF Message
  <2>3. d \in D => \A j \in 1..Len(sent[d]) : sent[d][j].index <= k
    BY <1>2, <2>2
  <2> QED BY <1>1, <2>1, <2>3
<1> QED BY <1>4, <1>5

(* The handler and the arrival of a value as SendGood sees them: who       *)
(* listens where, and which value is sent to whom.                         *)
LEMMA OnCreateSends ==
  ASSUME SentInv, NEW i \in Instances, NEW r \in Records, OnCreate(i, r)
  PROVE  LET d == [record |-> r, n |-> delivered[r] + 1]
             m == MachineOf[r] IN
         /\ d \in Delivery /\ m \in Machines /\ delivered[r] \in Nat
         /\ delivered' = [delivered EXCEPT ![r] = @ + 1]
         /\ listeners' = [listeners EXCEPT ![i] = @ \cup {d}]
         /\ \A j \in Instances : d \notin listeners[j]
         /\ history' = history /\ view' = view /\ sent[d] = <<>>
         /\ \A x \in Delivery :
              /\ GoodMessages(sent'[x], history[MachineOf[x.record]])
              /\ x # d => sent'[x] = sent[x]
              /\ \A j \in 1..Len(sent'[d]) : sent'[d][j].index <= view[i][m]
              /\ \/ sent'[d] = <<>>
                 \/ Len(sent'[d]) = 1 /\ sent'[d][1].index = view[i][m]
<1> DEFINE d == [record |-> r, n |-> delivered[r] + 1]
           m == MachineOf[r]
<1>1. /\ r \in events
      /\ delivered' = [delivered EXCEPT ![r] = @ + 1]
      /\ listeners' = [listeners EXCEPT ![i] = @ \cup {d}]
      /\ sent' = IF view[i][m] = 0 THEN sent ELSE SendMessage({d}, m, view[i][m])
      /\ history' = history /\ view' = view
  BY DEF OnCreate
<1>2. /\ d \in Delivery /\ m \in Machines /\ delivered[r] \in Nat
      /\ d.record = r /\ d.n = delivered[r] + 1
  BY <1>1, NewDelivery DEF SentInv, CloudTypes
<1> HIDE DEF d, m
<1>3. /\ \A j \in Instances : d \notin listeners[j]
      /\ sent[d] = <<>>
  BY <1>2 DEF SentInv, ListenerInv
<1>4. MachineOf[d.record] = m
  BY <1>2 DEF m
<1>5. \A x \in Delivery :
        /\ GoodMessages(sent'[x], history[MachineOf[x.record]])
        /\ x # d => sent'[x] = sent[x]
        /\ \A j \in 1..Len(sent'[d]) : sent'[d][j].index <= view[i][m]
        /\ \/ sent'[d] = <<>>
           \/ Len(sent'[d]) = 1 /\ sent'[d][1].index = view[i][m]
  <2>1. CASE view[i][m] = 0
    <3>1. sent' = sent
      BY <1>1, <2>1
    <3>2. \A x \in Delivery : GoodMessages(sent[x], history[MachineOf[x.record]])
      BY OnePerTokenMessages DEF SentInv
    <3>3. Len(sent'[d]) = 0
      BY <1>3, <3>1
    <3>4. sent'[d] = <<>>
      BY <1>3, <3>1
    <3> QED BY <3>1, <3>2, <3>3, <3>4
  <2>2. CASE view[i][m] # 0
    <3>1. view[i][m] \in 1..Len(history[m])
      BY <1>2, <2>2, LimitAssumption DEF SentInv, CloudTypes, TypeOK, CloudInv
    <3>2. Len(sent[d]) = 0
      BY <1>3
    <3>3. \A j \in 1..Len(sent[d]) : sent[d][j].index < view[i][m]
      BY <3>2
    <3>4. \A x \in Delivery :
            LET q == SendMessage({d}, m, view[i][m])[x] IN
            /\ GoodMessages(q, history[MachineOf[x.record]])
            /\ x \notin {d} => q = sent[x]
            /\ x \in {d} => \A j \in 1..Len(q) : q[j].index <= view[i][m]
            /\ \/ q = sent[x]
               \/ Len(q) = Len(sent[x]) + 1 /\ q[Len(q)].index = view[i][m]
      <4>1. /\ CloudTypes /\ OnePerToken /\ {d} \in SUBSET Delivery
            /\ \A x \in {d} : /\ MachineOf[x.record] = m
                              /\ \A j \in 1..Len(sent[x]) : sent[x][j].index < view[i][m]
        BY <1>2, <1>4, <3>3 DEF SentInv
      <4> QED BY <1>2, <3>1, <4>1, SendGood
    <3>5. sent' = SendMessage({d}, m, view[i][m])
      BY <1>1, <2>2
    <3>6. \/ sent'[d] = <<>>
          \/ Len(sent'[d]) = 1 /\ sent'[d][1].index = view[i][m]
      <4>1. \/ sent'[d] = sent[d]
            \/ /\ Len(sent'[d]) = Len(sent[d]) + 1
               /\ sent'[d][Len(sent'[d])].index = view[i][m]
        BY <1>2, <3>4, <3>5
      <4> QED BY <1>3, <3>2, <4>1
    <3> QED BY <1>2, <3>4, <3>5, <3>6
  <2> QED BY <2>1, <2>2
<1> QED BY <1>1, <1>2, <1>3, <1>5 DEF d, m

(* The arrival of a value, in the same way: only listeners of that machine *)
(* in that instance send, and they send that value.                        *)
LEMMA OnValueSends ==
  ASSUME SentInv, NEW i \in Instances, NEW m \in Machines,
         NEW k \in 1..Len(history[m]), OnValue(i, m, k)
  PROVE  /\ view' = [view EXCEPT ![i][m] = k] /\ view[i][m] \in Nat /\ view[i][m] < k
         /\ history' = history /\ delivered' = delivered /\ listeners' = listeners
         /\ \A x \in Delivery :
              /\ GoodMessages(sent'[x], history[MachineOf[x.record]])
              /\ x \notin ListenersOn(i, m) => sent'[x] = sent[x]
              /\ x \in ListenersOn(i, m) =>
                   \A j \in 1..Len(sent'[x]) : sent'[x][j].index <= k
              /\ \/ sent'[x] = sent[x]
                 \/ Len(sent'[x]) = Len(sent[x]) + 1 /\ sent'[x][Len(sent'[x])].index = k
<1>1. /\ view[i][m] < k /\ view' = [view EXCEPT ![i][m] = k]
      /\ sent' = IF view[i][m] = 0 \/ history[m][view[i][m]] # history[m][k]
                 THEN SendMessage(ListenersOn(i, m), m, k) ELSE sent
      /\ history' = history /\ delivered' = delivered /\ listeners' = listeners
  BY DEF OnValue
<1>2. view[i][m] \in Nat /\ k \in Nat
  BY LimitAssumption DEF SentInv, CloudTypes, TypeOK
<1>3. ASSUME NEW d \in ListenersOn(i, m)
      PROVE  /\ d \in Delivery /\ MachineOf[d.record] = m
             /\ \A j \in 1..Len(sent[d]) : sent[d][j].index < k
  <2>1. d \in listeners[i] /\ MachineOf[d.record] = m /\ d \in Delivery
    BY DEF ListenersOn, SentInv, CloudTypes, TypeOK
  <2>2. \A j \in 1..Len(sent[d]) : sent[d][j].index <= view[i][m]
    BY <2>1 DEF SentInv, ViewInv
  <2>3. \A j \in 1..Len(sent[d]) : sent[d][j].index \in Nat
    <3>1. sent[d] \in Seq(Message)
      BY <2>1 DEF SentInv, CloudTypes, TypeOK
    <3>2. \A j \in 1..Len(sent[d]) : sent[d][j] \in Message
      BY <3>1
    <3> QED BY <3>2, LimitAssumption DEF Message
  <2> QED BY <1>1, <1>2, <2>1, <2>2, <2>3
<1>4. CASE sent' = SendMessage(ListenersOn(i, m), m, k)
  <2>1. /\ CloudTypes /\ OnePerToken /\ ListenersOn(i, m) \in SUBSET Delivery
        /\ \A d \in ListenersOn(i, m) :
             MachineOf[d.record] = m /\ \A j \in 1..Len(sent[d]) : sent[d][j].index < k
    BY <1>3 DEF SentInv
  <2>2. \A d \in Delivery :
          LET q == SendMessage(ListenersOn(i, m), m, k)[d] IN
          /\ GoodMessages(q, history[MachineOf[d.record]])
          /\ d \notin ListenersOn(i, m) => q = sent[d]
          /\ d \in ListenersOn(i, m) => \A j \in 1..Len(q) : q[j].index <= k
          /\ \/ q = sent[d]
             \/ Len(q) = Len(sent[d]) + 1 /\ q[Len(q)].index = k
    BY <2>1, SendGood
  <2> QED BY <1>1, <1>2, <1>4, <2>2
<1>5. CASE sent' = sent
  <2>1. \A x \in Delivery : GoodMessages(sent[x], history[MachineOf[x.record]])
    BY OnePerTokenMessages DEF SentInv
  <2>2. \A x \in ListenersOn(i, m) : \A j \in 1..Len(sent[x]) : sent[x][j].index <= k
    <3>1. ASSUME NEW x \in ListenersOn(i, m), NEW j \in 1..Len(sent[x])
          PROVE  sent[x][j].index <= k
      <4>1. sent[x] \in Seq(Message) /\ sent[x][j].index < k
        BY <1>3 DEF SentInv, CloudTypes, TypeOK
      <4>2. sent[x][j] \in Message
        BY <4>1
      <4> QED BY <1>2, <4>1, <4>2, LimitAssumption DEF Message
    <3> QED BY <3>1
  <2> QED BY <1>1, <1>2, <1>5, <2>1, <2>2
<1> QED BY <1>1, <1>4, <1>5

(* Before anything is created nobody listens and nothing has been sent.    *)
LEMMA SentInit == ASSUME Init PROVE SentInv
<1>1. CloudTypes
  BY CloudInit
<1>2. \A d \in Delivery : sent[d] = <<>> /\ Len(sent[d]) = 0
  BY DEF Init
<1>3. ListenerInv /\ ViewInv
  BY <1>2 DEF Init, ListenerInv, ViewInv
<1>4. OnePerToken
  BY <1>2 DEF OnePerToken
<1> QED BY <1>1, <1>3, <1>4 DEF SentInv

(* The handler keeps the invariant: its delivery is new.                   *)
LEMMA OnCreateStep ==
  ASSUME SentInv, NEW i \in Instances, NEW r \in Records, OnCreate(i, r)
  PROVE  ListenerInv' /\ ViewInv' /\ OnePerToken'
<1> DEFINE d == [record |-> r, n |-> delivered[r] + 1]
           m == MachineOf[r]
<1>1. /\ d \in Delivery /\ m \in Machines /\ delivered[r] \in Nat
      /\ delivered' = [delivered EXCEPT ![r] = @ + 1]
      /\ listeners' = [listeners EXCEPT ![i] = @ \cup {d}]
      /\ \A j \in Instances : d \notin listeners[j]
      /\ history' = history /\ view' = view /\ sent[d] = <<>>
      /\ \A x \in Delivery :
           /\ GoodMessages(sent'[x], history[MachineOf[x.record]])
           /\ x # d => sent'[x] = sent[x]
           /\ \A j \in 1..Len(sent'[d]) : sent'[d][j].index <= view[i][m]
  BY OnCreateSends
<1>2. d.record = r /\ d.n = delivered[r] + 1 /\ MachineOf[d.record] = m
  OBVIOUS
<1> HIDE DEF d, m
<1>3. /\ \A j \in Instances : listeners[j] \in SUBSET Delivery
      /\ \A x \in Delivery : x.record \in Records /\ x.n \in Nat
      /\ \A x \in Records : delivered[x] \in Nat
  BY LimitAssumption DEF SentInv, CloudTypes, TypeOK, Delivery
<1>4. \A x \in Records : delivered'[x] \in Nat /\ delivered[x] <= delivered'[x]
  BY <1>1, <1>3 DEF SentInv, CloudTypes, TypeOK
<1>5. delivered'[r] = delivered[r] + 1
  BY <1>1 DEF SentInv, CloudTypes, TypeOK
<1>6. /\ listeners'[i] = listeners[i] \cup {d}
      /\ \A j \in Instances \ {i} : listeners'[j] = listeners[j]
  BY <1>1 DEF SentInv, CloudTypes, TypeOK
<1>7. ASSUME NEW j \in Instances, NEW x \in listeners'[j]
      PROVE  (x = d /\ j = i) \/ (x \in listeners[j] /\ x # d /\ x \in Delivery)
  <2>1. d \notin listeners[j] /\ listeners[j] \in SUBSET Delivery
    BY <1>1, <1>3
  <2>2. CASE j = i
    <3>1. x \in listeners[j] \cup {d}
      BY <1>6, <2>2
    <3> QED BY <2>1, <2>2, <3>1
  <2>3. CASE j # i
    <3>1. x \in listeners[j]
      BY <1>6, <2>3
    <3> QED BY <2>1, <3>1
  <2> QED BY <2>2, <2>3
<1>8. ListenerInv'
  <2>1. ASSUME NEW j \in Instances, NEW x \in listeners'[j]
        PROVE  x.n <= delivered'[x.record]
    <3>1. CASE x = d
      BY <1>1, <1>2, <1>5, <3>1
    <3>2. CASE x # d
      <4>1. x \in listeners[j] /\ x \in Delivery
        BY <1>7, <3>2
      <4>2. x.n <= delivered[x.record]
        BY <4>1 DEF SentInv, ListenerInv
      <4>3. /\ x.record \in Records /\ x.n \in Nat /\ delivered[x.record] \in Nat
            /\ delivered'[x.record] \in Nat /\ delivered[x.record] <= delivered'[x.record]
        BY <1>3, <1>4, <4>1
      <4> QED BY <4>2, <4>3
    <3> QED BY <3>1, <3>2
  <2>2. ASSUME NEW j \in Instances, NEW l \in Instances, NEW x \in listeners'[j],
               x \in listeners'[l]
        PROVE  j = l
    BY <1>7, <2>2 DEF SentInv, ListenerInv
  <2>3. ASSUME NEW x \in Delivery, x.n > delivered'[x.record]
        PROVE  sent'[x] = <<>>
    <3>1. x # d
      BY <1>1, <1>2, <1>5, <2>3
    <3>2. x.n > delivered[x.record]
      <4>1. /\ x.record \in Records /\ x.n \in Nat /\ delivered[x.record] \in Nat
            /\ delivered'[x.record] \in Nat /\ delivered[x.record] <= delivered'[x.record]
        BY <1>3, <1>4
      <4> QED BY <2>3, <4>1
    <3> QED BY <1>1, <3>1, <3>2 DEF SentInv, ListenerInv
  <2> QED BY <2>1, <2>2, <2>3 DEF ListenerInv
<1>9. ViewInv'
  <2>1. ASSUME NEW j \in Instances, NEW x \in listeners'[j], NEW l \in 1..Len(sent'[x])
        PROVE  sent'[x][l].index <= view[j][MachineOf[x.record]]
    <3>1. CASE x = d
      BY <1>1, <1>2, <1>7, <3>1
    <3>2. CASE x # d
      <4>1. x \in listeners[j] /\ sent'[x] = sent[x]
        BY <1>1, <1>7, <3>2
      <4> QED BY <4>1 DEF SentInv, ViewInv
    <3> QED BY <3>1, <3>2
  <2> QED BY <1>1, <2>1 DEF ViewInv
<1>10. OnePerToken'
  BY <1>1 DEF OnePerToken, GoodMessages
<1> QED BY <1>8, <1>9, <1>10

(* The arrival of a value keeps it: other instances and other machines     *)
(* have other listeners.                                                   *)
LEMMA OnValueStep ==
  ASSUME SentInv, NEW i \in Instances, NEW m \in Machines,
         NEW k \in 1..Len(history[m]), OnValue(i, m, k)
  PROVE  ListenerInv' /\ ViewInv' /\ OnePerToken'
<1>1. /\ view' = [view EXCEPT ![i][m] = k]
      /\ history' = history /\ delivered' = delivered /\ listeners' = listeners
      /\ \A x \in Delivery :
           /\ GoodMessages(sent'[x], history[MachineOf[x.record]])
           /\ x \notin ListenersOn(i, m) => sent'[x] = sent[x]
           /\ x \in ListenersOn(i, m) =>
                \A j \in 1..Len(sent'[x]) : sent'[x][j].index <= k
  BY OnValueSends
<1>2. /\ \A j \in Instances : listeners[j] \in SUBSET Delivery
      /\ \A x \in Delivery : x.record \in Records /\ x.n \in Nat
      /\ \A x \in Records : delivered[x] \in Nat /\ MachineOf[x] \in Machines
  BY LimitAssumption, MachineAssumption DEF SentInv, CloudTypes, TypeOK, Delivery
<1>3. /\ view'[i][m] = k
      /\ \A j \in Instances, x \in Machines : (j # i \/ x # m) => view'[j][x] = view[j][x]
  BY <1>1 DEF SentInv, CloudTypes, TypeOK
<1>4. ListenerInv'
  <2>1. ASSUME NEW x \in Delivery, x.n > delivered[x.record] PROVE sent'[x] = <<>>
    <3>1. x \notin listeners[i]
      BY <1>2, <2>1 DEF SentInv, ListenerInv
    <3> QED BY <1>1, <2>1, <3>1 DEF SentInv, ListenerInv, ListenersOn
  <2> QED BY <1>1, <2>1 DEF SentInv, ListenerInv
<1>5. ViewInv'
  <2>1. ASSUME NEW j \in Instances, NEW x \in listeners[j], NEW l \in 1..Len(sent'[x])
        PROVE  sent'[x][l].index <= view'[j][MachineOf[x.record]]
    <3>1. x \in Delivery /\ MachineOf[x.record] \in Machines
      BY <1>2
    <3>2. CASE j = i /\ MachineOf[x.record] = m
      BY <1>1, <1>3, <3>1, <3>2 DEF ListenersOn
    <3>3. CASE ~(j = i /\ MachineOf[x.record] = m)
      <4>1. x \notin ListenersOn(i, m)
        BY <3>3 DEF ListenersOn, SentInv, ListenerInv
      <4>2. sent'[x] = sent[x] /\ view'[j][MachineOf[x.record]] = view[j][MachineOf[x.record]]
        BY <1>1, <1>3, <3>1, <3>3, <4>1
      <4> QED BY <4>2 DEF SentInv, ViewInv
    <3> QED BY <3>2, <3>3
  <2> QED BY <1>1, <2>1 DEF ViewInv
<1>6. OnePerToken'
  BY <1>1 DEF OnePerToken, GoodMessages
<1> QED BY <1>4, <1>5, <1>6

(* Every step keeps the invariant.                                         *)
LEMMA SentStep == ASSUME SentInv, [Next]_vars PROVE SentInv'
<1>1. CloudTypes'
  BY CloudStep DEF SentInv
<1>2. ASSUME NEW r \in Records, CreateRecord(r) \/ Redeliver(r)
      PROVE  ListenerInv' /\ ViewInv' /\ OnePerToken'
  <2>1. UNCHANGED <<history, delivered, listeners, view, sent>>
    BY <1>2 DEF CreateRecord, Redeliver
  <2> QED BY <2>1 DEF SentInv, ListenerInv, ViewInv, OnePerToken
<1>3. ASSUME NEW m \in Machines, NEW v \in Value, SetToken(m, v)
      PROVE  ListenerInv' /\ ViewInv' /\ OnePerToken'
  <2>1. /\ history' = [history EXCEPT ![m] = Append(@, v)]
        /\ UNCHANGED <<delivered, listeners, view, sent>>
    BY <1>3 DEF SetToken
  <2>2. ListenerInv' /\ ViewInv'
    BY <2>1 DEF SentInv, ListenerInv, ViewInv
  <2>3. ASSUME NEW d \in Delivery
        PROVE  GoodMessages(sent[d], history'[MachineOf[d.record]])
    <3>1. /\ GoodMessages(sent[d], history[MachineOf[d.record]])
          /\ sent[d] \in Seq(Message) /\ MachineOf[d.record] \in Machines
          /\ history[MachineOf[d.record]] \in Seq(Value)
      BY OnePerTokenMessages, MachineAssumption DEF SentInv, CloudTypes, TypeOK, Delivery
    <3>2. CASE MachineOf[d.record] = m
      <4>1. history'[m] = Append(history[m], v)
        BY <2>1 DEF SentInv, CloudTypes, TypeOK
      <4> QED BY <3>1, <3>2, <4>1, HistoryGrows
    <3>3. CASE MachineOf[d.record] # m
      <4>1. history'[MachineOf[d.record]] = history[MachineOf[d.record]]
        BY <2>1, <3>1, <3>3 DEF SentInv, CloudTypes, TypeOK
      <4> QED BY <3>1, <4>1
    <3> QED BY <3>2, <3>3
  <2>4. OnePerToken'
    BY <2>1, <2>3 DEF OnePerToken, GoodMessages
  <2> QED BY <2>2, <2>4
<1>4. ASSUME NEW i \in Instances, Kill(i)
      PROVE  ListenerInv' /\ ViewInv' /\ OnePerToken'
  <2>1. /\ listeners' = [listeners EXCEPT ![i] = {}]
        /\ view' = [view EXCEPT ![i] = [m \in Machines |-> 0]]
        /\ UNCHANGED <<history, delivered, sent>>
    BY <1>4 DEF Kill
  <2>2. /\ listeners'[i] = {}
        /\ \A j \in Instances \ {i} : listeners'[j] = listeners[j] /\ view'[j] = view[j]
    BY <2>1 DEF SentInv, CloudTypes, TypeOK
  <2>3. ListenerInv'
    BY <2>1, <2>2 DEF SentInv, ListenerInv
  <2>4. ViewInv'
    BY <2>1, <2>2 DEF SentInv, ViewInv
  <2>5. OnePerToken'
    BY <2>1 DEF SentInv, OnePerToken
  <2> QED BY <2>3, <2>4, <2>5
<1>5. CASE UNCHANGED vars
  BY <1>1, <1>5 DEF vars, SentInv, ListenerInv, ViewInv, OnePerToken
<1> QED BY <1>1, <1>2, <1>3, <1>4, <1>5, OnCreateStep, OnValueStep
        DEF Next, Handle, Receive, SentInv

(* The listeners that index.js:22 never removes send, for each delivery of *)
(* an event, one notification per token value at most, in order, and only  *)
(* to owners of the record's machine.                                      *)
THEOREM NotifiesOncePerToken == Spec => []OnePerToken
<1>1. SentInv => OnePerToken
  BY DEF SentInv
<1> QED BY <1>1, SentInit, SentStep, PTL DEF Spec

-----------------------------------------------------------------------------
(* What a listener has sent last is no later than what its instance holds. *)
LEMMA LastSent ==
  ASSUME SentInv, NEW i \in Instances, NEW e \in listeners[i], sent[e] # <<>>
  PROVE  /\ sent[e][Len(sent[e])].index \in Nat
         /\ sent[e][Len(sent[e])].index <= view[i][MachineOf[e.record]]
<1>1. e \in Delivery /\ sent[e] \in Seq(Message)
  BY DEF SentInv, CloudTypes, TypeOK
<1>2. Len(sent[e]) \in 1..Len(sent[e]) /\ sent[e][Len(sent[e])] \in Message
  BY <1>1
<1>3. sent[e][Len(sent[e])].index \in Nat
  BY <1>2, LimitAssumption DEF Message
<1> QED BY <1>2, <1>3 DEF SentInv, ViewInv

(* The handler sends the value its instance holds.                         *)
LEMMA OnCreateOrder ==
  ASSUME SentInv, NEW l \in Instances, NEW r \in Records, OnCreate(l, r)
  PROVE  OwnerOrder
<1> DEFINE f == [record |-> r, n |-> delivered[r] + 1]
           m == MachineOf[r]
<1>1. /\ f \in Delivery
      /\ listeners' = [listeners EXCEPT ![l] = @ \cup {f}]
      /\ \A j \in Instances : f \notin listeners[j]
      /\ sent[f] = <<>>
      /\ \A x \in Delivery :
           /\ x # f => sent'[x] = sent[x]
           /\ \/ sent'[f] = <<>>
              \/ Len(sent'[f]) = 1 /\ sent'[f][1].index = view[l][m]
  BY OnCreateSends
<1>2. MachineOf[f.record] = m /\ view[l][m] \in Nat
  BY MachineAssumption, LimitAssumption DEF SentInv, CloudTypes, TypeOK
<1> HIDE DEF f, m
<1>3. /\ listeners'[l] = listeners[l] \cup {f}
      /\ \A j \in Instances \ {l} : listeners'[j] = listeners[j]
      /\ \A j \in Instances : listeners[j] \in SUBSET Delivery
  BY <1>1 DEF SentInv, CloudTypes, TypeOK
<1>4. ASSUME NEW i \in Instances, NEW d \in listeners'[i], NEW e \in listeners'[i],
             MachineOf[d.record] = MachineOf[e.record],
             Len(sent'[d]) > Len(sent[d]), sent[e] # <<>>
      PROVE  sent'[d][Len(sent'[d])].index >= sent[e][Len(sent[e])].index
  <2>1. d \in Delivery
    BY <1>1, <1>3
  <2>2. d = f
    <3>1. SUFFICES ASSUME d # f PROVE FALSE
      OBVIOUS
    <3>2. sent'[d] = sent[d] /\ sent[d] \in Seq(Message)
      BY <1>1, <2>1, <3>1 DEF SentInv, CloudTypes, TypeOK
    <3>3. Len(sent[d]) \in Nat
      BY <3>2
    <3> QED BY <1>4, <3>2, <3>3
  <2>3. i = l
    BY <1>1, <1>3, <2>2
  <2>4. e \in listeners[i]
    BY <1>1, <1>3, <1>4, <2>3
  <2>5. Len(sent'[d]) = 1 /\ sent'[d][1].index = view[i][MachineOf[e.record]]
    <3>1. Len(sent[f]) = 0 /\ sent'[f] # <<>>
      BY <1>1, <1>4, <2>2
    <3> QED BY <1>1, <1>2, <1>4, <2>1, <2>2, <2>3, <3>1
  <2>6. view[i][MachineOf[e.record]] \in Nat
    BY <1>2, <1>4, <2>2, <2>3
  <2> QED BY <1>4, <2>4, <2>5, <2>6, LastSent
<1> QED BY <1>4 DEF OwnerOrder

(* A value that arrives is later than the one its instance held.           *)
LEMMA OnValueOrder ==
  ASSUME SentInv, NEW l \in Instances, NEW m \in Machines,
         NEW k \in 1..Len(history[m]), OnValue(l, m, k)
  PROVE  OwnerOrder
<1>1. /\ view[l][m] \in Nat /\ view[l][m] < k /\ listeners' = listeners
      /\ \A x \in Delivery :
           /\ x \notin ListenersOn(l, m) => sent'[x] = sent[x]
           /\ \/ sent'[x] = sent[x]
              \/ Len(sent'[x]) = Len(sent[x]) + 1 /\ sent'[x][Len(sent'[x])].index = k
  BY OnValueSends
<1>2. ASSUME NEW i \in Instances, NEW d \in listeners'[i], NEW e \in listeners'[i],
             MachineOf[d.record] = MachineOf[e.record],
             Len(sent'[d]) > Len(sent[d]), sent[e] # <<>>
      PROVE  sent'[d][Len(sent'[d])].index >= sent[e][Len(sent[e])].index
  <2>1. /\ d \in Delivery /\ d \in listeners[i] /\ e \in listeners[i]
        /\ sent[d] \in Seq(Message)
    BY <1>1, <1>2 DEF SentInv, CloudTypes, TypeOK
  <2>2. sent'[d] # sent[d]
    <3>1. Len(sent[d]) \in Nat
      BY <2>1
    <3> QED BY <1>2, <3>1
  <2>3. d \in ListenersOn(l, m) /\ sent'[d][Len(sent'[d])].index = k
    BY <1>1, <2>1, <2>2
  <2>4. i = l /\ MachineOf[e.record] = m
    BY <1>2, <2>1, <2>3 DEF ListenersOn, SentInv, ListenerInv
  <2>5. /\ sent[e][Len(sent[e])].index \in Nat
        /\ sent[e][Len(sent[e])].index <= view[l][m]
    BY <1>2, <2>1, <2>4, LastSent
  <2>6. k \in Nat
    OBVIOUS
  <2> QED BY <1>1, <2>3, <2>5, <2>6
<1> QED BY <1>2 DEF OwnerOrder

(* No other step sends anything.                                           *)
LEMMA OwnerOrderStep == ASSUME SentInv, [Next]_vars PROVE [OwnerOrder]_vars
<1>1. CASE UNCHANGED vars
  BY <1>1
<1>2. ASSUME sent' = sent PROVE OwnerOrder
  <2>1. ASSUME NEW i \in Instances, NEW d \in listeners'[i], Len(sent'[d]) > Len(sent[d])
        PROVE  FALSE
    <3>1. listeners' \in [Instances -> SUBSET Delivery] /\ sent \in [Delivery -> Seq(Message)]
      BY SentStep DEF SentInv, CloudTypes, TypeOK
    <3>2. Len(sent[d]) \in Nat
      BY <3>1
    <3> QED BY <1>2, <2>1, <3>2
  <2> QED BY <2>1 DEF OwnerOrder
<1>3. CASE Next
  BY <1>2, <1>3, OnCreateOrder, OnValueOrder
     DEF Next, Handle, Receive, CreateRecord, Redeliver, SetToken, Kill
<1> QED BY <1>1, <1>3

(* While an instance runs, its listeners (index.js:22), registered by many *)
(* deliveries at many times, never tell a former owner after a newer one.  *)
THEOREM NoFormerOwner == Spec => NewOwnerFirst
<1>1. SentInv /\ [Next]_vars => [OwnerOrder]_vars
  BY OwnerOrderStep
<1>2. Spec => []SentInv
  BY SentInit, SentStep, PTL DEF Spec
<1> QED BY <1>1, <1>2, PTL DEF Spec, NewOwnerFirst

=============================================================================
