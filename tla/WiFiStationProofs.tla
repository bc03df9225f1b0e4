-------------------------- MODULE WiFiStationProofs --------------------------
(***************************************************************************)
(* Proofs of the safety properties of WiFiStation, for a queue of any      *)
(* length, any number of failures and any reasons for them.                *)
(***************************************************************************)
EXTENDS WiFiStation, TLAPS

-----------------------------------------------------------------------------
(* The inductive invariant.                                                *)

(* The last event the driver posted, handled or not.                       *)
Latest == IF Len(posted) > 0 THEN posted[Len(posted)] ELSE slot

(* The variable holds an event that some pointer will still show.          *)
InSlot == sending \/ queued > 0

(* The last event tells the state of the driver.                           *)
LatestInv ==
  /\ radio = "off" => Latest.id = "STA_STOP"
  /\ radio = "idle" => Latest.id \in {"STA_START", "STA_DISCONNECTED"}
  /\ radio = "connecting" => Latest.id = "STA_START"
  /\ radio = "assoc" => Latest.id = "STA_CONNECTED"
  /\ radio = "up" => Latest.id = "STA_GOT_IP"
  /\ radio = "noip" => Latest.id = "STA_LOST_IP"

(* Who may be doing what to the driver: setup() is done with it before the *)
(* first disconnection, then only the handler starts and stops it.         *)
CallersInv ==
  /\ radio = "off" <=> setup = "enable" \/ handler = "enable"
  /\ setup = "enable" => ~InSlot /\ Len(posted) = 0
  /\ setup = "connect" => radio = "idle"
  /\ setup \in {"enable", "connect"} =>
       /\ handler = "idle" /\ status # "WL_CONNECTED"
       /\ slot.id \in {"STA_STOP", "STA_START"}
       /\ \A i \in 1..Len(posted) : posted[i].id = "STA_START"
  /\ handler = "begin" => radio = "idle" /\ Latest.id = "STA_START"

(* The last pointer of the queue shows the event that was taken last: when *)
(* no pointer is left, the status is what that event makes of it.          *)
StatusInv ==
  ~InSlot =>
    /\ handler # "idle" => slot.id = "STA_DISCONNECTED"
    /\ slot.id # "STA_DISCONNECTED" =>
         (status = "WL_CONNECTED" <=> slot.id = "STA_GOT_IP")
    /\ slot.id = "STA_DISCONNECTED" /\ handler \notin {"reason", "disable"} =>
         status # "WL_CONNECTED" \/ Len(posted) > 0

(* Without a failure that may strand the station, disconnections are       *)
(* retried, or the handler's own.                                          *)
Mild(e) == e.id = "STA_DISCONNECTED" =>
  e.reason = ASSOC_LEAVE \/ (Reconnects(e.reason) /\ e.reason # AUTH_EXPIRE)
EventsInv ==
  ~faults.risky => Mild(slot) /\ \A i \in 1..Len(posted) : Mild(posted[i])
RiskInv ==
  ~faults.risky /\ reuse # "torn" =>
    /\ handler \in {"disable", "enable", "begin"} => status # "WL_CONNECTED"
    /\ radio = "idle" /\ setup \in {"wait", "done"} =>
         \/ handler = "begin"
         \/ /\ Latest.id = "STA_DISCONNECTED" /\ Reconnects(Latest.reason)
            /\ InSlot \/ Len(posted) > 0 \/ handler \in {"reason", "disable"}

(* While no event has been overtaken they are handled one at a time, and   *)
(* nothing happens between a disconnection and its handling.               *)
Expired == faults.reason = AUTH_EXPIRE /\ faults.up
OrderInv ==
  reuse = "none" =>
    /\ queued <= 1
    /\ sending => queued = 0 /\ handler = "idle"
    /\ handler # "idle" => queued = 0
    /\ slot.id = "STA_DISCONNECTED" /\ (InSlot \/ handler \in {"reason", "disable"}) =>
         Len(posted) = 0
    /\ \A i \in 1..Len(posted) : posted[i].id = "STA_DISCONNECTED" => i = Len(posted)
FaultInv ==
  reuse = "none" =>
    /\ Latest.id = "STA_DISCONNECTED" => Latest.reason = faults.reason
    /\ Latest.id = "STA_DISCONNECTED" /\ ~InSlot /\ Len(posted) = 0 /\ handler = "idle" =>
         Unretried(faults.reason)
    /\ Latest.id = "STA_DISCONNECTED" /\ ~faults.up =>
         /\ Len(posted) >= 2 => posted[Len(posted) - 1].id # "STA_GOT_IP"
         /\ Len(posted) = 1 /\ InSlot => slot.id # "STA_GOT_IP"
         /\ Len(posted) = 0 \/ (Len(posted) = 1 /\ ~InSlot) => status # "WL_CONNECTED"
    /\ status = "WL_CONNECTED" /\ handler \in {"disable", "enable", "begin"} => Expired
    /\ radio = "idle" /\ setup \in {"wait", "done"} /\ Latest.id = "STA_START"
         /\ handler # "begin" => Expired

StationInv == /\ TypeOK /\ LatestInv /\ CallersInv /\ StatusInv /\ EventsInv
              /\ RiskInv /\ OrderInv /\ FaultInv

-----------------------------------------------------------------------------
(* Events and what posting and taking them does.                           *)
LEMMA EventTypes ==
  /\ \A id \in EventId : Plain(id) \in Event /\ Plain(id).id = id
  /\ \A r \in Nat : /\ Disconnected(r) \in Event /\ Disconnected(r).reason = r
                    /\ Disconnected(r).id = "STA_DISCONNECTED"
  BY DEF Plain, Disconnected, Event, EventId

LEMMA EventFields ==
  ASSUME NEW e \in Event PROVE e.id \in EventId /\ e.reason \in Nat
  BY DEF Event

LEMMA LatestType == ASSUME TypeOK PROVE Latest \in Event /\ Len(posted) \in Nat
  BY DEF TypeOK, Latest

LEMMA Posts ==
  ASSUME TypeOK, NEW e \in Event, posted' = Append(posted, e), slot' = slot
  PROVE  /\ posted' \in Seq(Event) /\ Len(posted') = Len(posted) + 1 /\ Latest' = e
         /\ posted'[Len(posted')] = e /\ Len(posted) \in Nat
         /\ \A i \in 1..Len(posted) : posted'[i] = posted[i]
         /\ \A i \in 1..Len(posted') : i \in 1..Len(posted) \/ (i = Len(posted') /\ posted'[i] = e)
         /\ Len(posted) >= 1 => posted'[Len(posted') - 1] = Latest
  BY DEF TypeOK, Latest

LEMMA FailureFacts ==
  ASSUME TypeOK, NEW r \in Nat, Failure(r)
  PROVE  /\ faults' \in Fault /\ faults'.reason = r
         /\ faults'.up <=> radio \in {"up", "noip"}
         /\ faults'.risky <=> faults.risky \/ Unretried(r) \/ r = AUTH_EXPIRE
<1>1. /\ faults.risky \in BOOLEAN /\ (radio \in {"up", "noip"}) \in BOOLEAN
      /\ (faults.risky \/ Unretried(r) \/ r = AUTH_EXPIRE) \in BOOLEAN
      /\ faults.count \in Nat /\ faults.count + 1 \in 0..MaxFaults
  BY QueueAssumption DEF TypeOK, Fault, Failure
<1> QED BY <1>1 DEF Failure, Fault

LEMMA Retried ==
  ASSUME NEW r \in Nat, r # 0, ~Unretried(r), r # AUTH_EXPIRE PROVE Reconnects(r)
  BY DEF Reconnects, Unretried, BEACON_TIMEOUT, AUTH_EXPIRE, AUTH_FAIL

LEMMA StationInit == ASSUME Init PROVE StationInv
<1>1. slot \in Event /\ slot.id = "STA_STOP"
  BY EventTypes DEF Init, EventId
<1>2. NoFault \in Fault
  BY QueueAssumption DEF NoFault, Fault
<1>3. TypeOK
  <2>1. sending \in BOOLEAN /\ faults \in Fault
    BY <1>2 DEF Init
  <2> QED BY <1>1, <2>1, QueueAssumption DEF Init, TypeOK, WLStatus, Linked
<1>4. LatestInv /\ CallersInv /\ StatusInv
  BY <1>1 DEF Init, LatestInv, CallersInv, StatusInv, Latest, InSlot
<1>5. EventsInv /\ RiskInv
  BY <1>1 DEF Init, EventsInv, RiskInv, Mild
<1>6. OrderInv /\ FaultInv
  BY <1>1 DEF Init, OrderInv, FaultInv, Latest, InSlot
<1> QED BY <1>3, <1>4, <1>5, <1>6 DEF StationInv

(* While no event is overtaken, a disconnection that is being handled is   *)
(* the last event.                                                         *)
LEMMA HandledAlone ==
  ASSUME StationInv, reuse = "none", handler # "idle"
  PROVE  /\ radio \in {"idle", "off"} /\ ~InSlot /\ slot.id = "STA_DISCONNECTED"
         /\ handler \in {"reason", "disable"} =>
              Len(posted) = 0 /\ Latest = slot /\ radio = "idle"
<1>1. ~InSlot /\ slot.id = "STA_DISCONNECTED"
  BY DEF StationInv, TypeOK, OrderInv, InSlot, StatusInv
<1>2. CASE handler \in {"reason", "disable"}
  <2>1. Len(posted) = 0 /\ Latest = slot
    BY <1>1, <1>2 DEF StationInv, OrderInv, Latest
  <2> QED BY <1>1, <1>2, <2>1 DEF StationInv, TypeOK, LatestInv, Linked
<1>3. CASE handler \in {"enable", "begin"}
  BY <1>1, <1>3 DEF StationInv, CallersInv
<1> QED BY <1>2, <1>3 DEF StationInv, TypeOK

(* The driver reports e, which may be a failure.                           *)
LEMMA DriverStep ==
  ASSUME StationInv, NEW e \in Event, posted' = Append(posted, e),
         UNCHANGED <<queued, setup, slot, sending, reuse, handler, status>>,
         radio \in Linked \cup {"connecting"}, radio' \in Linked \cup {"idle"},
         radio' = "assoc" => e.id = "STA_CONNECTED",
         radio' = "up" => e.id = "STA_GOT_IP", radio' = "noip" => e.id = "STA_LOST_IP",
         radio' = "idle" =>
           /\ e.id = "STA_DISCONNECTED" /\ e.reason = faults'.reason /\ e.reason # 0
           /\ faults'.up <=> radio \in {"up", "noip"}
           /\ Unretried(e.reason) \/ e.reason = AUTH_EXPIRE => faults'.risky,
         faults' \in Fault, faults.risky => faults'.risky
  PROVE  StationInv'
<1>1. /\ posted' \in Seq(Event) /\ Len(posted') = Len(posted) + 1 /\ Latest' = e
      /\ posted'[Len(posted')] = e /\ Len(posted) \in Nat
      /\ \A i \in 1..Len(posted) : posted'[i] = posted[i]
      /\ \A i \in 1..Len(posted') : i \in 1..Len(posted) \/ (i = Len(posted') /\ posted'[i] = e)
      /\ Len(posted) >= 1 => posted'[Len(posted') - 1] = Latest
  BY Posts DEF StationInv
<1>2. e.id \in EventId /\ e.reason \in Nat
  BY EventFields
<1>3. radio' \in {"idle", "assoc", "up", "noip"} /\ radio \in {"assoc", "up", "noip", "connecting"}
  BY DEF Linked
<1>4. TypeOK'
  <2>1. sending' \in BOOLEAN
    BY DEF StationInv, TypeOK
  <2> QED BY <1>1, <2>1 DEF StationInv, TypeOK
<1>5. LatestInv'
  BY <1>1, <1>3 DEF LatestInv
<1>6. CallersInv'
  BY <1>1, <1>3 DEF StationInv, CallersInv, InSlot
<1>7. StatusInv'
  BY <1>1 DEF StationInv, StatusInv, InSlot
<1>8. EventsInv'
  <2>1. e.id = "STA_DISCONNECTED" /\ ~faults'.risky =>
          Reconnects(e.reason) /\ e.reason # AUTH_EXPIRE
    BY <1>2, <1>3, Retried
  <2>2. ~faults'.risky => Mild(e)
    BY <2>1 DEF Mild
  <2>3. \A i \in 1..Len(posted') : ~faults'.risky => Mild(posted'[i])
    BY <1>1, <2>2 DEF StationInv, EventsInv
  <2> QED BY <2>3 DEF StationInv, EventsInv
<1>9. RiskInv'
  <2>1. e.id = "STA_DISCONNECTED" /\ ~faults'.risky => Reconnects(e.reason)
    BY <1>2, <1>3, Retried
  <2> QED BY <1>1, <2>1 DEF StationInv, RiskInv
<1>10. OrderInv'
  <2>1. reuse = "none" => Latest.id # "STA_DISCONNECTED" /\ handler = "idle"
    BY <1>3, HandledAlone DEF StationInv, LatestInv
  <2>2. reuse = "none" /\ Len(posted) > 0 => posted[Len(posted)].id # "STA_DISCONNECTED"
    BY <2>1 DEF Latest
  <2>3. reuse = "none" /\ Len(posted) = 0 => slot.id # "STA_DISCONNECTED"
    BY <2>1 DEF Latest
  <2> QED BY <1>1, <2>1, <2>2, <2>3 DEF StationInv, OrderInv, InSlot
<1>11. FaultInv'
  <2>1. reuse = "none" => handler = "idle"
    BY <1>3, HandledAlone
  <2>2. ASSUME reuse = "none", e.id = "STA_DISCONNECTED", ~faults'.up
        PROVE  /\ Len(posted') >= 2 => posted'[Len(posted') - 1].id # "STA_GOT_IP"
               /\ Len(posted') = 1 /\ InSlot => slot.id # "STA_GOT_IP"
               /\ Len(posted') = 1 /\ ~InSlot => status # "WL_CONNECTED"
    <3>1. Latest.id \notin {"STA_GOT_IP", "STA_DISCONNECTED"}
      BY <1>3, <2>2 DEF StationInv, LatestInv
    <3>2. Len(posted') = 1 => Latest = slot
      BY <1>1 DEF Latest
    <3>3. Len(posted') = 1 /\ ~InSlot => status # "WL_CONNECTED"
      BY <3>1, <3>2 DEF StationInv, StatusInv
    <3> QED BY <1>1, <3>1, <3>2, <3>3
  <2>3. radio' = "idle" <=> e.id = "STA_DISCONNECTED"
    BY <1>3
  <2>4. InSlot' = InSlot
    BY DEF InSlot
  <2> QED BY <1>1, <2>1, <2>2, <2>3, <2>4 DEF FaultInv
<1> QED BY <1>4, <1>5, <1>6, <1>7, <1>8, <1>9, <1>10, <1>11 DEF StationInv

LEMMA DriverActions ==
  ASSUME StationInv, Associate \/ GotIp \/ LoseIp \/ \E r \in Reasons : Fail(r)
  PROVE  StationInv'
<1>0. faults \in Fault
  BY DEF StationInv, TypeOK
<1>1. CASE Associate
  <2>1. Plain("STA_CONNECTED") \in Event /\ Plain("STA_CONNECTED").id = "STA_CONNECTED"
    BY EventTypes DEF EventId
  <2> QED BY <1>0, <1>1, <2>1, DriverStep DEF Associate, loopVars, coreVars, Linked
<1>2. CASE GotIp
  <2>1. Plain("STA_GOT_IP") \in Event /\ Plain("STA_GOT_IP").id = "STA_GOT_IP"
    BY EventTypes DEF EventId
  <2> QED BY <1>0, <1>2, <2>1, DriverStep DEF GotIp, loopVars, coreVars, Linked
<1>3. CASE LoseIp
  <2>1. Plain("STA_LOST_IP") \in Event /\ Plain("STA_LOST_IP").id = "STA_LOST_IP"
    BY EventTypes DEF EventId
  <2>2. faults' \in Fault /\ (faults.risky => faults'.risky)
    BY <1>3, FailureFacts DEF LoseIp, StationInv
  <2> QED BY <1>3, <2>1, <2>2, DriverStep DEF LoseIp, loopVars, coreVars, Linked
<1>4. ASSUME NEW r \in Reasons, Fail(r) PROVE StationInv'
  <2>1. r \in Nat /\ r # 0
    BY ReasonAssumption
  <2>2. /\ Disconnected(r) \in Event /\ Disconnected(r).reason = r
        /\ Disconnected(r).id = "STA_DISCONNECTED"
    BY <2>1, EventTypes
  <2>3. /\ faults' \in Fault /\ faults'.reason = r
        /\ faults'.up <=> radio \in {"up", "noip"}
        /\ faults'.risky <=> faults.risky \/ Unretried(r) \/ r = AUTH_EXPIRE
    BY <1>4, <2>1, FailureFacts DEF Fail, StationInv
  <2>4. /\ radio \in Linked \cup {"connecting"} /\ radio' = "idle"
        /\ posted' = Append(posted, Disconnected(r))
        /\ UNCHANGED <<queued, setup, slot, sending, reuse, handler, status>>
    BY <1>4 DEF Fail, loopVars, coreVars
  <2> QED BY <2>1, <2>2, <2>3, <2>4, DriverStep
<1> QED BY <1>1, <1>2, <1>3, <1>4

-----------------------------------------------------------------------------
(* The event loop task.                                                    *)
LEMMA TakeStep == ASSUME StationInv, TakeEvent PROVE StationInv'
<1>1. /\ ~sending /\ Len(posted) > 0 /\ Len(posted) \in Nat /\ posted \in Seq(Event)
      /\ slot' = Head(posted) /\ posted' = Tail(posted) /\ sending' = TRUE
      /\ UNCHANGED <<radio, faults, queued, setup, handler, status>>
  BY DEF TakeEvent, coreVars, StationInv, TypeOK
<1>2. reuse' = IF reuse = "none" /\ (queued > 0 \/ handler # "idle") THEN "overtaken" ELSE reuse
  BY DEF TakeEvent
<1>3. /\ slot' = posted[1] /\ slot' \in Event /\ posted' \in Seq(Event)
      /\ Len(posted') = Len(posted) - 1
      /\ \A i \in 1..Len(posted') : i + 1 \in 1..Len(posted) /\ posted'[i] = posted[i + 1]
  BY <1>1
<1>4. Latest' = Latest
  BY <1>1, <1>3 DEF Latest
<1>5. InSlot'
  BY <1>1 DEF InSlot
<1>6. TypeOK'
  <2>1. sending' \in BOOLEAN
    BY <1>1
  <2> QED BY <1>1, <1>2, <1>3, <2>1 DEF StationInv, TypeOK
<1>7. LatestInv'
  BY <1>1, <1>4 DEF StationInv, LatestInv
<1>8. CallersInv'
  <2>1. setup # "enable"
    BY <1>1 DEF StationInv, CallersInv
  <2>2. 1 \in 1..Len(posted)
    BY <1>1
  <2> QED BY <1>1, <1>3, <1>4, <2>1, <2>2 DEF StationInv, CallersInv
<1>9. StatusInv'
  BY <1>5 DEF StatusInv
<1>10. EventsInv'
  <2>1. 1 \in 1..Len(posted)
    BY <1>1
  <2> QED BY <1>1, <1>3, <2>1 DEF StationInv, EventsInv
<1>11. RiskInv'
  BY <1>1, <1>2, <1>4, <1>5 DEF StationInv, RiskInv
<1>12. reuse' = "none" => reuse = "none" /\ queued = 0 /\ handler = "idle" /\ ~InSlot
  BY <1>1, <1>2 DEF StationInv, TypeOK, InSlot
<1>13. OrderInv'
  <2> SUFFICES ASSUME reuse' = "none" PROVE OrderInv'
    BY DEF OrderInv
  <2>1. \A i \in 1..Len(posted) : posted[i].id = "STA_DISCONNECTED" => i = Len(posted)
    BY <1>12 DEF StationInv, OrderInv
  <2>0. Len(posted) \in Nat /\ Len(posted') = Len(posted) - 1 /\ slot' = posted[1]
        /\ 1 \in 1..Len(posted)
    BY <1>1, <1>3
  <2>2. ASSUME slot'.id = "STA_DISCONNECTED" PROVE Len(posted') = 0
    <3>1. Len(posted) = 1
      BY <2>0, <2>1, <2>2
    <3>2. Len(posted') = 1 - 1
      BY <2>0, <3>1
    <3> QED BY <3>2
  <2>3. ASSUME NEW i \in 1..Len(posted'), posted'[i].id = "STA_DISCONNECTED"
        PROVE  i = Len(posted')
    <3>1. i + 1 = Len(posted)
      BY <1>3, <2>1, <2>3
    <3>2. i \in Nat
      BY <2>0
    <3> QED BY <2>0, <3>1, <3>2
  <2>4. queued' = 0 /\ handler' = "idle"
    BY <1>1, <1>12
  <2> QED BY <2>2, <2>3, <2>4 DEF OrderInv
<1>14. FaultInv'
  <2> SUFFICES ASSUME reuse' = "none" PROVE FaultInv'
    BY DEF FaultInv
  <2>1. ASSUME Latest'.id = "STA_DISCONNECTED", ~faults'.up
        PROVE  /\ Len(posted') >= 2 => posted'[Len(posted') - 1].id # "STA_GOT_IP"
               /\ Len(posted') = 1 => slot'.id # "STA_GOT_IP"
               /\ Len(posted') = 0 => status' # "WL_CONNECTED"
    <3>1. /\ Len(posted) >= 2 => posted[Len(posted) - 1].id # "STA_GOT_IP"
          /\ Len(posted) = 1 => status # "WL_CONNECTED"
      BY <1>1, <1>4, <1>12, <2>1 DEF StationInv, FaultInv
    <3>2. Len(posted') >= 2 => Len(posted') - 1 \in 1..Len(posted')
                               /\ posted'[Len(posted') - 1] = posted[Len(posted) - 1]
      BY <1>1, <1>3
    <3> QED BY <1>1, <1>3, <3>1, <3>2
  <2>2. /\ Latest.id = "STA_DISCONNECTED" => Latest.reason = faults.reason
        /\ radio = "idle" /\ setup \in {"wait", "done"} /\ Latest.id = "STA_START"
             /\ handler # "begin" => Expired
    BY <1>12 DEF StationInv, FaultInv
  <2>3. Expired' = Expired
    BY <1>1 DEF Expired
  <2> QED BY <1>1, <1>4, <1>5, <1>12, <2>1, <2>2, <2>3 DEF FaultInv
<1> QED BY <1>6, <1>7, <1>8, <1>9, <1>10, <1>11, <1>13, <1>14 DEF StationInv

LEMMA QueueStep == ASSUME StationInv, NetworkEventCb PROVE StationInv'
<1>1. /\ sending /\ queued < QueueLen /\ queued' = queued + 1 /\ sending' = FALSE
      /\ queued \in Nat
      /\ UNCHANGED <<slot, reuse, setup, radio, posted, faults, handler, status>>
  BY QueueAssumption DEF NetworkEventCb, driverVars, coreVars, StationInv, TypeOK
<1>2. InSlot /\ InSlot' /\ Latest' = Latest
  BY <1>1 DEF InSlot, Latest
<1>3. TypeOK'
  <2>1. sending' \in BOOLEAN
    BY <1>1
  <2> QED BY <1>1, <2>1, QueueAssumption DEF StationInv, TypeOK
<1>4. LatestInv' /\ CallersInv' /\ StatusInv' /\ EventsInv' /\ RiskInv'
  BY <1>1, <1>2 DEF StationInv, LatestInv, CallersInv, StatusInv, EventsInv, RiskInv
<1>5. OrderInv'
  BY <1>1, <1>2 DEF StationInv, OrderInv
<1>6. FaultInv'
  BY <1>1, <1>2 DEF StationInv, FaultInv, Expired
<1> QED BY <1>3, <1>4, <1>5, <1>6 DEF StationInv

-----------------------------------------------------------------------------
(* The network_event task.                                                 *)
LEMMA StatusType ==
  /\ \A id \in EventId \ {"STA_DISCONNECTED"} :
       StatusAfter[id] \in WLStatus /\ (StatusAfter[id] = "WL_CONNECTED" <=> id = "STA_GOT_IP")
  /\ \A r \in Nat : StatusFor(r) \in WLStatus \cup {status}
  /\ \A r \in Nat : r # AUTH_EXPIRE => StatusFor(r) # "WL_CONNECTED"
<1>1. \A id \in EventId \ {"STA_DISCONNECTED"} :
        StatusAfter[id] \in WLStatus /\ (StatusAfter[id] = "WL_CONNECTED" <=> id = "STA_GOT_IP")
  BY DEF StatusAfter, EventId, WLStatus
<1>2. ASSUME NEW r \in Nat
      PROVE  /\ StatusFor(r) \in WLStatus \cup {status}
             /\ r # AUTH_EXPIRE => StatusFor(r) # "WL_CONNECTED"
  BY DEF StatusFor, WLStatus, NO_AP_FOUND, AUTH_FAIL, ASSOC_FAIL, BEACON_TIMEOUT,
         HANDSHAKE_TIMEOUT, AUTH_EXPIRE
<1> QED BY <1>1, <1>2

LEMMA CallbackStep == ASSUME StationInv, EventCallback PROVE StationInv'
<1>0. slot.id \in EventId /\ queued \in Nat /\ sending \in BOOLEAN
  BY EventFields, QueueAssumption DEF StationInv, TypeOK
<1>1. /\ handler = "idle" /\ queued > 0 /\ queued' = queued - 1
      /\ UNCHANGED <<setup, radio, posted, faults, slot, sending, reuse>>
  BY DEF EventCallback, driverVars, loopVars
<1>2. Latest' = Latest /\ InSlot /\ setup # "enable"
  BY <1>1 DEF InSlot, Latest, StationInv, CallersInv
<1>3. LatestInv' /\ EventsInv'
  BY <1>1, <1>2 DEF StationInv, LatestInv, EventsInv
<1>4. CASE slot.id = "STA_DISCONNECTED"
  <2>1. handler' = "reason" /\ status' = status
    BY <1>4 DEF EventCallback
  <2>2. TypeOK'
    BY <1>0, <1>1, <2>1, QueueAssumption DEF StationInv, TypeOK
  <2>3. CallersInv'
    BY <1>1, <1>2, <1>4, <2>1 DEF StationInv, CallersInv
  <2>4. StatusInv' /\ RiskInv'
    BY <1>1, <1>2, <1>4, <2>1 DEF StationInv, StatusInv, RiskInv
  <2>5. OrderInv'
    BY <1>0, <1>1, <1>2, <1>4, <2>1 DEF StationInv, OrderInv, InSlot
  <2>6. FaultInv'
    BY <1>0, <1>1, <1>2, <1>4, <2>1 DEF StationInv, FaultInv, OrderInv, Expired
  <2> QED BY <1>3, <2>2, <2>3, <2>4, <2>5, <2>6 DEF StationInv
<1>5. CASE slot.id # "STA_DISCONNECTED"
  <2>1. /\ handler' = "idle" /\ status' = StatusAfter[slot.id] /\ status' \in WLStatus
        /\ status' = "WL_CONNECTED" <=> slot.id = "STA_GOT_IP"
    BY <1>0, <1>1, <1>5, StatusType DEF EventCallback
  <2>2. TypeOK'
    BY <1>0, <1>1, <2>1, QueueAssumption DEF StationInv, TypeOK
  <2>3. CallersInv'
    BY <1>1, <1>2, <2>1 DEF StationInv, CallersInv
  <2>4. StatusInv'
    BY <1>1, <1>5, <2>1 DEF StatusInv
  <2>l. Latest.id = "STA_DISCONNECTED" => Len(posted) > 0
    BY <1>5 DEF Latest
  <2>5. RiskInv'
    BY <1>1, <1>2, <2>1, <2>l DEF StationInv, RiskInv
  <2>6. OrderInv'
    BY <1>0, <1>1, <1>2, <1>5, <2>1 DEF StationInv, OrderInv
  <2>7. FaultInv'
    BY <1>0, <1>1, <1>2, <1>5, <2>1, <2>l DEF StationInv, FaultInv, OrderInv, Expired
  <2> QED BY <1>3, <2>2, <2>3, <2>4, <2>5, <2>6, <2>7 DEF StationInv
<1> QED BY <1>4, <1>5

LEMMA ReasonStep ==
  ASSUME StationInv, NEW r \in Reasons, HandleDisconnected(r) PROVE StationInv'
<1>0. /\ r \in Nat /\ r # 0 /\ slot \in Event /\ status \in WLStatus /\ sending \in BOOLEAN
      /\ Len(posted) \in Nat
  BY ReasonAssumption DEF StationInv, TypeOK
<1>1. /\ handler = "reason"
      /\ slot.id = "STA_DISCONNECTED" => r = slot.reason
      /\ reuse' = IF slot.id = "STA_DISCONNECTED" THEN reuse ELSE "torn"
      /\ status' = StatusFor(r) /\ handler' = IF Reconnects(r) THEN "disable" ELSE "idle"
      /\ UNCHANGED <<slot, sending, queued, setup, radio, posted, faults>>
  BY DEF HandleDisconnected, driverVars
<1>2. Latest' = Latest /\ InSlot' = InSlot /\ setup \in {"wait", "done"}
  BY <1>1 DEF InSlot, Latest, StationInv, CallersInv, TypeOK
<1>3. /\ status' \in WLStatus
      /\ status' = "WL_CONNECTED" => r = AUTH_EXPIRE /\ status = "WL_CONNECTED"
      /\ ~Reconnects(r) => r # AUTH_EXPIRE
  BY <1>0, <1>1, StatusType DEF StatusFor, Reconnects
<1>4. TypeOK'
  BY <1>0, <1>1, <1>3 DEF StationInv, TypeOK
<1>5. LatestInv' /\ CallersInv' /\ EventsInv'
  BY <1>1, <1>2 DEF StationInv, LatestInv, CallersInv, EventsInv
<1>6. StatusInv'
  BY <1>1, <1>2, <1>3 DEF StationInv, StatusInv
<1>7. RiskInv'
  <2> SUFFICES ASSUME ~faults'.risky, reuse' # "torn" PROVE RiskInv'
    BY DEF RiskInv
  <2>1. slot.id = "STA_DISCONNECTED" /\ r = slot.reason
    BY <1>1
  <2>2. r # AUTH_EXPIRE
    BY <1>1, <2>1 DEF StationInv, EventsInv, Mild, ASSOC_LEAVE, AUTH_EXPIRE
  <2>3. Len(posted) = 0 => Latest = slot
    BY <1>0 DEF Latest
  <2> QED BY <1>0, <1>1, <1>2, <1>3, <2>1, <2>2, <2>3 DEF StationInv, RiskInv
<1>8. OrderInv'
  BY <1>1, <1>2 DEF StationInv, OrderInv
<1>9. FaultInv'
  <2> SUFFICES ASSUME reuse' = "none" PROVE FaultInv'
    BY DEF FaultInv
  <2>1. /\ reuse = "none" /\ slot.id = "STA_DISCONNECTED" /\ r = slot.reason
        /\ ~InSlot /\ Len(posted) = 0 /\ Latest = slot /\ r = faults.reason
    <3>1. reuse = "none"
      BY <1>1
    <3>2. /\ slot.id = "STA_DISCONNECTED" /\ ~InSlot /\ Len(posted) = 0 /\ Latest = slot
      BY <1>1, <3>1, HandledAlone
    <3> QED BY <1>1, <3>1, <3>2 DEF StationInv, FaultInv
  <2>2. ~Reconnects(r) => Unretried(r)
    BY <1>0, Retried DEF Reconnects
  <2>3. status = "WL_CONNECTED" => faults.up
    BY <2>1 DEF StationInv, FaultInv
  <2>4. status' = "WL_CONNECTED" => Expired'
    BY <1>1, <1>3, <2>1, <2>3 DEF Expired
  <2> QED BY <1>0, <1>1, <1>2, <1>3, <2>1, <2>2, <2>3, <2>4 DEF FaultInv
<1> QED BY <1>4, <1>5, <1>6, <1>7, <1>8, <1>9 DEF StationInv

LEMMA DisablePosts ==
  ASSUME TypeOK, DisableSTA, radio # "off", slot' = slot
  PROVE  /\ posted' \in Seq(Event) /\ Len(posted') > 0 /\ Latest'.id = "STA_STOP"
         /\ \A i \in 1..Len(posted') :
              \/ i \in 1..Len(posted) /\ posted'[i] = posted[i]
              \/ posted'[i] \in {Disconnected(ASSOC_LEAVE), Plain("STA_STOP")}
         /\ radio \notin Linked => posted' = Append(posted, Plain("STA_STOP"))
<1> DEFINE d == Disconnected(ASSOC_LEAVE)  stop == Plain("STA_STOP")
<1>1. d \in Event /\ stop \in Event /\ stop.id = "STA_STOP"
  BY EventTypes DEF EventId, ASSOC_LEAVE
<1>2. /\ posted \in Seq(Event)
      /\ posted' = posted \o (IF radio \in Linked THEN <<d>> ELSE <<>>) \o <<stop>>
  BY DEF TypeOK, DisableSTA
<1> HIDE DEF d, stop
<1>3. CASE radio \in Linked
  <2>1. /\ posted' \in Seq(Event) /\ Len(posted') = Len(posted) + 2
        /\ posted'[Len(posted) + 1] = d /\ posted'[Len(posted) + 2] = stop
        /\ \A i \in 1..Len(posted) : posted'[i] = posted[i]
    BY <1>1, <1>2, <1>3
  <2>2. Latest' = stop /\ Len(posted') > 0
    BY <1>2, <2>1 DEF Latest
  <2>3. ASSUME NEW i \in 1..Len(posted')
        PROVE  i \in 1..Len(posted) \/ i = Len(posted) + 1 \/ i = Len(posted) + 2
    BY <1>2, <2>1
  <2> QED BY <1>1, <1>3, <2>1, <2>2, <2>3 DEF d, stop
<1>4. CASE radio \notin Linked
  <2>1. posted' = Append(posted, stop)
    BY <1>1, <1>2, <1>4
  <2> QED BY <1>1, <2>1, <1>4, Posts DEF stop
<1> QED BY <1>3, <1>4

LEMMA DisablesStep == ASSUME StationInv, HandlerDisables PROVE StationInv'
<1>1. /\ handler = "disable" /\ handler' = "enable" /\ DisableSTA
      /\ UNCHANGED <<faults, queued, status, setup, slot, sending, reuse>>
  BY DEF HandlerDisables, loopVars
<1>2. radio # "off" /\ setup \in {"wait", "done"}
  BY <1>1 DEF StationInv, CallersInv, TypeOK
<1>3. radio' = "off" /\ InSlot' = InSlot
  BY <1>1, <1>2 DEF DisableSTA, InSlot
<1>4. /\ posted' \in Seq(Event) /\ Len(posted') > 0 /\ Latest'.id = "STA_STOP"
      /\ \A i \in 1..Len(posted') :
           \/ i \in 1..Len(posted) /\ posted'[i] = posted[i]
           \/ posted'[i] \in {Disconnected(ASSOC_LEAVE), Plain("STA_STOP")}
      /\ radio \notin Linked => posted' = Append(posted, Plain("STA_STOP"))
  BY <1>1, <1>2, DisablePosts DEF StationInv
<1>5. TypeOK'
  <2>1. sending' \in BOOLEAN
    BY <1>1 DEF StationInv, TypeOK
  <2> QED BY <1>1, <1>3, <1>4, <2>1 DEF StationInv, TypeOK
<1>6. LatestInv' /\ CallersInv'
  BY <1>1, <1>2, <1>3, <1>4 DEF LatestInv, CallersInv
<1>7. StatusInv' /\ RiskInv'
  BY <1>1, <1>3, <1>4 DEF StationInv, StatusInv, RiskInv
<1>8. EventsInv'
  <2>1. Mild(Disconnected(ASSOC_LEAVE)) /\ Mild(Plain("STA_STOP"))
    BY EventTypes DEF EventId, ASSOC_LEAVE, Mild
  <2> QED BY <1>1, <1>4, <2>1 DEF StationInv, EventsInv
<1>9. reuse' = "none" =>
        /\ reuse = "none" /\ ~InSlot
        /\ Len(posted') = 1 /\ posted'[1].id = "STA_STOP"
  <2> SUFFICES ASSUME reuse = "none"
               PROVE  ~InSlot /\ Len(posted') = 1 /\ posted'[1].id = "STA_STOP"
    BY <1>1
  <2>1. radio = "idle" /\ ~InSlot /\ Len(posted) = 0
    BY <1>1, HandledAlone
  <2>2. posted' = Append(posted, Plain("STA_STOP")) /\ Plain("STA_STOP") \in Event
    BY <1>4, <2>1, EventTypes DEF Linked, EventId
  <2>3. Len(posted') = 1
    BY <2>1, <2>2 DEF StationInv, TypeOK
  <2> QED BY <1>4, <2>1, <2>3 DEF Latest
<1>10. OrderInv'
  <2> SUFFICES ASSUME reuse' = "none" PROVE OrderInv'
    BY DEF OrderInv
  <2>1. queued' <= 1 /\ queued' = 0 /\ ~InSlot' /\ ~sending'
    BY <1>1, <1>3, <1>9 DEF StationInv, OrderInv, InSlot
  <2>2. ASSUME NEW i \in 1..Len(posted') PROVE posted'[i].id # "STA_DISCONNECTED"
    <3>1. Len(posted') = 1 /\ posted'[1].id = "STA_STOP"
      BY <1>9
    <3>2. i \in 1..1
      BY <3>1
    <3> QED BY <3>1, <3>2
  <2> QED BY <1>1, <2>1, <2>2 DEF OrderInv
<1>11. FaultInv'
  BY <1>1, <1>3, <1>4, <1>9 DEF StationInv, FaultInv, Expired
<1> QED BY <1>5, <1>6, <1>7, <1>8, <1>10, <1>11 DEF StationInv

LEMMA EnablesStep == ASSUME StationInv, HandlerEnables PROVE StationInv'
<1> DEFINE e == Plain("STA_START")
<1>1. /\ handler = "enable" /\ handler' = "begin" /\ EnableSTA
      /\ UNCHANGED <<faults, queued, status, setup, slot, sending, reuse>>
  BY DEF HandlerEnables, loopVars
<1>2. radio = "off" /\ setup \in {"wait", "done"}
  BY <1>1 DEF StationInv, CallersInv, TypeOK
<1>3. /\ radio' = "idle" /\ InSlot' = InSlot /\ posted' = Append(posted, e)
      /\ e \in Event /\ e.id = "STA_START"
  BY <1>1, <1>2, EventTypes DEF EnableSTA, InSlot, EventId
<1> HIDE DEF e
<1>4. /\ posted' \in Seq(Event) /\ Len(posted') = Len(posted) + 1 /\ Latest' = e
      /\ Len(posted) \in Nat
      /\ \A i \in 1..Len(posted) : posted'[i] = posted[i]
      /\ \A i \in 1..Len(posted') : i \in 1..Len(posted) \/ (i = Len(posted') /\ posted'[i] = e)
  BY <1>1, <1>3, Posts DEF StationInv
<1>5. TypeOK'
  <2>1. sending' \in BOOLEAN
    BY <1>1 DEF StationInv, TypeOK
  <2> QED BY <1>1, <1>3, <1>4, <2>1 DEF StationInv, TypeOK
<1>6. LatestInv' /\ CallersInv'
  BY <1>1, <1>2, <1>3, <1>4 DEF LatestInv, CallersInv
<1>7. StatusInv' /\ RiskInv'
  BY <1>1, <1>3, <1>4 DEF StationInv, StatusInv, RiskInv
<1>8. EventsInv'
  BY <1>1, <1>3, <1>4 DEF StationInv, EventsInv, Mild
<1>9. OrderInv'
  <2> SUFFICES ASSUME reuse = "none" PROVE OrderInv'
    BY <1>1 DEF OrderInv
  <2>1. ~InSlot /\ queued <= 1 /\ (sending => queued = 0) /\ queued = 0
    BY <1>1, HandledAlone DEF StationInv, OrderInv
  <2>2. \A i \in 1..Len(posted) : posted[i].id # "STA_DISCONNECTED"
    <3>1. Len(posted) > 0 => posted[Len(posted)].id = "STA_STOP"
      BY <1>2 DEF StationInv, LatestInv, Latest
    <3> QED BY <1>4, <3>1 DEF StationInv, OrderInv
  <2>3. \A i \in 1..Len(posted') : posted'[i].id # "STA_DISCONNECTED"
    BY <1>3, <1>4, <2>2
  <2> QED BY <1>1, <1>3, <2>1, <2>3 DEF OrderInv, InSlot
<1>10. FaultInv'
  BY <1>1, <1>3, <1>4 DEF StationInv, FaultInv, Expired
<1> QED BY <1>5, <1>6, <1>7, <1>8, <1>9, <1>10 DEF StationInv

LEMMA BeginsStep == ASSUME StationInv, HandlerBegins PROVE StationInv'
<1>1. /\ handler = "begin" /\ handler' = "idle"
      /\ UNCHANGED <<posted, faults, queued, status, setup, slot, sending, reuse>>
  BY DEF HandlerBegins, loopVars
<1>2. radio = "idle" /\ Latest.id = "STA_START" /\ setup \in {"wait", "done"}
  BY <1>1 DEF StationInv, CallersInv, TypeOK
<1>3. /\ radio' \in {"idle", "connecting"} /\ InSlot' = InSlot /\ Latest' = Latest
      /\ radio' = "idle" => status = "WL_CONNECTED"
  BY <1>1, <1>2 DEF HandlerBegins, Connect, InSlot, Latest
<1>4. TypeOK'
  BY <1>1, <1>3 DEF StationInv, TypeOK
<1>5. LatestInv' /\ CallersInv'
  BY <1>1, <1>2, <1>3 DEF LatestInv, CallersInv
<1>6. StatusInv'
  BY <1>1, <1>3 DEF StationInv, StatusInv
<1>7. EventsInv' /\ RiskInv'
  BY <1>1, <1>3 DEF StationInv, EventsInv, RiskInv
<1>8. OrderInv'
  <2> SUFFICES ASSUME reuse = "none" PROVE OrderInv'
    BY <1>1 DEF OrderInv
  <2>1. ~InSlot
    BY <1>1, HandledAlone
  <2> QED BY <1>1, <1>3, <2>1 DEF StationInv, OrderInv
<1>9. FaultInv'
  BY <1>1, <1>2, <1>3 DEF StationInv, FaultInv, Expired
<1> QED BY <1>4, <1>5, <1>6, <1>7, <1>8, <1>9 DEF StationInv

-----------------------------------------------------------------------------
(* The sketch.                                                             *)
LEMMA SetupEnablesStep == ASSUME StationInv, SetupEnables PROVE StationInv'
<1> DEFINE e == Plain("STA_START")
<1>1. /\ setup = "enable" /\ setup' = "connect" /\ EnableSTA
      /\ UNCHANGED <<faults, queued, status, handler, slot, sending, reuse>>
  BY DEF SetupEnables, loopVars, coreVars
<1>2. /\ radio = "off" /\ handler = "idle" /\ ~InSlot /\ Len(posted) = 0
      /\ status # "WL_CONNECTED" /\ slot.id = "STA_STOP"
  BY <1>1 DEF StationInv, CallersInv, LatestInv, Latest
<1>3. /\ radio' = "idle" /\ InSlot' = InSlot /\ posted' = Append(posted, e)
      /\ e \in Event /\ e.id = "STA_START"
  BY <1>1, <1>2, EventTypes DEF EnableSTA, InSlot, EventId
<1> HIDE DEF e
<1>4. /\ posted' \in Seq(Event) /\ Len(posted') = 1 /\ Latest' = e /\ posted'[1] = e
  BY <1>1, <1>2, <1>3, Posts DEF StationInv
<1>5. TypeOK'
  <2>1. sending' \in BOOLEAN
    BY <1>1 DEF StationInv, TypeOK
  <2> QED BY <1>1, <1>3, <1>4, <2>1 DEF StationInv, TypeOK
<1>6. LatestInv' /\ CallersInv' /\ StatusInv' /\ RiskInv'
  BY <1>1, <1>2, <1>3, <1>4 DEF LatestInv, CallersInv, StatusInv, RiskInv
<1>7. EventsInv'
  BY <1>1, <1>2, <1>3, <1>4 DEF StationInv, EventsInv, Mild
<1>8. OrderInv'
  BY <1>1, <1>2, <1>3, <1>4 DEF StationInv, OrderInv
<1>9. FaultInv'
  BY <1>1, <1>2, <1>3, <1>4 DEF FaultInv
<1> QED BY <1>5, <1>6, <1>7, <1>8, <1>9 DEF StationInv

LEMMA SetupConnectsStep ==
  ASSUME StationInv, NEW same \in BOOLEAN, SetupConnects(same) PROVE StationInv'
<1>1. /\ setup = "connect" /\ setup' = "wait"
      /\ UNCHANGED <<posted, faults, queued, status, handler, slot, sending, reuse>>
  BY DEF SetupConnects, loopVars, coreVars
<1>2. /\ radio = "idle" /\ handler = "idle" /\ status # "WL_CONNECTED"
      /\ Latest.id = "STA_START"
  BY <1>1 DEF StationInv, CallersInv, LatestInv, Latest, TypeOK
<1>3. radio' = "connecting" /\ InSlot' = InSlot /\ Latest' = Latest
  BY <1>1, <1>2 DEF SetupConnects, Connect, InSlot, Latest
<1>4. TypeOK'
  BY <1>1, <1>3 DEF StationInv, TypeOK
<1>5. LatestInv' /\ CallersInv' /\ StatusInv' /\ EventsInv' /\ RiskInv'
  BY <1>1, <1>2, <1>3 DEF StationInv, LatestInv, CallersInv, StatusInv, EventsInv, RiskInv
<1>6. OrderInv'
  BY <1>1, <1>2, <1>3 DEF StationInv, OrderInv
<1>7. FaultInv'
  BY <1>1, <1>2, <1>3 DEF FaultInv
<1> QED BY <1>4, <1>5, <1>6, <1>7 DEF StationInv

LEMMA SameStep ==
  ASSUME StationInv, setup' = setup \/ (setup = "wait" /\ setup' = "done"),
         UNCHANGED <<radio, posted, slot, sending, faults, reuse, queued, handler, status>>
  PROVE  StationInv'
<1>1. InSlot' = InSlot /\ Latest' = Latest /\ Expired' = Expired
  BY DEF InSlot, Latest, Expired
<1>2. TypeOK'
  BY DEF StationInv, TypeOK
<1>3. LatestInv' /\ CallersInv' /\ StatusInv' /\ EventsInv' /\ RiskInv'
  BY <1>1 DEF StationInv, LatestInv, CallersInv, StatusInv, EventsInv, RiskInv
<1>4. OrderInv' /\ FaultInv'
  BY <1>1 DEF StationInv, OrderInv, FaultInv
<1> QED BY <1>2, <1>3, <1>4 DEF StationInv

LEMMA StationStep == ASSUME StationInv, [Next]_vars PROVE StationInv'
<1>1. CASE Driver \/ LoseIp \/ \E r \in Reasons : Fail(r)
  BY <1>1, DriverActions DEF Driver
<1>2. CASE EventLoop
  BY <1>2, TakeStep, QueueStep DEF EventLoop
<1>3. CASE NetworkEvent
  BY <1>3, CallbackStep, ReasonStep, DisablesStep, EnablesStep, BeginsStep DEF NetworkEvent
<1>4. CASE Sketch
  <2>1. CASE SetupDone
    BY <2>1, SameStep DEF SetupDone, driverVars, loopVars, coreVars
  <2> QED BY <1>4, <2>1, SetupEnablesStep, SetupConnectsStep DEF Sketch
<1>5. CASE UNCHANGED vars
  BY <1>5, SameStep DEF vars
<1> QED BY <1>1, <1>2, <1>3, <1>4, <1>5 DEF Next

-----------------------------------------------------------------------------
(* The theorems.                                                           *)
LEMMA AlwaysInv == Spec => []StationInv
<1>1. Init => StationInv
  BY StationInit
<1>2. StationInv /\ [Next]_vars => StationInv'
  BY StationStep
<1> QED BY <1>1, <1>2, PTL DEF Spec

(* The queue of pointers never holds more than it has room for, whatever   *)
(* its length, and no handler is given an event it does not know.          *)
THEOREM TypeCorrect == Spec => []TypeOK
<1>1. StationInv => TypeOK
  BY DEF StationInv
<1> QED BY <1>1, AlwaysInv, PTL

(* WiFi.status() is right whenever all events have been handled, although  *)
(* _network_event_cb queues pointers to a variable that is reused.         *)
THEOREM StatusRight == Spec => []StatusIsRight
<1>1. StationInv => StatusIsRight
  <2> SUFFICES ASSUME StationInv, Settled PROVE status = "WL_CONNECTED" <=> radio = "up"
    BY DEF StatusIsRight
  <2>1. ~InSlot /\ Len(posted) = 0 /\ Latest = slot /\ handler = "idle"
    BY DEF StationInv, TypeOK, Settled, InSlot, Latest
  <2>2. status = "WL_CONNECTED" <=> slot.id = "STA_GOT_IP"
    BY <2>1 DEF StationInv, StatusInv
  <2> QED BY <2>1, <2>2 DEF StationInv, TypeOK, LatestInv, Linked
<1> QED BY <1>1, AlwaysInv, PTL

(* The station gives up only for the reasons _eventCallback does not       *)
(* retry, for an AUTH_EXPIRE while connected, and, if events have been     *)
(* overtaken, never without such a failure at some time.                   *)
THEOREM StrandsOnly == Spec => []StrandsOnlyFor
<1>1. StationInv => StrandsOnlyFor
  <2> SUFFICES ASSUME StationInv, Stranded
               PROVE  /\ reuse = "none" => Unretried(faults.reason) \/ Expired
                      /\ reuse = "overtaken" => faults.risky
    BY DEF StrandsOnlyFor, Expired
  <2>1. /\ ~InSlot /\ Len(posted) = 0 /\ Latest = slot /\ handler = "idle"
        /\ setup \in {"wait", "done"}
    BY DEF StationInv, TypeOK, Stranded, Settled, InSlot, Latest
  <2>2. radio = "idle"
    BY <2>1 DEF Stranded, StationInv, CallersInv
  <2>3. reuse = "none" => Unretried(faults.reason) \/ Expired
    BY <2>1, <2>2 DEF StationInv, LatestInv, FaultInv
  <2>4. reuse = "overtaken" => faults.risky
    BY <2>1, <2>2 DEF StationInv, RiskInv
  <2> QED BY <2>3, <2>4
<1> QED BY <1>1, AlwaysInv, PTL

=============================================================================
