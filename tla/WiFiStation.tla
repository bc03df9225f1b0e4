----------------------------- MODULE WiFiStation -----------------------------
(***************************************************************************)
(* How the board gets to, and gets back to, its access point: setup() of   *)
(* the sketch, WiFiSTA.cpp and WiFiGeneric.cpp of the ESP32 core.          *)
(*                                                                         *)
(* Four parties run concurrently.  The driver (external) connects, fails   *)
(* and posts events.  The IDF event loop task (external) takes one event   *)
(* after the other into a variable of its own and calls                    *)
(* _network_event_cb, which queues a POINTER to that variable.  The        *)
(* network_event task handles what the pointer points to by then, and      *)
(* reconnects.  The sketch waits in setup() for the status.                *)
(*                                                                         *)
(* _esp_wifi_started is radio # "off".  The sketch registers no event      *)
(* callbacks, uses DHCP and never changes _autoReconnect.  The station's   *)
(* bits of _network_event_group are left out: only the functions for the   *)
(* transmission power read them, and nothing calls those.                  *)
(***************************************************************************)
EXTENDS Naturals, Sequences

CONSTANTS
  Reasons,    \* reasons with which the driver may report a disconnection
  QueueLen,   \* the 32 of _network_event_queue
  MaxFaults   \* bound: failures of attempts, links and leases altogether

(* wifi_err_reason_t                                                       *)
AUTH_EXPIRE       == 2
ASSOC_LEAVE       == 8
BEACON_TIMEOUT    == 200
NO_AP_FOUND       == 201
AUTH_FAIL         == 202
ASSOC_FAIL        == 203
HANDSHAKE_TIMEOUT == 204

ASSUME ReasonAssumption == Reasons \subseteq Nat \ {0} /\ Reasons # {}
ASSUME QueueAssumption == QueueLen \in Nat \ {0} /\ MaxFaults \in Nat

VARIABLES
  \* the driver and the event loop task
  radio,      \* the state of the driver
  posted,     \* events posted to the event loop, oldest first
  slot,       \* the event loop task's variable
  sending,    \* that task is in _network_event_cb
  faults,     \* ghost: the failures so far, see Fault
  reuse,      \* ghost: what the reuse of the variable has led to
  \* WiFiGeneric and WiFiSTA
  queued,     \* number of pointers in _network_event_queue
  handler,    \* where the network_event task is in _eventCallback
  status,     \* _sta_status_group
  \* the sketch
  setup       \* where setup() is

vars == <<radio, posted, slot, sending, faults, reuse, queued, handler,
          status, setup>>
driverVars == <<radio, posted, faults>>
loopVars   == <<slot, sending, reuse>>
coreVars   == <<handler, status>>

EventId == {"STA_START", "STA_STOP", "STA_CONNECTED", "STA_DISCONNECTED",
            "STA_GOT_IP", "STA_LOST_IP"}
Event == [id : EventId, reason : Nat]
Plain(id) == [id |-> id, reason |-> 0]
Disconnected(r) == [id |-> "STA_DISCONNECTED", reason |-> r]

(* Associated: waiting for an address, with one, and with its lease lost.  *)
Linked == {"assoc", "up", "noip"}

(* The reasons for which _eventCallback does not try again.                *)
Unretried(r) == (r \in 1..(BEACON_TIMEOUT - 1) /\ r # AUTH_EXPIRE) \/ r = AUTH_FAIL

(* How many failures there were; the reason of the last one, 0 for a lost  *)
(* lease, and whether the connection had been established; whether one of  *)
(* them may have stranded the station.                                     *)
Fault == [count : 0..MaxFaults, reason : Nat, up : BOOLEAN, risky : BOOLEAN]
NoFault == [count |-> 0, reason |-> 0, up |-> FALSE, risky |-> FALSE]
Failure(r) ==
  /\ faults.count < MaxFaults
  /\ faults' = [count |-> faults.count + 1, reason |-> r,
                up |-> radio \in {"up", "noip"},
                risky |-> faults.risky \/ Unretried(r) \/ r = AUTH_EXPIRE]

Init ==
  /\ radio = "off" /\ posted = <<>> /\ faults = NoFault /\ reuse = "none"
  /\ slot = Plain("STA_STOP") /\ sending = FALSE
  /\ queued = 0 /\ handler = "idle"
  /\ status = "WL_NO_SHIELD"
  /\ setup = "enable"

-----------------------------------------------------------------------------
(* The calls into the driver.                                              *)

(* enableSTA(true): mode() starts the driver.                              *)
EnableSTA ==
  IF radio # "off" THEN UNCHANGED <<radio, posted>>
  ELSE radio' = "idle" /\ posted' = Append(posted, Plain("STA_START"))

(* enableSTA(false): mode() stops it, which ends a connection.             *)
DisableSTA ==
  IF radio = "off" THEN UNCHANGED <<radio, posted>>
  ELSE /\ radio' = "off"
       /\ posted' = posted \o
            (IF radio \in Linked THEN <<Disconnected(ASSOC_LEAVE)>>
             ELSE <<>>) \o <<Plain("STA_STOP")>>

(* esp_wifi_connect()                                                      *)
Connect == radio' = IF radio = "idle" THEN "connecting" ELSE radio

-----------------------------------------------------------------------------
(* The driver.                                                             *)
Associate ==
  /\ radio = "connecting"
  /\ radio' = "assoc"
  /\ posted' = Append(posted, Plain("STA_CONNECTED"))
  /\ UNCHANGED <<faults, queued, setup>>
  /\ UNCHANGED loopVars /\ UNCHANGED coreVars

GotIp ==
  /\ radio \in {"assoc", "noip"}
  /\ radio' = "up"
  /\ posted' = Append(posted, Plain("STA_GOT_IP"))
  /\ UNCHANGED <<faults, queued, setup>>
  /\ UNCHANGED loopVars /\ UNCHANGED coreVars

(* An attempt fails or the link is lost.  A missing access point and a     *)
(* failed handshake end attempts, missing beacons end associations.        *)
Fail(r) ==
  /\ Failure(r) /\ radio \in Linked \cup {"connecting"}
  /\ r = BEACON_TIMEOUT => radio # "connecting"
  /\ r > BEACON_TIMEOUT => radio = "connecting"
  /\ radio' = "idle"
  /\ posted' = Append(posted, Disconnected(r))
  /\ UNCHANGED <<queued, setup>> /\ UNCHANGED loopVars /\ UNCHANGED coreVars

(* The lease runs out; the DHCP client goes on asking.                     *)
LoseIp ==
  /\ Failure(0) /\ radio = "up"
  /\ radio' = "noip"
  /\ posted' = Append(posted, Plain("STA_LOST_IP"))
  /\ UNCHANGED <<queued, setup>>
  /\ UNCHANGED loopVars /\ UNCHANGED coreVars

(* The event loop task takes the next event into its variable, whatever    *)
(* pointers to it are still queued.                                        *)
TakeEvent ==
  /\ ~sending /\ posted # <<>>
  /\ slot' = Head(posted) /\ posted' = Tail(posted)
  /\ sending' = TRUE
  /\ reuse' = IF reuse = "none" /\ (queued > 0 \/ handler # "idle")
              THEN "overtaken" ELSE reuse
  /\ UNCHANGED <<radio, faults, queued, setup>> /\ UNCHANGED coreVars

(* Mutant of NetworkEventCb: a full queue is not waited for.               *)
NetworkEventCb_NoWait ==
  /\ sending
  /\ queued' = queued + 1
  /\ sending' = FALSE
  /\ UNCHANGED <<slot, reuse, setup>> /\ UNCHANGED driverVars /\ UNCHANGED coreVars

(* _network_event_cb: the pointer is queued, when there is room.           *)
NetworkEventCb ==
  /\ sending /\ queued < QueueLen
  /\ queued' = queued + 1
  /\ sending' = FALSE
  /\ UNCHANGED <<slot, reuse, setup>> /\ UNCHANGED driverVars /\ UNCHANGED coreVars

-----------------------------------------------------------------------------
(* Mutant of StatusAfter: an address is taken for an association only.     *)
StatusAfter_NoIp == [STA_START |-> "WL_DISCONNECTED", STA_STOP |-> "WL_NO_SHIELD",
                     STA_CONNECTED |-> "WL_IDLE_STATUS",
                     STA_GOT_IP |-> "WL_IDLE_STATUS",
                     STA_LOST_IP |-> "WL_IDLE_STATUS"]

(* What _eventCallback makes of an event other than a disconnection.       *)
StatusAfter == [STA_START |-> "WL_DISCONNECTED", STA_STOP |-> "WL_NO_SHIELD",
                STA_CONNECTED |-> "WL_IDLE_STATUS", STA_GOT_IP |-> "WL_CONNECTED",
                STA_LOST_IP |-> "WL_IDLE_STATUS"]

(* The network_event task takes a pointer and reads the event's id.        *)
EventCallback ==
  /\ handler = "idle" /\ queued > 0
  /\ queued' = queued - 1
  /\ IF slot.id = "STA_DISCONNECTED"
     THEN handler' = "reason" /\ UNCHANGED status
     ELSE status' = StatusAfter[slot.id] /\ UNCHANGED handler
  /\ UNCHANGED setup /\ UNCHANGED driverVars /\ UNCHANGED loopVars

(* Mutant of StatusFor: only the reasons that are named change the status. *)
StatusFor_NoDefault(r) ==
  CASE r = NO_AP_FOUND -> "WL_NO_SSID_AVAIL"
    [] r \in {AUTH_FAIL, ASSOC_FAIL} -> "WL_CONNECT_FAILED"
    [] r \in {BEACON_TIMEOUT, HANDSHAKE_TIMEOUT} -> "WL_CONNECTION_LOST"
    [] OTHER -> status

(* The status after a disconnection for reason r.                          *)
StatusFor(r) ==
  CASE r = NO_AP_FOUND -> "WL_NO_SSID_AVAIL"
    [] r \in {AUTH_FAIL, ASSOC_FAIL} -> "WL_CONNECT_FAILED"
    [] r \in {BEACON_TIMEOUT, HANDSHAKE_TIMEOUT} -> "WL_CONNECTION_LOST"
    [] r = AUTH_EXPIRE -> status
    [] OTHER -> "WL_DISCONNECTED"

(* The reasons that make the station try again.                            *)
Reconnects(r) == r = AUTH_EXPIRE \/ (r >= BEACON_TIMEOUT /\ r # AUTH_FAIL)

(* Then it reads the reason.  If the event loop task has reused its        *)
(* variable since the id was read, there may be anything in that field.    *)
HandleDisconnected(r) ==
  /\ handler = "reason"
  /\ slot.id = "STA_DISCONNECTED" => r = slot.reason
  /\ reuse' = IF slot.id = "STA_DISCONNECTED" THEN reuse ELSE "torn"
  /\ status' = StatusFor(r)
  /\ handler' = IF Reconnects(r) THEN "disable" ELSE "idle"
  /\ UNCHANGED <<slot, sending, queued, setup>> /\ UNCHANGED driverVars

(* WiFi.enableSTA(false); WiFi.enableSTA(true); WiFi.begin()               *)
HandlerDisables ==
  /\ handler = "disable" /\ handler' = "enable"
  /\ DisableSTA
  /\ UNCHANGED <<faults, queued, status, setup>>
  /\ UNCHANGED loopVars

HandlerEnables ==
  /\ handler = "enable" /\ handler' = "begin"
  /\ EnableSTA
  /\ UNCHANGED <<faults, queued, status, setup>>
  /\ UNCHANGED loopVars

(* Mutant of HandlerBegins: begin() relies on the driver to connect.       *)
HandlerBegins_NoConnect ==
  /\ handler = "begin" /\ handler' = "idle"
  /\ EnableSTA
  /\ UNCHANGED <<faults, queued, status, setup>>
  /\ UNCHANGED loopVars

HandlerBegins ==
  /\ handler = "begin" /\ handler' = "idle"
  /\ IF status # "WL_CONNECTED" THEN Connect ELSE UNCHANGED radio
  /\ UNCHANGED <<posted, faults, queued, status, setup>>
  /\ UNCHANGED loopVars

-----------------------------------------------------------------------------
(* setup(): WiFi.begin(ssid, passphrase) enables the station, and connects *)
(* unless the stored configuration is the same and it is connected; the    *)
(* sketch ignores what it returns and waits.                               *)
SetupEnables ==
  /\ setup = "enable" /\ setup' = "connect"
  /\ EnableSTA
  /\ UNCHANGED <<faults, queued>>
  /\ UNCHANGED loopVars /\ UNCHANGED coreVars

SetupConnects(sameConfig) ==
  /\ setup = "connect" /\ setup' = "wait"
  /\ IF sameConfig /\ status = "WL_CONNECTED" THEN UNCHANGED radio ELSE Connect
  /\ UNCHANGED <<posted, faults, queued>>
  /\ UNCHANGED loopVars /\ UNCHANGED coreVars

SetupDone ==
  /\ setup = "wait" /\ status = "WL_CONNECTED"
  /\ setup' = "done"
  /\ UNCHANGED queued
  /\ UNCHANGED driverVars /\ UNCHANGED loopVars /\ UNCHANGED coreVars

EventLoop == TakeEvent \/ NetworkEventCb
NetworkEvent == \/ EventCallback
                \/ \E r \in Reasons : HandleDisconnected(r)
                \/ HandlerDisables \/ HandlerEnables \/ HandlerBegins
Sketch == \/ SetupEnables \/ SetupDone
          \/ \E same \in BOOLEAN : SetupConnects(same)
Driver == Associate \/ GotIp

Next == \/ Driver \/ LoseIp \/ \E r \in Reasons : Fail(r)
        \/ EventLoop \/ NetworkEvent \/ Sketch

Spec == Init /\ [][Next]_vars

(* The tasks are scheduled, and an access point that is there lets the     *)
(* station in.  Nothing makes it fail.                                     *)
FairSpec ==
  /\ Spec
  /\ WF_vars(Driver) /\ WF_vars(EventLoop)
  /\ WF_vars(NetworkEvent) /\ WF_vars(Sketch)

-----------------------------------------------------------------------------
WLStatus == {"WL_NO_SHIELD", "WL_IDLE_STATUS", "WL_NO_SSID_AVAIL",
             "WL_CONNECTED", "WL_CONNECT_FAILED", "WL_CONNECTION_LOST",
             "WL_DISCONNECTED"}

TypeOK ==
  /\ radio \in Linked \cup {"off", "idle", "connecting"}
  /\ posted \in Seq(Event) /\ slot \in Event /\ sending \in BOOLEAN
  /\ faults \in Fault
  /\ reuse \in {"none", "overtaken", "torn"}
  /\ queued \in 0..QueueLen
  /\ handler \in {"idle", "reason", "disable", "enable", "begin"}
  /\ status \in WLStatus
  /\ setup \in {"enable", "connect", "wait", "done"}

(* Every event has been handled.                                           *)
Settled == posted = <<>> /\ ~sending /\ queued = 0 /\ handler = "idle"

(* Although the handler may see an event twice, or never, because the      *)
(* variable its pointers point to is reused (WiFiGeneric.cpp:75), the      *)
(* status that the sketch and the Firebase client ask for is right         *)
(* whenever all events have been handled.                                  *)
StatusIsRight == Settled => (status = "WL_CONNECTED" <=> radio = "up")

(* The station is idle with nothing left that could make it try again.     *)
Stranded == Settled /\ radio \in {"off", "idle"} /\ setup \in {"wait", "done"}

(* It strands, and stays offline until the board is reset, for the reasons *)
(* _eventCallback does not retry, and for an AUTH_EXPIRE that ended an     *)
(* established connection: begin() does nothing while the status is still  *)
(* WL_CONNECTED (WiFiSTA.cpp:210).  Any other last failure is retried.  If *)
(* events have been overtaken, it takes at least one such reason, or an    *)
(* AUTH_EXPIRE, at some time.  Only after a reason taken from another      *)
(* event anything is possible.                                             *)
StrandsOnlyFor ==
  Stranded =>
    CASE reuse = "none" ->
           \/ Unretried(faults.reason)
           \/ faults.reason = AUTH_EXPIRE /\ faults.up
      [] reuse = "overtaken" -> faults.risky
      [] OTHER -> TRUE

(* The event loop task reuses its variable before the event in it has been *)
(* handled.                                                                *)
Overtake == TakeEvent /\ (queued > 0 \/ handler # "idle")

(* Unless it strands, the board ends up connected for good once failures   *)
(* stop, with setup() done: no failure, at whatever point of the handling  *)
(* of the one before, and no event lost or seen twice leaves it waiting    *)
(* for an event that never comes.  Only events overtaken again and again   *)
(* could keep it reconnecting.                                             *)
Online == radio = "up" /\ status = "WL_CONNECTED" /\ setup = "done"
BackOnline == []<><<Overtake>>_vars \/ <>[](Online \/ Stranded)

=============================================================================
