------------------------------ MODULE Firmware ------------------------------
(***************************************************************************)
(* The ESP32 sketch of one doll machine (src/arduino/iot/iot.ino) and the  *)
(* rawData/<machine> node of the Firebase database it PUTs to through      *)
(* FirebaseESP32::set.                                                     *)
(*                                                                         *)
(* loop() is one thread; it is cut at every point where it reads something *)
(* that another party changes: the clock (advanced by time, and stepped by *)
(* the SNTP task), the echo pin, the network.  The board may lose power or *)
(* be reset between any two steps.                                         *)
(*                                                                         *)
(* coin is not a variable: the infrared block that would increment it is   *)
(* commented out (iot.ino:56-62), so it is 0 in every record.              *)
(***************************************************************************)
EXTENDS Naturals, FiniteSets

CONSTANTS
  MinValidTime,  \* the 100 of "if (timer < 100) return"
  UploadPeriod,  \* the 10 of "uploadTime = timer + 10"
  Durations,     \* pulse lengths pulseIn may return, 0 being its timeout
  MaxStall,      \* clock seconds that may pass between the timer read and the
                 \* key read of one iteration (pulseIn gives up after 1 s)
  BootTime,      \* seconds a restart takes at least, association included
  Epoch,         \* the true time when the model starts
  MaxWall,       \* bound: the true time when the model stops
  MaxDrops,      \* bound: shipments counted altogether
  MaxRestarts    \* bound: restarts altogether

ASSUME PeriodAssumption == UploadPeriod \in Nat /\ MinValidTime \in Nat
ASSUME StallAssumption  == MaxStall \in Nat /\ MaxStall <= UploadPeriod
ASSUME BootAssumption   == BootTime \in Nat \ {0}
ASSUME EpochAssumption  == Epoch \in Nat \ {0}
ASSUME DurationAssumption == Durations \subseteq Nat
ASSUME BoundAssumption  ==
  MaxWall \in Nat /\ MaxDrops \in Nat /\ MaxRestarts \in Nat

VARIABLES
  \* the world
  wall,        \* true time, in seconds
  net,         \* PUT requests that are on their way to the database
  db,          \* the children of rawData/<machine>, each with its key
  \* the board
  clock,       \* what time(NULL) returns
  synced,      \* SNTP has set the clock since the last power-up
  pc,          \* where the sketch is
  timer,       \* "timer"
  uploadTime,  \* "uploadTime"
  getGoods,    \* "getGoods"
  req,         \* the JSON object under construction, then the request sent
  replied,     \* the answer to req has arrived
  restarts,    \* number of restarts so far (bounded)
  \* ghosts: no code reads them
  iterStart,   \* true time of the last timer read
  bootWall,    \* true time of the last start
  armedAt,     \* clock at the last start or timer of the last upload
  drops,       \* shipments counted altogether, the n-th has identity n
  pending,     \* identities of the shipments counted in getGoods
  gone         \* identities of shipments that no record will ever report

boardVars == <<timer, uploadTime, armedAt, getGoods, pending>>
ghostVars == <<iterStart, bootWall, drops>>
vars == <<wall, net, db, clock, synced, pc, timer, uploadTime, getGoods, req,
          replied, restarts, iterStart, bootWall, armedAt, drops, pending,
          gone>>

(* A record of rawData as it travels in a PUT: key is the last component   *)
(* of its path; timer and ids are ghosts.                                  *)
Request == [key : Nat, timestamp : Nat, goods : Nat, timer : Nat,
            ids : SUBSET Nat]
NoRequest == [key |-> 0, timestamp |-> 0, goods |-> 0, timer |-> 0, ids |-> {}]

Ids(S) == UNION {r.ids : r \in S}

(* The iteration that made r had read its timer from a set clock: an unset *)
(* clock counts from power-up and stays below Epoch.                       *)
Trusted(r) == r.timer >= Epoch

-----------------------------------------------------------------------------
(* Mutants of NextUpload: the sign is wrong; the period is forgotten.       *)
NextUpload_WrongSign(t) == t - UploadPeriod
NextUpload_NoPeriod(t) == t

(* time_t uploadTime = timer + 10 and the reset after an upload.            *)
NextUpload(t) == t + UploadPeriod

Init ==
  /\ wall = Epoch /\ net = {} /\ db = {}
  /\ clock = 0 /\ synced = FALSE
  /\ pc = "setup"
  /\ timer = clock /\ uploadTime = NextUpload(timer)
  /\ getGoods = 0 /\ pending = {}
  /\ req = NoRequest /\ replied = FALSE
  /\ restarts = 0
  /\ iterStart = Epoch /\ bootWall = Epoch /\ armedAt = clock
  /\ drops = 0 /\ gone = {}

-----------------------------------------------------------------------------
(* A second passes.  In the iteration that will upload, at most MaxStall   *)
(* of them pass between the read of timer and the read of the key: nothing *)
(* but pulseIn, whose timeout is one second, waits there.  An unset clock  *)
(* never reaches the present.                                              *)
Tick ==
  /\ wall < MaxWall
  /\ pc \in {"sense", "stamp", "send"} => wall < iterStart + MaxStall
  /\ synced \/ clock + 1 < Epoch
  /\ wall' = wall + 1
  /\ clock' = clock + 1
  /\ UNCHANGED <<net, db, synced, pc, req, replied, restarts, gone>>
  /\ UNCHANGED boardVars /\ UNCHANGED ghostVars

(* The SNTP task started by configTime sets the clock, at any moment.      *)
NtpSync ==
  /\ pc # "setup"
  /\ ~synced
  /\ clock' = wall
  /\ synced' = TRUE
  /\ UNCHANGED <<wall, net, db, pc, req, replied, restarts, gone>>
  /\ UNCHANGED boardVars /\ UNCHANGED ghostVars

(* setup() leaves its waiting loop when the access point is reached.       *)
Setup ==
  /\ pc = "setup"
  /\ pc' = "loop"
  /\ UNCHANGED <<wall, net, db, clock, synced, req, replied, restarts, gone>>
  /\ UNCHANGED boardVars /\ UNCHANGED ghostVars

(* Mutant of ReadTimer: the upload time is set again in every iteration.   *)
ReadTimer_Rearms ==
  /\ pc = "loop"
  /\ timer' = clock
  /\ uploadTime' = NextUpload(clock)
  /\ iterStart' = wall
  /\ pc' = IF clock < MinValidTime THEN "loop" ELSE "sense"
  /\ UNCHANGED <<wall, net, db, clock, synced, getGoods, req, replied, restarts,
                 bootWall, armedAt, drops, pending, gone>>

(* loop() begins: timer = getTimeStamp(), and an early return while it is  *)
(* below the threshold.                                                    *)
ReadTimer ==
  /\ pc = "loop"
  /\ timer' = clock
  /\ iterStart' = wall
  /\ pc' = IF clock < MinValidTime THEN "loop" ELSE "sense"
  /\ UNCHANGED <<wall, net, db, clock, synced, uploadTime, getGoods, req,
                 replied, restarts, bootWall, armedAt, drops, pending, gone>>

(* cm = (duration/2) / 29.1, truncated.                                    *)
Centimetres(duration) == ((duration \div 2) * 10) \div 291

(* ultrasound(), then the test of the upload time.                         *)
Ultrasound(duration) ==
  /\ pc = "sense"
  /\ IF Centimetres(duration) < 15
     THEN /\ drops < MaxDrops
          /\ getGoods' = getGoods + 1
          /\ drops' = drops + 1
          /\ pending' = pending \cup {drops + 1}
     ELSE UNCHANGED <<getGoods, drops, pending>>
  /\ pc' = IF timer > uploadTime THEN "stamp" ELSE "loop"
  /\ UNCHANGED <<wall, net, db, clock, synced, timer, uploadTime, req, replied,
                 restarts, iterStart, bootWall, armedAt, gone>>

(* Mutant of Stamp: the counters are reset before the object is filled in. *)
Stamp_AfterReset ==
  /\ pc = "stamp"
  /\ req' = [key |-> 0, timestamp |-> clock, goods |-> 0, timer |-> timer,
             ids |-> {}]
  /\ getGoods' = 0 /\ pending' = {}
  /\ pc' = "send"
  /\ UNCHANGED <<wall, net, db, clock, synced, timer, uploadTime, armedAt,
                 replied, restarts, gone>>
  /\ UNCHANGED ghostVars

(* The JSON object is filled in; its timestamp is a second clock read.     *)
Stamp ==
  /\ pc = "stamp"
  /\ req' = [key |-> 0, timestamp |-> clock, goods |-> getGoods,
             timer |-> timer, ids |-> pending]
  /\ pc' = "send"
  /\ UNCHANGED <<wall, net, db, clock, synced, replied, restarts, gone>>
  /\ UNCHANGED boardVars /\ UNCHANGED ghostVars

(* The path is built from a third clock read and Firebase.set is called.   *)
(* From here to its return the sketch is at "await", the connecting and    *)
(* the writing of the request included.                                    *)
SendPut ==
  /\ pc = "send"
  /\ req' = [req EXCEPT !.key = clock]
  /\ net' = net \cup {req'}
  /\ replied' = FALSE
  /\ pc' = "await"
  /\ UNCHANGED <<wall, db, clock, synced, restarts, gone>>
  /\ UNCHANGED boardVars /\ UNCHANGED ghostVars

(* Mutants of FinishUpload: getGoods is not reset; uploadTime is not moved. *)
FinishUpload_KeepsCount ==
  /\ uploadTime' = NextUpload(timer) /\ armedAt' = timer
  /\ req' = NoRequest /\ replied' = FALSE
  /\ pc' = "loop"
  /\ UNCHANGED <<wall, db, clock, synced, timer, getGoods, pending, restarts,
                 iterStart, bootWall, drops>>
FinishUpload_KeepsTime ==
  /\ armedAt' = timer
  /\ getGoods' = 0
  /\ pending' = {}
  /\ req' = NoRequest /\ replied' = FALSE
  /\ pc' = "loop"
  /\ UNCHANGED <<wall, db, clock, synced, timer, uploadTime, restarts,
                 iterStart, bootWall, drops>>

(* What loop() does when Firebase.set returns, however it went: the result *)
(* is not looked at.                                                       *)
FinishUpload ==
  /\ uploadTime' = NextUpload(timer) /\ armedAt' = timer
  /\ getGoods' = 0
  /\ pending' = {}
  /\ req' = NoRequest /\ replied' = FALSE
  /\ pc' = "loop"
  /\ UNCHANGED <<wall, db, clock, synced, timer, restarts, iterStart, bootWall,
                 drops>>

(* The connection cannot be made (HTTPC_ERROR_CONNECTION_REFUSED, or a     *)
(* failed write): nothing was sent.                                        *)
SendFails ==
  /\ pc = "send"
  /\ gone' = gone \cup pending
  /\ FinishUpload
  /\ UNCHANGED net

(* sendRequest returns the code of the answer.                             *)
PutAnswered ==
  /\ pc = "await" /\ replied
  /\ FinishUpload
  /\ UNCHANGED <<net, gone>>

(* HTTPC_ERROR_READ_TIMEOUT, a lost connection, or one that could not be   *)
(* made: the request may still be on its way, or was dropped.  It need not *)
(* come to this: the TLS handshake, and getString after an answer, wait    *)
(* without a time-out (FirebaseRequest).                                   *)
PutTimesOut ==
  /\ pc = "await"
  /\ FinishUpload
  /\ UNCHANGED <<net, gone>>

(* The database executes a PUT: the child at the key is replaced.          *)
ServerApply(r) ==
  LET old == {x \in db : x.key = r.key} IN
  /\ db' = (db \ old) \cup {r}
  /\ gone' = gone \cup Ids(old)
  /\ net' = net \ {r}
  /\ replied' = (replied \/ (pc = "await" /\ r = req))
  /\ UNCHANGED <<wall, clock, synced, pc, req, restarts>>
  /\ UNCHANGED boardVars /\ UNCHANGED ghostVars

(* A PUT is lost on the way or refused by the server.                      *)
ServerDrop(r) ==
  /\ net' = net \ {r}
  /\ gone' = gone \cup r.ids
  /\ UNCHANGED <<wall, db, clock, synced, pc, req, replied, restarts>>
  /\ UNCHANGED boardVars /\ UNCHANGED ghostVars

(* The board restarts with its clock at t: the initialisers of the globals *)
(* run, the counters are volatile.                                         *)
Restart(t) ==
  /\ restarts < MaxRestarts
  /\ restarts' = restarts + 1
  /\ wall' = wall + BootTime
  /\ bootWall' = wall + BootTime
  /\ clock' = t
  /\ pc' = "setup"
  /\ timer' = t /\ uploadTime' = NextUpload(t) /\ armedAt' = t
  /\ getGoods' = 0 /\ pending' = {}
  /\ req' = NoRequest /\ replied' = FALSE
  /\ gone' = gone \cup (pending \ Ids(net \cup db))
  /\ UNCHANGED <<net, db, iterStart, drops>>

(* Power is lost: the clock starts again from zero.                        *)
PowerCycle ==
  /\ Restart(0)
  /\ synced' = FALSE

(* A reset (brown-out, exception, button) keeps the RTC-backed clock.      *)
SoftReset ==
  /\ synced \/ clock + BootTime < Epoch
  /\ Restart(clock + BootTime)
  /\ UNCHANGED synced

Board == \/ ReadTimer
         \/ \E d \in Durations : Ultrasound(d)
         \/ Stamp \/ SendPut \/ SendFails

SetReturns == PutAnswered \/ PutTimesOut

Next == \/ Tick \/ NtpSync \/ Setup \/ Board \/ SetReturns
        \/ \E r \in net : ServerApply(r) \/ ServerDrop(r)
        \/ PowerCycle \/ SoftReset

Spec == Init /\ [][Next]_vars

(* Time passes and loop() keeps being called.  Nothing is assumed of the   *)
(* network, the SNTP server or the access point, nor that Firebase.set     *)
(* returns.                                                                *)
FairSpec == Spec /\ WF_vars(Tick) /\ WF_vars(Board)

-----------------------------------------------------------------------------
TypeOK ==
  /\ wall \in Nat /\ clock \in Nat /\ synced \in BOOLEAN
  /\ net \subseteq Request /\ db \subseteq Request
  /\ pc \in {"setup", "loop", "sense", "stamp", "send", "await"}
  /\ timer \in Nat /\ uploadTime \in Nat /\ getGoods \in Nat
  /\ req \in Request /\ replied \in BOOLEAN /\ restarts \in Nat
  /\ iterStart \in Nat /\ bootWall \in Nat /\ armedAt \in Nat
  /\ drops \in Nat
  /\ pending \subseteq Nat /\ gone \subseteq Nat

(* The records that are stored or may still be.                            *)
Issued == net \cup db

(* No counted shipment is reported twice: not by two records, stored or on *)
(* their way, and not by a record and by the next one the counter will     *)
(* make (iot.ino:79-84, the reset after Firebase.set).  And a record's     *)
(* goods is the number of shipments it stands for.                         *)
ReportedOnce ==
  /\ \A r, s \in Issued : r # s => r.ids \cap s.ids = {}
  /\ pc # "await" => pending \cap Ids(Issued) = {}
  /\ \A r \in Issued : r.goods = Cardinality(r.ids)

(* Every shipment ever counted is still in the counter, on its way, stored, *)
(* or was lost to one of the four causes that put it in gone: a PUT that   *)
(* was not sent, one that was lost, one overwritten at its key, a restart. *)
(* And a lost one is reported by no record.                                *)
LossAccounted ==
  /\ 1..drops = pending \cup Ids(Issued) \cup gone
  /\ gone \cap Ids(Issued) = {}

(* Of the records made by iterations with a set clock, one has its key     *)
(* before the other one's timer was read: however slow the sensor and the  *)
(* network, and across restarts, they are at least a timer read apart.     *)
(* Hence their keys differ, and the order of the keys, in which the app    *)
(* lists them, is the order of their timestamp fields, which it shows.     *)
Separated ==
  \A r, s \in Issued :
    (Trusted(r) /\ Trusted(s) /\ r # s) =>
      \/ r.key < s.timer /\ r.timestamp < s.timestamp
      \/ s.key < r.timer /\ s.timestamp < r.timestamp

(* At a key of the present the database replaces a record by another one   *)
(* only if exactly one of the two is that of an iteration during which     *)
(* SNTP set the clock (timer read before, key after): no two of those, of  *)
(* this start or an earlier one, and no two records of a set clock share a *)
(* key.  So setting the clock costs at most one record, and one trigger of *)
(* onCreateData.                                                           *)
OverwriteOnlyAtSync ==
  [][\A r \in db, s \in db' :
       r # s /\ r.key = s.key /\ r.key >= Epoch => (Trusted(r) <=> ~Trusted(s))]_vars

(* A counted shipment does not stay in the counter: the upload that takes  *)
(* it away comes, unless Firebase.set never returns, or the clock stops    *)
(* (the bounds of the model) less than a period after the last upload or   *)
(* start, or below the threshold of iot.ino:54.                            *)
ClockStopped == wall >= MaxWall \/ (~synced /\ clock + 1 >= Epoch)
TooEarly == clock <= armedAt + UploadPeriod \/ clock < MinValidTime
CounterIsFlushed ==
  \/ <>[](pc = "await")
  \/ (getGoods > 0) ~> (getGoods = 0 \/ (ClockStopped /\ TooEarly))

(* Firmware implements the bookkeeping DropLedger promises: a shipment is  *)
(* open while the counter or a PUT under way holds it and the database has *)
(* neither stored nor lost it.                                             *)
Ledger == INSTANCE DropLedger WITH
  counted  <- drops,
  open     <- (pending \cup Ids(net)) \ (Ids(db) \cup gone),
  reported <- Ids(db),
  lost     <- gone

(* Every step of the sketch, the network, the database and the power       *)
(* supply is a step of that ledger or none at all: no interleaving brings  *)
(* back a count that was reported or lost (a PUT that times out in         *)
(* sendRequest and is applied later, a restart between the PUT and the     *)
(* reset of getGoods in iot.ino:79-84).                                    *)
ImplementsLedger == Ledger!Spec

(* "avoid wrong value of timestamp" (iot.ino:53): the timestamps of stored *)
(* records are times at which SNTP had set the clock.                      *)
TimestampsAreReal == \A r \in db : r.timestamp >= Epoch

=============================================================================
