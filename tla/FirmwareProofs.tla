--------------------------- MODULE FirmwareProofs ---------------------------
(***************************************************************************)
(* Theorems about Firmware, for every value of its constants: the type     *)
(* invariant, the accounting of the counted shipments, and the keys of the *)
(* records made with a set clock.                                          *)
(***************************************************************************)
EXTENDS Firmware, FiniteSetTheorems, TLAPS

-----------------------------------------------------------------------------
(* The clock is the true time once it is set, and below Epoch before.      *)
ClockInv ==
  /\ Epoch <= bootWall /\ bootWall <= wall /\ iterStart <= wall
  /\ synced => clock = wall
  /\ ~synced => clock < Epoch

(* An iteration that read a set clock knows the true time of that read; it *)
(* reaches the upload only past uploadTime, and within MaxStall.           *)
Iterating == pc \in {"sense", "stamp", "send", "await"}
IterInv ==
  /\ Iterating => bootWall <= iterStart
  /\ Iterating /\ timer >= Epoch => synced /\ timer = iterStart
  /\ pc \in {"sense", "stamp", "send"} => wall <= iterStart + MaxStall
  /\ pc \in {"stamp", "send", "await"} => timer > uploadTime

(* What the request under construction, or awaited, has in it.             *)
ReqInv ==
  /\ pc \in {"send", "await"} => req.timer = timer
  /\ pc = "send" /\ timer >= Epoch =>
       timer <= req.timestamp /\ req.timestamp <= wall
  /\ pc = "await" /\ timer >= Epoch => req.key <= NextUpload(timer)

(* An issued record of a set clock has its three clock reads in order, and *)
(* its key is out of the way of the next iteration that uploads.           *)
RecordInv ==
  \A r \in Issued : Trusted(r) =>
    /\ r.timer <= r.timestamp /\ r.timestamp <= r.key /\ r.key <= wall
    /\ \/ r.key <= uploadTime
       \/ r.key < bootWall
       \/ pc = "await" /\ r = req

TimeInv == TypeOK /\ ClockInv /\ IterInv /\ ReqInv /\ RecordInv /\ Separated

(* The counter and the request count the same shipments, and nothing else  *)
(* has counted them.                                                       *)
CounterInv ==
  /\ pending \subseteq 1..drops /\ gone \subseteq 1..drops
  /\ getGoods = Cardinality(pending)
  /\ pc \in {"send", "await"} => req.ids = pending /\ req.goods = getGoods
  /\ pc # "await" => pending \cap (Ids(Issued) \cup gone) = {}
  /\ pc = "await" =>
       /\ pending \subseteq Ids(Issued) \cup gone
       /\ \A r \in Issued : r # req => r.ids \cap pending = {}

(* A record that was sent again while its equal was stored counts nothing. *)
ResentInv == \A r \in net \cap db : r.ids = {}

CountInv == TypeOK /\ CounterInv /\ ResentInv /\ ReportedOnce /\ LossAccounted
-----------------------------------------------------------------------------
(* The value of request between two uploads is of its type.                *)
LEMMA NoRequestType == NoRequest \in Request
<1>1. {} \in SUBSET Nat
  OBVIOUS
<1> QED BY <1>1 DEF NoRequest, Request

(* The code after Firebase.set (iot.ino:81-86) keeps the types.            *)
LEMMA FinishUploadType ==
  ASSUME TypeOK, FinishUpload, net' = net, gone' \in SUBSET Nat
  PROVE  TypeOK'
<1> USE NoRequestType DEF TypeOK, FinishUpload
<1>1. uploadTime' \in Nat
  BY PeriodAssumption DEF NextUpload
<1>2. pending' \subseteq Nat /\ replied' \in BOOLEAN
  OBVIOUS
<1> QED BY <1>1, <1>2

(* The shipments that a set of requests reports are natural numbers.       *)
LEMMA IdsType ==
  ASSUME NEW S \in SUBSET Request PROVE Ids(S) \subseteq Nat
BY DEF Ids, Request

(* A restart, which initialises the globals, keeps the types.              *)
LEMMA RestartType ==
  ASSUME TypeOK, NEW t \in Nat, Restart(t), synced' \in BOOLEAN
  PROVE  TypeOK'
<1> USE NoRequestType DEF TypeOK, Restart
<1>1. uploadTime' \in Nat /\ wall' \in Nat /\ bootWall' \in Nat
  BY PeriodAssumption, BootAssumption DEF NextUpload
<1>2. pending' \subseteq Nat /\ gone' \subseteq Nat /\ replied' \in BOOLEAN
  OBVIOUS
<1>3. /\ clock' \in Nat /\ timer' \in Nat /\ armedAt' \in Nat
      /\ getGoods' \in Nat /\ restarts' \in Nat
  OBVIOUS
<1>4. /\ net' \subseteq Request /\ db' \subseteq Request /\ req' \in Request
      /\ iterStart' \in Nat /\ drops' \in Nat /\ pc' = "setup"
  OBVIOUS
<1> QED BY <1>1, <1>2, <1>3, <1>4

(* Every step of the board, the clock, the network and the database keeps  *)
(* the types; the times and the counter in particular stay natural.        *)
LEMMA TypeStep == ASSUME TypeOK, [Next]_vars PROVE TypeOK'
<1> USE DEF TypeOK
<1>1. CASE Tick
  BY <1>1 DEF Tick, boardVars, ghostVars
<1>2. CASE NtpSync
  BY <1>2 DEF NtpSync, boardVars, ghostVars
<1>3. CASE Setup
  BY <1>3 DEF Setup, boardVars, ghostVars
<1>4. CASE ReadTimer
  BY <1>4 DEF ReadTimer
<1>5. ASSUME NEW d \in Durations, Ultrasound(d) PROVE TypeOK'
  <2>1. getGoods' \in Nat /\ drops' \in Nat
    BY <1>5 DEF Ultrasound
  <2>2. pending' = pending \/ pending' = pending \cup {drops + 1}
    BY <1>5 DEF Ultrasound
  <2>3. {drops + 1} \subseteq Nat
    OBVIOUS
  <2>4. pending' \subseteq Nat
    BY <2>2, <2>3
  <2> QED BY <1>5, <2>1, <2>4 DEF Ultrasound
<1>6. CASE Stamp
  <2>1. pending \in SUBSET Nat
    OBVIOUS
  <2>2. req' \in Request
    BY <1>6, <2>1 DEF Stamp, Request
  <2> QED BY <1>6, <2>2 DEF Stamp, boardVars, ghostVars
<1>7. CASE SendPut
  BY <1>7 DEF SendPut, Request, boardVars, ghostVars
<1>8. CASE SendFails
  BY <1>8, FinishUploadType DEF SendFails
<1>9. CASE PutAnswered
  BY <1>9, FinishUploadType DEF PutAnswered
<1>10. CASE PutTimesOut
  BY <1>10, FinishUploadType DEF PutTimesOut
<1>11. ASSUME NEW r \in net, ServerApply(r) PROVE TypeOK'
  <2>1. Ids({x \in db : x.key = r.key}) \subseteq Nat
    BY IdsType
  <2> QED BY <1>11, <2>1 DEF ServerApply, boardVars, ghostVars
<1>12. ASSUME NEW r \in net, ServerDrop(r) PROVE TypeOK'
  BY <1>12 DEF ServerDrop, Request, boardVars, ghostVars
<1>13. CASE PowerCycle
  BY <1>13, RestartType DEF PowerCycle
<1>14. CASE SoftReset
  BY <1>14, RestartType, BootAssumption DEF SoftReset
<1>15. CASE UNCHANGED vars
  BY <1>15 DEF vars
<1> QED BY <1>1, <1>2, <1>3, <1>4, <1>5, <1>6, <1>7, <1>8, <1>9, <1>10,
           <1>11, <1>12, <1>13, <1>14, <1>15 DEF Next, Board, SetReturns

(* The globals of iot.ino have their types at power-on.                    *)
LEMMA TypeInit == ASSUME Init PROVE TypeOK
<1> USE DEF Init
<1>1. wall \in Nat /\ uploadTime \in Nat /\ iterStart \in Nat /\ bootWall \in Nat
  BY PeriodAssumption, EpochAssumption DEF NextUpload
<1>2. pending \subseteq Nat /\ gone \subseteq Nat
  OBVIOUS
<1>3. synced \in BOOLEAN /\ replied \in BOOLEAN
  OBVIOUS
<1> QED BY <1>1, <1>2, <1>3, NoRequestType DEF TypeOK

(* The variables of the sketch, the requests and the stored records keep   *)
(* their types in every behaviour: in particular no time becomes negative. *)
THEOREM TypeCorrect == Spec => []TypeOK
BY TypeInit, TypeStep, PTL DEF Spec

-----------------------------------------------------------------------------
(* Requests in flight and stored records have the type of a request.       *)
LEMMA IssuedType ==
  ASSUME TypeOK, NEW r \in Issued
  PROVE  /\ r \in Request /\ r.ids \subseteq Nat
         /\ r.key \in Nat /\ r.timestamp \in Nat /\ r.timer \in Nat
<1>1. r \in Request
  BY DEF TypeOK, Issued
<1> QED BY <1>1 DEF Request

(* Records that only disappear stay separated.                             *)
LEMMA SeparatedStep ==
  ASSUME Separated, Issued' \subseteq Issued PROVE Separated'
BY DEF Separated, Trusted

(* While no PUT is issued or forgotten, time only helps RecordInv.         *)
LEMMA RecordStep ==
  ASSUME TypeOK, TypeOK', RecordInv, Issued' \subseteq Issued,
         wall <= wall', uploadTime <= uploadTime', bootWall <= bootWall',
         pc = "await" => pc' = "await" /\ req' = req
  PROVE  RecordInv'
<1> SUFFICES ASSUME NEW r \in Issued', Trusted(r)
             PROVE  /\ r.timer <= r.timestamp /\ r.timestamp <= r.key
                    /\ r.key <= wall'
                    /\ \/ r.key <= uploadTime'
                       \/ r.key < bootWall'
                       \/ pc' = "await" /\ r = req'
  BY DEF RecordInv, Trusted
<1>1. r \in Issued /\ r.key \in Nat
  BY IssuedType
<1>2. /\ r.timer <= r.timestamp /\ r.timestamp <= r.key /\ r.key <= wall
      /\ \/ r.key <= uploadTime
         \/ r.key < bootWall
         \/ pc = "await" /\ r = req
  BY <1>1 DEF RecordInv
<1>3. /\ wall \in Nat /\ uploadTime \in Nat /\ bootWall \in Nat
      /\ wall' \in Nat /\ uploadTime' \in Nat /\ bootWall' \in Nat
  BY DEF TypeOK
<1> QED BY <1>1, <1>2, <1>3

(* The end of an upload: the key of the request is covered by uploadTime,  *)
(* which never moves back.                                                 *)
LEMMA FinishUploadTime ==
  ASSUME TimeInv, TypeOK', FinishUpload, net' = net, pc \in {"send", "await"}
  PROVE  TimeInv'
<1> USE DEF TimeInv, FinishUpload
<1>1. ClockInv'
  BY DEF ClockInv
<1>2. IterInv' /\ ReqInv'
  BY DEF IterInv, ReqInv, Iterating
<1>3. uploadTime <= uploadTime' /\ uploadTime' = NextUpload(timer)
  BY PeriodAssumption DEF TypeOK, IterInv, NextUpload
<1>4. RecordInv'
  <2> SUFFICES ASSUME NEW r \in Issued, Trusted(r)
               PROVE  /\ r.timer <= r.timestamp /\ r.timestamp <= r.key
                      /\ r.key <= wall
                      /\ r.key <= uploadTime' \/ r.key < bootWall
    BY DEF RecordInv, Trusted, Issued
  <2>1. r.key \in Nat /\ uploadTime \in Nat /\ uploadTime' \in Nat
    BY IssuedType DEF TypeOK
  <2>2. CASE pc = "await" /\ r = req
    <3>1. timer >= Epoch
      BY <2>2 DEF ReqInv, Trusted
    <3>2. r.key <= uploadTime'
      BY <2>2, <3>1, <1>3 DEF ReqInv
    <3> QED BY <3>2 DEF RecordInv
  <2>3. CASE ~(pc = "await" /\ r = req)
    BY <2>1, <2>3, <1>3 DEF RecordInv
  <2> QED BY <2>2, <2>3
<1>5. Separated'
  BY SeparatedStep DEF Issued
<1> QED BY <1>1, <1>2, <1>4, <1>5

(* A restart: every key is before bootWall from then on.                   *)
LEMMA RestartTime ==
  ASSUME TimeInv, TypeOK', NEW t \in Nat, Restart(t),
         synced' => t = wall + BootTime, ~synced' => t < Epoch
  PROVE  TimeInv'
<1> USE DEF TimeInv, Restart
<1>1. wall \in Nat /\ bootWall \in Nat /\ iterStart \in Nat /\ BootTime \in Nat
      /\ BootTime > 0 /\ Epoch \in Nat
  BY BootAssumption, EpochAssumption DEF TypeOK
<1>2. ClockInv'
  BY <1>1 DEF ClockInv
<1>3. IterInv' /\ ReqInv'
  BY DEF IterInv, ReqInv, Iterating
<1>4. RecordInv'
  <2> SUFFICES ASSUME NEW r \in Issued, Trusted(r)
               PROVE  /\ r.timer <= r.timestamp /\ r.timestamp <= r.key
                      /\ r.key <= wall' /\ r.key < bootWall'
    BY DEF RecordInv, Trusted, Issued
  <2>1. r.key \in Nat
    BY IssuedType
  <2> QED BY <2>1, <1>1 DEF RecordInv
<1>5. Separated'
  BY SeparatedStep DEF Issued
<1> QED BY <1>2, <1>3, <1>4, <1>5

(* A PUT is issued: its timer read is after uploadTime and after bootWall, *)
(* so after the key of every record issued before.                         *)
LEMMA SendPutTime ==
  ASSUME TimeInv, TypeOK', SendPut PROVE TimeInv'
<1> USE DEF TimeInv
<1> DEFINE new == [req EXCEPT !.key = clock]
<1>1. /\ req' = new /\ Issued' = Issued \cup {new}
      /\ new.key = clock /\ new.timestamp = req.timestamp
      /\ new.timer = timer /\ pc = "send" /\ pc' = "await"
      /\ UNCHANGED <<wall, clock, synced, timer, uploadTime, iterStart, bootWall>>
  BY DEF SendPut, Issued, TypeOK, Request, ReqInv, boardVars, ghostVars
<1>2. /\ wall \in Nat /\ timer \in Nat /\ uploadTime \in Nat /\ bootWall \in Nat
      /\ iterStart \in Nat /\ clock \in Nat /\ Epoch \in Nat
      /\ MaxStall \in Nat /\ UploadPeriod \in Nat /\ MaxStall <= UploadPeriod
      /\ req.timestamp \in Nat
  BY EpochAssumption, StallAssumption, PeriodAssumption DEF TypeOK, Request
<1>3. Trusted(new) =>
        /\ clock = wall /\ bootWall <= timer /\ uploadTime < timer
        /\ clock <= NextUpload(timer)
        /\ timer <= new.timestamp /\ new.timestamp <= new.key /\ new.key <= wall
  BY <1>1, <1>2 DEF Trusted, ClockInv, IterInv, ReqInv, Iterating, NextUpload
<1>4. ClockInv'
  BY <1>1 DEF ClockInv
<1>5. IterInv'
  BY <1>1 DEF IterInv, Iterating
<1>6. ReqInv'
  BY <1>1, <1>3 DEF ReqInv, Trusted, NextUpload
<1>7. RecordInv'
  BY <1>1, <1>3 DEF RecordInv, Trusted
<1>8. ASSUME NEW r \in Issued, Trusted(r), Trusted(new)
      PROVE  r.key < new.timer /\ r.timestamp < new.timestamp
  <2>1. r.key \in Nat /\ r.timestamp \in Nat
    BY IssuedType
  <2> QED BY <1>1, <1>2, <1>3, <1>8, <2>1 DEF RecordInv
<1>9. Separated'
  BY <1>1, <1>8 DEF Separated, Trusted
<1> QED BY <1>4, <1>5, <1>6, <1>7, <1>9

(* TimeInv holds at power-on, when nothing has been issued.                *)
LEMMA TimeInit == ASSUME Init PROVE TimeInv
<1>1. TypeOK
  BY TypeInit
<1>2. Issued = {}
  BY DEF Init, Issued
<1>3. ClockInv
  BY EpochAssumption DEF Init, ClockInv
<1>4. IterInv /\ ReqInv
  BY DEF Init, IterInv, ReqInv, Iterating
<1>5. RecordInv /\ Separated
  BY <1>2 DEF RecordInv, Separated
<1> QED BY <1>1, <1>3, <1>4, <1>5 DEF TimeInv

(* Every step keeps TimeInv: one case for each action of the board, the    *)
(* clock, the network and the database.                                    *)
LEMMA TimeStep == ASSUME TimeInv, [Next]_vars PROVE TimeInv'
<1>0. TypeOK /\ TypeOK' /\ ClockInv /\ IterInv /\ ReqInv /\ RecordInv /\ Separated
  BY TypeStep DEF TimeInv
<1>a. /\ wall \in Nat /\ clock \in Nat /\ timer \in Nat /\ uploadTime \in Nat
      /\ iterStart \in Nat /\ bootWall \in Nat /\ Epoch \in Nat
      /\ MaxStall \in Nat /\ BootTime \in Nat
  BY <1>0, EpochAssumption, StallAssumption, BootAssumption DEF TypeOK
<1>b. wall <= wall /\ uploadTime <= uploadTime /\ bootWall <= bootWall
  BY <1>a
<1> USE DEF boardVars, ghostVars
<1>1. CASE Tick
  <2> USE <1>1 DEF Tick
  <2>1. ClockInv' /\ IterInv'
    BY <1>0, <1>a DEF ClockInv, IterInv, Iterating
  <2>2. ReqInv'
    BY <1>0, <1>a DEF ReqInv, NextUpload, TypeOK, Request
  <2>3. RecordInv' /\ Separated'
    BY <1>0, <1>a, <1>b, RecordStep, SeparatedStep DEF Issued
  <2> QED BY <1>0, <2>1, <2>2, <2>3 DEF TimeInv
<1>2. CASE NtpSync
  <2> USE <1>2 DEF NtpSync
  <2>1. ClockInv' /\ IterInv' /\ ReqInv'
    BY <1>0, <1>a DEF ClockInv, IterInv, ReqInv, Iterating, NextUpload
  <2>2. RecordInv' /\ Separated'
    BY <1>0, <1>b, RecordStep, SeparatedStep DEF Issued
  <2> QED BY <1>0, <2>1, <2>2 DEF TimeInv
<1>3. CASE Setup
  <2> USE <1>3 DEF Setup
  <2>1. ClockInv' /\ IterInv' /\ ReqInv'
    BY <1>0 DEF ClockInv, IterInv, ReqInv, Iterating
  <2>2. RecordInv' /\ Separated'
    BY <1>0, <1>b, RecordStep, SeparatedStep DEF Issued
  <2> QED BY <1>0, <2>1, <2>2 DEF TimeInv
<1>4. CASE ReadTimer
  <2> USE <1>4 DEF ReadTimer
  <2>1. ClockInv' /\ IterInv' /\ ReqInv'
    BY <1>0, <1>a DEF ClockInv, IterInv, ReqInv, Iterating
  <2>2. RecordInv' /\ Separated'
    BY <1>0, <1>b, RecordStep, SeparatedStep DEF Issued
  <2> QED BY <1>0, <2>1, <2>2 DEF TimeInv
<1>5. ASSUME NEW d \in Durations, Ultrasound(d) PROVE TimeInv'
  <2> USE <1>5 DEF Ultrasound
  <2>1. ClockInv' /\ IterInv' /\ ReqInv'
    BY <1>0, <1>a DEF ClockInv, IterInv, ReqInv, Iterating
  <2>2. RecordInv' /\ Separated'
    BY <1>0, <1>b, RecordStep, SeparatedStep DEF Issued
  <2> QED BY <1>0, <2>1, <2>2 DEF TimeInv
<1>6. CASE Stamp
  <2> USE <1>6 DEF Stamp
  <2>1. ClockInv' /\ IterInv'
    BY <1>0 DEF ClockInv, IterInv, Iterating
  <2>2. ReqInv'
    BY <1>0, <1>a DEF ClockInv, IterInv, ReqInv, Iterating
  <2>3. RecordInv' /\ Separated'
    BY <1>0, <1>b, RecordStep, SeparatedStep DEF Issued
  <2> QED BY <1>0, <2>1, <2>2, <2>3 DEF TimeInv
<1>7. CASE SendPut
  BY <1>0, <1>7, SendPutTime
<1>8. CASE SendFails
  BY <1>0, <1>8, FinishUploadTime DEF SendFails
<1>9. CASE PutAnswered
  BY <1>0, <1>9, FinishUploadTime DEF PutAnswered
<1>10. CASE PutTimesOut
  BY <1>0, <1>10, FinishUploadTime DEF PutTimesOut
<1>11. ASSUME NEW r \in net, ServerApply(r) PROVE TimeInv'
  <2> USE <1>11 DEF ServerApply
  <2>1. ClockInv' /\ IterInv' /\ ReqInv'
    BY <1>0 DEF ClockInv, IterInv, ReqInv, Iterating, NextUpload
  <2>2. Issued' \subseteq Issued
    BY DEF Issued
  <2>3. RecordInv' /\ Separated'
    BY <1>0, <1>b, <2>2, RecordStep, SeparatedStep
  <2> QED BY <1>0, <2>1, <2>3 DEF TimeInv
<1>12. ASSUME NEW r \in net, ServerDrop(r) PROVE TimeInv'
  <2> USE <1>12 DEF ServerDrop
  <2>1. ClockInv' /\ IterInv' /\ ReqInv'
    BY <1>0 DEF ClockInv, IterInv, ReqInv, Iterating, NextUpload
  <2>2. Issued' \subseteq Issued
    BY DEF Issued
  <2>3. RecordInv' /\ Separated'
    BY <1>0, <1>b, <2>2, RecordStep, SeparatedStep
  <2> QED BY <1>0, <2>1, <2>3 DEF TimeInv
<1>13. CASE PowerCycle
  <2>1. Restart(0) /\ ~synced' /\ 0 < Epoch
    BY <1>13, EpochAssumption DEF PowerCycle
  <2> QED BY <1>0, <2>1, RestartTime
<1>14. CASE SoftReset
  <2>1. /\ Restart(clock + BootTime) /\ clock + BootTime \in Nat
        /\ synced' => clock + BootTime = wall + BootTime
        /\ ~synced' => clock + BootTime < Epoch
    BY <1>0, <1>a, <1>14 DEF SoftReset, ClockInv
  <2> QED BY <1>0, <2>1, RestartTime
<1>15. CASE UNCHANGED vars
  BY <1>0, <1>15
     DEF vars, TimeInv, ClockInv, IterInv, ReqInv, RecordInv, Separated,
         Issued, Iterating, Trusted, NextUpload
<1> QED BY <1>1, <1>2, <1>3, <1>4, <1>5, <1>6, <1>7, <1>8, <1>9, <1>10,
           <1>11, <1>12, <1>13, <1>14, <1>15 DEF Next, Board, SetReturns

(* TimeInv is an invariant of the specification.                           *)
LEMMA TimeCorrect == Spec => []TimeInv
BY TimeInit, TimeStep, PTL DEF Spec

(* Records made with a set clock are a timer read apart: the keys that     *)
(* loop() builds in iot.ino:79 never collide, and sort by timestamp.       *)
THEOREM RecordsSeparated == Spec => []Separated
<1>1. TimeInv => Separated
  BY DEF TimeInv
<1> QED BY <1>1, TimeCorrect, PTL

-----------------------------------------------------------------------------
(* The record of an iteration during which SNTP set the clock.             *)
Straddles(r) == ~Trusted(r) /\ r.key >= Epoch

(* Such a record is of an earlier start, or the clock is set and no        *)
(* iteration that will upload began before it was.                         *)
StraddleInv ==
  \A r \in Issued : Straddles(r) =>
    /\ r.key <= wall
    /\ \/ r.key < bootWall
       \/ synced /\ (pc \in {"sense", "stamp", "send"} => timer >= Epoch)

(* No two of them share a key.                                             *)
StraddlersApart ==
  \A r, s \in Issued : Straddles(r) /\ Straddles(s) /\ r # s => r.key # s.key

SyncInv == TimeInv /\ StraddleInv /\ StraddlersApart

(* While no PUT is issued and the board runs on, a clock that is set stays *)
(* set, and the next iteration reads it.                                   *)
LEMMA StraddleStep ==
  ASSUME SyncInv, TimeInv', Issued' \subseteq Issued, wall <= wall',
         bootWall <= bootWall', synced => synced',
         \/ timer' = timer /\ (pc' = pc \/ pc \in {"sense", "stamp"})
         \/ pc' \notin {"sense", "stamp", "send"}
         \/ timer' = clock
  PROVE  SyncInv'
<1> USE DEF SyncInv
<1>1. StraddlersApart'
  BY DEF StraddlersApart, Straddles, Trusted
<1>2. /\ wall \in Nat /\ wall' \in Nat /\ bootWall \in Nat /\ bootWall' \in Nat
      /\ Epoch \in Nat /\ Epoch <= bootWall /\ bootWall <= wall /\ (synced => clock = wall)
  BY EpochAssumption DEF TimeInv, TypeOK, ClockInv
<1>3. StraddleInv'
  <2> SUFFICES ASSUME NEW r \in Issued', Straddles(r)
               PROVE  /\ r.key <= wall'
                      /\ \/ r.key < bootWall'
                         \/ synced' /\ (pc' \in {"sense", "stamp", "send"} => timer' >= Epoch)
    BY DEF StraddleInv, Straddles, Trusted
  <2>1. r \in Issued /\ r.key \in Nat
    BY IssuedType DEF TimeInv
  <2>2. /\ r.key <= wall
        /\ \/ r.key < bootWall
           \/ synced /\ (pc \in {"sense", "stamp", "send"} => timer >= Epoch)
    BY <2>1 DEF StraddleInv
  <2>3. r.key <= wall'
    BY <1>2, <2>1, <2>2
  <2>4. CASE r.key < bootWall
    BY <1>2, <2>1, <2>3, <2>4
  <2>5. CASE synced /\ (pc \in {"sense", "stamp", "send"} => timer >= Epoch)
    <3>1. clock >= Epoch
      BY <1>2, <2>5
    <3> QED BY <2>3, <2>5, <3>1
  <2> QED BY <2>2, <2>4, <2>5
<1> QED BY <1>1, <1>3

(* After a restart every key is before bootWall.                           *)
LEMMA RestartSync ==
  ASSUME SyncInv, TimeInv', NEW t, Restart(t) PROVE SyncInv'
<1> USE DEF SyncInv
<1>1. /\ wall \in Nat /\ BootTime \in Nat /\ BootTime > 0 /\ Issued' = Issued
      /\ wall' = wall + BootTime /\ bootWall' = wall + BootTime
  BY BootAssumption DEF TimeInv, TypeOK, Restart, Issued
<1>2. StraddlersApart'
  BY <1>1 DEF StraddlersApart, Straddles, Trusted
<1>3. ASSUME NEW r \in Issued, Straddles(r) PROVE r.key <= wall' /\ r.key < bootWall'
  <2>1. r.key \in Nat /\ r.key <= wall
    BY <1>3, IssuedType DEF TimeInv, StraddleInv
  <2> QED BY <1>1, <2>1
<1>4. StraddleInv'
  BY <1>1, <1>3 DEF StraddleInv, Straddles, Trusted
<1> QED BY <1>2, <1>4

(* A PUT is issued.  If SNTP set the clock in this iteration, every other  *)
(* record of that kind is of an earlier start, and its key is smaller.     *)
LEMMA SendPutSync ==
  ASSUME SyncInv, TimeInv', SendPut PROVE SyncInv'
<1> USE DEF SyncInv
<1> DEFINE new == [req EXCEPT !.key = clock]
<1>1. /\ Issued' = Issued \cup {new} /\ new.key = clock /\ new.timer = timer
      /\ pc = "send" /\ pc' = "await"
      /\ UNCHANGED <<wall, synced, timer, bootWall>>
  BY DEF SendPut, Issued, TimeInv, TypeOK, Request, ReqInv, boardVars, ghostVars
<1>2. /\ wall \in Nat /\ bootWall \in Nat /\ clock \in Nat /\ timer \in Nat /\ Epoch \in Nat
      /\ bootWall <= wall /\ (synced => clock = wall) /\ (~synced => clock < Epoch)
  BY EpochAssumption DEF TimeInv, TypeOK, ClockInv
<1> HIDE DEF new
<1>3. Straddles(new) => synced /\ new.key = wall /\ timer < Epoch
  BY <1>1, <1>2 DEF Straddles, Trusted
<1>4. ASSUME NEW r \in Issued, Straddles(r), Straddles(new) PROVE r.key < new.key
  <2>1. r.key \in Nat
    BY IssuedType DEF TimeInv
  <2>2. r.key < bootWall
    BY <1>1, <1>2, <1>3, <1>4 DEF StraddleInv
  <2> QED BY <1>2, <1>3, <1>4, <2>1, <2>2
<1>5. ASSUME NEW r \in Issued, Straddles(r), Straddles(new) PROVE r.key # new.key
  <2>1. r.key \in Nat
    BY IssuedType DEF TimeInv
  <2> QED BY <1>1, <1>2, <1>4, <1>5, <2>1
<1>6. StraddlersApart'
  BY <1>1, <1>5 DEF StraddlersApart, Straddles, Trusted
<1>7. ASSUME NEW r \in Issued', Straddles(r)
      PROVE  r.key <= wall /\ (r.key < bootWall \/ synced)
  <2>1. CASE r \in Issued
    BY <1>7, <2>1 DEF StraddleInv
  <2>2. CASE r = new
    BY <1>2, <1>3, <1>7, <2>2
  <2> QED BY <1>1, <2>1, <2>2
<1>8. StraddleInv'
  BY <1>1, <1>7 DEF StraddleInv, Straddles, Trusted
<1> QED BY <1>6, <1>8

LEMMA SyncInit == ASSUME Init PROVE SyncInv
<1>1. Issued = {}
  BY DEF Init, Issued
<1> QED BY <1>1, TimeInit DEF SyncInv, StraddleInv, StraddlersApart

(* Every step keeps the invariant.                                         *)
LEMMA SyncStep == ASSUME SyncInv, [Next]_vars PROVE SyncInv'
<1>0. TimeInv'
  BY TimeStep DEF SyncInv
<1>1. /\ wall \in Nat /\ bootWall \in Nat
      /\ wall <= wall /\ bootWall <= bootWall /\ wall <= wall + 1
  BY DEF SyncInv, TimeInv, TypeOK
<1> USE DEF boardVars, ghostVars
<1>2. CASE Tick
  BY <1>0, <1>1, <1>2, StraddleStep DEF Tick, Issued
<1>3. CASE NtpSync
  BY <1>0, <1>1, <1>3, StraddleStep DEF NtpSync, Issued
<1>4. CASE Setup
  BY <1>0, <1>1, <1>4, StraddleStep DEF Setup, Issued
<1>5. CASE ReadTimer
  BY <1>0, <1>1, <1>5, StraddleStep DEF ReadTimer, Issued
<1>6. ASSUME NEW d \in Durations, Ultrasound(d) PROVE SyncInv'
  BY <1>0, <1>1, <1>6, StraddleStep DEF Ultrasound, Issued
<1>7. CASE Stamp
  BY <1>0, <1>1, <1>7, StraddleStep DEF Stamp, Issued
<1>8. CASE SendPut
  BY <1>0, <1>8, SendPutSync
<1>9. CASE SendFails \/ PutAnswered \/ PutTimesOut
  BY <1>0, <1>1, <1>9, StraddleStep
     DEF SendFails, PutAnswered, PutTimesOut, FinishUpload, Issued
<1>10. ASSUME NEW r \in net, ServerApply(r) PROVE SyncInv'
  <2>1. Issued' \subseteq Issued
    BY <1>10 DEF ServerApply, Issued
  <2> QED BY <1>0, <1>1, <1>10, <2>1, StraddleStep DEF ServerApply
<1>11. ASSUME NEW r \in net, ServerDrop(r) PROVE SyncInv'
  <2>1. Issued' \subseteq Issued
    BY <1>11 DEF ServerDrop, Issued
  <2> QED BY <1>0, <1>1, <1>11, <2>1, StraddleStep DEF ServerDrop
<1>12. CASE PowerCycle \/ SoftReset
  BY <1>0, <1>12, RestartSync DEF PowerCycle, SoftReset
<1>13. CASE UNCHANGED vars
  BY <1>0, <1>1, <1>13, StraddleStep DEF vars, Issued
<1> QED BY <1>2, <1>3, <1>4, <1>5, <1>6, <1>7, <1>8, <1>9, <1>10, <1>11, <1>12, <1>13
        DEF Next, Board, SetReturns

LEMMA SyncCorrect == Spec => []SyncInv
BY SyncInit, SyncStep, PTL DEF Spec

(* Two issued records at one key of the present: one of them straddles.    *)
LEMMA OneStraddles ==
  ASSUME SyncInv, NEW r \in Issued, NEW s \in Issued,
         r # s, r.key = s.key, r.key >= Epoch
  PROVE  Trusted(r) <=> ~Trusted(s)
<1> USE DEF SyncInv
<1>1. /\ r.key \in Nat /\ r.timer \in Nat /\ s.timer \in Nat
      /\ r.timestamp \in Nat /\ s.timestamp \in Nat
  BY IssuedType DEF TimeInv
<1>2. ASSUME Trusted(r), Trusted(s) PROVE FALSE
  <2>1. /\ r.timer <= r.timestamp /\ r.timestamp <= r.key
        /\ s.timer <= s.timestamp /\ s.timestamp <= s.key
    BY <1>2 DEF TimeInv, RecordInv
  <2> QED BY <1>1, <1>2, <2>1 DEF TimeInv, Separated
<1>3. ASSUME ~Trusted(r), ~Trusted(s) PROVE FALSE
  BY <1>3 DEF StraddlersApart, Straddles
<1> QED BY <1>2, <1>3

(* At a key of the present, where the app lists records and onCreateData   *)
(* announces them, the PUT of iot.ino:79 replaces a record only where the  *)
(* record of an iteration during which SNTP set the clock meets one of a   *)
(* set clock, across restarts, late PUTs and a slow sensor.                *)
THEOREM OverwritesOnlyAtSync == Spec => OverwriteOnlyAtSync
<1>1. SyncInv /\ [Next]_vars => db' \subseteq Issued
  BY DEF Next, Board, SetReturns, Tick, NtpSync, Setup, ReadTimer, Ultrasound, Stamp,
         SendPut, SendFails, PutAnswered, PutTimesOut, FinishUpload, ServerApply,
         ServerDrop, PowerCycle, SoftReset, Restart, vars, Issued
<1>2. SyncInv /\ [Next]_vars =>
        [\A r \in db, s \in db' :
           r # s /\ r.key = s.key /\ r.key >= Epoch => (Trusted(r) <=> ~Trusted(s))]_vars
  BY <1>1, OneStraddles DEF Issued
<1> QED BY <1>2, SyncCorrect, PTL DEF Spec, OverwriteOnlyAtSync

-----------------------------------------------------------------------------
(* A shipment is among those of a set of requests if one of them has it.   *)
LEMMA IdsMember ==
  ASSUME NEW S, NEW i PROVE i \in Ids(S) <=> \E r \in S : i \in r.ids
BY DEF Ids

(* Steps that neither count, issue, apply nor forget a shipment.           *)
LEMMA CountKeep ==
  ASSUME CountInv, TypeOK',
         UNCHANGED <<net, db, pending, gone, drops, getGoods, req>>,
         pc' = pc \/ (pc # "await" /\ pc' \notin {"send", "await"})
  PROVE  CountInv'
<1> USE DEF CountInv
<1>1. Issued' = Issued /\ Ids(Issued)' = Ids(Issued)
  BY DEF Issued, Ids
<1>2. CounterInv'
  BY <1>1 DEF CounterInv
<1>3. ResentInv' /\ LossAccounted'
  BY <1>1 DEF ResentInv, LossAccounted
<1>4. ReportedOnce'
  BY <1>1 DEF ReportedOnce
<1> QED BY <1>2, <1>3, <1>4

(* A shipment is counted: its identity is new.                             *)
LEMMA UltrasoundCount ==
  ASSUME CountInv, TypeOK', NEW d \in Durations, Ultrasound(d)
  PROVE  CountInv'
<1> USE DEF CountInv
<1>1. /\ Issued' = Issued /\ Ids(Issued)' = Ids(Issued) /\ gone' = gone
      /\ net' = net /\ db' = db
      /\ pc # "await" /\ pc' \notin {"send", "await"}
  BY DEF Issued, Ids, Ultrasound
<1>2. CASE UNCHANGED <<getGoods, drops, pending>>
  BY <1>1, <1>2, CountKeep DEF Ultrasound
<1>3. CASE /\ getGoods' = getGoods + 1 /\ drops' = drops + 1
           /\ pending' = pending \cup {drops + 1}
  <2>1. drops \in Nat
    BY DEF TypeOK
  <2>2. IsFiniteSet(pending)
    BY <2>1, FS_Interval, FS_Subset, 1 \in Int, drops \in Int DEF CounterInv
  <2>3. drops + 1 \notin 1..drops /\ 1..(drops + 1) = 1..drops \cup {drops + 1}
    BY <2>1
  <2>4. drops + 1 \notin pending
    BY <2>3 DEF CounterInv
  <2>5. Cardinality(pending') = Cardinality(pending) + 1
    BY <1>3, <2>2, <2>4, FS_AddElement
  <2>6. Ids(Issued) \subseteq 1..drops /\ gone \subseteq 1..drops
    BY DEF LossAccounted
  <2>7. pending \cap (Ids(Issued) \cup gone) = {}
    BY <1>1 DEF CounterInv
  <2>8. CounterInv'
    BY <1>1, <1>3, <2>3, <2>5, <2>6, <2>7 DEF CounterInv
  <2>9. ResentInv' /\ LossAccounted'
    BY <1>1, <1>3, <2>3 DEF ResentInv, LossAccounted
  <2>10. pending' \cap Ids(Issued)' = {}
    BY <1>1, <1>3, <2>3, <2>6, <2>7
  <2>11. ReportedOnce'
    BY <1>1, <2>10 DEF ReportedOnce
  <2> QED BY <2>8, <2>9, <2>11
<1> QED BY <1>2, <1>3 DEF Ultrasound

(* The object is filled in from the counter.                               *)
LEMMA StampCount ==
  ASSUME CountInv, TypeOK', Stamp PROVE CountInv'
<1> USE DEF CountInv, boardVars, ghostVars
<1>1. /\ Issued' = Issued /\ Ids(Issued)' = Ids(Issued) /\ gone' = gone
      /\ net' = net /\ db' = db /\ pc = "stamp" /\ pc' = "send"
      /\ UNCHANGED <<pending, getGoods, drops>>
      /\ req'.ids = pending /\ req'.goods = getGoods
  BY DEF Issued, Ids, Stamp
<1>2. CounterInv'
  BY <1>1 DEF CounterInv
<1>3. ResentInv' /\ LossAccounted'
  BY <1>1 DEF ResentInv, LossAccounted
<1>4. ReportedOnce'
  BY <1>1 DEF ReportedOnce
<1> QED BY <1>2, <1>3, <1>4

(* The PUT leaves: it counts what the counter counts, and nobody else did. *)
LEMMA SendPutCount ==
  ASSUME CountInv, TypeOK', SendPut PROVE CountInv'
<1> USE DEF CountInv, boardVars, ghostVars
<1>1. /\ req' = [req EXCEPT !.key = clock] /\ net' = net \cup {req'}
      /\ pc = "send" /\ pc' = "await"
      /\ UNCHANGED <<db, gone, pending, getGoods, drops>>
  BY DEF SendPut
<1>2. req'.ids = pending /\ req'.goods = getGoods
  BY <1>1 DEF TypeOK, Request, CounterInv
<1>3. Issued' = Issued \cup {req'} /\ req' \in Issued'
  BY <1>1 DEF Issued
<1>4. Ids(Issued)' = Ids(Issued) \cup pending
  BY <1>2, <1>3 DEF Ids
<1>5. pending \cap (Ids(Issued) \cup gone) = {}
  BY <1>1 DEF CounterInv
<1>6. \A r \in Issued : r.ids \cap pending = {}
  BY <1>5, IdsMember
<1>7. CounterInv'
  BY <1>1, <1>2, <1>3, <1>4, <1>6 DEF CounterInv
<1>8. ResentInv'
  <2>1. req' \in db => req'.ids = {}
    BY <1>2, <1>6 DEF Issued
  <2> QED BY <1>1, <2>1 DEF ResentInv
<1>9. LossAccounted'
  BY <1>1, <1>4, <1>5 DEF LossAccounted
<1>10. ReportedOnce'
  <2>1. \A r, s \in Issued' : r # s => r.ids \cap s.ids = {}
    BY <1>2, <1>3, <1>6 DEF ReportedOnce
  <2>2. \A r \in Issued' : r.goods = Cardinality(r.ids)
    BY <1>2, <1>3 DEF ReportedOnce, CounterInv
  <2> QED BY <1>1, <2>1, <2>2 DEF ReportedOnce
<1> QED BY <1>7, <1>8, <1>9, <1>10

(* The counter is cleared; lost is what no record will report because of   *)
(* it.                                                                     *)
LEMMA ClearedCount ==
  ASSUME CountInv, TypeOK', net' = net, db' = db, drops' = drops,
         getGoods' = 0, pending' = {}, pc' \notin {"send", "await"},
         NEW lost, gone' = gone \cup lost, lost \subseteq pending,
         lost \cap Ids(Issued) = {},
         pending \subseteq Ids(Issued) \cup gone \cup lost
  PROVE  CountInv'
<1> USE DEF CountInv
<1>1. Issued' = Issued /\ Ids(Issued)' = Ids(Issued)
  BY DEF Issued, Ids
<1>2. Cardinality({}) = 0
  BY FS_EmptySet
<1>3. CounterInv'
  <2>1. getGoods' = Cardinality(pending')
    BY <1>2
  <2>2. pending' \subseteq 1..drops' /\ gone' \subseteq 1..drops'
    BY DEF CounterInv
  <2>3. pending' \cap (Ids(Issued)' \cup gone') = {}
    OBVIOUS
  <2> QED BY <2>1, <2>2, <2>3 DEF CounterInv
<1>4. ResentInv' /\ LossAccounted'
  BY <1>1 DEF ResentInv, LossAccounted
<1>5. ReportedOnce'
  BY <1>1 DEF ReportedOnce
<1> QED BY <1>3, <1>4, <1>5

(* Two equal records can only count nothing; an overwritten one takes its  *)
(* shipments with it, and only those.                                      *)
LEMMA ServerApplyCount ==
  ASSUME CountInv, TypeOK', NEW r \in net, ServerApply(r) PROVE CountInv'
<1> USE DEF CountInv, boardVars, ghostVars
<1> DEFINE old == {x \in db : x.key = r.key}
<1>1. /\ db' = (db \ old) \cup {r} /\ net' = net \ {r}
      /\ gone' = gone \cup Ids(old)
      /\ UNCHANGED <<pending, getGoods, drops, req, pc>>
  BY DEF ServerApply
<1>2. /\ Issued' \subseteq Issued /\ old \subseteq Issued /\ r \in Issued
      /\ Issued \subseteq Issued' \cup old
  BY <1>1 DEF Issued
<1>3. ASSUME NEW x \in old, NEW s \in Issued' PROVE x.ids \cap s.ids = {}
  <2>1. CASE x # s
    BY <1>2, <2>1 DEF ReportedOnce
  <2>2. CASE x = s
    <3>1. x \in net /\ x \in db
      BY <1>1, <2>2 DEF Issued
    <3> QED BY <3>1 DEF ResentInv
  <2> QED BY <2>1, <2>2
<1>4. Ids(old) \cap Ids(Issued') = {}
  BY <1>3, IdsMember
<1>5. /\ Ids(Issued') \subseteq Ids(Issued) /\ Ids(old) \subseteq Ids(Issued)
      /\ Ids(Issued) \subseteq Ids(Issued') \cup Ids(old)
  BY <1>2, IdsMember
<1>6. Ids(Issued)' = Ids(Issued')
  BY DEF Ids
<1>7. LossAccounted'
  BY <1>1, <1>4, <1>5, <1>6 DEF LossAccounted
<1>8. CounterInv'
  <2>1. gone' \subseteq 1..drops
    BY <1>1, <1>5 DEF CounterInv, LossAccounted
  <2>2. Ids(Issued') \cup gone' = Ids(Issued) \cup gone
    BY <1>1, <1>5
  <2> QED BY <1>1, <1>2, <1>6, <2>1, <2>2 DEF CounterInv
<1>9. ResentInv'
  <2>1. \A x \in net' \cap db' : x \in net \cap db
    BY <1>1
  <2> QED BY <2>1 DEF ResentInv
<1>10. ReportedOnce'
  BY <1>1, <1>2, <1>5, <1>6 DEF ReportedOnce
<1> QED BY <1>7, <1>8, <1>9, <1>10

(* A PUT that never arrives loses its shipments and only those.            *)
LEMMA ServerDropCount ==
  ASSUME CountInv, TypeOK', NEW r \in net, ServerDrop(r) PROVE CountInv'
<1> USE DEF CountInv, boardVars, ghostVars
<1>1. /\ db' = db /\ net' = net \ {r} /\ gone' = gone \cup r.ids
      /\ UNCHANGED <<pending, getGoods, drops, req, pc>>
  BY DEF ServerDrop
<1>2. /\ Issued' \subseteq Issued /\ r \in Issued
      /\ Issued \subseteq Issued' \cup {r}
  BY <1>1 DEF Issued
<1>3. ASSUME NEW s \in Issued' PROVE r.ids \cap s.ids = {}
  <2>1. CASE r # s
    BY <1>2, <2>1 DEF ReportedOnce
  <2>2. CASE r = s
    <3>1. r \in net /\ r \in db
      BY <1>1, <2>2 DEF Issued
    <3> QED BY <3>1 DEF ResentInv
  <2> QED BY <2>1, <2>2
<1>4. r.ids \cap Ids(Issued') = {}
  BY <1>3, IdsMember
<1>5. /\ Ids(Issued') \subseteq Ids(Issued) /\ r.ids \subseteq Ids(Issued)
      /\ Ids(Issued) \subseteq Ids(Issued') \cup r.ids
  BY <1>2, IdsMember
<1>6. Ids(Issued)' = Ids(Issued')
  BY DEF Ids
<1>7. LossAccounted'
  BY <1>1, <1>4, <1>5, <1>6 DEF LossAccounted
<1>8. CounterInv'
  <2>1. gone' \subseteq 1..drops
    BY <1>1, <1>5 DEF CounterInv, LossAccounted
  <2>2. Ids(Issued') \cup gone' = Ids(Issued) \cup gone
    BY <1>1, <1>5
  <2> QED BY <1>1, <1>2, <1>6, <2>1, <2>2 DEF CounterInv
<1>9. ResentInv'
  BY <1>1 DEF ResentInv
<1>10. ReportedOnce'
  BY <1>1, <1>2, <1>5, <1>6 DEF ReportedOnce
<1> QED BY <1>7, <1>8, <1>9, <1>10

(* CountInv holds at power-on, when nothing has been counted.              *)
LEMMA CountInit == ASSUME Init PROVE CountInv
<1>1. TypeOK
  BY TypeInit
<1>2. Issued = {} /\ Ids(Issued) = {}
  BY DEF Init, Issued, Ids
<1>3. Cardinality({}) = 0 /\ 1..0 = {}
  BY FS_EmptySet
<1>4. CounterInv
  BY <1>3 DEF Init, CounterInv
<1>5. ResentInv /\ ReportedOnce /\ LossAccounted
  BY <1>2, <1>3 DEF Init, ResentInv, ReportedOnce, LossAccounted
<1> QED BY <1>1, <1>4, <1>5 DEF CountInv

(* Every step keeps CountInv: one case for each action.                    *)
LEMMA CountStep == ASSUME CountInv, [Next]_vars PROVE CountInv'
<1>0. CountInv /\ TypeOK /\ TypeOK'
  BY TypeStep DEF CountInv
<1> USE DEF boardVars, ghostVars
<1>1. CASE Tick
  BY <1>0, <1>1, CountKeep DEF Tick
<1>2. CASE NtpSync
  BY <1>0, <1>2, CountKeep DEF NtpSync
<1>3. CASE Setup
  BY <1>0, <1>3, CountKeep DEF Setup
<1>4. CASE ReadTimer
  BY <1>0, <1>4, CountKeep DEF ReadTimer
<1>5. ASSUME NEW d \in Durations, Ultrasound(d) PROVE CountInv'
  BY <1>0, <1>5, UltrasoundCount
<1>6. CASE Stamp
  BY <1>0, <1>6, StampCount
<1>7. CASE SendPut
  BY <1>0, <1>7, SendPutCount
<1>8. CASE SendFails
  <2>1. pending \cap Ids(Issued) = {}
    BY <1>8 DEF CountInv, ReportedOnce, SendFails
  <2> QED BY <1>0, <1>8, <2>1, ClearedCount DEF SendFails, FinishUpload
<1>9. CASE PutAnswered \/ PutTimesOut
  <2>1. pending \subseteq Ids(Issued) \cup gone
    BY <1>9 DEF CountInv, CounterInv, PutAnswered, PutTimesOut
  <2>2. gone' = gone \cup {} /\ {} \cap Ids(Issued) = {} /\ FinishUpload
        /\ net' = net
    BY <1>9 DEF PutAnswered, PutTimesOut
  <2> QED BY <1>0, <2>1, <2>2, ClearedCount DEF FinishUpload
<1>10. ASSUME NEW r \in net, ServerApply(r) PROVE CountInv'
  BY <1>0, <1>10, ServerApplyCount
<1>11. ASSUME NEW r \in net, ServerDrop(r) PROVE CountInv'
  BY <1>0, <1>11, ServerDropCount
<1>12. CASE PowerCycle \/ SoftReset
  <2> DEFINE lost == pending \ Ids(net \cup db)
  <2>1. PICK t : Restart(t)
    BY <1>12 DEF PowerCycle, SoftReset
  <2>2. /\ lost \subseteq pending /\ lost \cap Ids(Issued) = {}
        /\ pending \subseteq Ids(Issued) \cup gone \cup lost
    BY DEF Issued
  <2> QED BY <1>0, <2>1, <2>2, ClearedCount DEF Restart
<1>13. CASE UNCHANGED vars
  BY <1>0, <1>13, CountKeep DEF vars
<1> QED BY <1>1, <1>2, <1>3, <1>4, <1>5, <1>6, <1>7, <1>8, <1>9, <1>10,
           <1>11, <1>12, <1>13 DEF Next, Board, SetReturns

(* CountInv is an invariant of the specification.                          *)
LEMMA CountCorrect == Spec => []CountInv
BY CountInit, CountStep, PTL DEF Spec

(* No counted shipment is in two records, nor in a record and the counter: *)
(* the ignored result of Firebase.set, a late PUT and a restart between    *)
(* the PUT and the reset of getGoods can lose a count, never double it.    *)
THEOREM ShipmentsReportedOnce == Spec => []ReportedOnce
<1>1. CountInv => ReportedOnce
  BY DEF CountInv
<1> QED BY <1>1, CountCorrect, PTL

(* Every counted shipment is in the counter, in a record, or was lost to a *)
(* named cause.                                                            *)
THEOREM LossesAccounted == Spec => []LossAccounted
<1>1. CountInv => LossAccounted
  BY DEF CountInv
<1> QED BY <1>1, CountCorrect, PTL

-----------------------------------------------------------------------------
(* The shipments the refinement mapping of Firmware calls open.            *)
Open == (pending \cup Ids(net)) \ (Ids(db) \cup gone)

(* A ledger step in the variables of Firmware.                             *)
LedgerStep == [Ledger!Next]_(Ledger!vars)

(* Steps that move no shipment leave the ledger alone.                     *)
LEMMA LedgerKeep ==
  ASSUME UNCHANGED <<drops, gone>>, Open' = Open, Ids(db)' = Ids(db)
  PROVE  LedgerStep
BY DEF LedgerStep, Ledger!vars, Open

(* A counted shipment is new to the ledger (iot.ino:106-110).              *)
LEMMA UltrasoundLedger ==
  ASSUME CountInv, NEW d \in Durations, Ultrasound(d)
  PROVE  LedgerStep
<1>1. UNCHANGED <<net, db, gone>> /\ Ids(net)' = Ids(net) /\ Ids(db)' = Ids(db)
  BY DEF Ultrasound
<1>2. CASE UNCHANGED <<drops, pending>>
  BY <1>1, <1>2, LedgerKeep DEF Open
<1>3. CASE drops' = drops + 1 /\ pending' = pending \cup {drops + 1}
  <2>1. drops \in Nat /\ drops + 1 \notin 1..drops
    BY DEF CountInv, TypeOK
  <2>2. Ids(db) \subseteq 1..drops /\ gone \subseteq 1..drops
    BY DEF CountInv, LossAccounted, Issued, Ids
  <2>3. Open' = Open \cup {drops'}
    BY <1>1, <1>3, <2>1, <2>2 DEF Open
  <2> QED BY <1>1, <1>3, <2>3 DEF LedgerStep, Ledger!Next, Ledger!Count, Open
<1> QED BY <1>2, <1>3 DEF Ultrasound

(* The counter is cleared: what no PUT carries is lost.                    *)
LEMMA ClearedLedger ==
  ASSUME CountInv, net' = net, db' = db, drops' = drops, pending' = {},
         NEW gap, gone' = gone \cup gap, gap \subseteq pending,
         gap \cap Ids(Issued) = {},
         pending \subseteq Ids(Issued) \cup gone \cup gap
  PROVE  LedgerStep
<1> DEFINE S == gap \ gone
<1>1. Ids(net)' = Ids(net) /\ Ids(db)' = Ids(db)
  OBVIOUS
<1>2. Ids(Issued) = Ids(net) \cup Ids(db)
  BY DEF Issued, Ids
<1>3. S \in SUBSET Open
  BY <1>2 DEF Open
<1>4. Open' = Open \ S
  BY <1>1, <1>2 DEF Open
<1>5. gone' = gone \cup S
  OBVIOUS
<1> HIDE DEF S
<1> QED BY <1>1, <1>3, <1>4, <1>5 DEF LedgerStep, Ledger!Next, Ledger!Lose, Open

(* A PUT that is applied reports its shipments, which are open, and loses  *)
(* those of the record at its key.                                         *)
LEMMA ServerApplyLedger ==
  ASSUME CountInv, NEW r \in net, ServerApply(r)
  PROVE  LedgerStep
<1> DEFINE old == {x \in db : x.key = r.key}
           S == r.ids
           T == Ids(old)
<1>1. /\ db' = (db \ old) \cup {r} /\ net' = net \ {r} /\ gone' = gone \cup T
      /\ pending' = pending /\ drops' = drops
  BY DEF ServerApply, boardVars, ghostVars
<1>2. \A x \in db : x.ids \cap r.ids = {} \/ x = r
  BY DEF CountInv, ReportedOnce, Issued
<1>3. r \in db => r.ids = {}
  BY DEF CountInv, ResentInv
<1>4. \A x, y \in db : x # y => x.ids \cap y.ids = {}
  BY DEF CountInv, ReportedOnce, Issued
<1>5. S \cap Ids(db) = {}
  BY <1>2, <1>3 DEF Ids
<1>6. S \subseteq Ids(net) /\ S \cap gone = {}
  BY DEF CountInv, LossAccounted, Issued, Ids
<1>7. S \in SUBSET Open /\ T \in SUBSET Ids(db)
  BY <1>5, <1>6 DEF Open, Ids
<1>8. Ids(db') = (Ids(db) \ T) \cup S
  <2>1. ASSUME NEW i PROVE i \in Ids(db') <=> i \in (Ids(db) \ T) \cup S
    BY <1>1, <1>4, IdsMember
  <2> QED BY <2>1
<1>9. \A i : i \notin S => (i \in Ids(net') <=> i \in Ids(net))
  BY <1>1, IdsMember
<1>10. T \subseteq Ids(db)
  BY <1>7
<1> HIDE DEF old, S, T
<1>11. Open' = Open \ S
  BY <1>1, <1>8, <1>9, <1>10 DEF Open
<1> QED BY <1>1, <1>7, <1>8, <1>11
        DEF LedgerStep, Ledger!Next, Ledger!Report, Open

(* A PUT that is lost loses its shipments, which are open.                 *)
LEMMA ServerDropLedger ==
  ASSUME CountInv, NEW r \in net, ServerDrop(r)
  PROVE  LedgerStep
<1> DEFINE S == r.ids
<1>1. /\ db' = db /\ net' = net \ {r} /\ gone' = gone \cup S
      /\ pending' = pending /\ drops' = drops /\ Ids(db)' = Ids(db)
  BY DEF ServerDrop, boardVars, ghostVars
<1>2. S \cap Ids(db) = {}
  BY DEF CountInv, ReportedOnce, ResentInv, Issued, Ids
<1>3. S \subseteq Ids(net) /\ S \cap gone = {}
  BY DEF CountInv, LossAccounted, Issued, Ids
<1>4. S \in SUBSET Open
  BY <1>2, <1>3 DEF Open
<1>5. \A i : i \notin S => (i \in Ids(net') <=> i \in Ids(net))
  BY <1>1, IdsMember
<1> HIDE DEF S
<1>6. Open' = Open \ S
  BY <1>1, <1>5 DEF Open
<1> QED BY <1>1, <1>4, <1>6 DEF LedgerStep, Ledger!Next, Ledger!Lose, Open

(* Every step of Firmware is a step of the ledger or none.                 *)
LEMMA LedgerNext == ASSUME CountInv, [Next]_vars PROVE LedgerStep
<1> USE DEF boardVars, ghostVars
<1>1. CASE UNCHANGED <<net, db, pending, gone, drops>>
  BY <1>1, LedgerKeep DEF Open
<1>2. ASSUME NEW d \in Durations, Ultrasound(d) PROVE LedgerStep
  BY <1>2, UltrasoundLedger
<1>3. CASE SendPut
  <2>1. /\ net' = net \cup {req'} /\ req'.ids = pending
        /\ UNCHANGED <<db, pending, gone, drops>>
    BY <1>3 DEF SendPut, CountInv, CounterInv, TypeOK, Request
  <2>2. pending \cup Ids(net') = pending \cup Ids(net)
    BY <2>1, IdsMember
  <2>3. Open' = Open /\ Ids(db)' = Ids(db)
    BY <2>1, <2>2 DEF Open
  <2> QED BY <2>1, <2>3, LedgerKeep
<1>4. CASE SendFails
  <2>1. /\ net' = net /\ db' = db /\ drops' = drops /\ pending' = {}
        /\ gone' = gone \cup pending /\ pc = "send"
    BY <1>4 DEF SendFails, FinishUpload
  <2>2. pending \cap Ids(Issued) = {}
    BY <2>1 DEF CountInv, CounterInv
  <2> QED BY <2>1, <2>2, ClearedLedger
<1>5. CASE PutAnswered \/ PutTimesOut
  <2>1. /\ net' = net /\ db' = db /\ drops' = drops /\ pending' = {}
        /\ gone' = gone \cup {} /\ pc = "await"
    BY <1>5 DEF PutAnswered, PutTimesOut, FinishUpload
  <2>2. pending \subseteq Ids(Issued) \cup gone
    BY <2>1 DEF CountInv, CounterInv
  <2> QED BY <2>1, <2>2, ClearedLedger
<1>6. ASSUME NEW r \in net, ServerApply(r) PROVE LedgerStep
  BY <1>6, ServerApplyLedger
<1>7. ASSUME NEW r \in net, ServerDrop(r) PROVE LedgerStep
  BY <1>7, ServerDropLedger
<1>8. CASE PowerCycle \/ SoftReset
  <2> DEFINE gap == pending \ Ids(Issued)
  <2>1. /\ net' = net /\ db' = db /\ drops' = drops /\ pending' = {}
        /\ gone' = gone \cup gap
    BY <1>8 DEF PowerCycle, SoftReset, Restart, Issued
  <2>2. gap \cap Ids(Issued) = {} /\ gap \subseteq pending
        /\ pending \subseteq Ids(Issued) \cup gone \cup gap
    OBVIOUS
  <2> HIDE DEF gap
  <2> QED BY <2>1, <2>2, ClearedLedger
<1>9. CASE Tick \/ NtpSync \/ Setup \/ ReadTimer \/ Stamp
  BY <1>1, <1>9 DEF Tick, NtpSync, Setup, ReadTimer, Stamp
<1>10. CASE UNCHANGED vars
  BY <1>1, <1>10 DEF vars
<1> QED BY <1>2, <1>3, <1>4, <1>5, <1>6, <1>7, <1>8, <1>9, <1>10
        DEF Next, Board, SetReturns

(* Firmware implements DropLedger: with every interleaving of the sketch,  *)
(* the network and restarts, a shipment is counted once, and is then open, *)
(* reported or lost, in that order (iot.ino:79-86, the ignored result of   *)
(* Firebase.set).                                                          *)
THEOREM FirmwareImplementsLedger == Spec => ImplementsLedger
<1>1. Init => Ledger!Init
  BY DEF Init, Ledger!Init, Ids
<1>2. CountInv /\ [Next]_vars => [Ledger!Next]_(Ledger!vars)
  BY LedgerNext DEF LedgerStep
<1> QED BY <1>1, <1>2, CountCorrect, PTL DEF Spec, ImplementsLedger, Ledger!Spec

=============================================================================
