---------------------------- MODULE RecordScreen ----------------------------
(***************************************************************************)
(* The record lists of the Android app: RawDataManager, whose static       *)
(* rawDataList all screens of the process share, and the two activities    *)
(* that show it, SlaveActivity (opened by LoginActivity with a Loader) and *)
(* ManageStatusActivity (opened by MasterActivity).  The two have the same *)
(* handlers for the filter, the date query and reload.                     *)
(*                                                                         *)
(* Everything runs on the main thread, one callback at a time; answers of  *)
(* the database, the end of the Loader and the selection events the        *)
(* spinner posts come in between.  currentList and the list handed to      *)
(* layoutListView may be the shared list itself, which layoutListView      *)
(* reverses in place: aliased says whether currentList is.                 *)
(***************************************************************************)
EXTENDS SequencesExt

CONSTANTS
  Machines,
  Contents,   \* the records of each machine after each change of its node,
              \* in the order of their keys
  DayLength,  \* the 86400 of onDateSet
  Calendar,   \* the first second of consecutive days, in the time zone of
              \* the phone
  All,        \* the label of the date button when no day is picked
  NoMachine,
  MaxLoads,   \* bound: requests to the database altogether
  MaxOpens    \* bound: screens opened altogether

(* A key says nothing of the timestamp in the record: a record begun before *)
(* and sent after SNTP set the board's clock is dated 1970 at a key of the *)
(* present.  Nor do records come in the order of their keys, or stay.      *)
ASSUME ContentsAssumption ==
  /\ Machines # {}
  /\ Contents \in [Machines -> Seq(Seq([machine : Machines, key : Nat, time : Nat,
                                       coin : Nat, goods : Nat]))]
  /\ \A m \in Machines : \A n \in DOMAIN Contents[m] : \A k \in DOMAIN Contents[m][n] :
       /\ Contents[m][n][k].machine = m
       /\ \A j \in 1..(k - 1) : Contents[m][n][j].key < Contents[m][n][k].key

(* Days may be longer or shorter than DayLength: clocks are changed.       *)
ASSUME CalendarAssumption ==
  /\ DayLength \in Nat \ {0} /\ Calendar \in Seq(Nat)
  /\ \A d \in 1..(Len(Calendar) - 1) : Calendar[d] < Calendar[d + 1]
ASSUME BoundsAssumption == MaxLoads \in Nat /\ MaxOpens \in Nat

VARIABLES
  stored,       \* number of changes of each machine's node so far
  loads,        \* snapshots requested, oldest first: the machine, and the
                \* activity whose Loader asked, 0 if none did
  requests,     \* number of requests so far (bounded)
  rawDataList,  \* the shared list
  screen,       \* the activity in front
  machine,      \* the machine that activity is about
  opened,       \* number of activities opened so far, the last is in front
  loaders,      \* unfinished Loaders, each the set of activities listening
  finished,     \* the Loader of the activity in front has finished
  aliased,      \* currentList is the shared list
  private,      \* currentList when it is not
  rows,         \* what the list view shows
  label,        \* what the date button shows: a day of Calendar, or All
  spinner,      \* the filter the spinner shows
  posted        \* the spinner is about to call onItemSelected

vars == <<stored, loads, requests, rawDataList, screen, machine, opened,
          loaders, finished, aliased, private, rows, label, spinner, posted>>
netVars == <<loads, requests>>
screenVars == <<screen, machine, opened, loaders, finished>>
listVars == <<aliased, private, rows, label, spinner, posted>>

Content(m, n) == IF n = 0 THEN <<>> ELSE Contents[m][n]
Snapshot(m) == Content(m, stored[m])
Record == UNION {UNION {ToSet(c) : c \in ToSet(Contents[m])} : m \in Machines}
Days == 1..(Len(Calendar) - 1)
currentList == IF aliased THEN rawDataList ELSE private

Init ==
  /\ stored \in [Machines -> {0}] /\ loads = <<>> /\ requests = 0
  /\ rawDataList = <<>>
  /\ screen = "home" /\ machine = NoMachine /\ opened = 0
  /\ loaders = {} /\ finished = FALSE
  /\ aliased = FALSE /\ private = <<>> /\ rows = <<>>
  /\ label = All /\ spinner = 0 /\ posted = FALSE

-----------------------------------------------------------------------------
(* A machine stores a record, which may replace another one.               *)
Store(m) ==
  /\ stored[m] < Len(Contents[m])
  /\ stored' = [stored EXCEPT ![m] = @ + 1]
  /\ UNCHANGED rawDataList
  /\ UNCHANGED netVars /\ UNCHANGED screenVars /\ UNCHANGED listVars

(* Mutant of LoadRawDataList: the activity's Intent lost the machine.      *)
LoadRawDataList_NoExtra(m, loader) ==
  /\ requests < MaxLoads
  /\ requests' = requests + 1
  /\ loads' = Append(loads, [machine |-> NoMachine, loader |-> loader])

(* loadRawDataList asks for a snapshot and returns at once.                *)
LoadRawDataList(m, loader) ==
  /\ requests < MaxLoads
  /\ requests' = requests + 1
  /\ loads' = Append(loads, [machine |-> m, loader |-> loader])

(* Mutant of OnDataChange: the list is not cleared.                        *)
OnDataChange_NoClear ==
  /\ loads # <<>>
  /\ rawDataList' = rawDataList \o Snapshot(Head(loads).machine)
  /\ loads' = Tail(loads)
  /\ UNCHANGED <<stored, requests>>
  /\ UNCHANGED screenVars /\ UNCHANGED listVars

(* The oldest request is answered: the shared list becomes the snapshot,   *)
(* whatever is on the screen.                                              *)
OnDataChange ==
  /\ loads # <<>>
  /\ rawDataList' = Snapshot(Head(loads).machine)
  /\ loads' = Tail(loads)
  /\ UNCHANGED <<stored, requests>>
  /\ UNCHANGED screenVars /\ UNCHANGED listVars

(* onCancelled does nothing.                                               *)
OnCancelled ==
  /\ loads # <<>>
  /\ loads' = Tail(loads)
  /\ UNCHANGED <<stored, requests, rawDataList>>
  /\ UNCHANGED screenVars /\ UNCHANGED listVars

-----------------------------------------------------------------------------
(* A new activity: its fields are initialised, and the first layout posts  *)
(* the selection of the spinner's position.                                *)
FreshActivity ==
  /\ aliased' = FALSE /\ private' = <<>> /\ rows' = <<>>
  /\ label' = All /\ posted' = TRUE

(* LoginActivity opens SlaveActivity and starts its Loader, which asks for *)
(* the records and then sleeps.                                            *)
OpenSlave(m) ==
  /\ screen = "home" /\ opened < MaxOpens
  /\ LoadRawDataList(m, opened + 1)
  /\ screen' = "slave" /\ machine' = m /\ opened' = opened + 1
  /\ loaders' = loaders \cup {{opened + 1}} /\ finished' = FALSE
  /\ FreshActivity /\ spinner' = 0
  /\ UNCHANGED <<stored, rawDataList>>

(* MasterActivity asks for the records of the machine that was tapped and  *)
(* opens ManageStatusActivity.                                             *)
OpenManage(m) ==
  /\ screen = "home" /\ opened < MaxOpens
  /\ LoadRawDataList(m, 0)
  /\ screen' = "manage" /\ machine' = m /\ opened' = opened + 1
  /\ finished' = FALSE
  /\ FreshActivity /\ spinner' = 0
  /\ UNCHANGED <<stored, rawDataList, loaders>>

(* Back, or sign-out: the activity is gone, its Loader and the shared list *)
(* are not.                                                                *)
Leave ==
  /\ screen # "home"
  /\ screen' = "home" /\ machine' = NoMachine /\ finished' = FALSE
  /\ aliased' = FALSE /\ private' = <<>> /\ rows' = <<>>
  /\ label' = All /\ spinner' = 0 /\ posted' = FALSE
  /\ UNCHANGED <<stored, rawDataList, opened, loaders>> /\ UNCHANGED netVars

(* layoutListView(list) with the shared list, and with one of its own: the *)
(* list is reversed in place and its elements become the rows.             *)
LayoutShared ==
  /\ rawDataList' = Reverse(rawDataList)
  /\ rows' = Reverse(rawDataList)
LayoutOwn(list) ==
  /\ rows' = Reverse(list)
  /\ UNCHANGED rawDataList

(* A Loader wakes up and hands the shared list to the Listener of every    *)
(* activity in L, be the records in it or not, be the activity in front or *)
(* destroyed: each lays the list out and makes it its currentList.         *)
LoaderDone(L) ==
  LET list == IF Cardinality(L) % 2 = 1 THEN Reverse(rawDataList)
              ELSE rawDataList IN
  /\ loaders' = loaders \ {L}
  /\ rawDataList' = list
  /\ IF screen = "slave" /\ opened \in L
     THEN finished' = TRUE /\ rows' = list /\ aliased' = TRUE /\ private' = <<>>
     ELSE UNCHANGED <<finished, rows, aliased, private>>
  /\ UNCHANGED <<stored, screen, machine, opened, label, spinner, posted>>
  /\ UNCHANGED netVars

(* A configuration change makes a new activity from the same Intent.  The  *)
(* spinner's position is restored.  A SlaveActivity listens to its Loader  *)
(* again, and is given the list at once if it has finished.                *)
Recreate ==
  /\ screen # "home" /\ opened < MaxOpens
  /\ opened' = opened + 1
  /\ loaders' = {IF opened \in L THEN L \cup {opened + 1} ELSE L : L \in loaders}
  /\ IF finished
     THEN /\ LayoutShared
          /\ aliased' = TRUE /\ private' = <<>>
          /\ label' = All /\ posted' = TRUE
     ELSE FreshActivity /\ UNCHANGED rawDataList
  /\ UNCHANGED <<stored, screen, machine, finished, spinner>>
  /\ UNCHANGED netVars

(* The user can tap: the call the spinner posted has been made.            *)
Idle == screen # "home" /\ ~posted

(* setSelection(0): the listener is called only if the position changes.   *)
SelectFirst ==
  /\ spinner' = 0
  /\ posted' = (spinner # 0)

(* reload(): asks for the records, and lays out the list it already has.   *)
Reload ==
  /\ Idle
  /\ LoadRawDataList(machine, 0)
  /\ label' = All
  /\ LayoutShared
  /\ aliased' = TRUE /\ private' = <<>>
  /\ SelectFirst
  /\ UNCHANGED stored /\ UNCHANGED screenVars

(* What timeConvertTimestamp makes of the day that was picked.             *)
TimeConvertTimestamp(day) == Calendar[day]

(* Mutants of OnThatDay: the day's first second is left out; the second    *)
(* after the last is let in.                                               *)
OnThatDay_NoMidnight(r, day) ==
  /\ TimeConvertTimestamp(day) < r.time
  /\ r.time < TimeConvertTimestamp(day) + DayLength
OnThatDay_NextMidnight(r, day) ==
  /\ TimeConvertTimestamp(day) - 1 < r.time
  /\ r.time <= TimeConvertTimestamp(day) + DayLength

(* The test of onDateSet.                                                  *)
OnThatDay(r, day) ==
  /\ TimeConvertTimestamp(day) - 1 < r.time
  /\ r.time < TimeConvertTimestamp(day) + DayLength

(* The loop of onDateSet: the records of list that pass it.                *)
DayList(list, day) ==
  LET kept[i \in 0..Len(list)] ==
        IF i = 0 THEN <<>>
        ELSE IF OnThatDay(list[i], day) THEN Append(kept[i - 1], list[i])
        ELSE kept[i - 1]
  IN  kept[Len(list)]

(* onDateSet: the records of that day, out of the shared list.             *)
OnDateSet(day) ==
  LET list == DayList(rawDataList, day) IN
  /\ Idle
  /\ label' = day
  /\ LayoutOwn(list)
  /\ aliased' = FALSE /\ private' = Reverse(list)
  /\ SelectFirst
  /\ UNCHANGED stored /\ UNCHANGED netVars /\ UNCHANGED screenVars

-----------------------------------------------------------------------------
(* What the five filters compare: 1 and 3 coin, 2 and 4 goods; 1 and 2     *)
(* keep the largest, 3 and 4 the smallest.                                 *)
Key(pos, r) == IF pos \in {1, 3} THEN r.coin ELSE r.goods
Beats(pos, a, b) == IF pos \in {1, 2} THEN a > b ELSE a < b

(* Mutant of Scan: a new extreme does not clear the list.                  *)
Scan_NoClear(pos, acc, r) ==
  IF Beats(pos, Key(pos, r), acc.base)
  THEN [base |-> Key(pos, r), list |-> Append(acc.list, r)]
  ELSE IF Key(pos, r) = acc.base
  THEN [acc EXCEPT !.list = Append(@, r)]
  ELSE acc

(* One iteration of the loops of onItemSelected.                           *)
Scan(pos, acc, r) ==
  IF Beats(pos, Key(pos, r), acc.base)
  THEN [base |-> Key(pos, r), list |-> <<r>>]
  ELSE IF Key(pos, r) = acc.base
  THEN [acc EXCEPT !.list = Append(@, r)]
  ELSE acc

(* The list the loop of filter pos makes of a nonempty list.               *)
Extremes(pos, list) ==
  LET scanned[i \in 0..Len(list)] ==
        IF i = 0 THEN [base |-> Key(pos, list[1]), list |-> <<>>]
        ELSE Scan(pos, scanned[i - 1], list[i])
  IN  scanned[Len(list)].list

(* The user picks a filter; picking the one shown calls nothing.           *)
PickFilter(pos) ==
  /\ Idle /\ pos # spinner
  /\ spinner' = pos /\ posted' = TRUE
  /\ UNCHANGED <<rawDataList, aliased, private, rows, label>>
  /\ UNCHANGED stored /\ UNCHANGED netVars /\ UNCHANGED screenVars

(* onItemSelected: nothing for an empty list; filter 0 lays out            *)
(* currentList itself, the others a list of their own.                     *)
OnItemSelected ==
  /\ posted
  /\ posted' = FALSE
  /\ \/ /\ currentList = <<>>
        /\ UNCHANGED <<rawDataList, private, rows>>
     \/ /\ currentList # <<>> /\ spinner = 0 /\ aliased
        /\ LayoutShared
        /\ UNCHANGED private
     \/ /\ currentList # <<>> /\ spinner = 0 /\ ~aliased
        /\ LayoutOwn(private)
        /\ private' = Reverse(private)
     \/ /\ currentList # <<>> /\ spinner # 0
        /\ LayoutOwn(Extremes(spinner, currentList))
        /\ UNCHANGED private
  /\ UNCHANGED <<stored, aliased, label, spinner>>
  /\ UNCHANGED netVars /\ UNCHANGED screenVars

Next ==
  \/ \E m \in Machines : Store(m) \/ OpenSlave(m) \/ OpenManage(m)
  \/ OnDataChange \/ OnCancelled
  \/ \E L \in loaders : LoaderDone(L)
  \/ Leave \/ Recreate \/ Reload
  \/ \E day \in Days : OnDateSet(day)
  \/ \E pos \in 0..4 : PickFilter(pos)
  \/ OnItemSelected

Spec == Init /\ [][Next]_vars

-----------------------------------------------------------------------------
TypeOK ==
  /\ stored \in [Machines -> Nat] /\ requests \in 0..MaxLoads
  /\ loads \in Seq([machine : Machines, loader : 0..MaxOpens])
  /\ rawDataList \in Seq(Record) /\ private \in Seq(Record)
  /\ rows \in Seq(Record)
  /\ screen \in {"home", "slave", "manage"}
  /\ machine \in Machines \cup {NoMachine} /\ opened \in 0..MaxOpens
  /\ loaders \subseteq SUBSET (1..MaxOpens) /\ finished \in BOOLEAN
  /\ aliased \in BOOLEAN /\ posted \in BOOLEAN
  /\ label \in Days \cup {All} /\ spinner \in 0..4

(* The shared list is always what one machine had stored at some time, or  *)
(* its reverse: whoever reverses it in place, however answers, Loaders and *)
(* screens are interleaved, it neither loses nor mixes nor shuffles        *)
(* records (RawDataManager, layoutListView).                               *)
SharedIsSnapshot ==
  \E m \in Machines : \E n \in 0..stored[m] :
    rawDataList \in {Content(m, n), Reverse(Content(m, n))}

(* What a screen shows is of one machine, each record once, and in the     *)
(* order of the keys, one way or the other, under every filter and date.   *)
Sorted(list) == \A j, k \in DOMAIN list : j < k => list[j].key < list[k].key
RowsSorted ==
  /\ Sorted(rows) \/ Sorted(Reverse(rows))
  /\ \A j, k \in DOMAIN rows : rows[j].machine = rows[k].machine

(* A record of that calendar day, and one of the seconds at which the test *)
(* of onDateSet and the calendar disagree: the end of a day that is longer *)
(* than DayLength, or the beginning of the day after a shorter one.        *)
SameDay(r, day) == Calendar[day] <= r.time /\ r.time < Calendar[day + 1]
OddHour(r, day) ==
  LET end == Calendar[day] + DayLength IN
  \/ end <= r.time /\ r.time < Calendar[day + 1]
  \/ Calendar[day + 1] <= r.time /\ r.time < end
Queried(r, day) == IF OddHour(r, day) THEN ~SameDay(r, day) ELSE SameDay(r, day)

(* Once a day is picked, only records of that calendar day are shown,      *)
(* whatever filter is applied to them and whatever the database answers,   *)
(* until reload; on a short day also those of the next day's first hour.   *)
(* Only the Listener of a SlaveActivity's Loader can undo it, by making    *)
(* the shared list its currentList (SlaveActivity.java:101).               *)
DayView ==
  label # All =>
    \/ \A k \in DOMAIN rows : Queried(rows[k], label)
    \/ screen = "slave" /\ finished /\ aliased

(* Picking a day shows exactly the loaded records of that calendar day,    *)
(* its first and last second included, if the day has DayLength seconds;   *)
(* the odd hour of a longer day is left out, and that after a shorter one  *)
(* is let in (onDateSet).                                                  *)
DateQueryExact ==
  [][\A day \in Days : OnDateSet(day) =>
       ToSet(rows') = {r \in ToSet(rawDataList) : Queried(r, day)}]_vars

(* A filter shows exactly the records of the current list that no other    *)
(* one beats, each once (the loops of onItemSelected, which restart their  *)
(* result whenever a better value turns up).                               *)
FilterExact ==
  [][(OnItemSelected /\ spinner # 0 /\ currentList # <<>>) =>
       LET best == {r \in ToSet(currentList) : \A x \in ToSet(currentList) :
                      ~Beats(spinner, Key(spinner, x), Key(spinner, r))} IN
       ToSet(rows') = best /\ Len(rows') = Cardinality(best)]_vars

(* "倒敘排列" (SlaveActivity.java:244): rows are in descending order of    *)
(* their keys, which is the reverse of the order of the database.          *)
NewestFirst == Sorted(Reverse(rows))

=============================================================================
