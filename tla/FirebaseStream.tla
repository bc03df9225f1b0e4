---------------------------- MODULE FirebaseStream ----------------------------
(***************************************************************************)
(* stream() and stopStream() of the FirebaseESP32 library: the task that   *)
(* reads events, the connection of its HTTPClient, and the database, which *)
(* is external.                                                            *)
(*                                                                         *)
(* streamHttpClient is static: its connection can outlive the task.  The   *)
(* pointer streamWiFiClient into it can outlive the connection.  loop()    *)
(* and the task share a core and the task has the higher priority: loop()  *)
(* runs while the task waits.                                              *)
(*                                                                         *)
(* A sketch calls stream and stopStream alternately.  A line of a stream   *)
(* arrives as a whole.                                                     *)
(***************************************************************************)
EXTENDS Naturals, Sequences

CONSTANTS
  Paths,      \* the paths that are streamed
  MaxVer,     \* bound: changes of the value at a path
  MaxFaults   \* bound: refused or broken connections

ASSUME BoundAssumption == {MaxVer, MaxFaults} \subseteq Nat

VARIABLES
  ver,        \* the database: number of the value at each path
  faults,     \* number of failures so far (bounded)
  task,       \* where the stream task is; "none" if there is no task
  url,        \* streamUrl: the path of the last stream()
  callback,   \* stramCallback is set
  tcp,        \* streamHttpClient._tcp
  canReuse,   \* streamHttpClient._canReuse
  client,     \* where streamWiFiClient points: "null", "tcp", or "freed"
  eventType,  \* streamEventType: the event it is of
  jsonData,   \* streamJsonData: the event it is of
  called      \* ghost: the last callback of the present stream

eventVars == <<eventType, jsonData, called>>
vars == <<ver, faults, task, url, callback, tcp, canReuse, client, eventVars>>

-----------------------------------------------------------------------------
(* Connections and lines.  An event is the change of a path to a value; it *)
(* is sent as three lines, the last of them blank.                         *)
None == <<>>
Junk == <<"junk">>
NoPath == "no path"
ASSUME PathAssumption == NoPath \notin Paths
NoCall == [type |-> None, data |-> None, by |-> "none"]

Lines(e) == << [tag |-> "event:", of |-> e], [tag |-> "data:", of |-> e],
               [tag |-> "blank", of |-> e] >>

(* open: both ends are up.  path: what the server streams on it.  wire and *)
(* buffer: lines that are on their way and that have arrived.  body: the   *)
(* text of a refusal has arrived; nobody reads it.  kept: ghost, left open *)
(* by a stopStream.                                                        *)
NoTcp == [open |-> FALSE, path |-> NoPath, wire |-> <<>>, buffer |-> <<>>,
          body |-> FALSE, kept |-> FALSE]
NewTcp == [NoTcp EXCEPT !.open = TRUE]

(* HTTPClient::connected: what has arrived can still be read, and as long  *)
(* as it is not, data_to_read does not notice that the server has closed.  *)
Connected(c) == c.buffer # <<>> \/ c.body \/ c.open
Broken(c) == [c EXCEPT !.open = FALSE, !.wire = <<>>]

Init ==
  /\ ver = [p \in Paths |-> 0] /\ faults = 0
  /\ task = "none" /\ url = NoPath /\ callback = FALSE
  /\ tcp = NoTcp /\ canReuse = FALSE /\ client = "null"
  /\ eventType = None /\ jsonData = None /\ called = NoCall

Fails == faults < MaxFaults /\ faults' = faults + 1

-----------------------------------------------------------------------------
(* The connection of the stream.                                           *)

(* The value at p changes, and those who stream p are told.                *)
Change(p) ==
  /\ ver[p] < MaxVer
  /\ ver' = [ver EXCEPT ![p] = @ + 1]
  /\ tcp' = IF tcp.open /\ tcp.path = p
            THEN [tcp EXCEPT !.wire = @ \o Lines(<<p, ver[p] + 1>>)] ELSE tcp
  /\ UNCHANGED <<faults, task, url, callback, canReuse, client, eventVars>>

OnTcp(c) ==
  /\ tcp' = c
  /\ UNCHANGED <<ver, task, url, callback, canReuse, client, eventVars>>

LineArrives ==
  /\ tcp.wire # <<>> /\ UNCHANGED faults
  /\ OnTcp([tcp EXCEPT !.wire = Tail(@), !.buffer = Append(@, Head(tcp.wire))])

TcpLost == tcp.open /\ Fails /\ OnTcp(Broken(tcp))

(* The server closes a connection on which it has nothing to send.  If the *)
(* text of a refusal is unread, the board does not see it.                 *)
IdleClosed ==
  /\ tcp.open /\ tcp.path = NoPath /\ task \notin {"get", "header"}
  /\ UNCHANGED faults /\ OnTcp(Broken(tcp))

-----------------------------------------------------------------------------
(* stream() and stopStream(), called by loop().                            *)

(* The task's loop never waits: it is connected without a client.          *)
Spinning == task \in {"loop", "poll"} /\ client = "null" /\ Connected(tcp)

(* loop() gets the core.                                                   *)
AppRuns == ~Spinning

StartStream(p) ==
  /\ AppRuns /\ task = "none"
  /\ task' = "loop" /\ url' = p /\ callback' = TRUE
  /\ UNCHANGED <<ver, faults, tcp, canReuse, client, eventVars>>

(* HTTPClient::end, with setReuse(true): the connection is stopped unless  *)
(* the server allows to reuse it.  What has arrived stays in the buffer:   *)
(* WiFiClientSecure::flush does nothing.                                   *)
End(c) == IF canReuse THEN [c EXCEPT !.kept = TRUE] ELSE NoTcp

(* Mutant of StopStream: the callback stays registered.                    *)
StopStream_KeepsCallback ==
  /\ AppRuns /\ task # "none"
  /\ task' = "none"
  /\ tcp' = IF Connected(tcp) THEN End(tcp) ELSE tcp
  /\ eventType' = None /\ jsonData' = None /\ called' = NoCall
  /\ UNCHANGED <<ver, faults, url, callback, canReuse, client>>

(* The task is deleted wherever it waits.                                  *)
StopStream ==
  /\ AppRuns /\ task # "none"
  /\ task' = "none" /\ callback' = FALSE
  /\ tcp' = IF Connected(tcp) THEN End(tcp) ELSE tcp
  /\ eventType' = None /\ jsonData' = None /\ called' = NoCall
  /\ UNCHANGED <<ver, faults, url, canReuse, client>>

-----------------------------------------------------------------------------
(* The stream task.                                                        *)

(* Mutant of LoopTop: it connects only while there is no client.           *)
LoopTop_Once ==
  /\ task = "loop"
  /\ task' = IF Connected(tcp) \/ client # "null" THEN "poll" ELSE "get"
  /\ UNCHANGED <<ver, faults, url, callback, tcp, canReuse, client, eventVars>>

(* The connection is tested, and made anew if it is gone.                  *)
LoopTop ==
  /\ task = "loop" /\ task' = IF Connected(tcp) THEN "poll" ELSE "get"
  /\ UNCHANGED <<ver, faults, url, callback, tcp, canReuse, client, eventVars>>

(* connect() replaces the connection, and frees the one streamWiFiClient   *)
(* points to, whether or not it can connect.  The TLS handshake, and the   *)
(* sending of the request after it, have no time-out and may never end;    *)
(* they let loop() run in between.                                         *)
Replace(c) == tcp' = c /\ client' = IF client = "tcp" THEN "freed" ELSE client

GetConnects ==
  /\ task = "get" /\ task' = "header" /\ Replace(NewTcp)
  /\ UNCHANGED <<ver, faults, url, callback, canReuse, eventVars>>

GetFails ==
  /\ task = "get" /\ task' = "poll" /\ Replace(NoTcp) /\ Fails
  /\ UNCHANGED <<ver, url, callback, canReuse, eventVars>>


(* The server accepts, and sends the present value first.  getStreamPtr    *)
(* returns no client if the connection is gone already.                    *)
Accepted(reuse) ==
  /\ task = "header" /\ tcp.open /\ task' = "poll"
  /\ canReuse' = reuse /\ client' = "tcp"
  /\ tcp' = [tcp EXCEPT !.path = url, !.wire = Lines(<<url, ver[url]>>)]
  /\ UNCHANGED <<ver, faults, url, callback, eventVars>>

AcceptedButLost(reuse) ==
  /\ task = "header" /\ ~tcp.open /\ task' = "poll"
  /\ canReuse' = reuse /\ client' = "null"
  /\ UNCHANGED <<ver, faults, url, callback, tcp, eventVars>>

(* The server refuses: the connection stays open.  GET does not read the   *)
(* text of the answer, if there is one and it is not lost.                 *)
Refused(reuse, text) ==
  /\ task = "header" /\ tcp.open /\ Fails /\ task' = "poll"
  /\ canReuse' = reuse /\ tcp' = [tcp EXCEPT !.body = text]
  /\ UNCHANGED <<ver, url, callback, client, eventVars>>

(* No answer: returnError stops the connection.                            *)
Unanswered ==
  /\ task = "header"
  /\ (~tcp.open /\ UNCHANGED faults) \/ (tcp.open /\ Fails)
  /\ task' = "poll" /\ tcp' = NoTcp
  /\ UNCHANGED <<ver, url, callback, canReuse, client, eventVars>>

Callback(by) ==
  called' = IF callback THEN [type |-> eventType, data |-> jsonData, by |-> by]
            ELSE called

(* streamWiFiClient is not set: continue, without a delay.                 *)
PollNull ==
  /\ task = "poll" /\ client = "null" /\ task' = "loop"
  /\ UNCHANGED <<ver, faults, url, callback, tcp, canReuse, client, eventVars>>

(* Mutant of Poll: the callback does not wait for the end of the event.    *)
Poll_EveryLine ==
  /\ task = "poll" /\ client = "tcp" /\ task' = "loop"
  /\ IF tcp.buffer = <<>>
     THEN UNCHANGED <<tcp, eventVars>>
     ELSE LET line == Head(tcp.buffer)
          IN  /\ tcp' = [tcp EXCEPT !.buffer = Tail(@)]
              /\ eventType' = IF line.tag = "event:" THEN line.of ELSE eventType
              /\ jsonData' = IF line.tag = "data:" THEN line.of ELSE jsonData
              /\ called' = [type |-> eventType', data |-> jsonData',
                            by |-> IF tcp.kept THEN "kept" ELSE "tcp"]
  /\ UNCHANGED <<ver, faults, url, callback, canReuse, client>>

(* It points to the connection: a line is read if there is one.            *)
Poll ==
  /\ task = "poll" /\ client = "tcp" /\ task' = "loop"
  /\ IF tcp.buffer = <<>>
     THEN UNCHANGED <<tcp, eventVars>>
     ELSE LET line == Head(tcp.buffer)
          IN  /\ tcp' = [tcp EXCEPT !.buffer = Tail(@)]
              /\ eventType' = IF line.tag = "event:" THEN line.of ELSE eventType
              /\ jsonData' = IF line.tag = "data:" THEN line.of ELSE jsonData
              /\ IF line.tag = "blank" THEN Callback(IF tcp.kept THEN "kept" ELSE "tcp")
                 ELSE UNCHANGED called
  /\ UNCHANGED <<ver, faults, url, callback, canReuse, client>>

(* It points to freed memory, in which anything may be found: also the     *)
(* present connection, whose text is then read.                            *)
PollFreed ==
  /\ task = "poll" /\ client = "freed" /\ task' = "loop"
  /\ tcp' \in {tcp, [tcp EXCEPT !.body = FALSE]}
  /\ eventType' \in {eventType, Junk} /\ jsonData' \in {jsonData, Junk}
  /\ UNCHANGED called \/ Callback("freed")
  /\ UNCHANGED <<ver, faults, url, callback, canReuse, client>>

(* Or the use of it resets the board.                                      *)
Reset ==
  /\ task = "poll" /\ client = "freed" /\ Fails
  /\ task' = "none" /\ url' = NoPath /\ callback' = FALSE
  /\ tcp' = NoTcp /\ canReuse' = FALSE /\ client' = "null"
  /\ eventType' = None /\ jsonData' = None /\ called' = NoCall
  /\ UNCHANGED ver

-----------------------------------------------------------------------------
Connect == GetConnects \/ GetFails

StreamTask == \/ LoopTop \/ Unanswered
              \/ \E reuse, text \in BOOLEAN : Refused(reuse, text)
              \/ \E reuse \in BOOLEAN : Accepted(reuse) \/ AcceptedButLost(reuse)
              \/ PollNull \/ Poll \/ PollFreed \/ Reset

Next == \/ \E p \in Paths : StartStream(p) \/ Change(p)
        \/ StopStream \/ Connect \/ StreamTask
        \/ LineArrives \/ IdleClosed \/ TcpLost

Spec == Init /\ [][Next]_vars

(* The task is scheduled and its waits end, except for Connect.  A line    *)
(* that was sent arrives unless its connection breaks, and the server does *)
(* not keep a connection without a request for ever.                       *)
FairSpec == Spec /\ WF_vars(StreamTask) /\ WF_vars(LineArrives) /\ WF_vars(IdleClosed)

-----------------------------------------------------------------------------
Of == {None, Junk} \cup (Paths \X (0..MaxVer))
Line == [tag : {"event:", "data:", "blank"}, of : Paths \X (0..MaxVer)]

TypeOK ==
  /\ ver \in [Paths -> 0..MaxVer] /\ faults \in 0..MaxFaults
  /\ task \in {"none", "loop", "get", "header", "poll"}
  /\ url \in Paths \cup {NoPath} /\ callback = (task # "none")
  /\ tcp \in [open : BOOLEAN, path : Paths \cup {NoPath}, wire : Seq(Line),
              buffer : Seq(Line), body : BOOLEAN, kept : BOOLEAN]
  /\ canReuse \in BOOLEAN /\ client \in {"null", "tcp", "freed"}
  /\ eventType \in Of /\ jsonData \in Of
  /\ called \in [type : Of, data : Of, by : {"none", "tcp", "kept", "freed"}]

(* However the task is deleted, restarted, reconnected or refused, what a  *)
(* callback gets from a connection made for its stream is the type and the *)
(* data of one event, of the path it was registered for.  Callbacks from a *)
(* connection kept open by stopStream, or through the stale pointer, are   *)
(* not covered: they may be of the former path, or of no event.            *)
OneEvent ==
  called.by = "tcp" => called.type = called.data /\ called.data[1] = url

(* A stream that goes on tells its callback the present value in the end,  *)
(* whatever connections were lost or refused and although the task may go  *)
(* on reading through a stale pointer.  Three things can keep it from it:  *)
(* a connection kept open by a stopStream, the unread text of a refusal,   *)
(* after which the task takes itself for connected and never asks again,   *)
(* and a connect() that does not return.                                   *)
CatchesUp ==
  \A p \in Paths :
    /\ <>[](task # "none" /\ url = p /\ ~tcp.kept /\ ~tcp.body)
    /\ []<>(task # "get")
    => <>[](called.type = <<p, ver[p]>> /\ called.data = <<p, ver[p]>>)


=============================================================================
