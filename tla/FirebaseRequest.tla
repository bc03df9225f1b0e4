--------------------------- MODULE FirebaseRequest ---------------------------
(***************************************************************************)
(* A request of the sketch to the database: get, set, push or remove of    *)
(* the FirebaseESP32 library, firebaseSendHttpRequest below them, and the  *)
(* HTTPClient it creates for each request.  The database is external.      *)
(*                                                                         *)
(* The text of an answer is the number of its parts that were read.  What  *)
(* a get makes of the text (toInt, toFloat, ...) is left out.              *)
(***************************************************************************)
EXTENDS Integers

CONSTANTS
  BodyLen,    \* number of parts in which the text of an answer arrives
  MaxCalls,   \* bound: number of requests
  MaxFaults   \* bound: refused or broken connections and requests

ASSUME BoundAssumption == {BodyLen, MaxCalls, MaxFaults} \subseteq Nat /\ BodyLen > 0

CONNECTION_REFUSED  == -1
SEND_HEADER_FAILED  == -2
SEND_PAYLOAD_FAILED == -3
NOT_CONNECTED       == -4
CONNECTION_LOST     == -5
NO_HTTP_SERVER      == -7
ENCODING            == -9
READ_TIMEOUT        == -11
HTTP_CODE_OK        == 200
UNAUTHORIZED        == 401

VARIABLES
  app,        \* where the sketch is in firebaseSendHttpRequest
  call,       \* number of the last request (bounded)
  type,       \* its method
  answer,     \* the answer of the database to it, if any: its HTTP code
  framing,    \* how the end of the answer is marked
  got,        \* number of parts of its text read
  chunk,      \* parts that are missing of the chunk whose length was read
  errCode,    \* _errCode
  sent,       \* the requests the database has received and not dealt with
  executed,   \* the requests the database has carried out
  faults      \* number of failures so far (bounded)

vars == <<app, call, type, answer, framing, got, chunk, errCode, sent, executed, faults>>

Methods == {"GET", "PUT", "POST", "DELETE"}
Framings == {"length", "chunked", "close"}
NoAnswer == 0

Init ==
  /\ app = "idle" /\ call = 0 /\ type = "GET"
  /\ answer = NoAnswer /\ framing = "length" /\ got = 0 /\ chunk = 0 /\ errCode = 0
  /\ sent = {} /\ executed = {} /\ faults = 0

Fails == faults < MaxFaults /\ faults' = faults + 1

-----------------------------------------------------------------------------
(* Mutant of Request: the text of the answer before is kept.               *)
Request_KeepsText(m) ==
  /\ app = "idle" /\ call < MaxCalls
  /\ app' = "connect" /\ call' = call + 1 /\ type' = m
  /\ answer' = NoAnswer /\ chunk' = 0
  /\ UNCHANGED <<framing, got, errCode, sent, executed, faults>>

(* A call of the library creates its HTTPClient.                           *)
Request(m) ==
  /\ app = "idle" /\ call < MaxCalls
  /\ app' = "connect" /\ call' = call + 1 /\ type' = m
  /\ answer' = NoAnswer /\ got' = 0 /\ chunk' = 0
  /\ UNCHANGED <<framing, errCode, sent, executed, faults>>

(* Mutant of Failed: failed() keeps what the request before left there.    *)
Failed_KeepsCode(code) ==
  /\ app' = "idle" /\ UNCHANGED errCode
  /\ UNCHANGED <<call, type, framing, got, chunk, executed>>

(* sendRequest returns an error: the connection is stopped, and getString  *)
(* returns nothing.                                                        *)
Failed(code) ==
  /\ app' = "idle" /\ errCode' = code
  /\ UNCHANGED <<call, type, framing, got, chunk, executed>>

(* The connection is refused, or breaks under the header or the payload.   *)
SendFails(code) ==
  /\ app = "connect" /\ Fails
  /\ code = SEND_PAYLOAD_FAILED => type \in {"PUT", "POST"}
  /\ Failed(code)
  /\ UNCHANGED <<answer, sent>>

(* connect() and the TLS handshake are done and the request is written.    *)
(* Neither the handshake nor the writing has a time-out.                   *)
Send ==
  /\ app = "connect" /\ app' = "header"
  /\ sent' = sent \cup {call}
  /\ UNCHANGED <<call, type, answer, framing, got, chunk, errCode, executed, faults>>

(* The database carries a request out, in its own time: the client may     *)
(* have given up.  Or it refuses it.                                       *)
Execute(c, code) ==
  /\ c \in sent /\ sent' = sent \ {c}
  /\ \/ code = HTTP_CODE_OK /\ executed' = executed \cup {c} /\ UNCHANGED faults
     \/ code # HTTP_CODE_OK /\ UNCHANGED executed /\ Fails
  /\ IF c = call /\ app = "header"
     THEN answer' = code /\ framing' \in Framings
     ELSE UNCHANGED <<answer, framing>>
  /\ UNCHANGED <<app, call, type, got, chunk, errCode>>

(* handleHeaderResponse gives up: the time-out, even if an answer is under *)
(* way; a lost connection, and perhaps a lost request; an answer in an     *)
(* unknown encoding or, with code -1 or -7, without a status.              *)
HeaderFails(code) ==
  /\ app = "header"
  /\ \/ code = READ_TIMEOUT /\ UNCHANGED <<sent, faults>>
     \/ code \in {NOT_CONNECTED, CONNECTION_LOST} /\ Fails /\ sent' \in {sent, sent \ {call}}
     \/ /\ code \in {ENCODING, NO_HTTP_SERVER, CONNECTION_REFUSED}
        /\ answer # NoAnswer /\ Fails /\ UNCHANGED sent
  /\ Failed(code)
  /\ UNCHANGED answer

(* The code is known, before the text has been read.                       *)
Header ==
  /\ app = "header" /\ answer # NoAnswer
  /\ app' = "body" /\ errCode' = IF answer = HTTP_CODE_OK THEN 0 ELSE answer
  /\ UNCHANGED <<call, type, answer, framing, got, chunk, sent, executed, faults>>

(* The line with the length of the next chunk arrives in time.             *)
ChunkLine(n) ==
  /\ app = "body" /\ framing = "chunked" /\ chunk = 0
  /\ chunk' = n
  /\ UNCHANGED <<app, call, type, answer, framing, got, errCode, sent, executed, faults>>

(* Mutant of BodyArrives: it reads past the announced length.              *)
BodyArrives_Past ==
  /\ app = "body" /\ got <= BodyLen /\ got' = got + 1
  /\ UNCHANGED <<app, call, type, answer, framing, chunk, errCode, sent, executed, faults>>

(* getString copies what arrives.                                          *)
BodyArrives ==
  /\ app = "body" /\ got < BodyLen /\ got' = got + 1
  /\ IF framing = "chunked" THEN chunk > 0 /\ chunk' = chunk - 1 ELSE UNCHANGED chunk
  /\ UNCHANGED <<app, call, type, answer, framing, errCode, sent, executed, faults>>

(* The end of getString.  What writeToStream returned is not looked at,    *)
(* but pushJSON parses the text of an answer that reports success: a part  *)
(* of a text is no object (1), a whole one need not be one, or hold a      *)
(* "name" (2).                                                             *)
Return ==
  /\ app' = "idle"
  /\ errCode' \in IF type = "POST" /\ errCode = 0
                  THEN IF got < BodyLen THEN {1} ELSE {0, 1, 2}
                  ELSE {errCode}
  /\ UNCHANGED <<call, type, answer, framing, got, chunk, sent, executed>>

BodyDone ==
  /\ app = "body" /\ got = BodyLen /\ framing # "close"
  /\ Return /\ UNCHANGED faults

(* The connection ends, which is also how the end of a text without length *)
(* is told.                                                                *)
BodyCloses ==
  /\ app = "body"
  /\ \/ framing = "close" /\ got = BodyLen /\ UNCHANGED faults
     \/ got < BodyLen /\ Fails
  /\ Return

(* Mutant of DataBlock: the length of a chunk is waited for like its data. *)
DataBlock_Chunks ==
  app = "body" /\ (got < BodyLen \/ framing = "close")

(* The client is in writeToStreamDataBlock, which waits for the data of a  *)
(* text, or of a chunk whose length was read, as long as the connection is *)
(* there.                                                                  *)
DataBlock ==
  /\ app = "body"
  /\ CASE framing = "length"  -> got < BodyLen
       [] framing = "chunked" -> chunk > 0
       [] framing = "close"   -> TRUE

(* Otherwise it reads the end of a chunk, or the line with the length of   *)
(* the next one, which does not come in time.                              *)
ChunkTimesOut ==
  /\ app = "body" /\ framing = "chunked" /\ ~DataBlock
  /\ Return /\ UNCHANGED faults

(* There is no memory for a text of the announced length, for the buffer   *)
(* or for what has arrived.                                                *)
NoMemory ==
  /\ DataBlock /\ got < BodyLen /\ Fails
  /\ Return

SendErrors == {CONNECTION_REFUSED, SEND_HEADER_FAILED, SEND_PAYLOAD_FAILED}
HeaderErrors == {CONNECTION_REFUSED, NOT_CONNECTED, CONNECTION_LOST,
                 NO_HTTP_SERVER, ENCODING, READ_TIMEOUT}

Connect == Send \/ \E c \in SendErrors : SendFails(c)

(* What the client does by itself after it has sent the request, time-outs *)
(* included.                                                               *)
Client == \/ Header \/ \E c \in HeaderErrors : HeaderFails(c)
          \/ BodyDone \/ ChunkTimesOut \/ NoMemory

Next == \/ \E m \in Methods : Request(m)
        \/ Connect \/ Client \/ BodyArrives \/ BodyCloses
        \/ \E n \in 1..(BodyLen - got) : ChunkLine(n)
        \/ \E c \in sent, code \in {HTTP_CODE_OK, UNAUTHORIZED} : Execute(c, code)

Spec == Init /\ [][Next]_vars

(* The sketch's task is scheduled and time passes.  That anything comes    *)
(* from the network, a handshake included, is not assumed.                 *)
FairSpec == Spec /\ WF_vars(Client)

-----------------------------------------------------------------------------
TypeOK ==
  /\ app \in {"idle", "connect", "header", "body"} /\ call \in 0..MaxCalls
  /\ type \in Methods /\ answer \in {NoAnswer, HTTP_CODE_OK, UNAUTHORIZED}
  /\ framing \in Framings /\ {got, chunk} \subseteq 0..BodyLen
  /\ errCode \in SendErrors \cup HeaderErrors \cup {0, 1, 2, UNAUTHORIZED}
  /\ sent \subseteq 1..call /\ executed \subseteq 1..call
  /\ faults \in 0..MaxFaults

Returned == app = "idle" /\ call > 0

(* failed() = 0 is to be trusted: the database has carried out this very   *)
(* request, and a push knows the name its child got.  But a negative code  *)
(* does not mean that the request was not carried out, and a get that      *)
(* succeeded may have been cut off.                                        *)
SuccessIsTrue ==
  Returned /\ errCode = 0 => call \in executed /\ (type = "POST" => got = BodyLen)

(* When the exchange failed there is no value: what getString returned     *)
(* then is the empty text, never that of an earlier answer.                *)
NoValueOnError == Returned /\ errCode < 0 => got = 0

(* Every request returns, whatever fails, except from three waits that     *)
(* have no time-out and end only when the peer answers or the connection   *)
(* ends: the TLS handshake with the writing of the request                 *)
(* (ssl_client.cpp:162 and 245), the text of an answer that is not chunked *)
(* and a chunk whose length was read, even before any of its data          *)
(* (HTTPClient.cpp:1026).                                                  *)
Returns == \/ []<>(app = "idle")
           \/ <>[](app = "connect")
           \/ <>[](app = "body" /\ framing # "chunked")
           \/ <>[](app = "body" /\ chunk > 0)

=============================================================================
