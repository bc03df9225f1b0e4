------------------------ MODULE FirebaseRequestProofs ------------------------
(***************************************************************************)
(* Proofs of the safety properties of FirebaseRequest, for texts of any    *)
(* length and any number of requests and failures.                         *)
(***************************************************************************)
EXTENDS FirebaseRequest, TLAPS

(* What is known of the request under way: nothing has been read before    *)
(* its text, and a chunk is never longer than what is missing; an answer   *)
(* that reports success is one to this very request; and in the text the   *)
(* error code is that of the answer.                                       *)
ProgressInv ==
  /\ app \in {"connect", "header"} => got = 0 /\ chunk = 0
  /\ app = "body" => got + chunk <= BodyLen
  /\ chunk > 0 => framing = "chunked" /\ app \in {"body", "idle"}
  /\ app = "connect" => answer = NoAnswer
  /\ app = "header" /\ answer = HTTP_CODE_OK => call \in executed
  /\ app = "body" => errCode \in {0, UNAUTHORIZED}
  /\ app = "body" /\ errCode = 0 => call \in executed
  /\ app # "idle" => call > 0

(* Properties about a request that has returned are not inductive: what it *)
(* returns is settled while it is under way.                               *)
RequestInv == TypeOK /\ ProgressInv /\ SuccessIsTrue /\ NoValueOnError

Codes == {CONNECTION_REFUSED, SEND_HEADER_FAILED, SEND_PAYLOAD_FAILED,
          NOT_CONNECTED, CONNECTION_LOST, NO_HTTP_SERVER, ENCODING, READ_TIMEOUT}

(* The error codes of the client are negative, those of the database not.  *)
LEMMA CodesNegative ==
  /\ SendErrors \cup HeaderErrors = Codes
  /\ \A c \in Codes : c \in Int /\ c < 0
  /\ HTTP_CODE_OK = 200 /\ UNAUTHORIZED = 401 /\ NoAnswer = 0
  BY DEF SendErrors, HeaderErrors, Codes, CONNECTION_REFUSED, SEND_HEADER_FAILED,
         SEND_PAYLOAD_FAILED, NOT_CONNECTED, CONNECTION_LOST, NO_HTTP_SERVER,
         ENCODING, READ_TIMEOUT, HTTP_CODE_OK, UNAUTHORIZED, NoAnswer

LEMMA RequestInit == Init => RequestInv
  BY CodesNegative, BoundAssumption
  DEF Init, RequestInv, TypeOK, ProgressInv, SuccessIsTrue, NoValueOnError, Returned,
      Methods, Framings

(* Every step keeps the invariant.                                         *)
LEMMA RequestStep == ASSUME RequestInv, [Next]_vars PROVE RequestInv'
<1> USE CodesNegative, BoundAssumption DEF RequestInv, Returned
<1>t. TypeOK /\ ProgressInv /\ SuccessIsTrue /\ NoValueOnError
  OBVIOUS
<1>1. ASSUME NEW m \in Methods, Request(m) PROVE RequestInv'
  <2>1. TypeOK'
    BY <1>1 DEF Request, TypeOK
  <2> QED BY <1>1, <2>1 DEF Request, TypeOK, ProgressInv, SuccessIsTrue, NoValueOnError
<1>2. CASE Send
  <2>1. TypeOK'
    BY <1>2 DEF Send, TypeOK, ProgressInv
  <2> QED BY <1>2, <2>1 DEF Send, TypeOK, ProgressInv, SuccessIsTrue, NoValueOnError
<1>3. ASSUME NEW c \in SendErrors, SendFails(c) PROVE RequestInv'
  <2>1. c \in Codes /\ c < 0
    BY DEF SendErrors, HeaderErrors
  <2>2. TypeOK'
    BY <1>3, <2>1 DEF SendFails, Failed, Fails, TypeOK
  <2> QED BY <1>3, <2>1, <2>2
      DEF SendFails, Failed, TypeOK, ProgressInv, SuccessIsTrue, NoValueOnError
<1>4. CASE Header
  <2>1. TypeOK'
    BY <1>4 DEF Header, TypeOK
  <2> QED BY <1>4, <2>1 DEF Header, TypeOK, ProgressInv, SuccessIsTrue, NoValueOnError
<1>5. ASSUME NEW c \in HeaderErrors, HeaderFails(c) PROVE RequestInv'
  <2>1. c \in Codes /\ c < 0
    BY DEF SendErrors, HeaderErrors
  <2>2. faults' \in 0..MaxFaults /\ sent' \subseteq sent
    BY <1>5 DEF HeaderFails, Fails, TypeOK
  <2>3. TypeOK'
    BY <1>5, <2>1, <2>2 DEF HeaderFails, Failed, TypeOK
  <2> QED BY <1>5, <2>1, <2>3
      DEF HeaderFails, Failed, TypeOK, ProgressInv, SuccessIsTrue, NoValueOnError
<1>6. ASSUME NEW c \in sent, NEW code \in {HTTP_CODE_OK, UNAUTHORIZED}, Execute(c, code)
      PROVE  RequestInv'
  <2>a. sent' = sent \ {c} /\ executed' \in {executed, executed \cup {c}}
    BY <1>6 DEF Execute
  <2>b. faults' \in 0..MaxFaults
    BY <1>6 DEF Execute, Fails, TypeOK
  <2>1. executed' \subseteq 1..call /\ sent' \subseteq 1..call
    BY <2>a DEF TypeOK
  <2>2. answer' \in {NoAnswer, HTTP_CODE_OK, UNAUTHORIZED} /\ framing' \in Framings
    BY <1>6 DEF Execute, TypeOK
  <2>3. TypeOK'
    BY <1>6, <2>b, <2>1, <2>2 DEF Execute, TypeOK
  <2> QED BY <1>6, <2>3 DEF Execute, TypeOK, ProgressInv, SuccessIsTrue, NoValueOnError
<1>7. CASE BodyArrives
  <2>1. /\ got \in 0..BodyLen /\ chunk \in 0..BodyLen /\ got + chunk <= BodyLen
        /\ app = "body" /\ got' = got + 1 /\ chunk' \in {chunk, chunk - 1}
        /\ got < BodyLen /\ UNCHANGED framing
        /\ IF framing = "chunked" THEN chunk > 0 /\ chunk' = chunk - 1 ELSE chunk' = chunk
    BY <1>7 DEF BodyArrives, TypeOK, ProgressInv
  <2>2. chunk > 0 => framing = "chunked"
    BY DEF ProgressInv
  <2>3. got' \in 0..BodyLen /\ chunk' \in 0..BodyLen /\ got' + chunk' <= BodyLen
    BY <2>1, <2>2
  <2>4. TypeOK'
    BY <1>7, <2>3 DEF BodyArrives, TypeOK
  <2> QED BY <1>7, <2>3, <2>4
      DEF BodyArrives, TypeOK, ProgressInv, SuccessIsTrue, NoValueOnError
<1>8. ASSUME app = "body", Return, faults' \in 0..MaxFaults
      PROVE  RequestInv'
  (* What is returned is what was settled: a push that was cut off does    *)
  (* not report success.                                                   *)
  <2>1. TypeOK'
    BY <1>8 DEF Return, TypeOK
  <2> QED BY <1>8, <2>1 DEF Return, TypeOK, ProgressInv, SuccessIsTrue, NoValueOnError
<1>9. CASE BodyDone \/ ChunkTimesOut \/ NoMemory \/ BodyCloses
  <2>1. DataBlock => app = "body"
    BY DEF DataBlock
  <2>2. app = "body" /\ Return
    BY <1>9, <2>1 DEF BodyDone, ChunkTimesOut, NoMemory, BodyCloses
  <2>3. Fails \/ UNCHANGED faults
    BY <1>9 DEF BodyDone, ChunkTimesOut, NoMemory, BodyCloses
  <2>4. faults' \in 0..MaxFaults
    BY <2>3 DEF Fails, TypeOK
  <2> QED BY <1>8, <2>2, <2>4
<1>11. ASSUME NEW n \in 1..(BodyLen - got), ChunkLine(n) PROVE RequestInv'
  <2>1. TypeOK'
    BY <1>11 DEF ChunkLine, TypeOK
  <2> QED BY <1>11, <2>1 DEF ChunkLine, TypeOK, ProgressInv, SuccessIsTrue, NoValueOnError
<1>10. CASE UNCHANGED vars
  BY <1>10 DEF vars, TypeOK, ProgressInv, SuccessIsTrue, NoValueOnError
<1> QED
  BY <1>1, <1>2, <1>3, <1>4, <1>5, <1>6, <1>7, <1>9, <1>10, <1>11
  DEF Next, Connect, Client

(* All variables keep their types; no request is carried out that was not  *)
(* made, and no text is longer than announced.                             *)
THEOREM TypeCorrect == Spec => []TypeOK
<1>1. Init => RequestInv
  BY RequestInit
<1>2. RequestInv /\ [Next]_vars => RequestInv'
  BY RequestStep
<1>3. RequestInv => TypeOK
  BY DEF RequestInv
<1> QED BY <1>1, <1>2, <1>3, PTL DEF Spec

(* A request that reports success (failed() = 0) has been carried out, and *)
(* a push that does knows the name of its child, whatever failed or came   *)
(* late in this and in earlier requests.                                   *)
THEOREM SuccessTrusted == Spec => []SuccessIsTrue
<1>1. Init => RequestInv
  BY RequestInit
<1>2. RequestInv /\ [Next]_vars => RequestInv'
  BY RequestStep
<1>3. RequestInv => SuccessIsTrue
  BY DEF RequestInv
<1> QED BY <1>1, <1>2, <1>3, PTL DEF Spec

(* When the exchange has failed, firebaseSendHttpRequest returns the empty *)
(* text: nothing of this or an earlier answer.                             *)
THEOREM ErrorsLeaveNoValue == Spec => []NoValueOnError
<1>1. Init => RequestInv
  BY RequestInit
<1>2. RequestInv /\ [Next]_vars => RequestInv'
  BY RequestStep
<1>3. RequestInv => NoValueOnError
  BY DEF RequestInv
<1> QED BY <1>1, <1>2, <1>3, PTL DEF Spec

=============================================================================
