------------------------- MODULE FirebaseStreamProofs -------------------------
(***************************************************************************)
(* Proofs of the safety properties of FirebaseStream, for any set of paths *)
(* and any number of changes and failures.                                 *)
(***************************************************************************)
EXTENDS FirebaseStream, SequenceTheorems, TLAPS

-----------------------------------------------------------------------------
(* The inductive invariant.                                                *)

(* What line b may come after line a: an event is sent as a whole.         *)
Follows(a, b) ==
  \/ a.tag = "event:" /\ b.tag = "data:" /\ b.of = a.of
  \/ a.tag = "data:" /\ b.tag = "blank" /\ b.of = a.of
  \/ a.tag = "blank" /\ b.tag = "event:"

(* The lines s are consecutive ones of a stream of path p.                 *)
Streamed(s, p) ==
  /\ \A i \in 1..Len(s) : s[i].of[1] = p
  /\ \A i \in 1..(Len(s) - 1) : Follows(s[i], s[i + 1])

(* They end with the end of an event.                                      *)
Whole(s) == Len(s) > 0 => s[Len(s)].tag = "blank"

(* The lines the task has not read yet.                                    *)
Unread == tcp.buffer \o tcp.wire

(* The connection carries whole events of one path; only a break can cut   *)
(* the last one short.                                                     *)
LinesInv ==
  /\ Streamed(Unread, tcp.path)
  /\ tcp.open => Whole(Unread)
  /\ ~tcp.open => tcp.wire = <<>>
  /\ tcp.path = NoPath => Unread = <<>>

(* What is streamed is read through the client of its connection; the      *)
(* connection of a request is new.                                         *)
ClientInv ==
  /\ tcp.path # NoPath => client = "tcp"
  /\ task = "header" => tcp.path = NoPath /\ client # "tcp" /\ ~tcp.kept
  /\ task # "none" => url \in Paths

(* Between two streams only a kept connection can be read from, and nobody *)
(* has been called.                                                        *)
IdleInv == task = "none" => /\ ~tcp.kept => ~Connected(tcp)
                            /\ called = NoCall

(* A connection made for this stream is of its path, and the task has read *)
(* the beginning of the event whose rest is unread.                        *)
ReaderInv ==
  ~tcp.kept /\ Unread # <<>> =>
    /\ tcp.path = url
    /\ Unread[1].tag \in {"data:", "blank"} => eventType = Unread[1].of
    /\ Unread[1].tag = "blank" => jsonData = Unread[1].of
OpenInv == ~tcp.kept /\ tcp.open /\ tcp.path # NoPath => tcp.path = url

StreamInv == TypeOK /\ LinesInv /\ ClientInv /\ IdleInv /\ ReaderInv /\ OpenInv /\ OneEvent

-----------------------------------------------------------------------------
(* Lemmas about lines.                                                     *)

(* A line that arrives moves from the wire to the buffer: what is unread   *)
(* stays the same.                                                         *)
LEMMA MoveLine ==
  ASSUME NEW S, NEW b \in Seq(S), NEW w \in Seq(S), w # <<>>
  PROVE  /\ Append(b, Head(w)) \o Tail(w) = b \o w
         /\ Append(b, Head(w)) \in Seq(S) /\ Tail(w) \in Seq(S)
<1>1. Head(w) \in S /\ Tail(w) \in Seq(S) /\ Len(w) > 0 /\ Len(Tail(w)) = Len(w) - 1
  OBVIOUS
<1>2. Append(b, Head(w)) \in Seq(S) /\ Len(Append(b, Head(w))) = Len(b) + 1
  BY <1>1
<1>3. DOMAIN (Append(b, Head(w)) \o Tail(w)) = DOMAIN (b \o w)
  BY <1>1, <1>2
<1>4. ASSUME NEW i \in 1..(Len(b) + Len(w))
      PROVE  (Append(b, Head(w)) \o Tail(w))[i] = (b \o w)[i]
  BY <1>1, <1>2
<1> QED BY <1>1, <1>2, <1>3, <1>4

LEMMA StreamedTail ==
  ASSUME NEW p, NEW s \in Seq(Line), s # <<>>, Streamed(s, p)
  PROVE  /\ Streamed(Tail(s), p)
         /\ Whole(s) => Whole(Tail(s))
         /\ Tail(s) # <<>> => Follows(s[1], Tail(s)[1])
<1>1. /\ Tail(s) \in Seq(Line) /\ Len(Tail(s)) = Len(s) - 1 /\ Len(s) \in Nat \ {0}
      /\ \A i \in 1..(Len(s) - 1) : Tail(s)[i] = s[i + 1]
  OBVIOUS
<1>2. Streamed(Tail(s), p)
  BY <1>1 DEF Streamed
<1>3. Whole(s) => Whole(Tail(s))
  BY <1>1 DEF Whole
<1>4. Tail(s) # <<>> => Follows(s[1], Tail(s)[1])
  BY <1>1 DEF Streamed
<1> QED BY <1>2, <1>3, <1>4

LEMMA EventLines ==
  ASSUME NEW p \in Paths, NEW v \in 0..MaxVer
  PROVE  /\ Lines(<<p, v>>) \in Seq(Line) /\ Lines(<<p, v>>) # <<>>
         /\ Streamed(Lines(<<p, v>>), p) /\ Whole(Lines(<<p, v>>))
         /\ Lines(<<p, v>>)[1].tag = "event:"
<1> DEFINE e == <<p, v>>
           l == Lines(e)
<1>1. /\ Len(l) = 3 /\ l[1] = [tag |-> "event:", of |-> e]
      /\ l[2] = [tag |-> "data:", of |-> e] /\ l[3] = [tag |-> "blank", of |-> e]
  BY DEF Lines
<1>2. e \in Paths \X (0..MaxVer) /\ e[1] = p
  OBVIOUS
<1>3. l \in Seq(Line) /\ l # <<>>
  BY <1>2 DEF Lines, Line
<1> HIDE DEF e, l
<1>4. Follows(l[1], l[2]) /\ Follows(l[2], l[3])
  BY <1>1 DEF Follows
<1>5. Streamed(l, p) /\ Whole(l)
  <2>1. \A i \in 1..3 : l[i].of = e
    BY <1>1
  <2>2. \A i \in 1..2 : Follows(l[i], l[i + 1])
    BY <1>4
  <2> QED BY <1>1, <1>2, <2>1, <2>2 DEF Streamed, Whole
<1> QED BY <1>1, <1>3, <1>5 DEF e, l

(* A stream may be followed by another event of its path.                  *)
LEMMA StreamedMore ==
  ASSUME NEW p, NEW s \in Seq(Line), NEW t \in Seq(Line),
         Streamed(s, p), Whole(s), Streamed(t, p), Whole(t),
         t # <<>>, t[1].tag = "event:"
  PROVE  Streamed(s \o t, p) /\ Whole(s \o t)
<1>1. /\ s \o t \in Seq(Line) /\ Len(s \o t) = Len(s) + Len(t)
      /\ Len(s) \in Nat /\ Len(t) \in Nat \ {0}
      /\ \A i \in 1..Len(s) : (s \o t)[i] = s[i]
      /\ \A i \in (Len(s) + 1)..(Len(s) + Len(t)) : (s \o t)[i] = t[i - Len(s)]
  OBVIOUS
<1>2. \A i \in 1..Len(s \o t) : (s \o t)[i].of[1] = p
  <2>1. ASSUME NEW i \in 1..Len(s \o t) PROVE (s \o t)[i].of[1] = p
    <3>1. CASE i \in 1..Len(s)
      BY <3>1, <1>1 DEF Streamed
    <3>2. CASE i \notin 1..Len(s)
      BY <3>2, <1>1 DEF Streamed
    <3> QED BY <3>1, <3>2
  <2> QED BY <2>1
<1>3. ASSUME NEW i \in 1..(Len(s \o t) - 1) PROVE Follows((s \o t)[i], (s \o t)[i + 1])
  <2>1. CASE i < Len(s)
    BY <1>1, <2>1 DEF Streamed
  <2>2. CASE i = Len(s)
    <3>1. (s \o t)[i] = s[i] /\ (s \o t)[i + 1] = t[1]
      BY <1>1, <2>2
    <3>2. s[i].tag = "blank"
      BY <2>2 DEF Whole
    <3> QED BY <3>1, <3>2 DEF Follows
  <2>3. CASE i > Len(s)
    <3>1. i - Len(s) \in 1..(Len(t) - 1)
      BY <1>1, <2>3
    <3>2. (s \o t)[i] = t[i - Len(s)] /\ (s \o t)[i + 1] = t[(i - Len(s)) + 1]
      BY <1>1, <2>3
    <3> QED BY <3>1, <3>2 DEF Streamed
  <2> QED BY <1>1, <2>1, <2>2, <2>3
<1>4. Whole(s \o t)
  BY <1>1 DEF Whole
<1> QED BY <1>2, <1>3, <1>4 DEF Streamed

(* A break cuts a stream short.                                            *)
LEMMA StreamedCut ==
  ASSUME NEW p, NEW s \in Seq(Line), NEW t \in Seq(Line), Streamed(s \o t, p)
  PROVE  Streamed(s, p)
<1>1. /\ Len(s \o t) = Len(s) + Len(t) /\ Len(s) \in Nat /\ Len(t) \in Nat
      /\ \A i \in 1..Len(s) : (s \o t)[i] = s[i]
  OBVIOUS
<1>2. ASSUME NEW i \in 1..Len(s) PROVE s[i].of[1] = p
  BY <1>1 DEF Streamed
<1>3. ASSUME NEW i \in 1..(Len(s) - 1) PROVE Follows(s[i], s[i + 1])
  BY <1>1 DEF Streamed
<1> QED BY <1>2, <1>3 DEF Streamed

-----------------------------------------------------------------------------
(* Facts about the connection.                                             *)

Tcp == [open : BOOLEAN, path : Paths \cup {NoPath}, wire : Seq(Line),
        buffer : Seq(Line), body : BOOLEAN, kept : BOOLEAN]

(* A connection that breaks, and one that is kept.                         *)
LEMMA TcpBreaks ==
  ASSUME NEW c \in Tcp
  PROVE  /\ Broken(c) \in Tcp /\ Broken(c).wire = <<>> /\ Broken(c).buffer = c.buffer
         /\ ~Broken(c).open /\ Broken(c).path = c.path /\ Broken(c).kept = c.kept
<1>1. <<>> \in Seq(Line) /\ FALSE \in BOOLEAN
  OBVIOUS
<1>2. Broken(c) \in Tcp
  BY <1>1 DEF Tcp, Broken
<1>3. Broken(c).wire = <<>> /\ Broken(c).buffer = c.buffer /\ Broken(c).path = c.path
  BY DEF Tcp, Broken
<1>4. ~Broken(c).open /\ Broken(c).kept = c.kept
  BY DEF Tcp, Broken
<1> QED BY <1>2, <1>3, <1>4

LEMMA TcpKept ==
  ASSUME NEW c \in Tcp, NEW n, n = [c EXCEPT !.kept = TRUE]
  PROVE  /\ n \in Tcp /\ n.wire = c.wire /\ n.buffer = c.buffer
         /\ n.open = c.open /\ n.path = c.path /\ n.kept
<1>1. n \in Tcp
  BY DEF Tcp
<1> QED BY <1>1 DEF Tcp

(* The first unread line is that of the buffer, if there is one.           *)
LEMMA UnreadFacts ==
  ASSUME tcp \in Tcp
  PROVE  /\ tcp.buffer \in Seq(Line) /\ tcp.wire \in Seq(Line) /\ Unread \in Seq(Line)
         /\ tcp.buffer # <<>> => /\ Unread # <<>> /\ Head(tcp.buffer) = Unread[1]
                                 /\ Tail(Unread) = Tail(tcp.buffer) \o tcp.wire
                                 /\ Head(tcp.buffer) \in Line
         /\ tcp.wire = <<>> => Unread = tcp.buffer
<1>1. tcp.buffer \in Seq(Line) /\ tcp.wire \in Seq(Line)
  BY DEF Tcp
<1>2. Unread \in Seq(Line)
  BY <1>1 DEF Unread
<1>3. tcp.wire = <<>> => Unread = tcp.buffer
  BY <1>1 DEF Unread
<1>4. ASSUME tcp.buffer # <<>>
      PROVE  /\ Unread # <<>> /\ Head(tcp.buffer) = Unread[1] /\ Head(tcp.buffer) \in Line
             /\ Tail(Unread) = Tail(tcp.buffer) \o tcp.wire
  <2> DEFINE b == tcp.buffer
             w == tcp.wire
  <2>1. b \in Seq(Line) /\ w \in Seq(Line) /\ b # <<>> /\ Unread = b \o w
    BY <1>1, <1>4 DEF Unread
  <2> HIDE DEF b, w
  <2>2. /\ Len(b) > 0 /\ Head(b) = b[1] /\ Head(b) \in Line
        /\ Tail(b) \in Seq(Line) /\ Len(Tail(b)) = Len(b) - 1
    BY <2>1
  <2>3. b \o w # <<>> /\ (b \o w)[1] = b[1]
    BY <2>1, <2>2
  <2>4. Tail(b \o w) = Tail(b) \o w
    <3>1. /\ Tail(b \o w) \in Seq(Line) /\ Tail(b) \o w \in Seq(Line)
          /\ Len(Tail(b \o w)) = Len(b) + Len(w) - 1
          /\ Len(Tail(b) \o w) = Len(b) + Len(w) - 1
      BY <2>1, <2>2, <2>3
    <3>2. ASSUME NEW i \in 1..(Len(b) + Len(w) - 1)
          PROVE  Tail(b \o w)[i] = (Tail(b) \o w)[i]
      BY <2>1, <2>2, <2>3, <3>1
    <3> QED BY <3>1, <3>2
  <2> QED BY <2>1, <2>2, <2>3, <2>4 DEF b, w
<1> QED BY <1>1, <1>2, <1>3, <1>4

(* More is sent on the connection.                                         *)
LEMMA MoreUnread ==
  ASSUME tcp \in Tcp, NEW l \in Seq(Line), tcp' = [tcp EXCEPT !.wire = tcp.wire \o l]
  PROVE  /\ tcp' \in Tcp /\ tcp'.open = tcp.open /\ tcp'.path = tcp.path
         /\ tcp'.buffer = tcp.buffer /\ tcp'.kept = tcp.kept
         /\ Unread' = Unread \o l
<1>1. tcp.buffer \in Seq(Line) /\ tcp.wire \in Seq(Line) /\ tcp.wire \o l \in Seq(Line)
  <2>1. tcp.buffer \in Seq(Line) /\ tcp.wire \in Seq(Line)
    BY UnreadFacts
  <2> QED BY <2>1
<1>2. /\ tcp' \in Tcp /\ tcp'.open = tcp.open /\ tcp'.path = tcp.path
      /\ tcp'.buffer = tcp.buffer /\ tcp'.kept = tcp.kept /\ tcp'.wire = tcp.wire \o l
  <2> DEFINE w == tcp.wire \o l
  <2>1. w \in Seq(Line) /\ tcp' = [tcp EXCEPT !.wire = w]
    BY <1>1
  <2> HIDE DEF w
  <2>2. /\ tcp' \in Tcp /\ tcp'.open = tcp.open /\ tcp'.path = tcp.path
        /\ tcp'.buffer = tcp.buffer /\ tcp'.kept = tcp.kept /\ tcp'.wire = w
    <3>1. tcp' \in Tcp
      BY <2>1 DEF Tcp
    <3> QED BY <2>1, <3>1 DEF Tcp
  <2> QED BY <2>2 DEF w
<1>3. ASSUME NEW b \in Seq(Line), NEW w \in Seq(Line) PROVE b \o (w \o l) = (b \o w) \o l
  BY ConcatAssociative
<1> QED BY <1>1, <1>2, <1>3 DEF Unread

LEMMA EmptyStreamed == \A p : Streamed(<<>>, p) /\ Whole(<<>>)
  BY DEF Streamed, Whole

LEMMA NoTcpFacts ==
  /\ NoTcp \in Tcp /\ ~NoTcp.open /\ NoTcp.path = NoPath /\ NoTcp.wire = <<>>
  /\ NoTcp.buffer = <<>> /\ ~NoTcp.kept /\ ~NoTcp.body
  /\ NewTcp \in Tcp /\ NewTcp.open /\ NewTcp.path = NoPath /\ NewTcp.wire = <<>>
  /\ NewTcp.buffer = <<>> /\ ~NewTcp.kept
<1>1. <<>> \in Seq(Line)
  OBVIOUS
<1>2. NoTcp \in Tcp
  BY <1>1 DEF NoTcp, Tcp
<1>3. /\ NewTcp.open /\ NewTcp.path = NoTcp.path /\ NewTcp.wire = NoTcp.wire
      /\ NewTcp.buffer = NoTcp.buffer /\ NewTcp.kept = NoTcp.kept
  BY <1>2 DEF NewTcp, Tcp
<1>4. NewTcp \in Tcp
  BY <1>2 DEF NewTcp, Tcp
<1>5. /\ ~NoTcp.open /\ NoTcp.path = NoPath /\ NoTcp.wire = <<>>
      /\ NoTcp.buffer = <<>> /\ ~NoTcp.kept /\ ~NoTcp.body
  BY DEF NoTcp
<1> QED BY <1>2, <1>3, <1>4, <1>5

(* What StreamInv says of a connection on which nothing has been sent.     *)
LEMMA FreshConnection ==
  ASSUME tcp' \in {NoTcp, NewTcp}
  PROVE  /\ tcp' \in Tcp /\ Unread' = <<>> /\ LinesInv' /\ ReaderInv' /\ OpenInv'
         /\ tcp'.path = NoPath /\ ~tcp'.kept
<1>1. /\ tcp' \in Tcp /\ tcp'.path = NoPath /\ tcp'.wire = <<>>
      /\ tcp'.buffer = <<>> /\ ~tcp'.kept
  BY NoTcpFacts
<1>2. Unread' = <<>>
  BY <1>1 DEF Unread
<1> QED BY <1>1, <1>2, EmptyStreamed DEF LinesInv, ReaderInv, OpenInv

-----------------------------------------------------------------------------
(* The steps.                                                              *)
LEMMA OfFacts ==
  /\ None \in Of /\ Junk \in Of
  /\ NoCall \in [type : Of, data : Of, by : {"none", "tcp", "kept", "freed"}]
  /\ NoCall.by = "none"
<1>1. None \in Of /\ Junk \in Of
  BY DEF Of
<1> QED BY <1>1 DEF NoCall

LEMMA FaultsType ==
  ASSUME TypeOK, Fails \/ UNCHANGED faults PROVE faults' \in 0..MaxFaults
<1>1. faults \in 0..MaxFaults /\ MaxFaults \in Nat
  BY BoundAssumption DEF TypeOK
<1> QED BY <1>1 DEF Fails

LEMMA StreamInit == Init => StreamInv
<1> SUFFICES ASSUME Init PROVE StreamInv
  OBVIOUS
<1>1. tcp = NoTcp
  BY DEF Init
<1>2. Unread = <<>>
  BY <1>1, NoTcpFacts DEF Unread
<1>3. TypeOK
  <2>1. ver \in [Paths -> 0..MaxVer] /\ faults \in 0..MaxFaults
    BY BoundAssumption DEF Init
  <2>2. tcp \in Tcp
    BY <1>1, NoTcpFacts
  <2>3. /\ eventType \in Of /\ jsonData \in Of
        /\ called \in [type : Of, data : Of, by : {"none", "tcp", "kept", "freed"}]
    BY OfFacts DEF Init
  <2>4. callback = (task # "none") /\ canReuse \in BOOLEAN
    BY DEF Init
  <2> QED BY <2>1, <2>2, <2>3, <2>4 DEF Init, TypeOK, Tcp
<1>4. LinesInv /\ ReaderInv /\ OpenInv
  BY <1>1, <1>2, NoTcpFacts, EmptyStreamed DEF LinesInv, ReaderInv, OpenInv
<1>5. ClientInv /\ IdleInv /\ OneEvent
  BY <1>1, NoTcpFacts, OfFacts DEF Init, ClientInv, IdleInv, OneEvent, Connected
<1> QED BY <1>3, <1>4, <1>5 DEF StreamInv

(* Steps that leave the connection and what was read from it alone.        *)
LEMMA SameConnection ==
  ASSUME LinesInv, ReaderInv, OpenInv, UNCHANGED <<tcp, url, eventType, jsonData>>
  PROVE  LinesInv' /\ ReaderInv' /\ OpenInv' /\ Unread' = Unread
<1>1. Unread' = Unread
  BY DEF Unread
<1> QED BY <1>1 DEF LinesInv, ReaderInv, OpenInv

LEMMA StartStreamStep ==
  ASSUME StreamInv, NEW p \in Paths, StartStream(p) PROVE StreamInv'
<1> USE DEF StreamInv, StartStream, eventVars
<1>1. task = "none" /\ called = NoCall /\ (~tcp.kept => ~tcp.open /\ Unread = <<>>)
  BY UnreadFacts DEF IdleInv, Connected, LinesInv, TypeOK, Tcp
<1>2. Unread' = Unread /\ LinesInv'
  BY DEF Unread, LinesInv
<1>3. TypeOK'
  BY DEF TypeOK
<1>4. ReaderInv' /\ OpenInv' /\ ClientInv' /\ IdleInv'
  BY <1>1, <1>2 DEF ReaderInv, OpenInv, ClientInv, IdleInv
<1>5. OneEvent'
  BY <1>1, OfFacts DEF OneEvent
<1> QED BY <1>2, <1>3, <1>4, <1>5

(* The task moves on, and neither the connection nor the client changes.   *)
LEMMA TaskMoves ==
  ASSUME StreamInv, task \notin {"none"}, task' \in {"loop", "get", "poll"},
         UNCHANGED <<ver, faults, url, callback, tcp, canReuse, client, eventVars>>
  PROVE  StreamInv'
<1> USE DEF StreamInv, eventVars
<1>1. LinesInv' /\ ReaderInv' /\ OpenInv'
  BY SameConnection
<1>2. TypeOK'
  BY DEF TypeOK
<1>3. ClientInv' /\ IdleInv' /\ OneEvent'
  BY DEF ClientInv, IdleInv, OneEvent
<1> QED BY <1>1, <1>2, <1>3

LEMMA ChangeStep ==
  ASSUME StreamInv, NEW p \in Paths, Change(p) PROVE StreamInv'
<1> USE DEF StreamInv, Change, eventVars
<1>t. tcp \in Tcp
  BY DEF TypeOK, Tcp
<1>v. ver' \in [Paths -> 0..MaxVer] /\ ver[p] + 1 \in 0..MaxVer
  BY BoundAssumption DEF TypeOK
<1>1. CASE ~(tcp.open /\ tcp.path = p)
  <2>1. LinesInv' /\ ReaderInv' /\ OpenInv'
    BY <1>1, SameConnection
  <2>2. TypeOK'
    BY <1>1, <1>v DEF TypeOK
  <2> QED BY <1>1, <2>1, <2>2 DEF ClientInv, IdleInv, OneEvent
<1>2. CASE tcp.open /\ tcp.path = p
  <2> DEFINE l == Lines(<<p, ver[p] + 1>>)
  <2>1. /\ l \in Seq(Line) /\ l # <<>> /\ Streamed(l, p) /\ Whole(l)
        /\ l[1].tag = "event:"
    BY <1>v, EventLines
  <2> HIDE DEF l
  <2>2. tcp' = [tcp EXCEPT !.wire = tcp.wire \o l]
    BY <1>2 DEF l
  <2>3. /\ tcp' \in Tcp /\ tcp'.open = tcp.open /\ tcp'.path = tcp.path
        /\ tcp'.buffer = tcp.buffer /\ tcp'.kept = tcp.kept
    BY <1>t, <2>1, <2>2, MoreUnread
  <2>4. tcp.path # NoPath /\ Unread \in Seq(Line)
    BY <1>2, <1>t, PathAssumption, UnreadFacts
  <2>5. Unread' = Unread \o l
    BY <1>t, <2>1, <2>2, MoreUnread
  <2>6. Streamed(Unread', p) /\ Whole(Unread') /\ Unread' # <<>>
    <3>1. Unread \o l # <<>>
      BY <2>1, <2>4
    <3> QED BY <1>2, <2>1, <2>4, <2>5, <3>1, StreamedMore DEF LinesInv
  <2>7. LinesInv' /\ OpenInv'
    BY <1>2, <2>3, <2>4, <2>6 DEF LinesInv, OpenInv
  <2>8. ReaderInv'
    <3>1. CASE Unread = <<>>
      <4>1. Unread'[1].tag = "event:"
        BY <2>1, <2>5, <3>1
      <4> QED BY <4>1, <1>2, <2>3, <2>4 DEF ReaderInv, OpenInv
    <3>2. CASE Unread # <<>>
      <4>1. Unread'[1] = Unread[1]
        BY <2>1, <2>4, <2>5, <3>2
      <4> QED BY <4>1, <3>2, <1>2, <2>3, <2>4 DEF ReaderInv, OpenInv
    <3> QED BY <3>1, <3>2
  <2>9. TypeOK'
    BY <1>v, <2>3 DEF TypeOK, Tcp
  <2> QED BY <1>2, <2>3, <2>4, <2>7, <2>8, <2>9
      DEF ClientInv, IdleInv, OneEvent, Connected
<1> QED BY <1>1, <1>2

LEMMA LineArrivesStep ==
  ASSUME StreamInv, LineArrives PROVE StreamInv'
<1> USE DEF StreamInv, LineArrives, OnTcp, eventVars
<1>t. tcp \in Tcp
  BY DEF TypeOK, Tcp
<1>1. tcp.buffer \in Seq(Line) /\ tcp.wire \in Seq(Line) /\ tcp.wire # <<>>
  BY <1>t, UnreadFacts
<1>2. /\ Append(tcp.buffer, Head(tcp.wire)) \o Tail(tcp.wire) = Unread
      /\ Append(tcp.buffer, Head(tcp.wire)) \in Seq(Line) /\ Tail(tcp.wire) \in Seq(Line)
  BY <1>1, MoveLine DEF Unread
<1>3. /\ tcp'.open = tcp.open /\ tcp'.path = tcp.path /\ tcp'.kept = tcp.kept
      /\ tcp'.wire = Tail(tcp.wire) /\ tcp'.buffer = Append(tcp.buffer, Head(tcp.wire))
      /\ tcp' \in Tcp
  BY <1>t, <1>2 DEF Tcp
<1>4. Unread' = Unread
  BY <1>2, <1>3 DEF Unread
<1>5. tcp.open
  BY <1>1 DEF LinesInv
<1>6. LinesInv' /\ ReaderInv' /\ OpenInv'
  BY <1>3, <1>4, <1>5 DEF LinesInv, ReaderInv, OpenInv
<1>7. TypeOK'
  BY <1>3 DEF TypeOK, Tcp
<1> QED BY <1>3, <1>5, <1>6, <1>7 DEF ClientInv, IdleInv, OneEvent, Connected

(* The connection breaks: what has arrived can still be read.              *)
LEMMA BreakStep ==
  ASSUME StreamInv, tcp.open, OnTcp(Broken(tcp)), faults' \in 0..MaxFaults
  PROVE  StreamInv'
<1> USE DEF StreamInv, OnTcp, eventVars
<1>t. tcp \in Tcp
  BY DEF TypeOK, Tcp
<1>1. /\ tcp' \in Tcp /\ ~tcp'.open /\ tcp'.path = tcp.path /\ tcp'.kept = tcp.kept
      /\ tcp'.wire = <<>> /\ tcp'.buffer = tcp.buffer
  BY <1>t, TcpBreaks
<1>2. tcp.buffer \in Seq(Line) /\ tcp.wire \in Seq(Line) /\ Unread' = tcp.buffer
  BY <1>1, <1>t, UnreadFacts DEF Unread
<1>3. Streamed(tcp.buffer, tcp.path)
  BY <1>2, StreamedCut DEF LinesInv, Unread
<1>4. Unread # <<>> \/ tcp.buffer = <<>>
  BY <1>t, UnreadFacts
<1>5. LinesInv' /\ OpenInv'
  BY <1>1, <1>2, <1>3, <1>4 DEF LinesInv, OpenInv
<1>6. ReaderInv'
  <2>1. tcp.buffer # <<>> => Unread # <<>> /\ tcp.buffer[1] = Unread[1]
    <3>1. tcp.buffer # <<>> => Head(tcp.buffer) = tcp.buffer[1]
      BY <1>2
    <3> QED BY <1>t, <3>1, UnreadFacts
  <2> QED BY <1>1, <1>2, <2>1 DEF ReaderInv
<1>7. TypeOK'
  BY <1>1 DEF TypeOK, Tcp
<1> QED BY <1>1, <1>5, <1>6, <1>7 DEF ClientInv, IdleInv, OneEvent, Connected

(* Whatever stopStream leaves of the connection is kept, or cannot be read *)
(* from.                                                                   *)
LEMMA StopStreamStep ==
  ASSUME StreamInv, StopStream PROVE StreamInv'
<1> USE DEF StreamInv
<1>t. tcp \in Tcp
  BY DEF TypeOK, Tcp
<1>e. /\ task' = "none" /\ called' = NoCall /\ callback' = (task' # "none")
      /\ eventType' \in Of /\ jsonData' \in Of
      /\ UNCHANGED <<ver, faults, url, canReuse, client>>
      /\ called' \in [type : Of, data : Of, by : {"none", "tcp", "kept", "freed"}]
  <2>1. task' = "none" /\ callback' = FALSE
    BY DEF StopStream
  <2>2. callback' = (task' # "none")
    BY <2>1
  <2> QED BY <2>1, <2>2, OfFacts DEF StopStream
<1>o. OneEvent'
  BY <1>e, OfFacts DEF OneEvent
<1>1. CASE Connected(tcp) /\ canReuse
  <2>1. tcp' = [tcp EXCEPT !.kept = TRUE]
    BY <1>1 DEF StopStream, End
  <2>2. /\ tcp' \in Tcp /\ tcp'.wire = tcp.wire /\ tcp'.buffer = tcp.buffer
        /\ tcp'.open = tcp.open /\ tcp'.path = tcp.path /\ tcp'.kept
    BY <1>t, <2>1, TcpKept
  <2>3. LinesInv' /\ ReaderInv' /\ OpenInv'
    BY <2>2 DEF LinesInv, ReaderInv, OpenInv, Unread
  <2>4. TypeOK'
    BY <1>e, <2>2 DEF TypeOK, Tcp
  <2> QED BY <1>e, <1>o, <2>2, <2>3, <2>4 DEF ClientInv, IdleInv
<1>2. CASE Connected(tcp) /\ ~canReuse
  <2>1. tcp' = NoTcp
    BY <1>2 DEF StopStream, End
  <2>2. tcp' \in Tcp /\ LinesInv' /\ ReaderInv' /\ OpenInv' /\ tcp'.path = NoPath
    BY <2>1, FreshConnection
  <2>3. ~Connected(tcp')
    BY <2>1, NoTcpFacts DEF Connected
  <2>4. TypeOK'
    BY <1>e, <2>2 DEF TypeOK, Tcp
  <2> QED BY <1>e, <1>o, <2>2, <2>3, <2>4 DEF ClientInv, IdleInv
<1>3. CASE ~Connected(tcp)
  <2>1. tcp' = tcp
    BY <1>3 DEF StopStream
  <2>2. Unread = <<>> /\ Unread' = Unread
    BY <1>t, <1>3, <2>1, UnreadFacts DEF Connected, LinesInv, Unread
  <2>3. LinesInv' /\ ReaderInv' /\ OpenInv'
    BY <1>3, <2>1, <2>2 DEF LinesInv, ReaderInv, OpenInv, Connected
  <2>4. TypeOK'
    BY <1>e, <2>1 DEF TypeOK
  <2> QED BY <1>e, <1>o, <1>3, <2>1, <2>3, <2>4 DEF ClientInv, IdleInv
<1> QED BY <1>1, <1>2, <1>3

(* connect(), and returnError: a connection on which nothing was sent.     *)
LEMMA FreshStep ==
  ASSUME StreamInv, tcp' \in {NoTcp, NewTcp}, task # "none", faults' \in 0..MaxFaults,
         task' = "poll" \/ (task' = "header" /\ client' # "tcp"),
         client' \in {client, "freed"},
         UNCHANGED <<ver, url, callback, canReuse, eventVars>>
  PROVE  StreamInv'
<1> USE DEF StreamInv, eventVars
<1>1. /\ tcp' \in Tcp /\ LinesInv' /\ ReaderInv' /\ OpenInv'
      /\ tcp'.path = NoPath /\ ~tcp'.kept
  BY FreshConnection
<1>2. TypeOK'
  BY <1>1 DEF TypeOK, Tcp
<1> QED BY <1>1, <1>2 DEF ClientInv, IdleInv, OneEvent

LEMMA GetStep ==
  ASSUME StreamInv, GetConnects \/ GetFails \/ Unanswered PROVE StreamInv'
<1> USE DEF StreamInv
<1>1. CASE GetConnects
  <2>1. client' # "tcp" /\ client' \in {client, "freed"} /\ faults' \in 0..MaxFaults
    BY <1>1, FaultsType DEF GetConnects, Replace
  <2> QED BY <1>1, <2>1, FreshStep DEF GetConnects, Replace
<1>2. CASE GetFails
  <2>1. client' \in {client, "freed"} /\ faults' \in 0..MaxFaults
    BY <1>2, FaultsType DEF GetFails, Replace
  <2> QED BY <1>2, <2>1, FreshStep DEF GetFails, Replace
<1>3. CASE Unanswered
  <2>1. faults' \in 0..MaxFaults
    BY <1>3, FaultsType DEF Unanswered
  <2> QED BY <1>3, <2>1, FreshStep DEF Unanswered
<1> QED BY <1>1, <1>2, <1>3

(* The text of a refusal arrives, or is read: the lines stay as they were. *)
LEMMA TextOnly ==
  ASSUME tcp \in Tcp, NEW b \in BOOLEAN, tcp' = [tcp EXCEPT !.body = b],
         LinesInv, Unread = <<>>, UNCHANGED url
  PROVE  /\ tcp' \in Tcp /\ tcp'.open = tcp.open /\ tcp'.path = tcp.path
         /\ tcp'.kept = tcp.kept
         /\ LinesInv' /\ ReaderInv' /\ (OpenInv => OpenInv')
<1>1. tcp' \in Tcp
  BY DEF Tcp
<1>2. /\ tcp'.wire = tcp.wire /\ tcp'.buffer = tcp.buffer
      /\ tcp'.open = tcp.open /\ tcp'.path = tcp.path /\ tcp'.kept = tcp.kept
  BY <1>1 DEF Tcp
<1>3. Unread' = <<>>
  BY <1>2 DEF Unread
<1>4. LinesInv' /\ ReaderInv'
  BY <1>2, <1>3 DEF LinesInv, ReaderInv
<1> QED BY <1>1, <1>2, <1>4 DEF OpenInv

(* The server's answer to the request on a new connection.                 *)
LEMMA AcceptedStep ==
  ASSUME StreamInv, NEW reuse \in BOOLEAN, Accepted(reuse) PROVE StreamInv'
<1> USE DEF StreamInv
<1>t. tcp \in Tcp
  BY DEF TypeOK, Tcp
<1>u. url \in Paths /\ ver[url] \in 0..MaxVer /\ ~tcp.kept /\ tcp.open /\ tcp.path = NoPath
  BY DEF Accepted, ClientInv, TypeOK
<1> DEFINE l == Lines(<<url, ver[url]>>)
<1>1. /\ l \in Seq(Line) /\ l # <<>> /\ Streamed(l, url) /\ Whole(l)
      /\ l[1].tag = "event:"
  BY <1>u, EventLines
<1>2. tcp' = [tcp EXCEPT !.path = url, !.wire = l]
  BY DEF Accepted
<1> HIDE DEF l
<1>3. tcp' \in Tcp
  BY <1>t, <1>u, <1>1, <1>2 DEF Tcp
<1>4. tcp'.open /\ tcp'.path = url /\ tcp'.buffer = tcp.buffer /\ tcp'.wire = l
  BY <1>t, <1>u, <1>2, <1>3 DEF Tcp
<1>5. ~tcp'.kept
  BY <1>t, <1>u, <1>2, <1>3 DEF Tcp
<1>6. Unread' = l
  <2>1. Unread = <<>>
    BY <1>u DEF LinesInv
  <2>2. tcp.buffer = <<>>
    BY <1>t, <2>1, UnreadFacts
  <2> QED BY <1>1, <1>4, <2>2 DEF Unread
<1>7. url # NoPath /\ UNCHANGED <<ver, faults, url, callback, eventVars>>
      /\ client' = "tcp" /\ task' = "poll" /\ canReuse' \in BOOLEAN /\ task = "header"
  BY <1>u, PathAssumption DEF Accepted
<1>8. LinesInv'
  BY <1>1, <1>4, <1>6, <1>7 DEF LinesInv
<1>9. ReaderInv' /\ OpenInv'
  BY <1>1, <1>4, <1>6, <1>7 DEF ReaderInv, OpenInv
<1>10. TypeOK'
  BY <1>3, <1>7 DEF TypeOK, Tcp, eventVars
<1>11. ClientInv' /\ IdleInv' /\ OneEvent'
  BY <1>u, <1>7 DEF ClientInv, IdleInv, OneEvent, eventVars
<1> QED BY <1>8, <1>9, <1>10, <1>11

LEMMA LostStep ==
  ASSUME StreamInv, NEW reuse \in BOOLEAN, AcceptedButLost(reuse)
  PROVE  StreamInv'
<1> USE DEF StreamInv
<1>1. /\ task = "header" /\ task' = "poll" /\ canReuse' \in BOOLEAN
      /\ client' = "null" /\ UNCHANGED <<ver, faults, url, callback, tcp, eventVars>>
  BY DEF AcceptedButLost
<1>2. LinesInv' /\ ReaderInv' /\ OpenInv'
  BY <1>1, SameConnection DEF eventVars
<1>3. TypeOK'
  BY <1>1 DEF TypeOK, eventVars
<1> QED BY <1>1, <1>2, <1>3 DEF ClientInv, IdleInv, OneEvent, eventVars

LEMMA RefusedStep ==
  ASSUME StreamInv, NEW reuse \in BOOLEAN, NEW text \in BOOLEAN, Refused(reuse, text)
  PROVE  StreamInv'
<1> USE DEF StreamInv
<1>1. /\ task = "header" /\ task' = "poll" /\ canReuse' \in BOOLEAN
      /\ tcp' = [tcp EXCEPT !.body = text]
      /\ UNCHANGED <<ver, url, callback, client, eventVars>>
  BY DEF Refused
<1>2. faults' \in 0..MaxFaults
  BY FaultsType DEF Refused
<1>3. tcp \in Tcp /\ tcp.path = NoPath /\ Unread = <<>>
  BY <1>1 DEF TypeOK, Tcp, ClientInv, LinesInv
<1>4. /\ tcp' \in Tcp /\ tcp'.path = tcp.path /\ LinesInv' /\ ReaderInv' /\ OpenInv'
  BY <1>1, <1>3, TextOnly
<1>5. TypeOK'
  BY <1>1, <1>2, <1>4 DEF TypeOK, Tcp, eventVars
<1> QED BY <1>1, <1>4, <1>5 DEF ClientInv, IdleInv, OneEvent, eventVars

(* A line is read.  Only the blank one calls back, and by then the two     *)
(* lines before it have been read from the same connection.                *)
LEMMA PollStep ==
  ASSUME StreamInv, Poll, tcp.buffer # <<>> PROVE StreamInv'
<1> USE DEF StreamInv
<1> DEFINE line == Head(tcp.buffer)
<1>t. tcp \in Tcp
  BY DEF TypeOK, Tcp
<1>u. /\ tcp.buffer \in Seq(Line) /\ tcp.wire \in Seq(Line) /\ Unread \in Seq(Line)
      /\ Unread # <<>> /\ line = Unread[1] /\ line \in Line
      /\ Tail(Unread) = Tail(tcp.buffer) \o tcp.wire
  BY <1>t, UnreadFacts
<1>1. /\ tcp' = [tcp EXCEPT !.buffer = Tail(tcp.buffer)]
      /\ eventType' = IF line.tag = "event:" THEN line.of ELSE eventType
      /\ jsonData' = IF line.tag = "data:" THEN line.of ELSE jsonData
      /\ IF line.tag = "blank" THEN Callback(IF tcp.kept THEN "kept" ELSE "tcp")
         ELSE UNCHANGED called
  BY DEF Poll
<1>2. /\ task = "poll" /\ client = "tcp" /\ task' = "loop"
      /\ UNCHANGED <<ver, faults, url, callback, canReuse, client>>
  BY DEF Poll
<1> HIDE DEF line
<1>3. /\ tcp' \in Tcp /\ tcp'.open = tcp.open /\ tcp'.path = tcp.path
      /\ tcp'.kept = tcp.kept /\ tcp'.wire = tcp.wire /\ tcp'.buffer = Tail(tcp.buffer)
  <2> DEFINE b == Tail(tcp.buffer)
  <2>1. b \in Seq(Line) /\ tcp' = [tcp EXCEPT !.buffer = b]
    BY <1>u, <1>1
  <2> HIDE DEF b
  <2>2. tcp' \in Tcp
    BY <1>t, <2>1 DEF Tcp
  <2>3. /\ tcp'.open = tcp.open /\ tcp'.path = tcp.path /\ tcp'.kept = tcp.kept
        /\ tcp'.wire = tcp.wire /\ tcp'.buffer = b
    BY <1>t, <2>1, <2>2 DEF Tcp
  <2> QED BY <2>2, <2>3 DEF b
<1>4. Unread' = Tail(Unread)
  BY <1>u, <1>3 DEF Unread
<1>5. /\ Streamed(Unread', tcp.path)
      /\ Whole(Unread) => Whole(Unread')
      /\ Unread' # <<>> => Follows(Unread[1], Unread'[1])
  BY <1>u, <1>4, StreamedTail DEF LinesInv
<1>6. LinesInv' /\ OpenInv'
  <2>1. tcp.path # NoPath
    BY <1>u DEF LinesInv
  <2> QED BY <1>2, <1>3, <1>5, <2>1 DEF LinesInv, OpenInv
<1>7. ASSUME ~tcp.kept
      PROVE  /\ tcp.path = url
             /\ line.tag \in {"data:", "blank"} => eventType = line.of
             /\ line.tag = "blank" => jsonData = line.of
  BY <1>7, <1>u DEF ReaderInv
<1>8. ReaderInv'
  <2> SUFFICES ASSUME ~tcp'.kept, Unread' # <<>>
               PROVE  /\ tcp'.path = url'
                      /\ Unread'[1].tag \in {"data:", "blank"} => eventType' = Unread'[1].of
                      /\ Unread'[1].tag = "blank" => jsonData' = Unread'[1].of
    BY DEF ReaderInv
  <2> DEFINE next == Unread'[1]
  <2>1. Follows(line, next)
    BY <1>u, <1>5
  <2> HIDE DEF next
  <2>2. tcp'.path = url'
    BY <1>2, <1>3, <1>7
  <2>3. CASE next.tag = "data:"
    BY <1>1, <2>1, <2>2, <2>3 DEF Follows, next
  <2>4. CASE next.tag = "blank"
    BY <1>1, <1>3, <1>7, <2>1, <2>2, <2>4 DEF Follows, next
  <2>5. CASE next.tag = "event:"
    BY <2>2, <2>5 DEF next
  <2> QED BY <2>1, <2>3, <2>4, <2>5 DEF Follows
<1>9. line.of \in Of /\ eventType' \in Of /\ jsonData' \in Of
  <2>1. line.of \in Of
    BY <1>u DEF Line, Of
  <2> QED BY <1>1, <2>1 DEF TypeOK
<1>10. \/ UNCHANGED called
       \/ /\ line.tag = "blank"
          /\ called' = [type |-> eventType, data |-> jsonData,
                        by |-> IF tcp.kept THEN "kept" ELSE "tcp"]
  BY <1>1 DEF Callback
<1>11. OneEvent'
  <2>1. CASE UNCHANGED called
    BY <1>2, <2>1 DEF OneEvent
  <2>2. CASE line.tag = "blank" /\ called' = [type |-> eventType, data |-> jsonData,
                                              by |-> IF tcp.kept THEN "kept" ELSE "tcp"]
    <3>1. CASE tcp.kept
      BY <2>2, <3>1 DEF OneEvent
    <3>2. CASE ~tcp.kept
      <4>1. eventType = line.of /\ jsonData = line.of /\ tcp.path = url
        BY <1>7, <2>2, <3>2
      <4>2. line.of[1] = tcp.path
        BY <1>u DEF LinesInv, Streamed
      <4> QED BY <1>2, <2>2, <4>1, <4>2 DEF OneEvent
    <3> QED BY <3>1, <3>2
  <2> QED BY <1>10, <2>1, <2>2
<1>12. called' \in [type : Of, data : Of, by : {"none", "tcp", "kept", "freed"}]
  BY <1>10 DEF TypeOK
<1>13. TypeOK'
  BY <1>2, <1>3, <1>9, <1>12 DEF TypeOK, Tcp
<1> QED BY <1>2, <1>3, <1>6, <1>8, <1>11, <1>13 DEF ClientInv, IdleInv

(* Freed memory is read: the connection is not that of a stream then.      *)
LEMMA PollFreedStep ==
  ASSUME StreamInv, PollFreed PROVE StreamInv'
<1> USE DEF StreamInv
<1>1. /\ task = "poll" /\ client = "freed" /\ task' = "loop"
      /\ UNCHANGED <<ver, faults, url, callback, canReuse, client>>
  BY DEF PollFreed
<1>2. eventType' \in Of /\ jsonData' \in Of
  BY OfFacts DEF PollFreed, TypeOK
<1>3. \/ UNCHANGED called
      \/ called' = [type |-> eventType, data |-> jsonData, by |-> "freed"]
  BY DEF PollFreed, Callback
<1>4. called' \in [type : Of, data : Of, by : {"none", "tcp", "kept", "freed"}]
  BY <1>3 DEF TypeOK
<1>5. OneEvent'
  BY <1>1, <1>3 DEF OneEvent
<1>6. tcp \in Tcp /\ Unread = <<>> /\ tcp.body \in BOOLEAN
  BY <1>1 DEF TypeOK, Tcp, ClientInv, LinesInv
<1>7. PICK b \in BOOLEAN : tcp' = [tcp EXCEPT !.body = b]
  <2>1. tcp = [tcp EXCEPT !.body = tcp.body]
    BY <1>6 DEF Tcp
  <2>2. tcp' = tcp \/ tcp' = [tcp EXCEPT !.body = FALSE]
    BY DEF PollFreed
  <2> QED BY <1>6, <2>1, <2>2
<1>8. /\ tcp' \in Tcp /\ tcp'.path = tcp.path /\ LinesInv' /\ ReaderInv' /\ OpenInv'
  BY <1>1, <1>6, <1>7, TextOnly
<1>9. TypeOK'
  BY <1>1, <1>2, <1>4, <1>8 DEF TypeOK, Tcp
<1> QED BY <1>1, <1>5, <1>8, <1>9 DEF ClientInv, IdleInv

LEMMA ResetStep ==
  ASSUME StreamInv, Reset PROVE StreamInv'
<1> USE DEF StreamInv
<1>1. tcp' = NoTcp
  BY DEF Reset
<1>2. tcp' \in Tcp /\ LinesInv' /\ ReaderInv' /\ OpenInv' /\ tcp'.path = NoPath
  BY <1>1, FreshConnection
<1>3. ~Connected(tcp')
  BY <1>1, NoTcpFacts DEF Connected
<1>4. /\ task' = "none" /\ called' = NoCall /\ eventType' \in Of /\ jsonData' \in Of
      /\ called' \in [type : Of, data : Of, by : {"none", "tcp", "kept", "freed"}]
      /\ url' = NoPath /\ client' = "null" /\ canReuse' \in BOOLEAN /\ UNCHANGED ver
  BY OfFacts DEF Reset
<1>5. callback' = (task' # "none")
  <2>1. callback' = FALSE
    BY DEF Reset
  <2> QED BY <1>4, <2>1
<1>6. faults' \in 0..MaxFaults
  BY FaultsType DEF Reset
<1>7. TypeOK'
  BY <1>2, <1>4, <1>5, <1>6 DEF TypeOK, Tcp
<1> QED BY <1>2, <1>3, <1>4, <1>7, OfFacts DEF ClientInv, IdleInv, OneEvent

(* Every step keeps the invariant.                                         *)
LEMMA StreamStep == ASSUME StreamInv, [Next]_vars PROVE StreamInv'
<1>1. ASSUME NEW p \in Paths, StartStream(p) PROVE StreamInv'
  BY <1>1, StartStreamStep
<1>2. ASSUME NEW p \in Paths, Change(p) PROVE StreamInv'
  BY <1>2, ChangeStep
<1>3. CASE StopStream
  BY <1>3, StopStreamStep
<1>4. CASE LoopTop \/ PollNull
  BY <1>4, TaskMoves DEF LoopTop, PollNull
<1>5. CASE GetConnects \/ GetFails \/ Unanswered
  BY <1>5, GetStep
<1>6. ASSUME NEW reuse \in BOOLEAN, Accepted(reuse) PROVE StreamInv'
  BY <1>6, AcceptedStep
<1>7. ASSUME NEW reuse \in BOOLEAN, AcceptedButLost(reuse) PROVE StreamInv'
  BY <1>7, LostStep
<1>14. ASSUME NEW reuse \in BOOLEAN, NEW text \in BOOLEAN, Refused(reuse, text)
       PROVE  StreamInv'
  BY <1>14, RefusedStep
<1>8. CASE Poll
  <2>1. CASE tcp.buffer = <<>>
    BY <1>8, <2>1, TaskMoves DEF Poll
  <2> QED BY <1>8, <2>1, PollStep
<1>9. CASE PollFreed
  BY <1>9, PollFreedStep
<1>10. CASE Reset
  BY <1>10, ResetStep
<1>11. CASE LineArrives
  BY <1>11, LineArrivesStep
<1>12. CASE IdleClosed \/ TcpLost
  <2>1. faults' \in 0..MaxFaults
    BY <1>12, FaultsType DEF IdleClosed, TcpLost, StreamInv
  <2> QED BY <1>12, <2>1, BreakStep DEF IdleClosed, TcpLost
<1>13. CASE UNCHANGED vars
  <2> USE <1>13 DEF StreamInv, vars, eventVars
  <2>1. LinesInv' /\ ReaderInv' /\ OpenInv'
    BY SameConnection
  <2>2. TypeOK'
    BY DEF TypeOK
  <2> QED BY <2>1, <2>2 DEF ClientInv, IdleInv, OneEvent
<1> QED
  BY <1>1, <1>2, <1>3, <1>4, <1>5, <1>6, <1>7, <1>8, <1>9, <1>10, <1>11, <1>12, <1>13, <1>14
  DEF Next, Connect, StreamTask

-----------------------------------------------------------------------------
(* All variables keep their types: what is read is always lines of events, *)
(* and the callback is set exactly while there is a task.                  *)
THEOREM TypeCorrect == Spec => []TypeOK
<1>1. Init => StreamInv
  BY StreamInit
<1>2. StreamInv /\ [Next]_vars => StreamInv'
  BY StreamStep
<1>3. StreamInv => TypeOK
  BY DEF StreamInv
<1> QED BY <1>1, <1>2, <1>3, PTL DEF Spec

(* A callback through a connection made for its stream gets the type and   *)
(* the data of one event of its path, wherever the task was deleted and    *)
(* whatever broke, was refused or was read through the stale pointer       *)
(* before.                                                                 *)
THEOREM CallbacksOfOneEvent == Spec => []OneEvent
<1>1. Init => StreamInv
  BY StreamInit
<1>2. StreamInv /\ [Next]_vars => StreamInv'
  BY StreamStep
<1>3. StreamInv => OneEvent
  BY DEF StreamInv
<1> QED BY <1>1, <1>2, <1>3, PTL DEF Spec

=============================================================================
