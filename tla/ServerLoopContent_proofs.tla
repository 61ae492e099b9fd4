----------------------- MODULE ServerLoopContent_proofs -----------------------
(***************************************************************************)
(* What the buffers and pipes of the event loop hold, and what clients and *)
(* scripts get from it: whole answers, in order, bodies of their own, and  *)
(* a process that lives.  The proofs follow one connection and one script: *)
(* every action of the server, the peers and the scripts does one of a few *)
(* things to each connection (ConnStep) and to each script (ScriptStep),   *)
(* whatever it does to the others; an invariant about a single connection  *)
(* is then kept by looking at these few, and not at every action again.    *)
(***************************************************************************)
EXTENDS ServerLoop_proofs, CommonLemmas, SequenceTheorems

-----------------------------------------------------------------------------
(* The bytes of a connection.                                              *)

(* The units of a request: its head, then its body.                        *)
Size(k, i) == Plan[k][i].head + Plan[k][i].body

(* The units of the requests on k. *)
Units(k) == {u \in Nat \X Nat : u[1] \in DOMAIN Plan[k] /\ u[2] \in 1 .. Size(k, u[1])}

(* What follows a unit on the connection. *)
Following(k, u) == IF u[2] < Size(k, u[1]) THEN <<u[1], u[2] + 1>> ELSE <<u[1] + 1, 1>>

(* A sequence of units that begins with the first and has none out of place. *)
InSequence(k, s) ==
  /\ s \in Seq(Units(k))
  /\ s # << >> => s[1] = <<1, 1>>
  /\ \A m \in 1 .. Len(s) - 1 : s[m + 1] = Following(k, s[m])

(* Requests have at least one unit. *)
LEMMA Sizes ==
  ASSUME NEW k \in Conn, NEW i \in DOMAIN Plan[k]
  PROVE  /\ i \in Nat \ {0} /\ i <= Len(Plan[k]) /\ Plan[k] \in Seq(Request)
         /\ Plan[k][i] \in Request
         /\ Size(k, i) \in Nat \ {0}
<1>1. Plan[k] \in Seq(Request) BY PlanAssumption
<1>2. i \in 1 .. Len(Plan[k]) BY <1>1
<1>3. Plan[k][i] \in Request BY <1>1, <1>2
<1>4. Plan[k][i].head \in 1 .. 2 /\ Plan[k][i].body \in 0 .. 2 BY <1>3 DEF Request
<1>5. Size(k, i) \in Nat \ {0} BY <1>4 DEF Size
<1> QED BY <1>1, <1>2, <1>3, <1>5

(* The units of request i, in order. *)
Message(k, i) == [j \in 1 .. Size(k, i) |-> <<i, j>>]

(* What ends with a whole request i may be followed by the next one.       *)
Upto(k, s, i) == InSequence(k, s) /\ s # << >> /\ s[Len(s)] = <<i, Size(k, i)>>

(* A message is made of units of its connection.                           *)
LEMMA MessageUnits ==
  ASSUME NEW k \in Conn, NEW i \in DOMAIN Plan[k]
  PROVE  Message(k, i) \in Seq(Units(k)) /\ Len(Message(k, i)) = Size(k, i)
<1>1. Size(k, i) \in Nat \ {0} /\ i \in Nat BY Sizes
<1>2. \A j \in 1 .. Size(k, i) : <<i, j>> \in Units(k) BY <1>1 DEF Units
<1>3. Message(k, i) \in [1 .. Size(k, i) -> Units(k)] BY <1>2 DEF Message
<1> QED BY <1>1, <1>3

(* The first message alone is in sequence.                                 *)
LEMMA FirstMessage ==
  ASSUME NEW k \in Conn, 1 \in DOMAIN Plan[k] PROVE Upto(k, Message(k, 1), 1)
<1> DEFINE s == Message(k, 1)
<1>1. Size(k, 1) \in Nat \ {0} BY Sizes
<1>2. s \in Seq(Units(k)) /\ Len(s) = Size(k, 1) BY MessageUnits
<1>3. \A j \in 1 .. Size(k, 1) : s[j] = <<1, j>> BY DEF Message
<1> HIDE DEF s
<1>4. \A m \in 1 .. Len(s) - 1 : s[m + 1] = Following(k, s[m])
  BY <1>1, <1>2, <1>3 DEF Following
<1>5. s # << >> /\ s[1] = <<1, 1>> /\ s[Len(s)] = <<1, Size(k, 1)>> BY <1>1, <1>2, <1>3
<1>6. Upto(k, s, 1) BY <1>2, <1>4, <1>5 DEF Upto, InSequence
<1> QED BY <1>6 DEF s

(* The next message goes behind what ends with a whole one.                *)
LEMMA NextMessage ==
  ASSUME NEW k \in Conn, NEW i \in DOMAIN Plan[k], i + 1 \in DOMAIN Plan[k],
         NEW s, Upto(k, s, i)
  PROVE  Upto(k, s \o Message(k, i + 1), i + 1)
<1> DEFINE t == Message(k, i + 1)
           both == s \o t
<1>1. /\ Size(k, i) \in Nat \ {0} /\ Size(k, i + 1) \in Nat \ {0} /\ i \in Nat \ {0}
  BY Sizes
<1>2. t \in Seq(Units(k)) /\ Len(t) = Size(k, i + 1) BY MessageUnits
<1>3. \A j \in 1 .. Size(k, i + 1) : t[j] = <<i + 1, j>> BY DEF Message
<1>4. /\ s \in Seq(Units(k)) /\ s # << >> /\ s[1] = <<1, 1>>
      /\ \A m \in 1 .. Len(s) - 1 : s[m + 1] = Following(k, s[m])
      /\ s[Len(s)] = <<i, Size(k, i)>>
  BY DEF Upto, InSequence
<1> HIDE DEF t
<1>5. /\ both \in Seq(Units(k)) /\ Len(both) = Len(s) + Len(t)
      /\ \A m \in 1 .. Len(s) : both[m] = s[m]
      /\ \A m \in 1 .. Len(t) : both[Len(s) + m] = t[m]
  <2>1. s \in Seq(Units(k)) /\ t \in Seq(Units(k)) BY <1>2, <1>4
  <2>2. /\ s \o t \in Seq(Units(k)) /\ Len(s \o t) = Len(s) + Len(t)
        /\ \A m \in 1 .. Len(s) : (s \o t)[m] = s[m]
        /\ \A m \in 1 .. Len(t) : (s \o t)[Len(s) + m] = t[m]
    BY <2>1, Joined
  <2> QED BY <2>2, Zenon
<1>6. Len(s) \in Nat \ {0} /\ Len(t) \in Nat \ {0} BY <1>1, <1>2, <1>4
<1> HIDE DEF both
<1>7. both # << >> /\ both[1] = <<1, 1>>
  <2>1. 1 \in 1 .. Len(s) /\ s # << >> BY <1>4, <1>6
  <2>2. both[1] = s[1] /\ s[1] = <<1, 1>> BY <1>4, <1>5, <2>1
  <2>3. Len(both) # 0 BY <1>5, <1>6
  <2> QED BY <2>2, <2>3
<1>8. both[Len(both)] = <<i + 1, Size(k, i + 1)>> BY <1>2, <1>3, <1>5, <1>6
<1>9. ASSUME NEW m \in 1 .. Len(both) - 1 PROVE both[m + 1] = Following(k, both[m])
  <2>1. CASE m < Len(s)
    <3>1. m \in 1 .. Len(s) - 1 /\ m + 1 \in 1 .. Len(s) /\ m \in 1 .. Len(s)
      BY <1>6, <2>1
    <3> QED BY <1>4, <1>5, <3>1
  <2>2. CASE m = Len(s)
    <3>1. both[m] = <<i, Size(k, i)>> BY <1>4, <1>5, <1>6, <2>2
    <3>2. both[m + 1] = <<i + 1, 1>> BY <1>2, <1>3, <1>5, <1>6, <2>2
    <3> QED BY <3>1, <3>2, <1>1 DEF Following
  <2>3. CASE m > Len(s)
    <3>1. PICK j \in 1 .. Len(t) - 1 : m = Len(s) + j
      <4>1. m - Len(s) \in 1 .. Len(t) - 1 /\ m = Len(s) + (m - Len(s)) BY <1>5, <1>6, <2>3
      <4> QED BY <4>1
    <3>2. both[m] = <<i + 1, j>> BY <1>2, <1>3, <1>5, <3>1
    <3>3. j + 1 \in 1 .. Len(t) /\ m + 1 = Len(s) + (j + 1) BY <1>6, <3>1
    <3>4. both[m + 1] = <<i + 1, j + 1>> BY <1>2, <1>3, <1>5, <3>3
    <3> QED BY <3>1, <3>2, <3>4, <1>1, <1>2 DEF Following
  <2> QED BY <2>1, <2>2, <2>3, <1>5, <1>6
<1>10. both \in Seq(Units(k)) /\ (both # << >> => both[1] = <<1, 1>>) BY <1>5, <1>7
<1>11. InSequence(k, both) BY <1>9, <1>10 DEF InSequence
<1>12. Upto(k, both, i + 1) BY <1>7, <1>8, <1>11 DEF Upto
<1> QED BY <1>12 DEF both, t

(* The requests on k follow one another without a gap.                     *)
LEMMA StreamInSequence ==
  ASSUME NEW k \in Conn PROVE InSequence(k, Stream[k])
<1> DEFINE n == Len(Plan[k])
           seqs == [i \in DOMAIN Plan[k] |-> Message(k, i)]
<1>1. Stream[k] = FlattenSeq(seqs) BY DEF Stream, Message, Size
<1>2. Plan[k] \in Seq(Request) /\ n \in Nat /\ DOMAIN Plan[k] = 1 .. n BY PlanAssumption
<1>3. Len(seqs) = n /\ (n = 0 => seqs = << >>) BY <1>2
<1>4. CASE n = 0
  <2>1. Stream[k] = << >> BY <1>1, <1>3, <1>4 DEF FlattenSeq
  <2> QED BY <2>1 DEF InSequence
<1>5. CASE n # 0
  <2>1. PICK g : /\ Stream[k] = g[n] /\ g[1] = seqs[1]
                 /\ \A i \in 1 .. n - 1 : g[i + 1] = g[i] \o seqs[i + 1]
    <3>1. Len(seqs) \in Nat \ {0} BY <1>2, <1>3, <1>5
    <3> HIDE DEF seqs
    <3>2. PICK g : /\ FlattenSeq(seqs) = g[Len(seqs)] /\ g[1] = seqs[1]
                   /\ \A i \in 1 .. Len(seqs) - 1 : g[i + 1] = g[i] \o seqs[i + 1]
      BY <3>1, FlattenedBySteps
    <3> QED BY <1>1, <1>3, <3>2
  <2>2. \A i \in 1 .. n : seqs[i] = Message(k, i) BY <1>2
  <2> HIDE DEF seqs
  <2> DEFINE S == {i \in Nat : i <= n => Upto(k, g[i], i)}
  <2>3. 1 \in S BY <1>2, <1>5, <2>1, <2>2, FirstMessage
  <2>4. ASSUME NEW i \in Nat, i >= 1, i \in S PROVE i + 1 \in S
    <3> SUFFICES ASSUME i + 1 <= n PROVE Upto(k, g[i + 1], i + 1) OBVIOUS
    <3>1. i \in 1 .. n - 1 /\ i \in DOMAIN Plan[k] /\ i + 1 \in DOMAIN Plan[k]
      BY <1>2, <2>4
    <3>2. Upto(k, g[i], i) BY <1>2, <2>4, <3>1
    <3>3. g[i + 1] = g[i] \o Message(k, i + 1) BY <1>2, <2>1, <2>2, <3>1
    <3> QED BY <3>1, <3>2, <3>3, NextMessage
  <2> HIDE DEF S
  <2>5. \A i \in Nat : i >= 1 => i \in S BY <2>3, <2>4, Induction
  <2>6. n \in S BY <1>2, <1>5, <2>5
  <2>7. Upto(k, g[n], n) BY <1>2, <2>6 DEF S
  <2> QED BY <2>1, <2>7 DEF Upto
<1> QED BY <1>4, <1>5

-----------------------------------------------------------------------------
(* What the buffers of a connection hold.                                  *)

(* The records a client of connection k may have: units of its own         *)
(* requests.                                                               *)
ClientOf(k) ==
  [closeFlag : BOOLEAN, queued : BOOLEAN, parsePos : Nat, need : 0 .. 2,
   inBuff : Seq(Units(k)), outBuff : Seq(OutUnit), consumed : Nat,
   body : {0} \cup DOMAIN Plan[k], status : {"none", "200", "400", "504", "cgi"}]

(* The kernel's side of a connection.                                      *)
NetState ==
  [st : {"idle", "backlog", "open", "closed"}, sent : Nat, read : Nat,
   fin : BOOLEAN, rst : BOOLEAN]

(* No more is read than was sent, no more is sent than the peer has.       *)
NetKept(k, n) == n \in NetState /\ n.read <= n.sent /\ n.sent <= Len(Stream[k])

(* The units of a connection are numbered by its requests.                 *)
LEMMA UnitsTyped ==
  ASSUME NEW k \in Conn
  PROVE  /\ Units(k) \subseteq Unit /\ Stream[k] \in Seq(Units(k)) /\ Plan[k] \in Seq(Request)
         /\ \A u \in Units(k) : u[1] \in DOMAIN Plan[k] /\ u[1] \in Nat \ {0}
<1>1. Stream[k] \in Seq(Units(k)) BY StreamInSequence DEF InSequence
<1>2. Plan[k] \in Seq(Request) BY PlanAssumption
<1> QED BY <1>1, <1>2 DEF Units, Unit

(* A fresh ClientRequestState is a client of every connection.             *)
LEMMA NewClientTyped == \A k \in Conn : NewClient \in ClientOf(k)
BY DEF NewClient, ClientOf

(* What the kernel holds for recv() is the next piece of the stream.       *)
LEMMA UnreadTyped ==
  ASSUME NEW k \in Conn, NetKept(k, net[k])
  PROVE  /\ Unread(k) \in Seq(Units(k)) /\ Len(Unread(k)) = net[k].sent - net[k].read
         /\ \A j \in 1 .. Len(Unread(k)) : Unread(k)[j] = Stream[k][net[k].read + j]
<1>1. /\ net[k].read \in Nat /\ net[k].sent \in Nat /\ net[k].read <= net[k].sent
      /\ net[k].sent <= Len(Stream[k]) /\ Stream[k] \in Seq(Units(k))
  BY UnitsTyped DEF NetKept, NetState
<1> DEFINE a == net[k].read
           b == net[k].sent
           s == Stream[k]
<1>2. a \in Nat /\ b \in Nat /\ a <= b /\ b <= Len(s) /\ s \in Seq(Units(k)) BY <1>1
<1> HIDE DEF a, b, s
<1>3. /\ SubSeq(s, a + 1, b) \in Seq(Units(k)) /\ Len(SubSeq(s, a + 1, b)) = b - a
      /\ \A j \in 1 .. b - a : SubSeq(s, a + 1, b)[j] = s[a + j]
  BY <1>2
<1> QED BY <1>3 DEF Unread, a, b, s

(* A queued answer keeps the record of the client typed.                   *)
LEMMA QueueTyped ==
  ASSUME NEW k \in Conn, NEW c \in ClientOf(k), NEW i \in Nat,
         NEW status \in {"200", "400", "504", "cgi"}
  PROVE  /\ Answer(i, status) \in Seq(OutUnit)
         /\ Queue(c, i, status) \in ClientOf(k)
         /\ [Queue(c, i, status) EXCEPT !.closeFlag = TRUE] \in ClientOf(k)
<1>1. /\ <<i, status, 1>> \in OutUnit /\ <<i, status, 2>> \in OutUnit BY DEF OutUnit
<1>2. Answer(i, status) \in Seq(OutUnit) BY <1>1 DEF Answer
<1> QED BY <1>2 DEF Queue, ClientOf

(* Where the headers end, if they do. *)
LEMMA HeadersEndTyped ==
  ASSUME NEW k \in Conn, NEW buf \in Seq(Units(k))
  PROVE  /\ HeadersEnd(k, buf) \in 0 .. Len(buf)
         /\ HeadersEnd(k, buf) # 0 =>
              LET n == HeadersEnd(k, buf) IN
              /\ buf[n][2] = Plan[k][buf[n][1]].head
              /\ \A m \in 1 .. Len(buf) : buf[m][2] = Plan[k][buf[m][1]].head => n <= m
<1> DEFINE ends == {n \in DOMAIN buf : buf[n][2] = Plan[k][buf[n][1]].head}
<1>1. CASE ends = {} BY <1>1 DEF HeadersEnd
<1>2. CASE ends # {}
  <2>1. ends \in SUBSET Nat OBVIOUS
  <2>2. \E n \in ends : \A m \in ends : n <= m
    <3> HIDE DEF ends
    <3> QED BY <1>2, <2>1, LeastNumber
  <2>3. HeadersEnd(k, buf) = CHOOSE n \in ends : \A m \in ends : n <= m
    BY <1>2 DEF HeadersEnd
  <2>4. HeadersEnd(k, buf) \in ends /\ \A m \in ends : HeadersEnd(k, buf) <= m
    <3> HIDE DEF ends
    <3> QED BY <2>2, <2>3
  <2> QED BY <2>4
<1> QED BY <1>1, <1>2

(* Setting where the headers end and how long the body is, or what was     *)
(* parsed of them, leaves a client a client.                               *)
LEMMA ParseFields ==
  ASSUME NEW k \in Conn, NEW c \in ClientOf(k), NEW x \in Nat
  PROVE  /\ \A y \in 0 .. 2 : [c EXCEPT !.parsePos = x, !.need = y] \in ClientOf(k)
         /\ \A y \in {0} \cup DOMAIN Plan[k] :
                              [c EXCEPT !.consumed = x, !.body = y] \in ClientOf(k)
BY DEF ClientOf

(* Looking for the end of the headers changes no byte.                     *)
LEMMA MarkTyped ==
  ASSUME NEW k \in Conn, NEW c \in ClientOf(k)
  PROVE  /\ MarkHeaders(k, c) \in ClientOf(k)
         /\ MarkHeaders(k, c).inBuff = c.inBuff
<1> DEFINE pos == HeadersEnd(k, c.inBuff)
<1>1. c.inBuff \in Seq(Units(k)) BY DEF ClientOf
<1>2. pos \in 0 .. Len(c.inBuff) BY <1>1, HeadersEndTyped
<1>3. CASE c.parsePos > 0 \/ pos = 0 BY <1>3 DEF MarkHeaders
<1>4. CASE ~(c.parsePos > 0 \/ pos = 0)
  <2>1. c.inBuff[pos] \in Units(k) BY <1>1, <1>2, <1>4
  <2>2. Plan[k][c.inBuff[pos][1]] \in Request BY <2>1, Sizes DEF Units
  <2>3. Plan[k][c.inBuff[pos][1]].body \in 0 .. 2 BY <2>2 DEF Request
  <2>4. MarkHeaders(k, c) = [c EXCEPT !.parsePos = pos, !.need = Plan[k][c.inBuff[pos][1]].body]
    BY <1>4 DEF MarkHeaders
  <2> DEFINE body == Plan[k][c.inBuff[pos][1]].body
  <2>5. pos \in Nat /\ body \in 0 .. 2 /\ MarkHeaders(k, c) = [c EXCEPT !.parsePos = pos, !.need = body]
    BY <1>2, <2>3, <2>4
  <2> HIDE DEF pos, body
  <2>6. [c EXCEPT !.parsePos = pos, !.need = body] \in ClientOf(k)
    BY <2>5, ParseFields, Zenon
  <2>7. MarkHeaders(k, c).inBuff = c.inBuff
    <3>1. "inBuff" \in DOMAIN c /\ MarkHeaders(k, c) = [c EXCEPT !.parsePos = pos, !.need = body]
      BY <2>5 DEF ClientOf
    <3> QED BY <3>1
  <2> QED BY <2>5, <2>6, <2>7, Zenon
<1> QED BY <1>3, <1>4

(* recv() puts units of this connection behind those buffered.             *)
LEMMA ReceivedTyped ==
  ASSUME NEW k \in Conn, client[k] \in ClientOf(k), NetKept(k, net[k])
  PROVE  /\ [client[k] EXCEPT !.inBuff = @ \o Unread(k)] \in ClientOf(k)
         /\ Received(k) \in ClientOf(k)
         /\ Received(k).inBuff = client[k].inBuff \o Unread(k)
<1> DEFINE c == [client[k] EXCEPT !.inBuff = client[k].inBuff \o Unread(k)]
<1>1. client[k].inBuff \o Unread(k) \in Seq(Units(k)) BY UnreadTyped DEF ClientOf
<1>2. c \in ClientOf(k) /\ c.inBuff = client[k].inBuff \o Unread(k) BY <1>1 DEF ClientOf
<1>3. Received(k) = MarkHeaders(k, c) BY DEF Received
<1> HIDE DEF c
<1>4. Received(k) \in ClientOf(k) /\ Received(k).inBuff = c.inBuff BY <1>2, <1>3, MarkTyped
<1> QED BY <1>2, <1>4 DEF c

(* A whole request in the buffer is one of the connection's requests.      *)
LEMMA WholeTyped ==
  ASSUME NEW k \in Conn, NEW c \in ClientOf(k), Whole(c)
  PROVE  /\ c.parsePos \in 1 .. Len(c.inBuff) /\ Current(c) \in DOMAIN Plan[k]
         /\ Current(c) \in Nat \ {0}
<1>1. c.parsePos \in Nat /\ c.need \in 0 .. 2 /\ c.inBuff \in Seq(Units(k)) BY DEF ClientOf
<1>2. Len(c.inBuff) \in Nat BY <1>1
<1>3. c.parsePos \in 1 .. Len(c.inBuff) BY <1>1, <1>2 DEF Whole
<1>4. c.inBuff[1] \in Units(k) BY <1>1, <1>3
<1> QED BY <1>3, <1>4, UnitsTyped DEF Current

(* Parsing a whole request keeps the record typed.                         *)
LEMMA ParsedTyped ==
  ASSUME NEW k \in Conn, client[k] \in ClientOf(k), NetKept(k, net[k]), Whole(Received(k))
  PROVE  /\ Parsed(k) \in ClientOf(k)
         /\ Current(Received(k)) \in DOMAIN Plan[k] /\ Current(Received(k)) \in Nat \ {0}
<1> DEFINE c == Received(k)
<1>1. c \in ClientOf(k) BY ReceivedTyped
<1>2. Current(c) \in DOMAIN Plan[k] /\ Current(c) \in Nat \ {0} BY <1>1, WholeTyped
<1>3. Parsed(k) = [c EXCEPT !.consumed = c.parsePos + c.need,
                            !.body = IF c.body = 0 THEN Current(c) ELSE c.body]
  BY DEF Parsed
<1> DEFINE x == c.parsePos + c.need
           y == IF c.body = 0 THEN Current(c) ELSE c.body
<1>4. x \in Nat BY <1>1 DEF ClientOf
<1>5. y \in {0} \cup DOMAIN Plan[k] BY <1>1, <1>2 DEF ClientOf
<1>6. Parsed(k) = [c EXCEPT !.consumed = x, !.body = y] BY <1>3
<1> HIDE DEF c, x, y
<1>7. [c EXCEPT !.consumed = x, !.body = y] \in ClientOf(k)
  BY <1>1, <1>4, <1>5, ParseFields, Zenon
<1>8. Parsed(k) \in ClientOf(k) BY <1>6, <1>7, Zenon
<1> QED BY <1>2, <1>8 DEF c

(* resetKeepAliveState keeps only what follows the request.                *)
LEMMA ResetTyped ==
  ASSUME NEW k \in Conn, NEW c \in ClientOf(k)
  PROVE  ResetKeepAlive(c) \in ClientOf(k)
<1> DEFINE rest == IF c.consumed <= Len(c.inBuff)
                   THEN SubSeq(c.inBuff, c.consumed + 1, Len(c.inBuff)) ELSE c.inBuff
<1>1. c.inBuff \in Seq(Units(k)) /\ c.consumed \in Nat BY DEF ClientOf
<1>2. rest \in Seq(Units(k)) BY <1>1
<1>3. ResetKeepAlive(c) = [NewClient EXCEPT !.inBuff = rest] BY DEF ResetKeepAlive
<1> HIDE DEF rest
<1> QED BY <1>2, <1>3, NewClientTyped DEF ClientOf

-----------------------------------------------------------------------------
(* What a step does to one connection.                                     *)

(* The step moves no descriptor of k.                                      *)
Stays(k) == \A fd \in Fd : clientList'[fd] = k <=> clientList[fd] = k

(* Nothing happens to k.                                                   *)
Rests(k) ==
  net'[k] = net[k] /\ client'[k] = client[k] /\ wire'[k] = wire[k] /\ Stays(k)

(* The peer of k connects, sends a unit, shuts its side or resets.         *)
PeerMoves(k) ==
  /\ client'[k] = client[k] /\ wire'[k] = wire[k] /\ Stays(k)
  /\ \/ net[k].st = "idle" /\ net'[k] = [net[k] EXCEPT !.st = "backlog"]
     \/ /\ net[k].st \in {"backlog", "open"} /\ net[k].sent < Len(Stream[k])
        /\ net'[k] = [net[k] EXCEPT !.sent = net[k].sent + 1]
     \/ k \in MayShut /\ net'[k] = [net[k] EXCEPT !.fin = TRUE]
     \/ k \in MayReset /\ net'[k] = [net[k] EXCEPT !.rst = TRUE]

(* accept() takes k from the backlog.                                      *)
Enters(k) ==
  /\ net[k].st = "backlog" /\ net'[k] = [net[k] EXCEPT !.st = "open"]
  /\ client'[k] = NewClient /\ wire'[k] = wire[k]
  /\ \E fd \in Fd : \A g \in Fd : clientList'[g] = k <=> g = fd

(* closeClient ends k, before or after the rest of its answer is sent.     *)
Leaves(k) ==
  /\ net[k].st = "open" /\ net'[k] = [net[k] EXCEPT !.st = "closed"]
  /\ client'[k] = NewClient
  /\ wire'[k] = wire[k] \/ wire'[k] = wire[k] \o client[k].outBuff
  /\ \A fd \in Fd : clientList'[fd] # k

(* What the client record becomes when bytes arrive. *)
Hearing(k) ==
  LET c == Received(k)
      i == Current(c)
  IN
  \/ /\ client[k].queued
     /\ client'[k] = [client[k] EXCEPT !.inBuff = client[k].inBuff \o Unread(k)]
  \/ ~client[k].queued /\ ~Whole(c) /\ client'[k] = c
  \/ /\ ~client[k].queued /\ Whole(c)
     /\ \/ /\ Rejected(k, c)
           /\ client'[k] = [Queue(Parsed(k), i, "400") EXCEPT !.closeFlag = TRUE]
        \/ /\ ~Rejected(k, c) /\ ~Plan[k][i].cgi
           /\ client'[k] = Queue(Parsed(k), i, "200")
        \/ /\ ~Rejected(k, c) /\ Plan[k][i].cgi
           /\ client'[k] = Parsed(k)

(* recv() takes all that arrived for k, and the request is handled if      *)
(* whole.                                                                  *)
Gets(k) ==
  /\ net[k].st = "open" /\ net'[k] = [net[k] EXCEPT !.read = net[k].sent]
  /\ wire'[k] = wire[k] /\ Stays(k)
  /\ Hearing(k)

(* send() takes a part of the answer, or all of it and k is kept alive.    *)
Ships(k) ==
  LET out == client[k].outBuff IN
  /\ net[k].st = "open" /\ net'[k] = net[k] /\ Stays(k)
  /\ \/ \E n \in 1 .. Len(out) - 1 :
           /\ wire'[k] = wire[k] \o SubSeq(out, 1, n)
           /\ client'[k] = [client[k] EXCEPT !.outBuff = SubSeq(out, n + 1, Len(out))]
     \/ /\ ~client[k].closeFlag /\ wire'[k] = wire[k] \o out
        /\ client'[k] = ResetKeepAlive(client[k])

(* A script of k ended, and its output becomes the answer.                 *)
Informed(k) ==
  /\ net'[k] = net[k] /\ wire'[k] = wire[k] /\ Stays(k)
  /\ \E fd \in readyReaders :
       LET p == CGIbyRead[fd] IN
       /\ p \in CGIMap /\ ctx[p].conn = k /\ script[p].out = 0
       /\ client'[k] = Queue(client[k], job[p].req, FinalStatus(k))

(* A script of k is late, and the answer is 504.                           *)
Expires(k) ==
  /\ net'[k] = net[k] /\ wire'[k] = wire[k] /\ Stays(k)
  /\ \E p \in CGIMap :
       /\ ctx[p].conn = k
       /\ client'[k] = [Queue(client[k], job[p].req, "504") EXCEPT !.closeFlag = TRUE]

(* All that a step can do to a connection.                                 *)
ConnStep(k) ==
  \/ Rests(k) \/ PeerMoves(k) \/ Enters(k) \/ Leaves(k)
  \/ Gets(k) \/ Ships(k) \/ Informed(k) \/ Expires(k)

(* What is indexed by connections and by scripts, is so. *)
Domains ==
  /\ DOMAIN net = Conn /\ DOMAIN client = Conn /\ DOMAIN wire = Conn
  /\ DOMAIN script = Pid /\ DOMAIN job = Pid /\ DOMAIN fed = Pid
  /\ client = [k \in Conn |-> client[k]]

(* An open connection, and no other, has one descriptor.                   *)
Seated ==
  \A k \in Conn :
    /\ net[k].st = "open" <=> \E fd \in Fd : clientList[fd] = k
    /\ \A f, g \in Fd : clientList[f] = k /\ clientList[g] = k => f = g

(* A context was made for a CGI request of a connection.                   *)
Owned ==
  \A p \in CGIMap : /\ ctx[p].conn \in Conn
                    /\ job[p].req \in DOMAIN Plan[ctx[p].conn]
                    /\ Plan[ctx[p].conn][job[p].req].cgi

(* A step that leaves the connections alone.                               *)
LEMMA AllRest ==
  ASSUME UNCHANGED <<net, client, wire, clientList>>, NEW k \in Conn
  PROVE  ConnStep(k)
BY DEF ConnStep, Rests, Stays

(* The client on a descriptor is on no other one.                          *)
LEMMA OnlySeat ==
  ASSUME Inv, Seated, NEW fd \in Fd, IsClient(fd)
  PROVE  /\ clientList[fd] \in Conn /\ net[clientList[fd]].st = "open"
         /\ \A g \in Fd : clientList[g] = clientList[fd] => g = fd
<1>1. clientList[fd] \in Conn BY OneRole DEF Inv, TablesAgree
<1> QED BY <1>1 DEF Seated

(* Closing a client ends its connection and leaves the others alone.       *)
LEMMA ClosedLeaves ==
  ASSUME Inv, Seated, Domains, NEW fd \in Fd, IsClient(fd), CloseClient(fd),
         \/ wire' = wire
         \/ wire' = [wire EXCEPT ![clientList[fd]] = @ \o client[clientList[fd]].outBuff],
         NEW k \in Conn
  PROVE  ConnStep(k)
<1> DEFINE c == clientList[fd]
<1>1. /\ c \in Conn /\ net[c].st = "open" /\ \A g \in Fd : clientList[g] = c => g = fd
  BY OnlySeat
<1>2. /\ clientList' = [clientList EXCEPT ![fd] = NoConn]
      /\ net' = [net EXCEPT ![c].st = "closed"]
      /\ client' = [client EXCEPT ![c] = NewClient]
  BY Zenon DEF CloseClient
<1>3. DOMAIN clientList = Fd BY DEF Inv, TablesTyped
<1>4. wire' = wire \/ wire' = [wire EXCEPT ![c] = wire[c] \o client[c].outBuff] OBVIOUS
<1> HIDE DEF c
<1>5. CASE k = c
  <2>1. \A g \in Fd : clientList'[g] # k BY <1>1, <1>2, <1>3, <1>5, ConnAssumption
  <2>2. net'[k] = [net[k] EXCEPT !.st = "closed"] /\ client'[k] = NewClient
    BY <1>1, <1>2, <1>5 DEF Domains
  <2>3. wire'[k] = wire[k] \/ wire'[k] = wire[k] \o client[k].outBuff
    BY <1>1, <1>4, <1>5 DEF Domains
  <2> QED BY <1>1, <1>5, <2>1, <2>2, <2>3 DEF ConnStep, Leaves
<1>6. CASE k # c
  <2>1. \A g \in Fd : clientList'[g] = k <=> clientList[g] = k
    <3>1. clientList[fd] = c BY DEF c
    <3> QED BY <1>2, <1>3, <1>6, <3>1, ConnAssumption
  <2>2. net'[k] = net[k] /\ client'[k] = client[k] /\ wire'[k] = wire[k]
    BY <1>2, <1>4, <1>6 DEF Domains
  <2> QED BY <2>1, <2>2 DEF ConnStep, Rests, Stays
<1> QED BY <1>5, <1>6

(* Accepting a connection leaves the others alone.                         *)
LEMMA AcceptedEnters ==
  ASSUME Inv, Seated, Domains, NEW l \in Conn, Accept(l), NEW k \in Conn
  PROVE  ConnStep(k)
<1>1. PICK fd \in FreeFds : clientList' = [clientList EXCEPT ![fd] = l]
  BY DEF Accept, Lowest
<1>2. /\ net[l].st = "backlog" /\ net' = [net EXCEPT ![l].st = "open"]
      /\ client' = [client EXCEPT ![l] = NewClient] /\ wire' = wire
  BY DEF Accept
<1>3. fd \in Fd /\ clientList[fd] = NoConn BY FreeHasNoRole DEF Inv, TablesAgree
<1>4. DOMAIN clientList = Fd BY DEF Inv, TablesTyped
<1>5. CASE k = l
  <2>1. \A g \in Fd : clientList[g] # k BY <1>2, <1>5 DEF Seated
  <2>2. \A g \in Fd : clientList'[g] = k <=> g = fd BY <1>1, <1>3, <1>4, <1>5, <2>1
  <2>3. net'[k] = [net[k] EXCEPT !.st = "open"] /\ client'[k] = NewClient /\ wire'[k] = wire[k]
    BY <1>2, <1>5 DEF Domains
  <2> QED BY <1>2, <1>3, <1>5, <2>2, <2>3 DEF ConnStep, Enters
<1>6. CASE k # l
  <2>1. \A g \in Fd : clientList'[g] = k <=> clientList[g] = k
    BY <1>1, <1>3, <1>4, <1>6, ConnAssumption
  <2>2. net'[k] = net[k] /\ client'[k] = client[k] /\ wire'[k] = wire[k]
    BY <1>2, <1>6 DEF Domains
  <2> QED BY <2>1, <2>2 DEF ConnStep, Rests, Stays
<1> QED BY <1>5, <1>6

(* The peers act each on a connection of their own.                        *)
LEMMA PeersMove ==
  ASSUME Domains, Peers, NEW k \in Conn PROVE ConnStep(k)
<1>1. PICK l \in Conn : Connect(l) \/ PeerSend(l) \/ PeerShut(l) \/ PeerReset(l)
  BY DEF Peers
<1>2. UNCHANGED <<wire, client, clientList>>
  BY <1>1 DEF Connect, PeerSend, PeerShut, PeerReset, server, tables
<1>3. \/ net[l].st = "idle" /\ net' = [net EXCEPT ![l].st = "backlog"]
      \/ /\ net[l].st \in {"backlog", "open"} /\ net[l].sent < Len(Stream[l])
         /\ net' = [net EXCEPT ![l].sent = net[l].sent + 1]
      \/ l \in MayShut /\ net' = [net EXCEPT ![l].fin = TRUE]
      \/ l \in MayReset /\ net' = [net EXCEPT ![l].rst = TRUE]
  BY <1>1 DEF Connect, PeerSend, PeerShut, PeerReset, Talking
<1>4. CASE k = l
  <2>1. PeerMoves(k) BY <1>2, <1>3, <1>4 DEF PeerMoves, Stays, Domains
  <2> QED BY <2>1 DEF ConnStep
<1>5. CASE k # l
  <2>1. net'[k] = net[k] BY <1>3, <1>5 DEF Domains
  <2> QED BY <1>2, <2>1 DEF ConnStep, Rests, Stays
<1> QED BY <1>4, <1>5

(* Receiving for one connection leaves the others alone.                   *)
LEMMA ReceivedGets ==
  ASSUME Inv, Seated, Domains, NEW fd \in Fd, IsClient(fd),
         NEW new, Receive(clientList[fd], new),
         client'[clientList[fd]] = new => Hearing(clientList[fd]),
         NEW k \in Conn
  PROVE  ConnStep(k)
<1> DEFINE c == clientList[fd]
<1>1. c \in Conn /\ net[c].st = "open" BY OnlySeat
<1>2. /\ client' = [client EXCEPT ![c] = new]
      /\ net' = [net EXCEPT ![c].read = net[c].sent]
      /\ UNCHANGED <<wire, clientList>>
  BY Zenon DEF Receive
<1>3. client'[c] = new => Hearing(c) OBVIOUS
<1> HIDE DEF c
<1>4. CASE k = c
  <2>1. client'[k] = new /\ net'[k] = [net[k] EXCEPT !.read = net[k].sent]
    BY <1>1, <1>2, <1>4 DEF Domains
  <2> QED BY <1>1, <1>2, <1>3, <1>4, <2>1 DEF ConnStep, Gets, Stays
<1>5. CASE k # c
  <2>1. client'[k] = client[k] /\ net'[k] = net[k] BY <1>2, <1>5 DEF Domains
  <2> QED BY <1>2, <2>1 DEF ConnStep, Rests, Stays
<1> QED BY <1>4, <1>5

(* What a ready client descriptor leads to is a step of its connection.    *)
LEMMA ReadersGet ==
  ASSUME Inv, Seated, Domains, NEW fd \in Fd, NEW k \in Conn,
         \/ ReadKeeps(fd) \/ ReadAndAnswer(fd) \/ PipeFails(fd)
         \/ \E p \in Pid : StartCGI(fd, p)
  PROVE  ConnStep(k)
<1> DEFINE l == clientList[fd]
<1>1. CASE ReadKeeps(fd)
  <2>1. CASE client[l].queued
    <3>1. IsClient(fd) /\ Receive(l, [client[l] EXCEPT !.inBuff = client[l].inBuff \o Unread(l)])
      BY <1>1, <2>1, Zenon DEF ReadKeeps, GotBytes
    <3> QED BY <2>1, <3>1, ReceivedGets DEF Hearing
  <2>2. CASE ~client[l].queued
    <3>1. IsClient(fd) /\ ~Whole(Received(l)) /\ Receive(l, Received(l))
      BY <1>1, <2>2, Zenon DEF ReadKeeps, GotBytes
    <3> QED BY <2>2, <3>1, ReceivedGets DEF Hearing
  <2> QED BY <2>1, <2>2
<1>2. CASE ReadAndAnswer(fd)
  <2> DEFINE c == Received(l)
             i == Current(c)
  <2>1. /\ IsClient(fd) /\ ~client[l].queued /\ Whole(c)
        /\ Rejected(l, c) \/ ~Plan[l][i].cgi
        /\ Receive(l, IF Rejected(l, c)
                      THEN [Queue(Parsed(l), i, "400") EXCEPT !.closeFlag = TRUE]
                      ELSE Queue(Parsed(l), i, "200"))
    BY <1>2, Zenon DEF ReadAndAnswer, GotRequest, GotBytes
  <2>2. CASE Rejected(l, c)
    <3>1. Receive(l, [Queue(Parsed(l), i, "400") EXCEPT !.closeFlag = TRUE])
      BY <2>1, <2>2, Zenon
    <3> QED BY <2>1, <2>2, <3>1, ReceivedGets DEF Hearing
  <2>3. CASE ~Rejected(l, c)
    <3>1. Receive(l, Queue(Parsed(l), i, "200")) BY <2>1, <2>3, Zenon
    <3> QED BY <2>1, <2>3, <3>1, ReceivedGets DEF Hearing
  <2> QED BY <2>2, <2>3
<1>3. CASE PipeFails(fd) \/ \E p \in Pid : StartCGI(fd, p)
  <2>1. GotCGIRequest(fd) /\ Receive(l, Parsed(l)) BY <1>3, Zenon DEF PipeFails, StartCGI
  <2>2. /\ IsClient(fd) /\ ~client[l].queued /\ Whole(Received(l))
        /\ ~Rejected(l, Received(l)) /\ Plan[l][Current(Received(l))].cgi
    BY <2>1, Zenon DEF GotCGIRequest, GotRequest, GotBytes
  <2> QED BY <2>1, <2>2, ReceivedGets DEF Hearing
<1> QED BY <1>1, <1>2, <1>3

(* What is sent leaves the queue; a queue sent whole ends the answer.      *)
LEMMA WritersShip ==
  ASSUME Inv, Seated, Domains, client \in [Conn -> Client],
         NEW fd \in Fd, NEW n \in 0 .. 2, NEW k \in Conn,
         SendPart(fd, n) \/ SendLastAndKeep(fd, n) \/ SendLastAndClose(fd, n)
  PROVE  ConnStep(k)
<1> DEFINE l == clientList[fd]
           out == client[l].outBuff
<1>1. Sends(fd, n) /\ ClientWriterReady(fd)
  BY Zenon DEF SendPart, SendLastAndKeep, SendLastAndClose, Sends
<1>2. IsClient(fd) /\ fd \in readyWriters BY <1>1 DEF ClientWriterReady, InWriters
<1>3. l \in Conn /\ net[l].st = "open" BY <1>2, OnlySeat
<1>4. out \in Seq(OutUnit) BY <1>3 DEF Client
<1>5. /\ wire' = [wire EXCEPT ![l] = wire[l] \o SubSeq(out, 1, n)]
      /\ IF out = << >> THEN n = 0 ELSE n \in 1 .. Len(out)
  BY <1>1, Zenon DEF Sends
<1>6. Unsent(fd, n) = SubSeq(out, n + 1, Len(out)) BY DEF Unsent
<1>7. ASSUME Unsent(fd, n) = << >> PROVE SubSeq(out, 1, n) = out
  <2> HIDE DEF out
  <2>1. n = Len(out)
    <3>1. CASE out = << >> BY <1>5, <3>1
    <3>2. CASE out # << >>
      <4>1. n \in 1 .. Len(out) /\ Len(out) \in Nat BY <1>4, <1>5, <3>2
      <4>2. Len(SubSeq(out, n + 1, Len(out))) = Len(out) - n BY <1>4, <4>1
      <4>3. SubSeq(out, n + 1, Len(out)) = << >> BY <1>6, <1>7
      <4> QED BY <4>1, <4>2, <4>3
    <3> QED BY <3>1, <3>2
  <2> QED BY <1>4, <2>1
<1>8. CASE SendLastAndClose(fd, n)
  <2>1. CloseClient(fd) /\ Unsent(fd, n) = << >> BY <1>8, Zenon DEF SendLastAndClose
  <2>2. wire' = [wire EXCEPT ![l] = wire[l] \o out] BY <1>5, <1>7, <2>1, Zenon
  <2> QED BY <1>2, <2>1, <2>2, ClosedLeaves
<1>9. ASSUME NEW new, client' = [client EXCEPT ![l] = new], net' = net,
             clientList' = clientList,
             \/ n \in 1 .. Len(out) - 1 /\ new = [client[l] EXCEPT !.outBuff = Unsent(fd, n)]
             \/ SubSeq(out, 1, n) = out /\ ~client[l].closeFlag /\ new = ResetKeepAlive(client[l])
      PROVE  ConnStep(k)
  <2>1. CASE k = l
    <3>1. client'[l] = new /\ net'[l] = net[l] /\ wire'[l] = wire[l] \o SubSeq(out, 1, n)
      BY <1>3, <1>5, <1>9 DEF Domains
    <3>2. Ships(l) BY <1>3, <1>6, <1>9, <3>1 DEF Ships, Stays
    <3> QED BY <2>1, <3>2 DEF ConnStep
  <2>2. CASE k # l
    <3>1. client'[k] = client[k] /\ wire'[k] = wire[k] BY <1>5, <1>9, <2>2 DEF Domains
    <3> QED BY <1>9, <3>1 DEF ConnStep, Rests, Stays
  <2> QED BY <2>1, <2>2
<1>10. CASE SendPart(fd, n)
  <2>1. /\ client' = [client EXCEPT ![l] = [client[l] EXCEPT !.outBuff = Unsent(fd, n)]]
        /\ net' = net /\ clientList' = clientList /\ Unsent(fd, n) # << >>
    BY <1>10, Zenon DEF SendPart, tables
  <2>2. n \in 1 .. Len(out) - 1
    <3> HIDE DEF out
    <3> QED BY <1>4, <1>5, <1>6, <2>1
  <2> QED BY <1>9, <2>1, <2>2
<1>11. CASE SendLastAndKeep(fd, n)
  <2>1. /\ client' = [client EXCEPT ![l] = ResetKeepAlive(client[l])]
        /\ net' = net /\ clientList' = clientList
        /\ Unsent(fd, n) = << >> /\ ~client[l].closeFlag
    BY <1>11, Zenon DEF SendLastAndKeep
  <2> QED BY <1>7, <1>9, <2>1
<1> QED BY <1>8, <1>10, <1>11

(* The end of a script's output queues its answer, if its client is there. *)
LEMMA OutputInforms ==
  ASSUME Inv, Seated, Domains, Owned, NEW fd \in Fd, AnswerFromScript(fd), NEW k \in Conn
  PROVE  ConnStep(k)
<1> DEFINE p == CGIbyRead[fd]
           l == Owner(p)
<1>1. /\ fd \in readyReaders /\ script[p].out = 0 /\ ~Dangling(p)
      /\ UNCHANGED <<net, wire, clientList>>
      /\ client' = IF l = NoConn THEN client
                   ELSE [client EXCEPT ![l] = Queue(client[l], job[p].req, FinalStatus(l))]
  BY Zenon DEF AnswerFromScript, OutputEnds, CGIReaderReady, InReaders
<1>2. CGIbyRead[fd] # NoPid BY DEF AnswerFromScript, OutputEnds, CGIReaderReady
<1>3. p \in CGIMap BY <1>2 DEF Inv, TablesAgree, IteratorsValid
<1>4. l # NoConn => l = ctx[p].conn BY <1>1 DEF Dangling
<1>5. ctx[p].conn \in Conn BY <1>3 DEF Owned
<1> HIDE DEF l
<1>6. CASE l = NoConn \/ k # l
  <2>1. client'[k] = client[k] BY <1>1, <1>6 DEF Domains
  <2> QED BY <1>1, <2>1 DEF ConnStep, Rests, Stays
<1>7. CASE l # NoConn /\ k = l
  <2>1. client'[k] = Queue(client[k], job[p].req, FinalStatus(k)) BY <1>1, <1>7 DEF Domains
  <2>2. Informed(k) BY <1>1, <1>3, <1>4, <1>7, <2>1 DEF Informed, Stays
  <2> QED BY <2>2 DEF ConnStep
<1> QED BY <1>6, <1>7

(* The newest of the timed-out contexts of a client there is.              *)
LEMMA NewestTimedOut ==
  ASSUME Inv, Owned, \A p \in ToKill : ~Dangling(p), NEW k \in Conn, TimedOut(k) # {}
  PROVE  \E p \in CGIMap :
           /\ ctx[p].conn = k
           /\ GatewayTimeout(k) = [Queue(client[k], job[p].req, "504") EXCEPT !.closeFlag = TRUE]
<1>1. ASSUME NEW p \in TimedOut(k)
      PROVE  p \in CGIMap /\ ctx[p].conn = k /\ job[p].req \in 1 .. Len(Plan[k])
  <2>1. p \in CGIMap /\ Owner(p) = k /\ ~Dangling(p) BY DEF TimedOut, ToKill
  <2>2. ctx[p].conn = k BY <2>1, ConnAssumption DEF Dangling
  <2>3. job[p].req \in DOMAIN Plan[k] /\ Plan[k] \in Seq(Request) 
    BY <2>1, <2>2, PlanAssumption DEF Owned
  <2> QED BY <2>1, <2>2, <2>3
<1> DEFINE last == Len(Plan[k])
           left == {n \in Nat : \E p \in TimedOut(k) : n = last - job[p].req}
<1>2. last \in Nat
  <2>1. Plan[k] \in Seq(Request) BY PlanAssumption
  <2> QED BY <2>1
<1>3. left \in SUBSET Nat /\ left # {}
  <2>1. PICK p \in TimedOut(k) : TRUE OBVIOUS
  <2>2. last - job[p].req \in left BY <1>1, <1>2, <2>1
  <2> QED BY <2>2
<1>4. PICK n \in left : \A m \in left : n <= m
  <2> HIDE DEF left
  <2> QED BY <1>3, LeastNumber
<1>5. PICK q \in TimedOut(k) : n = last - job[q].req OBVIOUS
<1>6. \A s \in TimedOut(k) : job[s].req <= job[q].req
  <2> TAKE s \in TimedOut(k)
  <2>1. last - job[s].req \in left BY <1>1, <1>2
  <2>2. n <= last - job[s].req BY <1>4, <2>1
  <2>3. last \in Nat /\ job[s].req \in Nat /\ job[q].req \in Nat BY <1>1, <1>2
  <2> QED BY <1>5, <2>2, <2>3
<1> DEFINE r == CHOOSE p \in TimedOut(k) : \A s \in TimedOut(k) : job[s].req <= job[p].req
<1>7. r \in TimedOut(k) BY <1>6
<1>8. GatewayTimeout(k) = [Queue(client[k], job[r].req, "504") EXCEPT !.closeFlag = TRUE]
  BY DEF GatewayTimeout
<1> HIDE DEF r
<1> QED BY <1>1, <1>7, <1>8

(* The sweep closes what timed out and answers for what it killed.         *)
LEMMA SweptExpires ==
  ASSUME Inv, Seated, Domains, Owned, SweepEffect, NEW k \in Conn
  PROVE  ConnStep(k)
<1> DEFINE closed == {clientList[fd] : fd \in ToClose}
<1>1. /\ clientList' = [fd \in Fd |-> IF fd \in ToClose THEN NoConn ELSE clientList[fd]]
      /\ client' = [l \in Conn |-> IF l \in closed THEN NewClient
                                   ELSE IF TimedOut(l) # {} THEN GatewayTimeout(l)
                                   ELSE client[l]]
      /\ net' = [l \in Conn |-> IF l \in closed THEN [net[l] EXCEPT !.st = "closed"]
                                ELSE net[l]]
      /\ wire' = wire
      /\ \A p \in ToKill : ~Dangling(p)
  BY Zenon DEF SweepEffect
<1>2. CASE k \in closed
  <2>1. PICK fd \in ToClose : k = clientList[fd] BY <1>2
  <2>2. fd \in Fd /\ IsClient(fd) BY <2>1, ConnAssumption DEF ToClose, IsClient
  <2>3. net[k].st = "open" /\ \A g \in Fd : clientList[g] = k => g = fd
    BY <2>1, <2>2, OnlySeat
  <2>4. \A g \in Fd : clientList'[g] # k BY <1>1, <2>1, <2>3, ConnAssumption
  <2>5. client'[k] = NewClient /\ net'[k] = [net[k] EXCEPT !.st = "closed"] /\ wire'[k] = wire[k]
    BY <1>1, <1>2
  <2> QED BY <2>3, <2>4, <2>5 DEF ConnStep, Leaves
<1>3. CASE k \notin closed
  <2>1. Stays(k)
    <3>1. \A g \in ToClose : clientList[g] # k BY <1>3
    <3> QED BY <1>1, <3>1, ConnAssumption DEF Stays
  <2>2. net'[k] = net[k] /\ wire'[k] = wire[k] BY <1>1, <1>3
  <2>3. CASE TimedOut(k) # {}
    <3>1. client'[k] = GatewayTimeout(k) BY <1>1, <1>3, <2>3
    <3>2. PICK p \in CGIMap :
            /\ ctx[p].conn = k
            /\ GatewayTimeout(k) = [Queue(client[k], job[p].req, "504") EXCEPT !.closeFlag = TRUE]
      BY <1>1, <2>3, NewestTimedOut
    <3>3. client'[k] = [Queue(client[k], job[p].req, "504") EXCEPT !.closeFlag = TRUE]
      BY <3>1, <3>2, Zenon
    <3>4. Expires(k) BY <2>1, <2>2, <3>2, <3>3 DEF Expires
    <3> QED BY <3>4 DEF ConnStep
  <2>4. CASE TimedOut(k) = {}
    <3>1. client'[k] = client[k] BY <1>1, <1>3, <2>4
    <3> QED BY <2>1, <2>2, <3>1 DEF ConnStep, Rests
  <2> QED BY <2>3, <2>4
<1> QED BY <1>2, <1>3

(* Whatever happens, a connection is in one of these steps.                *)
LEMMA ConnSteps ==
  ASSUME Inv, Seated, Domains, Owned, client \in [Conn -> Client], Next, NEW k \in Conn
  PROVE  ConnStep(k)
<1>1. CASE Clock \/ Scripts
  <2>1. UNCHANGED <<net, client, wire, clientList>>
    BY <1>1 DEF Clock, ClientDeadline, ScriptDeadline, Scripts, ScriptReads, ScriptWrites,
                ScriptClosesInput, ScriptClosesOutput, outside, server, tables
  <2> QED BY <2>1, AllRest
<1>2. CASE Peers BY <1>2, PeersMove
<1>3. ASSUME Abort PROVE ConnStep(k)
  BY <1>3, AllRest DEF Abort, outside, tables
<1>4. CASE Poll \/ AcceptEnds
  BY <1>4, AllRest DEF Poll, AcceptEnds, outside, tables
<1>5. CASE Sweep
  <2>1. SweepEffect \/ UNCHANGED <<outside, up, tables, client, late>>
    BY <1>5 DEF Sweep, SweepExpiredClients
  <2> QED BY <2>1, SweptExpires, AllRest DEF outside, tables
<1>6. CASE SweepIntoDangling BY <1>3, <1>6 DEF SweepIntoDangling
<1>7. CASE \E l \in Conn : Accept(l) BY <1>7, AcceptedEnters
<1>8. ASSUME NEW fd \in Fd, ServeError(fd) PROVE ConnStep(k)
  <2>1. CloseClient(fd) /\ wire' = wire /\ fd \in errFds
    BY <1>8 DEF ServeError, CloseBroken, InErrors
  <2>2. IsClient(fd) BY <2>1 DEF Inv, NothingStale
  <2> QED BY <2>1, <2>2, ClosedLeaves
<1>9. ASSUME NEW fd \in Fd, ServeReader(fd) PROVE ConnStep(k)
  <2>1. CASE ReadError(fd) \/ ReadEof(fd) \/ ReadOutput(fd)
    <3>1. UNCHANGED <<net, client, wire, clientList>>
      BY <2>1, Zenon DEF ReadError, ReadEof, ReadOutput, outside, tables
    <3> QED BY <3>1, AllRest
  <2>2. CASE ForkFails(fd) \/ AnswerIntoDangling(fd)
    BY <1>3, <2>2 DEF ForkFails, AnswerIntoDangling
  <2>3. CASE AnswerFromScript(fd) BY <2>3, OutputInforms
  <2> QED BY <1>9, <2>1, <2>2, <2>3, ReadersGet DEF ServeReader
<1>10. ASSUME NEW fd \in Fd, ServeWriter(fd) PROVE ConnStep(k)
  <2>1. CASE FeedScript(fd) \/ EndInput(fd)
    <3>1. UNCHANGED <<net, client, wire, clientList>>
      BY <2>1, Zenon DEF FeedScript, EndInput
    <3> QED BY <3>1, AllRest
  <2>2. CASE FeedForNobody(fd) \/ FeedDeafScript(fd)
    BY <1>3, <2>2 DEF FeedForNobody, FeedDeafScript
  <2>3. CASE SendFails(fd)
    <3>1. Abort \/ (CloseClient(fd) /\ UNCHANGED wire /\ IsClient(fd))
      BY <2>3, Zenon DEF SendFails, ClientWriterReady
    <3> QED BY <1>3, <3>1, ClosedLeaves
  <2> QED BY <1>10, <2>1, <2>2, <2>3, WritersShip DEF ServeWriter
<1> QED BY <1>1, <1>2, <1>4, <1>5, <1>6, <1>7, <1>8, <1>9, <1>10 DEF Next, Serve, ServeListener

-----------------------------------------------------------------------------
(* What a step does to one script.                                         *)

(* Nothing happens to script p, unless its context goes.                   *)
Quiet(p) ==
  /\ script'[p] = script[p] /\ job'[p] = job[p] /\ fed'[p] = fed[p] /\ ctx'[p] = ctx[p]
  /\ p \in CGIMap' => p \in CGIMap

(* The script reads, writes, or closes one of its ends.                    *)
ScriptMoves(p) ==
  /\ job'[p] = job[p] /\ fed'[p] = fed[p] /\ ctx'[p] = ctx[p]
  /\ CGIMap' = CGIMap /\ CGIbyWrite' = CGIbyWrite
  /\ \/ script'[p] = [script[p] EXCEPT !.in = 0]
     \/ /\ script[p].wr /\ script[p].out < PipeSize
        /\ script'[p] = [script[p] EXCEPT !.out = script[p].out + 1,
                                          !.wrote = script[p].wrote + 1]
     \/ /\ MayDeafen \/ AtEndOfInput(p)
        /\ script'[p] = [script[p] EXCEPT !.rd = FALSE, !.in = 0]
     \/ script'[p] = [script[p] EXCEPT !.wr = FALSE]

(* fork() starts p for a whole CGI request of the client on some           *)
(* descriptor.                                                             *)
Starts(p) ==
  /\ p \notin CGIMap /\ script[p].st = "none" /\ fed'[p] = fed[p]
  /\ script'[p] = [st |-> "run", rd |-> TRUE, wr |-> TRUE, in |-> 0, out |-> 0, wrote |-> 0]
  /\ clientList' = clientList
  /\ \E fd \in Fd : LET k == clientList[fd] IN
       /\ k \in Conn /\ ctx'[p].clientFd = fd /\ ctx'[p].conn = k
       /\ job'[p] = NewJob(Current(Received(k)))
       /\ Current(Received(k)) \in DOMAIN Plan[k]
       /\ Plan[k][Current(Received(k))].cgi

(* read() empties the pipe of p into the buffer of its context.            *)
OutputTaken(p) ==
  /\ fed'[p] = fed[p] /\ ctx'[p] = ctx[p] /\ p \in CGIMap
  /\ script'[p] = [script[p] EXCEPT !.out = 0]
  /\ job'[p] = [job[p] EXCEPT !.buffer = job[p].buffer + script[p].out]
  /\ \E fd \in Fd : CGIbyRead[fd] = p /\ fd \notin readyReaders'

(* write() gives p the next part of the body its client descriptor leads   *)
(* to.                                                                     *)
InputGiven(p) ==
  LET n == Smaller(BodySize(Owner(p)) - job[p].sendPos, PipeSize - script[p].in) IN
  /\ ctx'[p] = ctx[p] /\ p \in CGIMap
  /\ Owner(p) \in Conn /\ job[p].sendPos < BodySize(Owner(p))
  /\ script'[p] = [script[p] EXCEPT !.in = script[p].in + n]
  /\ job'[p] = [job[p] EXCEPT !.sendPos = job[p].sendPos + n]
  /\ fed'[p] = fed[p] \cup {Owner(p)}

(* The context of p is erased and its pipes are closed.                    *)
Dies(p) ==
  /\ job'[p] = job[p] /\ fed'[p] = fed[p] /\ ctx'[p] = ctx[p] /\ p \notin CGIMap'
  /\ script'[p] = [script[p] EXCEPT !.rd = FALSE, !.wr = FALSE, !.in = 0]

(* All that a step can do to a script.                                     *)
ScriptStep(p) ==
  Quiet(p) \/ ScriptMoves(p) \/ Starts(p) \/ OutputTaken(p) \/ InputGiven(p) \/ Dies(p)

(* What is buffered for the connections is of their requests.              *)
Buffers == \A k \in Conn : client[k] \in ClientOf(k) /\ NetKept(k, net[k])

(* A step that leaves the scripts alone.                                   *)
LEMMA AllQuiet ==
  ASSUME UNCHANGED <<script, job, fed, ctx>>, CGIMap' \subseteq CGIMap, NEW p \in Pid
  PROVE  ScriptStep(p)
BY DEF ScriptStep, Quiet

(* Scripts read, write and close on their own.                             *)
LEMMA ScriptsMove ==
  ASSUME Domains, Scripts, NEW p \in Pid PROVE ScriptStep(p)
<1>1. PICK s \in Pid : \/ ScriptReads(s) \/ ScriptWrites(s)
                       \/ ScriptClosesInput(s) \/ ScriptClosesOutput(s)
  BY DEF Scripts
<1>2. UNCHANGED <<job, fed, ctx, CGIMap, CGIbyWrite>>
  BY <1>1 DEF ScriptReads, ScriptWrites, ScriptClosesInput, ScriptClosesOutput, server, tables
<1>3. PICK new : /\ script' = [script EXCEPT ![s] = new]
                 /\ \/ new = [script[s] EXCEPT !.in = 0]
                    \/ /\ script[s].wr /\ script[s].out < PipeSize
                       /\ new = [script[s] EXCEPT !.out = script[s].out + 1,
                                                  !.wrote = script[s].wrote + 1]
                    \/ /\ MayDeafen \/ AtEndOfInput(s)
                       /\ new = [script[s] EXCEPT !.rd = FALSE, !.in = 0]
                    \/ new = [script[s] EXCEPT !.wr = FALSE]
  <2>1. CASE ScriptReads(s)
    <3>1. script' = [script EXCEPT ![s] = [script[s] EXCEPT !.in = 0]]
      BY <2>1, Zenon DEF ScriptReads
    <3> QED BY <3>1
  <2>2. CASE ScriptWrites(s)
    <3>1. PICK mid : mid = [script[s] EXCEPT !.out = script[s].out + 1] OBVIOUS
    <3>2. /\ script[s].wr /\ script[s].out < PipeSize
          /\ script' = [script EXCEPT ![s] = [mid EXCEPT !.wrote = script[s].wrote + 1]]
      BY <2>2, <3>1, Zenon DEF ScriptWrites
    <3>3. [mid EXCEPT !.wrote = script[s].wrote + 1]
            = [script[s] EXCEPT !.out = script[s].out + 1, !.wrote = script[s].wrote + 1]
      BY <3>1, Zenon
    <3> QED BY <3>2, <3>3
  <2>3. CASE ScriptClosesInput(s)
    <3>1. PICK mid : mid = [script[s] EXCEPT !.rd = FALSE] OBVIOUS
    <3>2. /\ MayDeafen \/ AtEndOfInput(s)
          /\ script' = [script EXCEPT ![s] = [mid EXCEPT !.in = 0]]
      BY <2>3, <3>1, Zenon DEF ScriptClosesInput
    <3>3. [mid EXCEPT !.in = 0] = [script[s] EXCEPT !.rd = FALSE, !.in = 0] BY <3>1, Zenon
    <3> QED BY <3>2, <3>3
  <2>4. CASE ScriptClosesOutput(s)
    <3>1. script' = [script EXCEPT ![s] = [script[s] EXCEPT !.wr = FALSE]]
      BY <2>4, Zenon DEF ScriptClosesOutput
    <3> QED BY <3>1
  <2> QED BY <1>1, <2>1, <2>2, <2>3, <2>4
<1>4. CASE p = s
  <2>1. script'[p] = new BY <1>3, <1>4 DEF Domains
  <2>2. ScriptMoves(p) BY <1>2, <1>3, <1>4, <2>1, Zenon DEF ScriptMoves
  <2> QED BY <2>2 DEF ScriptStep
<1>5. CASE p # s
  <2>1. script'[p] = script[p] BY <1>3, <1>5 DEF Domains
  <2> QED BY <1>2, <2>1 DEF ScriptStep, Quiet
<1> QED BY <1>4, <1>5

(* A script is started for a CGI request of the client that was read.      *)
LEMMA ScriptStarts ==
  ASSUME Inv, Domains, Buffers, NEW fd \in Fd, NEW s \in Pid, StartCGI(fd, s), NEW p \in Pid
  PROVE  ScriptStep(p)
<1> DEFINE k == clientList[fd]
           i == Current(Received(k))
<1>1. GotCGIRequest(fd) BY Zenon DEF StartCGI
<1>2. /\ IsClient(fd) /\ Whole(Received(k)) /\ Plan[k][i].cgi
  BY <1>1, Zenon DEF GotCGIRequest, GotRequest, GotBytes
<1>3. k \in Conn BY <1>2, OneRole DEF Inv, TablesAgree
<1>4. i \in DOMAIN Plan[k] BY <1>2, <1>3, ParsedTyped DEF Buffers
<1>5. PICK r, w : ctx' = [ctx EXCEPT ![s] =
                            [clientFd |-> fd, conn |-> k, fdRead |-> r, fdWrite |-> w]]
  BY Zenon DEF StartCGI
<1>6. /\ script[s].st = "none" /\ job' = [job EXCEPT ![s] = NewJob(i)]
      /\ CGIMap' = CGIMap \cup {s} /\ fed' = fed /\ clientList' = clientList
      /\ script' = [script EXCEPT ![s] = [st |-> "run", rd |-> TRUE, wr |-> TRUE,
                                          in |-> 0, out |-> 0, wrote |-> 0]]
  BY Zenon DEF StartCGI, Receive
<1>7. s \notin CGIMap BY <1>6 DEF Inv, ScriptsStarted
<1>8. DOMAIN ctx = Pid BY DEF Inv, TablesTyped
<1>9. CASE p = s
  <2>1. /\ script'[p] = [st |-> "run", rd |-> TRUE, wr |-> TRUE, in |-> 0, out |-> 0, wrote |-> 0]
        /\ job'[p] = NewJob(i)
    BY <1>6, <1>9 DEF Domains
  <2>2. ctx'[p].clientFd = fd /\ ctx'[p].conn = k BY <1>5, <1>8, <1>9
  <2>3. Starts(p) BY <1>2, <1>3, <1>4, <1>6, <1>7, <1>9, <2>1, <2>2 DEF Starts
  <2> QED BY <2>3 DEF ScriptStep
<1>10. CASE p # s
  <2>1. script'[p] = script[p] /\ job'[p] = job[p] BY <1>6, <1>10 DEF Domains
  <2>2. ctx'[p] = ctx[p] BY <1>5, <1>8, <1>10
  <2> QED BY <1>6, <1>10, <2>1, <2>2 DEF ScriptStep, Quiet
<1> QED BY <1>9, <1>10

(* Output is taken by the reader of its script.                            *)
LEMMA ReaderTakes ==
  ASSUME Inv, Domains, NEW fd \in Fd, ReadOutput(fd), NEW p \in Pid
  PROVE  ScriptStep(p)
<1>1. PICK s : s = CGIbyRead[fd] OBVIOUS
<1>2. CGIbyRead[fd] # NoPid BY Zenon DEF ReadOutput, CGIReaderReady
<1>3. s \in CGIMap /\ s \in Pid
  BY <1>1, <1>2, OneRole DEF Inv, TablesAgree, IteratorsValid
<1>4. /\ job' = [job EXCEPT ![s] = [job[s] EXCEPT !.buffer = job[s].buffer + script[s].out]]
      /\ script' = [script EXCEPT ![s] = [script[s] EXCEPT !.out = 0]]
      /\ UNCHANGED <<fed, ctx, CGIMap>> /\ readyReaders' = readyReaders \ {fd}
  BY <1>1, Zenon DEF ReadOutput, Touch
<1>5. CASE p = s
  <2>1. /\ script'[p] = [script[p] EXCEPT !.out = 0]
        /\ job'[p] = [job[p] EXCEPT !.buffer = job[p].buffer + script[p].out]
    BY <1>3, <1>4, <1>5 DEF Domains
  <2>2. OutputTaken(p) BY <1>1, <1>3, <1>4, <1>5, <2>1 DEF OutputTaken
  <2> QED BY <2>2 DEF ScriptStep
<1>6. CASE p # s
  <2>1. script'[p] = script[p] /\ job'[p] = job[p] BY <1>4, <1>6 DEF Domains
  <2> QED BY <1>4, <2>1 DEF ScriptStep, Quiet
<1> QED BY <1>5, <1>6

(* Input is given by the writer of its script.                             *)
LEMMA WriterGives ==
  ASSUME Inv, Domains, NEW fd \in Fd, FeedScript(fd), NEW p \in Pid
  PROVE  ScriptStep(p)
<1>1. PICK s : s = CGIbyWrite[fd] OBVIOUS
<1>2. CGIbyWrite[fd] # NoPid BY Zenon DEF FeedScript, CGIWriterReady
<1>3. s \in CGIMap /\ s \in Pid
  BY <1>1, <1>2, OneRole DEF Inv, TablesAgree, IteratorsValid
<1>4. Owner(s) \in Conn
  <2>1. ctx[s].clientFd \in Fd BY <1>3 DEF Inv, TablesTyped, Context
  <2>2. Owner(s) # NoConn BY <1>1, Zenon DEF FeedScript
  <2> QED BY <2>1, <2>2 DEF Owner, Inv, TablesTyped
<1> DEFINE n == Smaller(BodySize(Owner(s)) - job[s].sendPos, PipeSize - script[s].in)
<1>5. /\ job[s].sendPos < BodySize(Owner(s))
      /\ job' = [job EXCEPT ![s] = [job[s] EXCEPT !.sendPos = job[s].sendPos + n]]
      /\ script' = [script EXCEPT ![s] = [script[s] EXCEPT !.in = script[s].in + n]]
      /\ fed' = [fed EXCEPT ![s] = fed[s] \cup {Owner(s)}]
      /\ UNCHANGED <<ctx, CGIMap>>
  BY <1>1, Zenon DEF FeedScript
<1> HIDE DEF n
<1>6. CASE p = s
  <2>1. /\ script'[s] = [script[s] EXCEPT !.in = script[s].in + n]
        /\ job'[s] = [job[s] EXCEPT !.sendPos = job[s].sendPos + n]
        /\ fed'[s] = fed[s] \cup {Owner(s)}
    BY <1>3, <1>5 DEF Domains
  <2>2. InputGiven(s) BY <1>3, <1>4, <1>5, <2>1 DEF InputGiven, n
  <2> QED BY <1>6, <2>2 DEF ScriptStep
<1>7. CASE p # s
  <2>1. script'[p] = script[p] /\ job'[p] = job[p] /\ fed'[p] = fed[p]
    BY <1>5, <1>7 DEF Domains
  <2> QED BY <1>5, <2>1 DEF ScriptStep, Quiet
<1> QED BY <1>6, <1>7

(* Whatever happens, a script is in one of these steps.                    *)
LEMMA ScriptSteps ==
  ASSUME Inv, Domains, Buffers, Next, NEW p \in Pid
  PROVE  ScriptStep(p)
<1>1. CASE Clock \/ Peers
  <2>1. UNCHANGED <<script, job, fed, ctx, CGIMap>>
    BY <1>1 DEF Clock, ClientDeadline, ScriptDeadline, Peers, Connect, PeerSend, PeerShut,
                PeerReset, outside, server, tables
  <2> QED BY <2>1, AllQuiet
<1>2. CASE Scripts BY <1>2, ScriptsMove
<1>3. ASSUME Abort PROVE ScriptStep(p)
  BY <1>3, AllQuiet DEF Abort, outside, tables
<1>4. CASE Poll \/ AcceptEnds
  BY <1>4, AllQuiet DEF Poll, AcceptEnds, outside, tables
<1>5. CASE Sweep
  <2>1. CASE SweepEffect
    <3>1. /\ script' = [s \in Pid |-> IF s \in ToKill
                                      THEN [script[s] EXCEPT !.rd = FALSE, !.wr = FALSE, !.in = 0]
                                      ELSE script[s]]
          /\ CGIMap' = CGIMap \ ToKill /\ UNCHANGED <<fed, ctx, job>>
      BY <2>1, Zenon DEF SweepEffect
    <3>2. CASE p \in ToKill
      <4>1. script'[p] = [script[p] EXCEPT !.rd = FALSE, !.wr = FALSE, !.in = 0]
        BY <3>1, <3>2, Zenon
      <4> QED BY <3>1, <3>2, <4>1 DEF ScriptStep, Dies
    <3>3. CASE p \notin ToKill
      <4>1. script'[p] = script[p] BY <3>1, <3>3, Zenon
      <4> QED BY <3>1, <4>1 DEF ScriptStep, Quiet
    <3> QED BY <3>2, <3>3
  <2>2. CASE UNCHANGED <<outside, up, tables, client, late>>
    BY <2>2, AllQuiet DEF outside, tables
  <2> QED BY <1>5, <2>1, <2>2 DEF Sweep, SweepExpiredClients
<1>6. CASE SweepIntoDangling BY <1>3, <1>6 DEF SweepIntoDangling
<1>7. CASE \E l \in Conn : Accept(l) BY <1>7, AllQuiet DEF Accept
<1>8. ASSUME NEW fd \in Fd, CloseClient(fd) \/ UNCHANGED <<up, outside, tables>> PROVE ScriptStep(p)
  <2>1. CASE CloseClient(fd)
    <3>1. UNCHANGED <<script, job, fed, ctx, CGIMap>> BY <2>1, Zenon DEF CloseClient
    <3> QED BY <3>1, AllQuiet
  <2> QED BY <1>8, <2>1, AllQuiet DEF outside, tables
<1>9. ASSUME NEW fd \in Fd, ServeReader(fd) PROVE ScriptStep(p)
  <2>1. CASE \/ ReadError(fd) \/ ReadEof(fd) \/ ReadKeeps(fd) \/ ReadAndAnswer(fd) \/ PipeFails(fd)
    <3>1. UNCHANGED <<script, job, fed, ctx, CGIMap>>
      BY <2>1, Zenon DEF ReadError, ReadEof, ReadKeeps, ReadAndAnswer, PipeFails, Receive,
                         outside, tables
    <3> QED BY <3>1, AllQuiet
  <2>2. CASE ForkFails(fd) \/ AnswerIntoDangling(fd)
    BY <1>3, <2>2 DEF ForkFails, AnswerIntoDangling
  <2>3. CASE AnswerFromScript(fd)
    <3>1. UNCHANGED <<script, job, fed, ctx>> /\ CloseCGIRead(CGIbyRead[fd])
      BY <2>3, Zenon DEF AnswerFromScript
    <3> QED BY <3>1, AllQuiet DEF CloseCGIRead
  <2> QED BY <1>9, <2>1, <2>2, <2>3, ScriptStarts, ReaderTakes DEF ServeReader
<1>10. ASSUME NEW fd \in Fd, ServeWriter(fd) PROVE ScriptStep(p)
  <2>1. CASE \E n \in 0 .. 2 : SendPart(fd, n) \/ SendLastAndKeep(fd, n)
    <3>1. UNCHANGED <<script, job, fed, ctx, CGIMap>>
      BY <2>1, Zenon DEF SendPart, SendLastAndKeep, tables
    <3> QED BY <3>1, AllQuiet
  <2>2. CASE FeedForNobody(fd) \/ FeedDeafScript(fd)
    BY <1>3, <2>2 DEF FeedForNobody, FeedDeafScript
  <2>3. CASE SendFails(fd) \/ \E n \in 0 .. 2 : SendLastAndClose(fd, n)
    <3>1. Abort \/ CloseClient(fd) BY <2>3, Zenon DEF SendFails, SendLastAndClose
    <3> QED BY <1>3, <1>8, <3>1
  <2>4. CASE EndInput(fd)
    <3>1. UNCHANGED <<script, job, fed, ctx>> /\ CloseCGIWrite(CGIbyWrite[fd])
      BY <2>4, Zenon DEF EndInput
    <3> QED BY <3>1, AllQuiet DEF CloseCGIWrite
  <2> QED BY <1>10, <2>1, <2>2, <2>3, <2>4, WriterGives DEF ServeWriter
<1>11. ASSUME NEW fd \in Fd, ServeError(fd) PROVE ScriptStep(p)
  BY <1>8, <1>11 DEF ServeError, CloseBroken
<1> QED BY <1>1, <1>2, <1>4, <1>5, <1>6, <1>7, <1>9, <1>10, <1>11 DEF Next, Serve, ServeListener

-----------------------------------------------------------------------------
(* The domains stay what they are.                                         *)

(* An update keeps the domain of a function.                               *)
LEMMA ExceptKeeps ==
  ASSUME NEW f, NEW D, f = [x \in D |-> f[x]], NEW y, NEW v
  PROVE  /\ DOMAIN [f EXCEPT ![y] = v] = D
         /\ [f EXCEPT ![y] = v] = [x \in D |-> [f EXCEPT ![y] = v][x]]
<1>1. DOMAIN f = D OBVIOUS
<1> QED BY <1>1

(* The step changes nothing that is indexed by connections or scripts.     *)
Untouched == UNCHANGED <<net, client, wire, script, job, fed>>

(* Such a step keeps the domains.                                          *)
LEMMA UntouchedKeeps == ASSUME Domains, Untouched PROVE Domains'
BY DEF Domains, Untouched

(* So does an update of one connection, and of one script with it.         *)
LEMMA ClientStepKeeps ==
  ASSUME Domains, NEW c, NEW new, client' = [client EXCEPT ![c] = new],
         \/ net' = net \/ \E n : net' = [net EXCEPT ![c] = n],
         \/ wire' = wire \/ \E w : wire' = [wire EXCEPT ![c] = w],
         \/ UNCHANGED <<script, job, fed>>
         \/ /\ \E p, s, j : script' = [script EXCEPT ![p] = s] /\ job' = [job EXCEPT ![p] = j]
            /\ fed' = fed
  PROVE  Domains'
<1>1. DOMAIN client' = Conn /\ client' = [k \in Conn |-> client'[k]]
  <2>1. client = [k \in Conn |-> client[k]] BY DEF Domains
  <2> QED BY <2>1, ExceptKeeps, Zenon
<1>2. DOMAIN net' = Conn /\ DOMAIN wire' = Conn BY DEF Domains
<1>3. DOMAIN script' = Pid /\ DOMAIN job' = Pid /\ DOMAIN fed' = Pid BY DEF Domains
<1> QED BY <1>1, <1>2, <1>3 DEF Domains

(* Every step keeps the domains.                                           *)
LEMMA DomainsKept == ASSUME Inv, Domains, [Next]_vars PROVE Domains'
<1>1. CASE UNCHANGED vars BY <1>1, UntouchedKeeps DEF vars, outside, tables, Untouched
<1>2. CASE Clock \/ Poll \/ AcceptEnds \/ SweepIntoDangling
  BY <1>2, UntouchedKeeps
     DEF Clock, ClientDeadline, ScriptDeadline, Poll, AcceptEnds, SweepIntoDangling, Abort,
         outside, server, tables, Untouched
<1>3. CASE Peers
  <2>1. /\ UNCHANGED <<client, wire, script, job, fed>>
        /\ DOMAIN net' = DOMAIN net
    BY <1>3 DEF Peers, Connect, PeerSend, PeerShut, PeerReset, server, tables
  <2> QED BY <2>1 DEF Domains
<1>4. CASE Scripts
  <2>1. /\ UNCHANGED <<net, client, wire, job, fed>>
        /\ DOMAIN script' = DOMAIN script
    BY <1>4 DEF Scripts, ScriptReads, ScriptWrites, ScriptClosesInput, ScriptClosesOutput,
                server, tables
  <2> QED BY <2>1 DEF Domains
<1>5. CASE Sweep
  <2>1. CASE SweepEffect
    <3>1. /\ client' = [k \in Conn |-> client'[k]] /\ DOMAIN client' = Conn
          /\ DOMAIN net' = Conn /\ DOMAIN script' = Pid /\ UNCHANGED <<wire, fed, job>>
      BY <2>1 DEF SweepEffect
    <3> QED BY <3>1 DEF Domains
  <2>2. CASE UNCHANGED <<outside, up, tables, client, late>>
    BY <2>2, UntouchedKeeps DEF outside, tables, Untouched
  <2> QED BY <1>5, <2>1, <2>2 DEF Sweep, SweepExpiredClients
<1>6. ASSUME NEW k \in Conn, Accept(k) PROVE Domains'
  <2>1. /\ client' = [client EXCEPT ![k] = NewClient] /\ UNCHANGED <<wire, script, job, fed>>
        /\ net' = [net EXCEPT ![k] = [net[k] EXCEPT !.st = "open"]]
    BY <1>6, Zenon DEF Accept
  <2> QED BY <2>1, ClientStepKeeps
<1>7. ASSUME NEW fd \in Fd, CloseClient(fd),
             wire' = wire \/ \E w : wire' = [wire EXCEPT ![clientList[fd]] = w]
      PROVE  Domains'
  <2>1. /\ client' = [client EXCEPT ![clientList[fd]] = NewClient]
        /\ net' = [net EXCEPT ![clientList[fd]] = [net[clientList[fd]] EXCEPT !.st = "closed"]]
        /\ UNCHANGED <<script, job, fed>>
    BY <1>7, Zenon DEF CloseClient
  <2> QED BY <1>7, <2>1, ClientStepKeeps
<1>8. ASSUME NEW k, NEW c, Receive(k, c),
             \/ UNCHANGED <<script, job>>
             \/ \E p, s, j : script' = [script EXCEPT ![p] = s] /\ job' = [job EXCEPT ![p] = j]
      PROVE  Domains'
  <2>1. /\ client' = [client EXCEPT ![k] = c]
        /\ net' = [net EXCEPT ![k] = [net[k] EXCEPT !.read = net[k].sent]]
        /\ wire' = wire /\ fed' = fed
    BY <1>8, Zenon DEF Receive
  <2> QED BY <1>8, <2>1, ClientStepKeeps
<1>9. ASSUME NEW fd \in Fd, ServeReader(fd) PROVE Domains'
  <2>1. CASE ReadError(fd) \/ ReadEof(fd)
    BY <2>1, UntouchedKeeps DEF ReadError, ReadEof, outside, tables, Untouched
  <2>2. CASE ReadKeeps(fd) \/ ReadAndAnswer(fd) \/ PipeFails(fd)
    <3>1. UNCHANGED <<script, job>> /\ \E k, c : Receive(k, c)
      BY <2>2, Zenon DEF ReadKeeps, ReadAndAnswer, PipeFails
    <3> QED BY <1>8, <3>1
  <2>3. ASSUME NEW p \in Pid, StartCGI(fd, p) PROVE Domains'
    <3>1. /\ \E k, c : Receive(k, c)
          /\ \E s, j : script' = [script EXCEPT ![p] = s] /\ job' = [job EXCEPT ![p] = j]
      BY <2>3, Zenon DEF StartCGI
    <3> QED BY <1>8, <3>1
  <2>4. CASE ForkFails(fd) \/ AnswerIntoDangling(fd)
    BY <2>4, UntouchedKeeps DEF ForkFails, AnswerIntoDangling, Abort, outside, tables, Untouched
  <2>5. CASE ReadOutput(fd)
    <3>1. /\ UNCHANGED <<net, client, wire, fed>>
          /\ \E p, s, j : script' = [script EXCEPT ![p] = s] /\ job' = [job EXCEPT ![p] = j]
      BY <2>5, Zenon DEF ReadOutput
    <3> QED BY <3>1 DEF Domains
  <2>6. CASE AnswerFromScript(fd)
    <3>1. /\ UNCHANGED <<net, wire, fed, script, job>>
          /\ client' = client \/ \E k, c : client' = [client EXCEPT ![k] = c]
      BY <2>6, Zenon DEF AnswerFromScript
    <3>2. CASE client' = client BY <3>1, <3>2, UntouchedKeeps DEF Untouched
    <3> QED BY <3>1, <3>2, ClientStepKeeps
  <2> QED BY <1>9, <2>1, <2>2, <2>3, <2>4, <2>5, <2>6 DEF ServeReader
<1>10. ASSUME NEW fd \in Fd, ServeWriter(fd) PROVE Domains'
  <2>1. ASSUME NEW n \in 0 .. 2, SendPart(fd, n) \/ SendLastAndKeep(fd, n) PROVE Domains'
    <3>1. /\ \E c : client' = [client EXCEPT ![clientList[fd]] = c]
          /\ \E w : wire' = [wire EXCEPT ![clientList[fd]] = w]
          /\ UNCHANGED <<net, script, job, fed>>
      BY <2>1, Zenon DEF SendPart, SendLastAndKeep, Sends, tables
    <3> QED BY <3>1, ClientStepKeeps
  <2>2. ASSUME NEW n \in 0 .. 2, SendLastAndClose(fd, n) PROVE Domains'
    <3>1. CloseClient(fd) /\ \E w : wire' = [wire EXCEPT ![clientList[fd]] = w]
      BY <2>2, Zenon DEF SendLastAndClose, Sends
    <3> QED BY <1>7, <3>1
  <2>3. ASSUME Abort PROVE Domains'
    BY <2>3, UntouchedKeeps DEF Abort, outside, tables, Untouched
  <2>4. CASE SendFails(fd)
    <3>1. Abort \/ (CloseClient(fd) /\ wire' = wire) BY <2>4, Zenon DEF SendFails
    <3> QED BY <1>7, <2>3, <3>1
  <2>5. CASE FeedForNobody(fd) \/ FeedDeafScript(fd)
    BY <2>3, <2>5 DEF FeedForNobody, FeedDeafScript
  <2>6. CASE EndInput(fd)
    <3>1. Untouched BY <2>6, Zenon DEF EndInput, Untouched
    <3> QED BY <3>1, UntouchedKeeps
  <2>7. CASE FeedScript(fd)
    <3>1. /\ UNCHANGED <<net, client, wire>>
          /\ \E p, s, j, e : /\ script' = [script EXCEPT ![p] = s] /\ job' = [job EXCEPT ![p] = j]
                             /\ fed' = [fed EXCEPT ![p] = e]
      BY <2>7, Zenon DEF FeedScript
    <3> QED BY <3>1 DEF Domains
  <2> QED BY <1>10, <2>1, <2>2, <2>4, <2>5, <2>6, <2>7 DEF ServeWriter
<1>11. ASSUME NEW fd \in Fd, ServeError(fd) PROVE Domains'
  BY <1>7, <1>11 DEF ServeError, CloseBroken
<1> QED BY <1>1, <1>2, <1>3, <1>4, <1>5, <1>6, <1>9, <1>10, <1>11 DEF Next, Serve, ServeListener

-----------------------------------------------------------------------------
(* The content of the buffers and pipes, inductively.                      *)

(* What a script holds: at most a pipe full each way.                      *)
ScriptState ==
  [st : {"none", "run"}, rd : BOOLEAN, wr : BOOLEAN,
   in : 0 .. PipeSize, out : 0 .. PipeSize, wrote : Nat]

(* What a CGIContext counts.                                               *)
Job == [req : Nat, sendPos : 0 .. 2, buffer : Nat]

(* What a script wrote is in its pipe or in its context's buffer.          *)
ScriptKept(p) ==
  /\ script[p] \in ScriptState /\ job[p] \in Job /\ fed[p] \subseteq Conn
  /\ job[p].buffer + script[p].out = script[p].wrote

(* What was sent is made of answers.                                       *)
Wires == \A k \in Conn : wire[k] \in Seq(OutUnit)

(* The inductive invariant of the content, beside that of the descriptors. *)
ContentInv ==
  /\ Domains /\ Seated /\ Owned /\ Buffers /\ Wires
  /\ \A p \in Pid : ScriptKept(p)

(* Setting one field of a connection's record leaves the others.          *)
LEMMA NetFields ==
  ASSUME NEW n \in NetState
  PROVE  /\ \A s \in {"idle", "backlog", "open", "closed"} :
              LET m == [n EXCEPT !.st = s] IN
              m \in NetState /\ m.read = n.read /\ m.sent = n.sent
         /\ \A s \in Nat : LET m == [n EXCEPT !.read = s] IN
              m \in NetState /\ m.read = s /\ m.sent = n.sent
         /\ \A s \in Nat : LET m == [n EXCEPT !.sent = s] IN
              m \in NetState /\ m.read = n.read /\ m.sent = s
         /\ LET m == [n EXCEPT !.fin = TRUE] IN
              m \in NetState /\ m.read = n.read /\ m.sent = n.sent
         /\ LET m == [n EXCEPT !.rst = TRUE] IN
              m \in NetState /\ m.read = n.read /\ m.sent = n.sent
<1>1. \A s \in {"idle", "backlog", "open", "closed"} :
        LET m == [n EXCEPT !.st = s] IN
        m \in NetState /\ m.read = n.read /\ m.sent = n.sent
  BY DEF NetState
<1>2. \A s \in Nat : LET m == [n EXCEPT !.read = s] IN
        m \in NetState /\ m.read = s /\ m.sent = n.sent
  BY DEF NetState
<1>3. \A s \in Nat : LET m == [n EXCEPT !.sent = s] IN
        m \in NetState /\ m.read = n.read /\ m.sent = s
  BY DEF NetState
<1>4. LET m == [n EXCEPT !.fin = TRUE] IN
        m \in NetState /\ m.read = n.read /\ m.sent = n.sent
  BY DEF NetState
<1>5. LET m == [n EXCEPT !.rst = TRUE] IN
        m \in NetState /\ m.read = n.read /\ m.sent = n.sent
  BY DEF NetState
<1> QED BY <1>1, <1>2, <1>3, <1>4, <1>5

(* Nothing is read past what arrived, nor sent past the plan.              *)
LEMMA NetTyped ==
  ASSUME NEW k \in Conn, NetKept(k, net[k])
  PROVE  /\ \A s \in {"idle", "backlog", "open", "closed"} :
               NetKept(k, [net[k] EXCEPT !.st = s])
         /\ NetKept(k, [net[k] EXCEPT !.read = net[k].sent])
         /\ net[k].sent < Len(Stream[k]) => NetKept(k, [net[k] EXCEPT !.sent = net[k].sent + 1])
         /\ NetKept(k, [net[k] EXCEPT !.fin = TRUE])
         /\ NetKept(k, [net[k] EXCEPT !.rst = TRUE])
<1> DEFINE n == net[k]
<1>1. Stream[k] \in Seq(Units(k)) BY UnitsTyped
<1>2. Len(Stream[k]) \in Nat BY <1>1
<1>3. n \in NetState /\ n.read <= n.sent /\ n.sent <= Len(Stream[k]) BY DEF NetKept
<1>4. n.read \in Nat /\ n.sent \in Nat BY <1>3 DEF NetState
<1> HIDE DEF n
<1>5. /\ \A s \in {"idle", "backlog", "open", "closed"} : NetKept(k, [n EXCEPT !.st = s])
      /\ NetKept(k, [n EXCEPT !.fin = TRUE]) /\ NetKept(k, [n EXCEPT !.rst = TRUE])
  <2>1. ASSUME NEW m \in NetState, m.read = n.read, m.sent = n.sent PROVE NetKept(k, m)
    BY <1>3, <2>1 DEF NetKept
  <2> QED BY <1>3, <2>1, NetFields, Zenon
<1>6. NetKept(k, [n EXCEPT !.read = n.sent])
  <2>1. PICK m : m = [n EXCEPT !.read = n.sent] OBVIOUS
  <2>2. m \in NetState /\ m.read = n.sent /\ m.sent = n.sent BY <1>3, <1>4, <2>1, NetFields
  <2>3. NetKept(k, m) BY <1>3, <1>4, <2>2 DEF NetKept
  <2> QED BY <2>1, <2>3
<1>7. n.sent < Len(Stream[k]) => NetKept(k, [n EXCEPT !.sent = n.sent + 1])
  <2>1. n.sent + 1 \in Nat /\ n.read <= n.sent + 1 BY <1>3, <1>4
  <2>2. n.sent < Len(Stream[k]) => n.sent + 1 <= Len(Stream[k]) BY <1>2, <1>4
  <2>3. PICK m : m = [n EXCEPT !.sent = n.sent + 1] OBVIOUS
  <2>4. m \in NetState /\ m.read = n.read /\ m.sent = n.sent + 1
    BY <1>3, <2>1, <2>3, NetFields, Zenon
  <2> QED BY <1>3, <2>1, <2>2, <2>3, <2>4 DEF NetKept
<1> QED BY <1>5, <1>6, <1>7 DEF n

(* What is heard keeps the record of the client typed.                     *)
LEMMA HearingTyped ==
  ASSUME NEW k \in Conn, client[k] \in ClientOf(k), NetKept(k, net[k]), Hearing(k)
  PROVE  client'[k] \in ClientOf(k)
<1> DEFINE c == Received(k)
           i == Current(c)
<1>1. c \in ClientOf(k) /\ [client[k] EXCEPT !.inBuff = client[k].inBuff \o Unread(k)] \in ClientOf(k)
  BY ReceivedTyped
<1>2. Whole(c) => Parsed(k) \in ClientOf(k) /\ i \in Nat BY ParsedTyped
<1>3. Whole(c) => /\ Queue(Parsed(k), i, "200") \in ClientOf(k)
                  /\ [Queue(Parsed(k), i, "400") EXCEPT !.closeFlag = TRUE] \in ClientOf(k)
  BY <1>2, QueueTyped
<1> QED BY <1>1, <1>2, <1>3, Zenon DEF Hearing

(* A context was made for a numbered request.                              *)
LEMMA ReqTyped ==
  ASSUME Owned, NEW p \in CGIMap PROVE job[p].req \in Nat
<1>1. Plan[ctx[p].conn] \in Seq(Request) BY PlanAssumption DEF Owned
<1> QED BY <1>1 DEF Owned

(* A connection keeps its types whatever happens to it.                    *)
LEMMA ConnKept ==
  ASSUME Owned, NEW k \in Conn, client[k] \in ClientOf(k), NetKept(k, net[k]),
         wire[k] \in Seq(OutUnit), ConnStep(k)
  PROVE  client'[k] \in ClientOf(k) /\ NetKept(k, net'[k]) /\ wire'[k] \in Seq(OutUnit)
<1> DEFINE out == client[k].outBuff
<1>1. out \in Seq(OutUnit) BY DEF ClientOf
<1>2. ASSUME NEW s \in Seq(OutUnit) PROVE wire[k] \o s \in Seq(OutUnit) BY <1>2
<1>3. ASSUME NEW c \in ClientOf(k), NEW s \in Seq(OutUnit)
      PROVE  [c EXCEPT !.outBuff = s] \in ClientOf(k)
  BY <1>3 DEF ClientOf
<1>4. NewClient \in ClientOf(k) BY NewClientTyped
<1>5. CASE Rests(k) BY <1>5 DEF Rests
<1>6. CASE PeerMoves(k) BY <1>6, NetTyped DEF PeerMoves
<1>7. CASE Enters(k) BY <1>4, <1>7, NetTyped DEF Enters
<1>8. CASE Leaves(k)
  <2>1. wire[k] \o out \in Seq(OutUnit) BY <1>1, <1>2
  <2>2. NetKept(k, net'[k]) BY <1>8, NetTyped DEF Leaves
  <2> QED BY <1>4, <1>8, <2>1, <2>2 DEF Leaves
<1>9. CASE Gets(k)
  <2>1. NetKept(k, net'[k]) BY <1>9, NetTyped DEF Gets
  <2> QED BY <1>9, <2>1, HearingTyped DEF Gets
<1>10. CASE Ships(k)
  <2>1. CASE /\ wire'[k] = wire[k] \o out /\ client'[k] = ResetKeepAlive(client[k])
    <3>1. wire[k] \o out \in Seq(OutUnit) BY <1>1, <1>2
    <3> QED BY <1>10, <2>1, <3>1, ResetTyped DEF Ships
  <2>2. ASSUME NEW n \in 1 .. Len(out) - 1, wire'[k] = wire[k] \o SubSeq(out, 1, n),
               client'[k] = [client[k] EXCEPT !.outBuff = SubSeq(out, n + 1, Len(out))]
        PROVE  client'[k] \in ClientOf(k) /\ wire'[k] \in Seq(OutUnit)
    <3>1. SubSeq(out, 1, n) \in Seq(OutUnit) /\ SubSeq(out, n + 1, Len(out)) \in Seq(OutUnit)
      <4> HIDE DEF out
      <4> QED BY <1>1
    <3>2. [client[k] EXCEPT !.outBuff = SubSeq(out, n + 1, Len(out))] \in ClientOf(k)
      BY <1>3, <3>1, Zenon
    <3>3. wire[k] \o SubSeq(out, 1, n) \in Seq(OutUnit) BY <1>2, <3>1, Zenon
    <3> QED BY <2>2, <3>2, <3>3, Zenon
  <2> QED BY <1>10, <2>1, <2>2, Zenon DEF Ships
<1>11. CASE Informed(k)
  <2>1. PICK p \in CGIMap : client'[k] = Queue(client[k], job[p].req, FinalStatus(k))
    BY <1>11 DEF Informed
  <2>2. Queue(client[k], job[p].req, FinalStatus(k)) \in ClientOf(k)
    BY ReqTyped, QueueTyped DEF FinalStatus
  <2> QED BY <1>11, <2>1, <2>2, Zenon DEF Informed
<1>12. CASE Expires(k)
  <2>1. PICK p \in CGIMap :
          client'[k] = [Queue(client[k], job[p].req, "504") EXCEPT !.closeFlag = TRUE]
    BY <1>12, Zenon DEF Expires
  <2>2. [Queue(client[k], job[p].req, "504") EXCEPT !.closeFlag = TRUE] \in ClientOf(k)
    BY ReqTyped, QueueTyped
  <2> QED BY <1>12, <2>1, <2>2, Zenon DEF Expires
<1> QED BY <1>5, <1>6, <1>7, <1>8, <1>9, <1>10, <1>11, <1>12 DEF ConnStep

(* Connections are opened on one descriptor and closed with it.            *)
LEMMA SeatsKept ==
  ASSUME Seated, Buffers, \A k \in Conn : ConnStep(k) PROVE Seated'
<1> SUFFICES ASSUME NEW k \in Conn
             PROVE  /\ net'[k].st = "open" <=> \E fd \in Fd : clientList'[fd] = k
                    /\ \A f, g \in Fd : clientList'[f] = k /\ clientList'[g] = k => f = g
  BY DEF Seated
<1>1. net[k] \in NetState BY DEF Buffers, NetKept
<1>2. CASE Rests(k) BY <1>2 DEF Rests, Stays, Seated
<1>3. CASE PeerMoves(k)
  <2>1. net'[k].st = "open" <=> net[k].st = "open" BY <1>1, <1>3 DEF PeerMoves, NetState
  <2> QED BY <1>3, <2>1 DEF PeerMoves, Stays, Seated
<1>4. CASE Enters(k)
  <2>1. net'[k].st = "open" BY <1>1, <1>4 DEF Enters, NetState
  <2> QED BY <1>4, <2>1 DEF Enters
<1>5. CASE Leaves(k)
  <2>1. net'[k].st = "closed" BY <1>1, <1>5 DEF Leaves, NetState
  <2> QED BY <1>5, <2>1 DEF Leaves
<1>6. CASE Gets(k)
  <2>1. net'[k].st = net[k].st BY <1>1, <1>6 DEF Gets, NetState
  <2> QED BY <1>6, <2>1 DEF Gets, Stays, Seated
<1>7. CASE Ships(k) \/ Informed(k) \/ Expires(k)
  <2>1. net'[k] = net[k] /\ Stays(k) BY <1>7, Zenon DEF Ships, Informed, Expires
  <2> QED BY <2>1 DEF Stays, Seated
<1> QED BY <1>2, <1>3, <1>4, <1>5, <1>6, <1>7 DEF ConnStep

(* What a script or a sweep may set of a script's record.                  *)
LEMMA ScriptFields ==
  ASSUME NEW s \in ScriptState
  PROVE  /\ LET t == [s EXCEPT !.in = 0] IN
              t \in ScriptState /\ t.out = s.out /\ t.wrote = s.wrote
         /\ LET t == [s EXCEPT !.rd = FALSE, !.in = 0] IN
              t \in ScriptState /\ t.out = s.out /\ t.wrote = s.wrote
         /\ LET t == [s EXCEPT !.wr = FALSE] IN
              t \in ScriptState /\ t.out = s.out /\ t.wrote = s.wrote
         /\ LET t == [s EXCEPT !.rd = FALSE, !.wr = FALSE, !.in = 0] IN
              t \in ScriptState /\ t.out = s.out /\ t.wrote = s.wrote
<1>1. 0 \in 0 .. PipeSize BY SizeAssumption
<1>2. LET t == [s EXCEPT !.in = 0] IN t \in ScriptState /\ t.out = s.out /\ t.wrote = s.wrote
  BY <1>1 DEF ScriptState
<1>3. LET t == [s EXCEPT !.rd = FALSE, !.in = 0] IN
        t \in ScriptState /\ t.out = s.out /\ t.wrote = s.wrote
  BY <1>1 DEF ScriptState
<1>4. LET t == [s EXCEPT !.wr = FALSE] IN t \in ScriptState /\ t.out = s.out /\ t.wrote = s.wrote
  BY DEF ScriptState
<1>5. LET t == [s EXCEPT !.rd = FALSE, !.wr = FALSE, !.in = 0] IN
        t \in ScriptState /\ t.out = s.out /\ t.wrote = s.wrote
  BY <1>1 DEF ScriptState
<1> QED BY <1>2, <1>3, <1>4, <1>5

(* A script keeps its types, and what it wrote, whatever happens to it.    *)
LEMMA ScriptStaysKept ==
  ASSUME Inv, Buffers, NEW p \in Pid, ScriptKept(p), ScriptStep(p) PROVE ScriptKept(p)'
<1>1. /\ script[p] \in ScriptState /\ job[p] \in Job /\ fed[p] \subseteq Conn
      /\ job[p].buffer + script[p].out = script[p].wrote
  BY DEF ScriptKept
<1>2. PipeSize \in Nat \ {0} BY SizeAssumption
<1>3. CASE Quiet(p) BY <1>1, <1>3 DEF Quiet, ScriptKept
<1>4. CASE ScriptMoves(p)
  <2>1. PICK s : s = script[p] OBVIOUS
  <2>2. s \in ScriptState BY <1>1, <2>1
  <2>3. s.out \in 0 .. PipeSize /\ s.out \in Nat /\ s.wrote \in Nat BY <1>2, <2>2 DEF ScriptState
  <2>4. /\ script'[p] \in ScriptState
        /\ \/ script'[p].out = s.out /\ script'[p].wrote = s.wrote
           \/ script'[p].out = s.out + 1 /\ script'[p].wrote = s.wrote + 1
    <3>1. CASE /\ s.out < PipeSize
               /\ script'[p] = [s EXCEPT !.out = s.out + 1, !.wrote = s.wrote + 1]
      <4>1. PICK a, b : a = s.out + 1 /\ b = s.wrote + 1 OBVIOUS
      <4>2. a \in 0 .. PipeSize /\ b \in Nat BY <1>2, <2>3, <3>1, <4>1
      <4>3. script'[p] = [s EXCEPT !.out = a, !.wrote = b] BY <3>1, <4>1, Zenon
      <4>4. PICK t : t = [s EXCEPT !.out = a, !.wrote = b] OBVIOUS
      <4>5. t \in ScriptState /\ t.out = a /\ t.wrote = b BY <2>2, <4>2, <4>4 DEF ScriptState
      <4> QED BY <4>1, <4>3, <4>4, <4>5
    <3>2. CASE \/ script'[p] = [s EXCEPT !.in = 0]
               \/ script'[p] = [s EXCEPT !.rd = FALSE, !.in = 0]
               \/ script'[p] = [s EXCEPT !.wr = FALSE]
      BY <2>2, <3>2, ScriptFields
    <3> QED BY <1>4, <2>1, <3>1, <3>2, Zenon DEF ScriptMoves
  <2>5. job'[p] = job[p] /\ fed'[p] = fed[p] /\ CGIMap' = CGIMap BY <1>4 DEF ScriptMoves
  <2>6. job[p].buffer \in Nat BY <1>1 DEF Job
  <2>7. job'[p].buffer + script'[p].out = script'[p].wrote
    BY <1>1, <2>1, <2>3, <2>4, <2>5, <2>6
  <2> QED BY <1>1, <2>4, <2>5, <2>7 DEF ScriptKept
<1>5. CASE Starts(p)
  <2>1. PICK fd \in Fd : /\ clientList[fd] \in Conn
                         /\ job'[p] = NewJob(Current(Received(clientList[fd])))
                         /\ Current(Received(clientList[fd])) \in DOMAIN Plan[clientList[fd]]
    BY <1>5 DEF Starts
  <2>2. Plan[clientList[fd]] \in Seq(Request) BY <2>1, PlanAssumption
  <2>3. Current(Received(clientList[fd])) \in Nat BY <2>1, <2>2
  <2>4. job'[p] \in Job /\ job'[p].buffer = 0 BY <2>1, <2>3 DEF Job, NewJob
  <2>5. script'[p] \in ScriptState /\ script'[p].out = 0 /\ script'[p].wrote = 0
    BY <1>2, <1>5 DEF Starts, ScriptState
  <2>6. fed'[p] = fed[p] BY <1>5 DEF Starts
  <2> QED BY <1>1, <2>4, <2>5, <2>6 DEF ScriptKept
<1>6. CASE OutputTaken(p)
  <2>1. /\ script'[p] \in ScriptState /\ script'[p].out = 0
        /\ script'[p].wrote = script[p].wrote
    BY <1>1, <1>2, <1>6 DEF OutputTaken, ScriptState
  <2>2. script[p].out \in Nat /\ script[p].wrote \in Nat BY <1>1, <1>2 DEF ScriptState
  <2>3. job'[p] \in Job /\ job'[p].buffer = job[p].buffer + script[p].out
    BY <1>1, <1>6, <2>2 DEF OutputTaken, Job
  <2>4. fed'[p] = fed[p] /\ p \in CGIMap BY <1>6 DEF OutputTaken
  <2>5. job[p].buffer \in Nat BY <1>1 DEF Job
  <2> QED BY <1>1, <2>1, <2>2, <2>3, <2>4, <2>5 DEF ScriptKept
<1>7. CASE InputGiven(p)
  <2> DEFINE size == BodySize(Owner(p))
             n == Smaller(size - job[p].sendPos, PipeSize - script[p].in)
  <2>1. size \in 0 .. 2
    <3>1. Owner(p) \in Conn BY <1>7 DEF InputGiven
    <3>2. client[Owner(p)].body \in {0} \cup DOMAIN Plan[Owner(p)]
      BY <3>1 DEF Buffers, ClientOf
    <3>3. client[Owner(p)].body # 0 => Plan[Owner(p)][client[Owner(p)].body].body \in 0 .. 2
      <4>1. client[Owner(p)].body # 0 => Plan[Owner(p)][client[Owner(p)].body] \in Request
        BY <3>1, <3>2, Sizes
      <4> QED BY <4>1 DEF Request
    <3> QED BY <3>2, <3>3 DEF BodySize
  <2>2. job[p].sendPos < size BY <1>7, Zenon DEF InputGiven
  <2>3. /\ script'[p] = [script[p] EXCEPT !.in = script[p].in + n]
        /\ job'[p] = [job[p] EXCEPT !.sendPos = job[p].sendPos + n]
        /\ fed'[p] = fed[p] \cup {Owner(p)} /\ Owner(p) \in Conn /\ p \in CGIMap
    BY <1>7, Zenon DEF InputGiven
  <2>4. job[p].sendPos \in 0 .. 2 /\ script[p].in \in 0 .. PipeSize
    BY <1>1 DEF Job, ScriptState
  <2>5. n \in Nat /\ n <= size - job[p].sendPos /\ n <= PipeSize - script[p].in
    <3> HIDE DEF size
    <3> QED BY <1>2, <2>1, <2>2, <2>4 DEF Smaller
  <2> HIDE DEF size, n
  <2>6. script[p].in + n \in 0 .. PipeSize /\ job[p].sendPos + n \in 0 .. 2
    BY <1>2, <2>1, <2>2, <2>4, <2>5
  <2>7. /\ script'[p] \in ScriptState /\ script'[p].out = script[p].out
        /\ script'[p].wrote = script[p].wrote
    BY <1>1, <2>3, <2>6 DEF ScriptState
  <2>8. job'[p] \in Job /\ job'[p].buffer = job[p].buffer BY <1>1, <2>3, <2>6 DEF Job
  <2> QED BY <1>1, <2>3, <2>7, <2>8 DEF ScriptKept
<1>8. CASE Dies(p)
  <2>1. /\ script'[p] \in ScriptState /\ script'[p].out = script[p].out
        /\ script'[p].wrote = script[p].wrote
    <3>1. script'[p] = [script[p] EXCEPT !.rd = FALSE, !.wr = FALSE, !.in = 0]
      BY <1>8, Zenon DEF Dies
    <3> QED BY <1>1, <3>1, ScriptFields
  <2>2. job'[p] = job[p] /\ fed'[p] = fed[p] /\ p \notin CGIMap' BY <1>8 DEF Dies
  <2> QED BY <1>1, <2>1, <2>2 DEF ScriptKept
<1> QED BY <1>3, <1>4, <1>5, <1>6, <1>7, <1>8 DEF ScriptStep

(* A context keeps the request it was made for.                            *)
LEMMA OwnedKept ==
  ASSUME Owned, \A p \in Pid : ScriptKept(p), Inv', \A p \in Pid : ScriptStep(p)
  PROVE  Owned'
<1> SUFFICES ASSUME NEW p \in CGIMap'
             PROVE  /\ ctx'[p].conn \in Conn /\ job'[p].req \in DOMAIN Plan[ctx'[p].conn]
                    /\ Plan[ctx'[p].conn][job'[p].req].cgi
  BY DEF Owned
<1>1. p \in Pid BY DEF Inv, TablesTyped
<1>2. CASE Starts(p)
  <2>1. PICK fd \in Fd : /\ clientList[fd] \in Conn /\ ctx'[p].conn = clientList[fd]
                         /\ job'[p] = NewJob(Current(Received(clientList[fd])))
                         /\ Current(Received(clientList[fd])) \in DOMAIN Plan[clientList[fd]]
                         /\ Plan[clientList[fd]][Current(Received(clientList[fd]))].cgi
    BY <1>2 DEF Starts
  <2>2. job'[p].req = Current(Received(clientList[fd])) BY <2>1 DEF NewJob
  <2> QED BY <2>1, <2>2, Zenon
<1>3. CASE ~Starts(p)
  <2>1. p \in CGIMap /\ ctx'[p] = ctx[p]
    BY <1>1, <1>3 DEF ScriptStep, Quiet, ScriptMoves, OutputTaken, InputGiven, Dies
  <2>2. job'[p].req = job[p].req
    <3>1. job[p] \in Job BY <1>1 DEF ScriptKept
    <3> QED BY <1>1, <1>3, <3>1
            DEF ScriptStep, Quiet, ScriptMoves, OutputTaken, InputGiven, Dies, Job
  <2> QED BY <2>1, <2>2 DEF Owned
<1> QED BY <1>2, <1>3

(* A client record is what the loop keeps of a connection.                 *)
LEMMA ClientsTyped == Domains /\ Buffers => client \in [Conn -> Client]
<1> SUFFICES ASSUME Domains, Buffers PROVE client \in [Conn -> Client] OBVIOUS
<1>1. \A k \in Conn : client[k] \in Client
  <2> TAKE k \in Conn
  <2>1. client[k] \in ClientOf(k) BY DEF Buffers
  <2>2. Units(k) \subseteq Unit /\ DOMAIN Plan[k] \subseteq Nat
    <3>1. Plan[k] \in Seq(Request) BY PlanAssumption
    <3> QED BY <3>1, UnitsTyped
  <2>3. client[k].inBuff \in Seq(Unit)
    <3>1. client[k].inBuff \in Seq(Units(k)) BY <2>1 DEF ClientOf
    <3> QED BY <2>2, <3>1
  <2> QED BY <2>1, <2>2, <2>3 DEF ClientOf, Client
<1>2. client = [k \in Conn |-> client[k]] BY DEF Domains
<1> QED BY <1>1, <1>2

(* The invariant holds at first.                                           *)
LEMMA InitContent == Init => ContentInv
<1> SUFFICES ASSUME Init PROVE ContentInv OBVIOUS
<1>1. Domains BY DEF Init, Domains
<1>2. ASSUME NEW k \in Conn
      PROVE  client[k] \in ClientOf(k) /\ NetKept(k, net[k]) /\ wire[k] \in Seq(OutUnit)
  <2>1. Stream[k] \in Seq(Units(k)) BY UnitsTyped
  <2>2. Len(Stream[k]) >= 0 BY <2>1
  <2>3. net[k] = [st |-> "idle", sent |-> 0, read |-> 0, fin |-> FALSE, rst |-> FALSE]
    BY DEF Init
  <2>4. NetKept(k, net[k]) BY <2>2, <2>3 DEF NetKept, NetState
  <2>5. client[k] = NewClient /\ wire[k] = << >> BY DEF Init
  <2> QED BY <2>4, <2>5, NewClientTyped
<1>3. Seated BY ConnAssumption DEF Init, Seated
<1>4. ASSUME NEW p \in Pid PROVE ScriptKept(p)
  <2>1. /\ script[p] = [st |-> "none", rd |-> FALSE, wr |-> FALSE, in |-> 0, out |-> 0, wrote |-> 0]
        /\ job[p] = NewJob(0) /\ fed[p] = {} /\ CGIMap = {}
    BY DEF Init
  <2> QED BY <2>1, SizeAssumption DEF ScriptKept, ScriptState, Job, NewJob
<1>5. Owned BY DEF Init, Owned
<1> QED BY <1>1, <1>2, <1>3, <1>4, <1>5 DEF ContentInv, Buffers, Wires

(* Every step keeps the invariant.                                         *)
LEMMA StepContent == Inv /\ ContentInv /\ [Next]_vars => ContentInv'
<1> SUFFICES ASSUME Inv, ContentInv, [Next]_vars PROVE ContentInv' OBVIOUS
<1>1. Inv' BY StepInv
<1>2. Domains' BY DomainsKept DEF ContentInv
<1>3. CASE UNCHANGED vars
  <2>1. UNCHANGED <<net, client, wire, script, job, fed, ctx, CGIMap, clientList>>
    BY <1>3 DEF vars, outside, tables
  <2>2. Seated' /\ Owned' /\ Buffers' /\ Wires'
    BY <2>1 DEF ContentInv, Seated, Owned, Buffers, Wires
  <2>3. \A p \in Pid : ScriptKept(p)' BY <2>1 DEF ContentInv, ScriptKept
  <2> QED BY <1>2, <2>2, <2>3 DEF ContentInv
<1>4. CASE Next
  <2>1. client \in [Conn -> Client] BY ClientsTyped DEF ContentInv
  <2>2. \A k \in Conn : ConnStep(k) BY <1>4, <2>1, ConnSteps DEF ContentInv
  <2>3. \A p \in Pid : ScriptStep(p) BY <1>4, ScriptSteps DEF ContentInv
  <2>4. Seated' BY <2>2, SeatsKept DEF ContentInv
  <2>5. Owned' BY <1>1, <2>3, OwnedKept DEF ContentInv
  <2>6. Buffers' /\ Wires' BY <2>2, ConnKept DEF ContentInv, Buffers, Wires
  <2>7. \A p \in Pid : ScriptKept(p)' BY <2>3, ScriptStaysKept DEF ContentInv
  <2> QED BY <1>2, <2>4, <2>5, <2>6, <2>7 DEF ContentInv
<1> QED BY <1>3, <1>4

(* The two inductive invariants give the type invariant of the module.     *)
LEMMA ContentIsTyped == Inv /\ ContentInv => TypeOK
<1> SUFFICES ASSUME Inv, ContentInv PROVE TypeOK OBVIOUS
<1>1. client \in [Conn -> Client] BY ClientsTyped DEF ContentInv
<1>2. ASSUME NEW k \in Conn
      PROVE  /\ net[k].read <= net[k].sent /\ net[k].sent <= Len(Stream[k])
             /\ net[k].st \in {"idle", "backlog", "open", "closed"}
             /\ wire[k] \in Seq(OutUnit)
  BY DEF ContentInv, Buffers, Wires, NetKept, NetState
<1>3. ASSUME NEW p \in Pid
      PROVE  /\ script[p].in \in 0 .. PipeSize /\ script[p].out \in 0 .. PipeSize
             /\ job[p].buffer + script[p].out = script[p].wrote
             /\ job[p].sendPos \in 0 .. 2
  <2>1. ScriptKept(p) BY DEF ContentInv
  <2> QED BY <2>1 DEF ScriptKept, ScriptState, Job
<1>4. ContentTyped BY <1>1, <1>2, <1>3 DEF ContentTyped
<1> QED BY <1>4 DEF TypeOK, Inv

(* Everything the server, the kernel, the peers and the scripts hold is    *)
(* what it is made for: no pipe holds more than it can, nothing is read    *)
(* past what arrived, and what a script wrote is in its pipe or buffered,  *)
(* neither lost nor taken twice.                                           *)
THEOREM ContentCorrect == Spec => []TypeOK
<1>1. Init => Inv /\ ContentInv BY InitInv, InitContent
<1>2. Inv /\ ContentInv /\ [Next]_vars => Inv' /\ ContentInv' BY StepInv, StepContent
<1> QED BY <1>1, <1>2, ContentIsTyped, PTL DEF Spec

-----------------------------------------------------------------------------
(* The two inductive invariants of the event loop together.                *)
Sound == Inv /\ ContentInv

(* They hold at the start,                                                 *)
LEMMA InitSound == Init => Sound
BY InitInv, InitContent DEF Sound

(* and every step keeps them.                                              *)
LEMMA StepSound == Sound /\ [Next]_vars => Sound'
BY StepInv, StepContent DEF Sound

(* What a step does to each connection and each script.                    *)
LEMMA StepEffects ==
  ASSUME Sound, Next
  PROVE  /\ \A k \in Conn : ConnStep(k)
         /\ \A p \in Pid : ScriptStep(p)
<1>1. client \in [Conn -> Client] BY ClientsTyped DEF Sound, ContentInv
<1> QED BY <1>1, ConnSteps, ScriptSteps DEF Sound, ContentInv

-----------------------------------------------------------------------------
(* The answer of a script is whole.                                        *)

(* A reader of a script waits only if there is output or its end to read.  *)
ReadersHaveOutput ==
  \A fd \in readyReaders :
    CGIbyRead[fd] # NoPid => script[CGIbyRead[fd]].out > 0 \/ ~script[CGIbyRead[fd]].wr

(* poll() reports output only of such scripts,                             *)
LEMMA PollFindsOutput ==
  ASSUME Inv, Poll PROVE ReadersHaveOutput'
<1> SUFFICES ASSUME NEW fd \in Readers, CGIbyRead[fd] # NoPid
             PROVE  script[CGIbyRead[fd]].out > 0 \/ ~script[CGIbyRead[fd]].wr
  BY DEF Poll, ReadersHaveOutput, outside, tables
<1> DEFINE p == CGIbyRead[fd]
<1>1. fd \in Fd BY DEF Readers, Ready, Registered
<1>2. fdTable[fd] = Stdout(p) BY <1>1, OneRole DEF Inv, TablesAgree
<1>3. fdTable[fd] # LSocket /\ fdTable[fd][1] = "stdout" /\ fdTable[fd][2] = p
  BY <1>2 DEF Stdout, LSocket
<1>4. Available(fd) = (IF script[p].out > 0 THEN {"in"} ELSE {})
                      \cup (IF script[p].wr THEN {} ELSE {"hup"})
  BY <1>3 DEF Available
<1>5. Available(fd) # {} BY DEF Readers, Revents
<1> QED BY <1>4, <1>5

(* and what is reported stays true until the pass is over.                 *)
LEMMA ReadersStepsKeep ==
  ASSUME Sound, ReadersHaveOutput, Next PROVE ReadersHaveOutput'
<1>1. CASE Poll BY <1>1, PollFindsOutput DEF Sound
<1>2. CASE Sweep
  <2>1. readyReaders' = {} BY <1>2, SweepEndsPass DEF Sound, Waiting
  <2> QED BY <2>1 DEF ReadersHaveOutput
<1>3. CASE Safe
  <2> SUFFICES ASSUME NEW fd \in readyReaders', CGIbyRead'[fd] # NoPid
               PROVE  script'[CGIbyRead'[fd]].out > 0 \/ ~script'[CGIbyRead'[fd]].wr
    BY DEF ReadersHaveOutput
  <2> DEFINE p == CGIbyRead'[fd]
  <2>1. Inv' BY StepInv DEF Sound
  <2>2. fd \in readyReaders /\ fd \in Fd /\ fdTable'[fd] = fdTable[fd]
    BY <1>3 DEF Safe, Served, Steady, Waiting, Sound, Inv, TablesTyped
  <2>3. p \in Pid /\ p \in CGIMap'
    BY <2>1, <2>2 DEF Inv, TablesTyped, TablesAgree, IteratorsValid
  <2>4. fdTable'[fd] = Stdout(p) BY <2>1, <2>2, <2>3 DEF Inv, TablesAgree, RolesAgree
  <2>5. CGIbyRead[fd] = p
    <3>1. fdTable[fd] = Stdout(p) BY <2>2, <2>4
    <3> HIDE DEF p
    <3>2. \A s \in Pid : CGIbyRead[fd] = s <=> fdTable[fd] = Stdout(s)
      BY <2>2 DEF Sound, Inv, TablesAgree, RolesAgree
    <3> QED BY <2>3, <3>1, <3>2
  <2>6. p \in CGIMap /\ ctx[p].fdRead = fd
    BY <2>2, <2>3, <2>5, PidAssumption DEF Sound, Inv, TablesAgree, IteratorsValid
  <2>7. script[p].out > 0 \/ ~script[p].wr
    BY <2>2, <2>3, <2>5, PidAssumption DEF ReadersHaveOutput
  <2>8. script[p] \in ScriptState BY <2>3 DEF Sound, ContentInv, ScriptKept
  <2> HIDE DEF p
  <2>9. PICK s : s = script[p] OBVIOUS
  <2>10. s \in ScriptState /\ s.out \in Nat /\ (s.out > 0 \/ ~s.wr)
    BY <2>7, <2>8, <2>9, SizeAssumption DEF ScriptState
  <2>11. CASE Quiet(p) BY <2>7, <2>11 DEF Quiet, p
  <2>12. CASE ScriptMoves(p)
    <3>1. \/ script'[p] = [s EXCEPT !.in = 0]
          \/ script'[p] = [s EXCEPT !.out = s.out + 1, !.wrote = s.wrote + 1]
          \/ script'[p] = [s EXCEPT !.rd = FALSE, !.in = 0]
          \/ script'[p] = [s EXCEPT !.wr = FALSE]
      BY <2>9, <2>12, Zenon DEF ScriptMoves
    <3>2. CASE script'[p] = [s EXCEPT !.in = 0]
      <4>1. script'[p].out = s.out /\ script'[p].wr = s.wr BY <2>10, <3>2 DEF ScriptState
      <4> QED BY <2>10, <4>1 DEF p
    <3>3. CASE script'[p] = [s EXCEPT !.out = s.out + 1, !.wrote = s.wrote + 1]
      <4>1. script'[p].out = s.out + 1 BY <2>10, <3>3 DEF ScriptState
      <4> QED BY <2>10, <4>1 DEF p
    <3>4. CASE script'[p] = [s EXCEPT !.rd = FALSE, !.in = 0]
      <4>1. script'[p].out = s.out /\ script'[p].wr = s.wr BY <2>10, <3>4 DEF ScriptState
      <4> QED BY <2>10, <4>1 DEF p
    <3>5. CASE script'[p] = [s EXCEPT !.wr = FALSE]
      <4>1. script'[p].wr = FALSE BY <2>10, <3>5 DEF ScriptState
      <4> QED BY <4>1 DEF p
    <3> QED BY <3>1, <3>2, <3>3, <3>4, <3>5
  <2>13. CASE Starts(p) BY <2>6, <2>13 DEF Starts
  <2>14. CASE OutputTaken(p)
    <3>1. PICK g \in Fd : CGIbyRead[g] = p /\ g \notin readyReaders'
      BY <2>14 DEF OutputTaken
    <3>2. ctx[p].fdRead = g
      BY <2>3, <3>1, PidAssumption DEF Sound, Inv, TablesAgree, IteratorsValid
    <3> QED BY <2>6, <3>1, <3>2
  <2>15. CASE InputGiven(p)
    <3>1. \E n : script'[p] = [s EXCEPT !.in = n] BY <2>9, <2>15, Zenon DEF InputGiven
    <3>2. script'[p].out = s.out /\ script'[p].wr = s.wr BY <2>10, <3>1 DEF ScriptState
    <3> QED BY <2>10, <3>2 DEF p
  <2>16. CASE Dies(p) BY <2>3, <2>16 DEF Dies, p
  <2>17. ScriptStep(p) BY <2>3, StepEffects DEF p
  <2> QED BY <2>11, <2>12, <2>13, <2>14, <2>15, <2>16, <2>17 DEF ScriptStep
<1> QED BY <1>1, <1>2, <1>3, StepCases DEF Sound

(* What arrives may have the request answered, but not from a script.      *)
LEMMA HearingStatus ==
  ASSUME NEW k \in Conn, client[k] \in ClientOf(k), NetKept(k, net[k]), Hearing(k)
  PROVE  client'[k].status \in {client[k].status, "200", "400"}
<1> DEFINE c == Received(k)
           app == [client[k] EXCEPT !.inBuff = client[k].inBuff \o Unread(k)]
<1>1. app \in ClientOf(k) /\ c \in ClientOf(k) BY ReceivedTyped
<1>2. app.status = client[k].status BY DEF ClientOf
<1>3. c = MarkHeaders(k, app) BY DEF Received
<1>4. c.status = client[k].status
  <2> HIDE DEF app, c
  <2>1. c = app \/ \E x, y : c = [app EXCEPT !.parsePos = x, !.need = y]
    BY <1>3, Zenon DEF MarkHeaders
  <2> QED BY <1>1, <1>2, <2>1 DEF ClientOf
<1>5. Parsed(k).status = client[k].status
  <2> HIDE DEF app, c
  <2>1. \E x, y : Parsed(k) = [c EXCEPT !.consumed = x, !.body = y] BY Zenon DEF Parsed, c
  <2> QED BY <1>1, <1>4, <2>1 DEF ClientOf
<1>6. Whole(c) => Parsed(k) \in ClientOf(k) BY ParsedTyped
<1> DEFINE i == Current(c)
<1>7. \/ client'[k] = app \/ client'[k] = c \/ client'[k] = Parsed(k)
      \/ Whole(c) /\ client'[k] = Queue(Parsed(k), i, "200")
      \/ Whole(c) /\ client'[k] = [Queue(Parsed(k), i, "400") EXCEPT !.closeFlag = TRUE]
  BY Zenon DEF Hearing
<1> HIDE DEF app, c, i
<1>9. PICK d : d = Parsed(k) OBVIOUS
<1>10. CASE Whole(c) /\ client'[k] = Queue(Parsed(k), i, "200")
  <2>1. d \in ClientOf(k) /\ client'[k] = Queue(d, i, "200") BY <1>6, <1>9, <1>10
  <2> QED BY <2>1 DEF Queue, ClientOf
<1>11. CASE Whole(c) /\ client'[k] = [Queue(Parsed(k), i, "400") EXCEPT !.closeFlag = TRUE]
  <2>1. d \in ClientOf(k) /\ client'[k] = [Queue(d, i, "400") EXCEPT !.closeFlag = TRUE]
    BY <1>6, <1>9, <1>11
  <2> QED BY <2>1 DEF Queue, ClientOf
<1> QED BY <1>2, <1>4, <1>5, <1>7, <1>10, <1>11

(* Only the end of a script's output makes an answer of its output.        *)
LEMMA OnlyInformedHasOutput ==
  ASSUME NEW k \in Conn, client[k] \in ClientOf(k), NetKept(k, net[k]), ConnStep(k),
         client[k].status # "cgi", client'[k].status = "cgi"
  PROVE  Informed(k)
<1>1. NewClient.status = "none" BY DEF NewClient
<1>2. ~Rests(k) /\ ~PeerMoves(k) BY DEF Rests, PeerMoves
<1>3. ~Enters(k) /\ ~Leaves(k) BY <1>1 DEF Enters, Leaves
<1>4. ~Gets(k) BY HearingStatus DEF Gets
<1>5. ~Ships(k)
  <2>1. ResetKeepAlive(client[k]).status = "none"
    BY NewClientTyped DEF ResetKeepAlive, NewClient
  <2>2. \A s : [client[k] EXCEPT !.outBuff = s].status = client[k].status BY DEF ClientOf
  <2> QED BY <2>1, <2>2, Zenon DEF Ships
<1>6. ~Expires(k)
  <2>1. \A i : [Queue(client[k], i, "504") EXCEPT !.closeFlag = TRUE].status = "504"
    BY DEF Queue, ClientOf
  <2> QED BY <2>1, Zenon DEF Expires
<1> QED BY <1>2, <1>3, <1>4, <1>5, <1>6 DEF ConnStep

(* An answer made from a script has all the script wrote: it is queued     *)
(* only after the script closed its output and the pipe was read empty,    *)
(* and for the client the script was started for.                          *)
THEOREM ScriptAnswersAreWhole == Spec => AnswerHasWholeOutput
<1>1. Init => Sound /\ ReadersHaveOutput
  BY InitSound DEF Init, ReadersHaveOutput
<1>2. Sound /\ ReadersHaveOutput /\ [Next]_vars => Sound' /\ ReadersHaveOutput'
  <2>1. ReadersHaveOutput /\ UNCHANGED vars => ReadersHaveOutput'
    BY DEF ReadersHaveOutput, vars, ready, tables, outside
  <2> QED BY <2>1, StepSound, ReadersStepsKeep
<1>3. Sound /\ ReadersHaveOutput /\ [Next]_vars =>
        [\A k \in Conn :
           (client[k].status # "cgi" /\ client'[k].status = "cgi") =>
             \E p \in Pid : /\ ctx[p].conn = k /\ job[p].req = client'[k].outBuff[1][1]
                            /\ ~script[p].wr /\ job[p].buffer = script[p].wrote]_vars
  <2> SUFFICES ASSUME Sound, ReadersHaveOutput, Next, NEW k \in Conn,
                      client[k].status # "cgi", client'[k].status = "cgi"
               PROVE  \E p \in Pid : /\ ctx[p].conn = k
                                     /\ job[p].req = client'[k].outBuff[1][1]
                                     /\ ~script[p].wr /\ job[p].buffer = script[p].wrote
    OBVIOUS
  <2>1. client[k] \in ClientOf(k) /\ NetKept(k, net[k]) BY DEF Sound, ContentInv, Buffers
  <2>2. Informed(k) BY <2>1, StepEffects, OnlyInformedHasOutput
  <2>3. PICK fd \in readyReaders :
          /\ CGIbyRead[fd] \in CGIMap /\ ctx[CGIbyRead[fd]].conn = k
          /\ script[CGIbyRead[fd]].out = 0
          /\ client'[k] = Queue(client[k], job[CGIbyRead[fd]].req, FinalStatus(k))
    BY <2>2 DEF Informed
  <2>4. PICK p : p = CGIbyRead[fd] OBVIOUS
  <2>5. p \in Pid /\ p # NoPid BY <2>3, <2>4, PidAssumption DEF Sound, Inv, TablesTyped
  <2>6. ~script[p].wr BY <2>3, <2>4, <2>5 DEF ReadersHaveOutput
  <2>7. job[p].buffer + script[p].out = script[p].wrote /\ job[p] \in Job
    BY <2>5 DEF Sound, ContentInv, ScriptKept
  <2>8. job[p].buffer = script[p].wrote
    <3>1. job[p].buffer \in Nat BY <2>7 DEF Job
    <3> QED BY <2>3, <2>4, <2>7, <3>1
  <2>9. client'[k].outBuff = Answer(job[p].req, FinalStatus(k))
    BY <2>1, <2>3, <2>4 DEF Queue, ClientOf
  <2>10. client'[k].outBuff[1][1] = job[p].req BY <2>9 DEF Answer
  <2> QED BY <2>3, <2>4, <2>5, <2>6, <2>8, <2>10
<1> QED BY <1>1, <1>2, <1>3, PTL DEF Spec, AnswerHasWholeOutput

-----------------------------------------------------------------------------
(* The client of a context, and whose body a script is given.              *)

(* As long as its client has not left, a context leads to it.              *)
ClientStays ==
  \A p \in CGIMap :
    LET k == ctx[p].conn IN
    net[k].st = "closed" \/ (net[k].st = "open" /\ clientList[ctx[p].clientFd] = k)

(* A script nobody started was given nothing, a started one only the body  *)
(* of its own client, as long as that has not left.                        *)
FedRightly ==
  \A p \in Pid : /\ script[p].st = "none" => fed[p] = {}
                 /\ ClientLeft(p) \/ fed[p] \subseteq {ctx[p].conn}

(* A closed connection stays closed; an open one keeps its descriptor.     *)
LEMMA OpenOrClosed ==
  ASSUME Sound, NEW k \in Conn, ConnStep(k)
  PROVE  /\ net[k].st = "closed" => net'[k].st = "closed"
         /\ net[k].st = "open" => net'[k].st = "closed" \/ (net'[k].st = "open" /\ Stays(k))
<1>1. net[k] \in NetState BY DEF Sound, ContentInv, Buffers, NetKept
<1>2. CASE Rests(k) \/ Ships(k) \/ Informed(k) \/ Expires(k)
  <2>1. net'[k] = net[k] /\ Stays(k) BY <1>2, Zenon DEF Rests, Ships, Informed, Expires
  <2> QED BY <2>1
<1>3. CASE PeerMoves(k)
  <2>1. Stays(k) /\ (net'[k].st = net[k].st \/ net[k].st = "idle")
    BY <1>1, <1>3 DEF PeerMoves, NetState
  <2> QED BY <2>1
<1>4. CASE Enters(k) BY <1>4 DEF Enters
<1>5. CASE Leaves(k)
  <2>1. net[k].st = "open" /\ net'[k].st = "closed" BY <1>1, <1>5 DEF Leaves, NetState
  <2> QED BY <2>1
<1>6. CASE Gets(k)
  <2>1. net'[k].st = net[k].st /\ Stays(k) BY <1>1, <1>6 DEF Gets, NetState
  <2> QED BY <2>1
<1> QED BY <1>2, <1>3, <1>4, <1>5, <1>6 DEF ConnStep

(* Of the steps of a script only its start changes whose it is.            *)
LEMMA OwnerKept ==
  ASSUME NEW p \in Pid, ScriptStep(p), ~Starts(p)
  PROVE  ctx'[p] = ctx[p] /\ (p \in CGIMap' => p \in CGIMap)
BY DEF ScriptStep, Quiet, ScriptMoves, OutputTaken, InputGiven, Dies

(* Only a close breaks the way from a context to its client.               *)
LEMMA ClientStaysKept ==
  ASSUME Sound, ClientStays, Next PROVE ClientStays'
<1>1. Sound' BY StepSound
<1> SUFFICES ASSUME NEW p \in CGIMap'
             PROVE  LET k == ctx'[p].conn IN
                    \/ net'[k].st = "closed"
                    \/ net'[k].st = "open" /\ clientList'[ctx'[p].clientFd] = k
  BY DEF ClientStays
<1>2. p \in Pid BY <1>1 DEF Sound, Inv, TablesTyped
<1>3. ScriptStep(p) BY <1>2, StepEffects
<1>4. CASE Starts(p)
  <2>1. PICK fd \in Fd : /\ clientList[fd] \in Conn /\ clientList' = clientList
                         /\ ctx'[p].clientFd = fd /\ ctx'[p].conn = clientList[fd]
    BY <1>4 DEF Starts
  <2>2. net'[clientList[fd]].st = "open"
    BY <1>1, <2>1 DEF Sound, ContentInv, Seated
  <2> QED BY <2>1, <2>2
<1>5. CASE ~Starts(p)
  <2>1. ctx'[p] = ctx[p] /\ p \in CGIMap BY <1>2, <1>3, <1>5, OwnerKept
  <2>2. PICK k \in Conn : k = ctx[p].conn BY <2>1 DEF Sound, ContentInv, Owned
  <2>3. net[k].st = "closed" \/ (net[k].st = "open" /\ clientList[ctx[p].clientFd] = k)
    BY <2>1, <2>2 DEF ClientStays
  <2>4. ctx[p].clientFd \in Fd BY <1>2 DEF Sound, Inv, TablesTyped, Context
  <2>5. /\ net[k].st = "closed" => net'[k].st = "closed"
        /\ net[k].st = "open" => net'[k].st = "closed" \/ (net'[k].st = "open" /\ Stays(k))
    BY StepEffects, OpenOrClosed
  <2> QED BY <2>1, <2>2, <2>3, <2>4, <2>5 DEF Stays
<1> QED BY <1>4, <1>5

(* The body of another client reaches a script only after its own has      *)
(* left.                                                                   *)
LEMMA FedKept ==
  ASSUME Sound, ClientStays, FedRightly, Next PROVE FedRightly'
<1> SUFFICES ASSUME NEW p \in Pid
             PROVE  /\ script'[p].st = "none" => fed'[p] = {}
                    /\ ClientLeft(p)' \/ fed'[p] \subseteq {ctx'[p].conn}
  BY DEF FedRightly
<1>2. ScriptStep(p) BY StepEffects
<1>3. /\ script[p].st = "none" => fed[p] = {}
      /\ ClientLeft(p) \/ fed[p] \subseteq {ctx[p].conn}
  BY DEF FedRightly
<1>4. script[p] \in ScriptState BY DEF Sound, ContentInv, ScriptKept
<1>5. CASE Starts(p)
  <2>1. fed'[p] = {} /\ script'[p].st = "run" BY <1>3, <1>5 DEF Starts
  <2> QED BY <2>1
<1>6. ctx'[p] = ctx[p] /\ ClientLeft(p) => ClientLeft(p)'
  BY StepEffects, OpenOrClosed DEF ClientLeft
<1>7. CASE InputGiven(p)
  <2>1. /\ ctx'[p] = ctx[p] /\ p \in CGIMap /\ fed'[p] = fed[p] \cup {Owner(p)}
        /\ \E n : script'[p] = [script[p] EXCEPT !.in = n]
    BY <1>7, Zenon DEF InputGiven
  <2>2. script'[p].st # "none"
    <3>1. script[p].st # "none" BY <2>1 DEF Sound, Inv, ScriptsStarted
    <3> QED BY <1>4, <2>1, <3>1 DEF ScriptState
  <2>3. PICK k \in Conn : k = ctx[p].conn BY <2>1 DEF Sound, ContentInv, Owned
  <2>4. ClientLeft(p) \/ Owner(p) = k BY <2>1, <2>3 DEF ClientStays, ClientLeft, Owner
  <2> QED BY <1>3, <1>6, <2>1, <2>2, <2>3, <2>4
<1>8. CASE ~Starts(p) /\ ~InputGiven(p)
  <2>1. ctx'[p] = ctx[p] /\ fed'[p] = fed[p] /\ script'[p].st = script[p].st
    <3>1. CASE Quiet(p) BY <3>1 DEF Quiet
    <3>2. CASE ScriptMoves(p) \/ OutputTaken(p) \/ Dies(p)
      <4>1. ctx'[p] = ctx[p] /\ fed'[p] = fed[p]
        BY <3>2, Zenon DEF ScriptMoves, OutputTaken, Dies
      <4>2. script'[p].st = script[p].st
        BY <1>4, <3>2 DEF ScriptMoves, OutputTaken, Dies, ScriptState
      <4> QED BY <4>1, <4>2
    <3> QED BY <1>2, <1>8, <3>1, <3>2 DEF ScriptStep
  <2> QED BY <1>3, <1>6, <2>1
<1> QED BY <1>5, <1>7, <1>8

(* Both at the start, and after every step.                                *)
LEMMA InitClients == Init => Sound /\ ClientStays /\ FedRightly
BY InitSound DEF Init, ClientStays, FedRightly

(* Every step keeps both, and the inductive invariants.                    *)
LEMMA StepClients ==
  ASSUME Sound, ClientStays, FedRightly, [Next]_vars
  PROVE  Sound' /\ ClientStays' /\ FedRightly'
<1>1. CASE UNCHANGED vars
  BY <1>1, StepSound DEF ClientStays, FedRightly, ClientLeft, vars, outside, tables
<1> QED BY <1>1, StepSound, ClientStaysKept, FedKept

(* A script is given no body but that of the request it was started for,   *)
(* however many scripts and clients there are and whoever else leaves, as  *)
(* long as its own client has not: its descriptor may then be another's.   *)
THEOREM BodiesStayIsolated == Spec => []IsolatedBody
<1>1. FedRightly => IsolatedBody BY DEF FedRightly, IsolatedBody
<1> QED BY <1>1, InitClients, StepClients, PTL DEF Spec

-----------------------------------------------------------------------------
(* What ends the process.                                                  *)

(* The steps that end it.                                                  *)
Fatal ==
  \/ SweepIntoDangling
  \/ \E fd \in Fd : \/ ForkFails(fd) \/ AnswerIntoDangling(fd) \/ FeedForNobody(fd)
                    \/ FeedDeafScript(fd) \/ (SendFails(fd) /\ Abort)

(* A step is taken by a living process, which no other step ends, and only *)
(* the start of a script gives a descriptor for its input.                 *)
LEMMA LifeAndInputs ==
  ASSUME Next
  PROVE  /\ up
         /\ \/ Fatal
            \/ up' /\ CGIbyWrite' = CGIbyWrite
            \/ up' /\ \E fd \in Fd, p \in Pid : StartCGI(fd, p)
            \/ up' /\ (Sweep \/ \E fd \in Fd : EndInput(fd))
<1>1. CASE Clock
  BY <1>1 DEF Clock, ClientDeadline, ScriptDeadline, server, tables
<1>2. CASE Peers
  BY <1>2 DEF Peers, Connect, PeerSend, PeerShut, PeerReset, Talking, server, tables
<1>3. CASE Scripts
  BY <1>3 DEF Scripts, ScriptReads, ScriptWrites, ScriptClosesInput, ScriptClosesOutput,
              server, tables
<1>4. CASE Poll \/ AcceptEnds
  BY <1>4 DEF Poll, AcceptEnds, InListeners, tables
<1>5. CASE \E k \in Conn : Accept(k)
  <2>1. up /\ UNCHANGED <<up, CGIbyWrite>> BY <1>5, Zenon DEF Accept, InListeners
  <2> QED BY <2>1
<1>6. CASE SweepIntoDangling BY <1>6 DEF SweepIntoDangling, Fatal
<1>7. CASE Sweep
  <2>1. up /\ UNCHANGED up BY <1>7, Zenon DEF Sweep, SweepExpiredClients, SweepEffect
  <2> QED BY <1>7, <2>1
<1>8. ASSUME NEW fd \in Fd, CloseClient(fd), up PROVE up' /\ CGIbyWrite' = CGIbyWrite
  BY <1>8, Zenon DEF CloseClient
<1>9. ASSUME NEW fd \in Fd, ServeError(fd) PROVE up /\ up' /\ CGIbyWrite' = CGIbyWrite
  <2>1. up /\ CloseClient(fd) BY <1>9, Zenon DEF ServeError, CloseBroken, InErrors
  <2> QED BY <1>8, <2>1
<1>10. ASSUME NEW fd \in Fd, ServeReader(fd)
       PROVE  up /\ (Fatal \/ (up' /\ (CGIbyWrite' = CGIbyWrite
                                        \/ \E p \in Pid : StartCGI(fd, p))))
  <2>1. CASE ReadError(fd) \/ ReadEof(fd) \/ ReadOutput(fd)
    <3>1. InReaders(fd) /\ UNCHANGED <<up, CGIbyWrite>>
      BY <2>1, Zenon DEF ReadError, ReadEof, ReadOutput, CGIReaderReady, tables
    <3> QED BY <3>1, Zenon DEF InReaders
  <2>2. CASE ReadKeeps(fd)
    BY <2>2, Zenon DEF ReadKeeps, GotBytes, InReaders
  <2>3. CASE ReadAndAnswer(fd)
    BY <2>3, Zenon DEF ReadAndAnswer, GotRequest, GotBytes, InReaders
  <2>4. CASE PipeFails(fd)
    BY <2>4, Zenon DEF PipeFails, GotCGIRequest, GotRequest, GotBytes, InReaders
  <2>5. CASE ForkFails(fd)
    BY <2>5, Zenon DEF ForkFails, GotCGIRequest, GotRequest, GotBytes, InReaders, Fatal
  <2>6. CASE AnswerIntoDangling(fd)
    BY <2>6, Zenon DEF AnswerIntoDangling, OutputEnds, CGIReaderReady, InReaders, Fatal
  <2>7. CASE AnswerFromScript(fd)
    BY <2>7, Zenon DEF AnswerFromScript, OutputEnds, CGIReaderReady, InReaders, CloseCGIRead
  <2>8. ASSUME NEW p \in Pid, StartCGI(fd, p) PROVE up /\ up'
    BY <2>8, Zenon DEF StartCGI, GotCGIRequest, GotRequest, GotBytes, InReaders
  <2> QED BY <1>10, <2>1, <2>2, <2>3, <2>4, <2>5, <2>6, <2>7, <2>8, Zenon DEF ServeReader
<1>11. ASSUME NEW fd \in Fd, ServeWriter(fd)
       PROVE  up /\ (Fatal \/ (up' /\ (CGIbyWrite' = CGIbyWrite \/ EndInput(fd))))
  <2>1. ASSUME NEW n \in 0 .. 2,
               SendPart(fd, n) \/ SendLastAndKeep(fd, n) \/ SendLastAndClose(fd, n)
        PROVE  up /\ up' /\ CGIbyWrite' = CGIbyWrite
    <3>1. up /\ (UNCHANGED <<up, CGIbyWrite>> \/ CloseClient(fd))
      BY <2>1, Zenon DEF SendPart, SendLastAndKeep, SendLastAndClose, Sends,
                         ClientWriterReady, InWriters, tables
    <3> QED BY <1>8, <3>1
  <2>2. CASE SendFails(fd)
    <3>1. up /\ (Abort \/ CloseClient(fd))
      BY <2>2, Zenon DEF SendFails, ClientWriterReady, InWriters
    <3> QED BY <1>8, <2>2, <3>1 DEF Fatal
  <2>3. CASE FeedScript(fd)
    BY <2>3, Zenon DEF FeedScript, CGIWriterReady, InWriters
  <2>4. CASE EndInput(fd)
    BY <2>4, Zenon DEF EndInput, CGIWriterReady, InWriters
  <2>5. CASE FeedForNobody(fd) \/ FeedDeafScript(fd)
    BY <2>5, Zenon DEF FeedForNobody, FeedDeafScript, CGIWriterReady, InWriters, Fatal
  <2> QED BY <1>11, <2>1, <2>2, <2>3, <2>4, <2>5, Zenon DEF ServeWriter
<1> QED BY <1>1, <1>2, <1>3, <1>4, <1>5, <1>6, <1>7, <1>9, <1>10, <1>11, Zenon
        DEF Next, Serve, ServeListener

(* Peers do only what they may.                                            *)
PeersKeep ==
  \A k \in Conn : (net[k].fin => k \in MayShut) /\ (net[k].rst => k \in MayReset)

(* No request is for a script.                                             *)
Static == \A k \in Conn : \A i \in DOMAIN Plan[k] : ~Plan[k][i].cgi

(* A script reads its input as long as the server holds the other end.     *)
NoneDeaf == \A fd \in Fd : CGIbyWrite[fd] # NoPid => script[CGIbyWrite[fd]].rd

(* Setting another field of a connection's record leaves these two.        *)
LEMMA EndsOfNet ==
  ASSUME NEW n \in NetState
  PROVE  /\ \A s : [n EXCEPT !.st = s].fin = n.fin /\ [n EXCEPT !.st = s].rst = n.rst
         /\ \A s : [n EXCEPT !.sent = s].fin = n.fin /\ [n EXCEPT !.sent = s].rst = n.rst
         /\ \A s : [n EXCEPT !.read = s].fin = n.fin /\ [n EXCEPT !.read = s].rst = n.rst
         /\ [n EXCEPT !.fin = TRUE].rst = n.rst /\ [n EXCEPT !.rst = TRUE].fin = n.fin
BY DEF NetState

(* Only a peer ends its side of a connection.                              *)
LEMMA PeersKept ==
  ASSUME Sound, PeersKeep, Next PROVE PeersKeep'
<1> SUFFICES ASSUME NEW k \in Conn
             PROVE  (net'[k].fin => k \in MayShut) /\ (net'[k].rst => k \in MayReset)
  BY DEF PeersKeep
<1>1. ConnStep(k) BY StepEffects
<1>2. net[k] \in NetState BY DEF Sound, ContentInv, Buffers, NetKept
<1>3. (net[k].fin => k \in MayShut) /\ (net[k].rst => k \in MayReset) BY DEF PeersKeep
<1>4. \/ net'[k] = net[k] \/ \E s : net'[k] = [net[k] EXCEPT !.st = s]
      \/ \E s : net'[k] = [net[k] EXCEPT !.sent = s]
      \/ \E s : net'[k] = [net[k] EXCEPT !.read = s]
      \/ k \in MayShut /\ net'[k] = [net[k] EXCEPT !.fin = TRUE]
      \/ k \in MayReset /\ net'[k] = [net[k] EXCEPT !.rst = TRUE]
  BY <1>1, Zenon DEF ConnStep, Rests, PeerMoves, Enters, Leaves, Gets, Ships, Informed, Expires
<1>5. \/ net'[k].fin = net[k].fin /\ net'[k].rst = net[k].rst
      \/ k \in MayShut /\ net'[k].rst = net[k].rst
      \/ k \in MayReset /\ net'[k].fin = net[k].fin
  <2>1. PICK n \in NetState : n = net[k] BY <1>2
  <2>2. /\ \A s : [n EXCEPT !.st = s].fin = n.fin /\ [n EXCEPT !.st = s].rst = n.rst
        /\ \A s : [n EXCEPT !.sent = s].fin = n.fin /\ [n EXCEPT !.sent = s].rst = n.rst
        /\ \A s : [n EXCEPT !.read = s].fin = n.fin /\ [n EXCEPT !.read = s].rst = n.rst
        /\ [n EXCEPT !.fin = TRUE].rst = n.rst /\ [n EXCEPT !.rst = TRUE].fin = n.fin
    BY EndsOfNet, Zenon
  <2>3. PICK m : m = net'[k] OBVIOUS
  <2>4. \/ m = n \/ \E s : m = [n EXCEPT !.st = s]
        \/ \E s : m = [n EXCEPT !.sent = s] \/ m = [n EXCEPT !.read = s]
        \/ k \in MayShut /\ m = [n EXCEPT !.fin = TRUE]
        \/ k \in MayReset /\ m = [n EXCEPT !.rst = TRUE]
    BY <1>4, <2>1, <2>3
  <2>5. \/ m.fin = n.fin /\ m.rst = n.rst
        \/ k \in MayShut /\ m.rst = n.rst
        \/ k \in MayReset /\ m.fin = n.fin
    <3>1. CASE m = n BY <3>1
    <3>2. CASE \E s : m = [n EXCEPT !.st = s] BY <2>2, <3>2, Zenon
    <3>3. CASE \E s : m = [n EXCEPT !.sent = s] \/ m = [n EXCEPT !.read = s]
      <4>1. PICK s : m = [n EXCEPT !.sent = s] \/ m = [n EXCEPT !.read = s] BY <3>3
      <4>2. /\ [n EXCEPT !.sent = s].fin = n.fin /\ [n EXCEPT !.sent = s].rst = n.rst
            /\ [n EXCEPT !.read = s].fin = n.fin /\ [n EXCEPT !.read = s].rst = n.rst
        BY <2>2, Zenon
      <4>3. CASE m = [n EXCEPT !.sent = s] BY <4>2, <4>3, Zenon
      <4>4. CASE m = [n EXCEPT !.read = s] BY <4>2, <4>4, Zenon
      <4> QED BY <4>1, <4>3, <4>4, Zenon
    <3>4. CASE k \in MayShut /\ m = [n EXCEPT !.fin = TRUE] BY <2>2, <3>4, Zenon
    <3>5. CASE k \in MayReset /\ m = [n EXCEPT !.rst = TRUE] BY <2>2, <3>5, Zenon
    <3> QED BY <2>4, <3>1, <3>2, <3>3, <3>4, <3>5
  <2> QED BY <2>1, <2>3, <2>5
<1> QED BY <1>3, <1>5, Zenon

(* A descriptor is the input of a script only from the script's start.     *)
LEMMA InputOpens ==
  ASSUME Inv, Next, NEW fd \in Fd, CGIbyWrite'[fd] # NoPid
  PROVE  CGIbyWrite'[fd] = CGIbyWrite[fd] \/ script'[CGIbyWrite'[fd]].rd
<1>1. CGIbyWrite \in [Fd -> Pid \cup {NoPid}] BY DEF Inv, TablesTyped
<1>2. CASE Fatal
  <2>1. Abort
    BY <1>2, Zenon DEF Fatal, SweepIntoDangling, ForkFails, AnswerIntoDangling,
                       FeedForNobody, FeedDeafScript
  <2> QED BY <2>1 DEF Abort, tables
<1>3. ASSUME NEW g \in Fd, NEW p \in Pid, StartCGI(g, p)
      PROVE  CGIbyWrite'[fd] = CGIbyWrite[fd] \/ script'[CGIbyWrite'[fd]].rd
  <2>1. PICK w \in Fd : CGIbyWrite' = [CGIbyWrite EXCEPT ![w] = p]
    BY <1>3, Zenon DEF StartCGI
  <2>2. script' = [script EXCEPT ![p] = [st |-> "run", rd |-> TRUE, wr |-> TRUE,
                                         in |-> 0, out |-> 0, wrote |-> 0]]
    BY <1>3, Zenon DEF StartCGI
  <2>3. DOMAIN script = Pid BY DEF Inv, ScriptsStarted
  <2>4. script'[p].rd BY <2>2, <2>3
  <2> QED BY <1>1, <2>1, <2>4
<1>4. CASE Sweep
  <2>1. \/ CGIbyWrite' = CGIbyWrite
        \/ CGIbyWrite' = [g \in Fd |-> IF g \in KilledWrites THEN NoPid ELSE CGIbyWrite[g]]
    BY <1>4, Zenon DEF Sweep, SweepExpiredClients, SweepEffect, tables
  <2> QED BY <2>1
<1>5. ASSUME NEW g \in Fd, EndInput(g) PROVE CGIbyWrite'[fd] = CGIbyWrite[fd]
  <2>1. \E w : CGIbyWrite' = [CGIbyWrite EXCEPT ![w] = NoPid]
    BY <1>5, Zenon DEF EndInput, CloseCGIWrite
  <2> QED BY <1>1, <2>1
<1> QED BY <1>2, <1>3, <1>4, <1>5, LifeAndInputs

(* With scripts that read all they are given, or none, none is deaf.       *)
LEMMA NoneDeafKept ==
  ASSUME ~MayDeafen \/ Static, Sound, NoneDeaf, Next PROVE NoneDeaf'
<1>1. Sound' BY StepSound
<1> SUFFICES ASSUME NEW fd \in Fd, NEW p \in Pid, p = CGIbyWrite'[fd] PROVE script'[p].rd
  BY <1>1 DEF NoneDeaf, Sound, Inv, TablesTyped
<1>2. p \in CGIMap' /\ ~Static
  <2>1. p \in CGIMap'
    BY <1>1, PidAssumption DEF Sound, Inv, TablesAgree, IteratorsValid
  <2>2. Static => CGIMap' = {} BY <1>1 DEF Static, Sound, ContentInv, Owned
  <2> QED BY <2>1, <2>2
<1>3. CASE p = CGIbyWrite[fd]
  <2>1. script[p].rd BY <1>3, PidAssumption DEF NoneDeaf
  <2>2. script[p] \in ScriptState BY DEF Sound, ContentInv, ScriptKept
  <2>3. fdTable[fd] = Stdin(p) BY <1>3 DEF Sound, Inv, TablesAgree, RolesAgree
  <2>4. ScriptStep(p) BY StepEffects
  <2>5. ~AtEndOfInput(p) BY <2>3 DEF AtEndOfInput
  <2>6. CASE Starts(p) BY <2>6 DEF Starts
  <2>7. CASE Quiet(p)
    <3>1. script'[p] = script[p] BY <2>7 DEF Quiet
    <3> QED BY <2>1, <3>1, Zenon
  <2>8. ~Dies(p) BY <1>2 DEF Dies
  <2>9. CASE ScriptMoves(p) \/ OutputTaken(p) \/ InputGiven(p)
    <3>1. CASE ScriptMoves(p)
      <4>1. \/ script'[p] = [script[p] EXCEPT !.in = 0]
            \/ script'[p] = [script[p] EXCEPT !.out = script[p].out + 1,
                                              !.wrote = script[p].wrote + 1]
            \/ script'[p] = [script[p] EXCEPT !.wr = FALSE]
        BY <1>2, <2>5, <3>1, Zenon DEF ScriptMoves
      <4> QED BY <2>1, <2>2, <4>1 DEF ScriptState
    <3>2. CASE OutputTaken(p)
      <4>1. script'[p] = [script[p] EXCEPT !.out = 0] BY <3>2 DEF OutputTaken
      <4> QED BY <2>1, <2>2, <4>1 DEF ScriptState
    <3>3. CASE InputGiven(p)
      <4>1. \E n : script'[p] = [script[p] EXCEPT !.in = n] BY <3>3, Zenon DEF InputGiven
      <4> QED BY <2>1, <2>2, <4>1 DEF ScriptState
    <3> QED BY <2>9, <3>1, <3>2, <3>3
  <2> QED BY <2>4, <2>6, <2>7, <2>8, <2>9, Zenon DEF ScriptStep
<1>4. CASE p # CGIbyWrite[fd]
  <2>1. CGIbyWrite'[fd] # NoPid BY PidAssumption
  <2>2. CGIbyWrite'[fd] = CGIbyWrite[fd] \/ script'[CGIbyWrite'[fd]].rd
    BY <2>1, InputOpens DEF Sound
  <2> QED BY <1>4, <2>2, Zenon
<1> QED BY <1>3, <1>4

(* The causes are there as long as nothing they speak of changes.          *)
LEMMA CausesRest ==
  ASSUME UNCHANGED <<outside, tables, client>>
  PROVE  /\ Orphan' = Orphan
         /\ DeafScript' = DeafScript
         /\ \A k \in Conn : LostTwice(k)' = LostTwice(k) /\ ForkAhead(k)' = ForkAhead(k)
<1>1. UNCHANGED <<net, script, CGIbyWrite, CGIMap, ctx, client>> BY DEF outside, tables
<1>2. Orphan' = Orphan BY <1>1 DEF Orphan, ClientLeft
<1>3. DeafScript' = DeafScript BY <1>1 DEF DeafScript
<1>4. ASSUME NEW k \in Conn PROVE LostTwice(k)' = LostTwice(k) BY <1>1 DEF LostTwice
<1>5. ASSUME NEW k \in Conn PROVE ForkAhead(k)' = ForkAhead(k)
  <2>1. Unread(k)' = Unread(k) BY <1>1 DEF Unread
  <2>2. \A c : MarkHeaders(k, c)' = MarkHeaders(k, c) BY DEF MarkHeaders, HeadersEnd
  <2>3. Received(k)' = Received(k) BY <1>1, <2>1, <2>2, Zenon DEF Received
  <2>4. \A c : Whole(c)' = Whole(c) /\ Current(c)' = Current(c) BY DEF Whole, Current
  <2> QED BY <2>3, <2>4, Zenon DEF ForkAhead
<1> QED BY <1>2, <1>3, <1>4, <1>5

(* A fatal step leaves everything else, and its cause with it.             *)
LEMMA FatalCauses ==
  ASSUME Sound, ClientStays, up, Fatal PROVE NothingElseEndsIt'
<1>1. Abort
  BY Zenon DEF Fatal, SweepIntoDangling, ForkFails, AnswerIntoDangling, FeedForNobody,
               FeedDeafScript
<1>2. /\ Orphan' = Orphan
      /\ DeafScript' = DeafScript
      /\ \A k \in Conn : LostTwice(k)' = LostTwice(k) /\ ForkAhead(k)' = ForkAhead(k)
  BY <1>1, CausesRest DEF Abort
<1>3. ASSUME NEW p \in CGIMap, Owner(p) # ctx[p].conn PROVE Orphan
  <2>1. ctx[p].conn \in Conn BY DEF Sound, ContentInv, Owned
  <2>2. net[ctx[p].conn].st = "closed" BY <1>3 DEF ClientStays, Owner
  <2> QED BY <2>1, <2>2 DEF Orphan, ClientLeft
<1>4. ASSUME NEW p \in CGIMap, Dangling(p) PROVE Orphan BY <1>3, <1>4 DEF Dangling
<1>5. ASSUME SweepIntoDangling PROVE Orphan
  <2>1. \E p \in ToKill : Dangling(p) BY <1>5, Zenon DEF SweepIntoDangling
  <2> QED BY <1>4, <2>1 DEF ToKill
<1>6. ASSUME NEW fd \in Fd, AnswerIntoDangling(fd) PROVE Orphan
  <2>1. CGIbyRead[fd] # NoPid /\ Dangling(CGIbyRead[fd])
    BY <1>6, Zenon DEF AnswerIntoDangling, OutputEnds, CGIReaderReady
  <2>2. CGIbyRead[fd] \in CGIMap BY <2>1 DEF Sound, Inv, TablesAgree, IteratorsValid
  <2> QED BY <1>4, <2>1, <2>2
<1>7. ASSUME NEW fd \in Fd, FeedForNobody(fd) PROVE Orphan
  <2>1. CGIbyWrite[fd] # NoPid /\ Owner(CGIbyWrite[fd]) = NoConn
    BY <1>7, Zenon DEF FeedForNobody, CGIWriterReady
  <2>2. CGIbyWrite[fd] \in CGIMap BY <2>1 DEF Sound, Inv, TablesAgree, IteratorsValid
  <2>3. ctx[CGIbyWrite[fd]].conn # NoConn BY <2>2, ConnAssumption DEF Sound, ContentInv, Owned
  <2> QED BY <1>3, <2>1, <2>2, <2>3
<1>8. ASSUME NEW fd \in Fd, FeedDeafScript(fd) PROVE DeafScript
  BY <1>8, Zenon DEF FeedDeafScript, CGIWriterReady, DeafScript
<1>9. ASSUME NEW fd \in Fd, SendFails(fd) PROVE \E k \in Conn : LostTwice(k)
  <2>1. PICK k : k = clientList[fd] OBVIOUS
  <2>2. k # NoConn /\ net[k].rst /\ (net[k].fin \/ CloseClient(fd))
    BY <1>9, <2>1, Zenon DEF SendFails, ClientWriterReady, IsClient
  <2>3. k \in Conn /\ net[k].st = "open" BY <2>1, <2>2, OnlySeat DEF Sound, ContentInv, IsClient
  <2>4. ~CloseClient(fd) BY <1>1, Zenon DEF CloseClient, Abort
  <2> QED BY <2>2, <2>3, <2>4 DEF LostTwice
<1>10. ASSUME NEW fd \in Fd, ForkFails(fd) PROVE \E k \in Conn : ForkAhead(k)
  <2>1. PICK k : k = clientList[fd] OBVIOUS
  <2>2. k # NoConn /\ ForkAhead(k)
    BY <1>10, <2>1, Zenon DEF ForkFails, GotCGIRequest, GotRequest, GotBytes, IsClient,
                              ForkAhead
  <2>3. k \in Conn BY <2>1, <2>2 DEF Sound, Inv, TablesTyped
  <2> QED BY <2>2, <2>3
<1>11. Orphan \/ DeafScript \/ \E k \in Conn : LostTwice(k) \/ ForkAhead(k)
  BY <1>5, <1>6, <1>7, <1>8, <1>9, <1>10, Zenon DEF Fatal
<1>12. Orphan' \/ DeafScript' \/ \E k \in Conn : LostTwice(k)' \/ ForkAhead(k)'
  BY <1>2, <1>11, Zenon
<1> QED BY <1>12, Zenon DEF NothingElseEndsIt

(* A living process has its clients where their contexts look, and a dead  *)
(* one shows why.                                                          *)
Explained == Sound /\ ClientStays /\ NothingElseEndsIt

LEMMA ExplainedKept == /\ Init => Explained
                       /\ Explained /\ [Next]_vars => Explained'
<1>1. Init => Explained
  BY InitSound DEF Init, Explained, ClientStays, NothingElseEndsIt
<1>2. ASSUME Explained, UNCHANGED vars PROVE Explained'
  <2>1. Sound' /\ ClientStays'
    BY <1>2, StepSound DEF Explained, ClientStays, vars, outside, tables
  <2>2. /\ Orphan' = Orphan /\ up' = up
        /\ DeafScript' = DeafScript
        /\ \A k \in Conn : LostTwice(k)' = LostTwice(k) /\ ForkAhead(k)' = ForkAhead(k)
    BY <1>2, CausesRest DEF vars
  <2>3. up' \/ Orphan' \/ DeafScript' \/ \E k \in Conn : LostTwice(k)' \/ ForkAhead(k)'
    BY <1>2, <2>2, Zenon DEF Explained, NothingElseEndsIt
  <2> QED BY <2>1, <2>3, Zenon DEF Explained, NothingElseEndsIt
<1>3. ASSUME Explained, Next PROVE Explained'
  <2>1. Sound' /\ ClientStays' BY <1>3, StepSound, ClientStaysKept DEF Explained
  <2>2. up /\ (up' \/ Fatal) BY <1>3, LifeAndInputs
  <2>3. NothingElseEndsIt' BY <1>3, <2>2, FatalCauses DEF Explained, NothingElseEndsIt
  <2> QED BY <2>1, <2>3 DEF Explained
<1> QED BY <1>1, <1>2, <1>3

(* The process lives on whatever peers and scripts do, for any number of   *)
(* them, unless one of four things has happened (README).                  *)
THEOREM OnlyTheseEndIt == Spec => []NothingElseEndsIt
<1>1. Explained => NothingElseEndsIt BY DEF Explained
<1> QED BY <1>1, ExplainedKept, PTL DEF Spec

(* What also holds: peers and scripts do what they may.                    *)
Unharmed == Explained /\ PeersKeep /\ NoneDeaf

LEMMA UnharmedKept ==
  ASSUME ~MayDeafen \/ Static
  PROVE  /\ Init => Unharmed
         /\ Unharmed /\ [Next]_vars => Unharmed'
<1>1. Init => Unharmed BY ExplainedKept DEF Init, Unharmed, PeersKeep, NoneDeaf
<1>2. ASSUME Unharmed, UNCHANGED vars PROVE Unharmed'
  BY <1>2, ExplainedKept DEF Unharmed, PeersKeep, NoneDeaf, vars, outside, tables
<1>3. ASSUME Unharmed, Next PROVE Unharmed'
  BY <1>3, ExplainedKept, PeersKept, NoneDeafKept DEF Unharmed, Explained
<1> QED BY <1>1, <1>2, <1>3

(* Where fork() succeeds, scripts read all their input and no peer aborts  *)
(* after it half-closed, only a script whose client has left ends it.      *)
THEOREM OnlyOrphansEndIt ==
  ASSUME ~ForkMayFail, ~MayDeafen, MayShut \cap MayReset = {}
  PROVE  Spec => [](StaysUp \/ \E p \in CGIMap : ClientLeft(p))
<1>1. Unharmed => StaysUp \/ \E p \in CGIMap : ClientLeft(p)
  <2>1. PeersKeep => \A k \in Conn : ~LostTwice(k) BY DEF PeersKeep, LostTwice
  <2>2. NoneDeaf => ~DeafScript BY DEF NoneDeaf, DeafScript
  <2>3. \A k \in Conn : ~ForkAhead(k) BY DEF ForkAhead
  <2> QED BY <2>1, <2>2, <2>3, Zenon
          DEF Unharmed, Explained, NothingElseEndsIt, StaysUp, Orphan
<1> QED BY <1>1, UnharmedKept, PTL DEF Spec

(* What ends a server without CGI is a peer that has half-closed and then  *)
(* aborted while its answer was being sent, and nothing else.              *)
THEOREM StaticServerEnds ==
  ASSUME Static PROVE Spec => [](StaysUp \/ \E k \in Conn : LostTwice(k))
<1>1. Explained => StaysUp \/ \E k \in Conn : LostTwice(k)
  <2> SUFFICES ASSUME Explained PROVE StaysUp \/ \E k \in Conn : LostTwice(k) OBVIOUS
  <2>1. CGIMap = {} BY DEF Explained, Sound, ContentInv, Owned, Static
  <2>2. ~Orphan BY <2>1 DEF Orphan
  <2>3. ~DeafScript BY <2>1 DEF DeafScript, Explained, Sound, Inv, TablesAgree, IteratorsValid
  <2>4. ASSUME NEW k \in Conn, ForkAhead(k) PROVE FALSE
    <3>1. client[k] \in ClientOf(k) /\ NetKept(k, net[k])
      BY DEF Explained, Sound, ContentInv, Buffers
    <3>2. Current(Received(k)) \in DOMAIN Plan[k]
      BY <2>4, <3>1, ReceivedTyped, WholeTyped DEF ForkAhead
    <3> QED BY <2>4, <3>2 DEF Static, ForkAhead
  <2> QED BY <2>2, <2>3, <2>4 DEF Explained, NothingElseEndsIt, StaysUp
<1> QED BY <1>1, ExplainedKept, PTL DEF Spec

-----------------------------------------------------------------------------
(* The order of the answers on a connection that asks for no script.       *)

(* The request i begins behind the first b units, if any unit follows.     *)
Begins(k, b, i) == b < Len(Stream[k]) => Stream[k][b + 1] = <<i, 1>>

(* A buffer holds the units that follow the first b.                       *)
Holds(k, b, buf) ==
  b + Len(buf) <= Len(Stream[k]) /\ \A j \in 1 .. Len(buf) : buf[j] = Stream[k][b + j]

(* Nothing is queued: all answers before the i-th are sent.                *)
Listening(k, i, c, w) ==
  /\ InOrder(w) /\ Len(w) = 2 * (i - 1)
  /\ c.outBuff = << >> /\ c.consumed = 0
  /\ c.parsePos > 0 => /\ c.parsePos = Plan[k][i].head /\ c.need = Plan[k][i].body
                       /\ c.parsePos <= Len(c.inBuff)

(* What is sent and what is queued make the answers up to the i-th.        *)
Answering(k, i, c, w) ==
  /\ InOrder(w \o c.outBuff) /\ Len(w) + Len(c.outBuff) = 2 * i
  /\ c.consumed = Size(k, i) /\ c.consumed <= Len(c.inBuff)

(* The connection is at its request i, which begins behind b units.        *)
Serves(k, b, i, c, r, w) ==
  /\ b \in Nat /\ i \in Nat \ {0}
  /\ Begins(k, b, i) /\ Holds(k, b, c.inBuff) /\ b + Len(c.inBuff) = r
  /\ IF c.queued THEN Answering(k, i, c, w) ELSE Listening(k, i, c, w)

(* The units of a request follow one another, and then the next begins.    *)
LEMMA RequestUnits ==
  ASSUME NEW k \in Conn, NEW b \in Nat, NEW i \in Nat \ {0}, Begins(k, b, i),
         b < Len(Stream[k])
  PROVE  /\ i \in DOMAIN Plan[k]
         /\ \A j \in 1 .. Size(k, i) : b + j <= Len(Stream[k]) => Stream[k][b + j] = <<i, j>>
         /\ b + Size(k, i) <= Len(Stream[k]) => Begins(k, b + Size(k, i), i + 1)
<1> DEFINE s == Stream[k]
<1>1. /\ s \in Seq(Units(k)) /\ Len(s) \in Nat
      /\ \A m \in 1 .. Len(s) - 1 : s[m + 1] = Following(k, s[m])
  BY StreamInSequence DEF InSequence
<1>2. s[b + 1] = <<i, 1>> BY DEF Begins
<1>3. i \in DOMAIN Plan[k]
  <2>1. s[b + 1] \in Units(k) BY <1>1
  <2> QED BY <1>2, <2>1 DEF Units
<1>4. Size(k, i) \in Nat \ {0} BY <1>3, Sizes
<1> HIDE DEF s
<1> DEFINE S == {j \in Nat : j <= Size(k, i) /\ b + j <= Len(s) => s[b + j] = <<i, j>>}
<1>5. 1 \in S BY <1>2
<1>6. ASSUME NEW j \in Nat, j >= 1, j \in S PROVE j + 1 \in S
  <2> SUFFICES ASSUME j + 1 <= Size(k, i), b + (j + 1) <= Len(s)
               PROVE  s[b + (j + 1)] = <<i, j + 1>>
    OBVIOUS
  <2>1. s[b + j] = <<i, j>> /\ j < Size(k, i) BY <1>1, <1>4, <1>6
  <2>2. b + j \in 1 .. Len(s) - 1 /\ (b + j) + 1 = b + (j + 1) BY <1>1, <1>6
  <2>3. s[b + (j + 1)] = Following(k, s[b + j]) BY <1>1, <2>2
  <2> QED BY <2>1, <2>3 DEF Following
<1> HIDE DEF S
<1>7. \A j \in Nat : j >= 1 => j \in S BY <1>5, <1>6, Induction
<1>8. \A j \in 1 .. Size(k, i) : b + j <= Len(s) => s[b + j] = <<i, j>>
  BY <1>4, <1>7 DEF S
<1>9. ASSUME b + Size(k, i) <= Len(s) PROVE Begins(k, b + Size(k, i), i + 1)
  <2> DEFINE e == b + Size(k, i)
  <2>1. s[e] = <<i, Size(k, i)>> BY <1>4, <1>8, <1>9
  <2>2. e \in Nat /\ e >= 1 BY <1>4
  <2> HIDE DEF e
  <2>3. e < Len(s) => s[e + 1] = Following(k, s[e]) BY <1>1, <2>2
  <2>4. e < Len(s) => s[e + 1] = <<i + 1, 1>> BY <1>4, <2>1, <2>3 DEF Following
  <2> QED BY <2>4 DEF Begins, e, s
<1> QED BY <1>3, <1>8, <1>9 DEF s

(* The headers end first where those of the current request do.            *)
LEMMA FirstHeadersEnd ==
  ASSUME NEW k \in Conn, NEW b \in Nat, NEW i \in Nat \ {0}, Begins(k, b, i),
         NEW buf \in Seq(Units(k)), Holds(k, b, buf), HeadersEnd(k, buf) # 0
  PROVE  /\ HeadersEnd(k, buf) = Plan[k][i].head /\ HeadersEnd(k, buf) <= Len(buf)
         /\ buf[HeadersEnd(k, buf)][1] = i
<1> DEFINE n == HeadersEnd(k, buf)
           h == Plan[k][i].head
<1>1. /\ n \in 1 .. Len(buf) /\ buf[n][2] = Plan[k][buf[n][1]].head
      /\ \A m \in 1 .. Len(buf) : buf[m][2] = Plan[k][buf[m][1]].head => n <= m
  BY HeadersEndTyped
<1>2. b < Len(Stream[k])
  <2>1. Len(Stream[k]) \in Nat BY UnitsTyped
  <2>2. Len(buf) \in Nat /\ Len(buf) >= 1 BY <1>1
  <2> QED BY <2>1, <2>2 DEF Holds
<1>3. /\ i \in DOMAIN Plan[k]
      /\ \A j \in 1 .. Size(k, i) : b + j <= Len(Stream[k]) => Stream[k][b + j] = <<i, j>>
  BY <1>2, RequestUnits
<1>4. h \in 1 .. 2 /\ h <= Size(k, i) /\ Size(k, i) \in Nat
  <2>1. Plan[k][i] \in Request BY <1>3, Sizes
  <2>2. Plan[k][i].head \in 1 .. 2 /\ Plan[k][i].body \in 0 .. 2 BY <2>1 DEF Request
  <2> QED BY <2>2 DEF Size
<1>5. \A j \in 1 .. Len(buf) : j <= Size(k, i) => buf[j] = <<i, j>>
  <2> SUFFICES ASSUME NEW j \in 1 .. Len(buf), j <= Size(k, i) PROVE buf[j] = <<i, j>>
    OBVIOUS
  <2>1. buf[j] = Stream[k][b + j] /\ b + Len(buf) <= Len(Stream[k]) BY DEF Holds
  <2>2. Len(Stream[k]) \in Nat /\ Len(buf) \in Nat BY UnitsTyped
  <2>3. b + j <= Len(Stream[k]) /\ j \in 1 .. Size(k, i) BY <1>4, <2>1, <2>2
  <2> QED BY <1>3, <2>1, <2>3
<1> HIDE DEF n, h
<1>6. n = h
  <2>1. CASE n < h
    <3>1. buf[n] = <<i, n>> BY <1>1, <1>4, <1>5, <2>1
    <3>2. n = h BY <1>1, <3>1 DEF h
    <3> QED BY <3>2
  <2>2. CASE h <= n
    <3>1. h \in 1 .. Len(buf) BY <1>1, <1>4, <2>2
    <3>2. buf[h] = <<i, h>> BY <1>4, <1>5, <3>1
    <3>3. n <= h BY <1>1, <3>1, <3>2 DEF h
    <3> QED BY <1>1, <1>4, <2>2, <3>3
  <2> QED BY <1>1, <1>4, <2>1, <2>2
<1>7. buf[n] = <<i, n>> BY <1>1, <1>4, <1>5, <1>6
<1> QED BY <1>1, <1>6, <1>7 DEF n, h

(* The joined lists of answers are one list, that begins with the first.   *)
LEMMA AnswersJoined ==
  ASSUME NEW w \in Seq(OutUnit), NEW v \in Seq(OutUnit)
  PROVE  /\ w \o v \in Seq(OutUnit) /\ Len(w \o v) = Len(w) + Len(v)
         /\ \A m \in 1 .. Len(w) : (w \o v)[m] = w[m]
         /\ \A m \in 1 .. Len(v) : (w \o v)[Len(w) + m] = v[m]
OBVIOUS

(* The next answer goes behind those in order.                             *)
LEMMA NextAnswer ==
  ASSUME NEW w \in Seq(OutUnit), NEW i \in Nat \ {0}, InOrder(w), Len(w) = 2 * (i - 1),
         NEW status \in {"200", "400", "504", "cgi"}
  PROVE  InOrder(w \o Answer(i, status)) /\ Len(w) + Len(Answer(i, status)) = 2 * i
<1> DEFINE a == Answer(i, status)
           v == w \o a
<1>1. a \in Seq(OutUnit) /\ Len(a) = 2 /\ a[1] = <<i, status, 1>> /\ a[2] = <<i, status, 2>>
  <2>1. <<i, status, 1>> \in OutUnit /\ <<i, status, 2>> \in OutUnit BY DEF OutUnit
  <2> QED BY <2>1 DEF Answer
<1>2. /\ v \in Seq(OutUnit) /\ Len(v) = 2 * i
      /\ \A m \in 1 .. Len(w) : v[m] = w[m]
      /\ v[2 * i - 1] = <<i, status, 1>> /\ v[2 * i] = <<i, status, 2>>
  <2> HIDE DEF a, v
  <2>1. /\ v \in Seq(OutUnit) /\ Len(v) = Len(w) + Len(a)
        /\ \A m \in 1 .. Len(w) : v[m] = w[m]
        /\ \A m \in 1 .. Len(a) : v[Len(w) + m] = a[m]
    <3>1. w \in Seq(OutUnit) /\ a \in Seq(OutUnit) BY <1>1
    <3>2. /\ w \o a \in Seq(OutUnit) /\ Len(w \o a) = Len(w) + Len(a)
          /\ \A m \in 1 .. Len(w) : (w \o a)[m] = w[m]
          /\ \A m \in 1 .. Len(a) : (w \o a)[Len(w) + m] = a[m]
      BY <3>1, AnswersJoined, Zenon
    <3> QED BY <3>2, Zenon DEF v
  <2>2. v[Len(w) + 1] = a[1] /\ v[Len(w) + 2] = a[2] BY <1>1, <2>1
  <2>3. Len(w) + 1 = 2 * i - 1 /\ Len(w) + 2 = 2 * i OBVIOUS
  <2> QED BY <1>1, <2>1, <2>2, <2>3
<1> HIDE DEF a, v
<1>3. ASSUME NEW n \in DOMAIN v
      PROVE  LET part == IF n % 2 = 1 THEN 1 ELSE 2 IN
             /\ v[n][3] = part
             /\ part = 1 => v[n][1] = (n + 1) \div 2
             /\ part = 2 => v[n] = <<v[n - 1][1], v[n - 1][2], 2>>
  <2>1. n \in 1 .. 2 * i BY <1>2
  <2>2. CASE n <= Len(w)
    <3>1. n \in DOMAIN w /\ v[n] = w[n] BY <1>2, <2>1, <2>2
    <3>2. n % 2 # 1 => n - 1 \in 1 .. Len(w) BY <2>1, <2>2
    <3>3. n % 2 # 1 => v[n - 1] = w[n - 1] BY <1>2, <3>2
    <3>4. LET part == IF n % 2 = 1 THEN 1 ELSE 2 IN
          /\ w[n][3] = part
          /\ part = 1 => w[n][1] = (n + 1) \div 2
          /\ part = 2 => w[n] = <<w[n - 1][1], w[n - 1][2], 2>>
      BY <3>1 DEF InOrder
    <3> QED BY <3>1, <3>3, <3>4
  <2>3. CASE n = 2 * i - 1
    <3>1. n % 2 = 1 /\ (n + 1) \div 2 = i BY <2>3
    <3> QED BY <1>2, <2>3, <3>1
  <2>4. CASE n = 2 * i
    <3>1. n % 2 # 1 /\ n - 1 = 2 * i - 1 BY <2>4
    <3>2. v[n] = <<i, status, 2>> /\ v[n - 1] = <<i, status, 1>> BY <1>2, <2>4, <3>1
    <3> QED BY <3>1, <3>2
  <2> QED BY <2>1, <2>2, <2>3, <2>4
<1>4. InOrder(v) BY <1>3 DEF InOrder
<1> QED BY <1>1, <1>4 DEF a, v

(* What begins a sequence of answers in order is in order.                 *)
LEMMA BeginningInOrder ==
  ASSUME NEW w \in Seq(OutUnit), NEW v \in Seq(OutUnit), InOrder(w \o v)
  PROVE  InOrder(w)
<1> DEFINE s == w \o v
<1>1. \A m \in 1 .. Len(w) : s[m] = w[m] /\ m \in DOMAIN s OBVIOUS
<1> SUFFICES ASSUME NEW n \in DOMAIN w
             PROVE  LET part == IF n % 2 = 1 THEN 1 ELSE 2 IN
                    /\ w[n][3] = part
                    /\ part = 1 => w[n][1] = (n + 1) \div 2
                    /\ part = 2 => w[n] = <<w[n - 1][1], w[n - 1][2], 2>>
  BY DEF InOrder
<1>2. n \in 1 .. Len(w) /\ s[n] = w[n] /\ n \in DOMAIN s BY <1>1
<1>3. n % 2 # 1 => n - 1 \in 1 .. Len(w) BY <1>2
<1>4. n % 2 # 1 => s[n - 1] = w[n - 1] BY <1>1, <1>3
<1>5. LET part == IF n % 2 = 1 THEN 1 ELSE 2 IN
      /\ s[n][3] = part
      /\ part = 1 => s[n][1] = (n + 1) \div 2
      /\ part = 2 => s[n] = <<s[n - 1][1], s[n - 1][2], 2>>
  BY <1>2 DEF InOrder
<1> HIDE DEF s
<1> QED BY <1>2, <1>4, <1>5

(* What arrives goes behind what is buffered, without a gap.               *)
LEMMA ArrivedHolds ==
  ASSUME NEW k \in Conn, NEW b \in Nat, NetKept(k, net[k]), client[k] \in ClientOf(k),
         Holds(k, b, client[k].inBuff), b + Len(client[k].inBuff) = net[k].read,
         NEW buf, buf = client[k].inBuff \o Unread(k)
  PROVE  /\ Holds(k, b, buf) /\ b + Len(buf) = net[k].sent
         /\ Len(client[k].inBuff) <= Len(buf)
<1> DEFINE s == client[k].inBuff
           u == Unread(k)
<1>1. s \in Seq(Units(k)) BY DEF ClientOf
<1>2. /\ net[k].read \in Nat /\ net[k].sent \in Nat /\ net[k].read <= net[k].sent
      /\ net[k].sent <= Len(Stream[k]) /\ Len(Stream[k]) \in Nat
  BY UnitsTyped DEF NetKept, NetState
<1>3. /\ u \in Seq(Units(k)) /\ Len(u) = net[k].sent - net[k].read
      /\ \A j \in 1 .. Len(u) : u[j] = Stream[k][net[k].read + j]
  BY UnreadTyped
<1>4. \A j \in 1 .. Len(s) : s[j] = Stream[k][b + j] BY DEF Holds
<1>5. b + Len(s) = net[k].read /\ buf = s \o u OBVIOUS
<1> HIDE DEF s, u
<1>6. /\ Len(buf) = Len(s) + Len(u)
      /\ \A j \in 1 .. Len(s) : buf[j] = s[j]
      /\ \A j \in 1 .. Len(u) : buf[Len(s) + j] = u[j]
  <2>1. s \in Seq(Units(k)) /\ u \in Seq(Units(k)) BY <1>1, <1>3
  <2>2. /\ s \o u \in Seq(Units(k)) /\ Len(s \o u) = Len(s) + Len(u)
        /\ \A m \in 1 .. Len(s) : (s \o u)[m] = s[m]
        /\ \A m \in 1 .. Len(u) : (s \o u)[Len(s) + m] = u[m]
    BY <2>1, Joined
  <2> QED BY <1>5, <2>2, Zenon
<1>7. b + Len(buf) = net[k].sent /\ Len(s) <= Len(buf) /\ Len(s) \in Nat
  <2>1. PICK l \in Nat, n \in Nat : l = Len(s) /\ n = Len(u)
    <3>1. s \in Seq(Units(k)) /\ u \in Seq(Units(k)) BY <1>1, <1>3
    <3> QED BY <3>1, LenProperties
  <2>2. Len(buf) = l + n /\ b + l = net[k].read /\ n = net[k].sent - net[k].read BY <1>3, <1>5, <1>6, <2>1
  <2>3. PICK r \in Nat, e \in Nat : r = net[k].read /\ e = net[k].sent BY <1>2
  <2>4. b + l = r /\ n = e - r BY <2>2, <2>3
  <2>5. b + (l + n) = e BY <2>4
  <2>6. l <= l + n BY <2>1
  <2> QED BY <2>1, <2>2, <2>3, <2>5, <2>6
<1>8. ASSUME NEW j \in 1 .. Len(buf) PROVE buf[j] = Stream[k][b + j]
  <2>1. CASE j <= Len(s) BY <1>4, <1>6, <1>7, <2>1
  <2>2. CASE j > Len(s)
    <3>1. PICK m : m = j - Len(s) OBVIOUS
    <3>2. j \in Nat /\ j <= Len(s) + Len(u) /\ Len(s) \in Nat /\ Len(u) \in Nat
      BY <1>3, <1>6, <1>7
    <3>3. m \in 1 .. Len(u) /\ Len(s) + m = j BY <2>2, <3>1, <3>2
    <3>4. net[k].read + m = b + j BY <1>2, <1>5, <3>1, <3>2
    <3> QED BY <1>3, <1>6, <3>3, <3>4
  <2> QED BY <1>7, <2>1, <2>2
<1> QED BY <1>2, <1>7, <1>8 DEF Holds, s

(* Looking for the end of the headers finds that of the current request.   *)
LEMMA MarkedRightly ==
  ASSUME NEW k \in Conn, NEW b \in Nat, NEW i \in Nat \ {0}, NEW c \in ClientOf(k), NEW w,
         Begins(k, b, i), Holds(k, b, c.inBuff), ~c.queued, Listening(k, i, c, w)
  PROVE  LET d == MarkHeaders(k, c) IN
         d.inBuff = c.inBuff /\ ~d.queued /\ Listening(k, i, d, w)
<1> DEFINE pos == HeadersEnd(k, c.inBuff)
           body == Plan[k][c.inBuff[pos][1]].body
<1>1. c.inBuff \in Seq(Units(k)) BY DEF ClientOf
<1>2. CASE c.parsePos > 0 \/ pos = 0
  <2>1. MarkHeaders(k, c) = c BY <1>2 DEF MarkHeaders
  <2> QED BY <2>1
<1>3. CASE ~(c.parsePos > 0 \/ pos = 0)
  <2>1. pos = Plan[k][i].head /\ pos <= Len(c.inBuff) /\ c.inBuff[pos][1] = i
    BY <1>1, <1>3, FirstHeadersEnd
  <2>2. body = Plan[k][i].body BY <2>1
  <2>3. PICK d : d = [c EXCEPT !.parsePos = pos, !.need = body] OBVIOUS
  <2>4. MarkHeaders(k, c) = d BY <1>3, <2>3 DEF MarkHeaders
  <2> HIDE DEF pos, body
  <2>5. /\ d.inBuff = c.inBuff /\ d.queued = c.queued /\ d.outBuff = c.outBuff
        /\ d.consumed = c.consumed /\ d.parsePos = pos /\ d.need = body
    BY <2>3 DEF ClientOf
  <2>6. Listening(k, i, d, w) BY <2>1, <2>2, <2>5 DEF Listening
  <2>7. ~d.queued BY <2>5, Zenon
  <2> QED BY <2>4, <2>5, <2>6, <2>7
<1> QED BY <1>2, <1>3

(* A request that is whole is the current one, and all of it is counted.   *)
LEMMA WholeIsCurrent ==
  ASSUME NEW k \in Conn, NEW b \in Nat, NEW i \in Nat \ {0}, NEW c \in ClientOf(k), NEW w,
         Begins(k, b, i), Holds(k, b, c.inBuff), Listening(k, i, c, w), Whole(c)
  PROVE  /\ Current(c) = i /\ c.parsePos + c.need = Size(k, i)
         /\ Size(k, i) <= Len(c.inBuff)
<1>1. /\ c.inBuff \in Seq(Units(k)) /\ c.parsePos \in 1 .. Len(c.inBuff)
      /\ c.need \in 0 .. 2 /\ Len(c.inBuff) - c.parsePos >= c.need /\ Len(c.inBuff) \in Nat
  BY WholeTyped DEF ClientOf, Whole
<1>2. c.parsePos = Plan[k][i].head /\ c.need = Plan[k][i].body BY <1>1 DEF Listening
<1>3. c.inBuff[1] = Stream[k][b + 1] /\ b < Len(Stream[k])
  <2>1. 1 \in 1 .. Len(c.inBuff) BY <1>1
  <2>2. b + Len(c.inBuff) <= Len(Stream[k]) /\ c.inBuff[1] = Stream[k][b + 1]
    BY <2>1 DEF Holds
  <2>3. Len(Stream[k]) \in Nat BY UnitsTyped
  <2> QED BY <1>1, <2>2, <2>3
<1>4. Current(c) = i BY <1>3 DEF Begins, Current
<1>5. c.parsePos + c.need = Size(k, i) BY <1>2 DEF Size
<1>6. c.parsePos + c.need <= Len(c.inBuff) BY <1>1
<1> QED BY <1>4, <1>5, <1>6

(* What arrives leaves the connection at its request, perhaps answered.    *)
LEMMA HearsInOrder ==
  ASSUME NEW k \in Conn, client[k] \in ClientOf(k), NetKept(k, net[k]),
         \A i \in DOMAIN Plan[k] : ~Plan[k][i].cgi, wire[k] \in Seq(OutUnit),
         NEW b, NEW i, Serves(k, b, i, client[k], net[k].read, wire[k]), Hearing(k)
  PROVE  Serves(k, b, i, client'[k], net[k].sent, wire[k])
<1> DEFINE c == client[k]
           buf == c.inBuff \o Unread(k)
           app == [c EXCEPT !.inBuff = buf]
           d == Received(k)
           w == wire[k]
<1>1. /\ b \in Nat /\ i \in Nat \ {0} /\ Begins(k, b, i) /\ Holds(k, b, c.inBuff)
      /\ b + Len(c.inBuff) = net[k].read
      /\ IF c.queued THEN Answering(k, i, c, w) ELSE Listening(k, i, c, w)
  BY DEF Serves
<1>2. Holds(k, b, buf) /\ b + Len(buf) = net[k].sent /\ Len(c.inBuff) <= Len(buf)
  BY <1>1, ArrivedHolds
<1>3. app \in ClientOf(k) /\ d \in ClientOf(k) /\ d = MarkHeaders(k, app)
  BY ReceivedTyped DEF Received
<1>4. /\ app.inBuff = buf /\ app.queued = c.queued /\ app.outBuff = c.outBuff
      /\ app.consumed = c.consumed /\ app.parsePos = c.parsePos /\ app.need = c.need
  <2> HIDE DEF buf
  <2> QED BY DEF ClientOf
<1>5. Len(buf) \in Nat /\ Len(c.inBuff) \in Nat
  <2>1. c.inBuff \in Seq(Units(k)) /\ app.inBuff \in Seq(Units(k)) BY <1>3 DEF ClientOf
  <2> QED BY <1>4, <2>1
<1>6. c.consumed \in Nat /\ c.parsePos \in Nat BY DEF ClientOf
<1> HIDE DEF c, buf, app, d, w
<1>7. CASE c.queued
  <2>1. client'[k] = app BY <1>7, Zenon DEF Hearing, app, buf, c, d
  <2>2. Answering(k, i, app, w) BY <1>1, <1>2, <1>4, <1>5, <1>6, <1>7 DEF Answering
  <2>3. app.queued BY <1>4, <1>7, Zenon
  <2>4. Serves(k, b, i, app, net[k].sent, w) BY <1>1, <1>2, <1>4, <2>2, <2>3 DEF Serves
  <2> QED BY <2>1, <2>4 DEF w
<1>8. CASE ~c.queued
  <2>1. ~app.queued BY <1>4, <1>8, Zenon
  <2>2. Listening(k, i, app, w)
    BY <1>1, <1>2, <1>4, <1>5, <1>6, <1>8 DEF Listening
  <2>3. Holds(k, b, app.inBuff) BY <1>2, <1>4
  <2>4. d.inBuff = buf /\ ~d.queued /\ Listening(k, i, d, w)
    BY <1>1, <1>3, <1>4, <2>1, <2>2, <2>3, MarkedRightly
  <2>5. CASE ~Whole(d)
    <3>1. client'[k] = d BY <1>8, <2>5, Zenon DEF Hearing, d, c
    <3>2. Serves(k, b, i, d, net[k].sent, w) BY <1>1, <1>2, <2>4 DEF Serves
    <3> QED BY <3>1, <3>2 DEF w
  <2>6. CASE Whole(d)
    <3> DEFINE e == Parsed(k)
    <3>1. Current(d) = i /\ d.parsePos + d.need = Size(k, i) /\ Size(k, i) <= Len(buf)
      BY <1>1, <1>2, <1>3, <2>4, <2>6, WholeIsCurrent
    <3>2. e \in ClientOf(k) /\ i \in DOMAIN Plan[k]
      BY <2>6, <3>1, ParsedTyped DEF d
    <3>3. \E y : e = [d EXCEPT !.consumed = d.parsePos + d.need, !.body = y]
      BY Zenon DEF Parsed, d
    <3> HIDE DEF e
    <3>4. e.inBuff = buf /\ e.consumed = Size(k, i)
      <4>1. PICK y : e = [d EXCEPT !.consumed = d.parsePos + d.need, !.body = y] BY <3>3
      <4>2. e.inBuff = d.inBuff /\ e.consumed = d.parsePos + d.need
        BY <1>3, <4>1 DEF ClientOf
      <4> QED BY <2>4, <3>1, <4>2
    <3>5. \E s \in {"200", "400"} :
            \/ client'[k] = Queue(e, i, s)
            \/ client'[k] = [Queue(e, i, s) EXCEPT !.closeFlag = TRUE]
      <4>1. ~Plan[k][i].cgi BY <3>2
      <4>2. \/ client'[k] = [Queue(e, Current(d), "400") EXCEPT !.closeFlag = TRUE]
            \/ client'[k] = Queue(e, Current(d), "200")
        BY <1>8, <2>6, <3>1, <4>1, Zenon DEF Hearing, d, c, e
      <4> QED BY <3>1, <4>2
    <3>6. PICK s \in {"200", "400"} :
            \/ client'[k] = Queue(e, i, s)
            \/ client'[k] = [Queue(e, i, s) EXCEPT !.closeFlag = TRUE]
      BY <3>5
    <3>7. PICK f : f = client'[k] OBVIOUS
    <3>8. /\ f.inBuff = e.inBuff /\ f.consumed = e.consumed /\ f.queued = TRUE
          /\ f.outBuff = Answer(i, s)
      BY <3>2, <3>6, <3>7 DEF Queue, ClientOf
    <3>9. InOrder(w \o Answer(i, s)) /\ Len(w) + Len(Answer(i, s)) = 2 * i
      <4>1. InOrder(w) /\ Len(w) = 2 * (i - 1) BY <2>4 DEF Listening
      <4> QED BY <1>1, <4>1, NextAnswer DEF w
    <3>10. Answering(k, i, f, w) BY <3>1, <3>4, <3>8, <3>9 DEF Answering
    <3>11. Serves(k, b, i, f, net[k].sent, w) BY <1>1, <1>2, <3>4, <3>8, <3>10 DEF Serves
    <3> QED BY <3>7, <3>11 DEF w
  <2> QED BY <2>5, <2>6
<1> QED BY <1>7, <1>8

(* The first n units of a queue go behind what is sent, the rest stays.     *)
SentPart(w, out, n, v, rest) ==
  /\ v = w \o SubSeq(out, 1, n)
  /\ rest = SubSeq(out, n + 1, Len(out))

(* What is sent and what is queued make the same answers as before.        *)
SameAnswers(w, out, v, rest) ==
  /\ v \o rest = w \o out
  /\ Len(v) + Len(rest) = Len(w) + Len(out)

(* A queue sent in two parts is sent whole.                                *)
LEMMA SentInParts ==
  ASSUME NEW w \in Seq(OutUnit), NEW out \in Seq(OutUnit), NEW n \in 1 .. Len(out),
         NEW v, NEW rest, SentPart(w, out, n, v, rest)
  PROVE  SameAnswers(w, out, v, rest)
<1>1. PICK x : x = SubSeq(out, 1, n) OBVIOUS
<1>2. /\ x \in Seq(OutUnit) /\ Len(x) = n /\ \A j \in 1 .. n : x[j] = out[j]
      /\ rest \in Seq(OutUnit) /\ Len(rest) = Len(out) - n
      /\ \A j \in 1 .. Len(rest) : rest[j] = out[n + j]
  <2>1. x \in Seq(OutUnit) /\ Len(x) = n /\ \A j \in 1 .. n : x[j] = out[j] BY <1>1
  <2>2. rest = SubSeq(out, n + 1, Len(out)) BY Zenon DEF SentPart
  <2>3. rest \in Seq(OutUnit) /\ Len(rest) = Len(out) - n BY <2>2
  <2>4. \A j \in 1 .. Len(out) - n : rest[j] = out[n + j] BY <2>2
  <2> QED BY <2>1, <2>3, <2>4
<1>3. v = w \o x BY <1>1, Zenon DEF SentPart
<1>4. /\ v \in Seq(OutUnit) /\ Len(v) = Len(w) + Len(x)
      /\ \A m \in 1 .. Len(w) : v[m] = w[m]
      /\ \A m \in 1 .. Len(x) : v[Len(w) + m] = x[m]
  <2>1. /\ w \o x \in Seq(OutUnit) /\ Len(w \o x) = Len(w) + Len(x)
        /\ \A m \in 1 .. Len(w) : (w \o x)[m] = w[m]
        /\ \A m \in 1 .. Len(x) : (w \o x)[Len(w) + m] = x[m]
    BY <1>2, AnswersJoined, Zenon
  <2> QED BY <1>3, <2>1, Zenon
<1>5. PICK s : s = v \o rest OBVIOUS
<1>6. /\ s \in Seq(OutUnit) /\ Len(s) = Len(v) + Len(rest)
      /\ \A m \in 1 .. Len(v) : s[m] = v[m]
      /\ \A m \in 1 .. Len(rest) : s[Len(v) + m] = rest[m]
  <2>1. /\ v \o rest \in Seq(OutUnit) /\ Len(v \o rest) = Len(v) + Len(rest)
        /\ \A m \in 1 .. Len(v) : (v \o rest)[m] = v[m]
        /\ \A m \in 1 .. Len(rest) : (v \o rest)[Len(v) + m] = rest[m]
    BY <1>2, <1>4, AnswersJoined, Zenon
  <2> QED BY <1>5, <2>1, Zenon
<1>7. PICK t : t = w \o out OBVIOUS
<1>8. /\ t \in Seq(OutUnit) /\ Len(t) = Len(w) + Len(out)
      /\ \A m \in 1 .. Len(w) : t[m] = w[m]
      /\ \A m \in 1 .. Len(out) : t[Len(w) + m] = out[m]
  BY <1>7, AnswersJoined
<1>9. Len(w) \in Nat /\ Len(out) \in Nat /\ n \in 1 .. Len(out) /\ Len(v) = Len(w) + n
  BY <1>2, <1>4
<1>10. Len(s) = Len(t) BY <1>2, <1>6, <1>8, <1>9
<1>11. ASSUME NEW j \in 1 .. Len(s) PROVE s[j] = t[j]
  <2>1. j \in 1 .. Len(w) + Len(out) BY <1>8, <1>10
  <2>2. CASE j <= Len(w)
    <3>1. j \in 1 .. Len(w) /\ j \in 1 .. Len(v) BY <1>9, <2>1, <2>2
    <3> QED BY <1>4, <1>6, <1>8, <3>1
  <2>3. CASE j > Len(w) /\ j <= Len(w) + n
    <3>1. PICK m \in 1 .. n : j = Len(w) + m
      <4>1. j - Len(w) \in 1 .. n /\ j = Len(w) + (j - Len(w)) BY <1>9, <2>1, <2>3
      <4> QED BY <4>1
    <3>2. j \in 1 .. Len(v) /\ m \in 1 .. Len(x) /\ m \in 1 .. Len(out)
      BY <1>2, <1>9, <2>3, <3>1
    <3>3. s[j] = v[j] BY <1>6, <3>2
    <3>4. v[Len(w) + m] = x[m] /\ x[m] = out[m] BY <1>2, <1>4, <3>2
    <3>5. t[Len(w) + m] = out[m] BY <1>8, <3>2
    <3> QED BY <3>1, <3>3, <3>4, <3>5
  <2>4. CASE j > Len(w) + n
    <3>1. PICK m \in 1 .. Len(rest) : j = Len(v) + m
      <4>1. j - Len(v) \in 1 .. Len(rest) /\ j = Len(v) + (j - Len(v))
        BY <1>2, <1>9, <2>1, <2>4
      <4> QED BY <4>1
    <3>2. n + m \in 1 .. Len(out) /\ j = Len(w) + (n + m) BY <1>2, <1>9, <3>1
    <3>3. s[Len(v) + m] = rest[m] /\ rest[m] = out[n + m] BY <1>2, <1>6
    <3>4. t[Len(w) + (n + m)] = out[n + m] BY <1>8, <3>2
    <3> QED BY <3>1, <3>2, <3>3, <3>4
  <2> QED BY <1>9, <2>1, <2>2, <2>3, <2>4
<1>12. s = t BY <1>6, <1>8, <1>10, <1>11, SeqEqual, Zenon
<1>13. v \o rest = w \o out BY <1>5, <1>7, <1>12, Zenon
<1>14. Len(v) + Len(rest) = Len(w) + Len(out) BY <1>6, <1>8, <1>10
<1> QED BY <1>13, <1>14, Zenon DEF SameAnswers

(* What is left when a request was answered begins with the next one.      *)
LEMMA RestHolds ==
  ASSUME NEW k \in Conn, NEW b \in Nat, NEW buf \in Seq(Units(k)), Holds(k, b, buf),
         NEW m \in Nat, m <= Len(buf)
  PROVE  LET rest == SubSeq(buf, m + 1, Len(buf)) IN
         Holds(k, b + m, rest) /\ (b + m) + Len(rest) = b + Len(buf)
<1> DEFINE rest == SubSeq(buf, m + 1, Len(buf))
<1>1. Len(buf) \in Nat /\ Len(Stream[k]) \in Nat BY UnitsTyped
<1>2. Len(rest) = Len(buf) - m /\ \A j \in 1 .. Len(buf) - m : rest[j] = buf[m + j]
  BY <1>1
<1> HIDE DEF rest
<1>3. b + Len(buf) <= Len(Stream[k]) /\ \A j \in 1 .. Len(buf) : buf[j] = Stream[k][b + j]
  BY DEF Holds
<1>4. (b + m) + Len(rest) = b + Len(buf) BY <1>1, <1>2
<1>5. ASSUME NEW j \in 1 .. Len(rest) PROVE rest[j] = Stream[k][(b + m) + j]
  <2>1. m + j \in 1 .. Len(buf) /\ j \in 1 .. Len(buf) - m /\ b + (m + j) = (b + m) + j
    BY <1>1, <1>2
  <2> QED BY <1>2, <1>3, <2>1
<1>6. Holds(k, b + m, rest) BY <1>3, <1>4, <1>5 DEF Holds
<1> QED BY <1>4, <1>6 DEF rest

(* What is sent leaves the connection at its request or at the next one.   *)
LEMMA ShipsInOrder ==
  ASSUME NEW k \in Conn, client[k] \in ClientOf(k), wire[k] \in Seq(OutUnit),
         NEW b, NEW i, NEW r, Serves(k, b, i, client[k], r, wire[k]), Ships(k)
  PROVE  \E e, h \in Nat : Serves(k, e, h, client'[k], r, wire'[k])
<1> DEFINE c == client[k]
           out == c.outBuff
           w == wire[k]
<1>1. /\ b \in Nat /\ i \in Nat \ {0} /\ Begins(k, b, i) /\ Holds(k, b, c.inBuff)
      /\ b + Len(c.inBuff) = r
      /\ IF c.queued THEN Answering(k, i, c, w) ELSE Listening(k, i, c, w)
  BY DEF Serves
<1>2. out \in Seq(OutUnit) /\ c.inBuff \in Seq(Units(k)) /\ w \in Seq(OutUnit)
  BY DEF ClientOf
<1>3. Len(out) \in Nat /\ Len(w) \in Nat /\ Len(c.inBuff) \in Nat BY <1>2
<1>4. CASE \E n \in 1 .. Len(out) - 1 :
             /\ wire'[k] = w \o SubSeq(out, 1, n)
             /\ client'[k] = [c EXCEPT !.outBuff = SubSeq(out, n + 1, Len(out))]
  <2>1. PICK n \in 1 .. Len(out) - 1 :
          /\ wire'[k] = w \o SubSeq(out, 1, n)
          /\ client'[k] = [c EXCEPT !.outBuff = SubSeq(out, n + 1, Len(out))]
    BY <1>4
  <2>2. out # << >> /\ n \in 1 .. Len(out) BY <1>2, <1>3
  <2>3. c.queued /\ Answering(k, i, c, w) BY <1>1, <2>2, Zenon DEF Listening, out
  <2>4. PICK rest : rest = SubSeq(out, n + 1, Len(out)) OBVIOUS
  <2>5. PICK d : d = client'[k] OBVIOUS
  <2> HIDE DEF w, out
  <2>6. /\ wire'[k] \o rest = w \o out /\ Len(wire'[k]) + Len(rest) = Len(w) + Len(out)
    <3>1. w \in Seq(OutUnit) /\ out \in Seq(OutUnit) BY <1>2
    <3>2. PICK v : v = wire'[k] OBVIOUS
    <3>3. SentPart(w, out, n, v, rest) BY <2>1, <2>4, <3>2, Zenon DEF SentPart
    <3>4. SameAnswers(w, out, v, rest) BY <2>2, <3>1, <3>3, SentInParts, Zenon
    <3> QED BY <3>2, <3>4, Zenon DEF SameAnswers
  <2>7. d = [c EXCEPT !.outBuff = rest] BY <2>1, <2>4, <2>5
  <2> HIDE DEF c
  <2>8. c \in ClientOf(k) BY DEF c
  <2>9. /\ d.outBuff = rest /\ d.inBuff = c.inBuff /\ d.queued = c.queued
        /\ d.consumed = c.consumed
    BY <2>7, <2>8 DEF ClientOf
  <2>10. Answering(k, i, d, wire'[k]) BY <2>3, <2>6, <2>9 DEF Answering, out
  <2>11. d.queued BY <2>3, <2>9, Zenon
  <2>12. Serves(k, b, i, d, r, wire'[k]) BY <1>1, <2>9, <2>10, <2>11 DEF Serves
  <2> QED BY <1>1, <2>5, <2>12
<1>5. CASE wire'[k] = w \o out /\ client'[k] = ResetKeepAlive(c)
  <2> DEFINE rest == SubSeq(c.inBuff, c.consumed + 1, Len(c.inBuff))
  <2>1. PICK d : d = client'[k] OBVIOUS
  <2>2. c.consumed \in Nat /\ c.consumed <= Len(c.inBuff)
    <3>1. c.consumed \in Nat BY DEF ClientOf
    <3>2. CASE c.queued BY <1>1, <3>1, <3>2 DEF Answering
    <3>3. CASE ~c.queued
      <4>1. c.consumed = 0 BY <1>1, <3>3 DEF Listening
      <4> QED BY <1>3, <4>1
    <3> QED BY <3>1, <3>2, <3>3
  <2>3. d = [NewClient EXCEPT !.inBuff = rest] BY <1>5, <2>1, <2>2 DEF ResetKeepAlive
  <2>4. Holds(k, b + c.consumed, rest) /\ (b + c.consumed) + Len(rest) = b + Len(c.inBuff)
    <3>1. PICK m, buf : m = c.consumed /\ buf = c.inBuff OBVIOUS
    <3>2. /\ m \in Nat /\ m <= Len(buf) /\ buf \in Seq(Units(k))
          /\ b \in Nat /\ Holds(k, b, buf)
      BY <1>1, <1>2, <2>2, <3>1
    <3>3. PICK t : t = SubSeq(buf, m + 1, Len(buf)) OBVIOUS
    <3>4. Holds(k, b + m, t) /\ (b + m) + Len(t) = b + Len(buf)
      BY <3>2, <3>3, RestHolds
    <3> QED BY <3>1, <3>3, <3>4
  <2> HIDE DEF rest
  <2>5. /\ d.inBuff = rest /\ d.queued = FALSE /\ d.outBuff = << >> /\ d.consumed = 0
        /\ d.parsePos = 0
    BY <2>3 DEF NewClient
  <2>6. CASE c.queued
    <3>1. /\ InOrder(w \o out) /\ Len(w) + Len(out) = 2 * i /\ c.consumed = Size(k, i)
      BY <1>1, <2>6 DEF Answering
    <3> HIDE DEF w, out
    <3>2. Len(w \o out) = Len(w) + Len(out) BY <1>2, AnswersJoined
    <3>3. Len(w \o out) = 2 * ((i + 1) - 1) BY <1>1, <3>1, <3>2
    <3>4. Listening(k, i + 1, d, w \o out) BY <2>5, <3>1, <3>3 DEF Listening
    <3>5. Begins(k, b + c.consumed, i + 1)
      <4>1. Len(Stream[k]) \in Nat BY UnitsTyped
      <4>2. b + Size(k, i) <= Len(Stream[k]) /\ b <= Len(Stream[k])
        <5>1. b + Len(c.inBuff) <= Len(Stream[k]) BY <1>1 DEF Holds
        <5>2. PICK x, y, z : x = Size(k, i) /\ y = Len(c.inBuff) /\ z = Len(Stream[k]) OBVIOUS
        <5>3. x \in Nat /\ y \in Nat /\ z \in Nat /\ x <= y /\ b \in Nat /\ b + y <= z
          BY <1>1, <1>3, <2>2, <3>1, <4>1, <5>1, <5>2
        <5>4. b + x <= z /\ b <= z BY <5>3
        <5> QED BY <5>2, <5>4
      <4>3. CASE b < Len(Stream[k]) BY <1>1, <3>1, <4>2, <4>3, RequestUnits
      <4>4. CASE b = Len(Stream[k])
        <5>1. ~(b + c.consumed < Len(Stream[k])) BY <1>1, <2>2, <4>1, <4>4
        <5> QED BY <5>1 DEF Begins
      <4> QED BY <1>1, <4>1, <4>2, <4>3, <4>4
    <3>6. b + c.consumed \in Nat /\ i + 1 \in Nat \ {0} BY <1>1, <2>2
    <3>7. Serves(k, b + c.consumed, i + 1, d, r, w \o out)
      BY <1>1, <2>4, <2>5, <3>4, <3>5, <3>6 DEF Serves
    <3> QED BY <1>5, <2>1, <3>6, <3>7
  <2>7. CASE ~c.queued
    <3>1. InOrder(w) /\ Len(w) = 2 * (i - 1) /\ out = << >> /\ c.consumed = 0
      BY <1>1, <2>7 DEF Listening
    <3>2. w \o out = w BY <1>2, <3>1
    <3> HIDE DEF w, out
    <3>3. Listening(k, i, d, w) BY <2>5, <3>1 DEF Listening
    <3>4. b + c.consumed = b BY <1>1, <3>1
    <3>5. Serves(k, b, i, d, r, w) BY <1>1, <2>4, <2>5, <3>3, <3>4 DEF Serves
    <3> QED BY <1>1, <1>5, <2>1, <3>2, <3>5
  <2> QED BY <2>6, <2>7
<1> QED BY <1>4, <1>5 DEF Ships

(* The requests of the connection are answered without scripts.            *)
NoScripts(k) == \A i \in DOMAIN Plan[k] : ~Plan[k][i].cgi

(* Before it is accepted a connection is sent nothing; while it is open    *)
(* it is at one of its requests; then what was sent stays in order.        *)
Orderly(k) ==
  /\ InOrder(wire[k])
  /\ net[k].st \in {"idle", "backlog"} => net[k].read = 0 /\ wire[k] = << >>
  /\ net[k].st = "open" =>
       \E b, i \in Nat : Serves(k, b, i, client[k], net[k].read, wire[k])

(* What is sent to a connection in whatever state is in order.             *)
LEMMA ServedInOrder ==
  ASSUME NEW k \in Conn, NEW b, NEW i, NEW c \in ClientOf(k), NEW r,
         NEW w \in Seq(OutUnit), Serves(k, b, i, c, r, w)
  PROVE  InOrder(w) /\ InOrder(w \o c.outBuff)
<1>1. c.outBuff \in Seq(OutUnit) BY DEF ClientOf
<1>2. CASE c.queued
  <2>1. InOrder(w \o c.outBuff) BY <1>2 DEF Serves, Answering
  <2> QED BY <1>1, <2>1, BeginningInOrder
<1>3. CASE ~c.queued
  <2>1. InOrder(w) /\ c.outBuff = << >> BY <1>3 DEF Serves, Listening
  <2>2. w \o << >> = w OBVIOUS
  <2> QED BY <2>1, <2>2
<1> QED BY <1>2, <1>3

(* A fresh connection is at the start of its first request.                *)
LEMMA AcceptedServes ==
  ASSUME NEW k \in Conn PROVE Serves(k, 0, 1, NewClient, 0, << >>)
<1>1. Begins(k, 0, 1)
  <2> SUFFICES ASSUME 0 < Len(Stream[k]) PROVE Stream[k][1] = <<1, 1>> BY DEF Begins
  <2>1. Stream[k] # << >> OBVIOUS
  <2> QED BY <2>1, StreamInSequence DEF InSequence
<1>2. Holds(k, 0, << >>)
  <2>1. Len(Stream[k]) \in Nat BY UnitsTyped
  <2> QED BY <2>1 DEF Holds
<1>3. Listening(k, 1, NewClient, << >>) BY DEF Listening, NewClient, InOrder
<1> QED BY <1>1, <1>2, <1>3 DEF Serves, NewClient

(* Whatever happens to an orderly connection leaves it orderly.            *)
LEMMA OrderlyKept ==
  ASSUME Sound, Sound', NEW k \in Conn, NoScripts(k), Orderly(k), ConnStep(k)
  PROVE  Orderly(k)'
<1>1. /\ client[k] \in ClientOf(k) /\ NetKept(k, net[k]) /\ wire[k] \in Seq(OutUnit)
      /\ net[k] \in NetState
  BY DEF Sound, ContentInv, Buffers, Wires, NetKept
<1>2. client'[k] \in ClientOf(k) /\ wire'[k] \in Seq(OutUnit)
  BY DEF Sound, ContentInv, Buffers, Wires
<1>3. InOrder(wire[k]) BY DEF Orderly
<1>4. CASE Rests(k)
  <2>1. net'[k] = net[k] /\ client'[k] = client[k] /\ wire'[k] = wire[k]
    BY <1>4, Zenon DEF Rests
  <2> QED BY <2>1 DEF Orderly
<1>5. CASE PeerMoves(k)
  <2>1. client'[k] = client[k] /\ wire'[k] = wire[k] BY <1>5, Zenon DEF PeerMoves
  <2>2. /\ net'[k].read = net[k].read
        /\ \/ net'[k].st = net[k].st
           \/ net[k].st = "idle" /\ net'[k].st = "backlog"
    BY <1>1, <1>5 DEF PeerMoves, NetState
  <2> QED BY <1>1, <2>1, <2>2 DEF Orderly, NetState
<1>6. CASE Enters(k)
  <2>1. /\ net[k].st = "backlog" /\ net'[k] = [net[k] EXCEPT !.st = "open"]
        /\ client'[k] = NewClient /\ wire'[k] = wire[k]
    BY <1>6, Zenon DEF Enters
  <2>2. net'[k].st = "open" /\ net'[k].read = net[k].read BY <1>1, <2>1 DEF NetState
  <2>3. net[k].read = 0 /\ wire[k] = << >> BY <2>1 DEF Orderly
  <2>4. Serves(k, 0, 1, client'[k], net'[k].read, wire'[k])
    BY <2>1, <2>2, <2>3, AcceptedServes
  <2> QED BY <1>3, <2>1, <2>2, <2>4 DEF Orderly
<1>7. CASE Leaves(k)
  <2>1. /\ net[k].st = "open" /\ net'[k] = [net[k] EXCEPT !.st = "closed"]
        /\ wire'[k] = wire[k] \/ wire'[k] = wire[k] \o client[k].outBuff
    BY <1>7, Zenon DEF Leaves
  <2>2. net'[k].st = "closed" BY <1>1, <2>1 DEF NetState
  <2>3. PICK b, i \in Nat : Serves(k, b, i, client[k], net[k].read, wire[k])
    BY <2>1 DEF Orderly
  <2>4. InOrder(wire[k] \o client[k].outBuff) BY <1>1, <2>3, ServedInOrder, Zenon
  <2>5. InOrder(wire'[k]) BY <1>3, <2>1, <2>4, Zenon
  <2> QED BY <2>2, <2>5 DEF Orderly
<1>8. CASE Gets(k)
  <2>1. /\ net[k].st = "open" /\ net'[k] = [net[k] EXCEPT !.read = net[k].sent]
        /\ wire'[k] = wire[k] /\ Hearing(k)
    BY <1>8, Zenon DEF Gets
  <2>2. net'[k].st = "open" /\ net'[k].read = net[k].sent BY <1>1, <2>1 DEF NetState
  <2>3. PICK b, i \in Nat : Serves(k, b, i, client[k], net[k].read, wire[k])
    BY <2>1 DEF Orderly
  <2>4. Serves(k, b, i, client'[k], net[k].sent, wire[k])
    BY <1>1, <2>1, <2>3, HearsInOrder DEF NoScripts
  <2> QED BY <1>3, <2>1, <2>2, <2>4 DEF Orderly
<1>9. CASE Ships(k)
  <2>1. net[k].st = "open" /\ net'[k] = net[k] BY <1>9, Zenon DEF Ships
  <2>2. PICK b, i \in Nat : Serves(k, b, i, client[k], net[k].read, wire[k])
    BY <2>1 DEF Orderly
  <2>3. PICK e, h \in Nat : Serves(k, e, h, client'[k], net[k].read, wire'[k])
    BY <1>1, <1>9, <2>2, ShipsInOrder
  <2>4. InOrder(wire'[k]) BY <1>2, <2>3, ServedInOrder, Zenon
  <2> QED BY <2>1, <2>3, <2>4 DEF Orderly
<1>10. ~Informed(k)
  <2> SUFFICES ASSUME NEW p \in CGIMap, ctx[p].conn = k PROVE FALSE
    BY Zenon DEF Informed
  <2> QED BY DEF Sound, ContentInv, Owned, NoScripts
<1>11. ~Expires(k)
  <2> SUFFICES ASSUME NEW p \in CGIMap, ctx[p].conn = k PROVE FALSE
    BY Zenon DEF Expires
  <2> QED BY DEF Sound, ContentInv, Owned, NoScripts
<1> QED BY <1>4, <1>5, <1>6, <1>7, <1>8, <1>9, <1>10, <1>11 DEF ConnStep

(* Every connection that asks for no script is orderly: the invariant.     *)
AllOrderly == Sound /\ \A k \in Conn : NoScripts(k) => Orderly(k)

(* It holds at the start,                                                  *)
LEMMA InitOrderly == Init => AllOrderly
<1> SUFFICES ASSUME Init, NEW k \in Conn PROVE Orderly(k)
  BY InitSound DEF AllOrderly
<1>1. wire[k] = << >> /\ net[k].st = "idle" /\ net[k].read = 0 BY DEF Init
<1> QED BY <1>1 DEF Orderly, InOrder

(* and every step keeps it.                                                *)
LEMMA StepOrderly == AllOrderly /\ [Next]_vars => AllOrderly'
<1> SUFFICES ASSUME AllOrderly, [Next]_vars PROVE AllOrderly' OBVIOUS
<1>1. Sound' BY StepSound DEF AllOrderly
<1>2. CASE Next
  <2> SUFFICES ASSUME NEW k \in Conn, NoScripts(k) PROVE Orderly(k)'
    BY <1>1 DEF AllOrderly, NoScripts
  <2>1. ConnStep(k) BY <1>2, StepEffects DEF AllOrderly
  <2> QED BY <1>1, <2>1, OrderlyKept DEF AllOrderly
<1>3. CASE UNCHANGED vars
  BY <1>1, <1>3 DEF AllOrderly, Orderly, vars, outside, tables, NoScripts
<1> QED BY <1>2, <1>3

(* Each request a connection sends gets one answer, whole and in its turn, *)
(* whatever the others do and however its requests were cut into packets,  *)
(* when none of its own asks for a script.                                 *)
THEOREM ScriptlessAnswersInOrder ==
  Spec => [](\A k \in Conn : NoScripts(k) => InOrder(wire[k]))
<1>1. AllOrderly => \A k \in Conn : NoScripts(k) => InOrder(wire[k])
  BY DEF AllOrderly, Orderly
<1> QED BY <1>1, InitOrderly, StepOrderly, PTL DEF Spec

(* A server that runs no scripts sends every client its answers in order.  *)
THEOREM StaticAnswersInOrder ==
  ASSUME Static
  PROVE  Spec => []AnswersInOrder
<1>1. AllOrderly => AnswersInOrder
  BY DEF AllOrderly, Orderly, AnswersInOrder, NoScripts, Static
<1> QED BY <1>1, InitOrderly, StepOrderly, PTL DEF Spec

=============================================================================
