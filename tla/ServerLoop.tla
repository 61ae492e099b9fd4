------------------------------ MODULE ServerLoop ------------------------------
(***************************************************************************)
(* The event loop of the server: one process, one thread, one poll().      *)
(* A pass of the loop polls, sorts the ready descriptors into four lists   *)
(* and serves the lists in a fixed order (errors, listeners, readers,      *)
(* writers), then sweeps what has timed out.  Each descriptor served is    *)
(* one action here, so peers, scripts and clocks move between any two.     *)
(*                                                                         *)
(* Around the loop stands what it talks to: the descriptor table of the    *)
(* kernel, the TCP peers, and the CGI scripts behind their two pipes.      *)
(*                                                                         *)
(* Data is cut to what the loop tells apart.  A request is a number of     *)
(* head units, the last of which ends the headers, then body units; an     *)
(* answer is two units <<request, status, part>>.  recv() takes all that   *)
(* has arrived, send() any part of what is queued.  The order of the       *)
(* descriptors inside one list is left open.  A pid is not used twice.     *)
(***************************************************************************)
EXTENDS Integers, Sequences, FiniteSets, SequencesExt

CONSTANTS
  Conn,         \* TCP connections peers may open
  Pid,          \* processes fork() may return
  NoConn, NoPid,
  LastFd,       \* RLIMIT_NOFILE: descriptors are 0 .. LastFd
  Plan,         \* Plan[k]: the requests the peer of k sends, in order
  Timed,        \* connections whose listener has a client timeout
  MayReset,     \* connections whose peer may abort (RST)
  MayShut,      \* connections whose peer may half-close (FIN)
  Pipelines,    \* connections whose peer asks on before it has its answer
  MayDeafen,    \* a script may close its input before it has read it all
  ForkMayFail,
  PipeSize,     \* units a pipe holds
  MaxOut        \* units a script writes at most

Fd == 0 .. LastFd
Listener == 0

Request == [head : 1 .. 2, body : 0 .. 2, cgi : BOOLEAN, bad : BOOLEAN]

ASSUME ConnAssumption == NoConn \notin Conn
ASSUME PidAssumption == NoPid \notin Pid
ASSUME FdAssumption == LastFd \in Nat
ASSUME PlanAssumption == Plan \in [Conn -> Seq(Request)]
ASSUME PeerAssumption ==
  /\ Timed \subseteq Conn /\ MayReset \subseteq Conn /\ MayShut \subseteq Conn
  /\ Pipelines \subseteq Conn
  /\ MayDeafen \in BOOLEAN /\ ForkMayFail \in BOOLEAN
ASSUME SizeAssumption == PipeSize \in Nat \ {0} /\ MaxOut \in Nat

(* The bytes of a connection: unit <<i, j>> is the j-th of request i. *)
Stream ==
  [k \in Conn |->
     FlattenSeq([i \in DOMAIN Plan[k] |->
                   [j \in 1 .. Plan[k][i].head + Plan[k][i].body |-> <<i, j>>]])]

VARIABLES
  (* the kernel, the peers and the scripts *)
  fdTable,      \* fdTable[fd]: the object a descriptor stands for
  net,          \* net[k]: the TCP connection and the bytes on it
  script,       \* script[p]: the two pipes of a child and its ends of them
  wire,         \* wire[k]: the units the server has sent on k
  fed,          \* fed[p]: the connections whose body p was given
  (* the server *)
  up,           \* the process is alive
  interest,     \* the poll set (module PollSet)
  clientList,   \* descriptor -> connection (Client objects live in client)
  client,       \* the Client of a connection
  CGIbyRead, CGIbyWrite,   \* descriptor -> script
  CGIMap,       \* scripts with a CGIcontext
  ctx,          \* the descriptors a CGIcontext names, and whose they were
  job,          \* the rest of a CGIcontext: how far input and output are
  lateClients, lateCGI,    \* deadlines that have passed
  pc, errFds, readyListeners, readyReaders, readyWriters

outside == <<fdTable, net, script, wire, fed>>
tables  == <<interest, clientList, CGIbyRead, CGIbyWrite, CGIMap, ctx, job>>
ready   == <<pc, errFds, readyListeners, readyReaders, readyWriters>>
late    == <<lateClients, lateCGI>>
vars    == <<outside, up, tables, client, late, ready>>

Free     == <<"free", 0>>
Leaked   == <<"leak", 0>>
LSocket  == <<"listen", 0>>
Sock(k)  == <<"sock", k>>
Stdout(p) == <<"stdout", p>>   \* the end the server reads
Stdin(p)  == <<"stdin", p>>    \* the end the server writes

FreeFds == {fd \in Fd : fdTable[fd] = Free}

(* POSIX: a new descriptor is the lowest free one. *)
Lowest(S, fd) == fd \in S /\ \A g \in S : fd <= g

NewClient ==
  [closeFlag |-> FALSE, queued |-> FALSE, parsePos |-> 0, need |-> 0,
   inBuff |-> << >>, outBuff |-> << >>, consumed |-> 0,
   body |-> 0, status |-> "none"]

NoContext ==
  [clientFd |-> 0, conn |-> NoConn, fdRead |-> 0, fdWrite |-> 0]

NewJob(i) == [req |-> i, sendPos |-> 0, buffer |-> 0]

Init ==
  /\ fdTable = [fd \in Fd |-> IF fd = Listener THEN LSocket ELSE Free]
  /\ net = [k \in Conn |->
              [st |-> "idle", sent |-> 0, read |-> 0, fin |-> FALSE, rst |-> FALSE]]
  /\ script = [p \in Pid |-> [st |-> "none", rd |-> FALSE, wr |-> FALSE,
                              in |-> 0, out |-> 0, wrote |-> 0]]
  /\ wire = [k \in Conn |-> << >>]
  /\ fed = [p \in Pid |-> {}]
  /\ up = TRUE
  /\ interest = [fd \in Fd |-> IF fd = Listener THEN {"in"} ELSE {}]
  /\ clientList = [fd \in Fd |-> NoConn]
  /\ client = [k \in Conn |-> NewClient]
  /\ CGIbyRead = [fd \in Fd |-> NoPid]
  /\ CGIbyWrite = [fd \in Fd |-> NoPid]
  /\ CGIMap = {}
  /\ ctx = [p \in Pid |-> NoContext] /\ job = [p \in Pid |-> NewJob(0)]
  /\ lateClients = {} /\ lateCGI = {}
  /\ pc = "poll"
  /\ errFds = {} /\ readyListeners = {} /\ readyReaders = {} /\ readyWriters = {}

-----------------------------------------------------------------------------
(* The peers, the scripts and the clock.                                   *)

server == <<up, tables, client, ready>>

Connect(k) ==
  /\ up /\ net[k].st = "idle"
  /\ net' = [net EXCEPT ![k].st = "backlog"]
  /\ UNCHANGED <<fdTable, script, wire, fed, server, late>>

Talking(k) == up /\ net[k].st \in {"backlog", "open"} /\ ~net[k].rst

(* The last part of an answer to request i has left. *)
Answered(k, i) == \E n \in DOMAIN wire[k] : wire[k][n][1] = i /\ wire[k][n][3] = 2

PeerSend(k) ==
  /\ Talking(k) /\ ~net[k].fin /\ net[k].sent < Len(Stream[k])
  /\ LET unit == Stream[k][net[k].sent + 1] IN
     k \in Pipelines \/ unit = <<1, 1>> \/ unit[2] > 1 \/ Answered(k, unit[1] - 1)
  /\ net' = [net EXCEPT ![k].sent = @ + 1]
  /\ UNCHANGED <<fdTable, script, wire, fed, server, late>>

PeerShut(k) ==
  /\ k \in MayShut /\ Talking(k) /\ ~net[k].fin
  /\ net' = [net EXCEPT ![k].fin = TRUE]
  /\ UNCHANGED <<fdTable, script, wire, fed, server, late>>

PeerReset(k) ==
  /\ k \in MayReset /\ Talking(k)
  /\ net' = [net EXCEPT ![k].rst = TRUE]
  /\ UNCHANGED <<fdTable, script, wire, fed, server, late>>

ScriptReads(p) ==
  /\ up /\ script[p].rd /\ script[p].in > 0
  /\ script' = [script EXCEPT ![p].in = 0]
  /\ UNCHANGED <<fdTable, net, wire, fed, server, late>>

ScriptWrites(p) ==
  /\ up /\ script[p].wr /\ script[p].wrote < MaxOut /\ script[p].out < PipeSize
  /\ script' = [script EXCEPT ![p].out = @ + 1, ![p].wrote = @ + 1]
  /\ UNCHANGED <<fdTable, net, wire, fed, server, late>>

(* The script has had its whole body: the server closed the other end. *)
AtEndOfInput(p) == script[p].in = 0 /\ \A fd \in Fd : fdTable[fd] # Stdin(p)

ScriptClosesInput(p) ==
  /\ up /\ script[p].rd /\ (MayDeafen \/ AtEndOfInput(p))
  /\ script' = [script EXCEPT ![p].rd = FALSE, ![p].in = 0]
  /\ UNCHANGED <<fdTable, net, wire, fed, server, late>>

ScriptClosesOutput(p) ==
  /\ up /\ script[p].wr
  /\ script' = [script EXCEPT ![p].wr = FALSE]
  /\ UNCHANGED <<fdTable, net, wire, fed, server, late>>

ClientDeadline(k) ==
  /\ up /\ k \in Timed \ lateClients /\ net[k].st = "open"
  /\ lateClients' = lateClients \cup {k}
  /\ UNCHANGED <<outside, server, lateCGI>>

ScriptDeadline(p) ==
  /\ up /\ p \in CGIMap \ lateCGI
  /\ lateCGI' = lateCGI \cup {p}
  /\ UNCHANGED <<outside, server, lateClients>>
-----------------------------------------------------------------------------
(* poll() and the sorting of its answer.                                   *)

Available(fd) ==
  LET obj == fdTable[fd] IN
  CASE obj = LSocket ->
         IF \E k \in Conn : net[k].st = "backlog" THEN {"in"} ELSE {}
    [] obj[1] = "sock" ->
         LET n == net[obj[2]] IN
         IF n.rst THEN {"in", "out", "err", "hup"}
         ELSE {"out"} \cup (IF n.read < n.sent \/ n.fin THEN {"in"} ELSE {})
    [] obj[1] = "stdout" ->
         LET s == script[obj[2]] IN
         (IF s.out > 0 THEN {"in"} ELSE {}) \cup (IF s.wr THEN {} ELSE {"hup"})
    [] obj[1] = "stdin" ->
         LET s == script[obj[2]] IN
         IF ~s.rd THEN {"out", "err"}
         ELSE IF s.in < PipeSize THEN {"out"} ELSE {}
    [] OTHER -> {}

Revents(fd) == Available(fd) \cap (interest[fd] \cup {"err", "hup"})

Registered == {fd \in Fd : interest[fd] # {}}

Ready == {fd \in Registered : Revents(fd) # {}}

Exceptional(fd) == Revents(fd) \cap {"err", "hup"} # {}

IsClient(fd) == clientList[fd] # NoConn
IsCGI(fd) == CGIbyRead[fd] # NoPid \/ CGIbyWrite[fd] # NoPid

(* Faulty sortings: errors only logged; an error-ish descriptor sorted     *)
(* further instead of skipped.                                             *)
ErrorsLogged == {}
ReadersErrorsToo ==
  {fd \in Ready : "in" \in Revents(fd) /\ (IsClient(fd) \/ CGIbyRead[fd] # NoPid)}
WritersErrorsToo ==
  {fd \in Ready : "out" \in Revents(fd) /\ (IsClient(fd) \/ CGIbyWrite[fd] # NoPid)}

(* An error-ish event on a CGI descriptor is left to the readers, and only *)
(* if there is something to read or a hang-up; POLLERR alone, which is all *)
(* the write end of a pipe ever reports, is dropped.                       *)
Errors  == {fd \in Ready : Exceptional(fd) /\ ~IsCGI(fd) /\ fd # Listener}
Readers == {fd \in Ready :
              IF Exceptional(fd) THEN IsCGI(fd) /\ Revents(fd) \cap {"in", "hup"} # {}
              ELSE "in" \in Revents(fd) /\ (IsClient(fd) \/ CGIbyRead[fd] # NoPid)}
Writers == {fd \in Ready : /\ ~Exceptional(fd) /\ "out" \in Revents(fd)
                           /\ IsClient(fd) \/ CGIbyWrite[fd] # NoPid}

Poll ==
  /\ up /\ pc = "poll" /\ Ready # {}
  /\ pc' = "dispatch"
  /\ errFds' = Errors
  /\ readyListeners' = Ready \cap {Listener}
  /\ readyReaders' = Readers
  /\ readyWriters' = Writers
  /\ UNCHANGED <<outside, up, tables, client, late>>

(* The lists are served in order: a step of one waits for those before it. *)
InErrors(fd)    == up /\ fd \in errFds
InListeners     == up /\ errFds = {} /\ Listener \in readyListeners
InReaders(fd)   == up /\ errFds = {} /\ readyListeners = {} /\ fd \in readyReaders
InWriters(fd)   == /\ up /\ errFds = {} /\ readyListeners = {} /\ readyReaders = {}
                   /\ fd \in readyWriters
PassServed      == /\ errFds = {} /\ readyListeners = {} /\ readyReaders = {}
                   /\ readyWriters = {}

(* A reader that was served is not served again as a writer (touched).     *)
Touch(fd) ==
  /\ readyReaders' = readyReaders \ {fd}
  /\ readyWriters' = readyWriters \ {fd}
  /\ UNCHANGED <<pc, errFds, readyListeners>>

DoneWriting(fd) ==
  /\ readyWriters' = readyWriters \ {fd}
  /\ UNCHANGED <<pc, errFds, readyListeners, readyReaders>>

(* A signal or the address sanitizer ends the process.                     *)
Abort == up' = FALSE /\ UNCHANGED <<outside, tables, client, late, ready>>

-----------------------------------------------------------------------------
(* Clients.                                                                *)

(* closeClient_: the contexts of its scripts, if any, stay.                *)
CloseClient(fd) ==
  LET k == clientList[fd] IN
  /\ interest' = [interest EXCEPT ![fd] = {}]
  /\ clientList' = [clientList EXCEPT ![fd] = NoConn]
  /\ fdTable' = [fdTable EXCEPT ![fd] = Free]
  /\ net' = [net EXCEPT ![k].st = "closed"]
  /\ client' = [client EXCEPT ![k] = NewClient]
  /\ lateClients' = lateClients \ {k}
  /\ UNCHANGED <<script, fed, up, CGIbyRead, CGIbyWrite, CGIMap, ctx, job, lateCGI>>

CloseBroken(fd) ==
  /\ InErrors(fd)
  /\ CloseClient(fd)
  /\ errFds' = errFds \ {fd}
  /\ UNCHANGED <<wire, pc, readyListeners, readyReaders, readyWriters>>

Accept(k) ==
  /\ InListeners /\ net[k].st = "backlog"
  /\ \E fd \in Fd :
       /\ Lowest(FreeFds, fd)
       /\ fdTable' = [fdTable EXCEPT ![fd] = Sock(k)]
       /\ interest' = [interest EXCEPT ![fd] = {"in"}]
       /\ clientList' = [clientList EXCEPT ![fd] = k]
  /\ net' = [net EXCEPT ![k].st = "open"]
  /\ client' = [client EXCEPT ![k] = NewClient]
  /\ UNCHANGED <<script, wire, fed, up, CGIbyRead, CGIbyWrite, CGIMap, ctx, job, late, ready>>

(* EAGAIN: nobody waits; EMFILE: no descriptor is left for who waits.      *)
AcceptEnds ==
  /\ InListeners
  /\ FreeFds = {} \/ \A k \in Conn : net[k].st # "backlog"
  /\ readyListeners' = {}
  /\ UNCHANGED <<outside, up, tables, client, late, pc, errFds, readyReaders, readyWriters>>

Unread(k) == SubSeq(Stream[k], net[k].read + 1, net[k].sent)

(* Where the headers of the buffered request end; 0 while they have not.   *)
HeadersEnd(k, buf) ==
  LET ends == {n \in DOMAIN buf : buf[n][2] = Plan[k][buf[n][1]].head}
  IN  IF ends = {} THEN 0 ELSE CHOOSE n \in ends : \A m \in ends : n <= m

MarkHeaders(k, c) ==
  LET pos == HeadersEnd(k, c.inBuff) IN
  IF c.parsePos > 0 \/ pos = 0 THEN c
  ELSE [c EXCEPT !.parsePos = pos, !.need = Plan[k][c.inBuff[pos][1]].body]

Received(k) == MarkHeaders(k, [client[k] EXCEPT !.inBuff = @ \o Unread(k)])

Whole(c) == c.parsePos > 0 /\ Len(c.inBuff) - c.parsePos >= c.need

Current(c) == c.inBuff[1][1]

(* HttpRequestParser: a request object filled before gets its Host twice,  *)
(* and bytes behind a request without a body count as a forbidden body.    *)
Rejected(k, c) ==
  LET r == Plan[k][Current(c)] IN
  r.bad \/ c.body # 0 \/ (r.body = 0 /\ Len(c.inBuff) > c.parsePos)

Answer(i, status) == <<<<i, status, 1>>, <<i, status, 2>>>>

Queue(c, i, status) ==
  [c EXCEPT !.outBuff = Answer(i, status), !.queued = TRUE, !.status = status]

(* What every branch of readOnce_ that got bytes does first.               *)
Receive(k, c) ==
  /\ client' = [client EXCEPT ![k] = c]
  /\ net' = [net EXCEPT ![k].read = net[k].sent]
  /\ lateClients' = lateClients \ {k}
  /\ UNCHANGED <<wire, fed, clientList, lateCGI>>

ReadError(fd) ==
  /\ InReaders(fd) /\ IsClient(fd) /\ net[clientList[fd]].rst
  /\ Touch(fd)
  /\ UNCHANGED <<outside, up, tables, client, late>>

(* End of stream: the loop only stops listening for input.                 *)
ReadEof(fd) ==
  LET k == clientList[fd] IN
  /\ InReaders(fd) /\ IsClient(fd)
  /\ ~net[k].rst /\ Unread(k) = << >>
  /\ interest' = [interest EXCEPT ![fd] = {"out"}]
  /\ Touch(fd)
  /\ UNCHANGED <<outside, up, clientList, CGIbyRead, CGIbyWrite, CGIMap, ctx, job, client, late>>

GotBytes(fd) ==
  /\ InReaders(fd) /\ IsClient(fd)
  /\ ~net[clientList[fd]].rst /\ Unread(clientList[fd]) # << >>

(* While an answer is queued, or until the request is whole, the bytes are *)
(* only kept.                                                              *)
ReadKeeps(fd) ==
  LET k == clientList[fd] IN
  /\ GotBytes(fd)
  /\ IF client[k].queued
     THEN Receive(k, [client[k] EXCEPT !.inBuff = @ \o Unread(k)])
     ELSE ~Whole(Received(k)) /\ Receive(k, Received(k))
  /\ Touch(fd)
  /\ UNCHANGED <<fdTable, script, up, interest, CGIbyRead, CGIbyWrite, CGIMap, ctx, job>>

(* A faulty guard: serve the next request while an answer is queued.       *)
GotRequestWhileQueued(fd) == GotBytes(fd) /\ Whole(Received(clientList[fd]))

GotRequest(fd) ==
  LET k == clientList[fd] IN
  GotBytes(fd) /\ ~client[k].queued /\ Whole(Received(k))

(* The client once its request is parsed and counted as consumed.          *)
Parsed(k) ==
  LET c == Received(k) IN
  [c EXCEPT !.consumed = c.parsePos + c.need,
            !.body = IF @ = 0 THEN Current(c) ELSE @]

(* The events a client with a queued answer is polled for; the faulty      *)
(* variant forgets the output.                                             *)
ReplyingInputOnly == {"in"}
Replying == {"in", "out"}

ReadAndAnswer(fd) ==
  LET k == clientList[fd]
      c == Received(k)
      i == Current(c)
  IN
  /\ GotRequest(fd)
  /\ Rejected(k, c) \/ ~Plan[k][i].cgi
  /\ Receive(k, IF Rejected(k, c)
                THEN [Queue(Parsed(k), i, "400") EXCEPT !.closeFlag = TRUE]
                ELSE Queue(Parsed(k), i, "200"))
  /\ interest' = [interest EXCEPT ![fd] = Replying]
  /\ Touch(fd)
  /\ UNCHANGED <<fdTable, script, up, CGIbyRead, CGIbyWrite, CGIMap, ctx, job>>

-----------------------------------------------------------------------------
(* Starting a script.  The two pipes take the four lowest free             *)
(* descriptors; the child gets the first and the last, the parent keeps    *)
(* the second to write and the third to read.                              *)

GotCGIRequest(fd) ==
  LET k == clientList[fd] IN
  /\ GotRequest(fd)
  /\ ~Rejected(k, Received(k)) /\ Plan[k][Current(Received(k))].cgi

Pipes(a, w, r, b) ==
  /\ Lowest(FreeFds, a) /\ Lowest(FreeFds \ {a}, w)
  /\ Lowest(FreeFds \ {a, w}, r) /\ Lowest(FreeFds \ {a, w, r}, b)

StartCGI(fd, p) ==
  LET k == clientList[fd]
      i == Current(Received(k))
  IN
  /\ GotCGIRequest(fd) /\ script[p].st = "none"
  /\ \E a, w, r, b \in Fd :
       /\ Pipes(a, w, r, b)
       /\ fdTable' = [fdTable EXCEPT ![w] = Stdin(p), ![r] = Stdout(p)]
       /\ interest' = [interest EXCEPT ![w] = {"out"}, ![r] = {"in"}]
       /\ CGIbyRead' = [CGIbyRead EXCEPT ![r] = p]
       /\ CGIbyWrite' = [CGIbyWrite EXCEPT ![w] = p]
       /\ ctx' = [ctx EXCEPT ![p] =
                    [clientFd |-> fd, conn |-> k, fdRead |-> r, fdWrite |-> w]]
  /\ job' = [job EXCEPT ![p] = NewJob(i)]
  /\ CGIMap' = CGIMap \cup {p}
  /\ script' = [script EXCEPT ![p] = [st |-> "run", rd |-> TRUE, wr |-> TRUE,
                                      in |-> 0, out |-> 0, wrote |-> 0]]
  /\ Receive(k, Parsed(k))
  /\ Touch(fd)
  /\ UNCHANGED up

(* EMFILE in pipe(): execCGI returns as if all were well.  The first pipe, *)
(* if it was made, is never closed, and nothing is queued for the client.  *)
PipeFails(fd) ==
  LET k == clientList[fd] IN
  /\ GotCGIRequest(fd) /\ Cardinality(FreeFds) < 4
  /\ fdTable' = IF Cardinality(FreeFds) < 2 THEN fdTable
                ELSE [g \in Fd |-> IF \/ Lowest(FreeFds, g)
                                      \/ \E h \in Fd : /\ Lowest(FreeFds, h)
                                                       /\ Lowest(FreeFds \ {h}, g)
                                   THEN Leaked ELSE fdTable[g]]
  /\ Receive(k, Parsed(k))
  /\ Touch(fd)
  /\ UNCHANGED <<script, up, interest, CGIbyRead, CGIbyWrite, CGIMap, ctx, job>>

(* CGISimpleException is caught by main() only: the server ends.           *)
ForkFails(fd) ==
  /\ ForkMayFail /\ GotCGIRequest(fd) /\ Cardinality(FreeFds) >= 4
  /\ Abort

-----------------------------------------------------------------------------
(* The output of a script.                                                 *)

(* A faulty variant that forgets close().                                  *)
CloseCGIReadStillOpen(p) ==
  /\ CGIbyRead' = [CGIbyRead EXCEPT ![ctx[p].fdRead] = NoPid]
  /\ CGIMap' = IF CGIbyWrite[ctx[p].fdWrite] = NoPid THEN CGIMap \ {p} ELSE CGIMap
  /\ lateCGI' = lateCGI \cap CGIMap'
  /\ UNCHANGED <<fdTable, CGIbyWrite>>

(* closeCGIRead and closeCGIWrite: the context goes with its second side.  *)
CloseCGIRead(p) ==
  LET r == ctx[p].fdRead IN
  /\ fdTable' = [fdTable EXCEPT ![r] = Free]
  /\ CGIbyRead' = [CGIbyRead EXCEPT ![r] = NoPid]
  /\ CGIMap' = IF CGIbyWrite[ctx[p].fdWrite] = NoPid THEN CGIMap \ {p} ELSE CGIMap
  /\ lateCGI' = lateCGI \cap CGIMap'
  /\ UNCHANGED CGIbyWrite

CloseCGIWrite(p) ==
  LET w == ctx[p].fdWrite IN
  /\ fdTable' = [fdTable EXCEPT ![w] = Free]
  /\ CGIbyWrite' = [CGIbyWrite EXCEPT ![w] = NoPid]
  /\ CGIMap' = IF CGIbyRead[ctx[p].fdRead] = NoPid THEN CGIMap \ {p} ELSE CGIMap
  /\ lateCGI' = lateCGI \cap CGIMap'
  /\ interest' = [interest EXCEPT ![w] = {}]
  /\ UNCHANGED CGIbyRead

CGIReaderReady(fd) == InReaders(fd) /\ ~IsClient(fd) /\ CGIbyRead[fd] # NoPid

(* A faulty look-up that takes the last client in the list.            *)
OwnerLast(p) ==
  LET clients == {fd \in Fd : IsClient(fd)} IN
  IF clients = {} THEN NoConn
  ELSE clientList[CHOOSE fd \in clients : \A g \in clients : g <= fd]

(* The client a context was made for, if it is still there; another one    *)
(* may have its descriptor, and then response_ dangles.                    *)
Owner(p) == clientList[ctx[p].clientFd]
Dangling(p) == Owner(p) \notin {NoConn, ctx[p].conn}

(* A faulty append of the whole buffer, whatever read() returned.          *)
ReadOutputWholeBuffer(fd) ==
  LET p == CGIbyRead[fd] IN
  /\ CGIReaderReady(fd) /\ script[p].out > 0
  /\ job' = [job EXCEPT ![p].buffer = @ + PipeSize + 1]
  /\ script' = [script EXCEPT ![p].out = 0]
  /\ Touch(fd)
  /\ UNCHANGED <<fdTable, net, wire, fed, up, interest, clientList, CGIbyRead,
                 CGIbyWrite, CGIMap, ctx, client, late>>

ReadOutput(fd) ==
  LET p == CGIbyRead[fd] IN
  /\ CGIReaderReady(fd) /\ script[p].out > 0
  /\ job' = [job EXCEPT ![p].buffer = @ + script[p].out]
  /\ script' = [script EXCEPT ![p].out = 0]
  /\ Touch(fd)
  /\ UNCHANGED <<fdTable, net, wire, fed, up, interest, clientList, CGIbyRead,
                 CGIbyWrite, CGIMap, ctx, client, late>>

(* A faulty end of output: the hang-up, without reading what is left.      *)
OutputEndsAtHangup(fd) == CGIReaderReady(fd) /\ ~script[CGIbyRead[fd]].wr

OutputEnds(fd) == CGIReaderReady(fd) /\ script[CGIbyRead[fd]].out = 0

(* getHttpResponse keeps a status set before, as by a rejected second read *)
FinalStatus(k) == IF client[k].status = "400" THEN "400" ELSE "cgi"

AnswerFromScript(fd) ==
  LET p == CGIbyRead[fd]
      k == Owner(p)
  IN
  /\ OutputEnds(fd) /\ ~Dangling(p)
  /\ client' = IF k = NoConn THEN client
               ELSE [client EXCEPT ![k] = Queue(@, job[p].req, FinalStatus(k))]
  /\ interest' = [g \in Fd |-> IF g = ctx[p].fdRead THEN {}
                               ELSE IF k # NoConn /\ g = ctx[p].clientFd THEN Replying
                               ELSE interest[g]]
  /\ CloseCGIRead(p)
  /\ Touch(fd)
  /\ UNCHANGED <<net, script, wire, fed, up, clientList, ctx, job, lateClients>>

AnswerIntoDangling(fd) ==
  /\ OutputEnds(fd) /\ Dangling(CGIbyRead[fd])
  /\ Abort

-----------------------------------------------------------------------------
(* The input of a script.                                                  *)

CGIWriterReady(fd) == InWriters(fd) /\ ~IsClient(fd) /\ CGIbyWrite[fd] # NoPid

(* request.getBody() of whoever has the client's descriptor now; with no   *)
(* client there the code reads past the end of clientList_, and the build  *)
(* aborts (FeedForNobody) or finds an empty string.                        *)
BodySize(k) ==
  IF k = NoConn THEN 0
  ELSE IF client[k].body = 0 THEN 0
  ELSE Plan[k][client[k].body].body

Smaller(a, b) == IF a <= b THEN a ELSE b

FeedScript(fd) ==
  LET p == CGIbyWrite[fd]
      k == Owner(p)
      n == Smaller(BodySize(k) - job[p].sendPos, PipeSize - script[p].in)
  IN
  /\ CGIWriterReady(fd)
  /\ k # NoConn /\ job[p].sendPos < BodySize(k)
  /\ script[p].rd
  /\ script' = [script EXCEPT ![p].in = @ + n]
  /\ job' = [job EXCEPT ![p].sendPos = @ + n]
  /\ fed' = [fed EXCEPT ![p] = @ \cup {k}]
  /\ DoneWriting(fd)
  /\ UNCHANGED <<fdTable, net, wire, up, interest, clientList, CGIbyRead,
                 CGIbyWrite, CGIMap, ctx, client, late>>

EndInput(fd) ==
  LET p == CGIbyWrite[fd] IN
  /\ CGIWriterReady(fd)
  /\ job[p].sendPos >= BodySize(Owner(p))
  /\ CloseCGIWrite(p)
  /\ DoneWriting(fd)
  /\ UNCHANGED <<net, script, wire, fed, up, clientList, ctx, job, client, lateClients>>

FeedForNobody(fd) ==
  /\ CGIWriterReady(fd) /\ Owner(CGIbyWrite[fd]) = NoConn
  /\ Abort

(* SIGPIPE: the script closed its input after poll() reported room in it.  *)
FeedDeafScript(fd) ==
  LET p == CGIbyWrite[fd] IN
  /\ CGIWriterReady(fd)
  /\ Owner(p) # NoConn /\ job[p].sendPos < BodySize(Owner(p))
  /\ ~script[p].rd
  /\ Abort

-----------------------------------------------------------------------------
(* Sending answers.                                                        *)

ClientWriterReady(fd) == InWriters(fd) /\ IsClient(fd)

(* The client record for the next request on the connection.  What has     *)
(* arrived behind this one stays in inBuff, and nobody looks at it.        *)
ResetKeepAlive(c) ==
  [NewClient EXCEPT
     !.inBuff = IF c.consumed <= Len(c.inBuff)
                THEN SubSeq(c.inBuff, c.consumed + 1, Len(c.inBuff))
                ELSE c.inBuff]

Unsent(fd, n) ==
  LET out == client[clientList[fd]].outBuff IN SubSeq(out, n + 1, Len(out))

Sends(fd, n) ==
  LET k == clientList[fd]
      c == client[k]
  IN
  /\ ClientWriterReady(fd)
  /\ IF c.outBuff = << >> THEN n = 0
     ELSE n \in 1 .. Len(c.outBuff) /\ ~net[k].rst
  /\ wire' = [wire EXCEPT ![k] = @ \o SubSeq(c.outBuff, 1, n)]
  /\ DoneWriting(fd)

SendPart(fd, n) ==
  LET k == clientList[fd] IN
  /\ Sends(fd, n) /\ Unsent(fd, n) # << >>
  /\ client' = [client EXCEPT ![k].outBuff = Unsent(fd, n)]
  /\ lateClients' = lateClients \ {k}
  /\ UNCHANGED <<fdTable, net, script, fed, up, tables, lateCGI>>

SendLastAndKeep(fd, n) ==
  LET k == clientList[fd] IN
  /\ Sends(fd, n) /\ Unsent(fd, n) = << >> /\ ~client[k].closeFlag
  /\ client' = [client EXCEPT ![k] = ResetKeepAlive(client[k])]
  /\ interest' = [interest EXCEPT ![fd] = {"in"}]
  /\ lateClients' = IF n > 0 THEN lateClients \ {k} ELSE lateClients
  /\ UNCHANGED <<fdTable, net, script, fed, up, clientList, CGIbyRead, CGIbyWrite,
                 CGIMap, ctx, job, lateCGI>>

SendLastAndClose(fd, n) ==
  /\ Sends(fd, n) /\ Unsent(fd, n) = << >> /\ client[clientList[fd]].closeFlag
  /\ CloseClient(fd)

(* A faulty variant that lets no failed send pass.                         *)
SendFailsFatally(fd) ==
  LET k == clientList[fd] IN
  /\ ClientWriterReady(fd) /\ client[k].outBuff # << >> /\ net[k].rst
  /\ Abort

(* The peer aborted after poll(): ECONNRESET, or EPIPE and with it SIGPIPE *)
(* if it had half-closed before.                                           *)
SendFails(fd) ==
  LET k == clientList[fd] IN
  /\ ClientWriterReady(fd) /\ client[k].outBuff # << >> /\ net[k].rst
  /\ IF net[k].fin THEN Abort
     ELSE CloseClient(fd) /\ DoneWriting(fd) /\ UNCHANGED wire

-----------------------------------------------------------------------------
(* sweepExpiredClients: what has timed out is answered with 504, killed    *)
(* and closed.  Without clients it returns at once.                        *)

(* Faulty sweeps: clients, or the scripts of living clients, are forgotten. *)
ToCloseNone == {}
ToKillOfClosed == {p \in CGIMap : \E fd \in Fd : /\ clientList[fd] \in lateClients
                                                /\ ctx[p].clientFd = fd}

ToClose == {fd \in Fd : clientList[fd] \in lateClients}
ToKill  == {p \in CGIMap : p \in lateCGI \/ ctx[p].clientFd \in ToClose}

(* closeCGI tests and closes descriptor numbers, whoever they belong to.   *)
KilledReads  == {fd \in Fd : CGIbyRead[fd] # NoPid
                             /\ \E p \in ToKill : ctx[p].fdRead = fd}
KilledWrites == {fd \in Fd : CGIbyWrite[fd] # NoPid
                             /\ \E p \in ToKill : ctx[p].fdWrite = fd}
Swept == ToClose \cup KilledReads \cup KilledWrites

TimedOut(k) == {p \in ToKill : Owner(p) = k}

(* The 504 overwrites whatever is still queued for the client.             *)
GatewayTimeout(k) ==
  LET p == CHOOSE q \in TimedOut(k) : \A s \in TimedOut(k) : job[s].req <= job[q].req
  IN  [Queue(client[k], job[p].req, "504") EXCEPT !.closeFlag = TRUE]

SweepEffect ==
  LET closed == {clientList[fd] : fd \in ToClose} IN
  /\ \A p \in ToKill : ~Dangling(p)
  /\ fdTable' = [fd \in Fd |-> IF fd \in Swept THEN Free ELSE fdTable[fd]]
  /\ interest' = [fd \in Fd |->
                     IF fd \in Swept THEN {}
                     ELSE IF IsClient(fd) /\ TimedOut(clientList[fd]) # {} THEN {"out"}
                     ELSE interest[fd]]
  /\ clientList' = [fd \in Fd |-> IF fd \in ToClose THEN NoConn ELSE clientList[fd]]
  /\ client' = [k \in Conn |->
                   IF k \in closed THEN NewClient
                   ELSE IF TimedOut(k) # {} THEN GatewayTimeout(k)
                   ELSE client[k]]
  /\ net' = [k \in Conn |->
                IF k \in closed THEN [net[k] EXCEPT !.st = "closed"] ELSE net[k]]
  /\ CGIbyRead' = [fd \in Fd |-> IF fd \in KilledReads THEN NoPid ELSE CGIbyRead[fd]]
  /\ CGIbyWrite' = [fd \in Fd |-> IF fd \in KilledWrites THEN NoPid ELSE CGIbyWrite[fd]]
  /\ CGIMap' = CGIMap \ ToKill
  /\ script' = [p \in Pid |-> IF p \in ToKill
                              THEN [script[p] EXCEPT !.rd = FALSE, !.wr = FALSE, !.in = 0]
                              ELSE script[p]]
  /\ lateClients' = lateClients \ closed
  /\ lateCGI' = lateCGI \ ToKill
  /\ UNCHANGED <<wire, fed, up, ctx, job>>

SweepExpiredClients ==
  IF \A fd \in Fd : ~IsClient(fd)
  THEN UNCHANGED <<outside, up, tables, client, late>>
  ELSE SweepEffect

(* poll() timed out, or a pass has served all its lists.                   *)
Idle     == pc = "poll" /\ Ready = {} /\ UNCHANGED ready
PassEnds == /\ pc = "dispatch" /\ PassServed /\ pc' = "poll"
            /\ UNCHANGED <<errFds, readyListeners, readyReaders, readyWriters>>

Sweep ==
  /\ up
  /\ Idle \/ PassEnds
  /\ SweepExpiredClients

(* The 504 of a context whose client was replaced goes to freed memory.    *)
SweepIntoDangling ==
  /\ up
  /\ (pc = "poll" /\ Ready = {}) \/ (pc = "dispatch" /\ PassServed)
  /\ \E p \in ToKill : Dangling(p)
  /\ Abort

-----------------------------------------------------------------------------

ServeError(fd)  == CloseBroken(fd)
ServeListener   == AcceptEnds \/ \E k \in Conn : Accept(k)
ServeReader(fd) ==
  \/ ReadError(fd) \/ ReadEof(fd) \/ ReadKeeps(fd) \/ ReadAndAnswer(fd)
  \/ PipeFails(fd) \/ ForkFails(fd) \/ \E p \in Pid : StartCGI(fd, p)
  \/ ReadOutput(fd) \/ AnswerFromScript(fd) \/ AnswerIntoDangling(fd)
ServeWriter(fd) ==
  \/ \E n \in 0 .. 2 : SendPart(fd, n) \/ SendLastAndKeep(fd, n) \/ SendLastAndClose(fd, n)
  \/ SendFails(fd)
  \/ FeedScript(fd) \/ EndInput(fd) \/ FeedForNobody(fd) \/ FeedDeafScript(fd)

Serve ==
  \/ Poll \/ Sweep \/ SweepIntoDangling \/ ServeListener
  \/ \E fd \in Fd : ServeError(fd) \/ ServeReader(fd) \/ ServeWriter(fd)

Clock ==
  \/ \E k \in Conn : ClientDeadline(k)
  \/ \E p \in Pid : ScriptDeadline(p)

Peers ==
  \E k \in Conn : Connect(k) \/ PeerSend(k) \/ PeerShut(k) \/ PeerReset(k)

Scripts ==
  \E p \in Pid : \/ ScriptReads(p) \/ ScriptWrites(p)
                 \/ ScriptClosesInput(p) \/ ScriptClosesOutput(p)

Next == Serve \/ Clock \/ Peers \/ Scripts

Spec == Init /\ [][Next]_vars

(* The loop always goes on, and deadlines pass. *)
Fairness ==
  /\ WF_vars(Serve)
  /\ \A k \in Conn : WF_vars(ClientDeadline(k))
  /\ \A p \in Pid : WF_vars(ScriptDeadline(p))

FairSpec == Spec /\ Fairness

-----------------------------------------------------------------------------
(* Invariants.                                                             *)

Event  == {"in", "out"}
Object == {Free, Leaked, LSocket} \cup {Sock(k) : k \in Conn}
          \cup {Stdout(p) : p \in Pid} \cup {Stdin(p) : p \in Pid}
Context == [clientFd : Fd, conn : Conn \cup {NoConn}, fdRead : Fd, fdWrite : Fd]
Unit    == Nat \X Nat
OutUnit == Nat \X {"200", "400", "504", "cgi"} \X {1, 2}
Client  == [closeFlag : BOOLEAN, queued : BOOLEAN, parsePos : Nat, need : Nat,
            inBuff : Seq(Unit), outBuff : Seq(OutUnit), consumed : Nat, body : Nat,
            status : {"none", "200", "400", "504", "cgi"}]

(* The tables of the loop and the kernel's hold what they are made for.    *)
TablesTyped ==
  /\ fdTable \in [Fd -> Object]
  /\ interest \in [Fd -> SUBSET Event]
  /\ clientList \in [Fd -> Conn \cup {NoConn}]
  /\ CGIbyRead \in [Fd -> Pid \cup {NoPid}]
  /\ CGIbyWrite \in [Fd -> Pid \cup {NoPid}]
  /\ CGIMap \subseteq Pid
  /\ ctx \in [Pid -> Context]
  /\ lateClients \subseteq Conn /\ lateCGI \subseteq Pid
  /\ up \in BOOLEAN /\ pc \in {"poll", "dispatch"}
  /\ errFds \subseteq Fd /\ readyListeners \subseteq {Listener}
  /\ readyReaders \subseteq Fd /\ readyWriters \subseteq Fd

(* What the peers, the scripts and the buffers hold: nothing is read past  *)
(* what arrived, no pipe holds more than it can, and what a script wrote   *)
(* is in its pipe or its buffer, once.                                     *)
ContentTyped ==
  /\ client \in [Conn -> Client]
  /\ \A k \in Conn : /\ net[k].read <= net[k].sent /\ net[k].sent <= Len(Stream[k])
                    /\ net[k].st \in {"idle", "backlog", "open", "closed"}
                    /\ wire[k] \in Seq(OutUnit)
  /\ \A p \in Pid : /\ script[p].in \in 0 .. PipeSize /\ script[p].out \in 0 .. PipeSize
                   /\ job[p].buffer + script[p].out = script[p].wrote
                   /\ job[p].sendPos \in 0 .. 2

TypeOK == TablesTyped /\ ContentTyped

(* A descriptor has one role, the kernel's table agrees with it, and it is *)
(* polled: no table keeps a number that was closed and given out again,    *)
(* and no open descriptor is forgotten.                                    *)
RolesAgree ==
  \A fd \in Fd :
    /\ \A k \in Conn : clientList[fd] = k <=> fdTable[fd] = Sock(k)
    /\ \A p \in Pid : CGIbyRead[fd] = p <=> fdTable[fd] = Stdout(p)
    /\ \A p \in Pid : CGIbyWrite[fd] = p <=> fdTable[fd] = Stdin(p)
    /\ interest[fd] = {} <=> fdTable[fd] \in {Free, Leaked}
    /\ fd = Listener <=> fdTable[fd] = LSocket

(* An iterator in CGIbyRead_ or CGIbyWrite_ points to a live context, the  *)
(* one made for this descriptor.                                           *)
IteratorsValid ==
  \A fd \in Fd :
    /\ CGIbyRead[fd] # NoPid =>
         CGIbyRead[fd] \in CGIMap /\ ctx[CGIbyRead[fd]].fdRead = fd
    /\ CGIbyWrite[fd] # NoPid =>
         CGIbyWrite[fd] \in CGIMap /\ ctx[CGIbyWrite[fd]].fdWrite = fd

TablesAgree == RolesAgree /\ IteratorsValid

(* A descriptor that waits to be served still is what it was when polled,  *)
(* although served ones are closed and their numbers reused in one pass.   *)
ReadySteady ==
  [][pc = "dispatch" =>
       \A fd \in errFds' \cup readyReaders' \cup readyWriters' :
          fdTable'[fd] = fdTable[fd]]_vars

(* What is served has a role the branches of run() know.                   *)
NothingStale ==
  /\ \A fd \in errFds : IsClient(fd)
  /\ \A fd \in readyReaders : IsClient(fd) \/ CGIbyRead[fd] # NoPid
  /\ \A fd \in readyWriters : IsClient(fd) \/ CGIbyWrite[fd] # NoPid

(* Whole answers to requests 1, 2, and so on, the last perhaps begun only. *)
InOrder(sent) ==
  \A n \in DOMAIN sent :
    LET part == IF n % 2 = 1 THEN 1 ELSE 2 IN
    /\ sent[n][3] = part
    /\ part = 1 => sent[n][1] = (n + 1) \div 2
    /\ part = 2 => sent[n] = <<sent[n - 1][1], sent[n - 1][2], 2>>

(* Every request gets one answer, whole, and in the order of the requests. *)
AnswersInOrder == \A k \in Conn : InOrder(wire[k])

(* An answer made from a script has all the script wrote: it is queued     *)
(* only after the script closed its output and the pipe was read empty.    *)
AnswerHasWholeOutput ==
  [][\A k \in Conn :
       (client[k].status # "cgi" /\ client'[k].status = "cgi") =>
         \E p \in Pid : /\ ctx[p].conn = k /\ job[p].req = client'[k].outBuff[1][1]
                        /\ ~script[p].wr /\ job[p].buffer = script[p].wrote]_vars

(* The process lives on whatever peers and scripts do.                     *)
StaysUp == up

(* The client a script was started for has left before its script ended.   *)
ClientLeft(p) == \E k \in Conn : k = ctx[p].conn /\ net[k].st = "closed"

(* What can end the process: a script whose client has left; one that has  *)
(* closed the input the server still writes to; a peer that half-closed    *)
(* and then aborted before it was let go; the next request to be served    *)
(* wants a script, where fork() may fail.                                  *)
Orphan     == \E p \in CGIMap : ClientLeft(p)
DeafScript == \E fd \in Fd : CGIbyWrite[fd] # NoPid /\ ~script[CGIbyWrite[fd]].rd
LostTwice(k)  == net[k].st = "open" /\ net[k].fin /\ net[k].rst
ForkAhead(k)  == ForkMayFail /\ Whole(Received(k)) /\ Plan[k][Current(Received(k))].cgi

(* Nothing else ends it, whatever the order of kills, departures, reused   *)
(* descriptors and late answers: an abort leaves its cause behind.         *)
NothingElseEndsIt ==
  up \/ Orphan \/ DeafScript \/ \E k \in Conn : LostTwice(k) \/ ForkAhead(k)

(* A script is given the body of its own client only, until that leaves:   *)
(* writeOnceCGI_ looks it up by a number that is then another one's.       *)
IsolatedBody == \A p \in Pid : ClientLeft(p) \/ fed[p] \subseteq {ctx[p].conn}

-----------------------------------------------------------------------------
(* Liveness.                                                               *)

(* A connection the peer aborted is closed.                                *)
AbortedIsClosed ==
  \A k \in Conn : (net[k].st = "open" /\ net[k].rst) ~> (net[k].st = "closed" \/ ~up)

(* With a client timeout, a peer that went silent is let go.               *)
SilentIsClosed ==
  \A k \in Timed : (net[k].st = "open" /\ net[k].fin) ~> (net[k].st = "closed" \/ ~up)

(* A script's context is gone at last, as long as there are clients.       *)
ContextsEnd ==
  \A p \in Pid : p \in CGIMap ~> \/ p \notin CGIMap \/ ~up
                                 \/ \A fd \in Fd : ~IsClient(fd)

Asked(k, i) ==
  \E n \in 1 .. net[k].sent :
     Stream[k][n] = <<i, Plan[k][i].head + Plan[k][i].body>>

AllAnswered(k) ==
  \A i \in DOMAIN Plan[k] :
    Asked(k, i) ~> (Answered(k, i) \/ net[k].st = "closed" \/ net[k].rst \/ ~up)

(* A request sent whole is answered, unless its connection ends before.    *)
RequestsAnswered == \A k \in Conn : AllAnswered(k)

(* The same for peers that wait for one answer before they ask again.      *)
PatientAnswered == \A k \in Conn \ Pipelines : AllAnswered(k)
=============================================================================
