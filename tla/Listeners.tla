------------------------------ MODULE Listeners ------------------------------
(***************************************************************************)
(* From the configuration to connections: main() parses the file,          *)
(* setupListenerSockets groups the server blocks by address and opens one  *)
(* listener for each group, buildTimeoutList gives listeners a timeout,    *)
(* acceptClients_ hands both to the connection, and the first request on   *)
(* it picks the server block that serves the connection from then on.      *)
(***************************************************************************)
EXTENDS Config

CONSTANTS
  KeyOrder,     \* addresses [ip, port] in the order of their bind keys
  Peer,
  HeaderBlocks, \* requests up to the empty line: sequences of [key, found]
  NoHost        \* what is found where "host:" does not occur

(* A line of a block, the request line too, has the name in front of its   *)
(* first colon and what a search for "host:" reads of it, cut at the next  *)
(* colon and trimmed: behind the name it is found, elsewhere it may be.    *)
ASSUME HostAssumption ==
  \A h \in HeaderBlocks :
    /\ h \in Seq(ToSet(h))
    /\ \A i \in DOMAIN h : h[i].key = "host" => h[i].found # NoHost

(* The addresses a file can write.                                         *)
AnyAddress == "0.0.0.0"
Ports      == {Number[t] : t \in DOMAIN Number} \cap 0 .. MaxPort
Addresses  == [ip : Ipv4 \cup {AnyAddress}, port : Ports]

(* Each has one bind key of its own.                                       *)
ASSUME KeyAssumption ==
  /\ KeyOrder \in Seq(Addresses) /\ ToSet(KeyOrder) = Addresses
  /\ \A i, j \in DOMAIN KeyOrder : KeyOrder[i] = KeyOrder[j] => i = j

VARIABLES
  bindGroups,   \* address -> indices of the server blocks that want it
  owners,       \* listenerFdList_ with listenerOwner_: the groups that listen
  timeouts,     \* listener -> listenerTimeoutMs_, in seconds here
  conn          \* peer -> its connection

netVars == <<bindGroups, owners, timeouts, conn>>
vars == <<parseVars, netVars>>

None == 0
NoConn == [listener |-> None, timeout |-> 0, server |-> None, lines |-> << >>]

Init ==
  /\ ParseInit
  /\ bindGroups = << >> /\ owners = << >> /\ timeouts = << >>
  /\ conn = [p \in Peer |-> NoConn]

-----------------------------------------------------------------------------
(* setupListenerSockets *)

Address(i) == [ip |-> nodes[i].host, port |-> nodes[i].port]
Wanted     == {Address(i) : i \in DOMAIN nodes}

(* The elements of s that are in T, in their order. *)
Chosen(s, T) == FlattenSeq([i \in DOMAIN s |-> IF s[i] \in T THEN <<s[i]>> ELSE << >>])

Indices == [i \in DOMAIN nodes |-> i]
GroupOfPort(a) == Chosen(Indices, {i \in DOMAIN nodes : Address(i).port = a.port})   \* mutant
Group(a)       == Chosen(Indices, {i \in DOMAIN nodes : Address(i) = a})

GroupServers ==
  /\ ctx = "accepted"
  /\ bindGroups' = [a \in Wanted |-> Group(a)]
  /\ ctx' = "binding"
  /\ UNCHANGED <<tokens, first, second, srv, specs, loc, serverEnd, nodes, handled>>
  /\ UNCHANGED <<owners, timeouts, conn>>

InKeyOrder == Chosen(KeyOrder, DOMAIN bindGroups)
NextAddress == InKeyOrder[Len(owners) + 1]
Bound == {InKeyOrder[l] : l \in DOMAIN owners}

(* bind(2): the port is taken on that address, or on all of them.          *)
Taken(a) ==
  \E b \in Bound : b.port = a.port /\ (b.ip = a.ip \/ AnyAddress \in {a.ip, b.ip})

(* Any failure is an exception that ends the process. *)
OpenListener ==
  /\ ctx = "binding" /\ Len(owners) < Len(InKeyOrder)
  /\ ~Taken(NextAddress)
  /\ owners' = Append(owners, bindGroups[NextAddress])
  /\ UNCHANGED <<parseVars, bindGroups, timeouts, conn>>

OpenFails ==
  /\ ctx = "binding" /\ Len(owners) < Len(InKeyOrder)
  /\ Ends("ended")
  /\ UNCHANGED netVars

(* Mutant: every listener has the timeout of the last block. *)
TimeoutOfLast(l) == nodes[Len(nodes)].client_timeout_sec

(* Listener l gets the timeout of server block l, whoever owns it.         *)
TimeoutOf(l) == nodes[l].client_timeout_sec

buildTimeoutList ==
  /\ ctx = "binding" /\ Len(owners) = Len(InKeyOrder)
  /\ timeouts' = [l \in 1 .. Min({Len(owners), Len(nodes)}) |-> TimeoutOf(l)]
  /\ ctx' = "running"
  /\ UNCHANGED <<tokens, first, second, srv, specs, loc, serverEnd, nodes, handled>>
  /\ UNCHANGED <<bindGroups, owners, conn>>

-----------------------------------------------------------------------------
(* acceptClients_ and setClientTimeout *)
acceptClients ==
  /\ ctx = "running"
  /\ \E p \in Peer, l \in DOMAIN owners :
       /\ conn[p] = NoConn
       /\ conn' = [conn EXCEPT ![p] =
            [NoConn EXCEPT !.listener = l,
                           !.timeout = IF l \in DOMAIN timeouts THEN timeouts[l] ELSE 0]]
  /\ UNCHANGED <<parseVars, bindGroups, owners, timeouts>>

(* The whole block is searched as text, so the first line that has "host:" *)
(* anywhere, in the target or in a value too, is read from there on.       *)
Hits(lines) == {i \in DOMAIN lines : lines[i].found # NoHost}
getHostValue(lines) == IF Hits(lines) = {} THEN NoHost ELSE lines[Min(Hits(lines))].found

(* vhostPicker_: the first candidate with that name, or the first of all.  *)
Named(group, host) == {i \in DOMAIN group : host \in ToSet(nodes[group[i]].name)}
vhostPicker(group, host) ==
  IF Named(group, host) = {} THEN group[1] ELSE group[Min(Named(group, host))]

(* Mutant: the candidates of the first listener are looked at. *)
CandidatesOfFirst(l) == owners[1]

Candidates(l) == owners[l]

(* A request's headers have ended; only a connection's first one picks.    *)
Request ==
  /\ ctx = "running"
  /\ \E p \in Peer, h \in HeaderBlocks :
       /\ conn[p].listener # None /\ conn[p].server = None
       /\ conn' = [conn EXCEPT ![p].lines = h,
                     ![p].server = vhostPicker(Candidates(conn[p].listener), getHostValue(h))]
  /\ UNCHANGED <<parseVars, bindGroups, owners, timeouts>>

CloseClient ==
  /\ ctx = "running"
  /\ \E p \in Peer : conn[p] # NoConn /\ conn' = [conn EXCEPT ![p] = NoConn]
  /\ UNCHANGED <<parseVars, bindGroups, owners, timeouts>>

Next ==
  \/ Parse /\ UNCHANGED netVars
  \/ GroupServers \/ OpenListener \/ OpenFails \/ buildTimeoutList
  \/ acceptClients \/ Request \/ CloseClient

Spec == Init /\ [][Next]_vars

-----------------------------------------------------------------------------
Ints == -IntMax - 1 .. IntMax

(* Sizes and limits are ints on the way, the cursor stays at the tokens or *)
(* right behind them, connections refer to listeners and servers there are. *)
TypeOK ==
  /\ ctx \in {"file", "server", "location", "rejected", "undefined", "accepted", "binding",
              "running", "ended"}
  /\ first \in 1 .. Len(tokens) + 1 /\ second \in DOMAIN tokens \cup {1}
  /\ {srv.port, srv.backlog, srv.client_timeout_sec, srv.max_body_size, srv.header_cap,
      srv.body_ram_threshold, loc.cgi_timeout_sec} \subseteq Ints
  /\ \A i \in DOMAIN specs : specs[i].start <= specs[i].end /\ specs[i].end <= Len(tokens)
  /\ \A a \in DOMAIN bindGroups : ToSet(bindGroups[a]) \subseteq DOMAIN nodes
  /\ \A p \in Peer : /\ conn[p].listener \in {None} \cup DOMAIN owners
                      /\ conn[p].server \in {None} \cup DOMAIN nodes

(* When the loop runs, every server block is behind exactly one listener,  *)
(* with the blocks of its own address and no other, in the order of the    *)
(* file, which decides who is the default.                                 *)
OneListenerEach ==
  ctx = "running" =>
    \A i \in DOMAIN nodes :
      /\ Cardinality({l \in DOMAIN owners : i \in ToSet(owners[l])}) = 1
      /\ \A l \in DOMAIN owners : i \in ToSet(owners[l]) =>
           /\ ToSet(owners[l]) = {j \in DOMAIN nodes : Address(j) = Address(i)}
           /\ \A m, n \in DOMAIN owners[l] : m < n => owners[l][m] < owners[l][n]

(* What the Host header of a request asks for, and whether the search for  *)
(* it ends elsewhere, in a line in front of it or in place of a missing one. *)
Hosts(lines)  == {i \in DOMAIN lines : lines[i].key = "host"}
HostOf(lines) == IF Hosts(lines) = {} THEN NoHost ELSE lines[Min(Hosts(lines))].found
Masked(lines) == \E i \in Hits(lines) \ Hosts(lines) : \A j \in Hosts(lines) : i < j

(* The block s of a group is the first with that name, or none has it and  *)
(* s is the default.                                                       *)
AsksFor(s, group, host) ==
  \/ /\ host \in ToSet(nodes[s].name)
     /\ \A i \in ToSet(group) : host \in ToSet(nodes[i].name) => s <= i
  \/ /\ s = group[1]
     /\ \A i \in ToSet(group) : host \notin ToSet(nodes[i].name)

(* The server of a connection is one of its listener's, from its first     *)
(* request to its end: the one that request's Host header asks for, unless *)
(* the text search of getHostValue comes upon "host:" before.              *)
ServedByItsHost ==
  \A p \in Peer : LET k == conn[p] IN
    k.server # None =>
      /\ k.server \in ToSet(owners[k.listener])
      /\ Masked(k.lines) \/ AsksFor(k.server, owners[k.listener], HostOf(k.lines))

(* Every block has an address of its own and they are in the file in the   *)
(* order of their bind keys.                                               *)
KeyedBefore(a, b) ==
  \E m \in DOMAIN KeyOrder : KeyOrder[m] = a /\ \E n \in m + 1 .. Len(KeyOrder) : KeyOrder[n] = b
FileInKeyOrder == \A i, j \in DOMAIN nodes : i < j => KeyedBefore(Address(i), Address(j))

(* In such a file a connection has the timeout of the block that serves    *)
(* its requests: buildTimeoutList, which counts listeners and blocks side  *)
(* by side, and the groups agree on which block that is.                   *)
TimeoutOfItsServer ==
  \A p \in Peer :
    (conn[p].server # None /\ FileInKeyOrder) =>
      conn[p].timeout = nodes[conn[p].server].client_timeout_sec

(* A connection has the timeout of a server behind its listener.  In other *)
(* files buildTimeoutList gives it that of a block at another address.     *)
TimeoutOfItsListener ==
  \A p \in Peer : LET l == conn[p].listener IN
    l # None => \E i \in ToSet(owners[l]) : conn[p].timeout = nodes[i].client_timeout_sec
=============================================================================
