-------------------------- MODULE ServerLoop_proofs --------------------------
(***************************************************************************)
(* The tables of the event loop agree with the kernel's and with one       *)
(* another, and no ready list holds a stale descriptor, for any number of  *)
(* connections, scripts and descriptors and any requests.                  *)
(*                                                                         *)
(* The inductive invariant Inv joins to TablesTyped, TablesAgree and       *)
(* NothingStale what makes them inductive: the error list is apart from    *)
(* the other two, and between two passes all lists are empty.  A step of   *)
(* the loop is then judged by its effect on the tables (Safe): all but     *)
(* eight kinds of step leave every descriptor its role.                    *)
(***************************************************************************)
EXTENDS ServerLoop, TLAPS

ListsApart ==
  /\ errFds \cap (readyReaders \cup readyWriters) = {}
  /\ pc = "poll" => PassServed

(* A context is made for a script that had none before. *)
ScriptsStarted ==
  /\ DOMAIN script = Pid
  /\ \A p \in Pid : /\ "st" \in DOMAIN script[p]
                    /\ p \in CGIMap => script[p].st # "none"

Inv == TablesTyped /\ TablesAgree /\ NothingStale /\ ListsApart /\ ScriptsStarted

(* The two halves of TablesTyped. *)
RolesTyped ==
  /\ fdTable \in [Fd -> Object]
  /\ interest \in [Fd -> SUBSET Event]
  /\ clientList \in [Fd -> Conn \cup {NoConn}]
  /\ CGIbyRead \in [Fd -> Pid \cup {NoPid}]
  /\ CGIbyWrite \in [Fd -> Pid \cup {NoPid}]
  /\ CGIMap \subseteq Pid
  /\ ctx \in [Pid -> Context]
  /\ lateClients \subseteq Conn /\ lateCGI \subseteq Pid
  /\ up \in BOOLEAN

ListsTyped ==
  /\ pc \in {"poll", "dispatch"}
  /\ errFds \subseteq Fd /\ readyListeners \subseteq {Listener}
  /\ readyReaders \subseteq Fd /\ readyWriters \subseteq Fd

(* Within a pass the lists only shrink. *)
Served ==
  /\ pc' = pc
  /\ errFds' \subseteq errFds /\ readyListeners' \subseteq readyListeners
  /\ readyReaders' \subseteq readyReaders /\ readyWriters' \subseteq readyWriters

Waiting == errFds \cup readyReaders \cup readyWriters

Steady == \A fd \in Waiting' : fdTable'[fd] = fdTable[fd]

Safe == Served /\ Steady /\ RolesTyped' /\ TablesAgree'

Tables == TablesTyped /\ TablesAgree /\ NothingStale /\ ListsApart

(* The kinds of kernel object differ, and so do two objects of one kind.   *)
LEMMA Objects ==
  /\ \A k, l : Sock(k) = Sock(l) => k = l
  /\ \A p, s : Stdout(p) = Stdout(s) => p = s
  /\ \A p, s : Stdin(p) = Stdin(s) => p = s
  /\ \A k, p : Sock(k) # Stdout(p) /\ Sock(k) # Stdin(p)
  /\ \A p, s : Stdout(p) # Stdin(s)
  /\ \A k : Sock(k) # Free /\ Sock(k) # Leaked /\ Sock(k) # LSocket
  /\ \A p : Stdout(p) # Free /\ Stdout(p) # Leaked /\ Stdout(p) # LSocket
  /\ \A p : Stdin(p) # Free /\ Stdin(p) # Leaked /\ Stdin(p) # LSocket
  /\ Free # Leaked /\ Free # LSocket /\ Leaked # LSocket
BY DEF Sock, Stdout, Stdin, Free, Leaked, LSocket

(* A descriptor with a role in a table is open and polled, and has no      *)
(* other role.                                                             *)
LEMMA OneRole ==
  ASSUME TablesTyped, RolesAgree, NEW fd \in Fd
  PROVE  /\ IsClient(fd) => /\ clientList[fd] \in Conn
                            /\ fdTable[fd] = Sock(clientList[fd])
                            /\ ~IsCGI(fd)
         /\ CGIbyRead[fd] # NoPid => /\ CGIbyRead[fd] \in Pid
                                     /\ fdTable[fd] = Stdout(CGIbyRead[fd])
                                     /\ ~IsClient(fd) /\ CGIbyWrite[fd] = NoPid
         /\ CGIbyWrite[fd] # NoPid => /\ CGIbyWrite[fd] \in Pid
                                      /\ fdTable[fd] = Stdin(CGIbyWrite[fd])
                                      /\ ~IsClient(fd) /\ CGIbyRead[fd] = NoPid
         /\ IsClient(fd) \/ IsCGI(fd) => interest[fd] # {} /\ fd # Listener
<1>1. /\ clientList[fd] \in Conn \cup {NoConn}
      /\ CGIbyRead[fd] \in Pid \cup {NoPid} /\ CGIbyWrite[fd] \in Pid \cup {NoPid}
  BY DEF TablesTyped
<1>2. /\ \A k \in Conn : clientList[fd] = k <=> fdTable[fd] = Sock(k)
      /\ \A p \in Pid : CGIbyRead[fd] = p <=> fdTable[fd] = Stdout(p)
      /\ \A p \in Pid : CGIbyWrite[fd] = p <=> fdTable[fd] = Stdin(p)
      /\ interest[fd] = {} <=> fdTable[fd] \in {Free, Leaked}
      /\ fd = Listener <=> fdTable[fd] = LSocket
  BY DEF RolesAgree
<1> QED BY <1>1, <1>2, Objects DEF IsClient, IsCGI

(* What makes a step safe makes it keep the invariant. *)
LEMMA SafeKeepsTables == Inv /\ Safe => Tables'
<1> SUFFICES ASSUME Inv, Safe PROVE Tables'
  OBVIOUS
<1>1. TablesTyped'
  BY DEF Inv, Safe, Served, RolesTyped, TablesTyped
<1>2. ListsApart'
  BY DEF Inv, Safe, Served, ListsApart, PassServed
<1>3. ASSUME NEW fd \in Waiting'
      PROVE  /\ IsClient(fd) => IsClient(fd)'
             /\ CGIbyRead[fd] # NoPid => CGIbyRead'[fd] # NoPid
             /\ CGIbyWrite[fd] # NoPid => CGIbyWrite'[fd] # NoPid
  <2>1. fd \in Fd /\ fdTable'[fd] = fdTable[fd]
    BY <1>1, <1>3 DEF Safe, Steady, Waiting, TablesTyped
  <2>2. /\ IsClient(fd) => /\ clientList[fd] \in Conn
                           /\ fdTable[fd] = Sock(clientList[fd])
        /\ CGIbyRead[fd] # NoPid => /\ CGIbyRead[fd] \in Pid
                                    /\ fdTable[fd] = Stdout(CGIbyRead[fd])
        /\ CGIbyWrite[fd] # NoPid => /\ CGIbyWrite[fd] \in Pid
                                     /\ fdTable[fd] = Stdin(CGIbyWrite[fd])
    BY <2>1, OneRole DEF Inv, TablesAgree
  <2>3. /\ \A k \in Conn : clientList'[fd] = k <=> fdTable'[fd] = Sock(k)
        /\ \A p \in Pid : CGIbyRead'[fd] = p <=> fdTable'[fd] = Stdout(p)
        /\ \A p \in Pid : CGIbyWrite'[fd] = p <=> fdTable'[fd] = Stdin(p)
    BY <2>1 DEF Safe, TablesAgree, RolesAgree
  <2> QED BY <2>1, <2>2, <2>3, ConnAssumption, PidAssumption DEF IsClient
<1>4. NothingStale'
  BY <1>3 DEF Inv, NothingStale, Safe, Served, Waiting
<1> QED BY <1>1, <1>2, <1>4 DEF Tables, Safe
-----------------------------------------------------------------------------
(* The kinds of step.                                                      *)

(* A step that changes no role, at most which events are polled for.       *)
LEMMA RolesKept ==
  ASSUME Inv, Served,
         UNCHANGED <<fdTable, clientList, CGIbyRead, CGIbyWrite, CGIMap, ctx>>,
         interest' \in [Fd -> SUBSET Event],
         \A fd \in Fd : interest'[fd] = {} <=> interest[fd] = {},
         lateClients' \subseteq Conn, lateCGI' \subseteq Pid, up' \in BOOLEAN
  PROVE  Safe
<1>1. RolesTyped'
  BY DEF Inv, TablesTyped, RolesTyped
<1>2. TablesAgree'
  BY DEF Inv, TablesAgree, RolesAgree, IteratorsValid
<1> QED BY <1>1, <1>2 DEF Safe, Steady

(* Closing a client frees its descriptor and takes it out of every table.  *)
LEMMA ClientCloses ==
  ASSUME Inv, Served, NEW fd \in Fd, IsClient(fd), fd \notin Waiting',
         CloseClient(fd)
  PROVE  Safe
<1>1. /\ fdTable' = [fdTable EXCEPT ![fd] = Free]
      /\ interest' = [interest EXCEPT ![fd] = {}]
      /\ clientList' = [clientList EXCEPT ![fd] = NoConn]
      /\ UNCHANGED <<CGIbyRead, CGIbyWrite, CGIMap, ctx, lateCGI, up>>
      /\ lateClients' \subseteq lateClients
  BY DEF CloseClient
<1>2. RolesTyped'
  <2>1. Free \in Object
    BY DEF Object
  <2> QED BY <1>1, <2>1 DEF Inv, TablesTyped, RolesTyped
<1>3. /\ fdTable[fd] = Sock(clientList[fd]) /\ fd # Listener
      /\ CGIbyRead[fd] = NoPid /\ CGIbyWrite[fd] = NoPid
  BY OneRole DEF Inv, TablesAgree, IsCGI
<1>4. ASSUME NEW g \in Fd
      PROVE  /\ \A k \in Conn : clientList'[g] = k <=> fdTable'[g] = Sock(k)
             /\ \A p \in Pid : CGIbyRead'[g] = p <=> fdTable'[g] = Stdout(p)
             /\ \A p \in Pid : CGIbyWrite'[g] = p <=> fdTable'[g] = Stdin(p)
             /\ interest'[g] = {} <=> fdTable'[g] \in {Free, Leaked}
             /\ g = Listener <=> fdTable'[g] = LSocket
  <2>1. CASE g = fd
    <3>1. /\ fdTable'[g] = Free /\ interest'[g] = {} /\ clientList'[g] = NoConn
          /\ CGIbyRead'[g] = NoPid /\ CGIbyWrite'[g] = NoPid /\ g # Listener
      BY <1>1, <1>3, <2>1 DEF Inv, TablesTyped
    <3> QED BY <3>1, Objects, ConnAssumption, PidAssumption
  <2>2. CASE g # fd
    <3>1. /\ fdTable'[g] = fdTable[g] /\ interest'[g] = interest[g]
          /\ clientList'[g] = clientList[g]
          /\ CGIbyRead'[g] = CGIbyRead[g] /\ CGIbyWrite'[g] = CGIbyWrite[g]
      BY <1>1, <2>2 DEF Inv, TablesTyped
    <3> QED BY <3>1 DEF Inv, TablesAgree, RolesAgree
  <2> QED BY <2>1, <2>2
<1>5. IteratorsValid'
  BY <1>1 DEF Inv, TablesAgree, IteratorsValid
<1>6. Steady
  BY <1>1 DEF Steady, Inv, TablesTyped
<1> QED BY <1>2, <1>4, <1>5, <1>6 DEF Safe, TablesAgree, RolesAgree

(* A descriptor that keeps its entries keeps its role; one that enters a   *)
(* single table in step with the kernel has one role; a freed one none.    *)
AgreeAt(fd) ==
  /\ \A k \in Conn : clientList[fd] = k <=> fdTable[fd] = Sock(k)
  /\ \A p \in Pid : CGIbyRead[fd] = p <=> fdTable[fd] = Stdout(p)
  /\ \A p \in Pid : CGIbyWrite[fd] = p <=> fdTable[fd] = Stdin(p)
  /\ interest[fd] = {} <=> fdTable[fd] \in {Free, Leaked}
  /\ fd = Listener <=> fdTable[fd] = LSocket

Entries(fd) == <<fdTable[fd], clientList[fd], CGIbyRead[fd], CGIbyWrite[fd]>>

(* The descriptor a step leaves alone agrees as before. *)
LEMMA AloneAgrees ==
  ASSUME RolesAgree, NEW fd \in Fd, Entries(fd)' = Entries(fd),
         interest'[fd] = {} <=> interest[fd] = {}
  PROVE  AgreeAt(fd)'
BY DEF RolesAgree, AgreeAt, Entries

(* A free descriptor is in no table. *)
LEMMA FreeHasNoRole ==
  ASSUME TablesTyped, RolesAgree, NEW fd \in FreeFds
  PROVE  /\ fd \in Fd /\ fd # Listener
         /\ clientList[fd] = NoConn /\ CGIbyRead[fd] = NoPid /\ CGIbyWrite[fd] = NoPid
<1>1. /\ fd \in Fd /\ fdTable[fd] = Free
      /\ clientList[fd] \in Conn \cup {NoConn}
      /\ CGIbyRead[fd] \in Pid \cup {NoPid} /\ CGIbyWrite[fd] \in Pid \cup {NoPid}
  BY DEF FreeFds, TablesTyped
<1> QED BY <1>1, Objects DEF RolesAgree

(* What waits to be served is not free. *)
LEMMA WaitingIsTaken ==
  ASSUME Inv, NEW fd \in Waiting PROVE fd \notin FreeFds /\ fd \in Fd
<1>1. fd \in Fd /\ (IsClient(fd) \/ IsCGI(fd))
  BY DEF Inv, TablesTyped, NothingStale, Waiting, IsCGI
<1> QED BY <1>1, FreeHasNoRole DEF Inv, TablesAgree, IsClient, IsCGI

(* An accepted connection takes a free descriptor. *)
LEMMA ClientEnters ==
  ASSUME Inv, NEW k \in Conn, Accept(k)
  PROVE  Safe
<1>1. PICK fd \in FreeFds :
        /\ fdTable' = [fdTable EXCEPT ![fd] = Sock(k)]
        /\ interest' = [interest EXCEPT ![fd] = {"in"}]
        /\ clientList' = [clientList EXCEPT ![fd] = k]
  BY DEF Accept, Lowest
<1>2. UNCHANGED <<CGIbyRead, CGIbyWrite, CGIMap, ctx, late, up, ready>>
  BY DEF Accept
<1>3. /\ fd \in Fd /\ fd # Listener
      /\ CGIbyRead[fd] = NoPid /\ CGIbyWrite[fd] = NoPid
  BY FreeHasNoRole DEF Inv, TablesAgree
<1>4. RolesTyped'
  BY <1>1, <1>2, <1>3 DEF Inv, TablesTyped, RolesTyped, Object, Event, late
<1>5. ASSUME NEW g \in Fd PROVE AgreeAt(g)'
  <2>1. CASE g = fd
    <3>1. /\ fdTable'[g] = Sock(k) /\ interest'[g] # {} /\ clientList'[g] = k
          /\ CGIbyRead'[g] = NoPid /\ CGIbyWrite'[g] = NoPid /\ g # Listener
      BY <1>1, <1>2, <1>3, <2>1 DEF Inv, TablesTyped
    <3> QED BY <3>1, Objects, PidAssumption DEF AgreeAt
  <2>2. CASE g # fd
    <3>1. Entries(g)' = Entries(g) /\ interest'[g] = interest[g]
      BY <1>1, <1>2, <2>2 DEF Inv, TablesTyped, Entries
    <3> QED BY <3>1, AloneAgrees DEF Inv, TablesAgree
  <2> QED BY <2>1, <2>2
<1>6. IteratorsValid'
  BY <1>2 DEF Inv, TablesAgree, IteratorsValid
<1>7. Steady
  <2>1. \A g \in Waiting' : g \in Fd /\ g # fd
    BY <1>1, <1>2, WaitingIsTaken DEF Waiting, ready
  <2> QED BY <1>1, <2>1 DEF Steady, Inv, TablesTyped
<1>8. Served
  BY <1>2 DEF Served, ready
<1> QED BY <1>4, <1>5, <1>6, <1>7, <1>8 DEF Safe, TablesAgree, RolesAgree, AgreeAt

(* Only free descriptors are lost when a pipe cannot be made. *)
LEMMA PipeIsLost ==
  ASSUME Inv, NEW f \in Fd, PipeFails(f)
  PROVE  Safe
<1>1. /\ UNCHANGED <<interest, clientList, CGIbyRead, CGIbyWrite, CGIMap, ctx, up>>
      /\ lateClients' \subseteq lateClients /\ lateCGI' = lateCGI /\ Touch(f)
  BY DEF PipeFails, Receive
<1>2. /\ fdTable' \in [Fd -> Object]
      /\ \A g \in Fd : \/ fdTable'[g] = fdTable[g]
                       \/ g \in FreeFds /\ fdTable'[g] = Leaked
  <2>1. \/ fdTable' = fdTable
        \/ fdTable' = [g \in Fd |-> IF \/ Lowest(FreeFds, g)
                                        \/ \E h \in Fd : /\ Lowest(FreeFds, h)
                                                         /\ Lowest(FreeFds \ {h}, g)
                                     THEN Leaked ELSE fdTable[g]]
    BY DEF PipeFails
  <2>2. fdTable \in [Fd -> Object] /\ Leaked \in Object
    BY DEF Inv, TablesTyped, Object
  <2> QED BY <2>1, <2>2 DEF Lowest
<1>3. RolesTyped'
  BY <1>1, <1>2 DEF Inv, TablesTyped, RolesTyped
<1>4. ASSUME NEW g \in Fd PROVE AgreeAt(g)'
  <2>1. CASE fdTable'[g] = fdTable[g]
    BY <1>1, <2>1, AloneAgrees DEF Entries, Inv, TablesAgree
  <2>2. CASE g \in FreeFds /\ fdTable'[g] = Leaked
    <3>1. /\ g # Listener /\ interest[g] = {}
          /\ clientList[g] = NoConn /\ CGIbyRead[g] = NoPid /\ CGIbyWrite[g] = NoPid
      BY <2>2, FreeHasNoRole DEF Inv, TablesAgree, RolesAgree, FreeFds
    <3> QED BY <1>1, <2>2, <3>1, Objects, ConnAssumption, PidAssumption DEF AgreeAt
  <2> QED BY <1>2, <2>1, <2>2
<1>5. IteratorsValid'
  BY <1>1 DEF Inv, TablesAgree, IteratorsValid
<1>6. Served
  BY <1>1 DEF Served, Touch
<1>7. Steady
  <2>1. Waiting' \subseteq Waiting
    BY <1>6 DEF Served, Waiting
  <2> QED BY <1>2, <2>1, WaitingIsTaken DEF Steady
<1> QED BY <1>3, <1>4, <1>5, <1>6, <1>7 DEF Safe, TablesAgree, RolesAgree, AgreeAt

(* A new script takes two of the free descriptors. *)
LEMMA ScriptEnters ==
  ASSUME Inv, NEW fd \in Fd, NEW p \in Pid, StartCGI(fd, p)
  PROVE  Safe
<1> DEFINE k == clientList[fd]
<1>1. PICK w \in FreeFds, r \in FreeFds :
        /\ w # r
        /\ fdTable' = [fdTable EXCEPT ![w] = Stdin(p), ![r] = Stdout(p)]
        /\ interest' = [interest EXCEPT ![w] = {"out"}, ![r] = {"in"}]
        /\ CGIbyRead' = [CGIbyRead EXCEPT ![r] = p]
        /\ CGIbyWrite' = [CGIbyWrite EXCEPT ![w] = p]
        /\ ctx' = [ctx EXCEPT ![p] =
                     [clientFd |-> fd, conn |-> k, fdRead |-> r, fdWrite |-> w]]
  BY Zenon DEF StartCGI, Pipes, Lowest
<1>2. /\ CGIMap' = CGIMap \cup {p} /\ script[p].st = "none" /\ up' = up
      /\ clientList' = clientList /\ lateClients' \subseteq lateClients
      /\ lateCGI' = lateCGI /\ Touch(fd)
  BY DEF StartCGI, Receive
<1>3. k \in Conn
  BY OneRole DEF StartCGI, GotCGIRequest, GotRequest, GotBytes, Inv, TablesAgree
<1>4. \A g \in FreeFds : /\ g \in Fd /\ g # Listener
                         /\ clientList[g] = NoConn
                         /\ CGIbyRead[g] = NoPid /\ CGIbyWrite[g] = NoPid
  BY FreeHasNoRole DEF Inv, TablesAgree
<1> HIDE DEF k
<1>5. RolesTyped'
  <2>1. fdTable' \in [Fd -> Object]
    BY <1>1, <1>4 DEF Inv, TablesTyped, Object
  <2>2. ctx' \in [Pid -> Context]
    BY <1>1, <1>3, <1>4 DEF Inv, TablesTyped, Context
  <2> QED BY <1>1, <1>2, <1>4, <2>1, <2>2 DEF Inv, TablesTyped, RolesTyped, Event
<1>6. ASSUME NEW g \in Fd PROVE AgreeAt(g)'
  <2>1. CASE g = w
    <3>1. /\ fdTable'[g] = Stdin(p) /\ interest'[g] # {} /\ clientList'[g] = NoConn
          /\ CGIbyRead'[g] = NoPid /\ CGIbyWrite'[g] = p /\ g # Listener
      BY <1>1, <1>2, <1>4, <2>1 DEF Inv, TablesTyped
    <3> QED BY <3>1, Objects, ConnAssumption, PidAssumption DEF AgreeAt
  <2>2. CASE g = r
    <3>1. /\ fdTable'[g] = Stdout(p) /\ interest'[g] # {} /\ clientList'[g] = NoConn
          /\ CGIbyRead'[g] = p /\ CGIbyWrite'[g] = NoPid /\ g # Listener
      BY <1>1, <1>2, <1>4, <2>2 DEF Inv, TablesTyped
    <3> QED BY <3>1, Objects, ConnAssumption, PidAssumption DEF AgreeAt
  <2>3. CASE g # w /\ g # r
    <3>1. Entries(g)' = Entries(g) /\ interest'[g] = interest[g]
      BY <1>1, <1>2, <2>3 DEF Inv, TablesTyped, Entries
    <3> QED BY <3>1, AloneAgrees DEF Inv, TablesAgree
  <2> QED BY <2>1, <2>2, <2>3
<1>7. IteratorsValid'
  <2>1. p \notin CGIMap
    BY <1>2 DEF Inv, ScriptsStarted
  <2>2. /\ \A g \in Fd : CGIbyRead[g] # NoPid =>
                         /\ CGIbyRead[g] \in CGIMap
                         /\ ctx'[CGIbyRead[g]] = ctx[CGIbyRead[g]]
        /\ \A g \in Fd : CGIbyWrite[g] # NoPid =>
                         /\ CGIbyWrite[g] \in CGIMap
                         /\ ctx'[CGIbyWrite[g]] = ctx[CGIbyWrite[g]]
    BY <1>1, <2>1 DEF Inv, TablesAgree, IteratorsValid, TablesTyped
  <2>3. ctx'[p].fdRead = r /\ ctx'[p].fdWrite = w
    BY <1>1 DEF Inv, TablesTyped
  <2>4. \A g \in Fd : /\ CGIbyRead'[g] = IF g = r THEN p ELSE CGIbyRead[g]
                      /\ CGIbyWrite'[g] = IF g = w THEN p ELSE CGIbyWrite[g]
    BY <1>1 DEF Inv, TablesTyped
  <2>5. \A g \in Fd : CGIbyRead'[g] # NoPid =>
          CGIbyRead'[g] \in CGIMap' /\ ctx'[CGIbyRead'[g]].fdRead = g
    BY <1>2, <2>2, <2>3, <2>4 DEF Inv, TablesAgree, IteratorsValid
  <2>6. \A g \in Fd : CGIbyWrite'[g] # NoPid =>
          CGIbyWrite'[g] \in CGIMap' /\ ctx'[CGIbyWrite'[g]].fdWrite = g
    BY <1>2, <2>2, <2>3, <2>4 DEF Inv, TablesAgree, IteratorsValid
  <2> QED BY <2>5, <2>6 DEF IteratorsValid
<1>8. Served
  BY <1>2 DEF Served, Touch
<1>9. Steady
  <2>1. \A g \in Waiting' : g \in Fd /\ g # w /\ g # r
    BY <1>1, <1>8, WaitingIsTaken DEF Waiting, Served
  <2> QED BY <1>1, <2>1 DEF Steady, Inv, TablesTyped
<1> QED BY <1>5, <1>6, <1>7, <1>8, <1>9 DEF Safe, TablesAgree, RolesAgree, AgreeAt

(* The output side of a script closes: its descriptor leaves every table,  *)
(* and the context goes if the input side is closed as well.               *)
LEMMA OutputCloses ==
  ASSUME Inv, NEW fd \in Fd, AnswerFromScript(fd)
  PROVE  Safe
<1> DEFINE p == CGIbyRead[fd]
           w == ctx[p].fdWrite
<1>1. /\ p # NoPid /\ p \in Pid /\ ctx[p].fdRead = fd /\ p \in CGIMap
      /\ clientList[fd] = NoConn /\ CGIbyWrite[fd] = NoPid /\ fd # Listener
  <2>1. ~IsClient(fd) /\ CGIbyRead[fd] # NoPid
    BY DEF AnswerFromScript, OutputEnds, CGIReaderReady
  <2> QED BY <2>1, OneRole DEF Inv, TablesAgree, IteratorsValid, IsClient, IsCGI
<1>2. /\ fdTable' = [fdTable EXCEPT ![fd] = Free]
      /\ CGIbyRead' = [CGIbyRead EXCEPT ![fd] = NoPid]
      /\ CGIMap' = IF CGIbyWrite[w] = NoPid THEN CGIMap \ {p} ELSE CGIMap
      /\ lateCGI' \subseteq lateCGI /\ Touch(fd)
      /\ UNCHANGED <<clientList, CGIbyWrite, ctx, lateClients, up>>
  BY <1>1 DEF AnswerFromScript, CloseCGIRead
<1>3. /\ interest' \in [Fd -> SUBSET Event] /\ interest'[fd] = {}
      /\ \A g \in Fd \ {fd} : interest'[g] = {} <=> interest[g] = {}
  <2>1. interest' = [g \in Fd |->
                       IF g = fd THEN {}
                       ELSE IF Owner(p) # NoConn /\ g = ctx[p].clientFd THEN Replying
                       ELSE interest[g]]
    BY <1>1 DEF AnswerFromScript
  <2>2. Replying \in SUBSET Event /\ Replying # {}
    BY DEF Replying, Event
  <2>3. ctx[p].clientFd \in Fd
    BY <1>1 DEF Inv, TablesTyped, Context
  <2>4. Owner(p) # NoConn => interest[ctx[p].clientFd] # {}
    BY <2>3, OneRole DEF Owner, IsClient, Inv, TablesAgree
  <2> QED BY <2>1, <2>2, <2>4 DEF Inv, TablesTyped
<1>4. RolesTyped'
  BY <1>2, <1>3 DEF Inv, TablesTyped, RolesTyped, Object
<1>5. ASSUME NEW g \in Fd PROVE AgreeAt(g)'
  <2>1. CASE g = fd
    <3>1. /\ fdTable'[g] = Free /\ interest'[g] = {} /\ clientList'[g] = NoConn
          /\ CGIbyRead'[g] = NoPid /\ CGIbyWrite'[g] = NoPid /\ g # Listener
      BY <1>1, <1>2, <1>3, <2>1 DEF Inv, TablesTyped
    <3> QED BY <3>1, Objects, ConnAssumption, PidAssumption DEF AgreeAt
  <2>2. CASE g # fd
    <3>1. Entries(g)' = Entries(g) /\ (interest'[g] = {} <=> interest[g] = {})
      BY <1>2, <1>3, <2>2 DEF Inv, TablesTyped, Entries
    <3> QED BY <3>1, AloneAgrees DEF Inv, TablesAgree
  <2> QED BY <2>1, <2>2
<1>6. IteratorsValid'
  <2>1. \A g \in Fd : CGIbyRead'[g] = IF g = fd THEN NoPid ELSE CGIbyRead[g]
    BY <1>2 DEF Inv, TablesTyped
  <2>2. \A g \in Fd \ {fd} : CGIbyRead[g] # p
    BY <1>1 DEF Inv, TablesAgree, IteratorsValid
  <2>3. CGIbyWrite[w] = NoPid => \A g \in Fd : CGIbyWrite[g] # p
    BY <1>1 DEF Inv, TablesAgree, IteratorsValid
  <2> QED BY <1>2, <2>1, <2>2, <2>3 DEF Inv, TablesAgree, IteratorsValid
<1>7. Served
  BY <1>2 DEF Served, Touch
<1>8. Steady
  <2>1. \A g \in Waiting' : g \in Fd /\ g # fd
    <3>1. fd \notin errFds
      BY DEF AnswerFromScript, OutputEnds, CGIReaderReady, InReaders
    <3> QED BY <1>2, <3>1 DEF Waiting, Touch, Inv, TablesTyped
  <2> QED BY <1>2, <2>1 DEF Steady, Inv, TablesTyped
<1> QED BY <1>4, <1>5, <1>6, <1>7, <1>8 DEF Safe, TablesAgree, RolesAgree, AgreeAt

(* The input side likewise. *)
LEMMA InputCloses ==
  ASSUME Inv, NEW fd \in Fd, EndInput(fd)
  PROVE  Safe
<1> DEFINE p == CGIbyWrite[fd]
           r == ctx[p].fdRead
<1>1. /\ p # NoPid /\ p \in Pid /\ ctx[p].fdWrite = fd /\ p \in CGIMap
      /\ clientList[fd] = NoConn /\ CGIbyRead[fd] = NoPid /\ fd # Listener
  <2>1. ~IsClient(fd) /\ CGIbyWrite[fd] # NoPid
    BY DEF EndInput, CGIWriterReady
  <2> QED BY <2>1, OneRole DEF Inv, TablesAgree, IteratorsValid, IsClient, IsCGI
<1>2. /\ fdTable' = [fdTable EXCEPT ![fd] = Free]
      /\ CGIbyWrite' = [CGIbyWrite EXCEPT ![fd] = NoPid]
      /\ CGIMap' = IF CGIbyRead[r] = NoPid THEN CGIMap \ {p} ELSE CGIMap
      /\ interest' = [interest EXCEPT ![fd] = {}]
      /\ lateCGI' \subseteq lateCGI /\ DoneWriting(fd)
      /\ UNCHANGED <<clientList, CGIbyRead, ctx, lateClients, up>>
  BY <1>1 DEF EndInput, CloseCGIWrite
<1>3. RolesTyped'
  BY <1>2 DEF Inv, TablesTyped, RolesTyped, Object
<1>4. ASSUME NEW g \in Fd PROVE AgreeAt(g)'
  <2>1. CASE g = fd
    <3>1. /\ fdTable'[g] = Free /\ interest'[g] = {} /\ clientList'[g] = NoConn
          /\ CGIbyRead'[g] = NoPid /\ CGIbyWrite'[g] = NoPid /\ g # Listener
      BY <1>1, <1>2, <2>1 DEF Inv, TablesTyped
    <3> QED BY <3>1, Objects, ConnAssumption, PidAssumption DEF AgreeAt
  <2>2. CASE g # fd
    <3>1. Entries(g)' = Entries(g) /\ interest'[g] = interest[g]
      BY <1>2, <2>2 DEF Inv, TablesTyped, Entries
    <3> QED BY <3>1, AloneAgrees DEF Inv, TablesAgree
  <2> QED BY <2>1, <2>2
<1>5. IteratorsValid'
  <2>1. \A g \in Fd : CGIbyWrite'[g] = IF g = fd THEN NoPid ELSE CGIbyWrite[g]
    BY <1>2 DEF Inv, TablesTyped
  <2>2. \A g \in Fd \ {fd} : CGIbyWrite[g] # p
    BY <1>1 DEF Inv, TablesAgree, IteratorsValid
  <2>3. CGIbyRead[r] = NoPid => \A g \in Fd : CGIbyRead[g] # p
    BY <1>1 DEF Inv, TablesAgree, IteratorsValid
  <2> QED BY <1>2, <2>1, <2>2, <2>3 DEF Inv, TablesAgree, IteratorsValid
<1>6. Served
  BY <1>2 DEF Served, DoneWriting
<1>7. Steady
  <2>1. errFds = {} /\ readyReaders = {}
    BY DEF EndInput, CGIWriterReady, InWriters
  <2>2. \A g \in Waiting' : g \in Fd /\ g # fd
    BY <1>2, <2>1 DEF Waiting, DoneWriting, Inv, TablesTyped
  <2> QED BY <1>2, <2>2 DEF Steady, Inv, TablesTyped
<1> QED BY <1>3, <1>4, <1>5, <1>6, <1>7 DEF Safe, TablesAgree, RolesAgree, AgreeAt

-----------------------------------------------------------------------------
(* The two steps that begin and end a pass.                                *)

(* What a registered descriptor other than the listener stands for. *)
LEMMA RegisteredRole ==
  ASSUME Inv, NEW fd \in Ready, fd # Listener
  PROVE  fd \in Fd /\ (IsClient(fd) \/ IsCGI(fd))
<1>1. fd \in Fd /\ interest[fd] # {} /\ fdTable[fd] \in Object
  BY DEF Ready, Registered, Inv, TablesTyped
<1>2. fdTable[fd] \notin {Free, Leaked, LSocket}
  BY <1>1 DEF Inv, TablesAgree, RolesAgree
<1>3. \/ \E k \in Conn : fdTable[fd] = Sock(k)
      \/ \E p \in Pid : fdTable[fd] = Stdout(p)
      \/ \E p \in Pid : fdTable[fd] = Stdin(p)
  BY <1>1, <1>2 DEF Object
<1> QED BY <1>1, <1>3, ConnAssumption, PidAssumption
        DEF Inv, TablesAgree, RolesAgree, IsClient, IsCGI

(* The write end of a pipe never reports input or a hang-up. *)
LEMMA StdinReportsErrorsOnly ==
  ASSUME NEW fd, NEW p, fdTable[fd] = Stdin(p)
  PROVE  Available(fd) \subseteq {"out", "err"}
<1>1. fdTable[fd] # LSocket /\ fdTable[fd][1] = "stdin"
  BY DEF Stdin, LSocket
<1>2. \/ Available(fd) = {"out", "err"} \/ Available(fd) = {"out"}
      \/ Available(fd) = {}
  BY <1>1 DEF Available
<1> QED BY <1>2

(* poll() sorts into the lists what the branches of run() know.            *)
LEMMA PollSorts ==
  ASSUME Inv, Poll
  PROVE  Tables'
<1>1. /\ errFds' = Errors /\ readyListeners' = Ready \cap {Listener}
      /\ readyReaders' = Readers /\ readyWriters' = Writers
      /\ pc' = "dispatch"
      /\ UNCHANGED <<fdTable, interest, clientList, CGIbyRead, CGIbyWrite, CGIMap,
                     ctx, lateClients, lateCGI, up>>
  BY DEF Poll, outside, tables, late
<1>2. Ready \subseteq Fd
  BY DEF Ready, Registered
<1>3. TablesTyped'
  BY <1>1, <1>2 DEF Inv, TablesTyped, Errors, Readers, Writers
<1>4. TablesAgree'
  BY <1>1 DEF Inv, TablesAgree, RolesAgree, IteratorsValid
<1>5. ListsApart'
  BY <1>1 DEF ListsApart, Errors, Readers, Writers
<1>6. NothingStale'
  <2>1. \A fd \in Errors : IsClient(fd)
    BY RegisteredRole DEF Errors
  <2>2. ASSUME NEW fd \in Readers PROVE IsClient(fd) \/ CGIbyRead[fd] # NoPid
    <3>1. CASE Exceptional(fd) /\ CGIbyWrite[fd] # NoPid
      <4>1. fd \in Fd
        BY <1>2 DEF Readers
      <4>2. PICK p \in Pid : fdTable[fd] = Stdin(p)
        BY <3>1, <4>1, OneRole DEF Inv, TablesAgree
      <4>3. Revents(fd) \cap {"in", "hup"} # {}
        BY <3>1 DEF Readers
      <4>4. Available(fd) \subseteq {"out", "err"}
        BY <4>2, StdinReportsErrorsOnly
      <4> QED BY <4>3, <4>4 DEF Revents
    <3>2. CASE ~(Exceptional(fd) /\ CGIbyWrite[fd] # NoPid)
      BY <3>2 DEF Readers, IsCGI
    <3> QED BY <3>1, <3>2
  <2>3. \A fd \in Writers : IsClient(fd) \/ CGIbyWrite[fd] # NoPid
    BY DEF Writers
  <2> QED BY <1>1, <2>1, <2>2, <2>3 DEF NothingStale, IsClient
<1> QED BY <1>3, <1>4, <1>5, <1>6 DEF Tables

(* A sweep closes descriptor numbers, whoever they belong to: still no     *)
(* entry is left of what it closes, nor of a context it erases.            *)
LEMMA SweepCloses ==
  ASSUME Inv, SweepEffect
  PROVE  RolesTyped' /\ TablesAgree'
<1>1. /\ fdTable' = [fd \in Fd |-> IF fd \in Swept THEN Free ELSE fdTable[fd]]
      /\ clientList' = [fd \in Fd |-> IF fd \in ToClose THEN NoConn ELSE clientList[fd]]
      /\ CGIbyRead' = [fd \in Fd |-> IF fd \in KilledReads THEN NoPid ELSE CGIbyRead[fd]]
      /\ CGIbyWrite' = [fd \in Fd |-> IF fd \in KilledWrites THEN NoPid ELSE CGIbyWrite[fd]]
      /\ CGIMap' = CGIMap \ ToKill
      /\ lateClients' \subseteq lateClients /\ lateCGI' \subseteq lateCGI
      /\ ctx' = ctx /\ up' = up
  BY DEF SweepEffect
<1>2. /\ interest' \in [Fd -> SUBSET Event]
      /\ \A fd \in Swept : interest'[fd] = {}
      /\ \A fd \in Fd \ Swept : interest'[fd] = {} <=> interest[fd] = {}
  <2>1. interest' = [fd \in Fd |->
                       IF fd \in Swept THEN {}
                       ELSE IF IsClient(fd) /\ TimedOut(clientList[fd]) # {} THEN {"out"}
                       ELSE interest[fd]]
    BY DEF SweepEffect
  <2>2. \A fd \in Fd : IsClient(fd) => interest[fd] # {}
    BY OneRole DEF Inv, TablesAgree
  <2>3. Swept \subseteq Fd
    BY DEF Swept, ToClose, KilledReads, KilledWrites
  <2> QED BY <2>1, <2>2, <2>3 DEF Inv, TablesTyped, Event
<1>3. RolesTyped'
  BY <1>1, <1>2 DEF Inv, TablesTyped, RolesTyped, Object
<1>4. /\ \A fd \in ToClose : fd \in Fd /\ IsClient(fd)
      /\ \A fd \in KilledReads : fd \in Fd /\ CGIbyRead[fd] # NoPid
      /\ \A fd \in KilledWrites : fd \in Fd /\ CGIbyWrite[fd] # NoPid
  BY ConnAssumption DEF ToClose, KilledReads, KilledWrites, IsClient, Inv, TablesTyped
<1>5. ASSUME NEW g \in Fd PROVE AgreeAt(g)'
  <2>1. CASE g \in Swept
    <3>1. fdTable'[g] = Free /\ interest'[g] = {}
      BY <1>1, <1>2, <2>1
    <3>2. clientList'[g] = NoConn /\ CGIbyRead'[g] = NoPid /\ CGIbyWrite'[g] = NoPid
      BY <1>1, <1>4, <2>1, OneRole DEF Swept, IsCGI, IsClient, Inv, TablesAgree
    <3>3. g # Listener
      BY <1>4, <2>1, OneRole DEF Swept, IsCGI, Inv, TablesAgree
    <3> QED BY <3>1, <3>2, <3>3, Objects, ConnAssumption, PidAssumption DEF AgreeAt
  <2>2. CASE g \notin Swept
    <3>1. Entries(g)' = Entries(g) /\ (interest'[g] = {} <=> interest[g] = {})
      BY <1>1, <1>2, <2>2 DEF Swept, Entries
    <3> QED BY <3>1, AloneAgrees DEF Inv, TablesAgree
  <2> QED BY <2>1, <2>2
<1>6. IteratorsValid'
  <2>1. ASSUME NEW g \in Fd, CGIbyRead'[g] # NoPid
        PROVE  CGIbyRead'[g] \in CGIMap' /\ ctx'[CGIbyRead'[g]].fdRead = g
    <3>1. CGIbyRead'[g] = CGIbyRead[g] /\ g \notin KilledReads
      BY <1>1, <2>1
    <3>2. CGIbyRead[g] \in CGIMap /\ ctx[CGIbyRead[g]].fdRead = g
      BY <2>1, <3>1 DEF Inv, TablesAgree, IteratorsValid
    <3> QED BY <1>1, <2>1, <3>1, <3>2 DEF KilledReads
  <2>2. ASSUME NEW g \in Fd, CGIbyWrite'[g] # NoPid
        PROVE  CGIbyWrite'[g] \in CGIMap' /\ ctx'[CGIbyWrite'[g]].fdWrite = g
    <3>1. CGIbyWrite'[g] = CGIbyWrite[g] /\ g \notin KilledWrites
      BY <1>1, <2>2
    <3>2. CGIbyWrite[g] \in CGIMap /\ ctx[CGIbyWrite[g]].fdWrite = g
      BY <2>2, <3>1 DEF Inv, TablesAgree, IteratorsValid
    <3> QED BY <1>1, <2>2, <3>1, <3>2 DEF KilledWrites
  <2> QED BY <2>1, <2>2 DEF IteratorsValid
<1> QED BY <1>3, <1>5, <1>6 DEF TablesAgree, RolesAgree, AgreeAt

(* A sweep happens between passes and keeps the tables in agreement.       *)
LEMMA SweepEndsPass ==
  ASSUME Inv, Sweep
  PROVE  Tables' /\ Waiting' = {}
<1>1. /\ pc' = "poll" /\ PassServed'
      /\ UNCHANGED <<errFds, readyListeners, readyReaders, readyWriters>>
  BY DEF Sweep, Idle, PassEnds, ready, Inv, ListsApart, PassServed
<1>2. RolesTyped' /\ TablesAgree'
  <2>1. CASE UNCHANGED <<outside, up, tables, client, late>>
    BY <2>1 DEF outside, tables, late, Inv, TablesTyped, RolesTyped, TablesAgree,
                RolesAgree, IteratorsValid
  <2>2. CASE SweepEffect
    BY <2>2, SweepCloses
  <2> QED BY <2>1, <2>2 DEF Sweep, SweepExpiredClients
<1>3. TablesTyped'
  BY <1>1, <1>2 DEF Inv, TablesTyped, RolesTyped
<1> QED BY <1>1, <1>2, <1>3 DEF Tables, NothingStale, ListsApart, PassServed, Waiting
-----------------------------------------------------------------------------
(* Every step of the loop and of what surrounds it.                        *)

(* Asking other events of a client changes no role. *)
LEMMA MaskChanges ==
  ASSUME Inv, NEW fd \in Fd, IsClient(fd), NEW mask \in SUBSET Event, mask # {},
         interest' = [interest EXCEPT ![fd] = mask]
  PROVE  /\ interest' \in [Fd -> SUBSET Event]
         /\ \A g \in Fd : interest'[g] = {} <=> interest[g] = {}
<1>1. interest[fd] # {}
  BY OneRole DEF Inv, TablesAgree
<1> QED BY <1>1 DEF Inv, TablesTyped

(* A step that leaves the tables alone is safe.                            *)
LEMMA NothingChanges ==
  ASSUME Inv, Served,
         UNCHANGED <<fdTable, interest, clientList, CGIbyRead, CGIbyWrite, CGIMap, ctx>>,
         lateClients' \subseteq Conn, lateCGI' \subseteq Pid, up' \in BOOLEAN
  PROVE  Safe
<1>1. /\ interest' \in [Fd -> SUBSET Event]
      /\ \A fd \in Fd : interest'[fd] = {} <=> interest[fd] = {}
  BY DEF Inv, TablesTyped
<1> QED BY <1>1, RolesKept

(* Peers, scripts and the clock touch no table of the loop.                *)
LEMMA EnvironmentIsSafe ==
  ASSUME Inv, Clock \/ Peers \/ Scripts
  PROVE  Safe
<1>1. CASE Clock
  <2>1. /\ UNCHANGED <<outside, server>>
        /\ lateClients' \subseteq lateClients \cup Conn
        /\ lateCGI' \subseteq lateCGI \cup Pid
    BY <1>1, PeerAssumption DEF Clock, ClientDeadline, ScriptDeadline
  <2> QED BY <2>1, NothingChanges DEF outside, server, tables, ready, Served, Inv, TablesTyped
<1>2. CASE Peers \/ Scripts
  <2>1. UNCHANGED <<fdTable, server, late>>
    BY <1>2 DEF Peers, Connect, PeerSend, PeerShut, PeerReset, Scripts, ScriptReads,
                ScriptWrites, ScriptClosesInput, ScriptClosesOutput
  <2> QED BY <2>1, NothingChanges DEF server, tables, ready, late, Served, Inv, TablesTyped
<1> QED BY <1>1, <1>2

(* The end of the process changes nothing else.                            *)
LEMMA AbortIsSafe ==
  ASSUME Inv, Abort
  PROVE  Safe
BY NothingChanges DEF Abort, outside, tables, late, ready, Served, Inv, TablesTyped

(* Serving the list of errors is safe.                                     *)
LEMMA ErrorsAreSafe ==
  ASSUME Inv, NEW fd \in Fd, ServeError(fd)
  PROVE  Safe
<1>1. /\ CloseClient(fd) /\ fd \in errFds /\ errFds' = errFds \ {fd}
      /\ UNCHANGED <<pc, readyListeners, readyReaders, readyWriters>>
  BY DEF ServeError, CloseBroken, InErrors
<1>2. IsClient(fd) /\ fd \notin readyReaders \cup readyWriters
  BY <1>1 DEF Inv, NothingStale, ListsApart
<1>3. fd \notin Waiting' /\ Served
  BY <1>1, <1>2 DEF Waiting, Served
<1> QED BY <1>1, <1>2, <1>3, ClientCloses

(* Serving the listener is safe.                                           *)
LEMMA ListenerIsSafe ==
  ASSUME Inv, ServeListener
  PROVE  Safe
<1>1. CASE AcceptEnds
  BY <1>1, NothingChanges DEF AcceptEnds, outside, tables, late, Served, Inv, TablesTyped
<1>2. CASE \E k \in Conn : Accept(k)
  BY <1>2, ClientEnters
<1> QED BY <1>1, <1>2 DEF ServeListener

(* Serving a reader is safe, branch by branch.                             *)
LEMMA ReadersAreSafe ==
  ASSUME Inv, NEW fd \in Fd, ServeReader(fd)
  PROVE  Safe
<1>1. CASE ReadError(fd)
  BY <1>1, NothingChanges DEF ReadError, Touch, outside, tables, late, Served, Inv, TablesTyped
<1>2. CASE ReadEof(fd)
  <2>1. /\ IsClient(fd) /\ interest' = [interest EXCEPT ![fd] = {"out"}] /\ Touch(fd)
        /\ UNCHANGED <<outside, up, clientList, CGIbyRead, CGIbyWrite, CGIMap, ctx, late>>
    BY <1>2 DEF ReadEof
  <2>2. {"out"} \in SUBSET Event
    BY DEF Event
  <2>3. /\ interest' \in [Fd -> SUBSET Event]
        /\ \A g \in Fd : interest'[g] = {} <=> interest[g] = {}
    BY <2>1, <2>2, MaskChanges
  <2> QED BY <2>1, <2>3, RolesKept DEF outside, late, Touch, Served, Inv, TablesTyped
<1>3. CASE ReadKeeps(fd)
  <2>1. /\ Touch(fd) /\ lateClients' \subseteq lateClients
        /\ UNCHANGED <<fdTable, clientList, up, interest, CGIbyRead, CGIbyWrite, CGIMap,
                       ctx, lateCGI>>
    BY <1>3, Zenon DEF ReadKeeps, Receive
  <2> QED BY <2>1, NothingChanges DEF Touch, Served, Inv, TablesTyped
<1>4. CASE ReadAndAnswer(fd)
  <2>1. /\ IsClient(fd) /\ interest' = [interest EXCEPT ![fd] = Replying] /\ Touch(fd)
        /\ lateClients' \subseteq lateClients
        /\ UNCHANGED <<fdTable, clientList, up, CGIbyRead, CGIbyWrite, CGIMap, ctx, lateCGI>>
    BY <1>4, Zenon DEF ReadAndAnswer, GotRequest, GotBytes, Receive
  <2>2. Replying \in SUBSET Event /\ Replying # {}
    BY DEF Event, Replying
  <2>3. /\ interest' \in [Fd -> SUBSET Event]
        /\ \A g \in Fd : interest'[g] = {} <=> interest[g] = {}
    BY <2>1, <2>2, MaskChanges
  <2> QED BY <2>1, <2>3, RolesKept DEF Touch, Served, Inv, TablesTyped
<1>5. CASE PipeFails(fd)
  BY <1>5, PipeIsLost
<1>6. CASE ForkFails(fd) \/ AnswerIntoDangling(fd)
  BY <1>6, AbortIsSafe DEF ForkFails, AnswerIntoDangling
<1>7. CASE \E p \in Pid : StartCGI(fd, p)
  BY <1>7, ScriptEnters
<1>8. CASE ReadOutput(fd)
  <2>1. /\ Touch(fd)
        /\ UNCHANGED <<fdTable, clientList, up, interest, CGIbyRead, CGIbyWrite, CGIMap,
                       ctx, lateClients, lateCGI>>
    BY <1>8, Zenon DEF ReadOutput, late
  <2> QED BY <2>1, NothingChanges DEF Touch, Served, Inv, TablesTyped
<1>9. CASE AnswerFromScript(fd)
  BY <1>9, OutputCloses
<1> QED BY <1>1, <1>2, <1>3, <1>4, <1>5, <1>6, <1>7, <1>8, <1>9 DEF ServeReader

(* Serving a writer is safe, branch by branch.                             *)
LEMMA WritersAreSafe ==
  ASSUME Inv, NEW fd \in Fd, ServeWriter(fd)
  PROVE  Safe
<1>1. ASSUME NEW n \in 0 .. 2, SendPart(fd, n) PROVE Safe
  <2>1. /\ DoneWriting(fd) /\ lateClients' \subseteq lateClients
        /\ UNCHANGED <<fdTable, tables, up, lateCGI>>
    BY <1>1, Zenon DEF SendPart, Sends
  <2> QED BY <2>1, NothingChanges DEF tables, DoneWriting, Served, Inv, TablesTyped
<1>2. ASSUME NEW n \in 0 .. 2, SendLastAndKeep(fd, n) PROVE Safe
  <2>1. /\ IsClient(fd) /\ interest' = [interest EXCEPT ![fd] = {"in"}] /\ DoneWriting(fd)
        /\ lateClients' \subseteq lateClients
        /\ UNCHANGED <<fdTable, clientList, up, CGIbyRead, CGIbyWrite, CGIMap, ctx, lateCGI>>
    BY <1>2 DEF SendLastAndKeep, Sends, ClientWriterReady
  <2>2. {"in"} \in SUBSET Event
    BY DEF Event
  <2>3. /\ interest' \in [Fd -> SUBSET Event]
        /\ \A g \in Fd : interest'[g] = {} <=> interest[g] = {}
    BY <2>1, <2>2, MaskChanges
  <2> QED BY <2>1, <2>3, RolesKept DEF DoneWriting, Served, Inv, TablesTyped
<1>3. ASSUME ClientWriterReady(fd), CloseClient(fd), DoneWriting(fd) PROVE Safe
  <2>1. fd \notin Waiting' /\ Served /\ IsClient(fd)
    BY <1>3 DEF ClientWriterReady, InWriters, DoneWriting, Waiting, Served
  <2> QED BY <1>3, <2>1, ClientCloses
<1>4. ASSUME NEW n \in 0 .. 2, SendLastAndClose(fd, n) PROVE Safe
  BY <1>3, <1>4, Zenon DEF SendLastAndClose, Sends
<1>5. CASE SendFails(fd)
  <2>1. \/ Abort
        \/ ClientWriterReady(fd) /\ CloseClient(fd) /\ DoneWriting(fd)
    BY <1>5, Zenon DEF SendFails
  <2> QED BY <1>3, <2>1, AbortIsSafe
<1>6. CASE FeedScript(fd)
  <2>1. /\ DoneWriting(fd)
        /\ UNCHANGED <<fdTable, clientList, up, interest, CGIbyRead, CGIbyWrite, CGIMap,
                       ctx, lateClients, lateCGI>>
    BY <1>6, Zenon DEF FeedScript, late
  <2> QED BY <2>1, NothingChanges DEF DoneWriting, Served, Inv, TablesTyped
<1>7. CASE EndInput(fd)
  BY <1>7, InputCloses
<1>8. CASE FeedForNobody(fd) \/ FeedDeafScript(fd)
  BY <1>8, AbortIsSafe DEF FeedForNobody, FeedDeafScript
<1> QED BY <1>1, <1>2, <1>4, <1>5, <1>6, <1>7, <1>8 DEF ServeWriter

(* A step is safe, or it is the poll that begins a pass or the sweep that  *)
(* ends it.                                                                *)
LEMMA StepCases ==
  ASSUME Inv, Next
  PROVE  Safe \/ Poll \/ Sweep
<1>1. CASE SweepIntoDangling
  BY <1>1, AbortIsSafe DEF SweepIntoDangling
<1>2. CASE ServeListener
  BY <1>2, ListenerIsSafe
<1>3. CASE \E fd \in Fd : ServeError(fd) \/ ServeReader(fd) \/ ServeWriter(fd)
  BY <1>3, ErrorsAreSafe, ReadersAreSafe, WritersAreSafe
<1>4. CASE Clock \/ Peers \/ Scripts
  BY <1>4, EnvironmentIsSafe
<1> QED BY <1>1, <1>2, <1>3, <1>4 DEF Next, Serve

-----------------------------------------------------------------------------
(* Scripts are started once.                                               *)

(* Setting another field of a record keeps its state.                      *)
LEMMA OtherFieldKeepsSt ==
  ASSUME NEW s, "st" \in DOMAIN s, NEW f, f # "st", NEW v
  PROVE  /\ "st" \in DOMAIN [s EXCEPT ![f] = v]
         /\ [s EXCEPT ![f] = v].st = s.st
OBVIOUS

(* Setting other fields of a script, and making no context. *)
LEMMA StatesKept ==
  ASSUME ScriptsStarted, NEW p \in Pid, NEW s,
         "st" \in DOMAIN s, s.st = script[p].st,
         script' = [script EXCEPT ![p] = s], CGIMap' \subseteq CGIMap
  PROVE  ScriptsStarted'
BY DEF ScriptsStarted

(* What scripts do does not change whether they were started.              *)
LEMMA ScriptStepsKeepStates ==
  ASSUME Inv, Scripts
  PROVE  ScriptsStarted'
<1>1. CGIMap' = CGIMap
  BY DEF Scripts, ScriptReads, ScriptWrites, ScriptClosesInput, ScriptClosesOutput,
         server, tables
<1>2. PICK p \in Pid : \/ ScriptReads(p) \/ ScriptWrites(p)
                       \/ ScriptClosesInput(p) \/ ScriptClosesOutput(p)
  BY DEF Scripts
<1>3. ScriptsStarted /\ "st" \in DOMAIN script[p]
  BY DEF Inv, ScriptsStarted
<1>4. CASE ScriptReads(p)
  <2>1. script' = [script EXCEPT ![p] = [script[p] EXCEPT !.in = 0]]
    BY <1>4, Zenon DEF ScriptReads
  <2> QED BY <1>1, <1>3, <2>1, OtherFieldKeepsSt, StatesKept, Zenon
<1>5. CASE ScriptClosesOutput(p)
  <2>1. script' = [script EXCEPT ![p] = [script[p] EXCEPT !.wr = FALSE]]
    BY <1>5, Zenon DEF ScriptClosesOutput
  <2> QED BY <1>1, <1>3, <2>1, OtherFieldKeepsSt, StatesKept, Zenon
<1>6. CASE ScriptWrites(p)
  <2>1. PICK s : s = [script[p] EXCEPT !.out = script[p].out + 1]
    OBVIOUS
  <2>2. script' = [script EXCEPT ![p] = [s EXCEPT !.wrote = script[p].wrote + 1]]
    BY <1>6, <2>1, Zenon DEF ScriptWrites
  <2>3. "st" \in DOMAIN s /\ s.st = script[p].st
    BY <1>3, <2>1, OtherFieldKeepsSt, Zenon
  <2> QED BY <1>1, <1>3, <2>2, <2>3, OtherFieldKeepsSt, StatesKept, Zenon
<1>7. CASE ScriptClosesInput(p)
  <2>1. PICK s : s = [script[p] EXCEPT !.rd = FALSE]
    OBVIOUS
  <2>2. script' = [script EXCEPT ![p] = [s EXCEPT !.in = 0]]
    BY <1>7, <2>1, Zenon DEF ScriptClosesInput
  <2>3. "st" \in DOMAIN s /\ s.st = script[p].st
    BY <1>3, <2>1, OtherFieldKeepsSt, Zenon
  <2> QED BY <1>1, <1>3, <2>2, <2>3, OtherFieldKeepsSt, StatesKept, Zenon
<1> QED BY <1>2, <1>4, <1>5, <1>6, <1>7

(* Most steps leave the scripts alone and make no context. *)
LEMMA ScriptsUntouched ==
  ASSUME Inv, script' = script, CGIMap' \subseteq CGIMap
  PROVE  ScriptsStarted'
BY DEF Inv, ScriptsStarted

(* The loop makes contexts for started scripts only.                       *)
LEMMA ServeKeepsStates ==
  ASSUME Inv, Serve
  PROVE  ScriptsStarted'
<1>1. ASSUME Abort PROVE ScriptsStarted'
  BY <1>1, ScriptsUntouched DEF Abort, outside, tables
<1>2. CASE Poll \/ ServeListener
  BY <1>2, ScriptsUntouched DEF Poll, ServeListener, Accept, AcceptEnds, outside, tables
<1>3. ASSUME SweepEffect PROVE ScriptsStarted'
  <2>1. /\ CGIMap' = CGIMap \ ToKill
        /\ script' = [p \in Pid |-> IF p \in ToKill
                                    THEN [script[p] EXCEPT !.rd = FALSE, !.wr = FALSE, !.in = 0]
                                    ELSE script[p]]
    BY <1>3, Zenon DEF SweepEffect
  <2>2. ASSUME NEW p \in Pid
        PROVE  "st" \in DOMAIN script'[p] /\ (p \in CGIMap' => script'[p].st # "none")
    <3>1. CASE p \in ToKill
      <4>1. /\ script'[p] = [script[p] EXCEPT !.rd = FALSE, !.wr = FALSE, !.in = 0]
            /\ p \notin CGIMap'
        BY <2>1, <3>1, Zenon
      <4>2. "st" \in DOMAIN script[p]
        BY DEF Inv, ScriptsStarted
      <4>3. ASSUME NEW s, "st" \in DOMAIN s
            PROVE  "st" \in DOMAIN [s EXCEPT !.rd = FALSE, !.wr = FALSE, !.in = 0]
        BY <4>3
      <4> QED BY <4>1, <4>2, <4>3, Zenon
    <3>2. CASE p \notin ToKill
      <4>1. script'[p] = script[p]
        BY <2>1, <3>2, Zenon
      <4>2. p \in CGIMap' => p \in CGIMap
        BY <2>1
      <4> QED BY <4>1, <4>2 DEF Inv, ScriptsStarted
    <3> QED BY <3>1, <3>2
  <2>3. DOMAIN script' = Pid
    BY <2>1, Zenon
  <2> QED BY <2>2, <2>3 DEF ScriptsStarted
<1>4. CASE Sweep \/ SweepIntoDangling
  <2>1. CASE UNCHANGED <<outside, up, tables, client, late>>
    BY <2>1, ScriptsUntouched DEF outside, tables
  <2> QED BY <1>1, <1>3, <1>4, <2>1 DEF Sweep, SweepExpiredClients, SweepIntoDangling
<1>5. ASSUME NEW fd \in Fd, CloseClient(fd) PROVE ScriptsStarted'
  BY <1>5, ScriptsUntouched DEF CloseClient
<1>6. ASSUME NEW fd \in Fd, ServeReader(fd) PROVE ScriptsStarted'
  <2>1. CASE \/ ReadError(fd) \/ ReadEof(fd) \/ ReadKeeps(fd) \/ ReadAndAnswer(fd)
             \/ PipeFails(fd)
    <3>1. script' = script /\ CGIMap' = CGIMap
      BY <2>1, Zenon DEF ReadError, ReadEof, ReadKeeps, ReadAndAnswer, PipeFails,
                         outside, tables
    <3> QED BY <3>1, ScriptsUntouched
  <2>2. CASE ForkFails(fd) \/ AnswerIntoDangling(fd)
    BY <1>1, <2>2 DEF ForkFails, AnswerIntoDangling
  <2>3. ASSUME NEW p \in Pid, StartCGI(fd, p) PROVE ScriptsStarted'
    <3>1. /\ CGIMap' = CGIMap \cup {p}
          /\ script' = [script EXCEPT ![p] = [st |-> "run", rd |-> TRUE, wr |-> TRUE,
                                              in |-> 0, out |-> 0, wrote |-> 0]]
      BY <2>3, Zenon DEF StartCGI
    <3> QED BY <3>1 DEF Inv, ScriptsStarted
  <2>4. CASE ReadOutput(fd)
    <3>1. PICK p : p = CGIbyRead[fd]
      OBVIOUS
    <3>2. /\ script' = [script EXCEPT ![p] = [script[p] EXCEPT !.out = 0]]
          /\ CGIMap' = CGIMap
      BY <2>4, <3>1, Zenon DEF ReadOutput
    <3>3. p \in Pid
      BY <2>4, <3>1, OneRole DEF ReadOutput, CGIReaderReady, Inv, TablesAgree
    <3>4. ScriptsStarted /\ "st" \in DOMAIN script[p]
      BY <3>3 DEF Inv, ScriptsStarted
    <3> QED BY <3>2, <3>3, <3>4, OtherFieldKeepsSt, StatesKept, Zenon
  <2>5. CASE AnswerFromScript(fd)
    <3>1. script' = script /\ CloseCGIRead(CGIbyRead[fd])
      BY <2>5, Zenon DEF AnswerFromScript
    <3> QED BY <3>1, ScriptsUntouched DEF CloseCGIRead
  <2> QED BY <1>6, <2>1, <2>2, <2>3, <2>4, <2>5 DEF ServeReader
<1>7. ASSUME NEW fd \in Fd, ServeWriter(fd) PROVE ScriptsStarted'
  <2>1. CASE \E n \in 0 .. 2 : SendPart(fd, n) \/ SendLastAndKeep(fd, n)
    <3>1. script' = script /\ CGIMap' = CGIMap
      BY <2>1, Zenon DEF SendPart, SendLastAndKeep, tables
    <3> QED BY <3>1, ScriptsUntouched
  <2>2. CASE \E n \in 0 .. 2 : SendLastAndClose(fd, n)
    BY <1>5, <2>2, Zenon DEF SendLastAndClose
  <2>3. CASE SendFails(fd) \/ FeedForNobody(fd) \/ FeedDeafScript(fd)
    <3>1. Abort \/ CloseClient(fd)
      BY <2>3, Zenon DEF SendFails, FeedForNobody, FeedDeafScript
    <3> QED BY <1>1, <1>5, <3>1
  <2>4. CASE FeedScript(fd)
    <3>1. PICK p : p = CGIbyWrite[fd]
      OBVIOUS
    <3>2. /\ \E n : script' = [script EXCEPT ![p] = [script[p] EXCEPT !.in = n]]
          /\ CGIMap' = CGIMap
      BY <2>4, <3>1, Zenon DEF FeedScript
    <3>3. p \in Pid
      BY <2>4, <3>1, OneRole DEF FeedScript, CGIWriterReady, Inv, TablesAgree
    <3>4. ScriptsStarted /\ "st" \in DOMAIN script[p]
      BY <3>3 DEF Inv, ScriptsStarted
    <3> QED BY <3>2, <3>3, <3>4, OtherFieldKeepsSt, StatesKept, Zenon
  <2>5. CASE EndInput(fd)
    <3>1. script' = script /\ CloseCGIWrite(CGIbyWrite[fd])
      BY <2>5, Zenon DEF EndInput
    <3> QED BY <3>1, ScriptsUntouched DEF CloseCGIWrite
  <2> QED BY <1>7, <2>1, <2>2, <2>3, <2>4, <2>5 DEF ServeWriter
<1>8. CASE \E fd \in Fd : ServeError(fd)
  BY <1>5, <1>8 DEF ServeError, CloseBroken
<1> QED BY <1>2, <1>4, <1>6, <1>7, <1>8 DEF Serve

-----------------------------------------------------------------------------
(* The theorems.                                                           *)

(* The invariant holds at first.                                           *)
LEMMA InitInv == Init => Inv
<1> SUFFICES ASSUME Init PROVE Inv
  OBVIOUS
<1>1. TablesTyped
  BY FdAssumption DEF Init, TablesTyped, Object, Event, Context, NoContext, Listener, Fd
<1>2. TablesAgree
  BY ConnAssumption, PidAssumption, Objects
     DEF Init, TablesAgree, RolesAgree, IteratorsValid
<1>3. NothingStale /\ ListsApart /\ ScriptsStarted
  BY DEF Init, NothingStale, ListsApart, PassServed, ScriptsStarted
<1> QED BY <1>1, <1>2, <1>3 DEF Inv

(* Every step keeps the invariant.                                         *)
LEMMA StepInv == Inv /\ [Next]_vars => Inv'
<1> SUFFICES ASSUME Inv, [Next]_vars PROVE Inv'
  OBVIOUS
<1>1. CASE UNCHANGED vars
  BY <1>1 DEF vars, outside, tables, ready, late, Inv, TablesTyped, TablesAgree,
              RolesAgree, IteratorsValid, NothingStale, IsClient, ListsApart,
              PassServed, ScriptsStarted
<1>2. CASE Next
  <2>1. Tables'
    BY <1>2, StepCases, SafeKeepsTables, PollSorts, SweepEndsPass
  <2>2. ScriptsStarted'
    <3>1. CASE Clock \/ Peers
      BY <3>1, ScriptsUntouched
         DEF Clock, ClientDeadline, ScriptDeadline, Peers, Connect, PeerSend, PeerShut,
             PeerReset, outside, server, tables
    <3> QED BY <1>2, <3>1, ServeKeepsStates, ScriptStepsKeepStates DEF Next
  <2> QED BY <2>1, <2>2 DEF Tables, Inv
<1> QED BY <1>1, <1>2

(* The tables of the loop and the kernel's hold only what they are made    *)
(* for, whatever the peers, the scripts and the clock do.                  *)
THEOREM TypeCorrect == Spec => []TablesTyped
<1>1. Inv => TablesTyped
  BY DEF Inv
<1> QED BY InitInv, StepInv, <1>1, PTL DEF Spec

(* Every open descriptor is polled and has one role in the loop's tables,  *)
(* the kernel's; no closed one is left in any of them, and every iterator  *)
(* leads to the live context made for its descriptor.                      *)
THEOREM TablesAlwaysAgree == Spec => []TablesAgree
<1>1. Inv => TablesAgree
  BY DEF Inv
<1> QED BY InitInv, StepInv, <1>1, PTL DEF Spec

(* Within a pass run() never meets a descriptor that lost its role after   *)
(* poll() reported it.                                                     *)
THEOREM ReadyListsStayValid == Spec => []NothingStale
<1>1. Inv => NothingStale
  BY DEF Inv
<1> QED BY InitInv, StepInv, <1>1, PTL DEF Spec

(* A descriptor that waits to be served is not closed, nor its number      *)
(* given out again, by the steps of the same pass served before it.        *)
THEOREM ReadyListsStaySteady == Spec => ReadySteady
<1>1. Inv /\ [Next]_vars =>
        [pc = "dispatch" =>
           \A fd \in errFds' \cup readyReaders' \cup readyWriters' :
              fdTable'[fd] = fdTable[fd]]_vars
  <2> SUFFICES ASSUME Inv, Next, pc = "dispatch"
               PROVE  \A fd \in Waiting' : fdTable'[fd] = fdTable[fd]
    BY DEF Waiting
  <2>1. CASE Safe
    BY <2>1 DEF Safe, Steady
  <2>2. CASE Poll
    BY <2>2 DEF Poll
  <2>3. CASE Sweep
    BY <2>3, SweepEndsPass
  <2> QED BY <2>1, <2>2, <2>3, StepCases
<1> QED BY InitInv, StepInv, <1>1, PTL DEF Spec, ReadySteady
=============================================================================
