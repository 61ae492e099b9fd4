------------------------- MODULE PollHelpers_proofs -------------------------
(***************************************************************************)
(* TypeOK and IndexCoherent are together inductive; from them follows that *)
(* every call changes the abstract table of module PollSet at the          *)
(* descriptor it names only.                                               *)
(***************************************************************************)
EXTENDS PollHelpers, TLAPS

Inv == TypeOK /\ IndexCoherent

(* An appended entry leaves the places before it alone. *)
LEMMA AddKeepsInv ==
  ASSUME Inv, NEW fd \in Fd, NEW events \in Masks, addPollFd(fd, events)
  PROVE  Inv'
<1> DEFINE n == Len(pollFdList)
           e == [fd |-> fd, events |-> events]
<1>1. /\ pollFdList \in Seq(PollFd) /\ n \in Nat /\ e \in PollFd
      /\ fdIndex \in [Registered -> 1 .. n] /\ Registered \subseteq Fd
  BY DEF Inv, TypeOK, PollFd
<1>2. /\ pollFdList' = Append(pollFdList, e) /\ Len(pollFdList') = n + 1
      /\ fdIndex' = Put(fdIndex, fd, n + 1) /\ fd \notin Registered
  BY <1>1 DEF addPollFd
<1>3. /\ pollFdList' \in Seq(PollFd) /\ pollFdList'[n + 1] = e
      /\ \A i \in 1 .. n : pollFdList'[i] = pollFdList[i]
  BY <1>1, <1>2
<1>4. /\ Registered' = Registered \cup {fd} /\ fdIndex'[fd] = n + 1
      /\ \A g \in Registered : fdIndex'[g] = fdIndex[g]
  <2> HIDE DEF n
  <2> QED BY <1>2 DEF Registered, Put
<1>5. TypeOK'
  <2>1. fdIndex' = [g \in Registered' |-> fdIndex'[g]]
    BY <1>2 DEF Put, Registered
  <2>2. \A g \in Registered' : fdIndex'[g] \in 1 .. Len(pollFdList')
    BY <1>1, <1>2, <1>4
  <2> QED BY <1>1, <1>3, <1>4, <2>1, <2>2 DEF TypeOK
<1>6. IndexCoherent'
  <2>1. \A g \in Registered' : pollFdList'[fdIndex'[g]].fd = g
    BY <1>1, <1>3, <1>4 DEF Inv, IndexCoherent
  <2>2. ASSUME NEW i \in 1 .. n + 1
        PROVE  pollFdList'[i].fd \in Registered' /\ fdIndex'[pollFdList'[i].fd] = i
    BY <1>1, <1>3, <1>4 DEF Inv, IndexCoherent
  <2> QED BY <1>2, <2>1, <2>2 DEF IndexCoherent
<1> QED BY <1>5, <1>6 DEF Inv

(* Replacing the events of an entry leaves it an entry of the same descriptor. *)
LEMMA EntryFacts ==
  ASSUME NEW p \in PollFd, NEW events \in Masks
  PROVE  /\ [p EXCEPT !.events = events] \in PollFd
         /\ [p EXCEPT !.events = events].fd = p.fd
BY DEF PollFd

(* modifyEvent keeps vector and index in agreement.                        *)
LEMMA ModifyKeepsInv ==
  ASSUME Inv, NEW fd \in Fd, NEW events \in Masks, modifyEvent(fd, events)
  PROVE  Inv'
<1>1. CASE fd \notin Registered
  BY <1>1 DEF modifyEvent, Inv, TypeOK, IndexCoherent, Registered
<1>2. CASE fd \in Registered
  <2>1. /\ pollFdList \in Seq(PollFd) /\ Len(pollFdList) \in Nat
        /\ fdIndex[fd] \in 1 .. Len(pollFdList) /\ fdIndex' = fdIndex
        /\ pollFdList' = [pollFdList EXCEPT ![fdIndex[fd]].events = events]
    BY <1>2 DEF Inv, TypeOK, modifyEvent
  <2>2. /\ pollFdList' \in Seq(PollFd) /\ Len(pollFdList') = Len(pollFdList)
        /\ \A i \in 1 .. Len(pollFdList) : pollFdList'[i].fd = pollFdList[i].fd
    <3> DEFINE i == fdIndex[fd]
    <3>1. pollFdList[i] \in PollFd
      BY <2>1
    <3>2. PICK q : q = [pollFdList[i] EXCEPT !.events = events]
      OBVIOUS
    <3>3. q \in PollFd /\ q.fd = pollFdList[i].fd
      BY <3>1, <3>2, EntryFacts, Zenon
    <3>4. pollFdList' = [pollFdList EXCEPT ![i] = q]
      BY <2>1, <3>2, Zenon
    <3> QED BY <2>1, <3>1, <3>3, <3>4
  <2> QED BY <2>1, <2>2 DEF Inv, TypeOK, IndexCoherent, Registered
<1> QED BY <1>1, <1>2

(* The swap: the tail entry takes over place i, every other place below    *)
(* the tail keeps its entry, and the index follows.                        *)
LEMMA RemoveFacts ==
  ASSUME Inv, NEW fd \in Registered, RemoveAtHole(fd)
  PROVE  LET i == fdIndex[fd]
             n == Len(pollFdList)
         IN  /\ n \in Nat /\ n > 0 /\ i \in 1 .. n
             /\ pollFdList' \in Seq(PollFd) /\ Len(pollFdList') = n - 1
             /\ \A j \in 1 .. n - 1 :
                  pollFdList'[j] = IF j = i THEN pollFdList[n] ELSE pollFdList[j]
             /\ Registered' = Registered \ {fd}
             /\ fdIndex' = [g \in Registered' |->
                              IF g = pollFdList[n].fd THEN i ELSE fdIndex[g]]
<1> DEFINE i == fdIndex[fd]
           n == Len(pollFdList)
<1>1. /\ pollFdList \in Seq(PollFd) /\ n \in Nat /\ i \in 1 .. n /\ n > 0
  BY DEF Inv, TypeOK
<1>2. pollFdList[n].fd \in Registered
  BY <1>1 DEF Inv, IndexCoherent
<1>3. /\ pollFdList' = SubSeq([pollFdList EXCEPT ![i] = pollFdList[n]], 1, n - 1)
      /\ fdIndex' = Erase(Put(fdIndex, pollFdList[n].fd, i), fd)
  BY DEF RemoveAtHole
<1> DEFINE swapped == [pollFdList EXCEPT ![i] = pollFdList[n]]
<1>4. swapped \in Seq(PollFd) /\ Len(swapped) = n
  BY <1>1
<1>5. \A j \in 1 .. n : swapped[j] = IF j = i THEN pollFdList[n] ELSE pollFdList[j]
  BY <1>1
<1>6. /\ pollFdList' \in Seq(PollFd) /\ Len(pollFdList') = n - 1
      /\ \A j \in 1 .. n - 1 : pollFdList'[j] = swapped[j]
  <2> HIDE DEF swapped
  <2> QED BY <1>1, <1>3, <1>4 DEF swapped
<1>7. /\ Registered' = Registered \ {fd}
      /\ fdIndex' = [g \in Registered' |->
                       IF g = pollFdList[n].fd THEN i ELSE fdIndex[g]]
  BY <1>2, <1>3 DEF Put, Erase, Registered
<1> QED BY <1>1, <1>5, <1>6, <1>7

(* delPollFd keeps vector and index in agreement, the swap included.       *)
LEMMA RemoveKeepsInv ==
  ASSUME Inv, NEW fd \in Fd, delPollFd(fd)
  PROVE  Inv'
<1>1. CASE fd \notin Registered
  BY <1>1 DEF delPollFd, vars, Inv, TypeOK, IndexCoherent, Registered
<1>2. CASE fd \in Registered
  <2> DEFINE i == fdIndex[fd]
             n == Len(pollFdList)
  <2>1. /\ n \in Nat /\ n > 0 /\ i \in 1 .. n
        /\ pollFdList' \in Seq(PollFd) /\ Len(pollFdList') = n - 1
        /\ \A j \in 1 .. n - 1 :
             pollFdList'[j] = IF j = i THEN pollFdList[n] ELSE pollFdList[j]
        /\ Registered' = Registered \ {fd}
        /\ fdIndex' = [g \in Registered' |->
                         IF g = pollFdList[n].fd THEN i ELSE fdIndex[g]]
    BY <1>2, RemoveFacts DEF delPollFd
  <2>2. /\ \A g \in Registered : fdIndex[g] \in 1 .. n /\ pollFdList[fdIndex[g]].fd = g
        /\ \A j \in 1 .. n : /\ pollFdList[j].fd \in Registered
                             /\ fdIndex[pollFdList[j].fd] = j
        /\ Registered \subseteq Fd
    BY DEF Inv, TypeOK, IndexCoherent
  <2> HIDE DEF i, n
  <2>3. \A g \in Registered' : /\ fdIndex'[g] \in 1 .. n - 1
                               /\ pollFdList'[fdIndex'[g]].fd = g
    <3> SUFFICES ASSUME NEW g \in Registered'
                 PROVE  /\ fdIndex'[g] \in 1 .. n - 1
                        /\ pollFdList'[fdIndex'[g]].fd = g
      OBVIOUS
    <3>1. g \in Registered /\ g # fd
      BY <2>1
    <3>2. CASE g = pollFdList[n].fd
      <4>1. i # n
        BY <2>1, <2>2, <3>1, <3>2, <1>2 DEF i
      <4> QED BY <2>1, <3>2, <4>1
    <3>3. CASE g # pollFdList[n].fd
      <4>1. fdIndex[g] # n /\ fdIndex[g] # i
        BY <2>2, <3>1, <3>3, <1>2 DEF i
      <4> QED BY <2>1, <2>2, <3>1, <3>3, <4>1
    <3> QED BY <3>2, <3>3
  <2>4. \A j \in 1 .. n - 1 : /\ pollFdList'[j].fd \in Registered'
                             /\ fdIndex'[pollFdList'[j].fd] = j
    <3> SUFFICES ASSUME NEW j \in 1 .. n - 1
                 PROVE  /\ pollFdList'[j].fd \in Registered'
                        /\ fdIndex'[pollFdList'[j].fd] = j
      OBVIOUS
    <3>1. CASE j = i
      <4>1. pollFdList'[j] = pollFdList[n] /\ n \in 1 .. n /\ j # n
        BY <2>1, <3>1
      <4>2. pollFdList[n].fd \in Registered /\ fdIndex[pollFdList[n].fd] = n
        BY <2>2, <4>1
      <4>3. pollFdList[n].fd # fd
        BY <3>1, <4>1, <4>2 DEF i
      <4> QED BY <2>1, <3>1, <4>1, <4>2, <4>3
    <3>2. CASE j # i
      <4>1. /\ pollFdList'[j] = pollFdList[j] /\ j \in 1 .. n /\ j # n
            /\ n \in 1 .. n
        BY <2>1, <3>2
      <4>2. /\ pollFdList[j].fd \in Registered /\ fdIndex[pollFdList[j].fd] = j
            /\ fdIndex[pollFdList[n].fd] = n
        BY <2>2, <4>1
      <4>3. pollFdList[j].fd # fd /\ pollFdList[j].fd # pollFdList[n].fd
        BY <3>2, <4>1, <4>2 DEF i
      <4> QED BY <2>1, <4>1, <4>2, <4>3
    <3> QED BY <3>1, <3>2
  <2>5. fdIndex' \in [Registered' -> 1 .. Len(pollFdList')]
    BY <2>1, <2>3
  <2> QED BY <2>1, <2>2, <2>3, <2>4, <2>5 DEF Inv, TypeOK, IndexCoherent
<1> QED BY <1>1, <1>2

(* The empty vector and the empty index agree.                             *)
LEMMA InitInv == Init => Inv
BY DEF Init, Inv, TypeOK, IndexCoherent, Registered

(* Every call keeps them in agreement.                                     *)
LEMMA StepInv == Inv /\ [Next]_vars => Inv'
<1> SUFFICES ASSUME Inv, [Next]_vars PROVE Inv'
  OBVIOUS
<1>1. ASSUME NEW fd \in Fd, NEW events \in Masks, addPollFd(fd, events) PROVE Inv'
  BY <1>1, AddKeepsInv
<1>2. ASSUME NEW fd \in Fd, NEW events \in Masks, modifyEvent(fd, events) PROVE Inv'
  BY <1>2, ModifyKeepsInv
<1>3. ASSUME NEW fd \in Fd, delPollFd(fd) PROVE Inv'
  BY <1>3, RemoveKeepsInv
<1>4. CASE UNCHANGED vars
  BY <1>4 DEF vars, Inv, TypeOK, IndexCoherent, Registered
<1> QED BY <1>1, <1>2, <1>3, <1>4 DEF Next

(* The index always stays inside the vector, whatever the descriptors and  *)
(* the order of calls.                                                     *)
THEOREM TypeCorrect == Spec => []TypeOK
<1>1. Inv => TypeOK
  BY DEF Inv
<1> QED BY InitInv, StepInv, <1>1, PTL DEF Spec

(* The vector given to poll() and the index never part.                    *)
THEOREM IndexStaysCoherent == Spec => []IndexCoherent
<1>1. Inv => IndexCoherent
  BY DEF Inv
<1> QED BY InitInv, StepInv, <1>1, PTL DEF Spec

-----------------------------------------------------------------------------
(* Refinement: what each call does to the table the loop sees.             *)

(* addPollFd is a Register of the abstract table.                          *)
LEMMA AddRegisters ==
  ASSUME Inv, NEW fd \in Fd, NEW events \in Masks, addPollFd(fd, events)
  PROVE  Table!Register(fd, events)
<1> DEFINE n == Len(pollFdList)
<1>1. /\ pollFdList \in Seq(PollFd) /\ n \in Nat
      /\ fdIndex \in [Registered -> 1 .. n] /\ fd \notin Registered
  BY DEF Inv, TypeOK, addPollFd
<1>2. /\ \A i \in 1 .. n : pollFdList'[i] = pollFdList[i]
      /\ pollFdList'[n + 1].events = events /\ Len(pollFdList') = n + 1
  BY <1>1 DEF addPollFd
<1>3. /\ Registered' = Registered \cup {fd} /\ fdIndex'[fd] = n + 1
      /\ \A g \in Registered : fdIndex'[g] = fdIndex[g]
  <2> HIDE DEF n
  <2> QED BY <1>1, <1>2 DEF addPollFd, Registered, Put
<1>4. interestBar[fd] = {}
  BY <1>1 DEF interestBar
<1>5. interestBar' = [interestBar EXCEPT ![fd] = events]
  BY <1>1, <1>2, <1>3 DEF interestBar
<1> QED BY <1>4, <1>5 DEF Table!Register

(* modifyEvent is a Modify, or nothing for an unknown descriptor.          *)
LEMMA ModifyModifies ==
  ASSUME Inv, NEW fd \in Fd, NEW events \in Masks, modifyEvent(fd, events)
  PROVE  Table!Modify(fd, events) \/ UNCHANGED interestBar
<1>1. CASE fd \notin Registered
  BY <1>1 DEF modifyEvent, interestBar, Registered
<1>2. CASE fd \in Registered
  <2> DEFINE i == fdIndex[fd]
  <2>1. /\ pollFdList \in Seq(PollFd) /\ i \in 1 .. Len(pollFdList)
        /\ pollFdList[i] \in PollFd
        /\ \A g \in Registered : /\ fdIndex[g] \in 1 .. Len(pollFdList)
                                 /\ g # fd => fdIndex[g] # i
    BY <1>2 DEF Inv, TypeOK, IndexCoherent
  <2>2. PICK q : q = [pollFdList[i] EXCEPT !.events = events]
    OBVIOUS
  <2>3. q.events = events
    <3> SUFFICES ASSUME NEW p \in PollFd
                 PROVE  [p EXCEPT !.events = events].events = events
      BY <2>1, <2>2, Zenon
    <3> QED BY DEF PollFd
  <2>4. pollFdList' = [pollFdList EXCEPT ![i] = q] /\ fdIndex' = fdIndex
    BY <1>2, <2>2, Zenon DEF modifyEvent
  <2>5. pollFdList'[i] = q
        /\ \A j \in 1 .. Len(pollFdList) : j # i => pollFdList'[j] = pollFdList[j]
    BY <2>1, <2>4
  <2>6. interestBar' = [interestBar EXCEPT ![fd] = events]
    <3> HIDE DEF i
    <3>1. \A g \in Registered \ {fd} : pollFdList'[fdIndex[g]] = pollFdList[fdIndex[g]]
      BY <2>1, <2>5
    <3>2. pollFdList'[fdIndex[fd]].events = events
      BY <2>3, <2>5 DEF i
    <3>3. Registered' = Registered
      BY <2>4 DEF Registered
    <3>4. ASSUME NEW g \in Fd \ {fd} PROVE interestBar'[g] = interestBar[g]
      BY <3>1, <3>3, <3>4, <2>4 DEF interestBar
    <3>5. interestBar'[fd] = events
      BY <1>2, <3>2, <3>3, <2>4 DEF interestBar
    <3> QED BY <3>4, <3>5 DEF interestBar
  <2>7. interestBar[fd] # {}
    BY <1>2, <2>1 DEF interestBar, PollFd, Masks, Inv, TypeOK
  <2> QED BY <2>6, <2>7 DEF Table!Modify
<1> QED BY <1>1, <1>2

(* delPollFd is an Unregister, or nothing for an unknown descriptor.       *)
LEMMA RemoveUnregisters ==
  ASSUME Inv, NEW fd \in Fd, delPollFd(fd)
  PROVE  Table!Unregister(fd) \/ UNCHANGED interestBar
<1>1. CASE fd \notin Registered
  BY <1>1 DEF delPollFd, vars, interestBar, Registered
<1>2. CASE fd \in Registered
  <2> DEFINE i == fdIndex[fd]
             n == Len(pollFdList)
  <2>1. /\ n \in Nat /\ n > 0 /\ i \in 1 .. n
        /\ \A j \in 1 .. n - 1 :
             pollFdList'[j] = IF j = i THEN pollFdList[n] ELSE pollFdList[j]
        /\ Registered' = Registered \ {fd}
        /\ fdIndex' = [g \in Registered' |->
                         IF g = pollFdList[n].fd THEN i ELSE fdIndex[g]]
    BY <1>2, RemoveFacts DEF delPollFd
  <2>2. /\ \A g \in Registered : fdIndex[g] \in 1 .. n /\ pollFdList[fdIndex[g]].fd = g
        /\ fdIndex[pollFdList[n].fd] = n
        /\ pollFdList[i] \in PollFd
    BY <2>1 DEF Inv, TypeOK, IndexCoherent
  <2> HIDE DEF i, n
  <2>3. \A g \in Registered' : pollFdList'[fdIndex'[g]] = pollFdList[fdIndex[g]]
    <3> SUFFICES ASSUME NEW g \in Registered'
                 PROVE  pollFdList'[fdIndex'[g]] = pollFdList[fdIndex[g]]
      OBVIOUS
    <3>1. CASE g = pollFdList[n].fd
      <4>1. i # n
        BY <1>2, <2>1, <2>2, <3>1 DEF i
      <4> QED BY <2>1, <2>2, <3>1, <4>1
    <3>2. CASE g # pollFdList[n].fd
      <4>1. fdIndex[g] \in 1 .. n - 1 /\ fdIndex[g] # i
        BY <1>2, <2>1, <2>2, <3>2 DEF i
      <4> QED BY <2>1, <3>2, <4>1
    <3> QED BY <3>1, <3>2
  <2>4. interestBar' = [interestBar EXCEPT ![fd] = {}]
    <3>1. ASSUME NEW g \in Fd \ {fd}
          PROVE  interestBar'[g] = interestBar[g]
      BY <2>1, <2>3 DEF interestBar
    <3>2. interestBar'[fd] = {}
      BY <2>1 DEF interestBar
    <3> QED BY <3>1, <3>2 DEF interestBar
  <2>5. interestBar[fd] # {}
    BY <1>2, <2>2 DEF interestBar, PollFd, Masks, i
  <2> QED BY <2>4, <2>5 DEF Table!Unregister
<1> QED BY <1>1, <1>2

(* The vector and the index together implement the table of PollSet: each  *)
(* call changes the mask of the descriptor it names, and of no other.      *)
THEOREM Refinement == Spec => ImplementsPollSet
<1>1. Init => Table!Init
  BY DEF Init, Table!Init, interestBar, Registered
<1>2. Inv /\ [Next]_vars => [Table!Next]_(Table!vars)
  <2> SUFFICES ASSUME Inv, [Next]_vars
               PROVE  Table!Next \/ UNCHANGED interestBar
    BY DEF Table!vars
  <2>1. ASSUME NEW fd \in Fd, NEW events \in Masks, addPollFd(fd, events)
        PROVE  Table!Next
    BY <2>1, AddRegisters DEF Table!Next, Table!Masks, Masks
  <2>2. ASSUME NEW fd \in Fd, NEW events \in Masks, modifyEvent(fd, events)
        PROVE  Table!Next \/ UNCHANGED interestBar
    BY <2>2, ModifyModifies DEF Table!Next, Table!Masks, Masks
  <2>3. ASSUME NEW fd \in Fd, delPollFd(fd)
        PROVE  Table!Next \/ UNCHANGED interestBar
    BY <2>3, RemoveUnregisters DEF Table!Next
  <2>4. CASE UNCHANGED vars
    BY <2>4 DEF vars, interestBar, Registered
  <2> QED BY <2>1, <2>2, <2>3, <2>4 DEF Next
<1> QED BY <1>1, <1>2, InitInv, StepInv, PTL DEF Spec, ImplementsPollSet, Table!Spec
=============================================================================
