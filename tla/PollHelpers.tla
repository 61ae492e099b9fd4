----------------------------- MODULE PollHelpers -----------------------------
(***************************************************************************)
(* The server's poll set as the code stores it: the vector pollFdList_     *)
(* handed to poll(), and the map fdIndex_ from a descriptor to its place   *)
(* in the vector.  Positions are 1-based here and 0-based in the code.     *)
(*                                                                         *)
(* The callers register a descriptor the kernel has just returned and      *)
(* close it right after delPollFd, so addPollFd is never called on a       *)
(* registered descriptor; modifyEvent and delPollFd may be called on any.  *)
(* That callers keep this contract is the invariant TablesAgree of module  *)
(* ServerLoop.                                                             *)
(***************************************************************************)
EXTENDS Integers, Sequences

CONSTANTS Fd, Event

VARIABLES pollFdList,   \* sequence of [fd, events]
          fdIndex       \* descriptor -> position in pollFdList

vars == <<pollFdList, fdIndex>>

Masks == (SUBSET Event) \ {{}}

PollFd == [fd : Fd, events : Masks]

Registered == DOMAIN fdIndex

(* std::map operations: insert or overwrite a binding, erase a binding. *)
Put(map, key, val) ==
  [k \in DOMAIN map \cup {key} |-> IF k = key THEN val ELSE map[k]]

Erase(map, key) == [k \in DOMAIN map \ {key} |-> map[k]]

Init ==
  /\ pollFdList = << >>
  /\ fdIndex = << >>

(* Two faulty removals, to show that the properties below notice them: the  *)
(* index of the moved entry is not corrected, or the entry is not copied.  *)
RemoveWithoutReindex(fd) ==
  LET i    == fdIndex[fd]
      last == Len(pollFdList)
  IN  /\ pollFdList' =
           SubSeq([pollFdList EXCEPT ![i] = pollFdList[last]], 1, last - 1)
      /\ fdIndex' = Erase(fdIndex, fd)

RemoveWithoutCopy(fd) ==
  LET last == Len(pollFdList)
      tail == pollFdList[last]
  IN  /\ pollFdList' = SubSeq(pollFdList, 1, last - 1)
      /\ fdIndex' = Erase(Put(fdIndex, tail.fd, fdIndex[fd]), fd)

addPollFd(fd, events) ==
  /\ fd \notin Registered
  /\ pollFdList' = Append(pollFdList, [fd |-> fd, events |-> events])
  /\ fdIndex' = Put(fdIndex, fd, Len(pollFdList'))

(* indexOf returns SIZE_MAX for an unknown descriptor: nothing changes. *)
modifyEvent(fd, events) ==
  /\ pollFdList' =
       IF fd \in Registered
       THEN [pollFdList EXCEPT ![fdIndex[fd]].events = events]
       ELSE pollFdList
  /\ UNCHANGED fdIndex

(* The last entry moves into the hole, its index follows, the tail goes. *)
RemoveAtHole(fd) ==
  LET i    == fdIndex[fd]
      last == Len(pollFdList)
      tail == pollFdList[last]
  IN  /\ pollFdList' = SubSeq([pollFdList EXCEPT ![i] = tail], 1, last - 1)
      /\ fdIndex' = Erase(Put(fdIndex, tail.fd, i), fd)

delPollFd(fd) ==
  IF fd \in Registered THEN RemoveAtHole(fd) ELSE UNCHANGED vars

Next ==
  \E fd \in Fd :
    \/ \E events \in Masks : addPollFd(fd, events) \/ modifyEvent(fd, events)
    \/ delPollFd(fd)

Spec == Init /\ [][Next]_vars

-----------------------------------------------------------------------------

(* Every position the index holds is a place of the vector. *)
TypeOK ==
  /\ pollFdList \in Seq(PollFd)
  /\ fdIndex \in [Registered -> 1 .. Len(pollFdList)]
  /\ Registered \subseteq Fd

(* The vector and the index describe the same set: looking a descriptor up *)
(* leads to its own entry, and no entry is stale or doubled.  The swap in  *)
(* delPollFd (PollHelpers.cpp:38) is where they could part: the next       *)
(* modifyEvent would then change the events of another client.             *)
IndexCoherent ==
  /\ \A fd \in Registered : pollFdList[fdIndex[fd]].fd = fd
  /\ \A i \in 1 .. Len(pollFdList) :
        /\ pollFdList[i].fd \in Registered
        /\ fdIndex[pollFdList[i].fd] = i

(* What the event loop sees of the two structures. *)
interestBar ==
  [fd \in Fd |-> IF fd \in Registered
                 THEN pollFdList[fdIndex[fd]].events
                 ELSE {}]

Table == INSTANCE PollSet WITH interest <- interestBar

(* The vector with its index implements the table of module PollSet: a     *)
(* call changes the mask of the descriptor it names and of no other.       *)
ImplementsPollSet == Table!Spec
=============================================================================
