------------------------------- MODULE PollSet -------------------------------
(***************************************************************************)
(* What the poll set promises the event loop: a table that says, for every *)
(* descriptor, which events the loop waits for on it.  A descriptor whose  *)
(* mask is empty is not registered.  PollHelpers implements this table     *)
(* with a vector and an index map.                                         *)
(***************************************************************************)
CONSTANTS Fd,        \* the descriptors of the process
          Event      \* the poll events the server asks for

VARIABLE interest    \* interest[fd]: the events asked for on fd

vars == interest

Masks == (SUBSET Event) \ {{}}

Init == interest = [fd \in Fd |-> {}]

(* A descriptor the kernel has just returned enters the set. *)
Register(fd, mask) ==
  /\ interest[fd] = {}
  /\ interest' = [interest EXCEPT ![fd] = mask]

(* Only a registered descriptor can have its mask replaced. *)
Modify(fd, mask) ==
  /\ interest[fd] # {}
  /\ interest' = [interest EXCEPT ![fd] = mask]

Unregister(fd) ==
  /\ interest[fd] # {}
  /\ interest' = [interest EXCEPT ![fd] = {}]

Next ==
  \E fd \in Fd :
    \/ \E mask \in Masks : Register(fd, mask) \/ Modify(fd, mask)
    \/ Unregister(fd)

Spec == Init /\ [][Next]_vars
=============================================================================
