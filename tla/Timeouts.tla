------------------------------- MODULE Timeouts -------------------------------
(***************************************************************************)
(* The deadlines of clients and scripts, and how long poll() may sleep.    *)
(* Module ServerLoop takes for granted that the loop wakes up and sweeps   *)
(* when a deadline has passed; this module is about how it does.           *)
(*                                                                         *)
(* Times are milliseconds.  expiresAtMs is a uint64_t and the argument of  *)
(* poll() an int: Modulus stands for 2^64, IntMax for INT_MAX, both small. *)
(* The bound LastTime ends the clock, and with it the runs.                *)
(***************************************************************************)
EXTENDS Integers

CONSTANTS
  Conn, Script,
  ClientMs,      \* ClientMs[k]: client_timeout_sec of its listener, 0 for none
  CgiMs,         \* CgiMs[p]: cgi_timeout_sec of its location
  Fallback,      \* run() passes 1000
  IntMax, Modulus,
  LastTime

ASSUME DurationAssumption ==
  /\ ClientMs \in [Conn -> Nat] /\ CgiMs \in [Script -> Nat] /\ Fallback \in Nat
ASSUME WidthAssumption ==
  /\ IntMax \in Nat /\ Modulus \in Nat /\ IntMax < Modulus
  /\ LastTime \in Nat /\ LastTime >= 2
  /\ Fallback <= IntMax
  /\ \A k \in Conn : LastTime + ClientMs[k] < Modulus
  /\ \A p \in Script : LastTime + CgiMs[p] < Modulus

VARIABLES
  now,        \* nowMs()
  pc,         \* "calc", "asleep", "serve" or "sweep"
  sleep,      \* the timeout poll() was given, and when
  since,
  clients,    \* clientList_
  clientAt,   \* expiresAtMs of a client
  scripts,    \* CGIMap_
  scriptAt,   \* expiresAtMs of a context
  owner,      \* the client of a script
  heard,      \* when a client was accepted, heard or last sent to (history)
  busy        \* time has passed outside poll() (history)

vars == <<now, pc, sleep, since, clients, clientAt, scripts, scriptAt, owner, heard, busy>>

Init ==
  /\ now \in 1 .. 2
  /\ pc = "calc" /\ sleep = 0 /\ since = now
  /\ clients = {} /\ clientAt = [k \in Conn |-> 0] /\ heard = [k \in Conn |-> 0]
  /\ scripts = {} /\ scriptAt = [p \in Script |-> 0]
  /\ owner \in [Script -> Conn] /\ busy = FALSE

-----------------------------------------------------------------------------
(* How long to sleep.                                                      *)

Expires(k) == ClientMs[k] > 0 /\ clientAt[k] > 0

ClientDeadlines == {clientAt[k] : k \in {c \in clients : Expires(c)}}
ScriptDeadlines == {scriptAt[p] : p \in {s \in scripts : CgiMs[s] > 0 /\ scriptAt[s] > 0}}

(* A faulty choice that looks at the clients only. *)
EarliestClient(d) ==
  IF ClientDeadlines = {} THEN d = 0
  ELSE d \in ClientDeadlines /\ \A e \in ClientDeadlines : d <= e

(* earliest; it starts at 0, and then no context's deadline is less.       *)
Earliest(d) ==
  IF ClientDeadlines = {} THEN d = 0
  ELSE /\ d \in ClientDeadlines \cup ScriptDeadlines
       /\ \A e \in ClientDeadlines \cup ScriptDeadlines : d <= e

(* The conversion of an unsigned 64-bit value to int. *)
AsInt(x) ==
  LET low == x % (2 * (IntMax + 1)) IN
  IF low > IntMax THEN low - 2 * (IntMax + 1) ELSE low

(* Faulty variants: without the cap, and without the conversion either. *)
DeltaUncapped(d) == AsInt((d - now) % Modulus)
DeltaWide(d) == (d - now) % Modulus

(* delta, an unsigned difference: only a deadline of this very millisecond *)
(* makes it <= 0, and one that has passed wraps it around.                 *)
Delta(d) ==
  LET delta == (d - now) % Modulus IN
  IF delta > IntMax THEN IntMax ELSE AsInt(delta)

calcNextTimeout ==
  /\ pc = "calc"
  /\ \E d \in ClientDeadlines \cup ScriptDeadlines \cup {0} :
       /\ Earliest(d)
       /\ sleep' = IF d = 0 THEN Fallback ELSE Delta(d)
  /\ since' = now
  /\ pc' = "asleep"
  /\ UNCHANGED <<now, clients, clientAt, scripts, scriptAt, owner, heard, busy>>

(* A negative timeout would make poll() wait without end. *)
Overslept == sleep >= 0 /\ now >= since + sleep

PollTimesOut ==
  /\ pc = "asleep" /\ Overslept
  /\ pc' = "sweep"
  /\ UNCHANGED <<now, sleep, since, clients, clientAt, scripts, scriptAt, owner, heard, busy>>

PollReports ==
  /\ pc = "asleep"
  /\ pc' = "serve"
  /\ UNCHANGED <<now, sleep, since, clients, clientAt, scripts, scriptAt, owner, heard, busy>>

Tick ==
  /\ now < LastTime
  /\ pc = "asleep" => ~Overslept
  /\ now' = now + 1
  /\ busy' = (busy \/ pc # "asleep")
  /\ UNCHANGED <<pc, sleep, since, clients, clientAt, scripts, scriptAt, owner, heard>>

-----------------------------------------------------------------------------
(* What a pass does to deadlines.                                          *)

(* setClientTimeout; accept() has a new client. *)
setClientTimeout(k) ==
  /\ pc = "serve" /\ k \notin clients
  /\ clients' = clients \cup {k}
  /\ clientAt' = [clientAt EXCEPT ![k] = IF ClientMs[k] > 0 THEN now + ClientMs[k] ELSE 0]
  /\ heard' = [heard EXCEPT ![k] = now]
  /\ UNCHANGED <<now, pc, sleep, since, scripts, scriptAt, owner, busy>>

(* A faulty variant that forgets to push the deadline on. *)
DeadlineKept(k) == clientAt[k]

NewDeadline(k) == IF ClientMs[k] > 0 THEN now + ClientMs[k] ELSE clientAt[k]

(* recv() or send() moved bytes. *)
resetClientTimeout(k) ==
  /\ pc = "serve" /\ k \in clients
  /\ clientAt' = [clientAt EXCEPT ![k] = NewDeadline(k)]
  /\ heard' = [heard EXCEPT ![k] = now]
  /\ UNCHANGED <<now, pc, sleep, since, clients, scripts, scriptAt, owner, busy>>

(* Client objects and contexts are erased with what they hold.             *)
Erased(f, S) == [x \in DOMAIN f |-> IF x \in S THEN 0 ELSE f[x]]

CloseClient(k) ==
  /\ pc = "serve" /\ k \in clients
  /\ clients' = clients \ {k}
  /\ clientAt' = Erased(clientAt, {k}) /\ heard' = Erased(heard, {k})
  /\ UNCHANGED <<now, pc, sleep, since, scripts, scriptAt, owner, busy>>

addPollCGI(p) ==
  /\ pc = "serve" /\ p \notin scripts /\ owner[p] \in clients
  /\ scripts' = scripts \cup {p}
  /\ scriptAt' = [scriptAt EXCEPT ![p] = now + CgiMs[p]]
  /\ UNCHANGED <<now, pc, sleep, since, clients, clientAt, owner, heard, busy>>

EndScript(p) ==
  /\ pc = "serve" /\ p \in scripts
  /\ scripts' = scripts \ {p}
  /\ scriptAt' = Erased(scriptAt, {p})
  /\ UNCHANGED <<now, pc, sleep, since, clients, clientAt, owner, heard, busy>>

PassEnds ==
  /\ pc = "serve"
  /\ pc' = "sweep"
  /\ UNCHANGED <<now, sleep, since, clients, clientAt, scripts, scriptAt, owner, heard, busy>>

toClose == {k \in clients : Expires(k) /\ now >= clientAt[k]}

(* A context expires whatever its timeoutMs: with 0 it never outlives the  *)
(* pass it was made in.                                                    *)
cgiToClose == {p \in scripts : now >= scriptAt[p] \/ owner[p] \in toClose}

(* Without clients nothing is swept.                                       *)
Swept == IF clients = {} THEN {} ELSE cgiToClose

sweepExpiredClients ==
  /\ pc = "sweep"
  /\ clients' = clients \ toClose
  /\ clientAt' = Erased(clientAt, toClose) /\ heard' = Erased(heard, toClose)
  /\ scripts' = scripts \ Swept
  /\ scriptAt' = Erased(scriptAt, Swept)
  /\ pc' = "calc"
  /\ UNCHANGED <<now, sleep, since, owner, busy>>

Next ==
  \/ calcNextTimeout \/ PollTimesOut \/ PollReports \/ Tick
  \/ \E k \in Conn : setClientTimeout(k) \/ resetClientTimeout(k) \/ CloseClient(k)
  \/ \E p \in Script : addPollCGI(p) \/ EndScript(p)
  \/ PassEnds \/ sweepExpiredClients

Spec == Init /\ [][Next]_vars

-----------------------------------------------------------------------------

TypeOK ==
  /\ now \in 1 .. LastTime /\ since \in 1 .. now
  /\ pc \in {"calc", "asleep", "serve", "sweep"}
  /\ sleep \in (-1 - IntMax) .. IntMax
  /\ clients \subseteq Conn /\ scripts \subseteq Script
  /\ clientAt \in [Conn -> Nat] /\ heard \in [Conn -> Nat]
  /\ scriptAt \in [Script -> Nat] /\ owner \in [Script -> Conn]
  /\ busy \in BOOLEAN

(* How late a script may be killed: not at all while a client has a        *)
(* deadline, for then calcNextTimeout looks at the scripts' as well.       *)
Slack == IF ClientDeadlines = {} THEN Fallback ELSE 0

(* As long as time passes inside poll() only, no client outlives its       *)
(* deadline, and while there are clients no script does by more than the   *)
(* slack: the sleep calcNextTimeout (Timeout.cpp:53) chooses ends in time  *)
(* for the sweep.                                                          *)
Punctual ==
  (pc = "asleep" /\ ~busy) =>
    /\ \A k \in clients : Expires(k) => now <= clientAt[k]
    /\ clients # {} => \A p \in scripts : now <= scriptAt[p] + Slack

(* poll() never gets a negative timeout, with which it would sleep until   *)
(* some descriptor is ready (Timeout.cpp:91).                              *)
AlwaysATimeout == sleep >= 0

(* A sweep closes a client only when nothing was read from it or sent to   *)
(* it for as long as its listener's timeout.                               *)
ClosedWhenSilent ==
  [][\A k \in Conn :
       (pc = "sweep" /\ k \in clients /\ k \notin clients') =>
         ClientMs[k] > 0 /\ now >= heard[k] + ClientMs[k]]_vars
=============================================================================
