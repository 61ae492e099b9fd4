--------------------------- MODULE Timeouts_proofs ---------------------------
(***************************************************************************)
(* For any deadlines and any widths: poll() always gets a timeout, and a   *)
(* sweep closes silent clients only.  As long as time passes inside poll() *)
(* only, nothing outlives its deadline.                                    *)
(***************************************************************************)
EXTENDS Timeouts, TLAPS

(* Where deadlines come from, and that none is further than Modulus away.  *)
Deadlines ==
  /\ \A k \in clients : /\ ClientMs[k] > 0 => clientAt[k] = heard[k] + ClientMs[k]
                        /\ heard[k] \in 1 .. now
  /\ \A p \in scripts : scriptAt[p] \in 1 .. now + CgiMs[p]

Inv == TypeOK /\ Deadlines /\ AlwaysATimeout

(* A remainder of a small number is that number.                           *)
LEMMA ModSmall == ASSUME NEW x \in Nat, NEW n \in Nat, x < n PROVE x % n = x
OBVIOUS

(* A remainder lies below the modulus.                                     *)
LEMMA ModRange == ASSUME NEW x \in Int, NEW n \in Nat, n > 0 PROVE x % n \in 0 .. n - 1
OBVIOUS

(* The value poll() gets is a non-negative int, and that of the unsigned   *)
(* difference unless the cap applies.                                      *)
LEMMA DeltaFits ==
  ASSUME NEW d \in Int, now \in Int
  PROVE  LET delta == (d - now) % Modulus
         IN  /\ Delta(d) \in 0 .. IntMax
             /\ Delta(d) = IF delta > IntMax THEN IntMax ELSE delta
<1> DEFINE delta == (d - now) % Modulus
<1>1. delta \in 0 .. Modulus - 1
  BY ModRange, WidthAssumption
<1> HIDE DEF delta
<1>2. delta <= IntMax => AsInt(delta) = delta
  BY <1>1, ModSmall, WidthAssumption DEF AsInt
<1>3. Delta(d) = IF delta > IntMax THEN IntMax ELSE AsInt(delta)
  BY DEF Delta, delta
<1> QED BY <1>1, <1>2, <1>3, WidthAssumption DEF delta

(* The invariant holds at first.                                           *)
LEMMA InitInv == Init => Inv
<1> SUFFICES ASSUME Init PROVE Inv
  OBVIOUS
<1>1. busy \in BOOLEAN
  BY Zenon DEF Init
<1>2. now \in 1 .. LastTime /\ since \in 1 .. now /\ sleep \in (-1 - IntMax) .. IntMax
  BY WidthAssumption DEF Init
<1> QED BY <1>1, <1>2 DEF Init, Inv, TypeOK, Deadlines, AlwaysATimeout

(* Every step keeps the invariant.                                         *)
LEMMA StepInv == Inv /\ [Next]_vars => Inv'
<1> SUFFICES ASSUME Inv, [Next]_vars PROVE Inv'
  OBVIOUS
<1> USE DurationAssumption, WidthAssumption DEF Inv, TypeOK, Deadlines, AlwaysATimeout
<1>1. CASE calcNextTimeout
  <2>1. PICK d \in ClientDeadlines \cup ScriptDeadlines \cup {0} :
          sleep' = IF d = 0 THEN Fallback ELSE Delta(d)
    BY <1>1 DEF calcNextTimeout
  <2>2. d \in Int
    BY <2>1 DEF ClientDeadlines, ScriptDeadlines
  <2>3. sleep' \in 0 .. IntMax
    BY <2>1, <2>2, DeltaFits
  <2> QED BY <1>1, <2>3 DEF calcNextTimeout
<1>2. CASE PollTimesOut \/ PollReports \/ PassEnds
  BY <1>2 DEF PollTimesOut, PollReports, PassEnds
<1>3. CASE Tick
  BY <1>3 DEF Tick
<1>4. ASSUME NEW k \in Conn, setClientTimeout(k) PROVE Inv'
  BY <1>4 DEF setClientTimeout
<1>5. ASSUME NEW k \in Conn, resetClientTimeout(k) PROVE Inv'
  BY <1>5 DEF resetClientTimeout, NewDeadline
<1>6. ASSUME NEW k \in Conn, CloseClient(k) PROVE Inv'
  BY <1>6 DEF CloseClient, Erased
<1>7. ASSUME NEW p \in Script, addPollCGI(p) PROVE Inv'
  BY <1>7 DEF addPollCGI
<1>8. ASSUME NEW p \in Script, EndScript(p) PROVE Inv'
  BY <1>8 DEF EndScript, Erased
<1>9. CASE sweepExpiredClients
  BY <1>9 DEF sweepExpiredClients, Erased
<1>10. CASE UNCHANGED vars
  BY <1>10 DEF vars
<1> QED BY <1>1, <1>2, <1>3, <1>4, <1>5, <1>6, <1>7, <1>8, <1>9, <1>10 DEF Next

(* Types, and with them: the timeout of poll() fits an int. *)
THEOREM TimeoutsTyped == Spec => []TypeOK
<1>1. Inv => TypeOK
  BY DEF Inv
<1> QED BY InitInv, StepInv, <1>1, PTL DEF Spec

(* poll() is never asked to wait without end, for any widths of the clock  *)
(* and of int, however late calcNextTimeout is called.                     *)
THEOREM PollAlwaysReturns == Spec => []AlwaysATimeout
<1>1. Inv => AlwaysATimeout
  BY DEF Inv
<1> QED BY InitInv, StepInv, <1>1, PTL DEF Spec

(* A sweep never closes a client heard from within its timeout. *)
THEOREM OnlySilentClose == Spec => ClosedWhenSilent
<1>1. Inv /\ [Next]_vars =>
        [\A k \in Conn :
           (pc = "sweep" /\ k \in clients /\ k \notin clients') =>
              ClientMs[k] > 0 /\ now >= heard[k] + ClientMs[k]]_vars
  <2> SUFFICES ASSUME Inv, Next, NEW k \in Conn,
                      pc = "sweep", k \in clients, k \notin clients'
               PROVE  ClientMs[k] > 0 /\ now >= heard[k] + ClientMs[k]
    OBVIOUS
  <2>1. clients' = clients \ toClose
    BY DEF Next, calcNextTimeout, PollTimesOut, PollReports, Tick, setClientTimeout,
           resetClientTimeout, CloseClient, addPollCGI, EndScript, PassEnds,
           sweepExpiredClients
  <2> QED BY <2>1 DEF Inv, Deadlines, toClose, Expires
<1> QED BY InitInv, StepInv, <1>1, PTL DEF Spec, ClosedWhenSilent

-----------------------------------------------------------------------------
(* Punctuality, if time passes inside poll() only.                         *)

(* After a sweep every deadline lies ahead; the sleep ends before the      *)
(* first of them.                                                          *)
OnTime ==
  /\ \A k \in clients : Expires(k) => now <= clientAt[k]
  /\ pc = "calc" =>
       /\ \A k \in clients : Expires(k) => now < clientAt[k]
       /\ clients # {} => \A p \in scripts : now < scriptAt[p]
  /\ pc = "asleep" =>
       /\ now <= since + sleep
       /\ \A k \in clients : Expires(k) => since + sleep <= clientAt[k]
       /\ clients # {} => \A p \in scripts : since + sleep <= scriptAt[p] + Slack

(* The sleep ends at or before every deadline that lies ahead, unless no   *)
(* client has one: then it is the fallback.                                *)
LEMMA SleepEndsInTime ==
  ASSUME Inv, calcNextTimeout,
         \A k \in clients : Expires(k) => now < clientAt[k],
         clients # {} => \A p \in scripts : now < scriptAt[p]
  PROVE  /\ \A k \in clients : Expires(k) => now + sleep' <= clientAt[k]
         /\ clients # {} => \A p \in scripts : now + sleep' <= scriptAt[p] + Slack
<1> USE DurationAssumption, WidthAssumption DEF Inv, TypeOK, Deadlines
<1>1. PICK d \in ClientDeadlines \cup ScriptDeadlines \cup {0} :
        Earliest(d) /\ sleep' = IF d = 0 THEN Fallback ELSE Delta(d)
  BY DEF calcNextTimeout
<1>2. CASE ClientDeadlines = {}
  <2>1. sleep' = Fallback
    BY <1>1, <1>2 DEF Earliest
  <2>2. \A k \in clients : ~Expires(k)
    BY <1>2 DEF ClientDeadlines
  <2> QED BY <2>1, <2>2, <1>2 DEF Slack
<1>3. CASE ClientDeadlines # {}
  <2>1. /\ d \in ClientDeadlines \cup ScriptDeadlines
        /\ \A e \in ClientDeadlines \cup ScriptDeadlines : d <= e
    BY <1>1, <1>3 DEF Earliest
  <2>2. clients # {}
    BY <1>3 DEF ClientDeadlines
  <2>3. d \in Int /\ now < d /\ d - now < Modulus
    <3>1. CASE d \in ClientDeadlines
      <4>1. PICK k \in clients : Expires(k) /\ d = clientAt[k]
        BY <3>1 DEF ClientDeadlines
      <4>2. d = heard[k] + ClientMs[k] /\ heard[k] \in 1 .. now
        BY <4>1 DEF Expires
      <4>3. now < d
        BY <4>1
      <4>4. ClientMs[k] \in Nat /\ LastTime + ClientMs[k] < Modulus
        BY <4>1
      <4>5. now \in Int /\ now >= 1 /\ now <= LastTime /\ LastTime \in Nat /\ Modulus \in Nat
        OBVIOUS
      <4> HIDE DEF Inv, TypeOK, Deadlines
      <4> QED BY <4>2, <4>3, <4>4, <4>5
    <3>2. CASE d \in ScriptDeadlines
      <4>1. PICK p \in scripts : d = scriptAt[p]
        BY <3>2 DEF ScriptDeadlines
      <4> QED BY <2>2, <4>1
    <3> QED BY <2>1, <3>1, <3>2
  <2>4. sleep' = Delta(d) /\ now + Delta(d) <= d
    <3>1. (d - now) % Modulus = d - now
      BY <2>3, ModSmall
    <3> QED BY <1>1, <2>3, <3>1, DeltaFits
  <2>5. \A k \in clients : Expires(k) => d <= clientAt[k]
    BY <2>1 DEF ClientDeadlines
  <2>6. ASSUME NEW p \in scripts PROVE d <= scriptAt[p]
    <3>1. now < scriptAt[p] /\ scriptAt[p] \in 1 .. now + CgiMs[p]
      BY <2>2
    <3> QED BY <2>1, <3>1 DEF ScriptDeadlines
  <2>7. sleep' \in Int
    BY <2>3, <2>4, DeltaFits
  <2>8. Slack = 0
    BY <1>3 DEF Slack
  <2> QED BY <2>3, <2>4, <2>5, <2>6, <2>7, <2>8
<1> QED BY <1>2, <1>3

(* Every step keeps OnTime until time passes outside poll().               *)
LEMMA StepOnTime == Inv /\ Inv' /\ (~busy => OnTime) /\ [Next]_vars => (~busy' => OnTime')
<1> SUFFICES ASSUME Inv, Inv', ~busy => OnTime, [Next]_vars, ~busy' PROVE OnTime'
  OBVIOUS
<1>0. ~busy /\ (Tick => pc = "asleep")
  <2>1. Tick \/ busy' = busy
    BY DEF Next, vars, calcNextTimeout, PollTimesOut, PollReports, setClientTimeout,
           resetClientTimeout, CloseClient, addPollCGI, EndScript, PassEnds,
           sweepExpiredClients
  <2>2. Tick => busy' = (busy \/ pc # "asleep")
    BY DEF Tick
  <2>3. ASSUME Tick PROVE ~busy /\ pc = "asleep"
    BY <2>2, <2>3, Zenon
  <2>4. ASSUME busy' = busy PROVE ~busy
    BY <2>4, Zenon
  <2> QED BY <2>1, <2>3, <2>4, Zenon
<1>11. OnTime
  BY <1>0
<1>12. clients' = clients /\ clientAt' = clientAt => Slack' = Slack
  BY DEF Slack, ClientDeadlines, Expires
<1> USE <1>11, DurationAssumption, WidthAssumption
    DEF Inv, TypeOK, Deadlines, AlwaysATimeout, OnTime, Expires
<1>1. CASE calcNextTimeout
  <2>1. /\ \A k \in clients : Expires(k) => now + sleep' <= clientAt[k]
        /\ clients # {} => \A p \in scripts : now + sleep' <= scriptAt[p] + Slack
    BY <1>1, SleepEndsInTime DEF calcNextTimeout
  <2>2. Slack' = Slack
    BY <1>1, <1>12 DEF calcNextTimeout
  <2> QED BY <1>1, <2>1, <2>2 DEF calcNextTimeout
<1>2. CASE PollTimesOut \/ PollReports \/ PassEnds
  BY <1>2 DEF PollTimesOut, PollReports, PassEnds
<1>3. CASE Tick
  BY <1>0, <1>3, <1>12 DEF Tick, Overslept
<1>4. ASSUME NEW k \in Conn, setClientTimeout(k) PROVE OnTime'
  BY <1>4 DEF setClientTimeout
<1>5. ASSUME NEW k \in Conn, resetClientTimeout(k) PROVE OnTime'
  BY <1>5 DEF resetClientTimeout, NewDeadline
<1>6. ASSUME NEW k \in Conn, CloseClient(k) PROVE OnTime'
  BY <1>6 DEF CloseClient, Erased
<1>7. ASSUME NEW p \in Script, addPollCGI(p) PROVE OnTime'
  BY <1>7 DEF addPollCGI
<1>8. ASSUME NEW p \in Script, EndScript(p) PROVE OnTime'
  BY <1>8 DEF EndScript
<1>9. CASE sweepExpiredClients
  BY <1>9 DEF sweepExpiredClients, Erased, toClose, cgiToClose, Swept
<1>10. CASE UNCHANGED vars
  BY <1>10, <1>12 DEF vars
<1> QED BY <1>1, <1>2, <1>3, <1>4, <1>5, <1>6, <1>7, <1>8, <1>9, <1>10 DEF Next

(* As long as time passes inside poll() only, no client is kept beyond its *)
(* deadline, and no script beyond its own and the slack.                   *)
THEOREM NothingOverstays == Spec => []Punctual
<1>1. Init => (~busy => OnTime)
  BY DEF Init, OnTime
<1>2. Inv /\ (~busy => OnTime) => Punctual
  <2> SUFFICES ASSUME Inv, ~busy => OnTime, pc = "asleep", ~busy
               PROVE  /\ \A k \in clients : Expires(k) => now <= clientAt[k]
                      /\ clients # {} => \A p \in scripts : now <= scriptAt[p] + Slack
    BY DEF Punctual
  <2>1. OnTime
    OBVIOUS
  <2>2. Slack \in Nat
    BY DurationAssumption DEF Slack
  <2> QED BY <2>1, <2>2, DurationAssumption, WidthAssumption
             DEF Inv, TypeOK, Deadlines, AlwaysATimeout, OnTime
<1> QED BY InitInv, StepInv, StepOnTime, <1>1, <1>2, PTL DEF Spec
=============================================================================
