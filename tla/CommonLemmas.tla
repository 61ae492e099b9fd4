----------------------------- MODULE CommonLemmas -----------------------------
(***************************************************************************)
(* What the proofs of several components need: induction over the natural  *)
(* numbers for a set of them, the least element of one, and what joining   *)
(* sequences, appending to them and inserting into them gives.             *)
(***************************************************************************)
EXTENDS Integers, Sequences, SequencesExt, TLAPS, WellFoundedInduction

(* A set of numbers that is not empty has an element below all others.     *)
LEMMA LeastNumber ==
  ASSUME NEW S \in SUBSET Nat, S # {} PROVE \E x \in S : \A y \in S : x <= y
<1>1. \E x \in S : \A y \in S : ~ (<<y, x>> \in OpToRel(<, Nat))
  BY NatLessThanWellFounded, WFMin, Zenon
<1>2. PICK x \in S : \A y \in S : ~ (<<y, x>> \in OpToRel(<, Nat)) BY <1>1
<1>3. \A y \in S : x =< y
  <2> SUFFICES ASSUME NEW y \in S PROVE x =< y OBVIOUS
  <2>1. <<y, x>> \notin OpToRel(<, Nat) BY <1>2
  <2>2. x \in Nat /\ y \in Nat OBVIOUS
  <2>3. ~(y < x) BY <2>1, <2>2 DEF OpToRel
  <2> QED BY <2>2, <2>3
<1> QED BY <1>3

(* Min is that element.                                                    *)
LEMMA Least ==
  ASSUME NEW S \in SUBSET Nat, S # {}
  PROVE  Min(S) \in S /\ \A y \in S : Min(S) <= y
BY LeastNumber DEF Min

(* A set that holds n and, with a number, the next one, holds all from n.  *)
LEMMA Induction ==
  ASSUME NEW S, NEW n \in Nat, n \in S,
         \A m \in Nat : m >= n /\ m \in S => m + 1 \in S
  PROVE  \A m \in Nat : m >= n => m \in S
<1> DEFINE T == {m \in Nat : m >= n /\ m \notin S}
<1> SUFFICES ASSUME T # {} PROVE FALSE OBVIOUS
<1>1. PICK x \in T : \A y \in T : x <= y
  <2>1. T \in SUBSET Nat OBVIOUS
  <2> HIDE DEF T
  <2> QED BY <2>1, LeastNumber
<1>2. x \in Nat /\ x > n OBVIOUS
<1>3. x - 1 \in Nat /\ x - 1 >= n /\ x - 1 \in S BY <1>1, <1>2
<1>4. (x - 1) + 1 = x BY <1>2
<1> QED BY <1>3, <1>4

-----------------------------------------------------------------------------
(* Sequences *)

(* What two joined sequences are.                                          *)
LEMMA Joined ==
  ASSUME NEW U, NEW s \in Seq(U), NEW t \in Seq(U)
  PROVE  /\ s \o t \in Seq(U) /\ Len(s \o t) = Len(s) + Len(t)
         /\ \A m \in 1 .. Len(s) : (s \o t)[m] = s[m]
         /\ \A m \in 1 .. Len(t) : (s \o t)[Len(s) + m] = t[m]
OBVIOUS

(* FlattenSeq joins the first sequences before it joins the next one.      *)
PartialJoins(g, seqs, n) ==
  g = [i \in 1 .. n |-> IF i = 1 THEN seqs[i] ELSE g[i - 1] \o seqs[i]]

(* A function of partial joins exists, of every length: the induction is   *)
(* made on the set of lengths it exists for.                               *)
LEMMA PartialJoinsExist ==
  ASSUME NEW seqs, NEW n \in Nat PROVE \E g : PartialJoins(g, seqs, n)
<1> DEFINE S == {m \in Nat : \E g : PartialJoins(g, seqs, m)}
<1>1. 0 \in S
  <2>1. PartialJoins([i \in 1 .. 0 |-> 0], seqs, 0) BY DEF PartialJoins
  <2> QED BY <2>1
<1>2. ASSUME NEW m \in Nat, m \in S PROVE m + 1 \in S
  <2>1. PICK g : PartialJoins(g, seqs, m) BY <1>2
  <2> DEFINE new == IF m = 0 THEN seqs[m + 1] ELSE g[m] \o seqs[m + 1]
             h == [i \in 1 .. m + 1 |-> IF i = m + 1 THEN new ELSE g[i]]
  <2>2. \A i \in 1 .. m : g[i] = IF i = 1 THEN seqs[i] ELSE g[i - 1] \o seqs[i]
    BY <2>1 DEF PartialJoins
  <2>3. new = IF m = 0 THEN seqs[m + 1] ELSE g[m] \o seqs[m + 1] OBVIOUS
  <2> HIDE DEF new
  <2>4. /\ h = [i \in 1 .. m + 1 |-> h[i]] /\ h[m + 1] = new
        /\ \A i \in 1 .. m : h[i] = g[i]
    OBVIOUS
  <2> HIDE DEF h
  <2>5. ASSUME NEW i \in 1 .. m + 1
        PROVE  h[i] = IF i = 1 THEN seqs[i] ELSE h[i - 1] \o seqs[i]
    <3>1. CASE i = m + 1
      <4>1. CASE m = 0 BY <2>3, <2>4, <3>1, <4>1
      <4>2. CASE m # 0
        <5>1. m \in 1 .. m /\ i - 1 = m /\ i # 1 BY <3>1, <4>2
        <5> QED BY <2>3, <2>4, <3>1, <4>2, <5>1
      <4> QED BY <4>1, <4>2
    <3>2. CASE i \in 1 .. m
      <4>1. i # 1 => i - 1 \in 1 .. m BY <3>2
      <4> QED BY <2>2, <2>4, <3>2, <4>1
    <3> QED BY <3>1, <3>2
  <2>6. PartialJoins(h, seqs, m + 1) BY <2>4, <2>5 DEF PartialJoins
  <2> QED BY <2>6
<1> HIDE DEF S
<1>3. \A m \in Nat : m >= 0 => m \in S BY <1>1, <1>2, Induction
<1>4. n \in S BY <1>3
<1> QED BY <1>4 DEF S

(* FlattenSeq is the last of the partial joins.                            *)
LEMMA FlattenedBySteps ==
  ASSUME NEW seqs, Len(seqs) \in Nat \ {0}
  PROVE  \E g : /\ FlattenSeq(seqs) = g[Len(seqs)] /\ g[1] = seqs[1]
                /\ \A i \in 1 .. Len(seqs) - 1 : g[i + 1] = g[i] \o seqs[i + 1]
<1> DEFINE n == Len(seqs)
           f == CHOOSE g : PartialJoins(g, seqs, n)
<1>1. FlattenSeq(seqs) = f[n] BY DEF FlattenSeq, PartialJoins
<1>2. PartialJoins(f, seqs, n) BY PartialJoinsExist
<1> HIDE DEF f
<1>3. \A i \in 1 .. n : f[i] = IF i = 1 THEN seqs[i] ELSE f[i - 1] \o seqs[i]
  BY <1>2 DEF PartialJoins
<1>4. f[1] = seqs[1] BY <1>3
<1>5. ASSUME NEW i \in 1 .. n - 1 PROVE f[i + 1] = f[i] \o seqs[i + 1]
  <2>1. i + 1 \in 1 .. n /\ i + 1 # 1 /\ (i + 1) - 1 = i OBVIOUS
  <2> QED BY <1>3, <2>1
<1> QED BY <1>1, <1>4, <1>5

(* A sequence, of whatever elements.                                       *)
Listed(s) == s \in Seq({s[i] : i \in 1 .. Len(s)}) /\ Len(s) \in Nat /\ DOMAIN s = 1 .. Len(s)

(* What is a sequence over some set is a sequence of its elements.         *)
LEMMA SeqListed ==
  ASSUME NEW S, NEW s \in Seq(S) PROVE Listed(s)
<1>1. Len(s) \in Nat /\ DOMAIN s = 1 .. Len(s) /\ s \in [1 .. Len(s) -> S] OBVIOUS
<1>2. s \in [1 .. Len(s) -> {s[i] : i \in 1 .. Len(s)}] BY <1>1
<1> QED BY <1>1, <1>2 DEF Listed

(* An appended element is the last one, the others stay.                   *)
LEMMA Appended ==
  ASSUME NEW s, Listed(s), NEW e
  PROVE  LET t == Append(s, e) IN
         /\ Listed(t) /\ Len(t) = Len(s) + 1 /\ t[Len(s) + 1] = e
         /\ \A i \in 1 .. Len(s) : t[i] = s[i]
<1> DEFINE S == {s[i] : i \in 1 .. Len(s)}
           U == S \cup {e}
<1>1. s \in Seq(U) /\ e \in U /\ Len(s) \in Nat
  <2>1. s \in Seq(S) /\ S \subseteq U BY DEF Listed
  <2> HIDE DEF S, U
  <2>2. s \in Seq(U) BY <2>1
  <2> QED BY <2>2 DEF U, Listed
<1> HIDE DEF U
<1>2. PICK t : t = Append(s, e) OBVIOUS
<1>3. /\ t \in Seq(U) /\ Len(t) = Len(s) + 1 /\ t[Len(s) + 1] = e
      /\ \A i \in 1 .. Len(s) : t[i] = s[i]
  BY <1>1, <1>2
<1>4. Listed(t) BY <1>3, SeqListed, Zenon
<1> QED BY <1>2, <1>3, <1>4

(* An inserted element has its place, those behind it move by one.         *)
LEMMA InsertedAt ==
  ASSUME NEW s, Listed(s), NEW m \in 1 .. Len(s), NEW e
  PROVE  LET t == InsertAt(s, m, e) IN
         /\ Listed(t) /\ Len(t) = Len(s) + 1 /\ t[m] = e
         /\ \A i \in 1 .. m - 1 : t[i] = s[i]
         /\ \A i \in m .. Len(s) : t[i + 1] = s[i]
<1> DEFINE S == {s[i] : i \in 1 .. Len(s)}
           U == S \cup {e}
<1>1. s \in Seq(U) /\ e \in U /\ Len(s) \in Nat
  <2>1. s \in Seq(S) /\ S \subseteq U BY DEF Listed
  <2> HIDE DEF S, U
  <2>2. s \in Seq(U) BY <2>1
  <2> QED BY <2>2 DEF U, Listed
<1> HIDE DEF U
<1>2. PICK a : a = SubSeq(s, 1, m - 1) OBVIOUS
<1>3. PICK b : b = SubSeq(s, m, Len(s)) OBVIOUS
<1>4. /\ a \in Seq(U) /\ Len(a) = m - 1 /\ \A i \in 1 .. m - 1 : a[i] = s[i]
      /\ b \in Seq(U) /\ Len(b) = Len(s) - (m - 1)
      /\ \A i \in 1 .. Len(b) : b[i] = s[m - 1 + i]
  BY <1>1, <1>2, <1>3
<1>5. PICK c : c = a \o <<e>> OBVIOUS
<1>6. /\ c \in Seq(U) /\ Len(c) = m /\ c[m] = e
      /\ \A i \in 1 .. m - 1 : c[i] = s[i]
  <2>1. PICK d : d = <<e>> OBVIOUS
  <2>2. d \in Seq(U) /\ Len(d) = 1 /\ d[1] = e BY <1>1, <2>1
  <2>3. /\ a \o d \in Seq(U) /\ Len(a \o d) = Len(a) + Len(d)
        /\ \A i \in 1 .. Len(a) : (a \o d)[i] = a[i]
        /\ \A i \in 1 .. Len(d) : (a \o d)[Len(a) + i] = d[i]
    <3>1. a \in Seq(U) /\ d \in Seq(U) BY <1>4, <2>2
    <3> QED BY <3>1, Joined
  <2>4. c = a \o d BY <1>5, <2>1, Zenon
  <2>5. /\ c \in Seq(U) /\ Len(c) = Len(a) + Len(d)
        /\ \A i \in 1 .. Len(a) : c[i] = a[i]
        /\ \A i \in 1 .. Len(d) : c[Len(a) + i] = d[i]
    BY <2>3, <2>4, Zenon
  <2>6. Len(a) + 1 = m /\ 1 \in 1 .. Len(d) BY <1>1, <1>4, <2>2
  <2> QED BY <1>4, <2>2, <2>5, <2>6
<1>7. PICK t : t = c \o b OBVIOUS
<1>8. /\ t \in Seq(U) /\ Len(t) = Len(c) + Len(b)
      /\ \A i \in 1 .. Len(c) : t[i] = c[i]
      /\ \A i \in 1 .. Len(b) : t[Len(c) + i] = b[i]
  <2>1. /\ c \o b \in Seq(U) /\ Len(c \o b) = Len(c) + Len(b)
        /\ \A i \in 1 .. Len(c) : (c \o b)[i] = c[i]
        /\ \A i \in 1 .. Len(b) : (c \o b)[Len(c) + i] = b[i]
    <3>1. c \in Seq(U) /\ b \in Seq(U) BY <1>4, <1>6
    <3> QED BY <3>1, Joined
  <2> QED BY <1>7, <2>1, Zenon
<1>9. Len(t) = Len(s) + 1 /\ t[m] = e /\ \A i \in 1 .. m - 1 : t[i] = s[i]
  BY <1>1, <1>4, <1>6, <1>8
<1>10. ASSUME NEW i \in m .. Len(s) PROVE t[i + 1] = s[i]
  <2>1. PICK j : j = i - (m - 1) OBVIOUS
  <2>2. j \in 1 .. Len(b) /\ Len(c) + j = i + 1 /\ m - 1 + j = i BY <1>1, <1>4, <1>6, <2>1
  <2>3. t[Len(c) + j] = b[j] /\ b[j] = s[m - 1 + j] BY <1>4, <1>8, <2>2
  <2> QED BY <2>2, <2>3
<1>11. Listed(t) BY <1>8, SeqListed, Zenon
<1>12. t = InsertAt(s, m, e) BY <1>2, <1>3, <1>5, <1>7, Zenon DEF InsertAt
<1> QED BY <1>9, <1>10, <1>11, <1>12
=============================================================================
