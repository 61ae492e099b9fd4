---------------------------- MODULE Requests_proofs ----------------------------
EXTENDS Requests, CommonLemmas, SequenceTheorems

(***************************************************************************)
(* The decoder of requests does not depend on the pieces the stream comes  *)
(* in.                                                                     *)
(***************************************************************************)

-----------------------------------------------------------------------------
(* Pieces of a buffer and searching in it                                  *)

(* A piece of a buffer.                                                    *)
LEMMA Piece ==
  ASSUME NEW s \in Seq(Unit), NEW m \in Nat \ {0}, NEW n \in Int, n <= Len(s)
  PROVE  /\ SubSeq(s, m, n) \in Seq(Unit)
         /\ Len(SubSeq(s, m, n)) = IF m <= n THEN n - m + 1 ELSE 0
         /\ \A i \in 1 .. n - m + 1 : SubSeq(s, m, n)[i] = s[m + i - 1]
<1>1. \A i \in m .. n : i \in 1 .. Len(s) OBVIOUS
<1>2. \A i \in m .. n : s[i] \in Unit BY <1>1, ElementOfSeq
<1> QED BY <1>2, SubSeqProperties

(* What has been read stays where it is when more arrives.                 *)
LEMMA PieceStays ==
  ASSUME NEW s \in Seq(Unit), NEW t \in Seq(Unit), NEW m \in Nat \ {0}, NEW n \in Int, n <= Len(s)
  PROVE  SubSeq(s \o t, m, n) = SubSeq(s, m, n)
<1>1. CASE n < m
  <2>1. SubSeq(s \o t, m, n) = << >> BY <1>1, SubSeqEmpty
  <2>2. SubSeq(s, m, n) = << >> BY <1>1, SubSeqEmpty
  <2> QED BY <2>1, <2>2
<1>2. CASE m <= n
  <2>1. m \in 1 .. Len(s) /\ n \in 1 .. Len(s) BY <1>2
  <2> QED BY <2>1, SubSeqOfConcat1
<1> QED BY <1>1, <1>2

(* Where a pattern is found. *)
Matches(s, pattern, p) == SubSeq(s, p + 1, p + Len(pattern)) = pattern
FoundAt(s, pattern, from, p) ==
  /\ p \in Nat /\ p >= from /\ p + Len(pattern) <= Len(s)
  /\ Matches(s, pattern, p)
  /\ \A q \in Nat : q >= from /\ q < p => ~Matches(s, pattern, q)
NowhereIn(s, pattern, from) ==
  \A q \in Nat : q >= from /\ q + Len(pattern) <= Len(s) => ~Matches(s, pattern, q)

(* Find finds the first place, if there is one.                            *)
LEMMA FindFinds ==
  ASSUME NEW s \in Seq(Unit), NEW pattern \in Seq(Unit), NEW from \in Nat
  PROVE  \/ FoundAt(s, pattern, from, Find(s, pattern, from))
         \/ Find(s, pattern, from) = NPos /\ NowhereIn(s, pattern, from)
<1> DEFINE at == {p \in from .. Len(s) - Len(pattern) : SubSeq(s, p + 1, p + Len(pattern)) = pattern}
<1>1. Find(s, pattern, from) = IF at = {} THEN NPos ELSE Min(at) BY DEF Find
<1>2. at \in SUBSET Nat OBVIOUS
<1>3. \A q \in Nat : q >= from /\ q + Len(pattern) <= Len(s) /\ Matches(s, pattern, q) => q \in at
  BY DEF Matches
<1>4. \A q \in at : q \in Nat /\ q >= from /\ q + Len(pattern) <= Len(s) /\ Matches(s, pattern, q)
  BY DEF Matches
<1> HIDE DEF at
<1>5. CASE at = {} BY <1>1, <1>3, <1>5 DEF NowhereIn
<1>6. CASE at # {}
  <2>1. PICK p : p = Min(at) OBVIOUS
  <2>2. p \in at /\ \A q \in at : p <= q BY <1>2, <1>6, <2>1, Least
  <2>3. ASSUME NEW q \in Nat, q >= from, q < p PROVE ~Matches(s, pattern, q)
    <3>1. p \in Nat /\ p + Len(pattern) <= Len(s) BY <1>4, <2>2
    <3>2. q + Len(pattern) <= Len(s) BY <2>3, <3>1
    <3>3. q \notin at BY <2>2, <2>3, <3>1
    <3> QED BY <1>3, <2>3, <3>2, <3>3
  <2>4. p \in Nat /\ p >= from /\ p + Len(pattern) <= Len(s) /\ Matches(s, pattern, p) BY <1>4, <2>2
  <2>5. FoundAt(s, pattern, from, p) BY <2>3, <2>4 DEF FoundAt
  <2> QED BY <1>1, <1>6, <2>1, <2>5
<1> QED BY <1>5, <1>6

(* and finds nothing else.                                                 *)
LEMMA FoundOnce ==
  ASSUME NEW s \in Seq(Unit), NEW pattern \in Seq(Unit), NEW from \in Nat, NEW p,
         FoundAt(s, pattern, from, p)
  PROVE  Find(s, pattern, from) = p
<1>1. PICK f : f = Find(s, pattern, from) OBVIOUS
<1>2. FoundAt(s, pattern, from, f) \/ NowhereIn(s, pattern, from) BY <1>1, FindFinds
<1>3. p \in Nat /\ p >= from /\ p + Len(pattern) <= Len(s) /\ Matches(s, pattern, p)
      /\ \A q \in Nat : q >= from /\ q < p => ~Matches(s, pattern, q) BY DEF FoundAt
<1>4. ~NowhereIn(s, pattern, from) BY <1>3 DEF NowhereIn
<1>5. FoundAt(s, pattern, from, f) BY <1>2, <1>4
<1>6. f \in Nat /\ f >= from /\ Matches(s, pattern, f)
      /\ \A q \in Nat : q >= from /\ q < f => ~Matches(s, pattern, q) BY <1>5 DEF FoundAt
<1>7. ~(f < p) /\ ~(p < f) BY <1>3, <1>6
<1> QED BY <1>1, <1>3, <1>6, <1>7

(* A place where a pattern is stays one when more arrives.                 *)
LEMMA MatchStays ==
  ASSUME NEW s \in Seq(Unit), NEW t \in Seq(Unit), NEW pattern \in Seq(Unit), NEW p \in Nat,
         p + Len(pattern) <= Len(s)
  PROVE  Matches(s \o t, pattern, p) <=> Matches(s, pattern, p)
<1>1. SubSeq(s \o t, p + 1, p + Len(pattern)) = SubSeq(s, p + 1, p + Len(pattern))
  <2>1. p + 1 \in Nat \ {0} /\ p + Len(pattern) \in Int OBVIOUS
  <2> QED BY <2>1, PieceStays
<1> QED BY <1>1 DEF Matches

(* What has been found is found again when more arrives; what has not been *)
(* is found no earlier than its last unit comes.                           *)
LEMMA FindStays ==
  ASSUME NEW s \in Seq(Unit), NEW t \in Seq(Unit), NEW pattern \in Seq(Unit), NEW from \in Nat
  PROVE  LET f == Find(s, pattern, from)
             g == Find(s \o t, pattern, from)
         IN \/ f # NPos /\ f \in Nat /\ f >= from /\ f + Len(pattern) <= Len(s) /\ g = f
            \/ f = NPos /\ g = NPos
            \/ f = NPos /\ g \in Nat /\ g >= from /\ g + Len(pattern) > Len(s)
                        /\ g + Len(pattern) <= Len(s) + Len(t)
<1>1. PICK f : f = Find(s, pattern, from) OBVIOUS
<1>2. PICK u : u = s \o t OBVIOUS
<1>3. u \in Seq(Unit) /\ Len(u) = Len(s) + Len(t) BY <1>2, Joined
<1>4. PICK g : g = Find(u, pattern, from) OBVIOUS
<1>5. CASE FoundAt(s, pattern, from, f)
  <2>1. f \in Nat /\ f >= from /\ f + Len(pattern) <= Len(s) /\ Matches(s, pattern, f)
        /\ \A q \in Nat : q >= from /\ q < f => ~Matches(s, pattern, q) BY <1>5 DEF FoundAt
  <2>2. Matches(u, pattern, f) BY <1>2, <2>1, MatchStays
  <2>3. ASSUME NEW q \in Nat, q >= from, q < f PROVE ~Matches(u, pattern, q)
    <3>1. q + Len(pattern) <= Len(s) BY <2>1, <2>3
    <3>2. ~Matches(s, pattern, q) BY <2>1, <2>3
    <3> QED BY <1>2, <3>1, <3>2, MatchStays
  <2>4. f + Len(pattern) <= Len(u) BY <1>3, <2>1
  <2>5. FoundAt(u, pattern, from, f) BY <2>1, <2>2, <2>3, <2>4 DEF FoundAt
  <2>6. g = f BY <1>3, <1>4, <2>5, FoundOnce
  <2>7. f # NPos BY <2>1 DEF NPos
  <2> QED BY <1>1, <1>2, <1>4, <2>1, <2>6, <2>7
<1>6. CASE f = NPos /\ NowhereIn(s, pattern, from)
  <2>1. CASE g = NPos BY <1>1, <1>2, <1>4, <1>6, <2>1
  <2>2. CASE FoundAt(u, pattern, from, g)
    <3>1. g \in Nat /\ g >= from /\ g + Len(pattern) <= Len(u) /\ Matches(u, pattern, g)
      BY <2>2 DEF FoundAt
    <3>2. ~(g + Len(pattern) <= Len(s))
      <4> SUFFICES ASSUME g + Len(pattern) <= Len(s) PROVE FALSE OBVIOUS
      <4>1. Matches(s, pattern, g) BY <1>2, <3>1, MatchStays
      <4> QED BY <1>6, <3>1, <4>1 DEF NowhereIn
    <3>3. g + Len(pattern) > Len(s) /\ g + Len(pattern) <= Len(s) + Len(t) BY <1>3, <3>1, <3>2
    <3> QED BY <1>1, <1>2, <1>4, <1>6, <3>1, <3>3
  <2> QED BY <1>3, <1>4, <2>1, <2>2, FindFinds
<1> QED BY <1>1, <1>5, <1>6, FindFinds

-----------------------------------------------------------------------------
(* The size of a chunk                                                     *)

(* A size, or a refusal. *)
Sizes == 0 .. SizeMax \cup {Refused}

(* One more digit. *)
OneMore(v, d) == IF v = Refused \/ v > (SizeMax - d) \div Radix THEN Refused ELSE v * Radix + d

(* It is refused, or the size fits.                                        *)
LEMMA SizeFits ==
  ASSUME NEW v \in Sizes, NEW u \in DOMAIN DigitValue
  PROVE  OneMore(v, DigitValue[u]) \in Sizes
<1> DEFINE d == DigitValue[u]
<1>1. d \in Nat /\ d < Radix /\ Radix \in Nat /\ SizeMax \in Nat /\ SizeMax >= Radix
  BY RadixAssumption, SizeAssumption
<1> HIDE DEF d
<1>2. PICK q : q = (SizeMax - d) \div Radix OBVIOUS
<1>3. q \in Nat /\ q * Radix <= SizeMax - d BY <1>1, <1>2
<1>4. OneMore(v, d) = IF v = Refused \/ v > q THEN Refused ELSE v * Radix + d
  BY <1>2, Zenon DEF OneMore
<1>5. CASE v = Refused \/ v > q BY <1>4, <1>5 DEF Sizes, d
<1>6. CASE v # Refused /\ ~(v > q)
  <2>1. v \in Nat BY <1>6 DEF Sizes
  <2>2. v <= q BY <1>3, <1>6, <2>1
  <2>3. v * Radix <= q * Radix BY <1>1, <1>3, <2>1, <2>2
  <2>4. v * Radix \in Nat /\ q * Radix \in Nat BY <1>1, <1>3, <2>1
  <2>5. v * Radix + d \in 0 .. SizeMax BY <1>1, <1>3, <2>3, <2>4
  <2>6. OneMore(v, d) = v * Radix + d BY <1>4, <1>6
  <2> QED BY <2>5, <2>6 DEF Sizes, d
<1> QED BY <1>5, <1>6

(* The sizes of the first digits of a line.                                *)
PartialSizes(g, digits, n) ==
  g = [i \in 0 .. n |-> IF i = 0 THEN 0 ELSE OneMore(g[i - 1], DigitValue[digits[i]])]

(* They exist, and each fits or is refused.                                *)
LEMMA PartialSizesExist ==
  ASSUME NEW digits, NEW n \in Nat, \A i \in 1 .. n : digits[i] \in DOMAIN DigitValue
  PROVE  \E g : PartialSizes(g, digits, n)
<1> DEFINE S == {m \in Nat : \E g : PartialSizes(g, digits, m)}
<1>1. 0 \in S
  <2>1. PartialSizes([i \in 0 .. 0 |-> 0], digits, 0) BY DEF PartialSizes
  <2> QED BY <2>1
<1>2. ASSUME NEW m \in Nat, m \in S PROVE m + 1 \in S
  <2>1. PICK g : PartialSizes(g, digits, m) BY <1>2
  <2>2. \A i \in 0 .. m : g[i] = IF i = 0 THEN 0 ELSE OneMore(g[i - 1], DigitValue[digits[i]])
    BY <2>1 DEF PartialSizes
  <2>3. PICK new : new = OneMore(g[m], DigitValue[digits[m + 1]]) OBVIOUS
  <2>4. PICK h : h = [i \in 0 .. m + 1 |-> IF i = m + 1 THEN new ELSE g[i]] OBVIOUS
  <2>5. /\ h = [i \in 0 .. m + 1 |-> h[i]] /\ h[m + 1] = new
        /\ \A i \in 0 .. m : h[i] = g[i]
    BY <2>4
  <2>6. ASSUME NEW i \in 0 .. m + 1
        PROVE  h[i] = IF i = 0 THEN 0 ELSE OneMore(h[i - 1], DigitValue[digits[i]])
    <3>1. CASE i = m + 1
      <4>1. i # 0 /\ i - 1 = m /\ m \in 0 .. m BY <3>1
      <4> QED BY <2>3, <2>5, <3>1, <4>1
    <3>2. CASE i \in 0 .. m
      <4>1. i # 0 => i - 1 \in 0 .. m BY <3>2
      <4> QED BY <2>2, <2>5, <3>2, <4>1
    <3> QED BY <3>1, <3>2
  <2>7. PartialSizes(h, digits, m + 1) BY <2>5, <2>6 DEF PartialSizes
  <2> QED BY <2>7
<1> HIDE DEF S
<1>3. \A m \in Nat : m >= 0 => m \in S BY <1>1, <1>2, Induction
<1>4. n \in S BY <1>3
<1> QED BY <1>4 DEF S

LEMMA PartialSizesFit ==
  ASSUME NEW digits, NEW n \in Nat, \A i \in 1 .. n : digits[i] \in DOMAIN DigitValue,
         NEW g, PartialSizes(g, digits, n)
  PROVE  g[n] \in Sizes
<1> DEFINE S == {m \in Nat : m <= n => g[m] \in Sizes}
<1>1. \A i \in 0 .. n : g[i] = IF i = 0 THEN 0 ELSE OneMore(g[i - 1], DigitValue[digits[i]])
  BY DEF PartialSizes
<1>2. 0 \in S BY <1>1, SizeAssumption DEF Sizes
<1>3. ASSUME NEW m \in Nat, m \in S PROVE m + 1 \in S
  <2> SUFFICES ASSUME m + 1 <= n PROVE g[m + 1] \in Sizes OBVIOUS
  <2>1. g[m] \in Sizes /\ m + 1 \in 1 .. n /\ m + 1 \in 0 .. n /\ m + 1 # 0 /\ (m + 1) - 1 = m BY <1>3
  <2>2. g[m + 1] = OneMore(g[m], DigitValue[digits[m + 1]]) BY <1>1, <2>1
  <2>3. digits[m + 1] \in DOMAIN DigitValue BY <2>1
  <2> QED BY <2>1, <2>2, <2>3, SizeFits
<1> HIDE DEF S
<1>4. \A m \in Nat : m >= 0 => m \in S BY <1>2, <1>3, Induction
<1>5. n \in S BY <1>4
<1> QED BY <1>5 DEF S

(* The digits of a line are digits.                                        *)
LEMMA DigitsAreDigits ==
  ASSUME NEW line \in Seq(Unit)
  PROVE  /\ Digits(line) \in Seq(Unit)
         /\ \A i \in 1 .. Len(Digits(line)) : Digits(line)[i] \in DOMAIN DigitValue
<1> DEFINE other == {i \in DOMAIN line : line[i] \notin DOMAIN DigitValue}
<1>1. Digits(line) = IF other = {} THEN line ELSE SubSeq(line, 1, Min(other) - 1) BY DEF Digits
<1>2. Len(line) \in Nat /\ DOMAIN line = 1 .. Len(line) BY LenProperties
<1>3. other \in SUBSET Nat BY <1>2
<1>4. \A i \in other : i \in 1 .. Len(line) BY <1>2
<1>5. \A i \in 1 .. Len(line) : i \notin other => line[i] \in DOMAIN DigitValue BY <1>2
<1> HIDE DEF other
<1>6. CASE other = {} BY <1>1, <1>5, <1>6
<1>7. CASE other # {}
  <2>1. PICK m : m = Min(other) OBVIOUS
  <2>2. m \in other /\ \A y \in other : m <= y BY <1>3, <1>7, <2>1, Least
  <2>3. m \in 1 .. Len(line) BY <1>4, <2>2
  <2>4. PICK s : s = SubSeq(line, 1, m - 1) OBVIOUS
  <2>5. /\ s \in Seq(Unit) /\ Len(s) = (IF 1 <= m - 1 THEN (m - 1) - 1 + 1 ELSE 0)
        /\ \A i \in 1 .. (m - 1) - 1 + 1 : s[i] = line[1 + i - 1]
    <3>1. 1 \in Nat \ {0} /\ m - 1 \in Int /\ m - 1 <= Len(line) BY <1>2, <2>3
    <3> QED BY <2>4, <3>1, Piece
  <2>6. ASSUME NEW i \in 1 .. Len(s) PROVE s[i] \in DOMAIN DigitValue
    <3>1. i \in 1 .. (m - 1) - 1 + 1 /\ 1 + i - 1 = i /\ i \in 1 .. Len(line) /\ i < m
      BY <1>2, <2>3, <2>5
    <3>2. i \notin other BY <1>3, <2>2, <2>3, <3>1
    <3> QED BY <1>5, <2>5, <3>1, <3>2
  <2> QED BY <1>1, <1>7, <2>1, <2>4, <2>5, <2>6
<1> QED BY <1>6, <1>7

(* The size a line says fits into a size_t, or is refused.                 *)
LEMMA ChunkSizeFits ==
  ASSUME NEW line \in Seq(Unit) PROVE parseChunkSizeHex(line) \in Sizes
<1> DEFINE digits == Digits(line)
           n == Len(digits)
           f == CHOOSE g : PartialSizes(g, digits, n)
<1>1. parseChunkSizeHex(line) = IF digits = << >> THEN Refused ELSE f[n]
  BY DEF parseChunkSizeHex, PartialSizes, OneMore
<1>2. n \in Nat /\ \A i \in 1 .. n : digits[i] \in DOMAIN DigitValue BY DigitsAreDigits
<1> HIDE DEF digits, n
<1>3. PartialSizes(f, digits, n) BY <1>2, PartialSizesExist
<1> HIDE DEF f
<1>4. f[n] \in Sizes BY <1>2, <1>3, PartialSizesFit
<1> QED BY <1>1, <1>4 DEF Sizes

-----------------------------------------------------------------------------
(* The stages of the chunk decoder                                         *)

(* A client whose parse position is in its buffer. *)
Within(d) == d \in Client /\ d.parsePos <= Len(d.inBuff)

(* The client when more has arrived. *)
More(d, t) == [d EXCEPT !.inBuff = @ \o t]

LEMMA Fields ==
  ASSUME NEW d \in Client
  PROVE  /\ d.inBuff \in Seq(Unit) /\ d.bodyBuf \in Seq(Unit)
         /\ d.parsePos \in Nat /\ d.chunkRemain \in 0 .. SizeMax /\ d.chunkRemain \in Nat
         /\ d.chunkStage \in 0 .. 4 /\ d.consumedBytes \in Nat /\ d.contentLength \in Nat
         /\ d.headersDone \in BOOLEAN /\ d.isChunked \in BOOLEAN
         /\ d.responseQueued \in BOOLEAN /\ d.closeFlag \in BOOLEAN
         /\ Len(d.inBuff) \in Nat
<1>1. SizeMax \in Nat BY SizeAssumption
<1>2. d.inBuff \in Seq(Unit) BY DEF Client
<1>3. Len(d.inBuff) \in Nat BY <1>2, LenProperties
<1> QED BY <1>1, <1>2, <1>3 DEF Client

(* Arrival changes the buffer only.                                        *)
LEMMA Arrival ==
  ASSUME NEW d \in Client, NEW t \in Seq(Unit)
  PROVE  /\ More(d, t) \in Client
         /\ More(d, t).inBuff = d.inBuff \o t
         /\ More(d, t).inBuff \in Seq(Unit)
         /\ Len(More(d, t).inBuff) = Len(d.inBuff) + Len(t)
         /\ More(d, t).parsePos = d.parsePos /\ More(d, t).chunkStage = d.chunkStage
         /\ More(d, t).chunkRemain = d.chunkRemain /\ More(d, t).bodyBuf = d.bodyBuf
         /\ More(d, t).headersDone = d.headersDone /\ More(d, t).isChunked = d.isChunked
         /\ More(d, t).contentLength = d.contentLength
         /\ More(d, t).consumedBytes = d.consumedBytes
         /\ More(d, t).responseQueued = d.responseQueued /\ More(d, t).closeFlag = d.closeFlag
         /\ Within(d) => Within(More(d, t))
<1>1. PICK b : b = d.inBuff \o t OBVIOUS
<1>2. b \in Seq(Unit) /\ Len(b) = Len(d.inBuff) + Len(t) BY <1>1, Fields, Joined
<1>3. PICK e : e = More(d, t) OBVIOUS
<1>4. e = [d EXCEPT !.inBuff = b] BY <1>1, <1>3, Zenon DEF More
<1>5. /\ e \in Client /\ e.inBuff = b
      /\ e.parsePos = d.parsePos /\ e.chunkStage = d.chunkStage
      /\ e.chunkRemain = d.chunkRemain /\ e.bodyBuf = d.bodyBuf
      /\ e.headersDone = d.headersDone /\ e.isChunked = d.isChunked
      /\ e.contentLength = d.contentLength
      /\ e.consumedBytes = d.consumedBytes
      /\ e.responseQueued = d.responseQueued /\ e.closeFlag = d.closeFlag
  BY <1>2, <1>4 DEF Client
<1>6. ASSUME Within(d) PROVE Within(e)
  <2>1. d.parsePos <= Len(d.inBuff) /\ d.parsePos \in Nat /\ Len(d.inBuff) \in Nat
    BY <1>6, Fields DEF Within
  <2>2. Len(t) \in Nat /\ Len(b) = Len(d.inBuff) + Len(t) BY <1>2, LenProperties
  <2>3. d.parsePos <= Len(b) BY <2>1, <2>2
  <2> QED BY <1>5, <2>3 DEF Within
<1> QED BY <1>1, <1>2, <1>3, <1>5, <1>6

(* How far the decoder is from its end: each of its steps goes on, in the  *)
(* stream or to a stage of less rank.                                      *)
Rank == [n \in 0 .. 4 |-> IF n = 1 THEN 2 ELSE IF n \in {2, 3} THEN 1 ELSE 0]
Distance(d) == 2 * Unread(d) + Rank[d.chunkStage]

LEMMA DistanceIsNatural ==
  ASSUME NEW d, Within(d)
  PROVE  Distance(d) \in Nat /\ Unread(d) \in Nat
BY Fields DEF Within, Distance, Unread, Rank

(* What a stage of the decoder makes of a client: it stays typed, nothing  *)
(* is taken from its buffer, and if the decoder goes on it is nearer to    *)
(* its end.                                                                *)
StageOK(d, s) ==
  /\ s = Step(s.client, s.r)
  /\ s.r \in {-1, 0, 1}
  /\ Within(s.client)
  /\ s.client.inBuff = d.inBuff
  /\ s.client.consumedBytes = d.consumedBytes
  /\ s.r = 1 => Distance(s.client) < Distance(d)
  /\ s.r = 0 => s.client.chunkStage = d.chunkStage

(* What more bytes change about it: nothing, if the stage was done, and if *)
(* it was not, it resumes as if they had been there before.                *)
Stays(s, later, resumed, t) ==
  /\ s.r # 0 => later = Step(More(s.client, t), s.r)
  /\ s.r = 0 => resumed = later

(* What the decoder looks for. *)
LEMMA Patterns ==
  /\ Eol \in Seq(Unit) /\ Len(Eol) = 2
  /\ Eol \o Eol \in Seq(Unit) /\ Len(Eol \o Eol) = 4
  /\ <<";">> \in Seq(Unit) /\ Len(<<";">>) = 1
<1>1. Eol \in Seq(Unit) /\ Len(Eol) = 2 BY DEF Eol, Unit
<1>2. \A e \in Seq(Unit) : e \o e \in Seq(Unit) /\ Len(e \o e) = Len(e) + Len(e) BY Joined
<1>3. <<";">> \in Seq(Unit) /\ Len(<<";">>) = 1 BY DEF Unit
<1> HIDE DEF Unit
<1>4. PICK e : e \in Seq(Unit) /\ Len(e) = 2 /\ e = Eol BY <1>1
<1>5. PICK f : f = e \o e OBVIOUS
<1>6. f \in Seq(Unit) /\ Len(f) = Len(e) + Len(e) BY <1>2, <1>4, <1>5, Zenon
<1>7. Len(f) = 4
  <2>1. Len(e) = 2 BY <1>4
  <2>2. Len(f) = Len(e) + Len(e) BY <1>6
  <2> QED BY <2>1, <2>2
<1>8. f = Eol \o Eol BY <1>4, <1>5, Zenon
<1> QED BY <1>1, <1>3, <1>6, <1>7, <1>8

LEMMA StepIs ==
  ASSUME NEW d, NEW r PROVE Step(d, r).client = d /\ Step(d, r).r = r
BY DEF Step

(* Stage 0 *)
SizeOf(b, from, end) == parseChunkSizeHex(SubSeq(b, from + 1, end))
Sized(d, eol, size) ==
  [d EXCEPT !.chunkRemain = size, !.parsePos = eol + 2, !.chunkStage = IF size = 0 THEN 3 ELSE 1]

LEMMA SizedFields ==
  ASSUME NEW d \in Client, NEW eol \in Nat, NEW size \in 0 .. SizeMax
  PROVE  /\ Sized(d, eol, size) \in Client
         /\ Sized(d, eol, size).inBuff = d.inBuff
         /\ Sized(d, eol, size).parsePos = eol + 2
         /\ Sized(d, eol, size).consumedBytes = d.consumedBytes
         /\ Sized(d, eol, size).chunkStage = IF size = 0 THEN 3 ELSE 1
         /\ \A t : More(Sized(d, eol, size), t) = Sized(More(d, t), eol, size)
<1>1. eol + 2 \in Nat /\ (IF size = 0 THEN 3 ELSE 1) \in 0 .. 4 OBVIOUS
<1> QED BY <1>1 DEF Client, Sized, More

(* What stage 0 does, in terms of the line end and of the end of the size. *)
SizeLine(d, eol, end) ==
  IF eol = NPos THEN Step(d, 0)
  ELSE IF SizeOf(d.inBuff, d.parsePos, end) = Refused THEN Step(d, -1)
  ELSE Step(Sized(d, eol, SizeOf(d.inBuff, d.parsePos, end)), 1)

LEMMA SizeLineIs ==
  ASSUME NEW d
  PROVE  LET eol  == Find(d.inBuff, Eol, d.parsePos)
             semi == Find(d.inBuff, <<";">>, d.parsePos)
         IN stepReadSizeLine(d) = SizeLine(d, eol, IF semi # NPos /\ semi < eol THEN semi ELSE eol)
BY Zenon DEF stepReadSizeLine, SizeLine, SizeOf, Sized

LEMMA SizeLineOK ==
  ASSUME NEW d, Within(d), d.chunkStage = 0
  PROVE  StageOK(d, stepReadSizeLine(d))
<1> DEFINE b == d.inBuff
<1>1. d \in Client /\ b \in Seq(Unit) /\ d.parsePos \in Nat /\ Len(b) \in Nat /\ d.parsePos <= Len(b)
  BY Fields DEF Within
<1>2. PICK eol : eol = Find(b, Eol, d.parsePos) OBVIOUS
<1>3. PICK semi : semi = Find(b, <<";">>, d.parsePos) OBVIOUS
<1>4. PICK end : end = IF semi # NPos /\ semi < eol THEN semi ELSE eol OBVIOUS
<1>5. stepReadSizeLine(d) = SizeLine(d, eol, end) BY <1>2, <1>3, <1>4, SizeLineIs, Zenon
<1>6. CASE eol = NPos
  <2>1. stepReadSizeLine(d) = Step(d, 0) BY <1>5, <1>6 DEF SizeLine
  <2> QED BY <2>1, StepIs DEF StageOK
<1>7. CASE eol # NPos
  <2>1. eol \in Nat /\ eol >= d.parsePos /\ eol + 2 <= Len(b)
    <3>1. FoundAt(b, Eol, d.parsePos, eol) BY <1>1, <1>2, <1>7, FindFinds, Patterns
    <3> QED BY <3>1, Patterns DEF FoundAt
  <2>2. end \in Nat /\ end <= eol
    <3>1. semi # NPos => FoundAt(b, <<";">>, d.parsePos, semi) BY <1>1, <1>3, FindFinds, Patterns
    <3>2. semi # NPos => semi \in Nat BY <3>1 DEF FoundAt
    <3> QED BY <1>4, <2>1, <3>2
  <2>3. PICK size : size = SizeOf(b, d.parsePos, end) OBVIOUS
  <2>4. size \in Sizes
    <3>1. SubSeq(b, d.parsePos + 1, end) \in Seq(Unit)
      <4>1. d.parsePos + 1 \in Nat \ {0} /\ end \in Int /\ end <= Len(b) BY <1>1, <2>1, <2>2
      <4> QED BY <1>1, <4>1, Piece
    <3> QED BY <2>3, <3>1, ChunkSizeFits DEF SizeOf
  <2>5. CASE size = Refused
    <3>1. stepReadSizeLine(d) = Step(d, -1) BY <1>5, <1>7, <2>3, <2>5 DEF SizeLine
    <3> QED BY <3>1, StepIs DEF StageOK
  <2>6. CASE size # Refused
    <3>1. size \in 0 .. SizeMax BY <2>4, <2>6 DEF Sizes
    <3>2. PICK n : n = Sized(d, eol, size) OBVIOUS
    <3>3. stepReadSizeLine(d) = Step(n, 1) BY <1>5, <1>7, <2>3, <2>6, <3>2 DEF SizeLine
    <3>4. /\ n \in Client /\ n.inBuff = b /\ n.parsePos = eol + 2 /\ n.consumedBytes = d.consumedBytes
          /\ n.chunkStage \in {1, 3}
      <4>1. d \in Client /\ eol \in Nat BY <1>1, <2>1
      <4>2. /\ Sized(d, eol, size) \in Client /\ Sized(d, eol, size).inBuff = d.inBuff
            /\ Sized(d, eol, size).parsePos = eol + 2
            /\ Sized(d, eol, size).consumedBytes = d.consumedBytes
            /\ Sized(d, eol, size).chunkStage = IF size = 0 THEN 3 ELSE 1
        BY <3>1, <4>1, SizedFields
      <4>3. (IF size = 0 THEN 3 ELSE 1) \in {1, 3} OBVIOUS
      <4> QED BY <3>2, <4>2, <4>3, Zenon
    <3>5. Within(n) BY <2>1, <3>4 DEF Within
    <3>6. Distance(n) < Distance(d)
      <4>1. Rank[n.chunkStage] \in {1, 2} /\ Rank[d.chunkStage] = 0 BY <3>4 DEF Rank
      <4> QED BY <1>1, <2>1, <3>4, <4>1 DEF Distance, Unread
    <3> QED BY <3>3, <3>4, <3>5, <3>6, StepIs DEF StageOK
  <2> QED BY <2>5, <2>6
<1> QED BY <1>6, <1>7

LEMMA SizeLineStays ==
  ASSUME NEW d, Within(d), NEW t \in Seq(Unit)
  PROVE  Stays(stepReadSizeLine(d), stepReadSizeLine(More(d, t)),
                    stepReadSizeLine(More(stepReadSizeLine(d).client, t)), t)
<1> DEFINE b == d.inBuff
<1>1. d \in Client /\ b \in Seq(Unit) /\ d.parsePos \in Nat /\ Len(b) \in Nat /\ d.parsePos <= Len(b)
  BY Fields DEF Within
<1>2. PICK eol : eol = Find(b, Eol, d.parsePos) OBVIOUS
<1>3. PICK semi : semi = Find(b, <<";">>, d.parsePos) OBVIOUS
<1>4. PICK end : end = IF semi # NPos /\ semi < eol THEN semi ELSE eol OBVIOUS
<1>5. stepReadSizeLine(d) = SizeLine(d, eol, end) BY <1>2, <1>3, <1>4, SizeLineIs, Zenon
<1>6. CASE eol = NPos
  <2>1. stepReadSizeLine(d) = Step(d, 0) BY <1>5, <1>6 DEF SizeLine
  <2> QED BY <2>1, StepIs DEF Stays
<1>7. CASE eol # NPos
  <2>1. eol \in Nat /\ eol + 2 <= Len(b) /\ eol = Find(b \o t, Eol, d.parsePos)
    <3>1. Eol \in Seq(Unit) /\ Len(Eol) = 2 BY Patterns
    <3>2. PICK p \in Seq(Unit) : p = Eol /\ Len(p) = 2 BY <3>1
    <3>3. PICK from \in Nat : from = d.parsePos BY <1>1
    <3>4. eol = Find(b, p, from) /\ eol # NPos BY <1>2, <1>7, <3>2, <3>3
    <3>5. eol \in Nat /\ eol + Len(p) <= Len(b) /\ Find(b \o t, p, from) = eol
      BY <1>1, <3>4, FindStays
    <3> QED BY <3>2, <3>3, <3>5
  <2>2. PICK semi2 : semi2 = Find(b \o t, <<";">>, d.parsePos) OBVIOUS
  <2>3. /\ \/ semi \in Nat /\ semi2 = semi
           \/ semi = NPos /\ semi2 = NPos
           \/ semi = NPos /\ semi2 \in Nat /\ semi2 + 1 > Len(b)
    <3>1. PICK p \in Seq(Unit) : p = <<";">> /\ Len(p) = 1 BY Patterns
    <3>2. PICK from \in Nat : from = d.parsePos BY <1>1
    <3>3. semi = Find(b, p, from) /\ semi2 = Find(b \o t, p, from) BY <1>3, <2>2, <3>1, <3>2
    <3>4. \/ semi \in Nat /\ semi2 = semi
          \/ semi = NPos /\ semi2 = NPos
          \/ semi = NPos /\ semi2 \in Nat /\ semi2 + Len(p) > Len(b)
      BY <1>1, <3>3, FindStays
    <3> QED BY <3>1, <3>4
  <2>4. end = IF semi2 # NPos /\ semi2 < eol THEN semi2 ELSE eol BY <1>1, <1>4, <2>1, <2>3
  <2>5. end \in Nat /\ end <= Len(b) BY <1>1, <1>4, <2>1, <2>3
  <2>6. stepReadSizeLine(More(d, t)) = SizeLine(More(d, t), eol, end)
    <3>1. More(d, t).inBuff = b \o t /\ More(d, t).parsePos = d.parsePos BY <1>1, Arrival
    <3> QED BY <2>1, <2>2, <2>4, <3>1, SizeLineIs, Zenon
  <2>7. PICK size : size = SizeOf(b, d.parsePos, end) OBVIOUS
  <2>8. size = SizeOf(More(d, t).inBuff, More(d, t).parsePos, end)
    <3>1. More(d, t).inBuff = b \o t /\ More(d, t).parsePos = d.parsePos BY <1>1, Arrival
    <3>2. SubSeq(b \o t, d.parsePos + 1, end) = SubSeq(b, d.parsePos + 1, end)
      <4>1. d.parsePos + 1 \in Nat \ {0} /\ end \in Int BY <1>1, <2>5
      <4> QED BY <1>1, <2>5, <4>1, PieceStays
    <3> QED BY <2>7, <3>1, <3>2 DEF SizeOf
  <2>9. CASE size = Refused
    <3>1. stepReadSizeLine(d) = Step(d, -1) BY <1>5, <1>7, <2>7, <2>9 DEF SizeLine
    <3>2. stepReadSizeLine(More(d, t)) = Step(More(d, t), -1)
      BY <1>7, <2>6, <2>8, <2>9 DEF SizeLine
    <3> QED BY <3>1, <3>2, StepIs DEF Stays
  <2>10. CASE size # Refused
    <3>1. stepReadSizeLine(d) = Step(Sized(d, eol, size), 1)
      BY <1>5, <1>7, <2>7, <2>10 DEF SizeLine
    <3>2. stepReadSizeLine(More(d, t)) = Step(Sized(More(d, t), eol, size), 1)
      BY <1>7, <2>6, <2>8, <2>10 DEF SizeLine
    <3>3. size \in 0 .. SizeMax
      <4>1. SubSeq(b, d.parsePos + 1, end) \in Seq(Unit)
        <5>1. d.parsePos + 1 \in Nat \ {0} /\ end \in Int BY <1>1, <2>5
        <5> QED BY <1>1, <2>5, <5>1, Piece
      <4>2. size \in Sizes BY <2>7, <4>1, ChunkSizeFits DEF SizeOf
      <4> QED BY <2>10, <4>2 DEF Sizes
    <3>4. More(Sized(d, eol, size), t) = Sized(More(d, t), eol, size)
      BY <1>1, <2>1, <3>3, SizedFields
    <3> QED BY <3>1, <3>2, <3>4, StepIs DEF Stays
  <2> QED BY <2>9, <2>10
<1> QED BY <1>6, <1>7

-----------------------------------------------------------------------------
(* Stage 1 *)

LEMMA Lesser ==
  ASSUME NEW a \in Nat, NEW b \in Nat
  PROVE  Min({a, b}) = IF a <= b THEN a ELSE b
<1>1. PICK m : m = Min({a, b}) OBVIOUS
<1>2. {a, b} \in SUBSET Nat /\ {a, b} # {} OBVIOUS
<1>3. m \in {a, b} /\ \A y \in {a, b} : m <= y BY <1>1, <1>2, Least
<1>4. m <= a /\ m <= b /\ m \in {a, b} BY <1>3
<1> QED BY <1>1, <1>4

Copied(d, data, take) ==
  [d EXCEPT !.bodyBuf = @ \o data, !.parsePos = @ + take, !.chunkRemain = @ - take]
AtStage(d, n) == [d EXCEPT !.chunkStage = n]

LEMMA CopiedFields ==
  ASSUME NEW d \in Client, NEW data \in Seq(Unit), NEW take \in Nat, take <= d.chunkRemain
  PROVE  /\ Copied(d, data, take) \in Client
         /\ Copied(d, data, take).inBuff = d.inBuff
         /\ Copied(d, data, take).parsePos = d.parsePos + take
         /\ Copied(d, data, take).chunkRemain = d.chunkRemain - take
         /\ Copied(d, data, take).consumedBytes = d.consumedBytes
         /\ Copied(d, data, take).chunkStage = d.chunkStage
         /\ Copied(d, data, take).bodyBuf = d.bodyBuf \o data
         /\ \A t : More(Copied(d, data, take), t) = Copied(More(d, t), data, take)
<1>1. PICK body : body = d.bodyBuf \o data OBVIOUS
<1>2. body \in Seq(Unit) BY <1>1, Fields, Joined
<1>3. d.parsePos + take \in Nat /\ d.chunkRemain - take \in 0 .. SizeMax BY Fields, SizeAssumption
<1>4. Copied(d, data, take) =
      [d EXCEPT !.bodyBuf = body, !.parsePos = d.parsePos + take, !.chunkRemain = d.chunkRemain - take]
  BY <1>1, Zenon DEF Copied
<1>5. Copied(d, data, take) \in Client BY <1>2, <1>3, <1>4 DEF Client
<1>6. /\ Copied(d, data, take).inBuff = d.inBuff
      /\ Copied(d, data, take).parsePos = d.parsePos + take
      /\ Copied(d, data, take).chunkRemain = d.chunkRemain - take
      /\ Copied(d, data, take).consumedBytes = d.consumedBytes
      /\ Copied(d, data, take).chunkStage = d.chunkStage
      /\ Copied(d, data, take).bodyBuf = body
  BY <1>4 DEF Client
<1>7. ASSUME NEW t PROVE More(Copied(d, data, take), t) = Copied(More(d, t), data, take)
  BY DEF Client, Copied, More
<1> QED BY <1>1, <1>5, <1>6, <1>7

LEMMA AtStageFields ==
  ASSUME NEW d \in Client, NEW n \in 0 .. 4
  PROVE  /\ AtStage(d, n) \in Client
         /\ AtStage(d, n).inBuff = d.inBuff /\ AtStage(d, n).parsePos = d.parsePos
         /\ AtStage(d, n).consumedBytes = d.consumedBytes /\ AtStage(d, n).chunkStage = n
         /\ \A t : More(AtStage(d, n), t) = AtStage(More(d, t), n)
BY DEF Client, AtStage, More

(* What stage 1 does with the data it takes. *)
CopyData(d, take) ==
  LET copied == Copied(d, SubSeq(d.inBuff, d.parsePos + 1, d.parsePos + take), take)
  IN IF copied.chunkRemain > 0 THEN Step(copied, 0) ELSE Step(AtStage(copied, 2), 1)

LEMMA CopyIs ==
  ASSUME NEW d
  PROVE  stepCopyChunkData(d) = CopyData(d, Min({d.chunkRemain, Unread(d)}))
BY Zenon DEF stepCopyChunkData, CopyData, Copied, AtStage

(* The data of a chunk that have arrived. *)
LEMMA Taken ==
  ASSUME NEW d, Within(d)
  PROVE  LET take == Min({d.chunkRemain, Unread(d)})
             data == SubSeq(d.inBuff, d.parsePos + 1, d.parsePos + take)
         IN /\ take \in Nat /\ take <= d.chunkRemain /\ take <= Unread(d)
            /\ take = d.chunkRemain \/ take = Unread(d)
            /\ data \in Seq(Unit) /\ Len(data) = take
<1>1. d \in Client /\ d.inBuff \in Seq(Unit) /\ d.parsePos \in Nat /\ d.chunkRemain \in Nat
  BY Fields DEF Within
<1>2. Unread(d) \in Nat /\ Unread(d) = Len(d.inBuff) - d.parsePos /\ Len(d.inBuff) \in Nat
  BY <1>1, DistanceIsNatural, Fields DEF Unread
<1>3. PICK take : take = Min({d.chunkRemain, Unread(d)}) OBVIOUS
<1>4. take = IF d.chunkRemain <= Unread(d) THEN d.chunkRemain ELSE Unread(d) BY <1>1, <1>2, <1>3, Lesser
<1>5. take \in Nat /\ take <= d.chunkRemain /\ take <= Unread(d)
      /\ (take = d.chunkRemain \/ take = Unread(d)) BY <1>1, <1>2, <1>4
<1>6. PICK data : data = SubSeq(d.inBuff, d.parsePos + 1, d.parsePos + take) OBVIOUS
<1>7. data \in Seq(Unit) /\ Len(data) = IF d.parsePos + 1 <= d.parsePos + take
                                        THEN (d.parsePos + take) - (d.parsePos + 1) + 1 ELSE 0
  <2>1. d.parsePos + 1 \in Nat \ {0} /\ d.parsePos + take \in Int /\ d.parsePos + take <= Len(d.inBuff)
    BY <1>1, <1>2, <1>5
  <2> QED BY <1>1, <1>6, <2>1, Piece
<1>8. Len(data) = take BY <1>1, <1>5, <1>7
<1> QED BY <1>3, <1>5, <1>6, <1>7, <1>8

LEMMA CopyOK ==
  ASSUME NEW d, Within(d), d.chunkStage = 1
  PROVE  StageOK(d, stepCopyChunkData(d))
<1>1. PICK take : take = Min({d.chunkRemain, Unread(d)}) OBVIOUS
<1>2. PICK data : data = SubSeq(d.inBuff, d.parsePos + 1, d.parsePos + take) OBVIOUS
<1>3. take \in Nat /\ take <= d.chunkRemain /\ take <= Unread(d) /\ data \in Seq(Unit)
  BY <1>1, <1>2, Taken
<1>4. PICK e : e = Copied(d, data, take) OBVIOUS
<1>5. d \in Client /\ d.parsePos \in Nat /\ Len(d.inBuff) \in Nat /\ d.parsePos <= Len(d.inBuff)
  BY Fields DEF Within
<1>6. /\ e \in Client /\ e.inBuff = d.inBuff /\ e.parsePos = d.parsePos + take
      /\ e.consumedBytes = d.consumedBytes /\ e.chunkStage = 1
  BY <1>3, <1>4, <1>5, CopiedFields
<1>7. stepCopyChunkData(d) = IF e.chunkRemain > 0 THEN Step(e, 0) ELSE Step(AtStage(e, 2), 1)
  BY <1>1, <1>2, <1>4, CopyIs, Zenon DEF CopyData
<1>8. Within(e) BY <1>3, <1>5, <1>6 DEF Within, Unread
<1>9. CASE e.chunkRemain > 0
  <2>1. stepCopyChunkData(d) = Step(e, 0) BY <1>7, <1>9
  <2> QED BY <1>6, <1>8, <2>1, StepIs DEF StageOK
<1>10. CASE ~(e.chunkRemain > 0)
  <2>1. PICK n : n = AtStage(e, 2) OBVIOUS
  <2>2. stepCopyChunkData(d) = Step(n, 1) BY <1>7, <1>10, <2>1
  <2>3. /\ n \in Client /\ n.inBuff = d.inBuff /\ n.parsePos = d.parsePos + take
        /\ n.consumedBytes = d.consumedBytes /\ n.chunkStage = 2
    BY <1>6, <2>1, AtStageFields
  <2>4. Within(n) BY <1>3, <1>5, <2>3 DEF Within, Unread
  <2>5. Distance(n) < Distance(d)
    <3>1. Rank[n.chunkStage] = 1 /\ Rank[d.chunkStage] = 2 BY <2>3 DEF Rank
    <3> QED BY <1>3, <1>5, <2>3, <3>1 DEF Distance, Unread
  <2> QED BY <2>2, <2>3, <2>4, <2>5, StepIs DEF StageOK
<1> QED BY <1>9, <1>10

(* Two pieces of a chunk, one after the other, are the piece of both.      *)
LEMMA PiecesJoin ==
  ASSUME NEW s \in Seq(Unit), NEW m \in Nat, NEW k \in Nat, NEW n \in Nat, m <= k, k <= n, n <= Len(s)
  PROVE  SubSeq(s, m + 1, k) \o SubSeq(s, k + 1, n) = SubSeq(s, m + 1, n)
<1>1. Len(s) \in Nat BY LenProperties
<1>2. m + 1 \in 1 .. Len(s) + 1 /\ k \in (m + 1) - 1 .. Len(s) /\ n \in k .. Len(s) BY <1>1
<1> QED BY <1>2, ConcatAdjacentSubSeq

(* Copying twice is copying both pieces at once.                           *)
LEMMA CopiedTwice ==
  ASSUME NEW d \in Client, NEW x \in Seq(Unit), NEW y \in Seq(Unit), NEW m \in Nat, NEW n \in Nat,
         m + n <= d.chunkRemain
  PROVE  Copied(Copied(d, x, m), y, n) = Copied(d, x \o y, m + n)
<1>1. d.bodyBuf \in Seq(Unit) /\ d.parsePos \in Nat /\ d.chunkRemain \in Nat BY Fields
<1>2. (d.bodyBuf \o x) \o y = d.bodyBuf \o (x \o y)
  <2>1. PICK w \in Seq(Unit) : w = d.bodyBuf BY <1>1
  <2>2. (w \o x) \o y = w \o (x \o y) BY ConcatAssociative
  <2> QED BY <2>1, <2>2
<1>3. (d.parsePos + m) + n = d.parsePos + (m + n) BY <1>1
<1>4. (d.chunkRemain - m) - n = d.chunkRemain - (m + n) BY <1>1
<1>5. PICK b1 : b1 = d.bodyBuf \o x OBVIOUS
<1>6. PICK b2 : b2 = b1 \o y OBVIOUS
<1>7. Copied(d, x, m) = [d EXCEPT !.bodyBuf = b1, !.parsePos = d.parsePos + m, !.chunkRemain = d.chunkRemain - m]
  BY <1>5, Zenon DEF Copied
<1>8. Copied(d, x \o y, m + n) =
      [d EXCEPT !.bodyBuf = b2, !.parsePos = d.parsePos + (m + n), !.chunkRemain = d.chunkRemain - (m + n)]
  BY <1>2, <1>5, <1>6, Zenon DEF Copied
<1>9. PICK e : e = Copied(d, x, m) OBVIOUS
<1>10. e.bodyBuf = b1 /\ e.parsePos = d.parsePos + m /\ e.chunkRemain = d.chunkRemain - m
  BY <1>7, <1>9 DEF Client
<1>11. Copied(e, y, n) = [e EXCEPT !.bodyBuf = b2, !.parsePos = (d.parsePos + m) + n,
                                   !.chunkRemain = (d.chunkRemain - m) - n]
  BY <1>6, <1>10, Zenon DEF Copied
<1> QED BY <1>3, <1>4, <1>7, <1>8, <1>9, <1>11 DEF Client

LEMMA CopyStays ==
  ASSUME NEW d, Within(d), NEW t \in Seq(Unit)
  PROVE  Stays(stepCopyChunkData(d), stepCopyChunkData(More(d, t)),
                    stepCopyChunkData(More(stepCopyChunkData(d).client, t)), t)
<1> DEFINE b == d.inBuff
<1>1. PICK take : take = Min({d.chunkRemain, Unread(d)}) OBVIOUS
<1>2. PICK data : data = SubSeq(b, d.parsePos + 1, d.parsePos + take) OBVIOUS
<1>3. take \in Nat /\ take <= d.chunkRemain /\ take <= Unread(d) /\ data \in Seq(Unit) /\ Len(data) = take
      /\ (take = d.chunkRemain \/ take = Unread(d))
  BY <1>1, <1>2, Taken
<1>4. PICK e : e = Copied(d, data, take) OBVIOUS
<1>5. d \in Client /\ b \in Seq(Unit) /\ d.parsePos \in Nat /\ Len(b) \in Nat /\ d.parsePos <= Len(b)
      /\ d.chunkRemain \in Nat /\ Unread(d) = Len(b) - d.parsePos /\ Len(t) \in Nat
  BY Fields, LenProperties DEF Within, Unread
<1>6. /\ e \in Client /\ e.inBuff = b /\ e.parsePos = d.parsePos + take
      /\ e.chunkRemain = d.chunkRemain - take
      /\ More(e, t) = Copied(More(d, t), data, take)
  <2>1. d \in Client /\ data \in Seq(Unit) /\ take \in Nat /\ take <= d.chunkRemain BY <1>3, <1>5
  <2>2. \A w : More(e, w) = Copied(More(d, w), data, take) BY <1>4, <2>1, CopiedFields
  <2>3. /\ e \in Client /\ e.inBuff = b /\ e.parsePos = d.parsePos + take
        /\ e.chunkRemain = d.chunkRemain - take
    BY <1>4, <2>1, CopiedFields
  <2> QED BY <2>2, <2>3
<1>7. stepCopyChunkData(d) = IF e.chunkRemain > 0 THEN Step(e, 0) ELSE Step(AtStage(e, 2), 1)
  BY <1>1, <1>2, <1>4, CopyIs, Zenon DEF CopyData
<1>8. PICK u : u = More(d, t) OBVIOUS
<1>9. /\ u \in Client /\ u.inBuff = b \o t /\ u.inBuff \in Seq(Unit) /\ Len(u.inBuff) = Len(b) + Len(t)
      /\ u.parsePos = d.parsePos /\ u.chunkRemain = d.chunkRemain /\ Within(u)
      /\ Unread(u) = Unread(d) + Len(t)
  <2>1. /\ u \in Client /\ u.inBuff = b \o t /\ u.inBuff \in Seq(Unit) /\ Len(u.inBuff) = Len(b) + Len(t)
        /\ u.parsePos = d.parsePos /\ u.chunkRemain = d.chunkRemain /\ Within(u)
    BY <1>5, <1>8, Arrival
  <2>2. Unread(u) = Len(u.inBuff) - u.parsePos BY DEF Unread
  <2>3. Unread(u) = Unread(d) + Len(t) BY <1>5, <2>1, <2>2
  <2> QED BY <2>1, <2>3
<1>10. CASE ~(e.chunkRemain > 0)
  <2>1. PICK n : n = AtStage(e, 2) OBVIOUS
  <2>2. stepCopyChunkData(d) = Step(n, 1) BY <1>7, <1>10, <2>1
  <2>3. take = d.chunkRemain BY <1>3, <1>5, <1>6, <1>10
  <2>4. take = Min({u.chunkRemain, Unread(u)})
    <3>1. Unread(u) \in Nat /\ u.chunkRemain \in Nat /\ u.chunkRemain <= Unread(u) BY <1>3, <1>5, <1>9, <2>3
    <3> QED BY <1>9, <2>3, <3>1, Lesser
  <2>5. data = SubSeq(u.inBuff, u.parsePos + 1, u.parsePos + take)
    <3>1. d.parsePos + 1 \in Nat \ {0} /\ d.parsePos + take \in Int /\ d.parsePos + take <= Len(b)
      BY <1>3, <1>5
    <3>2. SubSeq(b \o t, d.parsePos + 1, d.parsePos + take) = data BY <1>2, <1>5, <3>1, PieceStays
    <3> QED BY <1>9, <3>2
  <2>6. Copied(u, data, take) = More(e, t) BY <1>6, <1>8
  <2>7. More(e, t).chunkRemain = e.chunkRemain BY <1>6, Arrival
  <2>8. stepCopyChunkData(u) = Step(AtStage(More(e, t), 2), 1)
    <3>1. stepCopyChunkData(u) = LET copied == Copied(u, data, take)
                                 IN IF copied.chunkRemain > 0 THEN Step(copied, 0) ELSE Step(AtStage(copied, 2), 1)
      BY <2>4, <2>5, CopyIs, Zenon DEF CopyData
    <3> QED BY <1>10, <2>6, <2>7, <3>1
  <2>9. More(n, t) = AtStage(More(e, t), 2) BY <1>6, <2>1, AtStageFields
  <2> QED BY <1>8, <2>2, <2>8, <2>9, StepIs DEF Stays
<1>11. CASE e.chunkRemain > 0
  <2>1. stepCopyChunkData(d) = Step(e, 0) BY <1>7, <1>11
  <2>2. take = Unread(d) /\ take < d.chunkRemain BY <1>3, <1>5, <1>6, <1>11
  <2>3. PICK v : v = More(e, t) OBVIOUS
  <2>4. /\ v \in Client /\ v.inBuff = u.inBuff /\ v.parsePos = Len(b) /\ v.chunkRemain = d.chunkRemain - take
        /\ Unread(v) = Len(t) /\ v = Copied(u, data, take)
    <3>1. /\ v \in Client /\ v.inBuff = e.inBuff \o t /\ v.parsePos = e.parsePos
          /\ v.chunkRemain = e.chunkRemain /\ Len(v.inBuff) = Len(e.inBuff) + Len(t)
      BY <1>6, <2>3, Arrival
    <3>2. v.inBuff = u.inBuff BY <1>6, <1>9, <3>1
    <3>3. v.parsePos = Len(b) BY <1>5, <1>6, <2>2, <3>1
    <3>4. Unread(v) = Len(t) BY <1>5, <1>6, <3>1, <3>3 DEF Unread
    <3>5. v = Copied(u, data, take) BY <1>6, <1>8, <2>3
    <3> QED BY <1>6, <3>1, <3>2, <3>3, <3>4, <3>5
  <2>5. PICK again : again = Min({v.chunkRemain, Unread(v)}) OBVIOUS
  <2>6. again = IF d.chunkRemain - take <= Len(t) THEN d.chunkRemain - take ELSE Len(t)
    <3>1. d.chunkRemain - take \in Nat BY <1>3, <1>5
    <3> QED BY <1>5, <2>4, <2>5, <3>1, Lesser
  <2>7. again \in Nat /\ take + again <= d.chunkRemain /\ again <= Len(t) BY <1>3, <1>5, <2>6
  <2>8. Min({u.chunkRemain, Unread(u)}) = take + again
    <3>1. u.chunkRemain \in Nat /\ Unread(u) \in Nat BY <1>3, <1>5, <1>9
    <3>2. Min({u.chunkRemain, Unread(u)}) = IF u.chunkRemain <= Unread(u) THEN u.chunkRemain ELSE Unread(u)
      BY <3>1, Lesser
    <3> QED BY <1>3, <1>5, <1>9, <2>2, <2>6, <3>2
  <2>9. PICK rest : rest = SubSeq(u.inBuff, Len(b) + 1, Len(b) + again) OBVIOUS
  <2>10. rest \in Seq(Unit)
    <3>1. Len(b) + 1 \in Nat \ {0} /\ Len(b) + again \in Int /\ Len(b) + again <= Len(u.inBuff)
      BY <1>5, <1>9, <2>7
    <3> QED BY <1>9, <2>9, <3>1, Piece
  <2>11. data \o rest = SubSeq(u.inBuff, u.parsePos + 1, u.parsePos + (take + again))
    <3>1. data = SubSeq(u.inBuff, d.parsePos + 1, Len(b))
      <4>1. d.parsePos + 1 \in Nat \ {0} /\ d.parsePos + take \in Int /\ d.parsePos + take = Len(b)
        BY <1>3, <1>5, <2>2
      <4>2. PICK n : n = d.parsePos + take OBVIOUS
      <4>3. d.parsePos + 1 \in Nat \ {0} /\ n \in Int /\ n <= Len(b) BY <1>5, <4>1, <4>2
      <4>4. SubSeq(b \o t, d.parsePos + 1, n) = SubSeq(b, d.parsePos + 1, n) BY <1>5, <4>3, PieceStays
      <4> QED BY <1>2, <1>9, <4>1, <4>2, <4>4
    <3>2. Len(b) + again \in Nat /\ d.parsePos <= Len(b) /\ Len(b) <= Len(b) + again
          /\ Len(b) + again <= Len(u.inBuff)
      BY <1>5, <1>9, <2>7
    <3>3. SubSeq(u.inBuff, d.parsePos + 1, Len(b)) \o SubSeq(u.inBuff, Len(b) + 1, Len(b) + again)
          = SubSeq(u.inBuff, d.parsePos + 1, Len(b) + again)
      <4>1. PICK w \in Seq(Unit) : w = u.inBuff BY <1>9
      <4>2. PICK m \in Nat, k \in Nat, n \in Nat : m = d.parsePos /\ k = Len(b) /\ n = Len(b) + again
        BY <1>5, <3>2
      <4>3. SubSeq(w, m + 1, k) \o SubSeq(w, k + 1, n) = SubSeq(w, m + 1, n)
        <5>1. m <= k /\ k <= n /\ n <= Len(w) BY <3>2, <4>1, <4>2
        <5> QED BY <5>1, PiecesJoin
      <4> QED BY <4>1, <4>2, <4>3
    <3>4. Len(b) + again = u.parsePos + (take + again)
      <4>1. PICK l \in Nat, p \in Nat, x \in Nat, y \in Nat :
              l = Len(b) /\ p = d.parsePos /\ x = take /\ y = again
        BY <1>3, <1>5, <2>7
      <4>2. l = p + x BY <1>5, <2>2, <4>1
      <4>3. u.parsePos = p BY <1>9, <4>1
      <4>4. l + y = p + (x + y) BY <4>1, <4>2
      <4> QED BY <4>1, <4>3, <4>4
    <3> QED BY <1>9, <2>9, <3>1, <3>3, <3>4
  <2>12. Copied(u, data \o rest, take + again) = Copied(v, rest, again)
    BY <1>3, <1>9, <2>4, <2>7, <2>10, CopiedTwice
  <2>13. stepCopyChunkData(v) = LET copied == Copied(v, rest, again)
                                IN IF copied.chunkRemain > 0 THEN Step(copied, 0) ELSE Step(AtStage(copied, 2), 1)
    <3>1. rest = SubSeq(v.inBuff, v.parsePos + 1, v.parsePos + again) BY <2>4, <2>9
    <3> QED BY <2>5, <3>1, CopyIs, Zenon DEF CopyData
  <2>14. stepCopyChunkData(u) = LET copied == Copied(u, data \o rest, take + again)
                                IN IF copied.chunkRemain > 0 THEN Step(copied, 0) ELSE Step(AtStage(copied, 2), 1)
    BY <2>8, <2>11, CopyIs, Zenon DEF CopyData
  <2>15. stepCopyChunkData(v) = stepCopyChunkData(u)
    <3>1. PICK w : w = Copied(v, rest, again) OBVIOUS
    <3>2. stepCopyChunkData(v) = IF w.chunkRemain > 0 THEN Step(w, 0) ELSE Step(AtStage(w, 2), 1)
      BY <2>13, <3>1, Zenon
    <3>3. w = Copied(u, data \o rest, take + again) BY <2>12, <3>1
    <3>4. stepCopyChunkData(u) = IF w.chunkRemain > 0 THEN Step(w, 0) ELSE Step(AtStage(w, 2), 1)
      BY <2>14, <3>3, Zenon
    <3> QED BY <3>2, <3>4
  <2> QED BY <1>8, <2>1, <2>3, <2>15, StepIs DEF Stays
<1> QED BY <1>10, <1>11

-----------------------------------------------------------------------------
(* Stages 2 and 3 *)

Past(d, n, stage) == [d EXCEPT !.parsePos = @ + n, !.chunkStage = stage]

LEMMA PastFields ==
  ASSUME NEW d \in Client, NEW n \in Nat, NEW stage \in 0 .. 4
  PROVE  /\ Past(d, n, stage) \in Client
         /\ Past(d, n, stage).inBuff = d.inBuff
         /\ Past(d, n, stage).parsePos = d.parsePos + n
         /\ Past(d, n, stage).chunkStage = stage
         /\ Past(d, n, stage).consumedBytes = d.consumedBytes
         /\ \A t : More(Past(d, n, stage), t) = Past(More(d, t), n, stage)
<1>1. d.parsePos + n \in Nat BY Fields
<1> QED BY <1>1 DEF Client, Past, More

(* The units at the parse position are a line end. *)
AtEol(d) == SubSeq(d.inBuff, d.parsePos + 1, d.parsePos + 2) = Eol

LEMMA EolStays ==
  ASSUME NEW d, Within(d), Unread(d) >= 2, NEW t \in Seq(Unit)
  PROVE  AtEol(More(d, t)) = AtEol(d) /\ Unread(More(d, t)) >= 2
<1>1. d \in Client /\ d.inBuff \in Seq(Unit) /\ d.parsePos \in Nat /\ Len(d.inBuff) \in Nat /\ Len(t) \in Nat
  BY Fields, LenProperties DEF Within
<1>2. PICK m \in Nat \ {0}, n \in Int : m = d.parsePos + 1 /\ n = d.parsePos + 2 BY <1>1
<1>3. n <= Len(d.inBuff) BY <1>1, <1>2 DEF Unread
<1>4. SubSeq(d.inBuff \o t, m, n) = SubSeq(d.inBuff, m, n) BY <1>1, <1>3, PieceStays
<1>5. More(d, t).inBuff = d.inBuff \o t /\ More(d, t).parsePos = d.parsePos
      /\ Len(More(d, t).inBuff) = Len(d.inBuff) + Len(t)
  BY <1>1, Arrival
<1>6. AtEol(More(d, t)) = AtEol(d) BY <1>2, <1>4, <1>5 DEF AtEol
<1>7. Unread(More(d, t)) >= 2 BY <1>1, <1>5 DEF Unread
<1> QED BY <1>6, <1>7

LEMMA LineEndIs ==
  ASSUME NEW d
  PROVE  stepCheckLineCRLF(d) = IF Unread(d) < 2 THEN Step(d, 0)
                                ELSE IF ~AtEol(d) THEN Step(d, -1) ELSE Step(Past(d, 2, 0), 1)
BY Zenon DEF stepCheckLineCRLF, AtEol, Past

LEMMA LineEndOK ==
  ASSUME NEW d, Within(d), d.chunkStage = 2
  PROVE  StageOK(d, stepCheckLineCRLF(d))
<1>1. d \in Client /\ d.parsePos \in Nat /\ Len(d.inBuff) \in Nat BY Fields DEF Within
<1>2. CASE Unread(d) < 2
  <2>1. stepCheckLineCRLF(d) = Step(d, 0) BY <1>2, LineEndIs
  <2> QED BY <2>1, StepIs DEF StageOK
<1>3. CASE ~(Unread(d) < 2) /\ ~AtEol(d)
  <2>1. stepCheckLineCRLF(d) = Step(d, -1) BY <1>3, LineEndIs
  <2> QED BY <2>1, StepIs DEF StageOK
<1>4. CASE ~(Unread(d) < 2) /\ AtEol(d)
  <2>1. PICK n : n = Past(d, 2, 0) OBVIOUS
  <2>2. stepCheckLineCRLF(d) = Step(n, 1) BY <1>4, <2>1, LineEndIs
  <2>3. /\ n \in Client /\ n.inBuff = d.inBuff /\ n.parsePos = d.parsePos + 2 /\ n.chunkStage = 0
        /\ n.consumedBytes = d.consumedBytes
    <3>1. PICK k \in Nat, stage \in 0 .. 4 : k = 2 /\ stage = 0 OBVIOUS
    <3>2. n = Past(d, k, stage) BY <2>1, <3>1
    <3>3. /\ n \in Client /\ n.inBuff = d.inBuff /\ n.parsePos = d.parsePos + k
          /\ n.chunkStage = stage /\ n.consumedBytes = d.consumedBytes
      BY <1>1, <3>2, PastFields
    <3> QED BY <3>1, <3>3
  <2>4. Within(n) BY <1>1, <1>4, <2>3 DEF Within, Unread
  <2>5. Distance(n) < Distance(d)
    <3>1. Rank[n.chunkStage] = 0 /\ Rank[d.chunkStage] = 1 BY <2>3 DEF Rank
    <3> QED BY <1>1, <2>3, <3>1 DEF Distance, Unread
  <2> QED BY <2>2, <2>3, <2>4, <2>5, StepIs DEF StageOK
<1> QED BY <1>2, <1>3, <1>4

LEMMA LineEndStays ==
  ASSUME NEW d, Within(d), NEW t \in Seq(Unit)
  PROVE  Stays(stepCheckLineCRLF(d), stepCheckLineCRLF(More(d, t)),
                    stepCheckLineCRLF(More(stepCheckLineCRLF(d).client, t)), t)
<1>1. d \in Client /\ Unread(d) \in Nat BY DistanceIsNatural DEF Within
<1>2. CASE Unread(d) < 2
  <2>1. stepCheckLineCRLF(d) = Step(d, 0) BY <1>2, LineEndIs
  <2> QED BY <2>1, StepIs DEF Stays
<1>3. CASE ~(Unread(d) < 2)
  <2>1. Unread(d) >= 2 BY <1>1, <1>3
  <2>2. AtEol(More(d, t)) = AtEol(d) /\ Unread(More(d, t)) >= 2 BY <2>1, EolStays
  <2>3. ~(Unread(More(d, t)) < 2)
    <3>1. Within(More(d, t)) BY <1>1, Arrival
    <3>2. Unread(More(d, t)) \in Nat BY <3>1, DistanceIsNatural
    <3> QED BY <2>2, <3>2
  <2>4. CASE ~AtEol(d)
    <3>1. stepCheckLineCRLF(d) = Step(d, -1) BY <1>3, <2>4, LineEndIs
    <3>2. stepCheckLineCRLF(More(d, t)) = Step(More(d, t), -1) BY <2>2, <2>3, <2>4, LineEndIs
    <3> QED BY <3>1, <3>2, StepIs DEF Stays
  <2>5. CASE AtEol(d)
    <3>1. stepCheckLineCRLF(d) = Step(Past(d, 2, 0), 1) BY <1>3, <2>5, LineEndIs
    <3>2. stepCheckLineCRLF(More(d, t)) = Step(Past(More(d, t), 2, 0), 1)
      BY <2>2, <2>3, <2>5, LineEndIs
    <3>3. More(Past(d, 2, 0), t) = Past(More(d, t), 2, 0) BY <1>1, PastFields
    <3> QED BY <3>1, <3>2, <3>3, StepIs DEF Stays
  <2> QED BY <2>4, <2>5
<1> QED BY <1>2, <1>3

LEMMA TrailersIs ==
  ASSUME NEW d
  PROVE  stepConsumeTrailers(d) =
           IF Unread(d) >= 2 /\ AtEol(d) THEN Step(Past(d, 2, 4), 1)
           ELSE IF Find(d.inBuff, Eol \o Eol, d.parsePos) = NPos THEN Step(d, 0)
           ELSE Step(AtStage(d, 4), 1)
BY Zenon DEF stepConsumeTrailers, AtEol, Past, AtStage

LEMMA TrailersOK ==
  ASSUME NEW d, Within(d), d.chunkStage = 3
  PROVE  StageOK(d, stepConsumeTrailers(d))
<1>1. d \in Client /\ d.parsePos \in Nat /\ Len(d.inBuff) \in Nat BY Fields DEF Within
<1>2. CASE Unread(d) >= 2 /\ AtEol(d)
  <2>1. PICK n : n = Past(d, 2, 4) OBVIOUS
  <2>2. stepConsumeTrailers(d) = Step(n, 1) BY <1>2, <2>1, TrailersIs
  <2>3. /\ n \in Client /\ n.inBuff = d.inBuff /\ n.parsePos = d.parsePos + 2 /\ n.chunkStage = 4
        /\ n.consumedBytes = d.consumedBytes
    <3>1. PICK k \in Nat, stage \in 0 .. 4 : k = 2 /\ stage = 4 OBVIOUS
    <3>2. n = Past(d, k, stage) BY <2>1, <3>1
    <3>3. /\ n \in Client /\ n.inBuff = d.inBuff /\ n.parsePos = d.parsePos + k
          /\ n.chunkStage = stage /\ n.consumedBytes = d.consumedBytes
      BY <1>1, <3>2, PastFields
    <3> QED BY <3>1, <3>3
  <2>4. Within(n) BY <1>1, <1>2, <2>3 DEF Within, Unread
  <2>5. Distance(n) < Distance(d)
    <3>1. Rank[n.chunkStage] = 0 /\ Rank[d.chunkStage] = 1 BY <2>3 DEF Rank
    <3> QED BY <1>1, <2>3, <3>1 DEF Distance, Unread
  <2> QED BY <2>2, <2>3, <2>4, <2>5, StepIs DEF StageOK
<1>3. CASE ~(Unread(d) >= 2 /\ AtEol(d)) /\ Find(d.inBuff, Eol \o Eol, d.parsePos) = NPos
  <2>1. stepConsumeTrailers(d) = Step(d, 0) BY <1>3, TrailersIs
  <2> QED BY <2>1, StepIs DEF StageOK
<1>4. CASE ~(Unread(d) >= 2 /\ AtEol(d)) /\ Find(d.inBuff, Eol \o Eol, d.parsePos) # NPos
  <2>1. PICK n : n = AtStage(d, 4) OBVIOUS
  <2>2. stepConsumeTrailers(d) = Step(n, 1) BY <1>4, <2>1, TrailersIs
  <2>3. /\ n \in Client /\ n.inBuff = d.inBuff /\ n.parsePos = d.parsePos /\ n.chunkStage = 4
        /\ n.consumedBytes = d.consumedBytes
    BY <1>1, <2>1, AtStageFields
  <2>4. Within(n) BY <1>1, <2>3 DEF Within
  <2>5. Distance(n) < Distance(d)
    <3>1. Rank[n.chunkStage] = 0 /\ Rank[d.chunkStage] = 1 BY <2>3 DEF Rank
    <3> QED BY <1>1, <2>3, <3>1 DEF Distance, Unread
  <2> QED BY <2>2, <2>3, <2>4, <2>5, StepIs DEF StageOK
<1> QED BY <1>2, <1>3, <1>4

LEMMA TrailersStay ==
  ASSUME NEW d, Within(d), NEW t \in Seq(Unit)
  PROVE  Stays(stepConsumeTrailers(d), stepConsumeTrailers(More(d, t)),
                    stepConsumeTrailers(More(stepConsumeTrailers(d).client, t)), t)
<1>1. d \in Client /\ d.inBuff \in Seq(Unit) /\ d.parsePos \in Nat /\ Len(d.inBuff) \in Nat
      /\ Unread(d) \in Nat /\ Unread(d) = Len(d.inBuff) - d.parsePos
  BY Fields, DistanceIsNatural DEF Within, Unread
<1>2. Unread(d) >= 2 => AtEol(More(d, t)) = AtEol(d) /\ Unread(More(d, t)) >= 2 BY EolStays
<1>3. CASE Unread(d) >= 2 /\ AtEol(d)
  <2>1. stepConsumeTrailers(d) = Step(Past(d, 2, 4), 1) BY <1>3, TrailersIs
  <2>2. stepConsumeTrailers(More(d, t)) = Step(Past(More(d, t), 2, 4), 1) BY <1>2, <1>3, TrailersIs
  <2>3. More(Past(d, 2, 4), t) = Past(More(d, t), 2, 4) BY <1>1, PastFields
  <2> QED BY <2>1, <2>2, <2>3, StepIs DEF Stays
<1>4. CASE ~(Unread(d) >= 2 /\ AtEol(d)) /\ Find(d.inBuff, Eol \o Eol, d.parsePos) = NPos
  <2>1. stepConsumeTrailers(d) = Step(d, 0) BY <1>4, TrailersIs
  <2> QED BY <2>1, StepIs DEF Stays
<1>5. CASE ~(Unread(d) >= 2 /\ AtEol(d)) /\ Find(d.inBuff, Eol \o Eol, d.parsePos) # NPos
  <2>1. stepConsumeTrailers(d) = Step(AtStage(d, 4), 1) BY <1>5, TrailersIs
  <2>2. PICK f : f = Find(d.inBuff, Eol \o Eol, d.parsePos) OBVIOUS
  <2>3. f \in Nat /\ f >= d.parsePos /\ f + 4 <= Len(d.inBuff) /\ f # NPos
        /\ Find(d.inBuff \o t, Eol \o Eol, d.parsePos) = f
    <3>1. PICK p \in Seq(Unit) : p = Eol \o Eol /\ Len(p) = 4 BY Patterns
    <3>2. f = Find(d.inBuff, p, d.parsePos) /\ f # NPos BY <1>5, <2>2, <3>1
    <3>3. f \in Nat /\ f >= d.parsePos /\ f + Len(p) <= Len(d.inBuff)
          /\ Find(d.inBuff \o t, p, d.parsePos) = f
      BY <1>1, <3>2, FindStays
    <3>4. f + 4 <= Len(d.inBuff) BY <3>1, <3>3
    <3> QED BY <3>1, <3>2, <3>3, <3>4
  <2>4. Unread(d) >= 2 BY <1>1, <2>3
  <2>5. ~(Unread(More(d, t)) >= 2 /\ AtEol(More(d, t))) BY <1>2, <1>5, <2>4
  <2>6. Find(More(d, t).inBuff, Eol \o Eol, More(d, t).parsePos) # NPos
    <3>1. More(d, t).inBuff = d.inBuff \o t /\ More(d, t).parsePos = d.parsePos BY <1>1, Arrival
    <3> QED BY <2>3, <3>1
  <2>7. stepConsumeTrailers(More(d, t)) = Step(AtStage(More(d, t), 4), 1) BY <2>5, <2>6, TrailersIs
  <2>8. More(AtStage(d, 4), t) = AtStage(More(d, t), 4) BY <1>1, AtStageFields
  <2> QED BY <2>1, <2>7, <2>8, StepIs DEF Stays
<1> QED BY <1>3, <1>4, <1>5

-----------------------------------------------------------------------------
(* A step of the decoder, of whatever stage.                               *)

LEMMA ChunkStepIs ==
  ASSUME NEW d, Within(d), d.chunkStage # 4
  PROVE  \/ d.chunkStage = 0 /\ ChunkStep(d) = stepReadSizeLine(d)
         \/ d.chunkStage = 1 /\ ChunkStep(d) = stepCopyChunkData(d)
         \/ d.chunkStage = 2 /\ ChunkStep(d) = stepCheckLineCRLF(d)
         \/ d.chunkStage = 3 /\ ChunkStep(d) = stepConsumeTrailers(d)
<1>1. d.chunkStage \in 0 .. 4 BY Fields DEF Within
<1>2. d.chunkStage \in {0, 1, 2, 3} BY <1>1
<1>3. CASE d.chunkStage = 0 BY <1>3 DEF ChunkStep
<1>4. CASE d.chunkStage = 1 BY <1>4 DEF ChunkStep
<1>5. CASE d.chunkStage = 2 BY <1>5 DEF ChunkStep
<1>6. CASE d.chunkStage = 3 BY <1>6 DEF ChunkStep
<1> QED BY <1>2, <1>3, <1>4, <1>5, <1>6

LEMMA ChunkStepOK ==
  ASSUME NEW d, Within(d), d.chunkStage # 4
  PROVE  StageOK(d, ChunkStep(d))
BY ChunkStepIs, SizeLineOK, CopyOK, LineEndOK, TrailersOK

LEMMA ChunkStepStays ==
  ASSUME NEW d, Within(d), d.chunkStage # 4, NEW t \in Seq(Unit)
  PROVE  Stays(ChunkStep(d), ChunkStep(More(d, t)), ChunkStep(More(ChunkStep(d).client, t)), t)
<1>1. PICK s : s = ChunkStep(d) OBVIOUS
<1>2. StageOK(d, s) BY <1>1, ChunkStepOK
<1>3. Within(More(d, t)) /\ More(d, t).chunkStage = d.chunkStage BY Arrival DEF Within
<1>4. ASSUME s.r = 0
      PROVE  Within(More(s.client, t)) /\ More(s.client, t).chunkStage = d.chunkStage
  BY <1>2, <1>4, Arrival DEF StageOK, Within
<1>5. CASE d.chunkStage = 0
  <2>1. s = stepReadSizeLine(d) BY <1>1, <1>5, ChunkStepIs
  <2>2. ChunkStep(More(d, t)) = stepReadSizeLine(More(d, t)) BY <1>3, <1>5, ChunkStepIs
  <2>3. s.r = 0 => ChunkStep(More(s.client, t)) = stepReadSizeLine(More(s.client, t))
    BY <1>4, <1>5, ChunkStepIs
  <2> QED BY <1>1, <2>1, <2>2, <2>3, SizeLineStays DEF Stays
<1>6. CASE d.chunkStage = 1
  <2>1. s = stepCopyChunkData(d) BY <1>1, <1>6, ChunkStepIs
  <2>2. ChunkStep(More(d, t)) = stepCopyChunkData(More(d, t)) BY <1>3, <1>6, ChunkStepIs
  <2>3. s.r = 0 => ChunkStep(More(s.client, t)) = stepCopyChunkData(More(s.client, t))
    BY <1>4, <1>6, ChunkStepIs
  <2> QED BY <1>1, <2>1, <2>2, <2>3, CopyStays DEF Stays
<1>7. CASE d.chunkStage = 2
  <2>1. s = stepCheckLineCRLF(d) BY <1>1, <1>7, ChunkStepIs
  <2>2. ChunkStep(More(d, t)) = stepCheckLineCRLF(More(d, t)) BY <1>3, <1>7, ChunkStepIs
  <2>3. s.r = 0 => ChunkStep(More(s.client, t)) = stepCheckLineCRLF(More(s.client, t))
    BY <1>4, <1>7, ChunkStepIs
  <2> QED BY <1>1, <2>1, <2>2, <2>3, LineEndStays DEF Stays
<1>8. CASE d.chunkStage = 3
  <2>1. s = stepConsumeTrailers(d) BY <1>1, <1>8, ChunkStepIs
  <2>2. ChunkStep(More(d, t)) = stepConsumeTrailers(More(d, t)) BY <1>3, <1>8, ChunkStepIs
  <2>3. s.r = 0 => ChunkStep(More(s.client, t)) = stepConsumeTrailers(More(s.client, t))
    BY <1>4, <1>8, ChunkStepIs
  <2> QED BY <1>1, <2>1, <2>2, <2>3, TrailersStay DEF Stays
<1> QED BY <1>5, <1>6, <1>7, <1>8, ChunkStepIs

-----------------------------------------------------------------------------
(* The decoder goes from stage to stage until one has to wait, or the      *)
(* message has ended.  That this says what it returns for every client is  *)
(* shown layer by layer, by how far it is from its end.                    *)

LEMMA LesserInt ==
  ASSUME NEW a \in Nat, NEW b \in Int, b < 0
  PROVE  Min({a, b}) = b
<1>1. \E x \in {a, b} : \A y \in {a, b} : x <= y
  <2>1. b \in {a, b} /\ \A y \in {a, b} : b <= y OBVIOUS
  <2> QED BY <2>1
<1>2. PICK m : m = Min({a, b}) OBVIOUS
<1>3. m \in {a, b} /\ \A y \in {a, b} : m <= y BY <1>1, <1>2 DEF Min
<1>4. m <= b /\ m \in {a, b} BY <1>3
<1> QED BY <1>2, <1>4

(* A client whose position were behind its buffer would wait.              *)
LEMMA OutsideWaits ==
  ASSUME NEW d \in Client, ~Within(d), d.chunkStage # 4
  PROVE  ChunkStep(d).r # 1
<1>1. d.inBuff \in Seq(Unit) /\ d.parsePos \in Nat /\ Len(d.inBuff) \in Nat /\ d.chunkRemain \in Nat
      /\ d.chunkStage \in 0 .. 4 /\ d.parsePos > Len(d.inBuff)
  BY Fields DEF Within
<1>2. Unread(d) \in Int /\ Unread(d) < 0 BY <1>1 DEF Unread
<1>3. ASSUME NEW p \in Seq(Unit) PROVE Find(d.inBuff, p, d.parsePos) = NPos
  <2> SUFFICES ASSUME Find(d.inBuff, p, d.parsePos) # NPos PROVE FALSE OBVIOUS
  <2>1. PICK f : f = Find(d.inBuff, p, d.parsePos) OBVIOUS
  <2>2. FoundAt(d.inBuff, p, d.parsePos, f) BY <1>1, <2>1, FindFinds
  <2>3. f \in Nat /\ f >= d.parsePos /\ f + Len(p) <= Len(d.inBuff) BY <2>2 DEF FoundAt
  <2>4. Len(p) \in Nat BY LenProperties
  <2> QED BY <1>1, <2>3, <2>4
<1>4. CASE d.chunkStage = 0
  <2>1. ChunkStep(d) = stepReadSizeLine(d) BY <1>4 DEF ChunkStep
  <2>2. Find(d.inBuff, Eol, d.parsePos) = NPos BY <1>3, Patterns
  <2>3. stepReadSizeLine(d) = Step(d, 0) BY <2>2, Zenon DEF stepReadSizeLine
  <2> QED BY <2>1, <2>3, StepIs
<1>5. CASE d.chunkStage = 1
  <2>1. ChunkStep(d) = stepCopyChunkData(d) BY <1>5 DEF ChunkStep
  <2>2. PICK take \in Int : take = Min({d.chunkRemain, Unread(d)}) /\ take < 0 BY <1>1, <1>2, LesserInt
  <2>3. PICK data : data = SubSeq(d.inBuff, d.parsePos + 1, d.parsePos + take) OBVIOUS
  <2>4. PICK e : e = Copied(d, data, take) OBVIOUS
  <2>5. e.chunkRemain = d.chunkRemain - take BY <2>4 DEF Copied, Client
  <2>6. e.chunkRemain > 0 BY <1>1, <2>2, <2>5
  <2>7. stepCopyChunkData(d) = IF e.chunkRemain > 0 THEN Step(e, 0) ELSE Step(AtStage(e, 2), 1)
    BY <2>2, <2>3, <2>4, CopyIs, Zenon DEF CopyData
  <2> QED BY <2>1, <2>6, <2>7, StepIs
<1>6. CASE d.chunkStage = 2
  <2>1. ChunkStep(d) = stepCheckLineCRLF(d) BY <1>6 DEF ChunkStep
  <2>2. stepCheckLineCRLF(d) = Step(d, 0) BY <1>2, LineEndIs
  <2> QED BY <2>1, <2>2, StepIs
<1>7. CASE d.chunkStage = 3
  <2>1. ChunkStep(d) = stepConsumeTrailers(d) BY <1>7 DEF ChunkStep
  <2>2. Find(d.inBuff, Eol \o Eol, d.parsePos) = NPos BY <1>3, Patterns
  <2>3. ~(Unread(d) >= 2) BY <1>2
  <2>4. stepConsumeTrailers(d) = Step(d, 0) BY <2>2, <2>3, TrailersIs
  <2> QED BY <2>1, <2>4, StepIs
<1> QED BY <1>1, <1>4, <1>5, <1>6, <1>7

(* The layers *)
Level(d) == IF Within(d) THEN Distance(d) ELSE 0
Layer(m) == {d \in Client : Level(d) < m}

Done(d) == Step([d EXCEPT !.consumedBytes = d.parsePos], 1)
Decoded(g, d) ==
  IF d.chunkStage = 4 THEN Done(d)
  ELSE IF ChunkStep(d).r = 1 THEN g[ChunkStep(d).client] ELSE ChunkStep(d)
Decodes(g, D) == g = [d \in D |-> Decoded(g, d)]

LEMMA Levels ==
  /\ \A d \in Client : Level(d) \in Nat
  /\ \A d \in Client : d.chunkStage # 4 /\ ChunkStep(d).r = 1
       => ChunkStep(d).client \in Client /\ Level(ChunkStep(d).client) < Level(d)
<1>1. ASSUME NEW d \in Client PROVE Level(d) \in Nat BY DistanceIsNatural DEF Level
<1>2. ASSUME NEW d \in Client, d.chunkStage # 4, ChunkStep(d).r = 1
      PROVE  ChunkStep(d).client \in Client /\ Level(ChunkStep(d).client) < Level(d)
  <2>1. Within(d) BY <1>2, OutsideWaits
  <2>2. PICK s : s = ChunkStep(d) OBVIOUS
  <2>3. StageOK(d, s) BY <1>2, <2>1, <2>2, ChunkStepOK
  <2>4. Within(s.client) /\ Distance(s.client) < Distance(d) BY <1>2, <2>2, <2>3 DEF StageOK
  <2> QED BY <2>1, <2>2, <2>4 DEF Level, Within
<1> QED BY <1>1, <1>2

LEMMA LayerStep ==
  ASSUME NEW m \in Nat, NEW d \in Layer(m + 1), d.chunkStage # 4, ChunkStep(d).r = 1
  PROVE  ChunkStep(d).client \in Layer(m)
<1>1. d \in Client /\ Level(d) < m + 1 /\ Level(d) \in Nat BY Levels DEF Layer
<1>2. ChunkStep(d).client \in Client /\ Level(ChunkStep(d).client) < Level(d) BY <1>1, Levels
<1>3. Level(ChunkStep(d).client) \in Nat BY <1>2, Levels
<1> QED BY <1>1, <1>2, <1>3 DEF Layer

(* The decoder is defined on each layer,                                   *)
LEMMA LayersDecoded ==
  ASSUME NEW n \in Nat PROVE \E g : Decodes(g, Layer(n))
<1> DEFINE S == {m \in Nat : \E g : Decodes(g, Layer(m))}
<1>1. 0 \in S
  <2>1. Layer(0) = {} BY Levels DEF Layer
  <2>2. PICK g : g = [d \in Layer(0) |-> 0] OBVIOUS
  <2>3. g = [d \in Layer(0) |-> Decoded(g, d)] BY <2>1, <2>2
  <2> QED BY <2>3 DEF Decodes
<1>2. ASSUME NEW m \in Nat, m \in S PROVE m + 1 \in S
  <2>1. PICK g : Decodes(g, Layer(m)) BY <1>2
  <2>2. \A d \in Layer(m) : g[d] = Decoded(g, d)
    <3>1. g = [d \in Layer(m) |-> Decoded(g, d)] BY <2>1 DEF Decodes
    <3> QED BY <3>1
  <2>3. PICK h : h = [d \in Layer(m + 1) |-> Decoded(g, d)] OBVIOUS
  <2>4. ASSUME NEW d \in Layer(m) PROVE d \in Layer(m + 1) /\ h[d] = g[d]
    <3>1. d \in Layer(m + 1) BY Levels DEF Layer
    <3> QED BY <2>2, <2>3, <3>1
  <2>5. ASSUME NEW d \in Layer(m + 1) PROVE Decoded(g, d) = Decoded(h, d)
    <3>1. CASE d.chunkStage = 4 BY <3>1 DEF Decoded
    <3>2. CASE d.chunkStage # 4 /\ ChunkStep(d).r # 1 BY <3>2 DEF Decoded
    <3>3. CASE d.chunkStage # 4 /\ ChunkStep(d).r = 1
      <4>1. ChunkStep(d).client \in Layer(m) BY <3>3, LayerStep
      <4>2. h[ChunkStep(d).client] = g[ChunkStep(d).client] BY <2>4, <4>1
      <4> QED BY <4>2 DEF Decoded
    <3> QED BY <3>1, <3>2, <3>3
  <2>6. h = [d \in Layer(m + 1) |-> Decoded(h, d)] BY <2>3, <2>5
  <2>7. Decodes(h, Layer(m + 1)) BY <2>6 DEF Decodes
  <2> QED BY <2>7
<1> HIDE DEF S
<1>3. \A m \in Nat : m >= 0 => m \in S BY <1>1, <1>2, Induction
<1>4. n \in S BY <1>3
<1> QED BY <1>4 DEF S

(* and in one way.                                                         *)
LEMMA LayersAgree ==
  ASSUME NEW j \in Nat, NEW k \in Nat, NEW g, NEW h, Decodes(g, Layer(j)), Decodes(h, Layer(k)),
         NEW e \in Client, Level(e) < j, Level(e) < k
  PROVE  g[e] = h[e]
<1> DEFINE S == {m \in Nat : \A d \in Client : Level(d) < m /\ Level(d) < j /\ Level(d) < k => g[d] = h[d]}
<1>1. 0 \in S BY Levels
<1>2. ASSUME NEW m \in Nat, m \in S PROVE m + 1 \in S
  <2> SUFFICES ASSUME NEW d \in Client, Level(d) < m + 1, Level(d) < j, Level(d) < k
               PROVE  g[d] = h[d]
    OBVIOUS
  <2>1. d \in Layer(j) /\ d \in Layer(k) BY DEF Layer
  <2>2. g[d] = Decoded(g, d)
    <3>1. g = [x \in Layer(j) |-> Decoded(g, x)] BY DEF Decodes
    <3> QED BY <2>1, <3>1
  <2>3. h[d] = Decoded(h, d)
    <3>1. h = [x \in Layer(k) |-> Decoded(h, x)] BY DEF Decodes
    <3> QED BY <2>1, <3>1
  <2>4. CASE d.chunkStage = 4 BY <2>2, <2>3, <2>4 DEF Decoded
  <2>5. CASE d.chunkStage # 4 /\ ChunkStep(d).r # 1 BY <2>2, <2>3, <2>5 DEF Decoded
  <2>6. CASE d.chunkStage # 4 /\ ChunkStep(d).r = 1
    <3>1. PICK e2 : e2 = ChunkStep(d).client OBVIOUS
    <3>2. e2 \in Client /\ Level(e2) < Level(d) /\ Level(e2) \in Nat /\ Level(d) \in Nat
      BY <2>6, <3>1, Levels
    <3>3. Level(e2) < m /\ Level(e2) < j /\ Level(e2) < k BY <3>2
    <3>4. g[e2] = h[e2] BY <1>2, <3>2, <3>3
    <3> QED BY <2>2, <2>3, <2>6, <3>1, <3>4 DEF Decoded
  <2> QED BY <2>4, <2>5, <2>6
<1> HIDE DEF S
<1>3. \A m \in Nat : m >= 0 => m \in S BY <1>1, <1>2, Induction
<1>4. Level(e) + 1 \in Nat /\ Level(e) \in Nat BY Levels
<1>5. Level(e) + 1 \in S BY <1>3, <1>4
<1> QED BY <1>4, <1>5 DEF S

(* So it is defined on all clients.                                        *)
LEMMA DecoderExists == \E g : Decodes(g, Client)
<1> DEFINE G(n) == CHOOSE g : Decodes(g, Layer(n))
<1>1. ASSUME NEW n \in Nat PROVE Decodes(G(n), Layer(n)) BY LayersDecoded
<1> HIDE DEF G
<1>2. PICK f : f = [d \in Client |-> G(Level(d) + 1)[d]] OBVIOUS
<1>3. ASSUME NEW d \in Client PROVE G(Level(d) + 1)[d] = Decoded(f, d)
  <2>1. PICK n \in Nat : n = Level(d) + 1 /\ Level(d) < n BY Levels
  <2>2. PICK g : g = G(n) OBVIOUS
  <2>3. Decodes(g, Layer(n)) BY <1>1, <2>2
  <2>4. g[d] = Decoded(g, d)
    <3>1. g = [x \in Layer(n) |-> Decoded(g, x)] BY <2>3 DEF Decodes
    <3>2. d \in Layer(n) BY <2>1 DEF Layer
    <3> QED BY <3>1, <3>2
  <2>5. CASE d.chunkStage = 4 BY <2>1, <2>2, <2>4, <2>5 DEF Decoded
  <2>6. CASE d.chunkStage # 4 /\ ChunkStep(d).r # 1 BY <2>1, <2>2, <2>4, <2>6 DEF Decoded
  <2>7. CASE d.chunkStage # 4 /\ ChunkStep(d).r = 1
    <3>1. PICK e : e = ChunkStep(d).client OBVIOUS
    <3>2. e \in Client /\ Level(e) < Level(d) /\ Level(e) \in Nat /\ Level(d) \in Nat
      BY <2>7, <3>1, Levels
    <3>3. PICK k \in Nat : k = Level(e) + 1 /\ Level(e) < k BY <3>2
    <3>4. Decodes(G(k), Layer(k)) BY <1>1
    <3>5. Level(e) < n BY <2>1, <3>2
    <3>6. g[e] = G(k)[e] BY <2>3, <3>2, <3>3, <3>4, <3>5, LayersAgree
    <3>7. f[e] = G(k)[e] BY <1>2, <3>2, <3>3
    <3> QED BY <2>1, <2>2, <2>4, <2>7, <3>1, <3>6, <3>7 DEF Decoded
  <2> QED BY <2>5, <2>6, <2>7
<1>4. f = [d \in Client |-> Decoded(f, d)] BY <1>2, <1>3
<1> QED BY <1>4 DEF Decodes

LEMMA DecoderIs ==
  ASSUME NEW d \in Client PROVE unchunkStep[d] = Decoded(unchunkStep, d)
<1>1. unchunkStep = CHOOSE g : Decodes(g, Client)
  BY Zenon DEF unchunkStep, Decodes, Decoded, Done
<1>2. Decodes(unchunkStep, Client) BY <1>1, DecoderExists
<1>3. unchunkStep = [x \in Client |-> Decoded(unchunkStep, x)] BY <1>2 DEF Decodes
<1> QED BY <1>3

-----------------------------------------------------------------------------
(* What the decoder leaves alone. *)
Frame(d) == <<d.headersDone, d.isChunked, d.contentLength, d.responseQueued, d.closeFlag>>

LEMMA FrameKept ==
  ASSUME NEW d \in Client
  PROVE  /\ \A t : Frame(More(d, t)) = Frame(d)
         /\ \A eol, size : Frame(Sized(d, eol, size)) = Frame(d)
         /\ \A data, take : Frame(Copied(d, data, take)) = Frame(d)
         /\ \A data, take, n : Frame(AtStage(Copied(d, data, take), n)) = Frame(d)
         /\ \A n : Frame(AtStage(d, n)) = Frame(d)
         /\ \A n, stage : Frame(Past(d, n, stage)) = Frame(d)
         /\ \A n : Frame([d EXCEPT !.consumedBytes = n]) = Frame(d)
BY DEF Client, Frame, More, Sized, Copied, AtStage, Past

LEMMA ChunkStepFrame ==
  ASSUME NEW d, Within(d), d.chunkStage # 4
  PROVE  Frame(ChunkStep(d).client) = Frame(d)
<1>1. d \in Client BY DEF Within
<1>2. Frame(stepReadSizeLine(d).client) = Frame(d)
  <2>1. PICK eol, end : stepReadSizeLine(d) = SizeLine(d, eol, end) BY SizeLineIs, Zenon
  <2>2. \/ stepReadSizeLine(d) = Step(d, 0) \/ stepReadSizeLine(d) = Step(d, -1)
        \/ \E size : stepReadSizeLine(d) = Step(Sized(d, eol, size), 1)
    BY <2>1, Zenon DEF SizeLine
  <2> QED BY <1>1, <2>2, StepIs, FrameKept
<1>3. Frame(stepCopyChunkData(d).client) = Frame(d)
  <2>1. PICK take : stepCopyChunkData(d) = CopyData(d, take) BY CopyIs, Zenon
  <2>2. \E data : \/ stepCopyChunkData(d) = Step(Copied(d, data, take), 0)
                  \/ stepCopyChunkData(d) = Step(AtStage(Copied(d, data, take), 2), 1)
    BY <2>1, Zenon DEF CopyData
  <2> QED BY <1>1, <2>2, StepIs, FrameKept
<1>4. Frame(stepCheckLineCRLF(d).client) = Frame(d)
  <2>1. stepCheckLineCRLF(d) \in {Step(d, 0), Step(d, -1), Step(Past(d, 2, 0), 1)} BY LineEndIs, Zenon
  <2> QED BY <1>1, <2>1, StepIs, FrameKept
<1>5. Frame(stepConsumeTrailers(d).client) = Frame(d)
  <2>1. stepConsumeTrailers(d) \in {Step(d, 0), Step(Past(d, 2, 4), 1), Step(AtStage(d, 4), 1)}
    BY TrailersIs, Zenon
  <2> QED BY <1>1, <2>1, StepIs, FrameKept
<1> QED BY <1>2, <1>3, <1>4, <1>5, ChunkStepIs

-----------------------------------------------------------------------------
(* What the decoder returns: a client with its position in the buffer,     *)
(* which is also the number of bytes consumed if a message has ended.      *)
DecoderOK(d, s) ==
  /\ s = Step(s.client, s.r)
  /\ s.r \in {-1, 0, 1}
  /\ Within(s.client)
  /\ s.client.inBuff = d.inBuff
  /\ s.client.consumedBytes = IF s.r = 1 THEN s.client.parsePos ELSE d.consumedBytes
  /\ Frame(s.client) = Frame(d)

LEMMA DoneFields ==
  ASSUME NEW d, Within(d)
  PROVE  /\ DecoderOK(d, Done(d))
         /\ Done(d).r = 1
         /\ \A t \in Seq(Unit) : Done(More(d, t)) = Step(More(Done(d).client, t), 1)
<1>1. d \in Client /\ d.parsePos \in Nat BY Fields DEF Within
<1>2. PICK e : e = [d EXCEPT !.consumedBytes = d.parsePos] OBVIOUS
<1>3. Done(d) = Step(e, 1) BY <1>2 DEF Done
<1>4. e \in Client /\ e.inBuff = d.inBuff /\ e.parsePos = d.parsePos /\ e.consumedBytes = d.parsePos
  BY <1>1, <1>2 DEF Client
<1>5. Frame(e) = Frame(d) BY <1>1, <1>2, FrameKept
<1>6. Within(e) BY <1>4 DEF Within
<1>7. DecoderOK(d, Done(d)) BY <1>3, <1>4, <1>5, <1>6, StepIs DEF DecoderOK
<1>8. ASSUME NEW t \in Seq(Unit) PROVE Done(More(d, t)) = Step(More(Done(d).client, t), 1)
  <2>1. Done(d).client = e BY <1>3, StepIs
  <2>2. [More(d, t) EXCEPT !.consumedBytes = More(d, t).parsePos] = More(e, t)
    BY <1>1, <1>2 DEF Client, More
  <2> QED BY <2>1, <2>2 DEF Done
<1> QED BY <1>3, <1>7, <1>8, StepIs

LEMMA DecoderReturns ==
  ASSUME NEW e, Within(e) PROVE DecoderOK(e, unchunkStep[e])
<1> DEFINE S == {m \in Nat : \A d \in Client : Within(d) /\ Distance(d) < m => DecoderOK(d, unchunkStep[d])}
<1>1. 0 \in S BY DistanceIsNatural
<1>2. ASSUME NEW m \in Nat, m \in S PROVE m + 1 \in S
  <2> SUFFICES ASSUME NEW d \in Client, Within(d), Distance(d) < m + 1
               PROVE  DecoderOK(d, unchunkStep[d])
    OBVIOUS
  <2>1. unchunkStep[d] = Decoded(unchunkStep, d) BY DecoderIs
  <2>2. CASE d.chunkStage = 4
    <3>1. unchunkStep[d] = Done(d) BY <2>1, <2>2 DEF Decoded
    <3> QED BY <3>1, DoneFields
  <2>3. CASE d.chunkStage # 4
    <3>1. PICK s : s = ChunkStep(d) OBVIOUS
    <3>2. StageOK(d, s) /\ Frame(s.client) = Frame(d) BY <2>3, <3>1, ChunkStepOK, ChunkStepFrame
    <3>3. CASE s.r = 1
      <4>1. unchunkStep[d] = unchunkStep[s.client] BY <2>1, <2>3, <3>1, <3>3 DEF Decoded
      <4>2. s.client \in Client /\ Within(s.client) /\ Distance(s.client) < Distance(d)
        BY <3>2, <3>3 DEF StageOK, Within
      <4>3. Distance(s.client) < m
        <5>1. Distance(s.client) \in Nat /\ Distance(d) \in Nat BY <4>2, DistanceIsNatural
        <5> QED BY <4>2, <5>1
      <4>4. DecoderOK(s.client, unchunkStep[s.client]) BY <1>2, <4>2, <4>3
      <4> QED BY <3>2, <4>1, <4>4 DEF DecoderOK, StageOK
    <3>4. CASE s.r # 1
      <4>1. unchunkStep[d] = s BY <2>1, <2>3, <3>1, <3>4 DEF Decoded
      <4> QED BY <3>2, <3>4, <4>1 DEF DecoderOK, StageOK
    <3> QED BY <3>3, <3>4
  <2> QED BY <2>2, <2>3
<1> HIDE DEF S
<1>3. \A m \in Nat : m >= 0 => m \in S BY <1>1, <1>2, Induction
<1>4. Distance(e) + 1 \in Nat /\ Distance(e) \in Nat /\ e \in Client BY DistanceIsNatural DEF Within
<1>5. Distance(e) + 1 \in S BY <1>3, <1>4
<1> QED BY <1>4, <1>5 DEF S

(* More bytes do not change what it has returned; and if it waited, it     *)
(* resumes as if they had been there from the start.                       *)
LEMMA DecoderStays ==
  ASSUME NEW e, Within(e), NEW t \in Seq(Unit)
  PROVE  Stays(unchunkStep[e], unchunkStep[More(e, t)],
                    unchunkStep[More(unchunkStep[e].client, t)], t)
<1> DEFINE OK(d) == Stays(unchunkStep[d], unchunkStep[More(d, t)],
                               unchunkStep[More(unchunkStep[d].client, t)], t)
           S == {m \in Nat : \A d \in Client : Within(d) /\ Distance(d) < m => OK(d)}
<1>1. 0 \in S BY DistanceIsNatural
<1>2. ASSUME NEW m \in Nat, m \in S PROVE m + 1 \in S
  <2> HIDE DEF OK
  <2> SUFFICES ASSUME NEW d \in Client, Within(d), Distance(d) < m + 1 PROVE OK(d) OBVIOUS
  <2>1. unchunkStep[d] = Decoded(unchunkStep, d) BY DecoderIs
  <2>2. More(d, t) \in Client /\ More(d, t).chunkStage = d.chunkStage BY Arrival
  <2>3. unchunkStep[More(d, t)] = Decoded(unchunkStep, More(d, t)) BY <2>2, DecoderIs
  <2>4. CASE d.chunkStage = 4
    <3>1. unchunkStep[d] = Done(d) BY <2>1, <2>4 DEF Decoded
    <3>2. unchunkStep[More(d, t)] = Done(More(d, t)) BY <2>2, <2>3, <2>4 DEF Decoded
    <3> QED BY <3>1, <3>2, DoneFields DEF Stays, OK
  <2>5. CASE d.chunkStage # 4
    <3>1. PICK s : s = ChunkStep(d) OBVIOUS
    <3>2. StageOK(d, s) BY <2>5, <3>1, ChunkStepOK
    <3>3. Stays(s, ChunkStep(More(d, t)), ChunkStep(More(s.client, t)), t)
      BY <2>5, <3>1, ChunkStepStays
    <3>4. CASE s.r = 1
      <4>1. unchunkStep[d] = unchunkStep[s.client] BY <2>1, <2>5, <3>1, <3>4 DEF Decoded
      <4>2. s.client \in Client /\ Within(s.client) /\ Distance(s.client) < Distance(d)
        BY <3>2, <3>4 DEF StageOK, Within
      <4>3. Distance(s.client) < m
        <5>1. Distance(s.client) \in Nat /\ Distance(d) \in Nat BY <4>2, DistanceIsNatural
        <5> QED BY <4>2, <5>1
      <4>4. OK(s.client) BY <1>2, <4>2, <4>3
      <4>5. ChunkStep(More(d, t)) = Step(More(s.client, t), 1) BY <3>3, <3>4 DEF Stays
      <4>6. unchunkStep[More(d, t)] = unchunkStep[More(s.client, t)]
        BY <2>2, <2>3, <2>5, <4>5, StepIs DEF Decoded
      <4> QED BY <4>1, <4>4, <4>6 DEF OK
    <3>5. CASE s.r = -1
      <4>1. unchunkStep[d] = s BY <2>1, <2>5, <3>1, <3>5 DEF Decoded
      <4>2. ChunkStep(More(d, t)) = Step(More(s.client, t), -1) BY <3>3, <3>5 DEF Stays
      <4>3. unchunkStep[More(d, t)] = Step(More(s.client, t), -1)
        BY <2>2, <2>3, <2>5, <4>2, StepIs DEF Decoded
      <4> QED BY <3>5, <4>1, <4>3 DEF Stays, OK
    <3>6. CASE s.r = 0
      <4>1. unchunkStep[d] = s BY <2>1, <2>5, <3>1, <3>6 DEF Decoded
      <4>2. ChunkStep(More(s.client, t)) = ChunkStep(More(d, t)) BY <3>3, <3>6 DEF Stays
      <4>3. s.client \in Client /\ s.client.chunkStage = d.chunkStage BY <3>2, <3>6 DEF StageOK, Within
      <4>4. More(s.client, t) \in Client /\ More(s.client, t).chunkStage = d.chunkStage
        BY <4>3, Arrival
      <4>5. unchunkStep[More(s.client, t)] = Decoded(unchunkStep, More(s.client, t)) BY <4>4, DecoderIs
      <4>6. unchunkStep[More(s.client, t)] = unchunkStep[More(d, t)]
        BY <2>2, <2>3, <2>5, <4>2, <4>4, <4>5 DEF Decoded
      <4> QED BY <3>6, <4>1, <4>6 DEF Stays, OK
    <3> QED BY <3>2, <3>4, <3>5, <3>6 DEF StageOK
  <2> QED BY <2>4, <2>5
<1> HIDE DEF S
<1>3. \A m \in Nat : m >= 0 => m \in S BY <1>1, <1>2, Induction
<1>4. Distance(e) + 1 \in Nat /\ Distance(e) \in Nat /\ e \in Client BY DistanceIsNatural DEF Within
<1>5. Distance(e) + 1 \in S BY <1>3, <1>4
<1> QED BY <1>4, <1>5 DEF S

-----------------------------------------------------------------------------
(* Framing, and the body without chunks                                    *)

(* A connection whose next request is not looked at yet. *)
Fresh(b) == [NewClient EXCEPT !.inBuff = b]

LEMMA FreshFields ==
  ASSUME NEW b \in Seq(Unit)
  PROVE  /\ Fresh(b) \in Client /\ Within(Fresh(b))
         /\ Fresh(b).inBuff = b /\ Fresh(b).headersDone = FALSE /\ Fresh(b).parsePos = 0
         /\ Fresh(b).consumedBytes = 0
         /\ Fresh(b).responseQueued = FALSE /\ Fresh(b).closeFlag = FALSE
         /\ \A t : More(Fresh(b), t) = Fresh(b \o t)
<1>1. << >> \in Seq(Unit) BY EmptySeq
<1>2. 0 \in 0 .. SizeMax BY SizeAssumption
<1>3. NewClient \in Client BY <1>1, <1>2 DEF NewClient, Client
<1>4. Fresh(b) \in Client BY <1>3 DEF Fresh, Client
<1>5. /\ Fresh(b).inBuff = b /\ Fresh(b).headersDone = FALSE /\ Fresh(b).parsePos = 0
      /\ Fresh(b).consumedBytes = 0
      /\ Fresh(b).responseQueued = FALSE /\ Fresh(b).closeFlag = FALSE
  BY DEF Fresh, NewClient
<1>6. Within(Fresh(b)) BY <1>4, <1>5, LenProperties DEF Within
<1>7. ASSUME NEW t PROVE More(Fresh(b), t) = Fresh(b \o t) BY DEF Fresh, NewClient, More
<1> QED BY <1>4, <1>5, <1>6, <1>7

(* The headers of a buffer, as framing sees them. *)
Marked(d, end) == [d EXCEPT !.headersDone = TRUE, !.parsePos = end + 4]
WithFrame(d, h) == [d EXCEPT !.isChunked = h.chunked, !.contentLength = h.framed]

(* Only the part of the buffer before the end of the headers counts.       *)
HeadIn(block) ==
  LET text == {i \in DOMAIN block : block[i] \notin ToSet(Eol)}
  IN IF \E i \in text : text = {i} /\ block[i] \in DOMAIN Heads
     THEN Heads[block[CHOOSE i \in text : TRUE]] ELSE NotAHead

LEMMA HeadIs ==
  ASSUME NEW d PROVE HeadOf(d) = HeadIn(SubSeq(d.inBuff, 1, HeadEnd(d)))
BY Zenon DEF HeadOf, HeadIn

LEMMA HeadFramed ==
  ASSUME NEW block PROVE HeadIn(block).framed \in Nat /\ HeadIn(block).chunked \in BOOLEAN
<1>1. NotAHead.framed = 0 /\ NotAHead.chunked = FALSE BY DEF NotAHead
<1> DEFINE text == {i \in DOMAIN block : block[i] \notin ToSet(Eol)}
<1>2. HeadIn(block) = NotAHead \/ \E h \in DOMAIN Heads : HeadIn(block) = Heads[h]
  <2>1. CASE \E i \in text : text = {i} /\ block[i] \in DOMAIN Heads
    <3>1. PICK i \in text : text = {i} /\ block[i] \in DOMAIN Heads BY <2>1
    <3>2. (CHOOSE j \in text : TRUE) = i BY <3>1
    <3>3. HeadIn(block) = Heads[block[CHOOSE j \in text : TRUE]] BY <2>1, Zenon DEF HeadIn
    <3> QED BY <3>1, <3>2, <3>3, Zenon
  <2>2. CASE ~ \E i \in text : text = {i} /\ block[i] \in DOMAIN Heads BY <2>2, Zenon DEF HeadIn
  <2> QED BY <2>1, <2>2
<1>3. \A h \in DOMAIN Heads : Heads[h].framed \in Nat BY HeadAssumption
<1>4. \A h \in DOMAIN Heads : Heads[h].chunked \in BOOLEAN BY HeadAssumption, Zenon
<1>5. HeadIn(block).framed \in Nat BY <1>1, <1>2, <1>3
<1>6. HeadIn(block).chunked \in BOOLEAN BY <1>1, <1>2, <1>4, Zenon
<1> QED BY <1>5, <1>6

LEMMA FramedIs ==
  ASSUME NEW b \in Seq(Unit), NEW end, end = HeadEnd(Fresh(b))
  PROVE  Framed(Fresh(b)) = IF end = NPos THEN Fresh(b)
                            ELSE WithFrame(Marked(Fresh(b), end), HeadIn(SubSeq(b, 1, end)))
<1>1. Fresh(b).headersDone = FALSE /\ Fresh(b) \in Client /\ Fresh(b).inBuff = b BY FreshFields
<1>2. Framed(Fresh(b)) = detectBodyFraming(findHeadersEndAndMark(Fresh(b))) BY <1>1 DEF Framed
<1>3. CASE end = NPos
  <2>1. findHeadersEndAndMark(Fresh(b)) = Fresh(b) BY <1>3 DEF findHeadersEndAndMark
  <2>2. detectBodyFraming(Fresh(b)) = Fresh(b) BY <1>1 DEF detectBodyFraming
  <2> QED BY <1>2, <1>3, <2>1, <2>2
<1>4. CASE end # NPos
  <2>1. PICK m : m = Marked(Fresh(b), end) OBVIOUS
  <2>2. findHeadersEndAndMark(Fresh(b)) = m BY <1>4, <2>1, Zenon DEF findHeadersEndAndMark, Marked
  <2>3. m.headersDone = TRUE /\ m.inBuff = b BY <1>1, <2>1 DEF Marked, Client
  <2>4. HeadOf(m) = HeadIn(SubSeq(b, 1, end))
    <3>1. HeadEnd(m) = end BY <1>1, <2>3 DEF HeadEnd
    <3> QED BY <2>3, <3>1, HeadIs
  <2>5. detectBodyFraming(m) = WithFrame(m, HeadIn(SubSeq(b, 1, end)))
    BY <2>3, <2>4, Zenon DEF detectBodyFraming, WithFrame
  <2> QED BY <1>2, <1>4, <2>1, <2>2, <2>5
<1> QED BY <1>3, <1>4

FramedAs(f, b, end, h) ==
  /\ f \in Client /\ f.inBuff = b /\ f.headersDone = TRUE /\ f.parsePos = end + 4
  /\ f.consumedBytes = 0 /\ f.responseQueued = FALSE /\ f.closeFlag = FALSE
  /\ \A t : WithFrame(Marked(More(Fresh(b), t), end), h) = More(f, t)

LEMMA WithFrameFields ==
  ASSUME NEW b \in Seq(Unit), NEW end \in Nat, NEW h, h.framed \in Nat, h.chunked \in BOOLEAN
  PROVE  FramedAs(WithFrame(Marked(Fresh(b), end), h), b, end, h)
<1> DEFINE f == WithFrame(Marked(Fresh(b), end), h)
<1>1. PICK g : g = Fresh(b) OBVIOUS
<1>2. /\ g \in Client /\ g.inBuff = b /\ g.consumedBytes = 0
      /\ g.responseQueued = FALSE /\ g.closeFlag = FALSE
  BY <1>1, FreshFields
<1>3. end + 4 \in Nat /\ h.chunked \in BOOLEAN OBVIOUS
<1>4. PICK te : te = h.chunked OBVIOUS
<1>5. PICK n : n = h.framed OBVIOUS
<1>6. f = [g EXCEPT !.headersDone = TRUE, !.parsePos = end + 4, !.isChunked = te, !.contentLength = n]
  BY <1>1, <1>2, <1>4, <1>5 DEF WithFrame, Marked, Client
<1>7. f \in Client BY <1>2, <1>3, <1>4, <1>5, <1>6 DEF Client
<1>8. /\ f.inBuff = b /\ f.headersDone = TRUE /\ f.parsePos = end + 4
      /\ f.consumedBytes = 0 /\ f.responseQueued = FALSE /\ f.closeFlag = FALSE
  BY <1>2, <1>6 DEF Client
<1>9. ASSUME NEW t PROVE WithFrame(Marked(More(g, t), end), h) = More(f, t)
  BY <1>2, <1>4, <1>5, <1>6 DEF WithFrame, Marked, More, Client
<1> HIDE DEF f
<1>10. FramedAs(f, b, end, h) BY <1>1, <1>7, <1>8, <1>9 DEF FramedAs
<1> QED BY <1>10 DEF f

(* The framed client has its position behind the headers, and more bytes   *)
(* do not move it.                                                         *)
LEMMA FramedOK ==
  ASSUME NEW b \in Seq(Unit), NEW f, f = Framed(Fresh(b)), f # Fresh(b)
  PROVE  /\ Within(f) /\ f.inBuff = b /\ f.headersDone = TRUE /\ f.consumedBytes = 0
         /\ f.responseQueued = FALSE /\ f.closeFlag = FALSE
         /\ \A t \in Seq(Unit) : Framed(Fresh(b \o t)) = More(f, t)
<1>1. PICK end : end = HeadEnd(Fresh(b)) OBVIOUS
<1>2. PICK h : h = HeadIn(SubSeq(b, 1, end)) OBVIOUS
<1>3. end # NPos /\ f = WithFrame(Marked(Fresh(b), end), h) BY <1>1, <1>2, FramedIs
<1>4. end = Find(b, Eol \o Eol, 0) BY <1>1, FreshFields DEF HeadEnd
<1>5. PICK p \in Seq(Unit) : p = Eol \o Eol /\ Len(p) = 4 BY Patterns
<1>6. 0 \in Nat /\ Len(b) \in Nat BY LenProperties
<1>7. end \in Nat /\ end + 4 <= Len(b)
  <2>1. end = Find(b, p, 0) BY <1>4, <1>5
  <2>2. FoundAt(b, p, 0, end) BY <1>3, <1>6, <2>1, FindFinds
  <2>3. end \in Nat /\ end + Len(p) <= Len(b) BY <2>2 DEF FoundAt
  <2>4. Len(p) = 4 BY <1>5
  <2> QED BY <2>3, <2>4
<1>8. h.framed \in Nat /\ h.chunked \in BOOLEAN BY <1>2, HeadFramed
<1>9. /\ f \in Client /\ f.inBuff = b /\ f.headersDone = TRUE /\ f.parsePos = end + 4
      /\ f.consumedBytes = 0 /\ f.responseQueued = FALSE /\ f.closeFlag = FALSE
      /\ \A v : WithFrame(Marked(More(Fresh(b), v), end), h) = More(f, v)
  <2>1. end \in Nat BY <1>7
  <2>2. FramedAs(WithFrame(Marked(Fresh(b), end), h), b, end, h)
    BY <1>8, <2>1, WithFrameFields, Zenon
  <2>3. FramedAs(f, b, end, h) BY <1>3, <2>2, Zenon
  <2> QED BY <2>3 DEF FramedAs
<1>10. Within(f) BY <1>7, <1>9 DEF Within
<1>11. ASSUME NEW t \in Seq(Unit) PROVE Framed(Fresh(b \o t)) = More(f, t)
  <2>1. PICK u \in Seq(Unit) : u = b \o t BY Joined
  <2>2. HeadEnd(Fresh(u)) = end
    <3>1. Find(b, p, 0) = end /\ end # NPos BY <1>3, <1>4, <1>5
    <3>2. Find(b \o t, p, 0) = end BY <1>6, <3>1, FindStays
    <3> QED BY <1>5, <2>1, <3>2, FreshFields DEF HeadEnd
  <2>3. SubSeq(u, 1, end) = SubSeq(b, 1, end)
    <3>1. PICK one \in Nat \ {0}, n \in Int : one = 1 /\ n = end /\ n <= Len(b) BY <1>6, <1>7
    <3>2. SubSeq(b \o t, one, n) = SubSeq(b, one, n) BY <3>1, PieceStays
    <3> QED BY <2>1, <3>1, <3>2
  <2>4. Framed(Fresh(u)) = WithFrame(Marked(Fresh(u), end), h) BY <1>2, <1>3, <2>2, <2>3, FramedIs
  <2>5. Fresh(u) = More(Fresh(b), t) BY <2>1, FreshFields
  <2> QED BY <1>9, <2>1, <2>4, <2>5
<1> QED BY <1>9, <1>10, <1>11

WithBody(d, body, n) == [d EXCEPT !.bodyBuf = body, !.consumedBytes = n]

LEMMA PlainBodyOK ==
  ASSUME NEW d, Within(d), d.consumedBytes = 0, NEW t \in Seq(Unit)
  PROVE  LET s == readPlainBody(d)
         IN /\ s = Step(s.client, s.r) /\ s.r \in {0, 1}
            /\ Within(s.client) /\ s.client.inBuff = d.inBuff
            /\ s.client.consumedBytes <= Len(d.inBuff)
            /\ Frame(s.client) = Frame(d)
            /\ Stays(s, readPlainBody(More(d, t)), readPlainBody(More(s.client, t)), t)
<1>1. d \in Client /\ d.inBuff \in Seq(Unit) /\ d.parsePos \in Nat /\ Len(d.inBuff) \in Nat
      /\ d.contentLength \in Nat /\ Len(t) \in Nat /\ d.parsePos <= Len(d.inBuff)
  BY Fields, LenProperties DEF Within
<1>2. CASE Unread(d) < d.contentLength
  <2>1. readPlainBody(d) = Step(d, 0) BY <1>2 DEF readPlainBody
  <2> QED BY <1>1, <2>1, StepIs DEF Stays
<1>3. CASE ~(Unread(d) < d.contentLength)
  <2>1. PICK n \in Nat : n = d.parsePos + d.contentLength BY <1>1
  <2>2. n <= Len(d.inBuff) BY <1>1, <1>3, <2>1 DEF Unread
  <2>3. PICK body : body = SubSeq(d.inBuff, d.parsePos + 1, n) OBVIOUS
  <2>4. d.parsePos + 1 \in Nat \ {0} BY <1>1
  <2>5. body \in Seq(Unit) BY <1>1, <2>2, <2>3, <2>4, Piece
  <2>6. PICK e : e = WithBody(d, body, n) OBVIOUS
  <2>7. readPlainBody(d) = Step(e, 1) BY <1>3, <2>1, <2>3, <2>6, Zenon DEF readPlainBody, WithBody
  <2>8. /\ e \in Client /\ e.inBuff = d.inBuff /\ e.parsePos = d.parsePos /\ e.consumedBytes = n
        /\ Frame(e) = Frame(d)
    BY <1>1, <2>5, <2>6 DEF WithBody, Client, Frame
  <2>9. Within(e) BY <1>1, <2>8 DEF Within
  <2>10. PICK u : u = More(d, t) OBVIOUS
  <2>11. /\ u.inBuff = d.inBuff \o t /\ u.parsePos = d.parsePos /\ u.contentLength = d.contentLength
         /\ Len(u.inBuff) = Len(d.inBuff) + Len(t)
    BY <1>1, <2>10, Arrival
  <2>12. ~(Unread(u) < u.contentLength) BY <1>1, <1>3, <2>11 DEF Unread
  <2>13. body = SubSeq(u.inBuff, u.parsePos + 1, n)
    <3>1. SubSeq(d.inBuff \o t, d.parsePos + 1, n) = body
      <4>1. PICK m \in Nat \ {0}, k \in Int : m = d.parsePos + 1 /\ k = n BY <2>4
      <4>2. PICK b \in Seq(Unit) : b = d.inBuff BY <1>1
      <4>3. k <= Len(b) BY <2>2, <4>1, <4>2
      <4>4. SubSeq(b \o t, m, k) = SubSeq(b, m, k) BY <4>3, PieceStays
      <4> QED BY <2>3, <4>1, <4>2, <4>4
    <3> QED BY <2>11, <3>1
  <2>14. readPlainBody(u) = Step(WithBody(u, body, n), 1)
    BY <2>1, <2>11, <2>12, <2>13, Zenon DEF readPlainBody, WithBody
  <2>15. WithBody(u, body, n) = More(e, t) BY <1>1, <2>6, <2>10 DEF WithBody, More, Client
  <2> QED BY <2>2, <2>7, <2>8, <2>9, <2>10, <2>14, <2>15, StepIs DEF Stays
<1> QED BY <1>2, <1>3

-----------------------------------------------------------------------------
(* What readOnce_ makes of the bytes it has.                               *)

Body(f) == IF f.isChunked THEN unchunkStep[f] ELSE readPlainBody(f)

LEMMA ProgressIs ==
  ASSUME NEW d, NEW f, f = Framed(d)
  PROVE  Progress(d) = IF ~f.headersDone THEN Step(f, 0) ELSE Body(f)
BY Zenon DEF Progress, Body

LEMMA BodyOK ==
  ASSUME NEW d, Within(d), d.consumedBytes = 0, NEW t \in Seq(Unit)
  PROVE  LET s == Body(d)
         IN /\ s = Step(s.client, s.r) /\ s.r \in {-1, 0, 1}
            /\ Within(s.client) /\ s.client.inBuff = d.inBuff
            /\ s.client.consumedBytes <= Len(d.inBuff)
            /\ Frame(s.client) = Frame(d)
            /\ Stays(s, Body(More(d, t)), Body(More(s.client, t)), t)
<1>1. d \in Client /\ Len(d.inBuff) \in Nat BY Fields DEF Within
<1>2. PICK s : s = Body(d) OBVIOUS
<1>3. More(d, t).isChunked = d.isChunked BY <1>1, Arrival
<1>4. CASE d.isChunked
  <2>1. s = unchunkStep[d] BY <1>2, <1>4 DEF Body
  <2>2. DecoderOK(d, s) BY <2>1, DecoderReturns
  <2>3. Stays(s, unchunkStep[More(d, t)], unchunkStep[More(s.client, t)], t) BY <2>1, DecoderStays
  <2>4. /\ s = Step(s.client, s.r) /\ s.r \in {-1, 0, 1} /\ Within(s.client)
        /\ s.client.inBuff = d.inBuff /\ Frame(s.client) = Frame(d)
        /\ s.client.consumedBytes = IF s.r = 1 THEN s.client.parsePos ELSE d.consumedBytes
    BY <2>2 DEF DecoderOK
  <2>5. s.client.consumedBytes <= Len(d.inBuff) BY <1>1, <2>4 DEF Within
  <2>6. s.client.isChunked BY <1>4, <2>4 DEF Frame
  <2>7. More(s.client, t).isChunked BY <2>4, <2>6, Arrival DEF Within
  <2>8. Body(More(d, t)) = unchunkStep[More(d, t)] /\ Body(More(s.client, t)) = unchunkStep[More(s.client, t)]
    BY <1>3, <1>4, <2>7 DEF Body
  <2> QED BY <1>2, <2>3, <2>4, <2>5, <2>8
<1>5. CASE ~d.isChunked
  <2>1. s = readPlainBody(d) BY <1>2, <1>5 DEF Body
  <2>2. /\ s = Step(s.client, s.r) /\ s.r \in {0, 1} /\ Within(s.client)
        /\ s.client.inBuff = d.inBuff /\ Frame(s.client) = Frame(d)
        /\ s.client.consumedBytes <= Len(d.inBuff)
        /\ Stays(s, readPlainBody(More(d, t)), readPlainBody(More(s.client, t)), t)
    BY <2>1, PlainBodyOK
  <2>3. ~s.client.isChunked BY <1>5, <2>2 DEF Frame
  <2>4. ~More(s.client, t).isChunked BY <2>2, <2>3, Arrival DEF Within
  <2>5. Body(More(d, t)) = readPlainBody(More(d, t)) /\ Body(More(s.client, t)) = readPlainBody(More(s.client, t))
    BY <1>3, <1>5, <2>4 DEF Body
  <2> QED BY <1>2, <2>2, <2>5
<1> QED BY <1>4, <1>5

(* Of a new request: it waits as it is, or for the rest of its body, or is *)
(* over; what is taken from the buffer is in the buffer.                   *)
ProgressOK(b, s) ==
  /\ s = Step(s.client, s.r) /\ s.r \in {-1, 0, 1}
  /\ Within(s.client) /\ s.client.inBuff = b
  /\ s.client.consumedBytes <= Len(b)
  /\ s.client.responseQueued = FALSE /\ s.client.closeFlag = FALSE
  /\ s.client.headersDone \/ s = Step(Fresh(b), 0)

LEMMA ProgressReturns ==
  ASSUME NEW b \in Seq(Unit)
  PROVE  /\ ProgressOK(b, Progress(Fresh(b)))
         /\ \A t \in Seq(Unit) :
              Stays(Progress(Fresh(b)), Progress(Fresh(b \o t)), Progress(More(Progress(Fresh(b)).client, t)), t)
<1>1. PICK f : f = Framed(Fresh(b)) OBVIOUS
<1>2. PICK s : s = Progress(Fresh(b)) OBVIOUS
<1>3. CASE f = Fresh(b)
  <2>1. s = Step(Fresh(b), 0)
    <3>1. ~f.headersDone BY <1>3, FreshFields
    <3> QED BY <1>1, <1>2, <1>3, <3>1, ProgressIs
  <2>2. s.client = Fresh(b) /\ s.r = 0 BY <2>1, StepIs
  <2>3. ProgressOK(b, s)
    <3>1. Len(b) \in Nat BY LenProperties
    <3>2. PICK d : d = Fresh(b) OBVIOUS
    <3>3. /\ Within(d) /\ d.inBuff = b /\ d.consumedBytes = 0
          /\ d.responseQueued = FALSE /\ d.closeFlag = FALSE
      BY <3>2, FreshFields
    <3>4. s = Step(d, 0) /\ s.client = d /\ s.r = 0 BY <2>1, <2>2, <3>2
    <3> QED BY <3>1, <3>2, <3>3, <3>4 DEF ProgressOK
  <2>4. ASSUME NEW t \in Seq(Unit) PROVE Stays(s, Progress(Fresh(b \o t)), Progress(More(s.client, t)), t)
    <3>1. More(s.client, t) = Fresh(b \o t) BY <2>2, FreshFields
    <3> QED BY <2>2, <3>1 DEF Stays
  <2> QED BY <1>2, <2>3, <2>4
<1>4. CASE f # Fresh(b)
  <2>1. /\ Within(f) /\ f.inBuff = b /\ f.headersDone = TRUE /\ f.consumedBytes = 0
        /\ f.responseQueued = FALSE /\ f.closeFlag = FALSE
    BY <1>1, <1>4, FramedOK
  <2>2. s = Body(f) BY <1>1, <1>2, <2>1, ProgressIs
  <2>3. /\ s = Step(s.client, s.r) /\ s.r \in {-1, 0, 1}
        /\ Within(s.client) /\ s.client.inBuff = b
        /\ s.client.consumedBytes <= Len(b)
        /\ Frame(s.client) = Frame(f)
    <3>1. << >> \in Seq(Unit) BY EmptySeq
    <3> QED BY <2>1, <2>2, <3>1, BodyOK
  <2>4. s.client.headersDone = TRUE /\ s.client.responseQueued = FALSE /\ s.client.closeFlag = FALSE
    BY <2>1, <2>3 DEF Frame
  <2>5. ProgressOK(b, s) BY <2>3, <2>4 DEF ProgressOK
  <2>6. ASSUME NEW t \in Seq(Unit) PROVE Stays(s, Progress(Fresh(b \o t)), Progress(More(s.client, t)), t)
    <3>1. Stays(s, Body(More(f, t)), Body(More(s.client, t)), t) BY <2>1, <2>2, BodyOK
    <3>2. Framed(Fresh(b \o t)) = More(f, t) BY <1>1, <1>4, FramedOK
    <3>3. More(f, t).headersDone = TRUE BY <2>1, Arrival DEF Within
    <3>4. Progress(Fresh(b \o t)) = Body(More(f, t)) BY <3>2, <3>3, ProgressIs
    <3>5. PICK g : g = More(s.client, t) OBVIOUS
    <3>6. g.headersDone = TRUE BY <2>3, <2>4, <3>5, Arrival DEF Within
    <3>7. Framed(g) = g BY <3>6 DEF Framed
    <3>8. Progress(g) = Body(g) BY <3>6, <3>7, ProgressIs
    <3> QED BY <3>1, <3>4, <3>5, <3>8
  <2> QED BY <1>2, <2>5, <2>6
<1> QED BY <1>3, <1>4

-----------------------------------------------------------------------------
(* The stream of a client                                                  *)

LEMMA MessageBytes ==
  ASSUME NEW m \in Messages
  PROVE  Bytes(m) \in Seq(Unit) /\ Len(Bytes(m)) \in Nat /\ Len(Bytes(m)) >= 5
<1>1. m.head \in Unit /\ m.units \in Seq(Unit) BY DEF Messages, Unit
<1>2. PICK h \in Seq(Unit) : h = <<m.head>> /\ Len(h) = 1
  <2>1. PICK e \in Unit : e = m.head BY <1>1
  <2>2. <<e>> \in Seq(Unit) /\ Len(<<e>>) = 1 OBVIOUS
  <2> QED BY <2>1, <2>2
<1>3. PICK e \in Seq(Unit) : e = Eol /\ Len(e) = 2 BY Patterns
<1>4. PICK u \in Seq(Unit) : u = m.units BY <1>1
<1>5. PICK x \in Seq(Unit) : x = h \o e /\ Len(x) = Len(h) + Len(e) BY Joined
<1>6. PICK y \in Seq(Unit) : y = x \o e /\ Len(y) = Len(x) + Len(e) BY Joined
<1>7. PICK z \in Seq(Unit) : z = y \o u /\ Len(z) = Len(y) + Len(u) BY Joined
<1>8. Bytes(m) = z BY <1>2, <1>3, <1>4, <1>5, <1>6, <1>7 DEF Bytes
<1>9. Len(u) \in Nat /\ Len(z) = 5 + Len(u)
  <2>1. Len(h) = 1 /\ Len(e) = 2 BY <1>2, <1>3
  <2>2. Len(u) \in Nat BY LenProperties
  <2>3. Len(x) = 3 BY <1>5, <2>1
  <2>4. Len(y) = 5 BY <1>6, <2>1, <2>3
  <2> QED BY <1>7, <2>2, <2>4
<1> QED BY <1>8, <1>9

LEMMA StreamTyped ==
  ASSUME NEW w \in Seq(Messages) PROVE Stream(w) \in Seq(Unit)
<1> DEFINE seqs == [i \in DOMAIN w |-> Bytes(w[i])]
<1>1. Len(w) \in Nat /\ DOMAIN w = 1 .. Len(w) /\ \A i \in 1 .. Len(w) : w[i] \in Messages
  BY LenProperties, ElementOfSeq
<1>2. \A i \in 1 .. Len(w) : seqs[i] \in Seq(Unit) BY <1>1, MessageBytes
<1>3. seqs \in Seq(Seq(Unit)) /\ Len(seqs) = Len(w)
  <2>1. DOMAIN seqs = 1 .. Len(w) BY <1>1
  <2> QED BY <1>1, <1>2, <2>1
<1>4. Stream(w) = FlattenSeq(seqs) BY DEF Stream
<1> HIDE DEF seqs
<1>5. CASE Len(w) = 0
  <2>1. seqs = << >> BY <1>3, <1>5
  <2>2. FlattenSeq(seqs) = seqs BY <1>3, <1>5, Zenon DEF FlattenSeq
  <2> QED BY <1>4, <2>1, <2>2, EmptySeq
<1>6. CASE Len(w) # 0
  <2>1. PICK g : /\ FlattenSeq(seqs) = g[Len(seqs)] /\ g[1] = seqs[1]
                 /\ \A i \in 1 .. Len(seqs) - 1 : g[i + 1] = g[i] \o seqs[i + 1]
    BY <1>1, <1>3, <1>6, FlattenedBySteps
  <2> DEFINE S == {m \in Nat : m >= 1 /\ (m <= Len(w) => g[m] \in Seq(Unit))}
  <2>2. 1 \in S BY <1>1, <1>2, <1>6, <2>1
  <2>3. ASSUME NEW m \in Nat, m >= 1, m \in S PROVE m + 1 \in S
    <3> SUFFICES ASSUME m + 1 <= Len(w) PROVE g[m + 1] \in Seq(Unit) OBVIOUS
    <3>1. m \in 1 .. Len(seqs) - 1 /\ m + 1 \in 1 .. Len(w) /\ g[m] \in Seq(Unit) BY <1>1, <1>3, <2>3
    <3>2. g[m + 1] = g[m] \o seqs[m + 1] BY <2>1, <3>1
    <3>3. PICK x \in Seq(Unit), y \in Seq(Unit) : x = g[m] /\ y = seqs[m + 1] BY <1>2, <3>1
    <3>4. x \o y \in Seq(Unit) BY Joined
    <3> QED BY <3>2, <3>3, <3>4
  <2> HIDE DEF S
  <2>4. \A m \in Nat : m >= 1 => m \in S BY <2>2, <2>3, Induction
  <2>5. Len(w) \in S BY <1>1, <1>6, <2>4
  <2>6. g[Len(w)] \in Seq(Unit) BY <1>1, <2>5 DEF S
  <2> QED BY <1>3, <1>4, <2>1, <2>6
<1> QED BY <1>5, <1>6

-----------------------------------------------------------------------------
(* The state of the connection.  What is in the buffer is the stream from  *)
(* where the last request ended to where recv() has come; and a request    *)
(* that waits is where the decoder would be had it seen all of the buffer  *)
(* at once, or not looked at since the last one ended.                     *)

Buffered ==
  /\ wire \in Seq(Messages)
  /\ erased \in Nat /\ arrived \in Nat /\ erased <= arrived /\ arrived <= Len(Stream(wire))
  /\ c.inBuff = SubSeq(Stream(wire), erased + 1, arrived)

Resumable == up /\ ~c.responseQueued => c = Fresh(c.inBuff) \/ InOnePiece(c.inBuff) = Step(c, 0)

Inv ==
  /\ up \in BOOLEAN /\ open \in BOOLEAN
  /\ Within(c) /\ c.consumedBytes <= Len(c.inBuff)
  /\ Buffered
  /\ Resumable

LEMMA OnePieceIs == ASSUME NEW b PROVE InOnePiece(b) = Progress(Fresh(b))
BY DEF InOnePiece, Fresh

(* The pieces of the stream. *)
LEMMA StreamPiece ==
  ASSUME NEW s \in Seq(Unit), NEW m \in Nat, NEW n \in Nat, m <= n, n <= Len(s)
  PROVE  /\ SubSeq(s, m + 1, n) \in Seq(Unit)
         /\ Len(SubSeq(s, m + 1, n)) = n - m
         /\ \A i \in 1 .. n - m : SubSeq(s, m + 1, n)[i] = s[m + i]
<1>1. PICK k \in Nat \ {0} : k = m + 1 OBVIOUS
<1>2. PICK e \in Int : e = n OBVIOUS
<1>3. PICK t : t = SubSeq(s, k, e) OBVIOUS
<1>4. /\ t \in Seq(Unit) /\ Len(t) = IF k <= e THEN e - k + 1 ELSE 0
      /\ \A i \in 1 .. e - k + 1 : t[i] = s[k + i - 1]
  BY <1>2, <1>3, Piece
<1>5. Len(t) = n - m BY <1>1, <1>2, <1>4
<1>6. ASSUME NEW i \in 1 .. n - m PROVE t[i] = s[m + i]
  <2>1. i \in 1 .. e - k + 1 /\ k + i - 1 = m + i BY <1>1, <1>2
  <2> QED BY <1>4, <2>1
<1> QED BY <1>1, <1>2, <1>3, <1>4, <1>5, <1>6

LEMMA PieceOfPiece ==
  ASSUME NEW s \in Seq(Unit), NEW m \in Nat, NEW n \in Nat, m <= n, n <= Len(s),
         NEW k \in Nat, k <= n - m
  PROVE  SubSeq(SubSeq(s, m + 1, n), k + 1, n - m) = SubSeq(s, m + k + 1, n)
<1>1. PICK t : t = SubSeq(s, m + 1, n) OBVIOUS
<1>2. t \in Seq(Unit) /\ Len(t) = n - m /\ \A i \in 1 .. n - m : t[i] = s[m + i] BY <1>1, StreamPiece
<1>3. PICK e \in Nat : e = n - m OBVIOUS
<1>4. PICK u : u = SubSeq(t, k + 1, e) OBVIOUS
<1>5. u \in Seq(Unit) /\ Len(u) = e - k /\ \A i \in 1 .. e - k : u[i] = t[k + i]
  <2>1. e <= Len(t) /\ k <= e BY <1>2, <1>3
  <2> QED BY <1>2, <1>4, <2>1, StreamPiece
<1>6. PICK j \in Nat : j = m + k OBVIOUS
<1>7. PICK v : v = SubSeq(s, j + 1, n) OBVIOUS
<1>8. v \in Seq(Unit) /\ Len(v) = n - j /\ \A i \in 1 .. n - j : v[i] = s[j + i]
  <2>1. j <= n BY <1>6
  <2> QED BY <1>7, <2>1, StreamPiece
<1>9. Len(u) = Len(v) BY <1>3, <1>5, <1>6, <1>8
<1>10. ASSUME NEW i \in 1 .. Len(u) PROVE u[i] = v[i]
  <2>1. i \in 1 .. e - k /\ k + i \in 1 .. n - m /\ i \in 1 .. n - j /\ m + (k + i) = j + i
    BY <1>3, <1>5, <1>6
  <2> QED BY <1>2, <1>5, <1>8, <2>1
<1>11. u = v BY <1>5, <1>8, <1>9, <1>10, SeqEqual
<1> QED BY <1>1, <1>3, <1>4, <1>6, <1>7, <1>11

LEMMA InitSound == ASSUME Init PROVE Inv
<1>1. wire \in Seq(Messages) BY WireAssumption DEF Init
<1>2. Stream(wire) \in Seq(Unit) BY <1>1, StreamTyped
<1>3. c = Fresh(<< >>)
  <2>1. NewClient.inBuff = << >> BY DEF NewClient
  <2> QED BY DEF Init, Fresh, NewClient
<1>4. << >> \in Seq(Unit) BY EmptySeq
<1>5. Within(c) /\ c.inBuff = << >> /\ c.consumedBytes = 0 BY <1>3, <1>4, FreshFields
<1>6. SubSeq(Stream(wire), 0 + 1, 0) = << >>
  <2>1. PICK m \in Int, n \in Int : m = 0 + 1 /\ n = 0 /\ n < m OBVIOUS
  <2>2. SubSeq(Stream(wire), m, n) = << >> BY <2>1, SubSeqEmpty
  <2> QED BY <2>1, <2>2
<1>7. Len(Stream(wire)) \in Nat BY <1>2, LenProperties
<1>8. Buffered BY <1>1, <1>5, <1>6, <1>7 DEF Buffered, Init
<1>9. c.consumedBytes <= Len(c.inBuff) BY <1>4, <1>5, EmptySeq
<1> QED BY <1>3, <1>5, <1>8, <1>9 DEF Inv, Init, Resumable

(* recv() has returned something. *)
Extended(d, k) ==
  /\ Within(d) /\ d.consumedBytes <= Len(d.inBuff)
  /\ k \in Nat /\ arrived <= k /\ erased <= k /\ k <= Len(Stream(wire))
  /\ d.inBuff = SubSeq(Stream(wire), erased + 1, k)
  /\ d.consumedBytes = c.consumedBytes /\ Frame(d) = Frame(c)
  /\ up /\ ~c.responseQueued => Progress(d) = InOnePiece(d.inBuff)

LEMMA Received ==
  ASSUME Inv, NEW n \in 1 .. Len(Stream(wire)) - arrived
  PROVE  Extended([c EXCEPT !.inBuff = @ \o SubSeq(Stream(wire), arrived + 1, arrived + n)], arrived + n)
<1> DEFINE s == Stream(wire)
<1>1. s \in Seq(Unit) BY StreamTyped DEF Inv, Buffered
<1>2. /\ erased \in Nat /\ arrived \in Nat /\ erased <= arrived /\ arrived <= Len(s)
      /\ c.inBuff = SubSeq(s, erased + 1, arrived)
  BY DEF Inv, Buffered
<1> HIDE DEF s
<1>3. Len(s) \in Nat BY <1>1, LenProperties
<1>4. PICK k \in Nat : k = arrived + n /\ arrived <= k /\ k <= Len(s) BY <1>2, <1>3 DEF s
<1>5. PICK t : t = SubSeq(s, arrived + 1, k) OBVIOUS
<1>6. t \in Seq(Unit) BY <1>1, <1>2, <1>4, <1>5, StreamPiece
<1>7. PICK d : d = More(c, t) OBVIOUS
<1>8. c \in Client /\ Within(c) /\ c.consumedBytes <= Len(c.inBuff) /\ c.consumedBytes \in Nat
      /\ c.inBuff \in Seq(Unit) /\ Len(c.inBuff) \in Nat
  BY Fields DEF Inv, Within
<1>9. /\ Within(d) /\ d.consumedBytes = c.consumedBytes /\ Len(d.inBuff) = Len(c.inBuff) + Len(t)
      /\ d.inBuff = c.inBuff \o t
  BY <1>6, <1>7, <1>8, Arrival
<1>10. d.consumedBytes <= Len(d.inBuff)
  <2>1. Len(t) \in Nat BY <1>6, LenProperties
  <2>2. Len(d.inBuff) = Len(c.inBuff) + Len(t) /\ d.consumedBytes = c.consumedBytes BY <1>9
  <2>3. c.consumedBytes <= Len(c.inBuff) /\ Len(c.inBuff) \in Nat /\ c.consumedBytes \in Nat BY <1>8
  <2> QED BY <2>1, <2>2, <2>3
<1>11. d.inBuff = SubSeq(s, erased + 1, k)
  <2>1. SubSeq(s, erased + 1, arrived) \o SubSeq(s, arrived + 1, k) = SubSeq(s, erased + 1, k)
    BY <1>1, <1>2, <1>4, PiecesJoin
  <2> QED BY <1>2, <1>5, <1>9, <2>1
<1>12. ASSUME up, ~c.responseQueued PROVE Progress(d) = InOnePiece(d.inBuff)
  <2>1. c = Fresh(c.inBuff) \/ Progress(Fresh(c.inBuff)) = Step(c, 0)
    BY <1>12, OnePieceIs DEF Inv, Resumable
  <2>2. CASE c = Fresh(c.inBuff)
    <3>1. More(Fresh(c.inBuff), t) = Fresh(c.inBuff \o t) BY <1>8, FreshFields
    <3> QED BY <1>7, <1>9, <2>2, <3>1, OnePieceIs
  <2>3. CASE Progress(Fresh(c.inBuff)) = Step(c, 0)
    <3>1. PICK p : p = Progress(Fresh(c.inBuff)) OBVIOUS
    <3>2. Stays(p, Progress(Fresh(c.inBuff \o t)), Progress(More(p.client, t)), t)
      BY <1>6, <1>8, <3>1, ProgressReturns
    <3>3. p.client = c /\ p.r = 0 BY <2>3, <3>1, StepIs
    <3> QED BY <1>7, <1>9, <3>2, <3>3, OnePieceIs DEF Stays
  <2> QED BY <2>1, <2>2, <2>3
<1>13. Frame(d) = Frame(c) BY <1>7, <1>8, FrameKept
<1>14. erased <= k BY <1>2, <1>4
<1>15. Extended(d, k) BY <1>4, <1>9, <1>10, <1>11, <1>12, <1>13, <1>14 DEF Extended, s
<1>16. d = [c EXCEPT !.inBuff = @ \o SubSeq(Stream(wire), arrived + 1, arrived + n)]
  BY <1>4, <1>5, <1>7, Zenon DEF More, s
<1> QED BY <1>4, <1>15, <1>16, Zenon

Queued(d, close) == [d EXCEPT !.responseQueued = TRUE, !.closeFlag = close]

LEMMA QueuedFields ==
  ASSUME NEW d, Within(d), NEW close \in BOOLEAN
  PROVE  /\ Within(Queued(d, close)) /\ Queued(d, close).inBuff = d.inBuff
         /\ Queued(d, close).consumedBytes = d.consumedBytes
         /\ Queued(d, close).responseQueued = TRUE /\ Queued(d, close).closeFlag = close
BY DEF Within, Queued, Client

(* What a call of readOnce_ with new bytes does: nothing but take them in, *)
(* or what the decoder makes of all that is in the buffer, and the answer  *)
(* if the request is over.                                                 *)
ReadEffect(d) ==
  \/ c.responseQueued /\ c' = d /\ UNCHANGED <<up, answers>>
  \/ /\ ~c.responseQueued
     /\ \E s : /\ s = InOnePiece(d.inBuff) /\ ProgressOK(d.inBuff, s)
               /\ \/ s.r = 0 /\ c' = s.client /\ UNCHANGED <<up, answers>>
                  \/ s.r # 0 /\ up' = FALSE /\ c' = s.client /\ UNCHANGED answers
                  \/ /\ s.r # 0 /\ up' = up
                     /\ \E close \in BOOLEAN : c' = Queued(s.client, close) /\ (s.r = -1 => close)
                     /\ Queue(s)

LEMMA ReadDoes ==
  ASSUME Inv, up, NEW d, NEW k, Extended(d, k), Receives(d)
  PROVE  ReadEffect(d)
<1>1. d \in Client /\ Frame(d) = Frame(c) BY DEF Extended, Within
<1>2. d.responseQueued = c.responseQueued BY <1>1 DEF Frame
<1>3. CASE d.responseQueued
  <2>1. c' = d /\ UNCHANGED <<up, answers>> BY <1>3 DEF Receives
  <2> QED BY <1>2, <1>3, <2>1 DEF ReadEffect
<1>4. CASE ~d.responseQueued
  <2>1. PICK s : s = Progress(d) OBVIOUS
  <2>2. s = InOnePiece(d.inBuff) BY <1>2, <1>4, <2>1 DEF Extended
  <2>3. ProgressOK(d.inBuff, s) BY <1>1, <2>2, Fields, ProgressReturns, OnePieceIs
  <2>4. IF s.r = 0 THEN c' = s.client /\ UNCHANGED <<up, answers>>
        ELSE IF s.client.isChunked THEN QueueChunked(s) ELSE Queue(s) /\ UNCHANGED up
    BY <1>4, <2>1, Zenon DEF Receives
  <2>5. ASSUME Queue(s) PROVE \E close \in BOOLEAN : c' = Queued(s.client, close) /\ (s.r = -1 => close)
    <3>1. PICK code : c' = Queued(s.client, Closes(s.client, s.r, code))
      BY <2>5, Zenon DEF Queue, Queued
    <3>2. Closes(s.client, s.r, code) \in BOOLEAN /\ (s.r = -1 => Closes(s.client, s.r, code))
      BY DEF Closes
    <3> QED BY <3>1, <3>2
  <2>6. CASE s.r = 0 BY <1>2, <1>4, <2>2, <2>3, <2>4, <2>6 DEF ReadEffect
  <2>7. CASE s.r # 0 /\ Queue(s) /\ up' = up BY <1>2, <1>4, <2>2, <2>3, <2>5, <2>7 DEF ReadEffect
  <2>8. CASE s.r # 0 /\ up' = FALSE /\ c' = s.client /\ UNCHANGED answers
    BY <1>2, <1>4, <2>2, <2>3, <2>8 DEF ReadEffect
  <2>9. s.r # 0 => \/ Queue(s) /\ up' = up
                   \/ up' = FALSE /\ c' = s.client /\ UNCHANGED answers
    BY <2>4, Zenon DEF QueueChunked
  <2> QED BY <2>6, <2>7, <2>8, <2>9
<1> QED BY <1>3, <1>4

LEMMA ReadKeepsSound ==
  ASSUME Inv, readOnce PROVE Inv'
<1>1. PICK n \in 1 .. Len(Stream(wire)) - arrived :
        /\ arrived' = arrived + n
        /\ Receives([c EXCEPT !.inBuff = @ \o SubSeq(Stream(wire), arrived + 1, arrived + n)])
  BY DEF readOnce
<1>2. PICK d : d = [c EXCEPT !.inBuff = @ \o SubSeq(Stream(wire), arrived + 1, arrived + n)] OBVIOUS
<1>3. up /\ open /\ open' = open /\ wire' = wire /\ erased' = erased BY DEF readOnce
<1>4. Extended(d, arrived') BY <1>1, <1>2, Received, Zenon
<1>5. ReadEffect(d) BY <1>1, <1>2, <1>3, <1>4, ReadDoes, Zenon
<1>6. /\ Within(d) /\ d.consumedBytes <= Len(d.inBuff)
      /\ arrived' \in Nat /\ erased <= arrived' /\ arrived' <= Len(Stream(wire))
      /\ d.inBuff = SubSeq(Stream(wire), erased + 1, arrived') /\ Frame(d) = Frame(c)
  BY <1>4 DEF Extended
<1>7. wire \in Seq(Messages) /\ erased \in Nat BY DEF Inv, Buffered
<1>8. c'.inBuff = d.inBuff => Buffered' BY <1>3, <1>6, <1>7 DEF Buffered
<1>9. CASE c.responseQueued /\ c' = d /\ UNCHANGED <<up, answers>>
  <2>1. c'.responseQueued BY <1>6, <1>9 DEF Frame
  <2> QED BY <1>3, <1>6, <1>8, <1>9, <2>1 DEF Inv, Resumable
<1>10. ASSUME NEW s, s = InOnePiece(d.inBuff), ProgressOK(d.inBuff, s),
              \/ s.r = 0 /\ c' = s.client /\ UNCHANGED <<up, answers>>
              \/ s.r # 0 /\ up' = FALSE /\ c' = s.client /\ UNCHANGED answers
              \/ /\ s.r # 0 /\ up' = up
                 /\ \E close \in BOOLEAN : c' = Queued(s.client, close) /\ (s.r = -1 => close)
                 /\ Queue(s)
       PROVE  Inv'
  <2>1. /\ s = Step(s.client, s.r) /\ Within(s.client) /\ s.client.inBuff = d.inBuff
        /\ s.client.consumedBytes <= Len(d.inBuff)
    BY <1>10 DEF ProgressOK
  <2>2. CASE s.r = 0 /\ c' = s.client /\ UNCHANGED <<up, answers>>
    <3>1. InOnePiece(c'.inBuff) = Step(c', 0) BY <1>10, <2>1, <2>2
    <3> QED BY <1>3, <1>8, <2>1, <2>2, <3>1 DEF Inv, Resumable
  <2>3. CASE up' = FALSE /\ c' = s.client
    BY <1>3, <1>8, <2>1, <2>3 DEF Inv, Resumable
  <2>4. ASSUME NEW close \in BOOLEAN, c' = Queued(s.client, close), up' = up PROVE Inv'
    <3>1. /\ Within(c') /\ c'.inBuff = s.client.inBuff /\ c'.consumedBytes = s.client.consumedBytes
          /\ c'.responseQueued = TRUE
      BY <2>1, <2>4, QueuedFields
    <3> QED BY <1>3, <1>8, <2>1, <2>4, <3>1 DEF Inv, Resumable
  <2> QED BY <1>10, <2>2, <2>3, <2>4
<1> QED BY <1>5, <1>9, <1>10 DEF ReadEffect

(* The request that was answered is taken off the front of the buffer. *)
LEMMA ErasedPiece ==
  ASSUME Inv
  PROVE  LET b == SubSeq(c.inBuff, c.consumedBytes + 1, Len(c.inBuff))
         IN /\ b \in Seq(Unit)
            /\ erased + c.consumedBytes \in Nat /\ erased + c.consumedBytes <= arrived
            /\ b = SubSeq(Stream(wire), erased + c.consumedBytes + 1, arrived)
<1> DEFINE s == Stream(wire)
<1>1. s \in Seq(Unit) BY StreamTyped DEF Inv, Buffered
<1>2. /\ erased \in Nat /\ arrived \in Nat /\ erased <= arrived /\ arrived <= Len(s)
      /\ c.inBuff = SubSeq(s, erased + 1, arrived)
  BY DEF Inv, Buffered
<1>3. c.inBuff \in Seq(Unit) /\ Len(c.inBuff) = arrived - erased
  <2> HIDE DEF s
  <2> QED BY <1>1, <1>2, StreamPiece
<1>4. PICK k \in Nat : k = c.consumedBytes /\ k <= arrived - erased
  BY <1>3, Fields DEF Inv, Within
<1> HIDE DEF s
<1>5. SubSeq(SubSeq(s, erased + 1, arrived), k + 1, arrived - erased) = SubSeq(s, erased + k + 1, arrived)
  <2>1. PICK m \in Nat, n \in Nat : m = erased /\ n = arrived /\ m <= n /\ n <= Len(s) /\ k <= n - m
    BY <1>2, <1>4
  <2>2. SubSeq(SubSeq(s, m + 1, n), k + 1, n - m) = SubSeq(s, m + k + 1, n) BY <1>1, <2>1, PieceOfPiece
  <2> QED BY <2>1, <2>2
<1>6. PICK j \in Nat : j = erased + k /\ j <= arrived BY <1>2, <1>4
<1>7. SubSeq(s, j + 1, arrived) \in Seq(Unit) BY <1>1, <1>2, <1>6, StreamPiece
<1>8. SubSeq(c.inBuff, c.consumedBytes + 1, Len(c.inBuff)) = SubSeq(s, j + 1, arrived)
  BY <1>2, <1>3, <1>4, <1>5, <1>6
<1> QED BY <1>4, <1>6, <1>7, <1>8 DEF s

LEMMA WriteKeepsSound ==
  ASSUME Inv, writeOnce PROVE Inv'
<1>1. up' = up /\ wire' = wire /\ arrived' = arrived /\ open' \in BOOLEAN
  BY DEF writeOnce, resetKeepAlive, closeClient, Inv
<1>2. CASE closeClient BY <1>1, <1>2 DEF closeClient, Inv, Buffered, Resumable
<1>3. CASE resetKeepAlive
  <2>1. PICK b : b = SubSeq(c.inBuff, c.consumedBytes + 1, Len(c.inBuff)) OBVIOUS
  <2>2. c' = Fresh(b) /\ erased' = erased + c.consumedBytes
    BY <1>3, <2>1, Zenon DEF resetKeepAlive, Fresh
  <2>3. /\ b \in Seq(Unit)
        /\ erased' \in Nat /\ erased' <= arrived
        /\ b = SubSeq(Stream(wire), erased' + 1, arrived)
    BY <2>1, <2>2, ErasedPiece
  <2>4. Within(c') /\ c'.inBuff = b /\ c'.consumedBytes = 0 BY <2>2, <2>3, FreshFields
  <2>5. Len(b) \in Nat BY <2>3, LenProperties
  <2>6. Buffered' BY <1>1, <2>3, <2>4 DEF Inv, Buffered
  <2> QED BY <1>1, <2>2, <2>4, <2>5, <2>6 DEF Inv, Resumable
<1> QED BY <1>2, <1>3 DEF writeOnce

LEMMA StepSound == Inv /\ [Next]_vars => Inv'
<1> SUFFICES ASSUME Inv, [Next]_vars PROVE Inv' OBVIOUS
<1>1. CASE readOnce BY <1>1, ReadKeepsSound
<1>2. CASE writeOnce BY <1>2, WriteKeepsSound
<1>3. CASE UNCHANGED vars BY <1>3 DEF vars, Inv, Buffered, Resumable
<1> QED BY <1>1, <1>2, <1>3 DEF Next

(* The Client is always one: its position and what it has consumed are     *)
(* within its buffer, its sizes fit, and no byte of the stream is lost or  *)
(* kept twice.                                                             *)
THEOREM RequestsTyped == Spec => []TypeOK
<1>1. Init => Inv BY InitSound
<1>2. Inv => TypeOK
  <2> SUFFICES ASSUME Inv PROVE TypeOK OBVIOUS
  <2>1. Stream(wire) \in Seq(Unit) BY StreamTyped DEF Inv, Buffered
  <2>2. Len(c.inBuff) = arrived - erased
    <3>1. PICK s \in Seq(Unit) : s = Stream(wire) BY <2>1
    <3>2. /\ erased \in Nat /\ arrived \in Nat /\ erased <= arrived /\ arrived <= Len(s)
          /\ c.inBuff = SubSeq(s, erased + 1, arrived)
      BY <3>1 DEF Inv, Buffered
    <3> QED BY <3>2, StreamPiece
  <2>3. erased + Len(c.inBuff) = arrived BY <2>2 DEF Inv, Buffered
  <2> QED BY <2>3 DEF TypeOK, Inv, Within
<1> QED BY <1>1, <1>2, StepSound, PTL DEF Spec

(* However the stream is split, the decoder is where it would be had all   *)
(* it has come in one piece: unchunkStep_ resumes in every state, at every *)
(* byte, of every stream.                                                  *)
THEOREM SplitsNeverMatter == Spec => []SplitsDoNotMatter
<1>1. Init => Inv BY InitSound
<1>2. Inv => SplitsDoNotMatter
  <2> SUFFICES ASSUME Inv, up, c.headersDone, ~c.responseQueued PROVE InOnePiece(c.inBuff) = Step(c, 0)
    BY DEF SplitsDoNotMatter
  <2>1. c.inBuff \in Seq(Unit) BY Fields DEF Inv, Within
  <2>2. c # Fresh(c.inBuff) BY <2>1, FreshFields
  <2> QED BY <2>2 DEF Inv, Resumable
<1> QED BY <1>1, <1>2, StepSound, PTL DEF Spec

-----------------------------------------------------------------------------
(* Where the messages are in the stream                                    *)

(* The first messages.                                                     *)
LEMMA FirstMessages ==
  ASSUME NEW w \in Seq(Messages), NEW i \in 0 .. Len(w)
  PROVE  /\ SubSeq(w, 1, i) \in Seq(Messages) /\ Len(SubSeq(w, 1, i)) = i
         /\ \A k \in 1 .. i : SubSeq(w, 1, i)[k] = w[k]
<1>1. Len(w) \in Nat /\ \A k \in 1 .. Len(w) : w[k] \in Messages BY LenProperties, ElementOfSeq
<1>2. PICK one \in Int, n \in Int : one = 1 /\ n = i BY <1>1
<1>3. PICK v : v = SubSeq(w, one, n) OBVIOUS
<1>4. \A k \in one .. n : w[k] \in Messages BY <1>1, <1>2
<1>5. /\ v \in Seq(Messages) /\ Len(v) = IF one <= n THEN n - one + 1 ELSE 0
      /\ \A k \in 1 .. n - one + 1 : v[k] = w[one + k - 1]
  BY <1>3, <1>4, SubSeqProperties
<1>6. Len(v) = i BY <1>1, <1>2, <1>5
<1>7. ASSUME NEW k \in 1 .. i PROVE v[k] = w[k]
  <2>1. k \in 1 .. n - one + 1 /\ one + k - 1 = k BY <1>1, <1>2
  <2> QED BY <1>5, <2>1
<1> QED BY <1>2, <1>3, <1>5, <1>6, <1>7

LEMMA EmptyStream == Stream(<< >>) = << >>
<1> DEFINE seqs == [i \in DOMAIN << >> |-> Bytes(<< >>[i])]
<1>1. seqs = << >> OBVIOUS
<1>2. Len(seqs) = 0 BY <1>1, EmptySeq
<1>3. Stream(<< >>) = FlattenSeq(seqs) BY DEF Stream
<1> HIDE DEF seqs
<1>4. FlattenSeq(seqs) = seqs BY <1>2, Zenon DEF FlattenSeq
<1> QED BY <1>1, <1>3, <1>4

(* The streams of the first messages, by steps. *)
JoinsOf(g, w) == g[1] = Bytes(w[1]) /\ \A i \in 1 .. Len(w) - 1 : g[i + 1] = g[i] \o Bytes(w[i + 1])

LEMMA StreamBySteps ==
  ASSUME NEW w \in Seq(Messages), Len(w) # 0
  PROVE  \E g : JoinsOf(g, w) /\ Stream(w) = g[Len(w)]
<1> DEFINE seqs == [i \in DOMAIN w |-> Bytes(w[i])]
<1>1. Len(w) \in Nat /\ DOMAIN w = 1 .. Len(w) BY LenProperties
<1>2. seqs \in Seq(Seq(Unit)) /\ Len(seqs) = Len(w)
  <2>1. \A i \in 1 .. Len(w) : w[i] \in Messages BY ElementOfSeq
  <2>2. \A i \in 1 .. Len(w) : seqs[i] \in Seq(Unit) BY <1>1, <2>1, MessageBytes
  <2>3. DOMAIN seqs = 1 .. Len(w) BY <1>1
  <2> QED BY <1>1, <2>2, <2>3
<1>3. Stream(w) = FlattenSeq(seqs) BY DEF Stream
<1>4. \A i \in 1 .. Len(w) : seqs[i] = Bytes(w[i]) BY <1>1
<1> HIDE DEF seqs
<1>5. PICK g : /\ FlattenSeq(seqs) = g[Len(seqs)] /\ g[1] = seqs[1]
               /\ \A i \in 1 .. Len(seqs) - 1 : g[i + 1] = g[i] \o seqs[i + 1]
  BY <1>1, <1>2, FlattenedBySteps
<1>6. g[1] = Bytes(w[1])
  <2>1. 1 \in 1 .. Len(w) BY <1>1
  <2> QED BY <1>4, <1>5, <2>1
<1>7. ASSUME NEW i \in 1 .. Len(w) - 1 PROVE g[i + 1] = g[i] \o Bytes(w[i + 1])
  <2>1. i + 1 \in 1 .. Len(w) BY <1>1
  <2> QED BY <1>2, <1>4, <1>5, <2>1
<1> QED BY <1>2, <1>3, <1>5, <1>6, <1>7 DEF JoinsOf

LEMMA StreamGrows ==
  ASSUME NEW w \in Seq(Messages), NEW i \in 1 .. Len(w)
  PROVE  Stream(SubSeq(w, 1, i)) = Stream(SubSeq(w, 1, i - 1)) \o Bytes(w[i])
<1>1. Len(w) \in Nat /\ i \in Nat /\ i - 1 \in 0 .. Len(w) /\ i \in 0 .. Len(w) BY LenProperties
<1>2. PICK v : v = SubSeq(w, 1, i) OBVIOUS
<1>3. v \in Seq(Messages) /\ Len(v) = i /\ \A k \in 1 .. i : v[k] = w[k] BY <1>1, <1>2, FirstMessages
<1>4. PICK u : u = SubSeq(w, 1, i - 1) OBVIOUS
<1>5. u \in Seq(Messages) /\ Len(u) = i - 1 /\ \A k \in 1 .. i - 1 : u[k] = w[k]
  BY <1>1, <1>4, FirstMessages
<1>6. PICK g : JoinsOf(g, v) /\ Stream(v) = g[i] BY <1>1, <1>3, StreamBySteps
<1>7. g[1] = Bytes(w[1]) /\ \A k \in 1 .. i - 1 : g[k + 1] = g[k] \o Bytes(w[k + 1])
  <2>1. 1 \in 1 .. i /\ \A k \in 1 .. i - 1 : k + 1 \in 1 .. i BY <1>1
  <2> QED BY <1>3, <1>6, <2>1 DEF JoinsOf
<1>8. CASE i = 1
  <2>1. u = << >> BY <1>5, <1>8
  <2>2. Stream(u) = << >> BY <2>1, EmptyStream
  <2>3. Stream(v) = Bytes(w[1]) BY <1>6, <1>7, <1>8
  <2>4. w[1] \in Messages BY <1>8, ElementOfSeq
  <2>5. PICK b \in Seq(Unit) : b = Bytes(w[1]) BY <2>4, MessageBytes
  <2>6. << >> \o b = b BY ConcatEmptySeq
  <2> QED BY <1>2, <1>4, <1>8, <2>2, <2>3, <2>5, <2>6
<1>9. CASE i # 1
  <2>1. PICK h : JoinsOf(h, u) /\ Stream(u) = h[i - 1] BY <1>1, <1>5, <1>9, StreamBySteps
  <2>2. h[1] = Bytes(w[1]) /\ \A k \in 1 .. i - 2 : h[k + 1] = h[k] \o Bytes(w[k + 1])
    <3>1. 1 \in 1 .. i - 1 /\ \A k \in 1 .. i - 2 : k + 1 \in 1 .. i - 1 /\ k \in 1 .. (i - 1) - 1
      BY <1>1, <1>9
    <3> QED BY <1>5, <2>1, <3>1 DEF JoinsOf
  <2> DEFINE S == {m \in Nat : m >= 1 /\ (m <= i - 1 => h[m] = g[m])}
  <2>3. 1 \in S BY <1>7, <2>2
  <2>4. ASSUME NEW m \in Nat, m >= 1, m \in S PROVE m + 1 \in S
    <3> SUFFICES ASSUME m + 1 <= i - 1 PROVE h[m + 1] = g[m + 1] OBVIOUS
    <3>1. m \in 1 .. i - 2 /\ m \in 1 .. i - 1 /\ h[m] = g[m] BY <1>1, <2>4
    <3> QED BY <1>7, <2>2, <3>1
  <2> HIDE DEF S
  <2>5. \A m \in Nat : m >= 1 => m \in S BY <2>3, <2>4, Induction
  <2>6. i - 1 \in Nat /\ i - 1 >= 1 BY <1>1, <1>9
  <2>7. h[i - 1] = g[i - 1] BY <2>5, <2>6 DEF S
  <2>8. g[i] = g[i - 1] \o Bytes(w[i])
    <3>1. PICK k : k = i - 1 OBVIOUS
    <3>2. k \in 1 .. i - 1 /\ k + 1 = i BY <1>1, <2>6, <3>1
    <3> QED BY <1>7, <3>1, <3>2
  <2> QED BY <1>2, <1>4, <1>6, <2>1, <2>7, <2>8
<1> QED BY <1>8, <1>9

(* The stream of the first i messages. *)
Upto(w, i) == Stream(SubSeq(w, 1, i))

LEMMA UptoTyped ==
  ASSUME NEW w \in Seq(Messages)
  PROVE  /\ \A i \in 0 .. Len(w) : Upto(w, i) \in Seq(Unit) /\ Len(Upto(w, i)) \in Nat
         /\ Upto(w, 0) = << >> /\ Upto(w, Len(w)) = Stream(w)
<1>1. Len(w) \in Nat BY LenProperties
<1>2. ASSUME NEW i \in 0 .. Len(w) PROVE Upto(w, i) \in Seq(Unit) /\ Len(Upto(w, i)) \in Nat
  <2>1. Upto(w, i) \in Seq(Unit) BY FirstMessages, StreamTyped DEF Upto
  <2> QED BY <2>1, LenProperties
<1>3. Upto(w, 0) = << >>
  <2>1. PICK m \in Int, n \in Int : m = 1 /\ n = 0 /\ n < m OBVIOUS
  <2>2. SubSeq(w, m, n) = << >> BY <2>1, SubSeqEmpty
  <2> QED BY <2>1, <2>2, EmptyStream DEF Upto
<1>4. Upto(w, Len(w)) = Stream(w)
  <2>1. PICK v : v = SubSeq(w, 1, Len(w)) OBVIOUS
  <2>2. v \in Seq(Messages) /\ Len(v) = Len(w) /\ \A k \in 1 .. Len(w) : v[k] = w[k]
    <3>1. Len(w) \in 0 .. Len(w) BY <1>1
    <3> QED BY <2>1, <3>1, FirstMessages
  <2>3. v = w BY <2>2, SeqEqual
  <2> QED BY <2>1, <2>3 DEF Upto
<1> QED BY <1>2, <1>3, <1>4

LEMMA UptoGrows ==
  ASSUME NEW w \in Seq(Messages), NEW i \in 1 .. Len(w)
  PROVE  Upto(w, i) = Upto(w, i - 1) \o Bytes(w[i])
BY StreamGrows DEF Upto

(* The stream goes on after its first messages. *)
GoesOn(w, i) == \E rest \in Seq(Unit) : Stream(w) = Upto(w, i) \o rest

LEMMA StreamGoesOn ==
  ASSUME NEW w \in Seq(Messages), NEW i \in 0 .. Len(w)
  PROVE  GoesOn(w, i)
<1>1. Len(w) \in Nat BY LenProperties
<1> DEFINE S == {m \in Nat : m <= Len(w) => GoesOn(w, Len(w) - m)}
<1>2. 0 \in S
  <2>1. PICK s \in Seq(Unit) : s = Stream(w) /\ s = Upto(w, Len(w)) BY UptoTyped, StreamTyped
  <2>2. << >> \in Seq(Unit) /\ s \o << >> = s BY EmptySeq, ConcatEmptySeq
  <2>3. Len(w) - 0 = Len(w) BY <1>1
  <2> QED BY <2>1, <2>2, <2>3 DEF GoesOn
<1>3. ASSUME NEW m \in Nat, m >= 0, m \in S PROVE m + 1 \in S
  <2> SUFFICES ASSUME m + 1 <= Len(w)
               PROVE  GoesOn(w, Len(w) - (m + 1))
    OBVIOUS
  <2>1. PICK k : k = Len(w) - m OBVIOUS
  <2>2. k \in 1 .. Len(w) /\ k - 1 = Len(w) - (m + 1) /\ k - 1 \in 0 .. Len(w) BY <1>1, <2>1
  <2>3. PICK rest \in Seq(Unit) : Stream(w) = Upto(w, k) \o rest
    <3>1. m <= Len(w) BY <1>1
    <3>2. GoesOn(w, k) BY <1>3, <2>1, <3>1
    <3> QED BY <3>2 DEF GoesOn
  <2>4. Upto(w, k) = Upto(w, k - 1) \o Bytes(w[k]) BY <2>2, UptoGrows
  <2>5. PICK x \in Seq(Unit), y \in Seq(Unit) : x = Upto(w, k - 1) /\ y = Bytes(w[k])
    <3>1. w[k] \in Messages BY <2>2, ElementOfSeq
    <3> QED BY <2>2, <3>1, UptoTyped, MessageBytes
  <2>6. (x \o y) \o rest = x \o (y \o rest) /\ y \o rest \in Seq(Unit)
    <3>1. (x \o y) \o rest = x \o (y \o rest) BY ConcatAssociative, SMTT(30)
    <3>2. y \o rest \in Seq(Unit) BY Joined
    <3> QED BY <3>1, <3>2
  <2> QED BY <2>2, <2>3, <2>4, <2>5, <2>6 DEF GoesOn
<1> HIDE DEF S
<1>4. \A m \in Nat : m >= 0 => m \in S BY <1>2, <1>3, Induction
<1>5. PICK m \in Nat : m = Len(w) - i /\ m <= Len(w) /\ Len(w) - m = i BY <1>1
<1>6. m \in S BY <1>4, <1>5
<1> QED BY <1>5, <1>6 DEF S

(* Each message is where it starts, and the next one behind it. *)
LEMMA StartIs ==
  ASSUME NEW w \in Seq(Messages), NEW i \in 1 .. Len(w) + 1
  PROVE  Start(w, i) = Len(Upto(w, i - 1)) /\ Start(w, i) \in Nat
<1>1. Len(w) \in Nat BY LenProperties
<1>2. i - 1 \in 0 .. Len(w) BY <1>1
<1>3. Start(w, i) = Len(Upto(w, i - 1)) BY DEF Start, Upto
<1> QED BY <1>2, <1>3, UptoTyped

LEMMA StartEnds ==
  ASSUME NEW w \in Seq(Messages)
  PROVE  Start(w, 1) = 0 /\ Start(w, Len(w) + 1) = Len(Stream(w))
<1>1. Len(w) \in Nat BY LenProperties
<1>2. 1 \in 1 .. Len(w) + 1 /\ Len(w) + 1 \in 1 .. Len(w) + 1 BY <1>1
<1>3. 1 - 1 = 0 /\ Len(w) + 1 - 1 = Len(w) BY <1>1
<1>4. Start(w, 1) = Len(Upto(w, 0))
  <2>1. PICK i \in 1 .. Len(w) + 1 : i = 1 BY <1>2
  <2>2. i - 1 = 0 BY <2>1
  <2> QED BY <2>1, <2>2, StartIs
<1>5. Start(w, Len(w) + 1) = Len(Upto(w, Len(w)))
  <2>1. PICK i \in 1 .. Len(w) + 1 : i = Len(w) + 1 BY <1>2
  <2>2. i - 1 = Len(w) BY <1>1, <2>1
  <2> QED BY <2>1, <2>2, StartIs
<1> QED BY <1>4, <1>5, UptoTyped, EmptySeq

LEMMA StartMoves ==
  ASSUME NEW w \in Seq(Messages), NEW i \in 1 .. Len(w)
  PROVE  /\ Start(w, i) \in Nat /\ Start(w, i + 1) \in Nat
         /\ Start(w, i + 1) = Start(w, i) + Len(Bytes(w[i]))
         /\ Start(w, i) < Start(w, i + 1) /\ Start(w, i + 1) <= Len(Stream(w))
         /\ SubSeq(Stream(w), Start(w, i) + 1, Start(w, i + 1)) = Bytes(w[i])
<1>1. Len(w) \in Nat BY LenProperties
<1>2. /\ i \in 1 .. Len(w) + 1 /\ i + 1 \in 1 .. Len(w) + 1 /\ (i + 1) - 1 = i
      /\ i - 1 \in 0 .. Len(w) /\ i \in 0 .. Len(w)
  BY <1>1
<1>3. PICK x \in Seq(Unit) : x = Upto(w, i - 1) BY <1>2, UptoTyped
<1>4. PICK y \in Seq(Unit) : y = Bytes(w[i]) /\ Len(y) \in Nat /\ Len(y) >= 5
  <2>1. w[i] \in Messages BY ElementOfSeq
  <2> QED BY <2>1, MessageBytes
<1>5. Start(w, i) = Len(x) /\ Len(x) \in Nat BY <1>2, <1>3, StartIs
<1>6. PICK k : k = i + 1 OBVIOUS
<1>7. Start(w, k) = Len(Upto(w, i)) /\ Start(w, k) \in Nat BY <1>2, <1>6, StartIs
<1>8. Upto(w, i) = x \o y BY <1>3, <1>4, UptoGrows
<1>9. PICK rest \in Seq(Unit) : Stream(w) = (x \o y) \o rest
  BY <1>2, <1>8, StreamGoesOn DEF GoesOn
<1>10. PICK xy \in Seq(Unit) : xy = x \o y /\ Len(xy) = Len(x) + Len(y) BY Joined
<1>11. PICK s \in Seq(Unit) : s = Stream(w) /\ s = xy \o rest BY <1>9, <1>10, StreamTyped
<1>12. Len(s) = Len(xy) + Len(rest) /\ Len(rest) \in Nat BY <1>11, Joined, LenProperties
<1>13. Start(w, k) = Len(x) + Len(y) BY <1>7, <1>8, <1>10
<1>14. SubSeq(s, Len(x) + 1, Len(x) + Len(y)) = y
  <2>1. PICK n \in Nat : n = Len(x) + Len(y) /\ n <= Len(s) /\ Len(x) <= n
    <3>1. PICK p \in Nat, q \in Nat, r \in Nat : p = Len(x) /\ q = Len(y) /\ r = Len(rest)
      BY <1>4, <1>5, <1>12
    <3>2. Len(s) = p + q + r BY <1>10, <1>12, <3>1
    <3>3. p + q \in Nat /\ p + q <= p + q + r /\ p <= p + q BY <3>1
    <3> QED BY <3>1, <3>2, <3>3
  <2>2. PICK t : t = SubSeq(s, Len(x) + 1, n) OBVIOUS
  <2>3. t \in Seq(Unit) /\ Len(t) = n - Len(x) /\ \A j \in 1 .. n - Len(x) : t[j] = s[Len(x) + j]
    BY <1>5, <2>1, <2>2, StreamPiece
  <2>4. n - Len(x) = Len(y) BY <1>4, <1>5, <2>1
  <2>5. ASSUME NEW j \in 1 .. Len(y) PROVE t[j] = y[j]
    <3>1. t[j] = s[Len(x) + j] BY <2>3, <2>4
    <3>2. Len(x) + j \in 1 .. Len(xy) BY <1>4, <1>5, <1>10
    <3>3. s[Len(x) + j] = xy[Len(x) + j] BY <1>11, <3>2, Joined
    <3>4. xy[Len(x) + j] = y[j] BY <1>10, Joined
    <3> QED BY <3>1, <3>3, <3>4
  <2>6. t = y BY <2>3, <2>4, <2>5, SeqEqual
  <2> QED BY <2>1, <2>2, <2>6
<1>15. Start(w, i) < Start(w, k) BY <1>4, <1>5, <1>13
<1>16. Start(w, k) <= Len(s) BY <1>10, <1>12, <1>13, <1>5, <1>4
<1> QED BY <1>4, <1>5, <1>6, <1>7, <1>11, <1>13, <1>14, <1>15, <1>16

(* No two start at one place. *)
LEMMA StartsApart ==
  ASSUME NEW w \in Seq(Messages), NEW i \in 1 .. Len(w) + 1, NEW j \in 1 .. Len(w) + 1
  PROVE  (i < j => Start(w, i) < Start(w, j)) /\ (Start(w, i) = Start(w, j) => i = j)
<1>1. Len(w) \in Nat BY LenProperties
<1>2. ASSUME NEW a \in 1 .. Len(w) + 1 PROVE \A b \in 1 .. Len(w) + 1 : a < b => Start(w, a) < Start(w, b)
  <2> DEFINE S == {m \in Nat : m <= Len(w) + 1 => Start(w, a) < Start(w, m)}
  <2>1. a + 1 \in S
    <3> SUFFICES ASSUME a + 1 <= Len(w) + 1 PROVE Start(w, a) < Start(w, a + 1) BY <1>1
    <3>1. a \in 1 .. Len(w) BY <1>1
    <3> QED BY <3>1, StartMoves
  <2>2. ASSUME NEW m \in Nat, m >= a + 1, m \in S PROVE m + 1 \in S
    <3> SUFFICES ASSUME m + 1 <= Len(w) + 1 PROVE Start(w, a) < Start(w, m + 1) OBVIOUS
    <3>1. m \in 1 .. Len(w) /\ m <= Len(w) + 1 BY <1>1, <2>2
    <3>2. Start(w, a) < Start(w, m) BY <2>2, <3>1
    <3>3. Start(w, m) < Start(w, m + 1) /\ Start(w, m) \in Nat /\ Start(w, m + 1) \in Nat
      BY <3>1, StartMoves
    <3>4. Start(w, a) \in Nat BY StartIs
    <3> QED BY <3>2, <3>3, <3>4
  <2> HIDE DEF S
  <2>3. \A m \in Nat : m >= a + 1 => m \in S
    <3>1. a + 1 \in Nat BY <1>1
    <3> QED BY <2>1, <2>2, <3>1, Induction
  <2>4. ASSUME NEW b \in 1 .. Len(w) + 1, a < b PROVE Start(w, a) < Start(w, b)
    <3>1. b \in Nat /\ b >= a + 1 /\ b <= Len(w) + 1 BY <1>1, <2>4
    <3> QED BY <2>3, <3>1 DEF S
  <2> QED BY <2>4
<1>3. Start(w, i) \in Nat /\ Start(w, j) \in Nat BY StartIs
<1>4. i < j => Start(w, i) < Start(w, j) BY <1>2
<1>5. j < i => Start(w, j) < Start(w, i) BY <1>2
<1> QED BY <1>1, <1>3, <1>4, <1>5

-----------------------------------------------------------------------------
(* What becomes of a message is what becomes of it alone                   *)

SameOutcome(s, u) ==
  s.r = u.r /\ s.client.bodyBuf = u.client.bodyBuf /\ s.client.consumedBytes = u.client.consumedBytes

LEMMA LongerPiece ==
  ASSUME NEW s \in Seq(Unit), NEW m \in Nat, NEW e \in Nat, NEW n \in Nat,
         m <= e, e <= n, n <= Len(s), InOnePiece(SubSeq(s, m + 1, e)).r # 0
  PROVE  SameOutcome(InOnePiece(SubSeq(s, m + 1, n)), InOnePiece(SubSeq(s, m + 1, e)))
<1>1. Len(s) \in Nat /\ e <= Len(s) BY LenProperties
<1>2. PICK b \in Seq(Unit) : b = SubSeq(s, m + 1, e) BY <1>1, StreamPiece
<1>3. PICK t \in Seq(Unit) : t = SubSeq(s, e + 1, n) BY StreamPiece
<1>4. SubSeq(s, m + 1, n) = b \o t
  <2>1. SubSeq(s, m + 1, e) \o SubSeq(s, e + 1, n) = SubSeq(s, m + 1, n) BY PiecesJoin
  <2> QED BY <1>2, <1>3, <2>1
<1>5. PICK p : p = Progress(Fresh(b)) OBVIOUS
<1>6. ProgressOK(b, p) /\ Stays(p, Progress(Fresh(b \o t)), Progress(More(p.client, t)), t)
  BY <1>5, ProgressReturns
<1>7. p.r # 0 BY <1>2, <1>5, OnePieceIs
<1>8. PICK d : d = More(p.client, t) OBVIOUS
<1>9. Progress(Fresh(b \o t)) = Step(d, p.r) BY <1>6, <1>7, <1>8 DEF Stays
<1>10. p.client \in Client BY <1>6 DEF ProgressOK, Within
<1>11. d.bodyBuf = p.client.bodyBuf /\ d.consumedBytes = p.client.consumedBytes BY <1>8, <1>10, Arrival
<1>12. Step(d, p.r).client = d /\ Step(d, p.r).r = p.r BY StepIs
<1>13. SameOutcome(Step(d, p.r), p) BY <1>11, <1>12 DEF SameOutcome
<1> QED BY <1>2, <1>4, <1>5, <1>9, <1>13, OnePieceIs

LEMMA PieceStart ==
  ASSUME NEW s \in Seq(Unit), NEW m \in Nat, NEW n \in Nat, m <= n, n <= Len(s),
         NEW k \in Nat, k <= n - m
  PROVE  SubSeq(SubSeq(s, m + 1, n), 1, k) = SubSeq(s, m + 1, m + k)
<1>1. PICK t : t = SubSeq(s, m + 1, n) OBVIOUS
<1>2. t \in Seq(Unit) /\ Len(t) = n - m /\ \A i \in 1 .. n - m : t[i] = s[m + i] BY <1>1, StreamPiece
<1>3. PICK z \in Nat : z = 0 /\ z + 1 = 1 OBVIOUS
<1>4. PICK u : u = SubSeq(t, z + 1, k) OBVIOUS
<1>5. u \in Seq(Unit) /\ Len(u) = k - z /\ \A i \in 1 .. k - z : u[i] = t[z + i]
  <2>1. k <= Len(t) /\ z <= k BY <1>2, <1>3
  <2> QED BY <1>2, <1>4, <2>1, StreamPiece
<1>6. PICK j \in Nat : j = m + k OBVIOUS
<1>7. PICK v : v = SubSeq(s, m + 1, j) OBVIOUS
<1>8. v \in Seq(Unit) /\ Len(v) = j - m /\ \A i \in 1 .. j - m : v[i] = s[m + i]
  <2>1. m <= j /\ j <= Len(s)
    <3>1. PICK l \in Nat : l = Len(s) BY LenProperties
    <3>2. n <= l BY <3>1
    <3> QED BY <1>6, <3>1, <3>2
  <2> QED BY <1>7, <2>1, StreamPiece
<1>9. Len(u) = k /\ Len(v) = k BY <1>3, <1>5, <1>6, <1>8
<1>10. ASSUME NEW i \in 1 .. Len(u) PROVE u[i] = v[i]
  <2>1. i \in 1 .. k - z /\ z + i = i /\ i \in 1 .. n - m /\ i \in 1 .. j - m
    BY <1>3, <1>6, <1>9
  <2> QED BY <1>2, <1>5, <1>8, <2>1
<1>11. u = v BY <1>5, <1>8, <1>9, <1>10, SeqEqual
<1> QED BY <1>1, <1>3, <1>4, <1>6, <1>7, <1>11

(* What a request is made of that starts where the message does: all of it *)
(* has come, and it is the message.                                        *)
DecodedAs(m, s) ==
  IF m.wellFormed
  THEN s.r = 1 /\ s.client.bodyBuf = m.data /\ (m.trailers \/ s.client.consumedBytes = Len(Bytes(m)))
  ELSE s.r = -1

LEMMA Whole ==
  ASSUME NEW w \in Seq(Messages), NEW j \in 1 .. Len(w), DecodedAlone(w[j]),
         NEW e \in Nat, Start(w, j) <= e, e <= Len(Stream(w)),
         InOnePiece(SubSeq(Stream(w), Start(w, j) + 1, e)).r # 0
  PROVE  /\ DecodedAs(w[j], InOnePiece(SubSeq(Stream(w), Start(w, j) + 1, e)))
         /\ w[j].wellFormed => e >= Start(w, j + 1)
<1>1. PICK s \in Seq(Unit) : s = Stream(w) BY StreamTyped
<1>2. PICK a \in Nat, n \in Nat : a = Start(w, j) /\ n = Start(w, j + 1) BY StartMoves
<1>3. PICK b \in Seq(Unit) : b = Bytes(w[j]) /\ Len(b) \in Nat /\ Len(b) >= 5
  <2>1. w[j] \in Messages BY ElementOfSeq
  <2> QED BY <2>1, MessageBytes
<1>4. n = a + Len(b) /\ n <= Len(s) /\ SubSeq(s, a + 1, n) = b BY <1>1, <1>2, <1>3, StartMoves
<1>5. a <= e /\ e <= Len(s) BY <1>1, <1>2
<1>6. PICK p : p = InOnePiece(SubSeq(s, a + 1, e)) OBVIOUS
<1>7. p.r # 0 BY <1>1, <1>2, <1>6
<1>8. DecodedAs(w[j], InOnePiece(b)) /\ InOnePiece(b).r # 0
  BY <1>3 DEF DecodedAlone, DecodedAs
<1>9. w[j].wellFormed => InOnePiece(SubSeq(b, 1, Len(b) - 1)).r = 0 BY <1>3 DEF DecodedAlone
<1>10. Len(s) \in Nat BY LenProperties
<1>11. SameOutcome(p, InOnePiece(b))
  <2>1. CASE e <= n
    <3>1. SameOutcome(InOnePiece(SubSeq(s, a + 1, n)), p) BY <1>4, <1>5, <1>6, <1>7, <2>1, LongerPiece
    <3> QED BY <1>4, <3>1 DEF SameOutcome
  <2>2. CASE n <= e
    <3>1. a <= n BY <1>3, <1>4
    <3>2. SameOutcome(p, InOnePiece(SubSeq(s, a + 1, n)))
      BY <1>4, <1>5, <1>6, <1>8, <2>2, <3>1, LongerPiece
    <3> QED BY <1>4, <3>2
  <2> QED BY <2>1, <2>2
<1>12. ASSUME w[j].wellFormed, ~ (e >= n) PROVE FALSE
  <2>1. PICK k \in Nat : k = Len(b) - 1 BY <1>3
  <2>2. PICK f \in Nat : f = a + k /\ e <= f /\ f <= n
    <3>1. PICK l \in Nat : l = Len(b) /\ l >= 5 BY <1>3
    <3>2. n = a + l /\ k = l - 1 BY <1>4, <2>1, <3>1
    <3>3. e < n BY <1>12
    <3>4. n = a + k + 1 BY <3>2
    <3>5. a + k \in Nat /\ e <= a + k /\ a + k <= n BY <3>3, <3>4
    <3> QED BY <3>5
  <2>3. SubSeq(b, 1, k) = SubSeq(s, a + 1, f)
    <3>1. k <= n - a /\ a <= n BY <1>3, <1>4, <2>1
    <3> QED BY <1>4, <2>2, <3>1, PieceStart
  <2>4. f <= Len(s) BY <1>4, <1>10, <2>2
  <2>5. SameOutcome(InOnePiece(SubSeq(s, a + 1, f)), p) BY <1>5, <1>6, <1>7, <2>2, <2>4, LongerPiece
  <2> QED BY <1>7, <1>9, <1>12, <2>1, <2>3, <2>5 DEF SameOutcome
<1>13. DecodedAs(w[j], p) BY <1>8, <1>11 DEF SameOutcome, DecodedAs
<1> QED BY <1>1, <1>2, <1>6, <1>12, <1>13

-----------------------------------------------------------------------------
(* The answers so far.  Each is what the decoder makes in one piece of the *)
(* bytes from where the request began to where it was over; the n-th       *)
(* request began with the n-th message, until one has had trailers; and a  *)
(* queued answer is the last one, of the request at the front.             *)

Outcome(a) == InOnePiece(SubSeq(Stream(wire), a.at + 1, a.seen))

AnswerOK(a) ==
  /\ a.at \in Nat /\ a.seen \in Nat /\ a.at <= a.seen /\ a.seen <= Len(Stream(wire))
  /\ a.r # 0 /\ Outcome(a).r = a.r /\ Outcome(a).client.bodyBuf = a.decoded
  /\ a.code = Reply(Outcome(a).client).code /\ a.body = Reply(Outcome(a).client).body

Recorded == Listed(answers) /\ \A i \in 1 .. Len(answers) : AnswerOK(answers[i])

Pending ==
  up /\ open /\ c.responseQueued =>
    /\ Len(answers) > 0
    /\ answers[Len(answers)].at = erased
    /\ ~c.closeFlag => answers[Len(answers)].r = 1
    /\ c.consumedBytes = Outcome(answers[Len(answers)]).client.consumedBytes

Trailing(k) == \E j \in 1 .. k : j <= Len(wire) /\ wire[j].trailers
InPlace(k, at) ==
  at = Start(wire, k) /\ k <= Len(wire) + 1 /\ \A j \in 1 .. k - 1 : wire[j].wellFormed

Placed == \A i \in 1 .. Len(answers) :
  Trailing(i - 1) \/ (InPlace(i, answers[i].at) /\ i <= Len(wire))
Ready == up /\ open /\ ~c.responseQueued =>
  Trailing(Len(answers)) \/ InPlace(Len(answers) + 1, erased)

History == Recorded /\ Pending /\ Placed /\ Ready

LEMMA InitHistory == ASSUME Init PROVE History
<1>1. answers = << >> /\ erased = 0 /\ c.responseQueued = FALSE BY DEF Init, NewClient
<1>2. wire \in Seq(Messages) BY WireAssumption DEF Init
<1>3. Len(answers) = 0 BY <1>1, EmptySeq
<1>4. Listed(answers)
  <2>1. answers \in Seq(Nat) BY <1>1, EmptySeq
  <2> QED BY <2>1, SeqListed
<1>5. \A i \in 1 .. Len(answers) : FALSE BY <1>3
<1>6. InPlace(Len(answers) + 1, erased)
  <2>1. Len(wire) \in Nat BY <1>2, LenProperties
  <2>2. PICK k \in Nat : k = Len(answers) + 1 /\ k = 1 BY <1>3
  <2>3. Start(wire, 1) = 0 BY <1>2, StartEnds
  <2>4. k <= Len(wire) + 1 /\ \A j \in 1 .. k - 1 : FALSE BY <2>1, <2>2
  <2> QED BY <1>1, <2>2, <2>3, <2>4 DEF InPlace
<1> QED BY <1>1, <1>4, <1>5, <1>6 DEF History, Recorded, Pending, Placed, Ready

(* The answer that Queue appends. *)
Appends(s) ==
  /\ Listed(answers') /\ Len(answers') = Len(answers) + 1
  /\ \A i \in 1 .. Len(answers) : answers'[i] = answers[i]
  /\ answers'[Len(answers) + 1].at = erased /\ answers'[Len(answers) + 1].r = s.r
  /\ Outcome(answers'[Len(answers) + 1]) = s
  /\ AnswerOK(answers'[Len(answers) + 1])

LEMMA QueueAppends ==
  ASSUME Inv, Listed(answers), NEW s, Queue(s), s.r # 0,
         s = InOnePiece(SubSeq(Stream(wire), erased + 1, arrived')),
         arrived' \in Nat, erased <= arrived', arrived' <= Len(Stream(wire))
  PROVE  Appends(s)
<1>1. PICK reply, a :
        /\ reply = Reply(s.client) /\ answers' = Append(answers, a)
        /\ a = [code |-> reply.code, body |-> reply.body, r |-> s.r,
                decoded |-> s.client.bodyBuf, at |-> erased, seen |-> arrived']
  BY Zenon DEF Queue
<1>2. a.code = reply.code /\ a.body = reply.body BY <1>1
<1>3. a.r = s.r /\ a.decoded = s.client.bodyBuf /\ a.at = erased /\ a.seen = arrived' BY <1>1
<1>4. PICK t : t = Append(answers, a) OBVIOUS
<1>5. /\ Listed(t) /\ Len(t) = Len(answers) + 1 /\ t[Len(answers) + 1] = a
      /\ \A i \in 1 .. Len(answers) : t[i] = answers[i]
  BY <1>4, Appended
<1>6. answers' = t BY <1>1, <1>4
<1>7. Outcome(a) = s BY <1>3 DEF Outcome
<1>8. erased \in Nat BY DEF Inv, Buffered
<1>9. AnswerOK(a) BY <1>1, <1>2, <1>3, <1>7, <1>8 DEF AnswerOK
<1> QED BY <1>3, <1>5, <1>6, <1>7, <1>9 DEF Appends

(* A request that begins where one may begin is one of the client's.       *)
LEMMA AppendsInPlace ==
  ASSUME Inv, History, up, open, ~c.responseQueued, NEW s, Appends(s),
         arrived' \in Nat, arrived < arrived', arrived' <= Len(Stream(wire)), wire' = wire
  PROVE  Placed'
<1>1. Len(answers) \in Nat BY DEF History, Recorded, Listed
<1>2. PICK k \in Nat : k = Len(answers) + 1 BY <1>1
<1>3. Trailing(Len(answers)) \/ InPlace(k, erased) BY <1>2 DEF History, Ready
<1>4. wire \in Seq(Messages) /\ erased \in Nat /\ arrived \in Nat /\ erased <= arrived
  BY DEF Inv, Buffered
<1>5. Trailing(k - 1) \/ (InPlace(k, erased) /\ k <= Len(wire))
  <2>1. CASE Trailing(Len(answers))
    <3>1. k - 1 = Len(answers) BY <1>1, <1>2
    <3> QED BY <2>1, <3>1
  <2>2. CASE InPlace(k, erased)
    <3>1. SUFFICES ASSUME ~ (k <= Len(wire)) PROVE FALSE BY <2>2
    <3>2. k = Len(wire) + 1
      <4>1. Len(wire) \in Nat BY <1>4, LenProperties
      <4>2. k <= Len(wire) + 1 BY <2>2 DEF InPlace
      <4> QED BY <3>1, <4>1, <4>2
    <3>3. erased = Len(Stream(wire)) BY <1>4, <2>2, <3>2, StartEnds DEF InPlace
    <3> QED BY <1>4, <3>3
  <2> QED BY <1>3, <2>1, <2>2
<1>6. ASSUME NEW i \in 1 .. Len(answers')
      PROVE  Trailing(i - 1) \/ (InPlace(i, answers'[i].at) /\ i <= Len(wire))
  <2>1. Len(answers') = k BY <1>2 DEF Appends
  <2>2. CASE i = k
    <3>1. answers'[k].at = erased BY <1>2 DEF Appends
    <3> QED BY <1>5, <2>2, <3>1
  <2>3. CASE i # k
    <3>1. i \in 1 .. Len(answers) BY <1>1, <1>2, <2>1, <2>3
    <3>2. answers'[i] = answers[i] BY <3>1 DEF Appends
    <3> QED BY <3>1, <3>2 DEF History, Placed
  <2> QED BY <2>2, <2>3
<1> QED BY <1>6 DEF Placed, Trailing, InPlace

LEMMA ReadKeepsHistory ==
  ASSUME Inv, History, readOnce PROVE History'
<1>1. PICK n \in 1 .. Len(Stream(wire)) - arrived :
        /\ arrived' = arrived + n
        /\ Receives([c EXCEPT !.inBuff = @ \o SubSeq(Stream(wire), arrived + 1, arrived + n)])
  BY DEF readOnce
<1>2. PICK d : d = [c EXCEPT !.inBuff = @ \o SubSeq(Stream(wire), arrived + 1, arrived + n)] OBVIOUS
<1>3. up /\ open /\ open' = open /\ wire' = wire /\ erased' = erased BY DEF readOnce
<1>4. Extended(d, arrived') BY <1>1, <1>2, Received, Zenon
<1>5. ReadEffect(d) BY <1>1, <1>2, <1>3, <1>4, ReadDoes, Zenon
<1>6. /\ arrived' \in Nat /\ erased <= arrived' /\ arrived' <= Len(Stream(wire))
      /\ d.inBuff = SubSeq(Stream(wire), erased + 1, arrived') /\ Frame(d) = Frame(c)
      /\ d.consumedBytes = c.consumedBytes
  BY <1>4 DEF Extended
<1>7. arrived < arrived' BY <1>1 DEF Inv, Buffered
<1>8. CASE UNCHANGED answers
  <2>1. Recorded' /\ Placed'
    BY <1>3, <1>8 DEF History, Recorded, Placed, AnswerOK, Outcome, Trailing, InPlace
  <2>2. CASE c.responseQueued /\ c' = d /\ UNCHANGED up
    <3>1. /\ c'.responseQueued = c.responseQueued /\ c'.closeFlag = c.closeFlag
          /\ c'.consumedBytes = c.consumedBytes
      BY <1>6, <2>2 DEF Frame
    <3>2. Pending' BY <1>3, <1>8, <2>2, <3>1 DEF History, Pending, Outcome
    <3>3. Ready' BY <2>2, <3>1 DEF Ready
    <3> QED BY <2>1, <3>2, <3>3 DEF History
  <2>3. ASSUME NEW s, ProgressOK(d.inBuff, s), c' = s.client, up' = FALSE \/ up' = up, ~c.responseQueued
        PROVE  History'
    <3>1. c'.responseQueued = FALSE BY <2>3 DEF ProgressOK
    <3>2. Pending' BY <3>1 DEF Pending
    <3>3. Ready' BY <1>3, <1>8, <2>3 DEF History, Ready, Trailing, InPlace
    <3> QED BY <2>1, <3>2, <3>3 DEF History
  <2>4. c.responseQueued => c' = d /\ UNCHANGED up BY <1>5, Zenon DEF ReadEffect
  <2>5. ASSUME ~c.responseQueued
        PROVE  \/ \E s : ProgressOK(d.inBuff, s) /\ c' = s.client /\ (up' = FALSE \/ up' = up)
               \/ \E s : Queue(s) /\ s.r # 0 /\ s = InOnePiece(d.inBuff)
    BY <1>5, <2>5, Zenon DEF ReadEffect
  <2>6. ASSUME NEW s, Queue(s), s.r # 0, s = InOnePiece(d.inBuff) PROVE FALSE
    <3>1. Appends(s) BY <1>6, <2>6, QueueAppends DEF History, Recorded
    <3>2. Len(answers') = Len(answers) + 1 /\ Len(answers) \in Nat
      BY <3>1 DEF Appends, History, Recorded, Listed
    <3> QED BY <1>8, <3>2
  <2> QED BY <2>2, <2>3, <2>4, <2>5, <2>6
<1>9. CASE ~UNCHANGED answers
  <2>1. ~c.responseQueued BY <1>5, <1>9, Zenon DEF ReadEffect
  <2>2. PICK s : /\ s = InOnePiece(d.inBuff) /\ ProgressOK(d.inBuff, s)
                 /\ s.r # 0 /\ up' = up /\ Queue(s)
                 /\ \E close \in BOOLEAN : c' = Queued(s.client, close) /\ (s.r = -1 => close)
    BY <1>5, <1>9, Zenon DEF ReadEffect
  <2>3. PICK close \in BOOLEAN : c' = Queued(s.client, close) /\ (s.r = -1 => close) BY <2>2
  <2>4. Appends(s) BY <1>6, <2>2, QueueAppends DEF History, Recorded
  <2>5. Placed' BY <1>3, <1>6, <1>7, <2>1, <2>4, AppendsInPlace
  <2>6. PICK k : k = Len(answers) + 1 OBVIOUS
  <2>7. Len(answers) \in Nat /\ Len(answers') = k /\ k \in Nat /\ k > 0
    BY <2>4, <2>6 DEF Appends, History, Recorded, Listed
  <2>8. /\ Listed(answers') /\ \A i \in 1 .. Len(answers) : answers'[i] = answers[i]
        /\ answers'[k].at = erased /\ answers'[k].r = s.r /\ Outcome(answers'[k]) = s
        /\ AnswerOK(answers'[k])
    BY <2>4, <2>6 DEF Appends
  <2>9. ASSUME NEW i \in 1 .. Len(answers') PROVE AnswerOK(answers'[i])
    <3>1. CASE i = k BY <2>8, <3>1
    <3>2. CASE i # k
      <4>1. i \in 1 .. Len(answers) BY <2>6, <2>7, <3>2
      <4> QED BY <2>8, <4>1 DEF History, Recorded
    <3> QED BY <3>1, <3>2
  <2>10. Recorded' BY <1>3, <2>8, <2>9 DEF Recorded, AnswerOK, Outcome
  <2>11. Within(s.client) /\ s.r \in {-1, 0, 1} BY <2>2 DEF ProgressOK
  <2>12. /\ c'.responseQueued = TRUE /\ c'.closeFlag = close /\ c'.consumedBytes = s.client.consumedBytes
    BY <2>3, <2>11, QueuedFields
  <2>13. ~c'.closeFlag => s.r = 1 BY <2>2, <2>3, <2>11, <2>12
  <2>14. Pending' BY <1>3, <2>7, <2>8, <2>12, <2>13 DEF Pending, Outcome
  <2>15. Ready' BY <2>12 DEF Ready
  <2> QED BY <2>5, <2>10, <2>14, <2>15 DEF History
<1> QED BY <1>8, <1>9

(* Where the next request begins. *)
LEMMA WriteKeepsHistory ==
  ASSUME EachAlone, wire \in Wires, Inv, History, writeOnce PROVE History'
<1>1. up' = up /\ wire' = wire /\ answers' = answers /\ up /\ open /\ c.responseQueued
  BY DEF writeOnce
<1>2. Recorded' /\ Placed'
  BY <1>1 DEF History, Recorded, Placed, AnswerOK, Outcome, Trailing, InPlace
<1>3. CASE c.closeFlag
  <2>1. open' = FALSE BY <1>3 DEF writeOnce, closeClient
  <2> QED BY <1>2, <2>1 DEF History, Pending, Ready
<1>4. CASE ~c.closeFlag
  <2>1. PICK b : b = SubSeq(c.inBuff, c.consumedBytes + 1, Len(c.inBuff)) OBVIOUS
  <2>2. c' = Fresh(b) /\ erased' = erased + c.consumedBytes
    BY <1>4, <2>1, Zenon DEF writeOnce, resetKeepAlive, Fresh
  <2>3. b \in Seq(Unit) BY <2>1, ErasedPiece
  <2>4. c'.responseQueued = FALSE BY <2>2, <2>3, FreshFields
  <2>5. Pending' BY <2>4 DEF Pending
  <2>6. PICK n \in Nat : n = Len(answers) /\ n > 0 BY <1>1 DEF History, Pending, Recorded, Listed
  <2>7. PICK a : a = answers[n] OBVIOUS
  <2>8. a.at = erased /\ a.r = 1 /\ c.consumedBytes = Outcome(a).client.consumedBytes
    BY <1>1, <1>4, <2>6, <2>7 DEF History, Pending
  <2>9. AnswerOK(a) BY <2>6, <2>7 DEF History, Recorded
  <2>10. Trailing(n - 1) \/ (InPlace(n, erased) /\ n <= Len(wire))
    BY <2>6, <2>7, <2>8 DEF History, Placed
  <2>11. CASE Trailing(n - 1)
    <3>1. Trailing(n) BY <2>6, <2>11 DEF Trailing
    <3>2. Ready' BY <1>1, <2>6, <3>1 DEF Ready, Trailing
    <3> QED BY <1>2, <2>5, <3>2 DEF History
  <2>12. CASE InPlace(n, erased) /\ n <= Len(wire)
    <3>1. wire \in Seq(Messages) BY DEF Inv, Buffered
    <3>2. Len(wire) \in Nat /\ DOMAIN wire = 1 .. Len(wire) BY <3>1, LenProperties
    <3>3. n \in 1 .. Len(wire) BY <2>6, <2>12, <3>2
    <3>4. DecodedAlone(wire[n]) BY <3>2, <3>3 DEF EachAlone
    <3>5. a.at = Start(wire, n) BY <2>8, <2>12 DEF InPlace
    <3>6. /\ a.seen \in Nat /\ a.at <= a.seen /\ a.seen <= Len(Stream(wire))
          /\ Outcome(a).r = 1 /\ a.at \in Nat
      BY <2>8, <2>9 DEF AnswerOK
    <3>7. DecodedAs(wire[n], Outcome(a)) BY <3>1, <3>3, <3>4, <3>5, <3>6, Whole DEF Outcome
    <3>8. /\ wire[n].wellFormed
          /\ wire[n].trailers \/ c.consumedBytes = Len(Bytes(wire[n]))
      BY <2>8, <3>6, <3>7 DEF DecodedAs
    <3>9. CASE wire[n].trailers
      <4>1. Trailing(n) BY <3>3, <3>9 DEF Trailing
      <4>2. Ready' BY <1>1, <2>6, <4>1 DEF Ready, Trailing
      <4> QED BY <1>2, <2>5, <4>2 DEF History
    <3>10. CASE c.consumedBytes = Len(Bytes(wire[n]))
      <4>1. erased' = Start(wire, n + 1)
        BY <2>2, <2>8, <3>1, <3>3, <3>5, <3>10, StartMoves
      <4>2. \A j \in 1 .. n : wire[j].wellFormed
        <5>1. \A j \in 1 .. n : j = n \/ j \in 1 .. n - 1 BY <2>6
        <5> QED BY <2>12, <3>8, <5>1 DEF InPlace
      <4>3. PICK k : k = n + 1 OBVIOUS
      <4>4. k - 1 = n /\ k <= Len(wire) + 1 BY <2>6, <3>2, <3>3, <4>3
      <4>5. erased' = Start(wire, k) /\ \A j \in 1 .. k - 1 : wire[j].wellFormed BY <4>1, <4>2, <4>3, <4>4
      <4>6. Ready' BY <1>1, <2>6, <4>3, <4>4, <4>5 DEF Ready, InPlace
      <4> QED BY <1>2, <2>5, <4>6 DEF History
    <3> QED BY <3>8, <3>9, <3>10
  <2> QED BY <2>10, <2>11, <2>12
<1> QED BY <1>3, <1>4

(* What holds of every state. *)
Kept == Inv /\ wire \in Wires /\ History

LEMMA HistoryKept ==
  ASSUME EachAlone
  PROVE  (Init => Kept) /\ (Kept /\ [Next]_vars => Kept')
<1>1. Init => Kept BY InitSound, InitHistory DEF Kept, Init
<1>2. ASSUME Kept, [Next]_vars PROVE Kept'
  <2>1. Inv' BY <1>2, StepSound DEF Kept
  <2>2. wire' = wire BY <1>2 DEF Next, readOnce, writeOnce, vars
  <2>3. CASE readOnce BY <1>2, <2>1, <2>2, <2>3, ReadKeepsHistory DEF Kept
  <2>4. CASE writeOnce BY <1>2, <2>1, <2>2, <2>4, WriteKeepsHistory DEF Kept
  <2>5. CASE UNCHANGED vars
    <3>1. History'
      BY <1>2, <2>5 DEF Kept, vars, History, Recorded, Pending, Placed, Ready, AnswerOK, Outcome,
                        Trailing, InPlace
    <3> QED BY <1>2, <2>1, <2>2, <3>1 DEF Kept
  <2> QED BY <1>2, <2>3, <2>4, <2>5 DEF Next
<1> QED BY <1>1, <1>2

(* The message an answer is to. *)
LEMMA MessageOf ==
  ASSUME Kept, NEW i \in 1 .. Len(answers), Of(i) # {}
  PROVE  \E j \in 1 .. Len(wire) :
           /\ Of(i) = {j} /\ Message(i) = wire[j] /\ Start(wire, j) = answers[i].at
<1>1. wire \in Seq(Messages) BY DEF Kept, Inv, Buffered
<1>2. Len(wire) \in Nat /\ DOMAIN wire = 1 .. Len(wire) BY <1>1, LenProperties
<1>3. PICK j : j \in Of(i) OBVIOUS
<1>4. j \in 1 .. Len(wire) /\ Start(wire, j) = answers[i].at BY <1>2, <1>3 DEF Of
<1>5. ASSUME NEW k \in Of(i) PROVE k = j
  <2>1. k \in 1 .. Len(wire) /\ Start(wire, k) = answers[i].at BY <1>2 DEF Of
  <2>2. k \in 1 .. Len(wire) + 1 /\ j \in 1 .. Len(wire) + 1 BY <1>2, <1>4, <2>1
  <2> QED BY <1>1, <1>4, <2>1, <2>2, StartsApart
<1>6. Of(i) = {j} BY <1>3, <1>5
<1>7. (CHOOSE k \in Of(i) : TRUE) = j BY <1>6
<1> QED BY <1>4, <1>6, <1>7 DEF Message

(* Each message being decoded right by itself, all are in any stream of    *)
(* them and however it is split: no request is over before all of it has   *)
(* come, and its body is what the client put in.                           *)
THEOREM BodiesAreDecoded == ASSUME EachAlone PROVE Spec => []BodiesDecoded
<1>1. Kept => BodiesDecoded
  <2> SUFFICES ASSUME Kept, NEW i \in Answered, Of(i) # {}
               PROVE  IF Message(i).wellFormed
                      THEN /\ answers[i].r = 1 /\ answers[i].seen >= End(i)
                           /\ answers[i].decoded = Message(i).data
                      ELSE answers[i].r = -1
    BY DEF BodiesDecoded
  <2>1. i \in 1 .. Len(answers) BY DEF Kept, History, Recorded, Listed, Answered
  <2>2. PICK j \in 1 .. Len(wire) : Message(i) = wire[j] /\ Start(wire, j) = answers[i].at
    BY <2>1, MessageOf
  <2>3. wire \in Seq(Messages) BY DEF Kept, Inv, Buffered
  <2>4. DecodedAlone(wire[j])
    <3>1. j \in DOMAIN wire BY <2>3, LenProperties
    <3> QED BY <3>1 DEF EachAlone, Kept
  <2>5. PICK a : a = answers[i] OBVIOUS
  <2>6. AnswerOK(a) BY <2>1, <2>5 DEF Kept, History, Recorded
  <2>7. /\ a.seen \in Nat /\ Start(wire, j) <= a.seen /\ a.seen <= Len(Stream(wire))
        /\ Outcome(a).r = a.r /\ a.r # 0 /\ Outcome(a).client.bodyBuf = a.decoded
        /\ a.at = Start(wire, j)
    BY <2>2, <2>5, <2>6 DEF AnswerOK
  <2>8. DecodedAs(wire[j], Outcome(a)) /\ (wire[j].wellFormed => a.seen >= Start(wire, j + 1))
    BY <2>3, <2>4, <2>7, Whole DEF Outcome
  <2>9. End(i) = Start(wire, j + 1) BY <2>2, <2>3, StartMoves DEF End
  <2> QED BY <2>2, <2>5, <2>7, <2>8, <2>9 DEF DecodedAs
<1> QED BY <1>1, HistoryKept, PTL DEF Spec

(* Then every request starts where its message does, until one has had     *)
(* trailers, and nothing behind a malformed one is read as a request.      *)
THEOREM EachStartsAtItsHead == ASSUME EachAlone PROVE Spec => []StartsAtItsHead
<1>1. Kept => StartsAtItsHead
  <2> SUFFICES ASSUME Kept, NEW i \in Answered, ~ \E j \in 1 .. i - 1 : wire[j].trailers
               PROVE  Of(i) = {i} /\ \A j \in 1 .. i - 1 : Message(j).wellFormed
    BY DEF StartsAtItsHead
  <2>1. wire \in Seq(Messages) BY DEF Kept, Inv, Buffered
  <2>2. Len(wire) \in Nat /\ DOMAIN wire = 1 .. Len(wire) BY <2>1, LenProperties
  <2>3. Len(answers) \in Nat /\ i \in 1 .. Len(answers)
    BY DEF Kept, History, Recorded, Listed, Answered
  <2>4. ASSUME NEW k \in 1 .. i PROVE k <= Len(wire) /\ InPlace(k, answers[k].at)
    <3>1. k \in 1 .. Len(answers) /\ \A j \in 1 .. k - 1 : j \in 1 .. i - 1 BY <2>3
    <3>2. ~ Trailing(k - 1) BY <3>1 DEF Trailing
    <3> QED BY <3>1, <3>2 DEF Kept, History, Placed
  <2>5. ASSUME NEW k \in 1 .. i PROVE Of(k) = {k} /\ Message(k) = wire[k]
    <3>1. k \in 1 .. Len(answers) /\ k \in DOMAIN wire BY <2>2, <2>3, <2>4
    <3>2. k \in Of(k) BY <2>4, <3>1 DEF Of, InPlace
    <3> QED BY <3>1, <3>2, MessageOf
  <2>6. i \in 1 .. i /\ \A j \in 1 .. i - 1 : j \in 1 .. i BY <2>3
  <2>7. \A j \in 1 .. i - 1 : wire[j].wellFormed BY <2>4, <2>6 DEF InPlace
  <2> QED BY <2>5, <2>6, <2>7
<1> QED BY <1>1, HistoryKept, PTL DEF Spec

-----------------------------------------------------------------------------
(* Messages that are not chunked                                           *)

(* The lines that end the headers: a line end and an empty line.           *)
LEMMA EmptyLine ==
  /\ Len(Eol \o Eol) = 4
  /\ (Eol \o Eol)[1] = "CR" /\ (Eol \o Eol)[2] = "LF"
BY DEF Eol

(* Where nothing but a head is in front of them, they are found at once.   *)
LEMMA HeadAtFront ==
  ASSUME NEW s \in Seq(Unit), Len(s) >= 5, NEW h \in DOMAIN Heads, s[1] = h,
         SubSeq(s, 2, 5) = Eol \o Eol
  PROVE  HeadEnd(Fresh(s)) = 1 /\ HeadIn(SubSeq(s, 1, 1)) = Heads[h]
<1>1. PICK p \in Seq(Unit) : p = Eol \o Eol /\ Len(p) = 4 BY Patterns
<1>2. p[1] = "CR" /\ p[2] = "LF" BY <1>1, EmptyLine
<1>3. Len(s) \in Nat BY LenProperties
<1>4. PICK zero \in Nat, one \in Nat : zero = 0 /\ one = 1 OBVIOUS
<1>5. Matches(s, p, one)
  <2>1. one + 1 = 2 /\ one + Len(p) = 5 BY <1>1, <1>4
  <2> QED BY <1>1, <2>1 DEF Matches
<1>6. ~Matches(s, p, zero)
  <2>1. SUFFICES ASSUME Matches(s, p, zero) PROVE FALSE OBVIOUS
  <2>2. PICK four \in Nat, five \in Nat : four = 4 /\ five = 5 OBVIOUS
  <2>3. SubSeq(s, zero + 1, four) = p
    <3>1. zero + Len(p) = four BY <1>1, <1>4, <2>2
    <3> QED BY <2>1, <3>1 DEF Matches
  <2>4. p[2] = s[2]
    <3>1. \A i \in 1 .. four - zero : SubSeq(s, zero + 1, four)[i] = s[zero + i]
      <4>1. zero <= four /\ four <= Len(s) BY <1>3, <1>4, <2>2
      <4> QED BY <4>1, StreamPiece
    <3>2. 2 \in 1 .. four - zero /\ zero + 2 = 2 BY <1>4, <2>2
    <3> QED BY <2>3, <3>1, <3>2
  <2>5. p[1] = s[2]
    <3>1. SubSeq(s, one + 1, five) = p
      <4>1. one + 1 = 2 BY <1>4
      <4> QED BY <1>1, <2>2, <4>1
    <3>2. \A i \in 1 .. five - one : SubSeq(s, one + 1, five)[i] = s[one + i]
      <4>1. one <= five /\ five <= Len(s) BY <1>3, <1>4, <2>2
      <4> QED BY <4>1, StreamPiece
    <3>3. 1 \in 1 .. five - one /\ one + 1 = 2 BY <1>4, <2>2
    <3> QED BY <3>1, <3>2, <3>3
  <2> QED BY <1>2, <2>4, <2>5
<1>7. Find(s, p, zero) = one
  <2>1. PICK f : f = Find(s, p, zero) OBVIOUS
  <2>2. FoundAt(s, p, zero, f) \/ NowhereIn(s, p, zero) BY <2>1, FindFinds
  <2>3. one >= zero /\ one + Len(p) <= Len(s) BY <1>1, <1>3, <1>4
  <2>4. ~NowhereIn(s, p, zero) BY <1>5, <2>3 DEF NowhereIn
  <2>5. /\ f \in Nat /\ Matches(s, p, f)
        /\ \A q \in Nat : q >= zero /\ q < f => ~Matches(s, p, q)
    BY <2>2, <2>4 DEF FoundAt
  <2>6. ~ (one < f) BY <1>5, <2>3, <2>5
  <2>7. f # zero BY <1>6, <2>5
  <2> QED BY <1>4, <2>1, <2>5, <2>6, <2>7
<1>8. HeadEnd(Fresh(s)) = 1
  <2>1. HeadEnd(Fresh(s)) = Find(s, p, zero) BY <1>1, <1>4, FreshFields DEF HeadEnd
  <2> QED BY <1>4, <1>7, <2>1
<1>9. HeadIn(SubSeq(s, 1, 1)) = Heads[h]
  <2>1. PICK block : block = SubSeq(s, 1, 1) OBVIOUS
  <2>2. block \in Seq(Unit) /\ Len(block) = 1 /\ block[1] = h
    <3>1. zero + 1 = 1 /\ one = 1 /\ zero <= one /\ one <= Len(s) BY <1>3, <1>4
    <3>2. /\ SubSeq(s, zero + 1, one) \in Seq(Unit) /\ Len(SubSeq(s, zero + 1, one)) = one - zero
          /\ \A i \in 1 .. one - zero : SubSeq(s, zero + 1, one)[i] = s[zero + i]
      BY <3>1, StreamPiece
    <3>3. one - zero = 1 /\ 1 \in 1 .. one - zero BY <1>4
    <3> QED BY <2>1, <3>1, <3>2, <3>3
  <2> DEFINE text == {i \in DOMAIN block : block[i] \notin ToSet(Eol)}
  <2>3. DOMAIN block = {1}
    <3>1. DOMAIN block = 1 .. 1 BY <2>2, LenProperties
    <3> QED BY <3>1
  <2>4. h \notin ToSet(Eol)
    <3>1. ToSet(Eol) = {"CR", "LF"} BY DEF ToSet, Eol
    <3> QED BY <3>1, HeadAssumption
  <2>5. text = {1} BY <2>2, <2>3, <2>4
  <2>6. \E i \in text : text = {i} /\ block[i] \in DOMAIN Heads BY <2>2, <2>5
  <2>7. (CHOOSE i \in text : TRUE) = 1 BY <2>5
  <2>8. HeadIn(block) = Heads[block[CHOOSE i \in text : TRUE]] BY <2>6, Zenon DEF HeadIn
  <2> QED BY <2>1, <2>2, <2>7, <2>8, Zenon
<1> QED BY <1>8, <1>9

LEMMA HeadFound ==
  ASSUME NEW s \in Seq(Unit), Len(s) >= 5, NEW h \in DOMAIN Heads, s[1] = h,
         SubSeq(s, 2, 5) = Eol \o Eol
  PROVE  Framed(Fresh(s)) = WithFrame(Marked(Fresh(s), 1), Heads[h])
<1>1. HeadEnd(Fresh(s)) = 1 /\ HeadIn(SubSeq(s, 1, 1)) = Heads[h] BY HeadAtFront
<1>2. 1 # NPos BY DEF NPos
<1> QED BY <1>1, <1>2, FramedIs

(* The units of a message: head, empty line, body.                         *)
LaidOut(b, h, u) ==
  /\ Len(b) = 5 + Len(u) /\ b[1] = h
  /\ b[2] = "CR" /\ b[3] = "LF" /\ b[4] = "CR" /\ b[5] = "LF"
  /\ \A i \in 1 .. Len(u) : b[5 + i] = u[i]

LEMMA BytesLaidOut ==
  ASSUME NEW m \in Messages PROVE LaidOut(Bytes(m), m.head, m.units)
<1>1. m.head \in Unit /\ m.units \in Seq(Unit) BY DEF Messages, Unit
<1>2. PICK h \in Seq(Unit) : h = <<m.head>> /\ Len(h) = 1 /\ h[1] = m.head
  <2>1. PICK e \in Unit : e = m.head BY <1>1
  <2>2. <<e>> \in Seq(Unit) /\ Len(<<e>>) = 1 /\ <<e>>[1] = e OBVIOUS
  <2> QED BY <2>1, <2>2
<1>3. PICK e \in Seq(Unit) : e = Eol /\ Len(e) = 2 /\ e[1] = "CR" /\ e[2] = "LF"
  <2>1. Eol[1] = "CR" /\ Eol[2] = "LF" BY DEF Eol
  <2> QED BY <2>1, Patterns
<1>4. PICK u \in Seq(Unit) : u = m.units /\ Len(u) \in Nat BY <1>1, LenProperties
<1>5. PICK x \in Seq(Unit) : /\ x = h \o e /\ Len(x) = Len(h) + Len(e)
                             /\ \A i \in 1 .. Len(h) : x[i] = h[i]
                             /\ \A i \in 1 .. Len(e) : x[Len(h) + i] = e[i]
  <2>1. PICK w : w = h \o e OBVIOUS
  <2>2. /\ w \in Seq(Unit) /\ Len(w) = Len(h) + Len(e)
        /\ \A i \in 1 .. Len(h) : w[i] = h[i]
        /\ \A i \in 1 .. Len(e) : w[Len(h) + i] = e[i]
    BY <2>1, Joined
  <2> QED BY <2>1, <2>2
<1>6. PICK y \in Seq(Unit) : /\ y = x \o e /\ Len(y) = Len(x) + Len(e)
                             /\ \A i \in 1 .. Len(x) : y[i] = x[i]
                             /\ \A i \in 1 .. Len(e) : y[Len(x) + i] = e[i]
  <2>1. PICK w : w = x \o e OBVIOUS
  <2>2. /\ w \in Seq(Unit) /\ Len(w) = Len(x) + Len(e)
        /\ \A i \in 1 .. Len(x) : w[i] = x[i]
        /\ \A i \in 1 .. Len(e) : w[Len(x) + i] = e[i]
    BY <2>1, Joined
  <2> QED BY <2>1, <2>2
<1>7. PICK z \in Seq(Unit) : /\ z = y \o u /\ Len(z) = Len(y) + Len(u)
                             /\ \A i \in 1 .. Len(y) : z[i] = y[i]
                             /\ \A i \in 1 .. Len(u) : z[Len(y) + i] = u[i]
  <2>1. PICK w : w = y \o u OBVIOUS
  <2>2. /\ w \in Seq(Unit) /\ Len(w) = Len(y) + Len(u)
        /\ \A i \in 1 .. Len(y) : w[i] = y[i]
        /\ \A i \in 1 .. Len(u) : w[Len(y) + i] = u[i]
    BY <2>1, Joined
  <2> QED BY <2>1, <2>2
<1>8. Bytes(m) = z BY <1>2, <1>3, <1>4, <1>5, <1>6, <1>7 DEF Bytes
<1>9. Len(x) = 3 /\ x[1] = m.head /\ x[2] = "CR" /\ x[3] = "LF"
  <2>1. 1 \in 1 .. Len(h) /\ 1 \in 1 .. Len(e) /\ 2 \in 1 .. Len(e) BY <1>2, <1>3
  <2>2. Len(x) = 3 BY <1>2, <1>3, <1>5
  <2>3. x[1] = m.head BY <1>2, <1>5, <2>1
  <2>4. x[1 + 1] = e[1] /\ x[1 + 2] = e[2] BY <1>2, <1>5, <2>1
  <2> QED BY <1>3, <2>2, <2>3, <2>4
<1>10. Len(y) = 5 /\ y[1] = m.head /\ y[2] = "CR" /\ y[3] = "LF" /\ y[4] = "CR" /\ y[5] = "LF"
  <2>1. \A i \in 1 .. 3 : y[i] = x[i] BY <1>6, <1>9
  <2>2. y[3 + 1] = e[1] /\ y[3 + 2] = e[2] BY <1>3, <1>6, <1>9
  <2>3. Len(y) = 5 BY <1>3, <1>6, <1>9
  <2> QED BY <1>3, <1>9, <2>1, <2>2, <2>3
<1>11. Len(z) = 5 + Len(u) /\ (\A i \in 1 .. 5 : z[i] = y[i]) /\ \A i \in 1 .. Len(u) : z[5 + i] = u[i]
  BY <1>7, <1>10
<1> QED BY <1>4, <1>8, <1>10, <1>11 DEF LaidOut

(* The empty line is where it is expected, in any part that holds it.      *)
LEMMA LineInPlace ==
  ASSUME NEW s \in Seq(Unit), Len(s) >= 5,
         s[2] = "CR", s[3] = "LF", s[4] = "CR", s[5] = "LF"
  PROVE  SubSeq(s, 2, 5) = Eol \o Eol
<1>1. PICK p \in Seq(Unit) : p = Eol \o Eol /\ Len(p) = 4 BY Patterns
<1>2. p[1] = "CR" /\ p[2] = "LF" /\ p[3] = "CR" /\ p[4] = "LF" BY <1>1 DEF Eol
<1>3. PICK one \in Nat, five \in Nat : one = 1 /\ five = 5 OBVIOUS
<1>4. one <= five /\ five <= Len(s) BY <1>3
<1>5. PICK t : t = SubSeq(s, one + 1, five) OBVIOUS
<1>6. t \in Seq(Unit) /\ Len(t) = five - one /\ \A i \in 1 .. five - one : t[i] = s[one + i]
  BY <1>4, <1>5, StreamPiece
<1>7. Len(t) = 4 /\ \A i \in 1 .. 4 : t[i] = s[1 + i] BY <1>3, <1>6
<1>8. t[1] = s[2] /\ t[2] = s[3] /\ t[3] = s[4] /\ t[4] = s[5]
  <2>1. t[1] = s[1 + 1] /\ t[2] = s[1 + 2] /\ t[3] = s[1 + 3] /\ t[4] = s[1 + 4] BY <1>7
  <2> QED BY <2>1
<1>9. ASSUME NEW i \in 1 .. Len(t) PROVE t[i] = p[i]
  <2>1. i = 1 \/ i = 2 \/ i = 3 \/ i = 4 BY <1>7
  <2> QED BY <1>2, <1>8, <2>1
<1>10. t = p BY <1>1, <1>6, <1>7, <1>9, SeqEqual
<1> QED BY <1>1, <1>3, <1>5, <1>10

(* The framing finds no chunks announced.                                  *)
Unchunked(h) == ~Heads[h].chunked

(* What readPlainBody has before it once the headers are found.            *)
LEMMA PlainProgress ==
  ASSUME NEW s \in Seq(Unit), NEW h \in DOMAIN Heads, Unchunked(h), s[1] = h,
         Len(s) >= 5, s[2] = "CR", s[3] = "LF", s[4] = "CR", s[5] = "LF"
  PROVE  LET n == 5 + Heads[h].framed
             p == InOnePiece(s)
         IN IF Len(s) < n THEN p.r = 0
            ELSE p.r = 1 /\ p.client.bodyBuf = SubSeq(s, 6, n) /\ p.client.consumedBytes = n
<1>1. SubSeq(s, 2, 5) = Eol \o Eol BY LineInPlace
<1>2. PICK head : head = Heads[h] OBVIOUS
<1>3. head.framed \in Nat /\ head.chunked = FALSE
  <2>1. head.framed \in Nat BY <1>2, HeadAssumption
  <2>2. head.chunked \in BOOLEAN /\ ~head.chunked
    BY <1>2, HeadAssumption, Zenon DEF Unchunked
  <2> QED BY <2>1, <2>2
<1>4. PICK one \in Nat : one = 1 OBVIOUS
<1>5. PICK f : f = WithFrame(Marked(Fresh(s), one), head) OBVIOUS
<1>6. Framed(Fresh(s)) = f BY <1>1, <1>2, <1>4, <1>5, HeadFound
<1>7. f \in Client /\ f.inBuff = s /\ f.headersDone = TRUE /\ f.parsePos = 5
  <2>1. FramedAs(f, s, one, head) BY <1>3, <1>5, WithFrameFields, Zenon
  <2>2. one + 4 = 5 BY <1>4
  <2> QED BY <2>1, <2>2 DEF FramedAs
<1>8. f.isChunked = FALSE /\ f.contentLength = head.framed
  <2>1. PICK g : g = Fresh(s) OBVIOUS
  <2>2. g \in Client BY <2>1, FreshFields
  <2>3. PICK pos \in Nat : pos = one + 4 BY <1>4
  <2>4. PICK te \in BOOLEAN : te = head.chunked BY <1>3
  <2>5. PICK k \in Nat : k = head.framed BY <1>3
  <2>6. f = [[g EXCEPT !.headersDone = TRUE, !.parsePos = pos] EXCEPT !.isChunked = te, !.contentLength = k]
    BY <1>5, <2>1, <2>3, <2>4, <2>5, Zenon DEF WithFrame, Marked
  <2>7. f.isChunked = te /\ f.contentLength = k BY <2>2, <2>6 DEF Client
  <2> QED BY <1>3, <2>4, <2>5, <2>7
<1>9. InOnePiece(s) = readPlainBody(f)
  <2>1. Progress(Fresh(s)) = Body(f) BY <1>6, <1>7, ProgressIs
  <2> QED BY <1>8, <2>1, OnePieceIs DEF Body
<1>10. Len(s) \in Nat BY LenProperties
<1>11. PICK n \in Nat : n = 5 + head.framed BY <1>3
<1>12. Unread(f) = Len(s) - 5 BY <1>7 DEF Unread
<1>13. CASE Len(s) < n
  <2>1. Unread(f) < f.contentLength BY <1>3, <1>8, <1>10, <1>11, <1>12, <1>13
  <2>2. readPlainBody(f) = Step(f, 0) BY <2>1 DEF readPlainBody
  <2> QED BY <1>2, <1>9, <1>11, <1>13, <2>2, StepIs
<1>14. CASE ~ (Len(s) < n)
  <2>1. ~ (Unread(f) < f.contentLength) BY <1>3, <1>8, <1>10, <1>11, <1>12, <1>14
  <2>2. PICK e : e = WithBody(f, SubSeq(s, 6, n), n) OBVIOUS
  <2>3. f.parsePos + 1 = 6 /\ f.parsePos + f.contentLength = n BY <1>7, <1>8, <1>11
  <2>4. readPlainBody(f) = Step(e, 1) BY <1>7, <2>1, <2>2, <2>3, Zenon DEF readPlainBody, WithBody
  <2>5. e.bodyBuf = SubSeq(s, 6, n) /\ e.consumedBytes = n BY <1>7, <2>2 DEF WithBody, Client
  <2>6. InOnePiece(s).client = e /\ InOnePiece(s).r = 1 BY <1>9, <2>4, StepIs
  <2> QED BY <1>2, <1>11, <1>14, <2>5, <2>6
<1> QED BY <1>2, <1>11, <1>13, <1>14

(* One unit before the end of an empty body, the headers have not ended.   *)
LEMMA StillNoHead ==
  ASSUME NEW s \in Seq(Unit), Len(s) = 4, s[2] = "CR"
  PROVE  InOnePiece(s).r = 0
<1>1. PICK p \in Seq(Unit) : p = Eol \o Eol /\ Len(p) = 4 BY Patterns
<1>2. p[2] = "LF" BY <1>1 DEF Eol
<1>3. PICK zero \in Nat, four \in Nat : zero = 0 /\ four = 4 OBVIOUS
<1>4. ~Matches(s, p, zero)
  <2>1. SUFFICES ASSUME Matches(s, p, zero) PROVE FALSE OBVIOUS
  <2>2. SubSeq(s, zero + 1, four) = p
    <3>1. zero + Len(p) = four BY <1>1, <1>3
    <3> QED BY <2>1, <3>1 DEF Matches
  <2>3. \A i \in 1 .. four - zero : SubSeq(s, zero + 1, four)[i] = s[zero + i]
    <3>1. zero <= four /\ four <= Len(s) BY <1>3
    <3> QED BY <3>1, StreamPiece
  <2>4. 2 \in 1 .. four - zero /\ zero + 2 = 2 BY <1>3
  <2>5. p[2] = s[2] BY <2>2, <2>3, <2>4
  <2> QED BY <1>2, <2>5
<1>5. Find(s, p, zero) = NPos
  <2>1. PICK f : f = Find(s, p, zero) OBVIOUS
  <2>2. FoundAt(s, p, zero, f) \/ f = NPos BY <2>1, FindFinds
  <2>3. ~FoundAt(s, p, zero, f)
    <3>1. SUFFICES ASSUME FoundAt(s, p, zero, f) PROVE FALSE OBVIOUS
    <3>2. f \in Nat /\ f + Len(p) <= Len(s) /\ Matches(s, p, f) BY <3>1 DEF FoundAt
    <3>3. f = zero BY <1>1, <1>3, <3>2
    <3> QED BY <1>4, <3>2, <3>3
  <2> QED BY <2>1, <2>2, <2>3
<1>6. HeadEnd(Fresh(s)) = NPos
  <2>1. HeadEnd(Fresh(s)) = Find(s, p, zero) BY <1>1, <1>3, FreshFields DEF HeadEnd
  <2> QED BY <1>5, <2>1
<1>7. Framed(Fresh(s)) = Fresh(s) BY <1>6, FramedIs
<1>8. Progress(Fresh(s)) = Step(Fresh(s), 0) BY <1>7, FreshFields, ProgressIs
<1> QED BY <1>8, OnePieceIs, StepIs

(* A message that is not chunked: the body is as long as its head says.    *)
Plain(m) ==
  /\ m.wellFormed /\ Unchunked(m.head)
  /\ Heads[m.head].framed = Len(m.units) /\ m.data = m.units

LEMMA PlainAlone == ASSUME NEW m \in Messages, Plain(m) PROVE DecodedAlone(m)
<1>1. PICK h \in DOMAIN Heads : h = m.head BY DEF Messages
<1>2. PICK u \in Seq(Unit) : u = m.units BY DEF Messages
<1>3. PICK b : b = Bytes(m) OBVIOUS
<1>4. b \in Seq(Unit) BY <1>3, MessageBytes
<1>5. LaidOut(b, h, u) BY <1>1, <1>2, <1>3, BytesLaidOut
<1>6. Len(u) \in Nat /\ Len(b) = 5 + Len(u) BY <1>5, LenProperties DEF LaidOut
<1>7. /\ b[1] = h /\ b[2] = "CR" /\ b[3] = "LF" /\ b[4] = "CR" /\ b[5] = "LF"
      /\ \A i \in 1 .. Len(u) : b[5 + i] = u[i]
  BY <1>5 DEF LaidOut
<1>8. Unchunked(h) /\ Heads[h].framed = Len(u) /\ m.wellFormed /\ m.data = u
  BY <1>1, <1>2 DEF Plain
<1>9. PICK n \in Nat, zero \in Nat, five \in Nat : n = Len(b) /\ zero = 0 /\ five = 5 BY <1>6
<1>10. SubSeq(b, 6, n) = u
  <2>1. five <= n /\ n <= Len(b) /\ five + 1 = 6 BY <1>6, <1>9
  <2>2. PICK t : t = SubSeq(b, five + 1, n) OBVIOUS
  <2>3. t \in Seq(Unit) /\ Len(t) = n - five /\ \A i \in 1 .. n - five : t[i] = b[five + i]
    BY <1>4, <2>1, <2>2, StreamPiece
  <2>4. n - five = Len(u) BY <1>6, <1>9
  <2>5. ASSUME NEW i \in 1 .. Len(t) PROVE t[i] = u[i] BY <1>7, <1>9, <2>3, <2>4
  <2>6. t = u BY <1>2, <2>3, <2>4, <2>5, SeqEqual
  <2> QED BY <2>1, <2>2, <2>6
<1>11. PICK p : p = InOnePiece(b) OBVIOUS
<1>12. p.r = 1 /\ p.client.bodyBuf = u /\ p.client.consumedBytes = n
  <2>1. PICK k : k = 5 + Heads[h].framed OBVIOUS
  <2>2. k = n /\ ~ (Len(b) < k) /\ Len(b) >= 5 BY <1>6, <1>8, <1>9, <2>1
  <2>3. p.r = 1 /\ p.client.bodyBuf = SubSeq(b, 6, k) /\ p.client.consumedBytes = k
    BY <1>4, <1>7, <1>8, <1>11, <2>1, <2>2, PlainProgress
  <2> QED BY <1>10, <2>2, <2>3
<1>13. PICK k \in Nat : k = n - 1 BY <1>6, <1>9
<1>14. PICK a : a = SubSeq(b, 1, k) OBVIOUS
<1>15. a \in Seq(Unit) /\ Len(a) = 4 + Len(u) /\ \A i \in 1 .. k : a[i] = b[i]
  <2>1. zero + 1 = 1 /\ zero <= k /\ k <= Len(b) BY <1>6, <1>9, <1>13
  <2>2. /\ a \in Seq(Unit) /\ Len(a) = k - zero /\ \A i \in 1 .. k - zero : a[i] = b[zero + i]
    BY <1>4, <1>14, <2>1, StreamPiece
  <2>3. k - zero = k /\ k = 4 + Len(u) BY <1>6, <1>9, <1>13
  <2>4. \A i \in 1 .. k : zero + i = i BY <1>9
  <2> QED BY <2>2, <2>3, <2>4
<1>16. InOnePiece(a).r = 0
  <2>1. CASE Len(u) = 0
    <3>1. Len(a) = 4 /\ 2 \in 1 .. k BY <1>6, <1>9, <1>13, <1>15, <2>1
    <3>2. a[2] = "CR" BY <1>7, <1>15, <3>1
    <3> QED BY <1>15, <3>1, <3>2, StillNoHead
  <2>2. CASE Len(u) # 0
    <3>1. Len(a) >= 5 /\ k >= 5 BY <1>6, <1>9, <1>13, <1>15, <2>2
    <3>2. \A i \in 1 .. 5 : a[i] = b[i] BY <1>15, <3>1
    <3>3. a[1] = h /\ a[2] = "CR" /\ a[3] = "LF" /\ a[4] = "CR" /\ a[5] = "LF" BY <1>7, <3>2
    <3>4. PICK w : w = 5 + Heads[h].framed OBVIOUS
    <3>5. Len(a) < w BY <1>6, <1>8, <1>15, <3>4
    <3> QED BY <1>8, <1>15, <3>1, <3>3, <3>4, <3>5, PlainProgress
  <2> QED BY <2>1, <2>2
<1>17. Len(Bytes(m)) = n /\ SubSeq(Bytes(m), 1, Len(Bytes(m)) - 1) = a BY <1>3, <1>9, <1>13, <1>14
<1> QED BY <1>2, <1>3, <1>8, <1>11, <1>12, <1>16, <1>17 DEF DecodedAlone

(* Requests with a Content-Length, or with no body, are never mixed: in    *)
(* any stream of them, split anywhere, whatever their bodies look like,    *)
(* each starts at its own head and has its own body, all of it.            *)
THEOREM PlainNeverMixed ==
  ASSUME \A w \in Wires : \A i \in DOMAIN w : Plain(w[i])
  PROVE  Spec => [](BodiesDecoded /\ StartsAtItsHead)
<1>1. ASSUME NEW w \in Wires, NEW i \in DOMAIN w PROVE DecodedAlone(w[i])
  <2>1. w[i] \in Messages BY WireAssumption
  <2> QED BY <2>1, PlainAlone
<1>2. EachAlone BY <1>1 DEF EachAlone
<1>3. Spec => []BodiesDecoded BY <1>2, BodiesAreDecoded
<1>4. Spec => []StartsAtItsHead BY <1>2, EachStartsAtItsHead
<1> QED BY <1>3, <1>4, PTL

-----------------------------------------------------------------------------
(* What is answered                                                        *)

Failing(checks) == {i \in DOMAIN checks : checks[i].if}

(* The first failure is all that counts.                                   *)
LEMMA FirstFailure ==
  ASSUME NEW S, NEW a \in Seq(S), NEW b \in Seq(S), NEW n \in 1 .. Len(a), n <= Len(b),
         \A i \in 1 .. n : a[i] = b[i], a[n].if
  PROVE  /\ Failing(a) # {} /\ Failing(b) # {}
         /\ Min(Failing(a)) = Min(Failing(b)) /\ Min(Failing(a)) \in 1 .. n
<1>1. Len(a) \in Nat /\ Len(b) \in Nat /\ DOMAIN a = 1 .. Len(a) /\ DOMAIN b = 1 .. Len(b)
  BY LenProperties
<1>2. n \in Nat /\ n \in 1 .. n /\ n \in DOMAIN a /\ n \in DOMAIN b BY <1>1
<1>3. n \in Failing(a) /\ n \in Failing(b) BY <1>2 DEF Failing
<1>4. Failing(a) \subseteq Nat /\ Failing(b) \subseteq Nat BY <1>1 DEF Failing
<1>5. PICK x : x = Min(Failing(a)) OBVIOUS
<1>6. PICK y : y = Min(Failing(b)) OBVIOUS
<1>7. x \in Failing(a) /\ \A i \in Failing(a) : x <= i BY <1>3, <1>4, <1>5, Least
<1>8. y \in Failing(b) /\ \A i \in Failing(b) : y <= i BY <1>3, <1>4, <1>6, Least
<1>9. x \in 1 .. n /\ y \in 1 .. n
  <2>1. x \in 1 .. Len(a) /\ y \in 1 .. Len(b) /\ x <= n /\ y <= n
    BY <1>1, <1>3, <1>7, <1>8 DEF Failing
  <2> QED BY <1>1, <1>2, <2>1
<1>10. x \in Failing(b) /\ y \in Failing(a)
  <2>1. \A i \in 1 .. n : i \in DOMAIN a /\ i \in DOMAIN b BY <1>1
  <2> QED BY <1>7, <1>8, <1>9, <2>1 DEF Failing
<1>11. x = y BY <1>7, <1>8, <1>9, <1>10
<1> QED BY <1>3, <1>5, <1>6, <1>9, <1>11

(* The checks of the parser, in their order.                               *)
Refusals == [if : BOOLEAN, code : Nat \ {0}]
HeadChecks(h, rest) == (<<parseTarget(h)>> \o parseHeaders(h, rest)) \o <<parseCookieHeader(h)>>
Checks(h, rest) == (HeadChecks(h, rest) \o parseBody(h, rest)) \o postParsingValidation(h)

Verdict(h, checks) ==
  IF h.line = "bad" THEN 400
  ELSE IF Failing(checks) = {} THEN 0 ELSE checks[Min(Failing(checks))].code

LEMMA ParserIs ==
  ASSUME NEW h, NEW rest
  PROVE  parseRawRequest(h, rest) = Verdict(h, Checks(h, rest))
BY Zenon DEF parseRawRequest, Checks, HeadChecks, Failing, Verdict

LEMMA HeadChecksTyped ==
  ASSUME NEW h, NEW rest
  PROVE  HeadChecks(h, rest) \in Seq(Refusals) /\ Len(HeadChecks(h, rest)) = 7
<1>1. PICK x \in Seq(Refusals) : x = <<parseTarget(h)>> /\ Len(x) = 1
  <2>1. parseTarget(h) \in Refusals BY DEF parseTarget, Check, Refusals
  <2>2. <<parseTarget(h)>> \in Seq(Refusals) /\ Len(<<parseTarget(h)>>) = 1 BY <2>1
  <2> QED BY <2>2
<1>2. PICK y \in Seq(Refusals) : y = parseHeaders(h, rest) /\ Len(y) = 5
  <2>1. parseHeaders(h, rest) \in Seq(Refusals)
    BY DEF parseHeaders, checkForNUL, processCarriageReturn, parseHeaderKeyValuePair,
           handleEndOfHeaders, Check, Refusals
  <2>2. Len(parseHeaders(h, rest)) = 5 BY DEF parseHeaders
  <2> QED BY <2>1, <2>2
<1>3. PICK z \in Seq(Refusals) : z = <<parseCookieHeader(h)>> /\ Len(z) = 1
  <2>1. parseCookieHeader(h) \in Refusals BY DEF parseCookieHeader, Check, Refusals
  <2>2. <<parseCookieHeader(h)>> \in Seq(Refusals) /\ Len(<<parseCookieHeader(h)>>) = 1 BY <2>1
  <2> QED BY <2>2
<1>4. PICK u \in Seq(Refusals) : u = x \o y /\ Len(u) = 6
  <2>1. PICK w : w = x \o y OBVIOUS
  <2>2. w \in Seq(Refusals) /\ Len(w) = Len(x) + Len(y) BY <2>1, Joined
  <2>3. Len(w) = 6 BY <1>1, <1>2, <2>2
  <2> QED BY <2>1, <2>2, <2>3, Zenon
<1>5. PICK v \in Seq(Refusals) : v = u \o z /\ Len(v) = 7
  <2>1. PICK w : w = u \o z OBVIOUS
  <2>2. w \in Seq(Refusals) /\ Len(w) = Len(u) + Len(z) BY <2>1, Joined
  <2>3. Len(w) = 7 BY <1>3, <1>4, <2>2
  <2> QED BY <2>1, <2>2, <2>3, Zenon
<1>6. HeadChecks(h, rest) = v BY <1>1, <1>2, <1>3, <1>4, <1>5, Zenon DEF HeadChecks
<1> QED BY <1>5, <1>6

LEMMA BodyChecksTyped ==
  ASSUME NEW h, NEW rest, h.method \notin Bodiless, h.declared # NoLength, h.te # "none"
  PROVE  /\ parseBody(h, rest) \in Seq(Refusals) /\ Len(parseBody(h, rest)) = 6
         /\ parseBody(h, rest)[1] = [if |-> TRUE, code |-> 400]
<1>1. parseBody(h, rest) \in Seq(Refusals) BY DEF parseBody, Check, Refusals
<1>2. Len(parseBody(h, rest)) = 6 BY DEF parseBody
<1>3. parseBody(h, rest)[1] = [if |-> TRUE, code |-> 400] BY DEF parseBody, Check
<1> QED BY <1>1, <1>2, <1>3

LEMMA LastChecksTyped == ASSUME NEW h PROVE postParsingValidation(h) \in Seq(Refusals)
BY DEF postParsingValidation, Check, Refusals

(* Where the checks that a body can change do not differ, the first that   *)
(* fails is the same.                                                      *)
LEMMA SameRefusal ==
  ASSUME NEW h, NEW u, NEW r, h.method \notin Bodiless, h.declared # NoLength, h.te # "none",
         HeadChecks(h, u) = HeadChecks(h, r)
  PROVE  parseRawRequest(h, u) = parseRawRequest(h, r) /\ parseRawRequest(h, u) # 0
<1>1. PICK x \in Seq(Refusals) : x = HeadChecks(h, u) /\ Len(x) = 7 BY HeadChecksTyped
<1>2. PICK y \in Seq(Refusals) : y = parseBody(h, u) /\ Len(y) = 6 BY BodyChecksTyped
<1>3. PICK z \in Seq(Refusals) : z = parseBody(h, r) /\ Len(z) = 6 BY BodyChecksTyped
<1>4. y[1] = z[1] /\ y[1].if BY <1>2, <1>3, BodyChecksTyped
<1>5. PICK e \in Seq(Refusals) : e = postParsingValidation(h) BY LastChecksTyped
<1>6. PICK eight \in Nat : eight = 8 OBVIOUS
<1>7. ASSUME NEW b \in Seq(Refusals), Len(b) = 6
      PROVE  /\ (x \o b) \o e \in Seq(Refusals) /\ Len((x \o b) \o e) >= eight
             /\ Len((x \o b) \o e) \in Nat
             /\ \A i \in 1 .. 7 : ((x \o b) \o e)[i] = x[i]
             /\ ((x \o b) \o e)[eight] = b[1]
  <2>1. PICK v : v = x \o b OBVIOUS
  <2>2. /\ v \in Seq(Refusals) /\ Len(v) = Len(x) + Len(b)
        /\ \A i \in 1 .. Len(x) : v[i] = x[i]
        /\ \A i \in 1 .. Len(b) : v[Len(x) + i] = b[i]
    BY <2>1, Joined
  <2>3. PICK w : w = v \o e OBVIOUS
  <2>4. /\ w \in Seq(Refusals) /\ Len(w) = Len(v) + Len(e)
        /\ \A i \in 1 .. Len(v) : w[i] = v[i]
    <3>1. v \in Seq(Refusals) BY <2>2
    <3> QED BY <2>3, <3>1, Joined
  <2>5. Len(e) \in Nat /\ Len(v) = 13 BY <1>1, <1>7, <2>2, LenProperties
  <2>6. Len(w) \in Nat /\ Len(w) >= eight BY <1>6, <2>4, <2>5
  <2>7. \A i \in 1 .. 7 : w[i] = x[i]
    <3>1. \A i \in 1 .. 7 : i \in 1 .. Len(x) /\ i \in 1 .. Len(v) BY <1>1, <2>5
    <3> QED BY <2>2, <2>4, <3>1
  <2>8. v[7 + 1] = b[1] BY <1>1, <1>7, <2>2
  <2>9. w[eight] = b[1] BY <1>6, <2>4, <2>5, <2>8
  <2> QED BY <2>1, <2>3, <2>4, <2>6, <2>7, <2>9
<1>8. PICK a : a = (x \o y) \o e OBVIOUS
<1>9. PICK c0 : c0 = (x \o z) \o e OBVIOUS
<1>10. /\ a \in Seq(Refusals) /\ Len(a) >= eight /\ Len(a) \in Nat
       /\ (\A i \in 1 .. 7 : a[i] = x[i]) /\ a[eight] = y[1]
  BY <1>2, <1>7, <1>8
<1>11. /\ c0 \in Seq(Refusals) /\ Len(c0) >= eight /\ Len(c0) \in Nat
       /\ (\A i \in 1 .. 7 : c0[i] = x[i]) /\ c0[eight] = z[1]
  BY <1>3, <1>7, <1>9
<1>12. \A i \in 1 .. eight : a[i] = c0[i]
  <2>1. \A i \in 1 .. eight : i \in 1 .. 7 \/ i = eight BY <1>6
  <2> QED BY <1>4, <1>10, <1>11, <2>1
<1>13. /\ Failing(a) # {} /\ Failing(c0) # {}
       /\ Min(Failing(a)) = Min(Failing(c0)) /\ Min(Failing(a)) \in 1 .. eight
  <2>1. eight \in 1 .. Len(a) /\ eight <= Len(c0) /\ a[eight].if BY <1>4, <1>6, <1>10, <1>11
  <2> QED BY <1>10, <1>11, <1>12, <2>1, FirstFailure
<1>14. PICK k : k = Min(Failing(a)) OBVIOUS
<1>15. a[k].code = c0[k].code /\ a[k].code # 0
  <2>1. k \in 1 .. eight /\ k \in 1 .. Len(a) BY <1>10, <1>13, <1>14
  <2>2. a[k] \in Refusals BY <1>10, <2>1, ElementOfSeq
  <2> QED BY <1>12, <2>1, <2>2 DEF Refusals
<1>16. a = Checks(h, u) /\ c0 = Checks(h, r)
  BY <1>1, <1>2, <1>3, <1>5, <1>8, <1>9, Zenon DEF Checks
<1>17. Verdict(h, a) = (IF h.line = "bad" THEN 400 ELSE a[k].code)
       /\ Verdict(h, c0) = (IF h.line = "bad" THEN 400 ELSE c0[k].code)
  BY <1>13, <1>14 DEF Verdict
<1>18. parseRawRequest(h, u) = Verdict(h, a) /\ parseRawRequest(h, r) = Verdict(h, c0)
  BY <1>16, ParserIs
<1> QED BY <1>15, <1>17, <1>18

(* What of a request is answered: the head at its front, and what follows  *)
(* the empty line.                                                         *)
LEMMA FrontOf ==
  ASSUME NEW m \in Messages, NEW x \in Seq(Unit), NEW d, d.inBuff = Bytes(m) \o x
  PROVE  HeadOf(d) = Heads[m.head] /\ Rest(d) = m.units \o x
<1>1. PICK h \in DOMAIN Heads, u \in Seq(Unit) : h = m.head /\ u = m.units BY DEF Messages
<1>2. PICK b \in Seq(Unit) : b = Bytes(m) BY MessageBytes
<1>3. LaidOut(b, h, u) BY <1>1, <1>2, BytesLaidOut
<1>4. PICK s \in Seq(Unit) : /\ s = b \o x /\ Len(s) = Len(b) + Len(x)
                             /\ \A i \in 1 .. Len(b) : s[i] = b[i]
                             /\ \A i \in 1 .. Len(x) : s[Len(b) + i] = x[i]
  <2>1. PICK w : w = b \o x OBVIOUS
  <2>2. /\ w \in Seq(Unit) /\ Len(w) = Len(b) + Len(x)
        /\ \A i \in 1 .. Len(b) : w[i] = b[i]
        /\ \A i \in 1 .. Len(x) : w[Len(b) + i] = x[i]
    BY <2>1, Joined
  <2> QED BY <2>1, <2>2
<1>5. d.inBuff = s BY <1>2, <1>4
<1>6. Len(b) = 5 + Len(u) /\ Len(u) \in Nat /\ Len(x) \in Nat BY <1>3, LenProperties DEF LaidOut
<1>7. /\ Len(s) = 5 + Len(u) + Len(x) /\ Len(s) >= 5
      /\ s[1] = h /\ s[2] = "CR" /\ s[3] = "LF" /\ s[4] = "CR" /\ s[5] = "LF"
      /\ \A i \in 1 .. Len(u) : s[5 + i] = u[i]
      /\ \A i \in 1 .. Len(x) : s[5 + Len(u) + i] = x[i]
  <2>1. Len(s) = 5 + Len(u) + Len(x) /\ Len(s) >= 5 BY <1>4, <1>6
  <2>2. \A i \in 1 .. 5 : s[i] = b[i] BY <1>4, <1>6
  <2>3. s[1] = h /\ s[2] = "CR" /\ s[3] = "LF" /\ s[4] = "CR" /\ s[5] = "LF"
    BY <1>3, <2>2 DEF LaidOut
  <2>4. \A i \in 1 .. Len(u) : 5 + i \in 1 .. Len(b) BY <1>6
  <2>5. \A i \in 1 .. Len(u) : s[5 + i] = u[i] BY <1>3, <1>4, <2>4 DEF LaidOut
  <2>6. \A i \in 1 .. Len(x) : s[5 + Len(u) + i] = x[i] BY <1>4, <1>6
  <2> QED BY <2>1, <2>3, <2>5, <2>6
<1>8. HeadEnd(Fresh(s)) = 1 /\ HeadIn(SubSeq(s, 1, 1)) = Heads[h]
  <2>1. SubSeq(s, 2, 5) = Eol \o Eol BY <1>7, LineInPlace
  <2> QED BY <1>7, <2>1, HeadAtFront
<1>9. HeadEnd(d) = 1
  <2>1. Fresh(s).inBuff = s BY FreshFields
  <2>2. HeadEnd(d) = HeadEnd(Fresh(s)) BY <1>5, <2>1 DEF HeadEnd
  <2> QED BY <1>8, <2>2
<1>10. HeadOf(d) = Heads[h] BY <1>5, <1>8, <1>9, HeadIs
<1>11. PICK five \in Nat, n \in Nat : five = 5 /\ n = Len(s) BY LenProperties
<1>12. PICK r : r = SubSeq(s, five + 1, n) OBVIOUS
<1>13. r \in Seq(Unit) /\ Len(r) = n - five /\ \A i \in 1 .. n - five : r[i] = s[five + i]
  <2>1. five <= n /\ n <= Len(s) BY <1>7, <1>11
  <2> QED BY <1>12, <2>1, StreamPiece
<1>14. Rest(d) = r
  <2>1. Rest(d) = SubSeq(s, 1 + 5, Len(s)) BY <1>5, <1>9 DEF Rest
  <2>2. 1 + 5 = five + 1 BY <1>11
  <2> QED BY <1>11, <1>12, <2>1, <2>2
<1>15. r = u \o x
  <2>1. PICK v : v = u \o x OBVIOUS
  <2>2. /\ v \in Seq(Unit) /\ Len(v) = Len(u) + Len(x)
        /\ \A i \in 1 .. Len(u) : v[i] = u[i]
        /\ \A i \in 1 .. Len(x) : v[Len(u) + i] = x[i]
    BY <2>1, Joined
  <2>3. Len(r) = Len(u) + Len(x) /\ n - five = Len(u) + Len(x) BY <1>6, <1>7, <1>11, <1>13
  <2>4. ASSUME NEW i \in 1 .. Len(r) PROVE r[i] = v[i]
    <3>1. i \in 1 .. Len(u) + Len(x) BY <2>3, <2>4
    <3>2. r[i] = s[five + i] BY <1>13, <2>3, <2>4
    <3>3. CASE i <= Len(u)
      <4>1. i \in 1 .. Len(u) BY <1>6, <3>1, <3>3
      <4>2. s[five + i] = u[i] BY <1>7, <1>11, <4>1
      <4> QED BY <2>2, <3>2, <4>1, <4>2
    <3>4. CASE ~ (i <= Len(u))
      <4>1. PICK k : k = i - Len(u) OBVIOUS
      <4>2. k \in 1 .. Len(x) /\ Len(u) + k = i /\ 5 + Len(u) + k = five + i
        BY <1>6, <1>11, <3>1, <3>4, <4>1
      <4>3. s[five + i] = x[k] /\ v[i] = x[k] BY <1>7, <2>2, <4>2
      <4> QED BY <3>2, <4>3
    <3> QED BY <3>3, <3>4
  <2>5. r = v BY <1>13, <2>2, <2>3, <2>4, SeqEqual
  <2> QED BY <2>1, <2>5
<1> QED BY <1>1, <1>10, <1>14, <1>15

(* An empty line after the headers is seen whatever follows, unless the    *)
(* first half of its end is all there is.                                  *)
LEMMA SameEmptyLine ==
  ASSUME NEW u \in Seq(Unit), NEW x \in Seq(Unit), x # << >> => x[1] \in DOMAIN Heads,
         u # <<"CR">> \/ x = << >>
  PROVE  EmptyLineFollows(u) = EmptyLineFollows(u \o x)
<1>1. CASE x = << >>
  <2>1. u \o x = u BY <1>1, ConcatEmptySeq
  <2> QED BY <2>1
<1>2. CASE x # << >>
  <2>1. PICK r : r = u \o x OBVIOUS
  <2>2. /\ r \in Seq(Unit) /\ Len(r) = Len(u) + Len(x)
        /\ \A i \in 1 .. Len(u) : r[i] = u[i]
        /\ \A i \in 1 .. Len(x) : r[Len(u) + i] = x[i]
    BY <2>1, Joined
  <2>3. Len(u) \in Nat /\ Len(x) \in Nat /\ Len(x) # 0 /\ Len(r) # 0
    <3>1. Len(u) \in Nat /\ Len(x) \in Nat BY LenProperties
    <3>2. Len(x) # 0 BY <1>2, EmptySeq
    <3> QED BY <2>2, <3>1, <3>2
  <2>4. r # << >> BY <2>3
  <2>5. 1 \in 1 .. Len(x) /\ r[Len(u) + 1] = x[1] BY <2>2, <2>3
  <2>6. r[Len(u) + 1] # "LF" /\ r[Len(u) + 1] # "CR" BY <1>2, <2>5, HeadAssumption
  <2>7. CASE Len(u) = 0
    <3>1. u = << >> BY <2>7, EmptySeq
    <3>2. r[1] # "LF" /\ r[1] # "CR" BY <2>6, <2>7
    <3>3. ~EmptyLineFollows(u) /\ ~EmptyLineFollows(r) BY <3>1, <3>2 DEF EmptyLineFollows
    <3> QED BY <2>1, <3>3 DEF EmptyLineFollows
  <2>8. CASE Len(u) = 1
    <3>1. u # << >> /\ r[1] = u[1] /\ r[2] # "LF"
      <4>1. 1 \in 1 .. Len(u) /\ Len(u) + 1 = 2 BY <2>8
      <4>2. r[2] # "LF" BY <2>6, <4>1
      <4>3. r[1] = u[1] BY <2>2, <4>1
      <4>4. u # << >> BY <2>8, EmptySeq
      <4> QED BY <4>2, <4>3, <4>4
    <3>2. u[1] # "CR"
      <4>1. SUFFICES ASSUME u[1] = "CR" PROVE FALSE OBVIOUS
      <4>2. "CR" \in Unit BY DEF Unit
      <4>3. PICK one \in Seq(Unit) : one = <<"CR">> /\ Len(one) = 1 /\ one[1] = "CR"
        <5>1. PICK e \in Unit : e = "CR" BY <4>2
        <5>2. <<e>> \in Seq(Unit) /\ Len(<<e>>) = 1 /\ <<e>>[1] = e OBVIOUS
        <5> QED BY <5>1, <5>2
      <4>4. \A i \in 1 .. Len(u) : u[i] = one[i] BY <2>8, <4>1, <4>3
      <4>5. u = one BY <2>8, <4>3, <4>4, SeqEqual
      <4> QED BY <1>2, <4>3, <4>5
    <3>3. EmptyLineFollows(u) <=> u[1] = "LF" BY <3>1, <3>2 DEF EmptyLineFollows
    <3>4. EmptyLineFollows(r) <=> u[1] = "LF" BY <2>4, <3>1, <3>2 DEF EmptyLineFollows
    <3> QED BY <2>1, <3>3, <3>4 DEF EmptyLineFollows
  <2>9. CASE Len(u) >= 2
    <3>1. u # << >> /\ r[1] = u[1] /\ r[2] = u[2] BY <2>2, <2>9
    <3>2. Len(u) # 1 /\ Len(r) # 1 BY <2>2, <2>3, <2>9
    <3>3. EmptyLineFollows(u) <=> (u[1] = "LF" \/ (u[1] = "CR" /\ u[2] = "LF"))
      BY <3>1, <3>2 DEF EmptyLineFollows
    <3>4. EmptyLineFollows(r) <=> (u[1] = "LF" \/ (u[1] = "CR" /\ u[2] = "LF"))
      BY <2>4, <3>1, <3>2 DEF EmptyLineFollows
    <3> QED BY <2>1, <3>3, <3>4 DEF EmptyLineFollows
  <2>10. Len(u) = 0 \/ Len(u) = 1 \/ Len(u) >= 2
    <3>1. PICK k \in Nat : k = Len(u) BY <2>3
    <3>2. k = 0 \/ k = 1 \/ k >= 2 BY <3>1
    <3> QED BY <3>1, <3>2
  <2> QED BY <2>7, <2>8, <2>9, <2>10, Zenon
<1> QED BY <1>1, <1>2

(* The answer depends on nothing but the bytes. *)
LEMMA ReplyOf ==
  ASSUME NEW b \in Seq(Unit), NEW d, d.inBuff = b PROVE Reply(d) = Reply(Fresh(b))
<1>1. Fresh(b).inBuff = b BY FreshFields
<1>2. HeadEnd(d) = HeadEnd(Fresh(b)) BY <1>1, Zenon DEF HeadEnd
<1>3. HeadOf(d) = HeadOf(Fresh(b)) BY <1>1, <1>2, HeadIs
<1>4. Rest(d) = Rest(Fresh(b)) BY <1>1, <1>2, Zenon DEF Rest
<1> QED BY <1>3, <1>4, Zenon DEF Reply

(* What a next request may begin with, and what it is no part of.          *)
Harmless(m, x) ==
  x # << >> => /\ x[1] \in DOMAIN Heads
               /\ Heads[m.head].method \notin Bodiless /\ m.units # <<"CR">>

(* The bytes of the next request change nothing but in the two cases that  *)
(* AnsweredAsAlone excepts.                                                *)
LEMMA SameReply ==
  ASSUME NEW m \in Messages, Declared(m), NEW x \in Seq(Unit),
         Harmless(m, x)
  PROVE  Reply(Fresh(Bytes(m))) = Reply(Fresh(Bytes(m) \o x))
<1>0. PICK d, e : /\ d = Fresh(Bytes(m)) /\ d.inBuff = Bytes(m)
                  /\ e = Fresh(Bytes(m) \o x) /\ e.inBuff = Bytes(m) \o x
  <2>1. PICK b \in Seq(Unit) : b = Bytes(m) BY MessageBytes
  <2>2. PICK t \in Seq(Unit) : t = b \o x
    <3>1. b \o x \in Seq(Unit) BY Joined
    <3> QED BY <3>1
  <2>3. Fresh(b).inBuff = b /\ Fresh(t).inBuff = t BY FreshFields
  <2> QED BY <2>1, <2>2, <2>3
<1> SUFFICES Reply(d) = Reply(e) BY <1>0
<1>1. PICK u, h : u = m.units /\ u \in Seq(Unit) /\ h = Heads[m.head] BY DEF Messages
<1>2. h.declared \in Int BY <1>1, HeadAssumption DEF Messages
<1>3. PICK none \in Seq(Unit) : none = << >>
  <2>1. << >> \in Seq(Unit) BY EmptySeq
  <2> QED BY <2>1
<1>4. HeadOf(d) = h /\ Rest(d) = u
  <2>1. PICK b \in Seq(Unit) : b = Bytes(m) BY MessageBytes
  <2>2. b \o none = b /\ u \o none = u BY <1>3, ConcatEmptySeq
  <2>3. d.inBuff = Bytes(m) \o none BY <1>0, <2>1, <2>2
  <2>4. HeadOf(d) = Heads[m.head] /\ Rest(d) = m.units \o none BY <2>3, FrontOf
  <2> QED BY <1>1, <2>2, <2>4
<1>5. PICK r : r = u \o x OBVIOUS
<1>6. HeadOf(e) = h /\ Rest(e) = r BY <1>0, <1>1, <1>5, FrontOf
<1>7. CASE x = << >>
  <2>1. r = u BY <1>5, <1>7, ConcatEmptySeq
  <2> QED BY <1>4, <1>6, <2>1, Zenon DEF Reply
<1>8. CASE x # << >>
  <2>1. h.method \notin Bodiless /\ u # <<"CR">> /\ x[1] \in DOMAIN Heads
    BY <1>1, <1>8 DEF Harmless
  <2>2. EmptyLineFollows(u) = EmptyLineFollows(r) BY <1>1, <1>5, <2>1, SameEmptyLine
  <2>3. HeadChecks(h, u) = HeadChecks(h, r)
    <3>1. handleEndOfHeaders(h, u) = handleEndOfHeaders(h, r) BY <2>2, Zenon DEF handleEndOfHeaders
    <3>2. parseHeaders(h, u) = parseHeaders(h, r) BY <3>1, Zenon DEF parseHeaders
    <3> QED BY <3>2, Zenon DEF HeadChecks
  <2>4. CASE h.declared # NoLength /\ h.te # "none"
    <3>1. parseRawRequest(h, u) = parseRawRequest(h, r) /\ parseRawRequest(h, u) # 0
      BY <2>1, <2>3, <2>4, SameRefusal
    <3> QED BY <1>4, <1>6, <3>1, Zenon DEF Reply
  <2>5. CASE ~ (h.declared # NoLength /\ h.te # "none")
    <3>1. Len(u) \in Nat /\ Len(r) = Len(u) + Len(x) /\ Len(x) \in Nat BY <1>5, Joined, LenProperties
    <3>2. h.declared <= Len(u) /\ h.declared <= Len(r)
      <4>1. CASE h.te = "none"
        <5>1. h.declared <= Len(u) BY <1>1, <4>1 DEF Declared
        <5> QED BY <1>2, <3>1, <5>1
      <4>2. CASE h.te # "none"
        <5>1. h.declared = -1 BY <2>5, <4>2 DEF NoLength
        <5> QED BY <3>1, <5>1
      <4> QED BY <4>1, <4>2
    <3>3. Check(h.declared > Len(u), 400) = Check(h.declared > Len(r), 400)
      BY <1>2, <3>1, <3>2 DEF Check
    <3>4. parseBody(h, u) = parseBody(h, r) BY <2>1, <3>3 DEF parseBody
    <3>5. Checks(h, u) = Checks(h, r) BY <2>3, <3>4, Zenon DEF Checks
    <3>6. parseRawRequest(h, u) = parseRawRequest(h, r) BY <3>5, ParserIs
    <3>7. RequestBody(h, u) = RequestBody(h, r)
      <4>1. CASE h.declared > 0
        <5>1. h.declared \in Int /\ h.declared <= Len(u) BY <1>2, <3>2
        <5>2. PICK one \in Nat \ {0} : one = 1 OBVIOUS
        <5>3. SubSeq(u \o x, one, h.declared) = SubSeq(u, one, h.declared) BY <5>1, PieceStays
        <5> QED BY <1>5, <4>1, <5>2, <5>3 DEF RequestBody
      <4>2. CASE ~ (h.declared > 0) BY <4>2 DEF RequestBody
      <4> QED BY <4>1, <4>2
    <3> QED BY <1>4, <1>6, <3>6, <3>7, Zenon DEF Reply
  <2> QED BY <2>4, <2>5
<1> QED BY <1>7, <1>8

(* A request is answered as if it had been sent alone and in one piece,    *)
(* but for the bytes of the next one that parseBody and handleEndOfHeaders *)
(* look at.                                                                *)
THEOREM AnsweredLikeAlone ==
  ASSUME EachAlone, EachDeclared PROVE Spec => []AnsweredAsAlone
<1>1. Kept => AnsweredAsAlone
  <2> SUFFICES ASSUME Kept, NEW i \in Answered, Of(i) # {}, Message(i).wellFormed,
                      ~ /\ answers[i].seen > End(i)
                        /\ Heads[Message(i).head].method \in Bodiless \/ Message(i).units = <<"CR">>
               PROVE  /\ answers[i].code = Reply(Alone(Message(i))).code
                      /\ answers[i].body = Reply(Alone(Message(i))).body
    BY DEF AnsweredAsAlone
  <2>1. i \in 1 .. Len(answers) BY DEF Kept, History, Recorded, Listed, Answered
  <2>2. PICK j \in 1 .. Len(wire) : Message(i) = wire[j] /\ Start(wire, j) = answers[i].at
    BY <2>1, MessageOf
  <2>3. wire \in Seq(Messages) /\ wire \in Wires BY DEF Kept, Inv, Buffered
  <2>4. j \in DOMAIN wire /\ wire[j] \in Messages /\ Len(wire) \in Nat BY <2>3, LenProperties, ElementOfSeq
  <2>5. DecodedAlone(wire[j]) /\ Declared(wire[j]) BY <2>3, <2>4 DEF EachAlone, EachDeclared
  <2>6. PICK a : a = answers[i] OBVIOUS
  <2>7. AnswerOK(a) BY <2>1, <2>6 DEF Kept, History, Recorded
  <2>8. /\ a.seen \in Nat /\ Start(wire, j) <= a.seen /\ a.seen <= Len(Stream(wire))
        /\ a.at = Start(wire, j) /\ Outcome(a).r # 0
        /\ a.code = Reply(Outcome(a).client).code /\ a.body = Reply(Outcome(a).client).body
    BY <2>2, <2>6, <2>7 DEF AnswerOK
  <2>9. PICK s \in Seq(Unit) : s = Stream(wire) /\ Len(s) \in Nat BY <2>3, StreamTyped, LenProperties
  <2>10. PICK k \in Nat, n \in Nat, e \in Nat :
           k = Start(wire, j) /\ n = Start(wire, j + 1) /\ e = a.seen
    BY <2>3, <2>8, StartMoves
  <2>11. n <= e
    <3>1. InOnePiece(SubSeq(s, k + 1, e)).r # 0 BY <2>8, <2>9, <2>10 DEF Outcome
    <3>2. e >= n
      BY <2>2, <2>3, <2>5, <2>8, <2>9, <2>10, <3>1, Whole
    <3> QED BY <3>2
  <2>12. PICK b \in Seq(Unit) : b = Bytes(wire[j]) /\ b = SubSeq(s, k + 1, n)
    BY <2>3, <2>4, <2>9, <2>10, MessageBytes, StartMoves
  <2>13. k <= n /\ n <= e /\ e <= Len(s)
    <3>1. k < n BY <2>3, <2>10, StartMoves
    <3> QED BY <2>8, <2>9, <2>10, <2>11, <3>1
  <2>14. PICK x : x = SubSeq(s, n + 1, e) OBVIOUS
  <2>15. x \in Seq(Unit) /\ Len(x) = e - n /\ \A q \in 1 .. e - n : x[q] = s[n + q]
    BY <2>13, <2>14, StreamPiece
  <2>16. SubSeq(s, k + 1, e) = b \o x
    <3>1. SubSeq(s, k + 1, n) \o SubSeq(s, n + 1, e) = SubSeq(s, k + 1, e) BY <2>13, PiecesJoin
    <3> QED BY <2>12, <2>14, <3>1
  <2>17. x # << >> => x[1] \in DOMAIN Heads
    <3> SUFFICES ASSUME x # << >> PROVE x[1] \in DOMAIN Heads OBVIOUS
    <3>1. Len(x) \in Nat /\ Len(x) # 0 BY <2>15, LenProperties, EmptySeq
    <3>2. n < e /\ 1 \in 1 .. e - n /\ x[1] = s[n + 1] BY <2>15, <3>1
    <3>3. PICK l : l = j + 1 OBVIOUS
    <3>4. l \in 1 .. Len(wire)
      <4>1. SUFFICES ASSUME l = Len(wire) + 1 PROVE FALSE BY <2>4, <3>3
      <4>2. n = Len(s) BY <2>3, <2>9, <2>10, <3>3, <4>1, StartEnds
      <4> QED BY <2>9, <2>13, <3>2, <4>2
    <3>5. wire[l] \in Messages BY <2>3, <3>4, ElementOfSeq
    <3>6. PICK y \in Seq(Unit) : y = Bytes(wire[l]) BY <3>5, MessageBytes
    <3>7. LaidOut(y, wire[l].head, wire[l].units) BY <3>5, <3>6, BytesLaidOut
    <3>8. PICK o \in Nat : o = Start(wire, l + 1) /\ n < o /\ o <= Len(s) /\ SubSeq(s, n + 1, o) = y
      BY <2>3, <2>9, <2>10, <3>3, <3>4, <3>6, StartMoves
    <3>9. \A q \in 1 .. o - n : SubSeq(s, n + 1, o)[q] = s[n + q]
      <4>1. n <= o BY <3>8
      <4> QED BY <3>8, <4>1, StreamPiece
    <3>10. 1 \in 1 .. o - n BY <3>8
    <3>11. y[1] = s[n + 1] BY <3>8, <3>9, <3>10
    <3>12. wire[l].head \in DOMAIN Heads BY <3>5 DEF Messages
    <3> QED BY <3>2, <3>7, <3>11, <3>12 DEF LaidOut
  <2>18. x # << >> => Heads[wire[j].head].method \notin Bodiless /\ wire[j].units # <<"CR">>
    <3>1. x # << >> => e > n
      <4>1. Len(x) \in Nat /\ (x # << >> => Len(x) # 0) BY <2>15, LenProperties, EmptySeq
      <4> QED BY <2>15, <4>1
    <3>2. End(i) = n BY <2>2, <2>3, <2>10, StartMoves DEF End
    <3> QED BY <2>2, <2>6, <2>10, <3>1, <3>2
  <2>19. PICK p : p = Outcome(a) OBVIOUS
  <2>20. p.client.inBuff = b \o x
    <3>1. b \o x \in Seq(Unit) BY <2>15, Joined
    <3>2. p = Progress(Fresh(b \o x)) BY <2>8, <2>9, <2>10, <2>16, <2>19, OnePieceIs DEF Outcome
    <3> QED BY <3>1, <3>2, ProgressReturns DEF ProgressOK
  <2>21. PICK d : d = Alone(wire[j]) OBVIOUS
  <2>22. d.inBuff = b
    <3>1. d = Progress(Fresh(b)).client BY <2>12, <2>21, OnePieceIs DEF Alone
    <3> QED BY <3>1, ProgressReturns DEF ProgressOK
  <2>23. Reply(d) = Reply(p.client)
    <3>1. PICK m \in Messages : m = wire[j] BY <2>4
    <3>2. PICK y \in Seq(Unit) : y = b \o x
      <4>1. b \o x \in Seq(Unit) BY <2>15, Joined
      <4> QED BY <4>1
    <3>3. Reply(d) = Reply(Fresh(b)) BY <2>22, ReplyOf
    <3>4. Reply(p.client) = Reply(Fresh(y)) BY <2>20, <3>2, ReplyOf
    <3>5. Harmless(m, x) BY <2>17, <2>18, <3>1 DEF Harmless
    <3>6. Declared(m) /\ x \in Seq(Unit) BY <2>5, <2>15, <3>1
    <3>7. Reply(Fresh(Bytes(m))) = Reply(Fresh(Bytes(m) \o x)) BY <3>5, <3>6, SameReply
    <3>8. b = Bytes(m) BY <2>12, <3>1
    <3> QED BY <3>2, <3>3, <3>4, <3>7, <3>8
  <2> QED BY <2>2, <2>6, <2>8, <2>19, <2>21, <2>23
<1> QED BY <1>1, HistoryKept, PTL DEF Spec

=============================================================================
