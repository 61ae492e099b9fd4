------------------------------- MODULE Requests -------------------------------
(***************************************************************************)
(* From bytes to requests: readOnce_ with its search for the end of the    *)
(* headers, the framing of the body, the chunk decoder, and the checks of  *)
(* HttpRequestParser, for one connection whose bytes arrive in pieces of   *)
(* any size.  A handler is the code it answers with; scripts are           *)
(* ServerLoop's.                                                           *)
(*                                                                         *)
(* A unit of the stream is a character of a body or a token: "CR", "LF",   *)
(* or a head, which stands for all header lines but the last line end.     *)
(***************************************************************************)
EXTENDS Integers, Sequences, FiniteSets, SequencesExt

CONSTANTS
  Heads,        \* [token -> what the framing and the parser see in it: its method,
                \*  the first fault of its request line and of its fields, how many
                \*  Hosts, chunked: whether the framing finds it so, te: the
                \*  Transfer-Encoding the parser finds, framed and declared: the
                \*  lengths they read, and what its handler answers]
  DigitValue,   \* [unit -> value]: the hexadecimal digits
  Radix,        \* 16
  SizeMax,      \* SIZE_MAX
  MaxBody,      \* client_max_body_size
  Wires         \* the sequences of messages a client may send

ASSUME RadixAssumption == Radix \in Nat /\ \A d \in DOMAIN DigitValue : DigitValue[d] \in 0 .. Radix - 1
ASSUME SizeAssumption == SizeMax \in Nat /\ SizeMax >= Radix /\ MaxBody \in Nat
ASSUME HeadAssumption ==
  \A h \in DOMAIN Heads :
    /\ h \notin {"CR", "LF"}
    /\ Heads[h].chunked \in BOOLEAN /\ Heads[h].framed \in Nat /\ Heads[h].declared \in Int

(* What a client may send: heads, and in the bodies anything.              *)
Unit == DOMAIN Heads \cup DOMAIN DigitValue \cup {"CR", "LF", ";", "x", "t"}
Messages == [head : DOMAIN Heads, units : Seq(Unit), data : Seq(Unit),
             wellFormed : BOOLEAN, trailers : BOOLEAN]
ASSUME WireAssumption == Wires \subseteq Seq(Messages)

VARIABLES
  up,           \* the process is alive
  open,         \* the connection is
  wire,         \* the messages the client sends
  arrived,      \* how many of their units recv() has returned
  c,            \* the Client record
  (* history *)
  erased,       \* units resetKeepAlive_ has taken off the front of inBuff
  answers       \* the answers so far

vars == <<up, open, wire, arrived, c, erased, answers>>

NewClient ==
  [inBuff |-> << >>, headersDone |-> FALSE, isChunked |-> FALSE, contentLength |-> 0,
   parsePos |-> 0, chunkStage |-> 0, chunkRemain |-> 0, bodyBuf |-> << >>,
   consumedBytes |-> 0, responseQueued |-> FALSE, closeFlag |-> FALSE]

(* A message of the client: its head, the units of its body, the data they *)
(* carry, and whether they are well-formed and end in trailers.            *)
Eol        == <<"CR", "LF">>
Bytes(m)   == <<m.head>> \o Eol \o Eol \o m.units
Stream(w)  == FlattenSeq([i \in DOMAIN w |-> Bytes(w[i])])
Start(w, i) == Len(Stream(SubSeq(w, 1, i - 1)))

Init ==
  /\ up = TRUE /\ open = TRUE
  /\ wire \in Wires
  /\ arrived = 0
  /\ c = NewClient
  /\ erased = 0 /\ answers = << >>

-----------------------------------------------------------------------------
(* Searching inBuff.  A position is the number of units before it.         *)

NPos == -1
Find(s, pattern, from) ==
  LET at == {p \in from .. Len(s) - Len(pattern) :
               SubSeq(s, p + 1, p + Len(pattern)) = pattern}
  IN IF at = {} THEN NPos ELSE Min(at)

Unread(d) == Len(d.inBuff) - d.parsePos

-----------------------------------------------------------------------------
(* Framing *)

(* The lines before the first empty one; what is no head token is a        *)
(* request line that does not parse.                                       *)
NotAHead == [line |-> "bad", chunked |-> FALSE, framed |-> 0]
HeadEnd(d) == Find(d.inBuff, Eol \o Eol, 0)
HeadOf(d) ==
  LET block == SubSeq(d.inBuff, 1, HeadEnd(d))
      text  == {i \in DOMAIN block : block[i] \notin ToSet(Eol)}
  IN IF \E i \in text : text = {i} /\ block[i] \in DOMAIN Heads
     THEN Heads[block[CHOOSE i \in text : TRUE]] ELSE NotAHead

findHeadersEndAndMark(d) ==
  IF HeadEnd(d) = NPos THEN d
  ELSE [d EXCEPT !.headersDone = TRUE, !.parsePos = HeadEnd(d) + 4]

(* The framing takes "Transfer-Encoding" in any case of letters, and finds *)
(* "chunked" anywhere in its value; the parser (parseBody) does neither.   *)
detectBodyFraming(d) ==
  IF ~d.headersDone THEN d
  ELSE [d EXCEPT !.isChunked = HeadOf(d).chunked, !.contentLength = HeadOf(d).framed]

Framed(d) == IF d.headersDone THEN d ELSE detectBodyFraming(findHeadersEndAndMark(d))

-----------------------------------------------------------------------------
(* The chunk decoder.  A step returns the client and r: 1 go on, 0 wait    *)
(* for more bytes, -1 malformed.                                           *)

Step(d, r) == [client |-> d, r |-> r]

(* The digits at the start of a size line; what follows them is skipped.   *)
Digits(line) ==
  LET other == {i \in DOMAIN line : line[i] \notin DOMAIN DigitValue}
  IN IF other = {} THEN line ELSE SubSeq(line, 1, Min(other) - 1)

Refused == -1

(* Mutant: the check for overflow is left out. *)
parseChunkSizeWraps(line) ==
  LET digits == Digits(line)
      size[n \in 0 .. Len(digits)] ==
        IF n = 0 THEN 0 ELSE (size[n - 1] * Radix + DigitValue[digits[n]]) % (SizeMax + 1)
  IN IF digits = << >> THEN Refused ELSE size[Len(digits)]

parseChunkSizeHex(line) ==
  LET digits == Digits(line)
      size[n \in 0 .. Len(digits)] ==
        IF n = 0 THEN 0
        ELSE LET v == size[n - 1]
                 d == DigitValue[digits[n]]
             IN IF v = Refused \/ v > (SizeMax - d) \div Radix THEN Refused ELSE v * Radix + d
  IN IF digits = << >> THEN Refused ELSE size[Len(digits)]

stepReadSizeLine(d) ==
  LET eol  == Find(d.inBuff, Eol, d.parsePos)
      semi == Find(d.inBuff, <<";">>, d.parsePos)
      end  == IF semi # NPos /\ semi < eol THEN semi ELSE eol
      size == parseChunkSizeHex(SubSeq(d.inBuff, d.parsePos + 1, end))
  IN IF eol = NPos THEN Step(d, 0)
     ELSE IF size = Refused THEN Step(d, -1)
     ELSE Step([d EXCEPT !.chunkRemain = size, !.parsePos = eol + 2,
                         !.chunkStage = IF size = 0 THEN 3 ELSE 1], 1)

(* Mutant: a chunk that arrived in part is waited for anew. *)
stepCopyAgain(d) ==
  LET take == Min({d.chunkRemain, Unread(d)})
      copied == [d EXCEPT !.bodyBuf = @ \o SubSeq(d.inBuff, d.parsePos + 1, d.parsePos + take),
                          !.parsePos = @ + take]
  IN IF take < d.chunkRemain THEN Step(copied, 0)
     ELSE Step([copied EXCEPT !.chunkStage = 2, !.chunkRemain = 0], 1)

stepCopyChunkData(d) ==
  LET take == Min({d.chunkRemain, Unread(d)})
      copied == [d EXCEPT !.bodyBuf = @ \o SubSeq(d.inBuff, d.parsePos + 1, d.parsePos + take),
                          !.parsePos = @ + take, !.chunkRemain = @ - take]
  IN IF copied.chunkRemain > 0 THEN Step(copied, 0)
     ELSE Step([copied EXCEPT !.chunkStage = 2], 1)

stepCheckLineCRLF(d) ==
  IF Unread(d) < 2 THEN Step(d, 0)
  ELSE IF SubSeq(d.inBuff, d.parsePos + 1, d.parsePos + 2) # Eol THEN Step(d, -1)
  ELSE Step([d EXCEPT !.parsePos = @ + 2, !.chunkStage = 0], 1)

(* Mutant: the last chunk ends the message, its empty line is left. *)
stepSkipTrailers(d) == Step([d EXCEPT !.chunkStage = 4], 1)

(* The end of trailers is found, but parsePos is left in front of them.    *)
stepConsumeTrailers(d) ==
  IF Unread(d) >= 2 /\ SubSeq(d.inBuff, d.parsePos + 1, d.parsePos + 2) = Eol
  THEN Step([d EXCEPT !.parsePos = @ + 2, !.chunkStage = 4], 1)
  ELSE IF Find(d.inBuff, Eol \o Eol, d.parsePos) = NPos THEN Step(d, 0)
  ELSE Step([d EXCEPT !.chunkStage = 4], 1)

ChunkStep(d) ==
  CASE d.chunkStage = 0 -> stepReadSizeLine(d)
    [] d.chunkStage = 1 -> stepCopyChunkData(d)
    [] d.chunkStage = 2 -> stepCheckLineCRLF(d)
    [] d.chunkStage = 3 -> stepConsumeTrailers(d)

Client ==
  [inBuff : Seq(Unit), headersDone : BOOLEAN, isChunked : BOOLEAN, contentLength : Nat,
   parsePos : Nat, chunkStage : 0 .. 4, chunkRemain : 0 .. SizeMax, bodyBuf : Seq(Unit),
   consumedBytes : Nat, responseQueued : BOOLEAN, closeFlag : BOOLEAN]

unchunkStep[d \in Client] ==
  IF d.chunkStage = 4 THEN Step([d EXCEPT !.consumedBytes = d.parsePos], 1)
  ELSE LET s == ChunkStep(d) IN IF s.r = 1 THEN unchunkStep[s.client] ELSE s

(* Mutant: the body is not waited for. *)
readPlainBodyAtOnce(d) ==
  Step([d EXCEPT !.bodyBuf = SubSeq(d.inBuff, d.parsePos + 1, Len(d.inBuff)),
                 !.consumedBytes = d.parsePos + d.contentLength], 1)

readPlainBody(d) ==
  IF Unread(d) < d.contentLength THEN Step(d, 0)
  ELSE Step([d EXCEPT !.bodyBuf = SubSeq(d.inBuff, d.parsePos + 1, d.parsePos + d.contentLength),
                      !.consumedBytes = d.parsePos + d.contentLength], 1)

(* What readOnce_ makes of the bytes it has. *)
Progress(d) ==
  LET f == Framed(d)
  IN IF ~f.headersDone THEN Step(f, 0)
     ELSE IF f.isChunked THEN unchunkStep[f] ELSE readPlainBody(f)

-----------------------------------------------------------------------------
(* parseRawRequest, over all of inBuff: the first check that fails.        *)

Rest(d) == SubSeq(d.inBuff, HeadEnd(d) + 5, Len(d.inBuff))

(* The line after the headers is empty, and not for want of bytes. *)
EmptyLineFollows(rest) ==
  /\ rest # << >>
  /\ rest[1] = "LF" \/ (rest[1] = "CR" /\ (Len(rest) = 1 \/ rest[2] = "LF"))

(* A line that is not empty, and ends: skipEmptyLines stops before eof. *)
LineFollows(rest) ==
  \E i, j \in DOMAIN rest : i < j /\ rest[i] \notin ToSet(Eol) /\ rest[j] = "LF"

Bodiless == {"GET", "DELETE"}
Implemented == Bodiless \cup {"POST"}
NoLength == -1
BadLength == -2

Check(fails, code) == [if |-> fails, code |-> code]

parseTarget(h) == Check(h.line = "long", 414)
checkForNUL(h) == Check(h.fields = "NUL", 400)
processCarriageReturn(h) == Check(h.fields = "stray CR", 400)

(* A line that starts with a blank, or has one before its colon; a second Host. *)
parseHeaderKeyValuePair(h) == Check(h.fields \in {"folded", "second Host"}, 400)

handleEndOfHeaders(h, rest) ==
  Check(h.host # 1 \/ (h.method # "GET" /\ EmptyLineFollows(rest)), 400)

parseHeaders(h, rest) ==
  << Check(h.fields = "too many", 431), checkForNUL(h), processCarriageReturn(h),
     parseHeaderKeyValuePair(h), handleEndOfHeaders(h, rest) >>

parseCookieHeader(h) == Check(h.cookie = "other", 501)

parseBody(h, rest) ==
  IF h.method \in Bodiless THEN <<Check(LineFollows(rest), 400)>>
  ELSE << Check(h.declared # NoLength /\ h.te # "none", 400),
          Check(h.declared = BadLength, 400),
          Check(h.declared > MaxBody, 413),
          Check(h.declared > Len(rest), 400),
          Check(h.te = "chunked", 501),
          Check(h.method = "POST" /\ h.declared = NoLength /\ h.te = "none", 400) >>

postParsingValidation(h) ==
  << Check(h.line = "lower case" \/ h.version = "", 400),
     Check(h.method \notin Implemented, 501),
     Check(h.version # "1.1", 505) >>

parseRawRequest(h, rest) ==
  IF h.line = "bad" THEN 400
  ELSE LET checks == <<parseTarget(h)>> \o parseHeaders(h, rest) \o <<parseCookieHeader(h)>>
                     \o parseBody(h, rest) \o postParsingValidation(h)
           failed == {i \in DOMAIN checks : checks[i].if}
       IN IF failed = {} THEN 0 ELSE checks[Min(failed)].code

(* Mutant: the body is all that follows the headers. *)
RequestBodyToTheEnd(h, rest) == IF h.declared > 0 THEN rest ELSE << >>

(* request.setBody *)
RequestBody(h, rest) == IF h.declared > 0 THEN SubSeq(rest, 1, h.declared) ELSE << >>

-----------------------------------------------------------------------------
(* readOnce_ *)

Fatal(code) == code = 400 \/ code \div 100 = 5

(* The answer of handleRequest: the parser's refusal, or the handler's.    *)
Reply(d) ==
  LET h == HeadOf(d)
      refusal == parseRawRequest(h, Rest(d))
  IN IF refusal # 0 THEN [code |-> refusal, body |-> << >>, bare |-> FALSE]
     ELSE [code |-> h.answer, body |-> RequestBody(h, Rest(d)), bare |-> h.bare]

(* The parser has not come to the Connection header of these.  (A header   *)
(* of the handler counts for chunked requests only, and none of those      *)
(* comes to a handler that writes "close".)                                *)
AskedToClose(d, code) ==
  code \notin {400, 414, 431} /\ HeadOf(d) # NotAHead /\ HeadOf(d).close

Closes(d, r, code) == r < 0 \/ Fatal(code) \/ (code >= 400 /\ AskedToClose(d, code))

Queue(s) ==
  LET reply == Reply(s.client)
  IN /\ c' = [s.client EXCEPT !.responseQueued = TRUE,
                              !.closeFlag = Closes(s.client, s.r, reply.code)]
     /\ answers' = Append(answers, [code |-> reply.code, body |-> reply.body, r |-> s.r,
                                    decoded |-> s.client.bodyBuf, at |-> erased, seen |-> arrived'])

(* A chunked request is asked for a header its response need not have; the *)
(* exception is none that handleRequest or run() catches.                  *)
QueueChunked(s) ==
  IF Reply(s.client).bare
  THEN up' = FALSE /\ c' = s.client /\ UNCHANGED answers
  ELSE up' = up /\ Queue(s)

Receives(d) ==
  IF d.responseQueued THEN c' = d /\ UNCHANGED <<up, answers>>
  ELSE LET s == Progress(d)
       IN IF s.r = 0 THEN c' = s.client /\ UNCHANGED <<up, answers>>
          ELSE IF s.client.isChunked THEN QueueChunked(s) ELSE Queue(s) /\ UNCHANGED up

readOnce ==
  /\ up /\ open
  /\ \E n \in 1 .. Len(Stream(wire)) - arrived :
       /\ arrived' = arrived + n
       /\ Receives([c EXCEPT !.inBuff = @ \o SubSeq(Stream(wire), arrived + 1, arrived + n)])
  /\ UNCHANGED <<open, wire, erased>>

(* writeOnce_ has sent the last byte. *)
resetKeepAlive ==
  /\ c' = [NewClient EXCEPT !.inBuff = SubSeq(c.inBuff, c.consumedBytes + 1, Len(c.inBuff))]
  /\ erased' = erased + c.consumedBytes
  /\ UNCHANGED open

closeClient == open' = FALSE /\ UNCHANGED <<c, erased>>

writeOnce ==
  /\ up /\ open /\ c.responseQueued
  /\ IF c.closeFlag THEN closeClient ELSE resetKeepAlive
  /\ UNCHANGED <<up, wire, arrived, answers>>

Next == readOnce \/ writeOnce

Spec == Init /\ [][Next]_vars

-----------------------------------------------------------------------------
Answered == DOMAIN answers
(* The message whose head is at the front of the request that was answered. *)
Of(i) == {j \in DOMAIN wire : Start(wire, j) = answers[i].at}
Message(i) == wire[CHOOSE j \in Of(i) : TRUE]
End(i) == answers[i].at + Len(Bytes(Message(i)))

TypeOK ==
  /\ up \in BOOLEAN /\ open \in BOOLEAN
  /\ c \in Client
  /\ c.parsePos <= Len(c.inBuff) /\ c.consumedBytes <= Len(c.inBuff)
  /\ erased + Len(c.inBuff) = arrived

(* What becomes of bytes that have all come at once. *)
InOnePiece(s) == Progress([NewClient EXCEPT !.inBuff = s])

(* A request that waits for bytes is where it would be had all it has come *)
(* in one piece: the decoder resumes at every split of unchunkStep_ and    *)
(* readOnce_ loses nothing, counts nothing twice, and leaves no complete   *)
(* request waiting.  Not covered: a next request that is all in inBuff when*)
(* resetKeepAlive_ clears headersDone, and is looked at only once more     *)
(* bytes come.                                                             *)
SplitsDoNotMatter ==
  (up /\ c.headersDone /\ ~c.responseQueued) =>
     InOnePiece(c.inBuff) = Step(c, 0)

(* What the descriptions of messages promise of each by itself and in one  *)
(* piece: a well-formed one is over with its last unit, and not before it, *)
(* and has its data; a malformed one is refused.                           *)
DecodedAlone(m) ==
  LET whole == InOnePiece(Bytes(m))
  IN IF ~m.wellFormed THEN whole.r = -1
     ELSE /\ whole.r = 1 /\ whole.client.bodyBuf = m.data
          /\ m.trailers \/ whole.client.consumedBytes = Len(Bytes(m))
          /\ InOnePiece(SubSeq(Bytes(m), 1, Len(Bytes(m)) - 1)).r = 0

(* The length the parser reads is no more than that of the body, unless    *)
(* there is a Transfer-Encoding beside it.                                 *)
Declared(m) == Heads[m.head].te # "none" \/ Heads[m.head].declared <= Len(m.units)

(* What the theorems about streams suppose of the messages in them.        *)
EachAlone == \A w \in Wires : \A i \in DOMAIN w : DecodedAlone(w[i])
EachDeclared == \A w \in Wires : \A i \in DOMAIN w : Declared(w[i])

(* No request is answered before all of it is there, unless its chunks are *)
(* malformed; and the body the framing takes out of the stream is what the *)
(* client put in, whatever looks like a line end or a size inside it.      *)
BodiesDecoded ==
  \A i \in Answered : Of(i) # {} =>
    IF Message(i).wellFormed
    THEN answers[i].r = 1 /\ answers[i].seen >= End(i) /\ answers[i].decoded = Message(i).data
    ELSE answers[i].r = -1

(* Every request starts where the message before it ended, however the two *)
(* came apart, as long as none before it had trailers; and nothing behind a *)
(* malformed one is read as a request.                                     *)
StartsAtItsHead ==
  \A i \in Answered :
    \/ Of(i) = {i} /\ (\A j \in 1 .. i - 1 : Message(j).wellFormed)
    \/ \E j \in 1 .. i - 1 : wire[j].trailers

(* The answer to a message is that to the message alone, in one piece: no  *)
(* split and nothing sent behind it shows, but where bytes of the next     *)
(* request are in the buffer already: parseBody takes them for the body of *)
(* a GET or a DELETE, and handleEndOfHeaders, which refuses a lone CR at   *)
(* the end of the buffer as an empty line, does not see one.               *)
Alone(m) == InOnePiece(Bytes(m)).client
AnsweredAsAlone ==
  \A i \in Answered : Of(i) # {} =>
    \/ answers[i].code = Reply(Alone(Message(i))).code
       /\ answers[i].body = Reply(Alone(Message(i))).body
    \/ /\ answers[i].seen > End(i)
       /\ Heads[Message(i).head].method \in Bodiless \/ Message(i).units = <<"CR">>
    \/ ~Message(i).wellFormed
=============================================================================
